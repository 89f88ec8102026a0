----------------------------- MODULE Answerability -----------------------------
(***************************************************************************)
(* The check of an answer that the retrieval loop is about to release: a   *)
(* dossier is built from the final evidence and the relations the host     *)
(* observed, a model that nobody trusts judges it once, and its decision   *)
(* is parsed before it counts.                                             *)
(*                                                                         *)
(* Bodies, and with them the budget of characters, are left out; so are    *)
(* digests, which the host computes of what it binds.  Probabilities are   *)
(* those that the code tells apart.                                        *)
(***************************************************************************)
EXTENDS Integers, Sequences, FiniteSets, Functions, SequencesExt

CONSTANTS
    Node,                  \* candidate ids
    Id, Reads,             \* edge ids, and those of authorized reads
    Given,                 \* what the loop may hand over, see Input
    MaxNodes, MaxEdges, MaxPaths, MaxFacets,
    None

VARIABLES given, payload, decision, outcome

vars == <<given, payload, decision, outcome>>

Edge == [id : Id, from : Node, to : Node]

Input == [relations : SUBSET Edge, finals : SUBSET Node, visible : SUBSET Node,
          reopened : SUBSET Node, unbound : SUBSET Node]

Init == given \in Given /\ payload = None /\ decision = None /\ outcome = "none"

-----------------------------------------------------------------------------
(* The dossier (build_answerability_payload).                              *)

\* The final evidence, and all that it was read from.
Needed(g) ==
    LET back[k \in 0 .. Cardinality(g.relations)] ==
          IF k = 0 THEN g.finals
          ELSE back[k - 1] \cup {e.from : e \in {r \in g.relations : r.to \in back[k - 1]}}
    IN  back[Cardinality(g.relations)]

Relevant(g) == {e \in g.relations : e.to \in Needed(g)}

\* The walks from nodes that nothing was read to reach.
Walks(edges) ==
    LET starts == {<<e>> : e \in {r \in edges : \A f \in edges : f.to # r.from}}
        walks[k \in 1 .. Cardinality(edges)] ==
          IF k = 1 THEN starts
          ELSE {Append(p[1], p[2]) :
                  p \in {q \in walks[k - 1] \X edges : Last(q[1]).to = q[2].from}}
    IN  UNION Range(walks)

NodesOf(walk) == <<walk[1].from>> \o [i \in DOMAIN walk |-> walk[i].to]

Circles(edges) == \E w \in Walks(edges) : ~IsInjective(NodesOf(w))

Paths(edges, finals) == {w \in Walks(edges) : Last(w).to \in finals}

UniqueIds(edges) == \A e, f \in edges : e.id = f.id => e = f

Dossier(g) ==
    [nodes |-> Needed(g), finals |-> g.finals, edges |-> Relevant(g),
     paths |-> Paths(Relevant(g), g.finals)]

Buildable(g) ==
    /\ g.finals # {} /\ g.finals \subseteq g.reopened
    /\ Needed(g) \subseteq g.visible \ g.unbound
    /\ UniqueIds(Relevant(g)) /\ ~Circles(Relevant(g))
    /\ Cardinality(Needed(g)) <= MaxNodes /\ Cardinality(Relevant(g)) <= MaxEdges
    /\ Cardinality(Paths(Relevant(g), g.finals)) <= MaxPaths

Build ==
    /\ given # None /\ given' = None
    /\ IF Buildable(given)
       THEN payload' = Dossier(given) /\ outcome' = outcome
       ELSE payload' = None /\ outcome' = "no_dossier"
    /\ UNCHANGED decision

\* validate_answerability_payload: what the verifier demands of any payload.
Validated(p) ==
    /\ p.nodes # {} /\ Cardinality(p.nodes) <= MaxNodes
    /\ Cardinality(p.edges) <= MaxEdges /\ Cardinality(p.paths) <= MaxPaths
    /\ \A e \in p.edges : {e.from, e.to} \subseteq p.nodes
    /\ UniqueIds(p.edges)
    /\ \A path \in p.paths :
         /\ IsInjective(NodesOf(path)) /\ IsInjective(path)
         /\ Range(NodesOf(path)) \subseteq p.nodes /\ Range(path) \subseteq p.edges
         /\ \A i \in 1 .. Len(path) - 1 : path[i].to = path[i + 1].from

-----------------------------------------------------------------------------
(* The decision (parse_answerability_decision).                            *)

PathRefs(p) == {[kind |-> "P", of |-> path] : path \in p.paths}

Refs(p) ==
    {[kind |-> "N", of |-> n] : n \in p.nodes} \cup {[kind |-> "E", of |-> e] : e \in p.edges}
    \cup PathRefs(p)

\* A reference that the dossier does not hold.
Invented == [kind |-> "P", of |-> <<>>]

Required(p) == \E e \in p.edges : e.id \notin Reads

\* A facet cites nothing, the final evidence, a path, or what is not there.
Facet(p) ==
    [assessment : {"supported", "unsupported", "contradicted"},
     refs : {{}, {Invented}, {[kind |-> "N", of |-> n] : n \in p.finals}}
            \cup {{r} : r \in PathRefs(p)}]

Reason == {"complete_support", "contradictory_evidence", "instruction_only", "other"}

\* low: at most 0.15; likely: at least the threshold, 0.35.
Decision(p) ==
    [facets : {F \in SUBSET Facet(p) : Cardinality(F) \in 1 .. MaxFacets},
     missing : BOOLEAN, reason : Reason, concrete : BOOLEAN,
     answerable : {"low", "middle", "likely"}]

Structural(d) ==
    IF \A f \in d.facets : f.assessment = "supported" THEN "supported"
    ELSE IF \E f \in d.facets : f.assessment = "contradicted" THEN "contradicted"
    ELSE "unsupported"

Parses(d, p) ==
    LET complete == Structural(d) = "supported"
    IN  /\ \A f \in d.facets :
             f.refs \subseteq Refs(p) /\ (f.assessment = "supported" => f.refs # {})
        /\ d.missing = ~complete
        /\ (d.reason = "complete_support") = complete
        /\ Structural(d) = "contradicted" => d.reason = "contradictory_evidence"
        /\ (d.reason = "instruction_only") = ~d.concrete
        /\ ~d.concrete => /\ d.answerable = "low" /\ Structural(d) = "unsupported"
                          /\ \A f \in d.facets : f.refs = {}
        /\ Required(p) /\ complete => \A f \in d.facets : f.refs \cap PathRefs(p) # {}

Accepts(d) == Structural(d) = "supported" /\ d.answerable = "likely"

Verify ==
    /\ payload # None /\ outcome = "none"
    /\ \E d \in Decision(payload) :
         IF Parses(d, payload)
         THEN decision' = d /\ outcome' = IF Accepts(d) THEN "accepted" ELSE "refused"
         ELSE decision' = None /\ outcome' = "failed"
    /\ UNCHANGED <<given, payload>>

\* The completion raises, or it does not answer in time.
VerifyFails ==
    /\ payload # None /\ outcome = "none" /\ outcome' = "failed"
    /\ UNCHANGED <<given, payload, decision>>

Next == Build \/ Verify \/ VerifyFails

Spec == Init /\ [][Next]_vars

-----------------------------------------------------------------------------
(* Properties.                                                             *)

\* Whatever graph the host observed, the dossier that is built passes the validation that
\* the verifier makes of it, and no decision is taken on another.
DossierValid == payload # None => Validated(payload)

\* An accepted answer is grounded: each facet cites what the dossier holds, which is final
\* evidence or leads to it, and where a relation was followed, a path that ends in it.
Grounded ==
    outcome = "accepted" =>
        /\ decision.concrete
        /\ \A f \in decision.facets :
             /\ f.refs # {} /\ f.refs \subseteq Refs(payload)
             /\ Required(payload) =>
                  \E r \in f.refs : r.kind = "P" /\ Last(r.of).to \in payload.finals
=============================================================================
