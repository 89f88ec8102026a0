----------------------------- MODULE MCRetrieval -----------------------------
(***************************************************************************)
(* Instances of Publication, ProgressiveLoop, Answerability and            *)
(* ProgressiveSession for TLC.  They share no state, so one run checks     *)
(* all: the initial state chooses a machine, and the variables of the      *)
(* others stay None.                                                       *)
(***************************************************************************)
EXTENDS ProgressiveLoop, TLC

CONSTANTS
    None,
    Item, Text, Retired, Builder, Reader, MaxCommits, MaxFaults,
    Token, Command, MaxDecisions,
    Node, Id, Reads, MaxNodes, MaxEdges, MaxPaths, MaxFacets,
    n1, n2, n3, e1, e2, e3, e4, e5,
    a, b

VARIABLES
    machine,
    commits, authority, hybrid, stage, reads, began, faults,
    mode, file, stale, pending,
    given, payload, decision, outcome

\* A document that fills a hit, and one that is shorter.
Sizes == a :> HitChars @@ b :> HitChars - 1

Published == INSTANCE Publication WITH pc <- stage
Joins(id, m, n) == [id |-> id, from |-> m, to |-> n]

\* A chain, a shortcut and the ways back, where two edges share an id, and one is not read.
SomeEdges ==
    {Joins(e1, n1, n2), Joins(e2, n2, n3), Joins(e3, n1, n3), Joins(e4, n3, n2),
     Joins(e2, n2, n1), Joins(e5, n3, n3)}

\* Up to MaxEdges relations; all is visible, reopened and bound, or some of it is not.
Observed ==
    {[relations |-> R, finals |-> F, visible |-> V, reopened |-> O, unbound |-> Node \ B] :
        R \in UNION {kSubset(k, SomeEdges) : k \in 0 .. MaxEdges},
        F \in {{n3}, {n2}, {n2, n3}}, V \in {Node, Node \ {n1}},
        O \in {Node, {n2}}, B \in {Node, {n2, n3}}}

Answers == INSTANCE Answerability WITH Given <- Observed
Sessions == INSTANCE ProgressiveSession WITH MaxRounds <- MaxDecisions

\* A command that replays a session gives the loop a positive number of rounds.
ASSUME DecisionAssumption == MaxDecisions \in Nat \ {0}

ofPublished == <<commits, authority, hybrid, stage, reads, began, faults>>
ofSessions == <<mode, file, stale, pending>>

ofAnswers == <<given, payload, decision, outcome>>

allVars == <<machine, ofPublished, vars, ofSessions, ofAnswers>>

NoPublished ==
    /\ commits = None /\ authority = None /\ hybrid = None /\ stage = None
    /\ reads = None /\ began = None /\ faults = None

NoLoop ==
    /\ head = None /\ verifier = None /\ pc = None /\ round = None /\ calls = None
    /\ evaluations = None /\ chars = None /\ visible = None /\ handles = None
    /\ grants = None /\ relations = None /\ unbound = None /\ trace = None
    /\ stop = None /\ fatal = None /\ result = None

NoAnswers == given = None /\ payload = None /\ decision = None /\ outcome = None

NoSessions == mode = None /\ file = None /\ stale = None /\ pending = None

MCInit ==
    \/ machine = "publication" /\ Published!Init /\ NoLoop /\ NoSessions /\ NoAnswers
    \/ machine = "loop" /\ NoPublished /\ Init /\ NoSessions /\ NoAnswers
    \/ machine = "sessions" /\ NoPublished /\ NoLoop /\ Sessions!Init /\ NoAnswers
    \/ machine = "answers" /\ NoPublished /\ NoLoop /\ NoSessions /\ Answers!Init

OfPublished(A) == machine = "publication" /\ A /\ UNCHANGED <<machine, vars, ofSessions, ofAnswers>>

MCNext ==
    \/ OfPublished(Published!Next)
    \/ machine = "loop" /\ Next /\ UNCHANGED <<machine, ofPublished, ofSessions, ofAnswers>>
    \/ machine = "sessions" /\ Sessions!Next /\ UNCHANGED <<machine, ofPublished, vars, ofAnswers>>
    \/ machine = "answers" /\ Answers!Next /\ UNCHANGED <<machine, ofPublished, vars, ofSessions>>

\* The fairness of Publication: sessions start, and each runs recover to its end or dies.
MCSpec ==
    /\ MCInit /\ [][MCNext]_allVars
    /\ \A s \in Builder : /\ WF_allVars(OfPublished(Published!Check(s)))
                          /\ WF_allVars(OfPublished(Published!Continue(s)))

-----------------------------------------------------------------------------

\* The invariant of Publication: what was deleted is not recalled.
NothingDeleted == machine = "publication" => Published!NothingDeleted

\* The liveness of Publication: when the last commit can be read, the hybrid index
\* becomes, and stays, the index of that commit.
HybridRepaired ==
    <>[](machine = "publication" /\ Published!Valid(Published!Tree))
      => <>[](machine = "publication" => hybrid = Published!HEAD)

\* The budgets of a run of the loop hold whatever its planner asks, no action that
\* succeeded is executed twice, and the decisions that a session keeps fit in a run.
WithinBounds ==
    /\ machine = "loop" => Bounded /\ NoRepeat
    /\ machine = "sessions" => Sessions!Confined

\* The invariants of ProgressiveLoop and Answerability: what is released was opened in
\* scope, and proved where the verifier had to look, which accepts only what is grounded.
ReleasedInScope ==
    /\ machine = "loop" => Released
    /\ machine = "answers" => Answers!DossierValid /\ Answers!Grounded
===============================================================================
