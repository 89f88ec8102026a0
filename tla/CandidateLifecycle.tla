------------------------- MODULE CandidateLifecycle -------------------------
(***************************************************************************)
(* Candidates of one slot, their relations and what they resolve to.       *)
(* CandidateFormer reads the store, derives the candidates of a session    *)
(* and their relations, and saves them in a transaction of its own, so     *)
(* formers can overlap.  LifecycleResolver replays the relations.          *)
(*                                                                         *)
(* A candidate stands for its evidence row.  Its created_at is the time    *)
(* the row says of itself, if it says one (a transcript line), or else the *)
(* stamp of the former, which it takes before it reads (a hook's row).     *)
(* Stamps are chosen freely: a former may read and save long after another *)
(* one that began later.                                                   *)
(*                                                                         *)
(* A claim has one value, which is its normalized claim; a deletion        *)
(* request has the values of the claims it matches by subject, or names    *)
(* the slot and matches them all.  The classifier is an input.             *)
(***************************************************************************)
EXTENDS Integers, FiniteSets

CONSTANTS
    Rows,          \* evidence rows are 1 .. Rows, by source_path, source_line and id
    Times,         \* bound on the instants of the clock
    Value,         \* normalized claims
    Former,        \* processes that form candidates
    Kinds,         \* what a row may be classified as
    MaxCollected   \* bound on candidates that retention deletes

Row == 1 .. Rows
Time == 1 .. Times

\* dated: the row has an occurred_at, which is its time; the time of another row is its
\* captured_at.  The classifier hints at an update, at a conflict, or at nothing.
ASSUME KindAssumption ==
    /\ Rows \in Nat /\ Times \in Nat
    /\ Kinds \subseteq [deletes : BOOLEAN, values : SUBSET Value, slot : BOOLEAN,
                       hint : {"none", "update", "conflict"}, dated : BOOLEAN, time : Time]
    /\ \A k \in Kinds : k.deletes \/ k.slot

VARIABLES
    kind,          \* [deletes, values, slot, hint, dated, time] of every row
    created,       \* the place of every stored candidate in the order, 0 of other rows
    relations,     \* of <<source, target, type>>
    batch,         \* per former: what it will save, or NoBatch
    disturbed,     \* formers with a batch since whose read the store has changed
    collected

vars == <<kind, created, relations, batch, disturbed, collected>>

NoBatch == [new |-> {}, stamp |-> 0, relations |-> {}]

Init ==
    /\ kind \in [Row -> Kinds] /\ created = [e \in Row |-> 0] /\ relations = {}
    /\ batch = [p \in Former |-> NoBatch] /\ disturbed = {} /\ collected = 0

Formed == {c \in Row : created[c] # 0}

Forming == {p \in Former : batch[p] # NoBatch}

Claims(S) == {c \in S : ~kind[c].deletes}

-----------------------------------------------------------------------------
(* Orders.                                                                 *)

\* By time first, then by row.
Place(time, e) == (time - 1) * Rows + e

LastPlace == Times * Rows

Places == 1 .. LastPlace

\* _evidence_order: the order in which a former works through what it has read.
Said(e) == Place(kind[e].time, e)

\* _candidate_order of a new candidate.
Created(e, stamp) == Place(IF kind[e].dated THEN kind[e].time ELSE stamp, e)

\* The order of all candidates as a former sees them: it stamps the new ones.
Seen(new, stamp) == [c \in Row |-> IF c \in new THEN Created(c, stamp) ELSE created[c]]

-----------------------------------------------------------------------------
(* Formation.                                                              *)

Prior(e, working, place) == {c \in Claims(working) : place[c] < place[e]}

\* The hint of a claim is known to the batch that forms it, and is not stored.
TypesFor(e, target, hint) ==
    IF kind[e].values = kind[target].values THEN {"duplicate"}
    ELSE CASE hint = "update" -> {"update", "supersede"}
           [] hint = "conflict" -> {"conflict"}
           [] hint = "none" -> {"conflict", "update", "supersede"}

\* A claim is related to the latest one before it.
LifecycleRelations(e, working, place, hint) ==
    UNION {{e} \X {t} \X TypesFor(e, t, hint) :
             t \in {t \in Prior(e, working, place) :
                     \A c \in Prior(e, working, place) : place[c] <= place[t]}}

DeleteRelations(e, working, place) ==
    {<<e, c, "delete">> : c \in {c \in Prior(e, working, place) :
                                  kind[e].slot \/ kind[c].values \subseteq kind[e].values}}

\* Every new candidate is related to those that are stored or were worked through before it.
NewRelations(new, place) ==
    UNION {LET working == Formed \cup {c \in new : Said(c) < Said(e)}
           IN  IF kind[e].deletes THEN DeleteRelations(e, working, place)
               ELSE LifecycleRelations(e, working, place, kind[e].hint) : e \in new}

Outgoing(rels) == {r[1] : r \in {r \in rels : r[3] # "delete"}}

\* New candidates that carry the key of the slot touch it.
Touches(new) == \E e \in new : kind[e].slot

\* Mutant: relations are derived for new candidates only.
NoRepair(new, place, rels) == {}

\* Claims of a touched slot that have no relation get one.
Repaired(new, place, rels) ==
    IF ~Touches(new) THEN {}
    ELSE UNION {LifecycleRelations(e, Formed \cup new, place,
                                   IF e \in new THEN kind[e].hint ELSE "none") :
                  e \in Claims(Formed \cup new) \ Outgoing(rels)}

\* form_candidates up to its transaction.  What it forms is the evidence of one session, up
\* to a line of each of its sources, as far as it is captured by now and not formed yet: any
\* part of the rows.
Read(p, new, stamp) ==
    /\ batch[p] = NoBatch
    /\ new # {} /\ new \cap Formed = {}
    /\ LET place == Seen(new, stamp)
           fresh == NewRelations(new, place)
       IN  batch' = [batch EXCEPT ![p] =
             [new |-> new, stamp |-> stamp,
              relations |-> fresh \cup Repaired(new, place, relations \cup fresh)]]
    /\ UNCHANGED <<kind, created, relations, disturbed, collected>>

Endpoints(rels) == {r[1] : r \in rels} \cup {r[2] : r \in rels}

\* save_candidate_batch: rows that exist are ignored, so a candidate keeps its first stamp,
\* but not the relations that another former has derived from another stamp of it.
Save(p) ==
    /\ batch[p] # NoBatch
    /\ Endpoints(batch[p].relations) \subseteq Formed \cup batch[p].new
    /\ created' = Seen(batch[p].new \ Formed, batch[p].stamp)
    /\ relations' = relations \cup batch[p].relations
    /\ batch' = [batch EXCEPT ![p] = NoBatch] /\ disturbed' = Forming \ {p}
    /\ UNCHANGED <<kind, collected>>

\* A foreign key fails, or the process dies.
Abort(p) ==
    /\ batch[p] # NoBatch /\ batch' = [batch EXCEPT ![p] = NoBatch]
    /\ disturbed' = disturbed \ {p}
    /\ UNCHANGED <<kind, created, relations, collected>>

\* Retention deletes a candidate by its age, and its relations with it.
Collect(c) ==
    /\ c \in Formed /\ collected < MaxCollected /\ collected' = collected + 1
    /\ created' = [created EXCEPT ![c] = 0]
    /\ relations' = {r \in relations : c \notin {r[1], r[2]}}
    /\ disturbed' = Forming
    /\ UNCHANGED <<kind, batch>>

Next ==
    \/ \E c \in Row : Collect(c)
    \/ \E p \in Former : \/ \E new \in SUBSET Row, stamp \in Time : Read(p, new, stamp)
                         \/ Save(p) \/ Abort(p)

Spec == Init /\ [][Next]_vars

-----------------------------------------------------------------------------
(* Resolution: LifecycleResolver.resolve over the whole store.             *)

Type == <<"duplicate", "conflict", "update", "supersede", "delete">>

Targets(e, type) == {r[2] : r \in {r \in relations : r[1] = e /\ r[3] = type}}

\* The candidate at a place, or 0, which has no relations.
Holder(n) == IF \E e \in Row : created[e] = n THEN CHOOSE e \in Row : created[e] = n ELSE 0

\* Mutant: relations are replayed from the latest source to the first.
FromTheLatest(k) == Holder(LastPlace - ((k - 1) \div 5))

\* Relations are replayed by their source's place, then by type.
Source(k) == Holder(1 + ((k - 1) \div 5))

Inactivated(e, type, targets) ==
    CASE type \in {"duplicate", "conflict"} -> IF targets = {} THEN {} ELSE {e}
      [] type \in {"update", "supersede", "delete"} -> targets

\* A relation to a deleted target suppresses its source before it can do anything else.
Replay(state, e, type) ==
    LET targets == Targets(e, type)
        live == targets \ state.lineage
        lineage == state.lineage \cup (IF type = "delete" THEN live ELSE {})
        suppressed == IF targets \cap lineage = {} THEN {} ELSE {e}
    IN  [lineage |-> lineage \cup suppressed,
         inactive |-> state.inactive \cup Inactivated(e, type, live) \cup suppressed]

Resolution ==
    LET replayed[k \in 0 .. 5 * LastPlace] ==
          IF k = 0 THEN [lineage |-> {}, inactive |-> {}]
          ELSE Replay(replayed[k - 1], Source(k), Type[1 + ((k - 1) % 5)])
    IN  replayed[5 * LastPlace]

Active == Formed \ Resolution.inactive

-----------------------------------------------------------------------------
(* Properties.                                                             *)

TypeOK ==
    /\ created \in [Row -> {0} \cup Places]
    /\ Endpoints(relations) \subseteq Formed
    /\ \A r \in relations : r[3] \in {Type[i] : i \in 1 .. 5}

\* Whatever formers overlap, relations between claims and deletions that tell their own time
\* lead from later to earlier.  Of a hook's row this is not so: see Contradicted.
PointsBack ==
    \A r \in relations : kind[r[1]].dated /\ kind[r[2]].dated => created[r[2]] < created[r[1]]

\* Whenever a batch is saved over the store it was derived from, every claim of the slot that
\* comes after another one, in the order of created_at, is related, in whatever order,
\* batches and sessions they were formed.
LinksEveryClaim ==
    \A p \in Former :
        (Save(p) /\ p \notin disturbed /\ Touches(batch[p].new))
           => \A e \in Claims(Formed') :
                 Prior(e, Formed', created') # {} => e \in Outgoing(relations')

LineageComplete == [][LinksEveryClaim]_vars

Related(e, t) == \E type \in {Type[i] : i \in 1 .. 5} : <<e, t, type>> \in relations

\* A deletion that is replayed up to place n has the target t.
Deleted(t, n) == \E e \in Formed : created[e] <= n /\ <<e, t, "delete">> \in relations

\* A candidate descends if it is related to one that is deleted by the time it is replayed,
\* or to one that is replayed before it and descends.
Descends ==
    LET d[n \in Places] ==
          \E e, t \in Formed :
            /\ created[e] = n /\ Related(e, t)
            /\ \/ Deleted(t, n)
               \/ created[t] < n /\ d[created[t]]
    IN  {e \in Formed : d[created[e]]}

\* A deletion reaches what is deleted and all that is later derived from it, and nothing
\* else; the rest is active unless it repeats, contradicts or has been replaced.
ResolvesLineage ==
    Active = {c \in Formed \ Descends :
                /\ ~Deleted(c, LastPlace)
                /\ Targets(c, "duplicate") \cup Targets(c, "conflict") = {}
                /\ \A e \in Row : c \notin Targets(e, "update") \cup Targets(e, "supersede")}

\* The comment: contradictory or untrusted wording is a quarantine signal, not an
\* authorization to replace the existing value.
QuarantineOnly ==
    \A r \in relations : kind[r[1]].hint = "conflict" => r[3] \in {"duplicate", "conflict", "delete"}

\* The comment: provenance order, not ingestion order, defines the first relationship in a
\* slot.
ProvenanceOrder ==
    \A r \in relations : r[3] # "delete" => kind[r[2]].time <= kind[r[1]].time

\* Two claims that are each related to the other.
Contradicted ==
    \E e, t \in Row : Related(e, t) /\ Related(t, e)
=============================================================================
