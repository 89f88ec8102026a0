------------------------- MODULE ControlPlaneProofs -------------------------
(***************************************************************************)
(* Theorems about ControlPlane, for every set of processes, proposals,     *)
(* approvals, files and contents, and without the bounds of a run.         *)
(***************************************************************************)
EXTENDS ControlPlane, TLAPS

-----------------------------------------------------------------------------
(* What the operators that build ledgers return.                           *)

\* Event constructors build events.
LEMMA EventTypes ==
    /\ \A k \in EventKind \ {"workspace_applied"} : Plain(k) \in Event
    /\ \A k \in EventKind \ {"workspace_applied"}, e \in Evidence : By(k, e) \in Event
    /\ \A b \in Body : Applied(b) \in Event
BY DEF Plain, By, Applied, Event, EventKind, Body

\* Appending an event keeps a ledger a ledger.
LEMMA RecordType ==
    ASSUME NEW l \in Ledger, NEW e \in Event
    PROVE  /\ Record(l, e) \in Ledger
           /\ Record(l, e).links = l.links
           /\ Record(l, e).disposition = l.disposition
           /\ Record(l, e).events = Append(l.events, e)
<1>1. l.events \in Seq(Event)
  BY DEF Ledger
<1>2. Append(l.events, e) \in Seq(Event)
  BY <1>1
<1>3. Record(l, e) = [l EXCEPT !.events = Append(l.events, e)]
  BY DEF Record
<1>4. Record(l, e) \in Ledger
  BY <1>2, <1>3 DEF Ledger
<1>5. /\ Record(l, e).links = l.links
      /\ Record(l, e).disposition = l.disposition
      /\ Record(l, e).events = Append(l.events, e)
  BY <1>3 DEF Ledger
<1> QED BY <1>4, <1>5

\* Screening a proposal for the first time makes an unlinked, unapproved ledger.
LEMMA NewLedgerType ==
    ASSUME NEW v \in Verdict
    PROVE  /\ NewLedger(v) \in Ledger
           /\ NewLedger(v).links = {}
           /\ NewLedger(v).disposition # "approved"
<1> USE DEF Verdict
<1>1. DispositionOf(v) \in Disposition /\ DispositionOf(v) # "approved"
  BY DEF DispositionOf, Disposition
<1>2. <<Plain(IF v = "unsafe" THEN "gate_rejected" ELSE "screened")>> \in Seq(Event)
  BY EventTypes DEF EventKind
<1> QED BY <1>1, <1>2 DEF NewLedger, Ledger, Assessment

\* Screening again never links, unlinks or approves.
LEMMA RescreenedType ==
    ASSUME NEW l \in Ledger, NEW v \in Verdict
    PROVE  /\ Rescreened(l, v) \in Ledger
           /\ Rescreened(l, v).links = l.links
           /\ Rescreened(l, v).disposition = "approved" => Rescreened(l, v) = l
<1>1. DispositionOf(v) \in Disposition /\ DispositionOf(v) # "approved"
  BY DEF DispositionOf, Disposition, Verdict
<1> DEFINE m == [l EXCEPT !.mayScore = FALSE, !.reasons = @ \cup {v},
                          !.disposition = DispositionOf(v)]
<1>2. m \in Ledger /\ m.links = l.links /\ m.disposition # "approved"
  BY <1>1 DEF Ledger
<1>3. Plain("gate_rejected") \in Event
  BY EventTypes DEF EventKind
<1> HIDE DEF m
<1>4. /\ Record(m, Plain("gate_rejected")) \in Ledger
      /\ Record(m, Plain("gate_rejected")).links = l.links
      /\ Record(m, Plain("gate_rejected")).disposition # "approved"
  BY <1>2, <1>3, RecordType
<1>5. Rescreened(l, v) = IF l.redacted \/ v = "pass" THEN l
                         ELSE Record(m, Plain("gate_rejected"))
  BY DEF Rescreened, m
<1> QED BY <1>4, <1>5

\* An assessment never links or approves.
LEMMA AssessedType ==
    ASSUME NEW l \in Ledger, NEW o \in Assessment \ {"none"}
    PROVE  /\ Assessed(l, o) \in Ledger
           /\ Assessed(l, o).links = l.links
           /\ Assessed(l, o).disposition = "approved" => l.disposition = "approved"
<1> DEFINE m == [l EXCEPT
              !.assessment = o,
              !.disposition = CASE o = "conflict" -> "needs_confirmation"
                                [] o = "low"      -> "rejected"
                                [] OTHER          -> @,
              !.reasons = IF o = "eligible" THEN @ ELSE {o}]
<1>1. /\ m \in Ledger /\ m.links = l.links
      /\ m.disposition = "approved" => l.disposition = "approved"
  BY DEF Ledger, Assessment, Disposition
<1>2. Plain("assessed") \in Event
  BY EventTypes DEF EventKind
<1>3. Assessed(l, o) = Record(m, Plain("assessed"))
  BY DEF Assessed
<1> HIDE DEF m
<1> QED BY <1>1, <1>2, <1>3, RecordType

\* Linking approves and adds exactly the one approval.
LEMMA LinkedType ==
    ASSUME NEW l \in Ledger, NEW e \in Evidence
    PROVE  /\ Linked(l, e) \in Ledger
           /\ Linked(l, e).links = l.links \cup {e}
           /\ Linked(l, e).disposition = "approved"
<1> DEFINE m == [l EXCEPT !.disposition = "approved", !.links = @ \cup {e}]
<1>1. m \in Ledger /\ m.links = l.links \cup {e} /\ m.disposition = "approved"
  BY DEF Ledger, Disposition
<1>2. By("approved", e) \in Event
  BY EventTypes DEF EventKind
<1>3. Linked(l, e) = IF By("approved", e) \in EventsOf(l) THEN m
                     ELSE Record(m, By("approved", e))
  BY DEF Linked
<1> HIDE DEF m
<1> QED BY <1>1, <1>2, <1>3, RecordType

-----------------------------------------------------------------------------
(* The inductive invariant.  TypeOK alone is not inductive: a step that     *)
(* writes an intent or a receipt takes it from the locals of the call, so   *)
(* the locals of every call must be known to agree with the artifacts.      *)

IInv == TypeOK /\ CallsConsistent /\ ArtifactOrder /\ ApprovalEvidence

\* Leaving a call resets its locals and frees the lock it held.
LEMMA ReturnType ==
    ASSUME TypeOK, NEW p \in Proc, Return(p)
    PROVE  pc' \in [Proc -> PC] /\ loc' \in [Proc -> Loc] /\ lock' \in Proc \cup {None}
<1>1. NoLoc \in Loc
  BY DEF NoLoc, Loc
<1> QED BY <1>1 DEF TypeOK, Return, Goto, PC

\* The locals keep their shape when a call moves on.
LEMMA LocType ==
    ASSUME TypeOK, NEW p \in Proc
    PROVE  /\ \A i \in Identity, v \in Verdict :
                [loc EXCEPT ![p].id = i, ![p].verdict = v] \in [Proc -> Loc]
           /\ \A c \in Candidate, e \in Evidence :
                [loc EXCEPT ![p].cand = c, ![p].ev = e] \in [Proc -> Loc]
           /\ \A c \in Candidate, e \in Evidence, l \in Ledger :
                [loc EXCEPT ![p].cand = c, ![p].ev = e, ![p].copy = l] \in [Proc -> Loc]
           /\ [loc EXCEPT ![p].copy = None] \in [Proc -> Loc]
           /\ [loc EXCEPT ![p].cand = None] \in [Proc -> Loc]
           /\ \A T \in SUBSET Candidate :
                [loc EXCEPT ![p].todo = T, ![p].recovering = TRUE] \in [Proc -> Loc]
           /\ \A c \in Candidate :
                [loc EXCEPT ![p].todo = @ \ {c}, ![p].cand = c] \in [Proc -> Loc]
           /\ \A c \in Candidate :
                [loc EXCEPT ![p].todo = @ \ {c}] \in [Proc -> Loc]
<1>a. loc \in [Proc -> Loc] /\ loc[p] \in Loc
  BY DEF TypeOK
<1>b. /\ \A i \in Identity, v \in Verdict : [loc[p] EXCEPT !.id = i, !.verdict = v] \in Loc
      /\ \A c \in Candidate, e \in Evidence :
            [loc[p] EXCEPT !.cand = c, !.ev = e] \in Loc
      /\ \A c \in Candidate, e \in Evidence, l \in Ledger :
            [loc[p] EXCEPT !.cand = c, !.ev = e, !.copy = l] \in Loc
  BY <1>a DEF Loc
<1>e. \A T \in SUBSET Candidate :
        /\ [loc[p] EXCEPT !.todo = T] \in Loc
        /\ [loc[p] EXCEPT !.todo = T, !.recovering = TRUE] \in Loc
        /\ \A c \in Candidate : [loc[p] EXCEPT !.todo = T, !.cand = c] \in Loc
  BY <1>a DEF Loc
<1>c. \A c \in Candidate : loc[p].todo \ {c} \in SUBSET Candidate
  BY <1>a DEF Loc
<1>d. \A l \in Loc : [loc EXCEPT ![p] = l] \in [Proc -> Loc]
  BY <1>a
<1>1. \A i \in Identity, v \in Verdict :
        [loc EXCEPT ![p].id = i, ![p].verdict = v] \in [Proc -> Loc]
  BY <1>a, <1>b, <1>d
<1>2. \A c \in Candidate, e \in Evidence :
        [loc EXCEPT ![p].cand = c, ![p].ev = e] \in [Proc -> Loc]
  BY <1>a, <1>b, <1>d
<1>3. \A c \in Candidate, e \in Evidence, l \in Ledger :
        [loc EXCEPT ![p].cand = c, ![p].ev = e, ![p].copy = l] \in [Proc -> Loc]
  BY <1>a, <1>b, <1>d
<1>4. /\ [loc EXCEPT ![p].copy = None] \in [Proc -> Loc]
      /\ [loc EXCEPT ![p].cand = None] \in [Proc -> Loc]
  BY <1>a, <1>d DEF Loc
<1>5. \A T \in SUBSET Candidate :
        [loc EXCEPT ![p].todo = T, ![p].recovering = TRUE] \in [Proc -> Loc]
  BY <1>a, <1>e, <1>d
<1>6. \A c \in Candidate :
        [loc EXCEPT ![p].todo = @ \ {c}, ![p].cand = c] \in [Proc -> Loc]
  BY <1>a, <1>e, <1>c, <1>d
<1>7. \A c \in Candidate : [loc EXCEPT ![p].todo = @ \ {c}] \in [Proc -> Loc]
  BY <1>a, <1>e, <1>c, <1>d
<1> QED BY <1>1, <1>2, <1>3, <1>4, <1>5, <1>6, <1>7

\* Every issued body of the current intent is a receipt body of that intent.
LEMMA IssuedType ==
    ASSUME NEW c \in Candidate, ledger[c] \in Ledger, NEW b \in IssuedBodies(c)
    PROVE  b \in Body /\ b = BodyOf(intents[c], b.recovered) /\ b.by = intents[c].by
<1>1. PICK e \in EventsOf(ledger[c]) : e.kind = "workspace_applied" /\ b = e.body
  BY DEF IssuedBodies
<1>2. e \in Event
  BY DEF EventsOf, Ledger
<1>3. b \in Body
  BY <1>1, <1>2 DEF Event, Applied
<1>4. b = BodyOf(intents[c], b.recovered)
  BY DEF IssuedBodies
<1> QED BY <1>3, <1>4 DEF BodyOf

\* The bytes an application leaves at the destination are a file of the tree.
LEMMA AfterType ==
    ASSUME NEW pl \in Payload, NEW e \in Evidence, NEW before \in File
    PROVE  After(pl, e, before) \in File
BY PayloadAssumption, StampedAssumption, ZenonT(30) DEF After, File, Operation

\* An identity is built from the repository as it is.
LEMMA IdentityType ==
    ASSUME TypeOK, NEW pl \in Payload
    PROVE  IdentityOf(pl) \in Identity
<1>1. TrackedTree \in Tree
  BY DEF TypeOK, TrackedTree, Tree, File, Tracked
<1>2. CitesHold(pl.cites) \in SUBSET Cite
  BY PayloadAssumption DEF CitesHold
<1>3. work[pl.dest] \in File
  BY PayloadAssumption DEF TypeOK, Tree
<1> QED BY <1>1, <1>2, <1>3 DEF IdentityOf, Identity, TypeOK


\* What a call in the middle of its work knows: its candidate has a ledger, its
\* approval exists, and past the intent there is an intent under a linked approval.
LEMMA LocalsType ==
    ASSUME TypeOK, CallsConsistent, NEW p \in Proc
    PROVE  /\ pc[p] = "screened" => loc[p].id \in Identity /\ loc[p].verdict \in Verdict
           /\ pc[p] \in InApply \cup Planned \cup {"reconcile"} =>
                loc[p].cand \in Candidate /\ ledger[loc[p].cand] \in Ledger
           /\ pc[p] \in InApply \cup {"reconcile"} => loc[p].ev \in Evidence
           /\ pc[p] \in {"validate", "event"} => loc[p].copy \in Ledger
           /\ pc[p] \in Planned => intents[loc[p].cand] \in Intent
           /\ loc[p].recovering \in BOOLEAN
<1>1. loc[p] \in Loc
  BY DEF TypeOK
<1>2. pc[p] = "screened" => loc[p].id \in Identity /\ loc[p].verdict \in Verdict
  <2>1. pc[p] = "screened" => loc[p].id # None /\ loc[p].verdict # None
    BY DEF CallsConsistent, Consistent
  <2> QED BY <1>1, <2>1 DEF Loc
<1>3. pc[p] \in InApply \cup Planned \cup {"reconcile"} =>
        loc[p].cand \in Candidate /\ ledger[loc[p].cand] \in Ledger
  <2>1. pc[p] \in InApply \cup Planned \cup {"reconcile"} =>
          loc[p].cand # None /\ ledger[loc[p].cand] # None
    BY DEF CallsConsistent, Consistent, Has
  <2>2. loc[p].cand \in Candidate \cup {None}
    BY <1>1 DEF Loc
  <2> QED BY <2>1, <2>2 DEF TypeOK
<1>4. pc[p] \in InApply \cup {"reconcile"} => loc[p].ev \in Evidence
  <2>1. pc[p] \in InApply \cup {"reconcile"} => loc[p].ev # None
    BY DEF CallsConsistent, Consistent
  <2> QED BY <1>1, <2>1 DEF Loc
<1>5. pc[p] \in {"validate", "event"} => loc[p].copy \in Ledger
  <2>1. pc[p] \in {"validate", "event"} => loc[p].copy = ledger[loc[p].cand]
    BY DEF CallsConsistent, Consistent
  <2> QED BY <1>3, <2>1 DEF InApply
<1>6. pc[p] \in Planned => intents[loc[p].cand] \in Intent
  <2>1. pc[p] \in Planned => intents[loc[p].cand] # None
    BY DEF CallsConsistent, Consistent
  <2> QED BY <1>3, <2>1 DEF TypeOK
<1>7. loc[p].recovering \in BOOLEAN
  BY <1>1 DEF Loc
<1> QED BY <1>2, <1>3, <1>4, <1>5, <1>6, <1>7

\* The intent an application seals is an intent under the approval it applies.
LEMMA IntentWritten ==
    ASSUME TypeOK, CallsConsistent, ArtifactOrder, NEW p \in Proc, WriteIntent(p)
    PROVE  /\ loc[p].cand \in Candidate
           /\ \E i \in Intent : /\ i.by = loc[p].ev
                                /\ intents' = [intents EXCEPT ![loc[p].cand] = i]
<1> DEFINE c == loc[p].cand
           pl == name[c].payload
           after == After(pl, loc[p].ev, name[c].target)
           tree == IF pl.op = "no_op" THEN work ELSE [work EXCEPT ![pl.dest] = after]
<1>1. c \in Candidate /\ loc[p].ev \in Evidence /\ Has(c)
  <2>1. pc[p] = "validate"
    BY DEF WriteIntent
  <2> QED BY <2>1, LocalsType, NoneAssumption DEF InApply, Has
<1>2. name[c] \in Identity
  BY <1>1 DEF ArtifactOrder, TypeOK
<1>3. pl \in Payload /\ name[c].target \in File
  BY <1>2 DEF Identity
<1>4. after \in File
  BY <1>1, <1>3, AfterType
<1>5. tree \in Tree
  BY <1>4 DEF TypeOK, Tree
<1>6. [index |-> index, work |-> tree] \in Snapshot
  BY <1>5 DEF Snapshot, TypeOK
<1>7. PICK r \in Report :
        intents' = [intents EXCEPT ![c] =
           [by |-> loc[p].ev, before |-> name[c].target, after |-> after,
            post |-> [index |-> index, work |-> tree], report |-> r]]
  BY DEF WriteIntent
<1> DEFINE i == [by |-> loc[p].ev, before |-> name[c].target, after |-> after,
                 post |-> [index |-> index, work |-> tree], report |-> r]
<1>8. i \in Intent /\ i.by = loc[p].ev
  <2> HIDE DEF after, tree, c
  <2> QED BY <1>1, <1>3, <1>4, <1>6 DEF Intent
<1>9. intents' = [intents EXCEPT ![c] = i]
  BY <1>7
<1> HIDE DEF i
<1> QED BY <1>1, <1>8, <1>9

\* Appending one event adds exactly that event to the events of a ledger.
LEMMA RecordEvents ==
    ASSUME NEW l \in Ledger, NEW e \in Event
    PROVE  EventsOf(Record(l, e)) = EventsOf(l) \cup {e}
<1>1. l.events \in Seq(Event) /\ Record(l, e).events = Append(l.events, e)
  BY RecordType DEF Ledger
<1>2. \A s \in Seq(Event) :
        {Append(s, e)[i] : i \in DOMAIN Append(s, e)} = {s[i] : i \in DOMAIN s} \cup {e}
  <2> TAKE s \in Seq(Event)
  <2> DEFINE t == Append(s, e)
  <2>1. /\ DOMAIN t = 1 .. Len(s) + 1 /\ DOMAIN s = 1 .. Len(s) /\ Len(s) \in Nat
        /\ \A i \in 1 .. Len(s) : t[i] = s[i]
        /\ t[Len(s) + 1] = e
    OBVIOUS
  <2>2. 1 .. Len(s) + 1 = (1 .. Len(s)) \cup {Len(s) + 1}
    BY <2>1
  <2> HIDE DEF t
  <2>3. {t[i] : i \in DOMAIN t} = {s[i] : i \in DOMAIN s} \cup {e}
    <3>1. {t[i] : i \in DOMAIN t} = {t[i] : i \in 1 .. Len(s)} \cup {t[Len(s) + 1]}
      BY <2>1, <2>2
    <3>2. {t[i] : i \in 1 .. Len(s)} = {s[i] : i \in 1 .. Len(s)}
      BY <2>1
    <3> QED BY <2>1, <3>1, <3>2
  <2> QED BY <2>3 DEF t
<1> QED BY <1>1, <1>2 DEF EventsOf

\* Issuing touches no approval and leaves an applied event of the current intent.
LEMMA IssueKeeps ==
    ASSUME TypeOK, CallsConsistent, NEW p \in Proc, Issue(p)
    PROVE  LET c == loc[p].cand
           IN  /\ c \in Candidate
               /\ ledger' = [ledger EXCEPT ![c] = ledger'[c]]
               /\ ledger'[c] \in Ledger
               /\ ledger'[c].links = ledger[c].links
               /\ ledger'[c].disposition = ledger[c].disposition
               /\ IssuedBodies(c)' # {}
<1> DEFINE c == loc[p].cand
           b == BodyOf(intents[c], loc[p].recovering)
<1>1. c \in Candidate /\ ledger[c] \in Ledger /\ intents[c] \in Intent
  BY LocalsType DEF Issue, Planned
<1>2. b \in Body /\ b = BodyOf(intents[c], b.recovered)
  BY <1>1, LocalsType DEF BodyOf, Body, Intent
<1>3. Applied(b) \in Event
  BY <1>2, EventTypes
<1>4. CASE IssuedBodies(c) # {}
  <2>1. ledger' = ledger /\ intents' = intents /\ loc' = loc
    BY <1>4 DEF Issue
  <2>2. IssuedBodies(c)' = IssuedBodies(c)
    BY <2>1 DEF IssuedBodies, EventsOf
  <2> QED BY <1>1, <1>4, <2>1, <2>2 DEF TypeOK
<1>5. CASE IssuedBodies(c) = {}
  <2>1. ledger' = [ledger EXCEPT ![c] = Record(ledger[c], Applied(b))] /\ intents' = intents
    BY <1>5 DEF Issue
  <2>2. ledger'[c] = Record(ledger[c], Applied(b))
    BY <1>1, <2>1 DEF TypeOK
  <2>3. /\ ledger'[c] \in Ledger /\ ledger'[c].links = ledger[c].links
        /\ ledger'[c].disposition = ledger[c].disposition
    BY <1>1, <1>3, <2>2, RecordType
  <2>4. Applied(b) \in EventsOf(ledger'[c])
    BY <1>1, <1>3, <2>2, RecordEvents
  <2>5. Applied(b).kind = "workspace_applied" /\ Applied(b).body = b
    BY DEF Applied
  <2>6. b \in IssuedBodies(c)'
    <3>1. loc' = loc
      BY DEF Issue
    <3> HIDE DEF b
    <3> QED BY <1>2, <2>1, <2>4, <2>5, <3>1 DEF IssuedBodies, EventsOf
  <2> QED BY <1>1, <2>1, <2>2, <2>3, <2>6
<1> QED BY <1>4, <1>5

-----------------------------------------------------------------------------
(* One lemma per conjunct of the invariant, one step per action.            *)

\* Every step keeps the artifacts and the locals of their shapes.
LEMMA TypeStep == IInv /\ [Next]_vars => TypeOK'
<1> SUFFICES ASSUME IInv, [Next]_vars PROVE TypeOK'
  OBVIOUS
<1> USE DEF IInv
<1>1. ASSUME NEW p \in Proc, NEW pl \in Payload, NEW gate \in Verdict,
             Observe(p, pl, gate)
      PROVE  TypeOK'
  <2>1. Worst(pl, gate) \in Verdict
    BY DEF Worst, Verdict
  <2>2. loc' \in [Proc -> Loc]
    BY <1>1, <2>1, IdentityType, LocType DEF Observe
  <2>3. pc' \in [Proc -> PC]
    BY <1>1 DEF Observe, Goto, TypeOK, PC
  <2> QED BY <1>1, <2>2, <2>3, BoundAssumption DEF Observe, TypeOK, git, durable
<1>2. ASSUME NEW p \in Proc, Persist(p) PROVE TypeOK'
  <2>1. PICK c \in Candidate :
          /\ name' = [name EXCEPT ![c] = loc[p].id]
          /\ ledger' = [ledger EXCEPT ![c] =
                         IF @ = None THEN NewLedger(loc[p].verdict)
                                     ELSE Rescreened(@, loc[p].verdict)]
    BY <1>2 DEF Persist
  <2>2. loc[p].id \in Identity /\ loc[p].verdict \in Verdict
    BY <1>2, LocalsType DEF Persist
  <2>3. name' \in [Candidate -> Identity \cup {None}]
    BY <2>1, <2>2 DEF TypeOK
  <2>4. ledger' \in [Candidate -> Ledger \cup {None}]
    BY <2>1, <2>2, NewLedgerType, RescreenedType DEF TypeOK
  <2> QED BY <1>2, <2>3, <2>4, ReturnType DEF Persist, TypeOK, git, counters
<1>3. ASSUME NEW c \in Candidate, NEW o \in Assessment \ {"none"}, Assess(c, o)
      PROVE  TypeOK'
  <2>1. ledger' \in [Candidate -> Ledger \cup {None}]
    BY <1>3, AssessedType DEF Assess, TypeOK
  <2> QED BY <1>3, <2>1 DEF Assess, TypeOK, git, counters
<1>4. ASSUME NEW p \in Proc, NEW c \in Candidate, NEW e \in Evidence, Authorize(p, c, e)
      PROVE  TypeOK'
  <2>1. loc' \in [Proc -> Loc]
    BY <1>4, LocType DEF Authorize
  <2>2. pc' \in [Proc -> PC]
    BY <1>4 DEF Authorize, Goto, TypeOK, PC
  <2> QED BY <1>4, <2>1, <2>2, BoundAssumption
          DEF Authorize, Acquire, TypeOK, git
<1>5. ASSUME NEW p \in Proc, Reconcile(p) PROVE TypeOK'
  <2>1. /\ loc[p].cand \in Candidate /\ loc[p].ev \in Evidence
        /\ ledger[loc[p].cand] \in Ledger
    BY <1>5, LocalsType DEF Reconcile
  <2>2. ledger' \in [Candidate -> Ledger \cup {None}]
    BY <1>5, <2>1, LinkedType DEF Reconcile, Linkable, TypeOK
  <2> QED BY <1>5, <2>2, ReturnType DEF Reconcile, TypeOK, git, counters
<1>6. ASSUME NEW p \in Proc, NEW c \in Candidate, NEW e \in Evidence, ApplyStart(p, c, e)
      PROVE  TypeOK'
  <2>1. ledger[c] \in Ledger
    BY <1>6 DEF ApplyStart, TypeOK
  <2>2. loc' \in [Proc -> Loc]
    BY <1>6, <2>1, LocType DEF ApplyStart
  <2>3. pc' \in [Proc -> PC]
    BY <1>6 DEF ApplyStart, Goto, TypeOK, PC
  <2> QED BY <1>6, <2>2, <2>3, BoundAssumption
          DEF ApplyStart, Acquire, TypeOK, git, durable
<1>7. ASSUME NEW p \in Proc, WriteIntent(p) PROVE TypeOK'
  <2>1. intents' \in [Candidate -> Intent \cup {None}]
    BY <1>7, IntentWritten DEF TypeOK
  <2>2. pc' \in [Proc -> PC]
    BY <1>7 DEF WriteIntent, Goto, TypeOK, PC
  <2>3. reached' \in [Candidate -> BOOLEAN]
    BY <1>7 DEF WriteIntent, Observed
  <2> QED BY <1>7, <2>1, <2>2, <2>3 DEF WriteIntent, TypeOK, git, counters
<1>8. ASSUME NEW p \in Proc, RecordIntent(p) PROVE TypeOK'
  <2>1. /\ loc[p].cand \in Candidate /\ loc[p].ev \in Evidence
        /\ loc[p].copy \in Ledger
    BY <1>8, LocalsType DEF RecordIntent, InApply, Planned
  <2>2. Record(loc[p].copy, By("application_intent", loc[p].ev)) \in Ledger
    BY <2>1, RecordType, EventTypes DEF EventKind
  <2>3. ledger' \in [Candidate -> Ledger \cup {None}]
    BY <1>8, <2>1, <2>2 DEF RecordIntent, TypeOK
  <2>4. loc' \in [Proc -> Loc]
    BY <1>8, LocType DEF RecordIntent
  <2>5. pc' \in [Proc -> PC]
    BY <1>8 DEF RecordIntent, Goto, TypeOK, PC
  <2> QED BY <1>8, <2>3, <2>4, <2>5 DEF RecordIntent, TypeOK, git, counters
<1>9. ASSUME NEW p \in Proc, Rebind(p) PROVE TypeOK'
  BY <1>9 DEF Rebind, Goto, TypeOK, PC, git, durable, counters
<1>10. ASSUME NEW p \in Proc, Swap(p) PROVE TypeOK'
  <2>1. /\ loc[p].cand \in Candidate
        /\ intents[loc[p].cand] \in Intent
    BY <1>10, LocalsType DEF Swap, Planned
  <2>2. intents[loc[p].cand].after \in File
    BY <2>1 DEF Intent
  <2>3. work' \in Tree
    BY <1>10, <2>2 DEF Swap, TypeOK, Tree
  <2>4. reached' \in [Candidate -> BOOLEAN]
    BY <1>10 DEF Swap, Observed
  <2> QED BY <1>10, <2>3, <2>4 DEF Swap, Goto, TypeOK, PC, durable, counters
<1>11. ASSUME NEW p \in Proc, CheckPost(p) PROVE TypeOK'
  BY <1>11 DEF CheckPost, Goto, TypeOK, PC, git, durable, counters
<1>12. ASSUME NEW p \in Proc, Issue(p) PROVE TypeOK'
  <2> DEFINE c == loc[p].cand
             b == BodyOf(intents[c], loc[p].recovering)
  <2>1. c \in Candidate /\ ledger[c] \in Ledger /\ intents[c] \in Intent
    BY <1>12, LocalsType DEF Issue, Planned
  <2>2. b \in Body
    BY <2>1, LocalsType DEF BodyOf, Body, Intent
  <2>3. Record(ledger[c], Applied(b)) \in Ledger
    BY <2>1, <2>2, RecordType, EventTypes
  <2>4. ledger' \in [Candidate -> Ledger \cup {None}]
    BY <1>12, <2>1, <2>3 DEF Issue, TypeOK
  <2>5. pc' \in [Proc -> PC]
    BY <1>12 DEF Issue, Goto, TypeOK, PC
  <2> QED BY <1>12, <2>4, <2>5 DEF Issue, TypeOK, git, counters
<1>13. ASSUME NEW p \in Proc, WriteReceipt(p) PROVE TypeOK'
  <2>1. loc[p].cand \in Candidate /\ ledger[loc[p].cand] \in Ledger
    BY <1>13, LocalsType DEF WriteReceipt, Planned
  <2>2. PICK b \in IssuedBodies(loc[p].cand) :
            receipts' = [receipts EXCEPT ![loc[p].cand] = b]
    BY <1>13 DEF WriteReceipt
  <2>3. b \in Body
    BY <2>1, IssuedType
  <2>4. receipts' \in [Candidate -> Body \cup {None}]
    BY <2>2, <2>3 DEF TypeOK
  <2>5. CASE loc[p].recovering
    <3>1. loc' = [loc EXCEPT ![p].cand = None]
      BY <1>13, <2>5 DEF WriteReceipt
    <3>3. loc' \in [Proc -> Loc]
      BY <3>1, LocType
    <3>2. pc' \in [Proc -> PC] /\ lock' = lock
      BY <1>13, <2>5 DEF WriteReceipt, Goto, TypeOK, PC
    <3> QED BY <1>13, <2>4, <3>2, <3>3 DEF WriteReceipt, TypeOK, git, counters
  <2>6. CASE ~loc[p].recovering
    BY <1>13, <2>4, <2>6, ReturnType DEF WriteReceipt, TypeOK, git, counters
  <2> QED BY <2>5, <2>6
<1>14. ASSUME NEW p \in Proc, RecoverStart(p) PROVE TypeOK'
  <2>1. {c \in Candidate : intents[c] # None} \in SUBSET Candidate
    OBVIOUS
  <2>2. loc' \in [Proc -> Loc]
    BY <1>14, <2>1, LocType DEF RecoverStart
  <2>3. pc' \in [Proc -> PC]
    BY <1>14 DEF RecoverStart, Goto, TypeOK, PC
  <2> QED BY <1>14, <2>2, <2>3 DEF RecoverStart, Acquire, TypeOK, git, durable, counters
<1>15. ASSUME NEW p \in Proc, NEW c \in Candidate, RecoverFinalize(p, c) PROVE TypeOK'
  <2>1. loc' \in [Proc -> Loc]
    BY <1>15, LocType DEF RecoverFinalize
  <2>2. pc' \in [Proc -> PC]
    BY <1>15 DEF RecoverFinalize, Goto, TypeOK, PC
  <2> QED BY <1>15, <2>1, <2>2 DEF RecoverFinalize, TypeOK, git, durable, counters
<1>16. ASSUME NEW p \in Proc, NEW c \in Candidate, RecoverSkip(p, c) PROVE TypeOK'
  <2>1. loc' \in [Proc -> Loc]
    BY <1>16, LocType DEF RecoverSkip
  <2> QED BY <1>16, <2>1 DEF RecoverSkip, TypeOK, git, durable, counters
<1>17. ASSUME NEW p \in Proc, RecoverDone(p) \/ Raise(p) \/ Abandon(p) PROVE TypeOK'
  BY <1>17, ReturnType DEF RecoverDone, Raise, Abandon, TypeOK, git, durable, counters
<1>18. ASSUME NEW p \in Proc, Crash(p) PROVE TypeOK'
  BY <1>18, ReturnType, BoundAssumption DEF Crash, TypeOK, git, durable
<1>19. ASSUME NEW f \in Path, NEW b \in File, Edit(f, b) PROVE TypeOK'
  <2>1. work' \in Tree
    BY <1>19 DEF Edit, TypeOK, Tree
  <2>2. reached' \in [Candidate -> BOOLEAN]
    BY <1>19 DEF Edit, Observed
  <2> QED BY <1>19, <2>1, <2>2 DEF Edit, TypeOK, durable
<1>20. CASE Commit
  <2>1. reached' \in [Candidate -> BOOLEAN]
    BY <1>20 DEF Commit, Observed
  <2> QED BY <1>20, <2>1 DEF Commit, TypeOK, durable
<1>21. CASE Expire
  BY <1>21 DEF Expire, TypeOK, durable, counters
<1>22. CASE UNCHANGED vars
  BY <1>22 DEF vars, git, durable, counters, TypeOK
<1> QED
  BY <1>1, <1>2, <1>3, <1>4, <1>5, <1>6, <1>7, <1>8, <1>9, <1>10, <1>11, <1>12,
     <1>13, <1>14, <1>15, <1>16, <1>17, <1>18, <1>19, <1>20, <1>21, <1>22
     DEF Next, Call, Continue, Recovery, Environment

\* A process whose own state and whose view of the artifacts did not change.
LEMMA StillConsistent ==
    ASSUME NEW q \in Proc, Consistent(q), UNCHANGED <<durable, lock>>,
           pc'[q] = pc[q], loc'[q] = loc[q]
    PROVE  Consistent(q)'
BY DEF Consistent, durable, Has, IssuedBodies, EventsOf

\* A process that is outside its critical section while p is inside knows nothing
\* that p could change.
LEMMA BystanderConsistent ==
    ASSUME NEW p, NEW q \in Proc, q # p, q # None, Consistent(q),
           lock \in {None, p}, lock' \in {None, p},
           pc'[q] = pc[q], loc'[q] = loc[q]
    PROVE  Consistent(q)'
<1>1. pc[q] \in {"idle", "screened"}
  BY DEF Consistent
<1>2. lock' # q
  OBVIOUS
<1> QED BY <1>1, <1>2 DEF Consistent, InApply, Planned

\* A call that returns is outside its critical section.
LEMMA ReturnConsistent ==
    ASSUME TypeOK, NEW p \in Proc, Return(p)
    PROVE  /\ Consistent(p)'
           /\ \A q \in Proc \ {p} : pc'[q] = pc[q] /\ loc'[q] = loc[q]
<1>1. pc'[p] = "idle" /\ lock' # p
  BY NoneAssumption DEF Return, Goto, TypeOK
<1>2. Consistent(p)'
  BY <1>1 DEF Consistent, InApply, Planned
<1> QED BY <1>2 DEF Return, Goto, TypeOK

\* Every step keeps what the calls remember consistent with the artifacts.
LEMMA CallsStep == IInv /\ [Next]_vars => CallsConsistent'
<1> SUFFICES ASSUME IInv, [Next]_vars PROVE CallsConsistent'
  OBVIOUS
<1> USE DEF IInv
<1>a. \A q \in Proc : q # None /\ Consistent(q)
  BY NoneAssumption DEF CallsConsistent
\* p alone moves, under the lock, and stays consistent: so do the others
<1>b. ASSUME NEW p \in Proc, Consistent(p)', lock \in {None, p}, lock' \in {None, p},
             \A q \in Proc \ {p} : pc'[q] = pc[q] /\ loc'[q] = loc[q]
      PROVE  CallsConsistent'
  BY <1>a, <1>b, BystanderConsistent DEF CallsConsistent
\* p alone moves, without touching an artifact or the lock
<1>c. ASSUME NEW p \in Proc, Consistent(p)', UNCHANGED <<durable, lock>>,
             \A q \in Proc \ {p} : pc'[q] = pc[q] /\ loc'[q] = loc[q]
      PROVE  CallsConsistent'
  BY <1>a, <1>c, StillConsistent DEF CallsConsistent
\* nothing of a call moves
<1>d. ASSUME UNCHANGED <<durable, lock, pc, loc>> PROVE CallsConsistent'
  BY <1>a, <1>d, StillConsistent DEF CallsConsistent
\* p is in its critical section
<1>e. \A p \in Proc : pc[p] \notin {"idle", "screened"} => lock = p
  BY <1>a DEF Consistent
<1>1. ASSUME NEW p \in Proc, NEW pl \in Payload, NEW gate \in Verdict,
             Observe(p, pl, gate)
      PROVE  CallsConsistent'
  <2>1. Worst(pl, gate) \in Verdict /\ IdentityOf(pl) \in Identity
    BY IdentityType DEF Worst, Verdict
  <2>2. pc'[p] = "screened" /\ lock # p /\ lock' = lock
    BY <1>1, <1>a DEF Observe, Goto, TypeOK, Consistent
  <2>3. loc'[p].id # None /\ loc'[p].verdict # None
    <3>1. loc'[p] = [loc[p] EXCEPT !.id = IdentityOf(pl), !.verdict = Worst(pl, gate)]
      BY <1>1 DEF Observe, TypeOK
    <3>2. loc'[p].id = IdentityOf(pl) /\ loc'[p].verdict = Worst(pl, gate)
      BY <3>1 DEF TypeOK, Loc
    <3> QED BY <2>1, <3>2, NoneAssumption
  <2>4. Consistent(p)'
    BY <2>2, <2>3 DEF Consistent, InApply, Planned
  <2> QED BY <1>1, <1>c, <2>4 DEF Observe, Goto, TypeOK
<1>2. ASSUME NEW p \in Proc, Persist(p) PROVE CallsConsistent'
  <2>1. lock = None /\ Return(p)
    BY <1>2 DEF Persist
  <2>2. lock' \in {None, p}
    BY <2>1 DEF Return
  <2> QED BY <2>1, <2>2, <1>b, ReturnConsistent
<1>3. ASSUME NEW c \in Candidate, NEW o \in Assessment \ {"none"}, Assess(c, o)
      PROVE  CallsConsistent'
  <2>1. UNCHANGED <<pc, loc>> /\ lock = None /\ lock' = None
    BY <1>3 DEF Assess
  <2>2. \A q \in Proc : pc[q] \in {"idle", "screened"}
    BY <2>1, <1>a DEF Consistent
  <2>3. \A q \in Proc : Consistent(q)'
    BY <2>1, <2>2, <1>a DEF Consistent, InApply, Planned
  <2> QED BY <2>3 DEF CallsConsistent
<1>4. ASSUME NEW p \in Proc, NEW c \in Candidate, NEW e \in Evidence, Authorize(p, c, e)
      PROVE  CallsConsistent'
  <2>1. pc'[p] = "reconcile" /\ lock = None /\ lock' = p
    BY <1>4 DEF Authorize, Acquire, Goto, TypeOK
  <2>2. loc'[p].cand = c /\ loc'[p].ev = e
    BY <1>4 DEF Authorize, TypeOK, Loc
  <2>3. ledger'[c] # None /\ <<c, e>> \in approvals'
    BY <1>4 DEF Authorize
  <2>4. Consistent(p)'
    BY <2>1, <2>2, <2>3, NoneAssumption DEF Consistent, InApply, Planned, Has
  <2> QED BY <1>4, <1>b, <2>1, <2>4 DEF Authorize, Goto, TypeOK
<1>5. ASSUME NEW p \in Proc, Reconcile(p) PROVE CallsConsistent'
  <2>1. lock = p /\ Return(p)
    BY <1>5, <1>e DEF Reconcile
  <2>2. lock' \in {None, p}
    BY <2>1 DEF Return
  <2> QED BY <2>1, <2>2, <1>b, ReturnConsistent
<1>6. ASSUME NEW p \in Proc, NEW c \in Candidate, NEW e \in Evidence, ApplyStart(p, c, e)
      PROVE  CallsConsistent'
  <2>1. pc'[p] = "validate" /\ lock = None /\ lock' = p
    BY <1>6 DEF ApplyStart, Acquire, Goto, TypeOK
  <2>2. loc'[p].cand = c /\ loc'[p].ev = e /\ loc'[p].copy = ledger[c]
    BY <1>6 DEF ApplyStart, TypeOK, Loc
  <2>3. /\ ledger'[c] # None /\ <<c, e>> \in approvals'
        /\ ledger'[c].disposition = "approved" /\ e \in ledger'[c].links
        /\ receipts'[c] = None /\ ledger'[c] = ledger[c]
    BY <1>6 DEF ApplyStart, Unfinished, durable
  <2>4. Consistent(p)'
    BY <2>1, <2>2, <2>3, NoneAssumption DEF Consistent, InApply, Planned, Has
  <2> QED BY <1>6, <1>b, <2>1, <2>4 DEF ApplyStart, Goto, TypeOK
<1>7. ASSUME NEW p \in Proc, WriteIntent(p) PROVE CallsConsistent'
  <2> DEFINE c == loc[p].cand
  <2>1. pc[p] = "validate" /\ pc'[p] = "event" /\ lock = p /\ lock' = p /\ loc' = loc
    BY <1>7, <1>e DEF WriteIntent, Goto, TypeOK
  <2>2. c \in Candidate
    BY <2>1, LocalsType DEF InApply
  <2>3. intents'[c] # None /\ intents'[c].by = loc[p].ev
    <3>1. PICK i \in Intent : i.by = loc[p].ev /\ intents' = [intents EXCEPT ![c] = i]
      BY <1>7, IntentWritten
    <3> QED BY <2>2, <3>1, NoneAssumption DEF TypeOK
  <2>4. /\ ledger' = ledger /\ approvals' = approvals /\ receipts' = receipts
        /\ c # None /\ Has(c) /\ loc[p].ev # None /\ <<c, loc[p].ev>> \in approvals
        /\ ledger[c].disposition = "approved" /\ loc[p].ev \in ledger[c].links
        /\ loc[p].copy = ledger[c] /\ receipts[c] = None
    BY <1>7, <1>a, <2>1 DEF WriteIntent, Consistent, InApply
  <2>5. Consistent(p)'
    BY <2>1, <2>3, <2>4 DEF Consistent, InApply, Planned, Has
  <2> QED BY <1>7, <1>b, <2>1, <2>5 DEF WriteIntent, Goto, TypeOK
<1>8. ASSUME NEW p \in Proc, RecordIntent(p) PROVE CallsConsistent'
  <2> DEFINE c == loc[p].cand
             l == Record(loc[p].copy, By("application_intent", loc[p].ev))
  <2>1. pc[p] = "event" /\ pc'[p] \in {"digest", "rebind"} /\ lock = p /\ lock' = p
    BY <1>8, <1>e DEF RecordIntent, Goto, TypeOK
  <2>2. /\ c \in Candidate /\ c # None /\ loc[p].ev # None /\ loc[p].ev \in Evidence
        /\ <<c, loc[p].ev>> \in approvals
        /\ ledger[c].disposition = "approved" /\ loc[p].ev \in ledger[c].links
        /\ loc[p].copy = ledger[c] /\ loc[p].copy \in Ledger /\ receipts[c] = None
        /\ intents[c] # None /\ intents[c].by = loc[p].ev
    BY <2>1, <1>a, LocalsType DEF Consistent, InApply, Planned
  <2>3. l \in Ledger /\ l.links = ledger[c].links /\ l.disposition = "approved"
    <3>1. By("application_intent", loc[p].ev) \in Event
      BY <2>2, EventTypes DEF EventKind
    <3>2. /\ l \in Ledger /\ l.links = loc[p].copy.links
          /\ l.disposition = loc[p].copy.disposition
      BY <2>2, <3>1, RecordType
    <3> QED BY <2>2, <3>2
  <2>4. loc'[p].cand = c /\ loc'[p].ev = loc[p].ev
    BY <1>8 DEF RecordIntent, TypeOK, Loc
  <2>5. ledger'[c] = l /\ l # None
    BY <1>8, <2>2, <2>3, NoneAssumption DEF RecordIntent, TypeOK
  <2>6. intents' = intents /\ approvals' = approvals /\ receipts' = receipts
    BY <1>8 DEF RecordIntent
  <2> HIDE DEF c, l
  <2>7. Consistent(p)'
    BY <2>1, <2>2, <2>3, <2>4, <2>5, <2>6 DEF Consistent, InApply, Planned, Has
  <2> QED BY <1>8, <1>b, <2>1, <2>7 DEF RecordIntent, Goto, TypeOK
<1>9. ASSUME NEW p \in Proc, Rebind(p) PROVE CallsConsistent'
  <2>1. /\ pc[p] = "rebind" /\ pc'[p] = "swap"
        /\ UNCHANGED <<durable, lock, loc>>
        /\ \A q \in Proc \ {p} : pc'[q] = pc[q]
    BY <1>9 DEF Rebind, Goto, TypeOK
  <2>2. Consistent(p)'
    BY <2>1, <1>a DEF Consistent, InApply, Planned, durable, Has
  <2> QED BY <1>c, <2>1, <2>2
<1>10. ASSUME NEW p \in Proc, Swap(p) PROVE CallsConsistent'
  <2>1. /\ pc[p] = "swap" /\ pc'[p] = "digest"
        /\ UNCHANGED <<durable, lock, loc>>
        /\ \A q \in Proc \ {p} : pc'[q] = pc[q]
    BY <1>10 DEF Swap, Goto, TypeOK
  <2>2. Consistent(p)'
    BY <2>1, <1>a DEF Consistent, InApply, Planned, durable, Has
  <2> QED BY <1>c, <2>1, <2>2
<1>11. ASSUME NEW p \in Proc, CheckPost(p) PROVE CallsConsistent'
  <2>1. /\ pc[p] = "digest" /\ pc'[p] = "issue"
        /\ UNCHANGED <<durable, lock, loc>>
        /\ \A q \in Proc \ {p} : pc'[q] = pc[q]
    BY <1>11 DEF CheckPost, Goto, TypeOK
  <2>2. Consistent(p)'
    BY <2>1, <1>a DEF Consistent, InApply, Planned, durable, Has
  <2> QED BY <1>c, <2>1, <2>2
<1>12. ASSUME NEW p \in Proc, Issue(p) PROVE CallsConsistent'
  <2> DEFINE c == loc[p].cand
             b == BodyOf(intents[c], loc[p].recovering)
  <2>1. /\ pc[p] = "issue" /\ pc'[p] = "receipt" /\ lock = p /\ lock' = p
        /\ UNCHANGED <<loc, intents, receipts>>
    BY <1>12, <1>e DEF Issue, Goto, TypeOK
  <2>2. /\ c # None /\ receipts[c] = None /\ intents[c] # None
        /\ intents[c].by \in ledger[c].links
    BY <2>1, <1>a DEF Consistent, Planned
  <2>3. /\ ledger'[c] # None /\ ledger'[c].links = ledger[c].links
        /\ IssuedBodies(c)' # {}
    BY <1>12, IssueKeeps, NoneAssumption
  <2>4. Consistent(p)'
    <3> HIDE DEF c
    <3> QED BY <2>1, <2>2, <2>3 DEF c, Consistent, InApply, Planned, Has
  <2> QED BY <1>12, <1>b, <2>1, <2>4 DEF Issue, Goto, TypeOK
<1>13. ASSUME NEW p \in Proc, WriteReceipt(p) PROVE CallsConsistent'
  <2>1. pc[p] = "receipt" /\ lock = p
    BY <1>13, <1>e DEF WriteReceipt
  <2>2. CASE loc[p].recovering
    <3>1. pc'[p] = "recover" /\ lock' = p
      BY <1>13, <2>1, <2>2 DEF WriteReceipt, Goto, TypeOK
    <3>2. Consistent(p)'
      BY <3>1 DEF Consistent, InApply, Planned
    <3> QED BY <1>13, <1>b, <2>1, <2>2, <3>1, <3>2 DEF WriteReceipt, Goto, TypeOK
  <2>3. CASE ~loc[p].recovering
    <3>1. Return(p) /\ lock' \in {None, p}
      BY <1>13, <2>1, <2>3 DEF WriteReceipt, Return
    <3> QED BY <2>1, <3>1, <1>b, ReturnConsistent
  <2> QED BY <2>2, <2>3
<1>14. ASSUME NEW p \in Proc, RecoverStart(p) PROVE CallsConsistent'
  <2>1. pc'[p] = "recover" /\ lock = None /\ lock' = p
    BY <1>14 DEF RecoverStart, Acquire, Goto, TypeOK
  <2>2. Consistent(p)'
    BY <2>1 DEF Consistent, InApply, Planned
  <2> QED BY <1>14, <1>b, <2>1, <2>2 DEF RecoverStart, Goto, TypeOK
<1>15. ASSUME NEW p \in Proc, NEW c \in Candidate, RecoverFinalize(p, c)
      PROVE  CallsConsistent'
  <2>1. pc[p] = "recover" /\ pc'[p] = "issue" /\ lock = p /\ lock' = p /\ UNCHANGED durable
    BY <1>15, <1>e DEF RecoverFinalize, Goto, TypeOK
  <2>2. loc'[p].cand = c /\ c # None
    BY <1>15, NoneAssumption DEF RecoverFinalize, TypeOK, Loc
  <2>3. intents[c] # None
    BY <1>15 DEF RecoverFinalize, Finalizable
  <2>4. /\ Has(c) /\ receipts[c] = None /\ intents[c].by \in ledger[c].links
    BY <1>15, <2>3 DEF RecoverFinalize, Finalizable, ArtifactOrder
  <2>5. Consistent(p)'
    BY <2>1, <2>2, <2>3, <2>4 DEF Consistent, InApply, Planned, Has, durable
  <2> QED BY <1>15, <1>b, <2>1, <2>5 DEF RecoverFinalize, Goto, TypeOK
<1>16. ASSUME NEW p \in Proc, NEW c \in Candidate, RecoverSkip(p, c)
      PROVE  CallsConsistent'
  <2>1. /\ pc[p] = "recover" /\ UNCHANGED <<durable, lock, pc>>
        /\ \A q \in Proc \ {p} : loc'[q] = loc[q]
    BY <1>16 DEF RecoverSkip, TypeOK
  <2>2. Consistent(p)'
    BY <2>1, <1>a DEF Consistent, InApply, Planned
  <2> QED BY <1>c, <2>1, <2>2
<1>17. ASSUME NEW p \in Proc, RecoverDone(p) \/ Raise(p) \/ Crash(p)
      PROVE  CallsConsistent'
  <2>1. lock = p /\ Return(p)
    BY <1>17, <1>e DEF RecoverDone, Raise, Crash
  <2>2. lock' \in {None, p}
    BY <2>1 DEF Return
  <2> QED BY <2>1, <2>2, <1>b, ReturnConsistent
<1>18. ASSUME NEW p \in Proc, Abandon(p) PROVE CallsConsistent'
  <2>1. lock # p /\ Return(p) /\ UNCHANGED durable
    BY <1>18, <1>a DEF Abandon, Consistent
  <2>2. lock' = lock
    BY <2>1 DEF Return
  <2> QED BY <2>1, <2>2, <1>c, ReturnConsistent
<1>19. CASE Environment
  BY <1>19, <1>d DEF Environment, Edit, Commit, Expire
<1>20. CASE UNCHANGED vars
  BY <1>20, <1>d DEF vars
<1> QED
  BY <1>1, <1>2, <1>3, <1>4, <1>5, <1>6, <1>7, <1>8, <1>9, <1>10, <1>11, <1>12,
     <1>13, <1>14, <1>15, <1>16, <1>17, <1>18, <1>19, <1>20
     DEF Next, Call, Continue, Recovery

-----------------------------------------------------------------------------
(* How the artifacts of one candidate move.  Every property of the          *)
(* artifacts is proved from this, without looking at the actions again.     *)

LedgerMove(c) ==
    \/ ledger'[c] = ledger[c]
    \/ ledger[c] = None /\ name'[c] # None
       /\ \E v \in Verdict : ledger'[c] = NewLedger(v)
    \/ Has(c) /\ \E v \in Verdict : ledger'[c] = Rescreened(ledger[c], v)
    \/ Has(c) /\ \E o \in Assessment \ {"none"} : ledger'[c] = Assessed(ledger[c], o)
    \/ Has(c) /\ \E e \in Evidence : /\ ledger[c].links \subseteq {e}
                                     /\ <<c, e>> \in approvals
                                     /\ ledger'[c] = Linked(ledger[c], e)
    \/ Has(c) /\ \E e \in ledger[c].links :
                    ledger'[c] = Record(ledger[c], By("application_intent", e))
    \/ /\ Has(c) /\ intents[c] \in Intent /\ intents[c].by \in ledger[c].links
       /\ receipts[c] = None /\ IssuedBodies(c) = {}
       /\ \E rec \in BOOLEAN :
            ledger'[c] = Record(ledger[c], Applied(BodyOf(intents[c], rec)))

IntentMove(c) ==
    \/ intents'[c] = intents[c]
    \/ /\ intents'[c] \in Intent /\ Has(c) /\ intents'[c].by \in ledger[c].links
       /\ receipts[c] = None /\ receipts'[c] = None /\ ledger'[c] = ledger[c]

ReceiptMove(c) ==
    \/ receipts'[c] = receipts[c]
    \/ /\ receipts[c] = None /\ receipts'[c] \in IssuedBodies(c)
       /\ intents[c] \in Intent /\ Has(c) /\ intents[c].by \in ledger[c].links
       /\ intents'[c] = intents[c] /\ ledger'[c] = ledger[c]

Moves(c) ==
    /\ name[c] # None => name'[c] = name[c]
    /\ approvals \subseteq approvals'
    /\ LedgerMove(c) /\ IntentMove(c) /\ ReceiptMove(c)

\* A step that writes no artifact moves none.
LEMMA DurableStill ==
    ASSUME NEW c, UNCHANGED durable
    PROVE  Moves(c)
BY DEF durable, Moves, LedgerMove, IntentMove, ReceiptMove

\* The artifacts of a candidate move in no other way than those.
LEMMA ArtifactMoves ==
    ASSUME IInv, [Next]_vars, NEW d \in Candidate
    PROVE  Moves(d)
<1> USE DEF IInv
<1>1. ASSUME NEW p \in Proc, Persist(p) PROVE Moves(d)
  <2>1. PICK c \in Candidate :
          /\ NameFor(loc[p].id, c)
          /\ name' = [name EXCEPT ![c] = loc[p].id]
          /\ ledger' = [ledger EXCEPT ![c] =
                         IF @ = None THEN NewLedger(loc[p].verdict)
                                     ELSE Rescreened(@, loc[p].verdict)]
    BY <1>1 DEF Persist
  <2>2. loc[p].id \in Identity /\ loc[p].verdict \in Verdict
    BY <1>1, LocalsType DEF Persist
  <2>3. name[d] # None => name'[d] = name[d]
    BY <2>1 DEF TypeOK, NameFor
  <2>4. LedgerMove(d)
    <3>1. CASE d # c
      BY <2>1, <3>1 DEF LedgerMove, TypeOK
    <3>2. CASE d = c /\ ledger[d] = None
      <4>1. name'[d] # None
        BY <2>1, <2>2, <3>2, NoneAssumption DEF TypeOK
      <4>2. ledger'[d] = NewLedger(loc[p].verdict)
        BY <2>1, <3>2 DEF TypeOK
      <4> QED BY <2>2, <3>2, <4>1, <4>2 DEF LedgerMove
    <3>3. CASE d = c /\ ledger[d] # None
      <4>1. ledger'[d] = Rescreened(ledger[d], loc[p].verdict)
        BY <2>1, <3>3 DEF TypeOK
      <4> QED BY <2>2, <3>3, <4>1 DEF LedgerMove, Has
    <3> QED BY <3>1, <3>2, <3>3
  <2> QED BY <1>1, <2>3, <2>4 DEF Persist, Moves, IntentMove, ReceiptMove
<1>2. ASSUME NEW c \in Candidate, NEW o \in Assessment \ {"none"}, Assess(c, o)
      PROVE  Moves(d)
  <2>1. LedgerMove(d)
    <3>1. CASE d # c
      BY <1>2, <3>1 DEF Assess, LedgerMove, TypeOK
    <3>2. CASE d = c
      <4>1. Has(d) /\ ledger'[d] = Assessed(ledger[d], o)
        BY <1>2, <3>2 DEF Assess, TypeOK, Has
      <4> QED BY <4>1 DEF LedgerMove
    <3> QED BY <3>1, <3>2
  <2> QED BY <1>2, <2>1 DEF Assess, Moves, IntentMove, ReceiptMove
<1>3. ASSUME NEW p \in Proc, NEW c \in Candidate, NEW e \in Evidence, Authorize(p, c, e)
      PROVE  Moves(d)
  BY <1>3 DEF Authorize, Moves, LedgerMove, IntentMove, ReceiptMove
<1>4. ASSUME NEW p \in Proc, Reconcile(p) PROVE Moves(d)
  <2> DEFINE c == loc[p].cand
             e == loc[p].ev
  <2>1. pc[p] = "reconcile"
    BY <1>4 DEF Reconcile
  <2>2. /\ c \in Candidate /\ e \in Evidence
        /\ Has(c) /\ <<c, e>> \in approvals
    BY <2>1, LocalsType DEF CallsConsistent, Consistent
  <2>3. LedgerMove(d)
    <3>1. CASE ledger' = ledger
      BY <3>1 DEF LedgerMove
    <3>2. CASE ledger[c].links \subseteq {e} /\ ledger' = [ledger EXCEPT ![c] = Linked(@, e)]
      <4>1. CASE d # c
        BY <3>2, <4>1 DEF LedgerMove, TypeOK
      <4>2. CASE d = c
        <5>1. ledger'[d] = Linked(ledger[d], e)
          BY <2>2, <3>2, <4>2 DEF TypeOK
        <5> QED BY <2>2, <3>2, <4>2, <5>1 DEF LedgerMove
      <4> QED BY <4>1, <4>2
    <3> QED BY <1>4, <3>1, <3>2 DEF Reconcile, Linkable
  <2> QED BY <1>4, <2>3 DEF Reconcile, Moves, IntentMove, ReceiptMove
<1>5. ASSUME NEW p \in Proc, WriteIntent(p) PROVE Moves(d)
  <2> DEFINE c == loc[p].cand
  <2>1. PICK i \in Intent : i.by = loc[p].ev /\ intents' = [intents EXCEPT ![c] = i]
    BY <1>5, IntentWritten
  <2>2. pc[p] = "validate" /\ UNCHANGED <<name, ledger, approvals, receipts>>
    BY <1>5 DEF WriteIntent
  <2>3. c \in Candidate
    BY <1>5, IntentWritten
  <2>4. Has(c) /\ loc[p].ev \in ledger[c].links /\ receipts[c] = None
    BY <2>2 DEF CallsConsistent, Consistent, InApply
  <2>5. IntentMove(d)
    <3>1. CASE d # c
      BY <2>1, <3>1 DEF IntentMove, TypeOK
    <3>2. CASE d = c
      <4>1. intents'[d] = i
        BY <2>1, <2>3, <3>2 DEF TypeOK
      <4> QED BY <2>1, <2>2, <2>4, <3>2, <4>1 DEF IntentMove
    <3> QED BY <3>1, <3>2
  <2> QED BY <2>2, <2>5 DEF Moves, LedgerMove, ReceiptMove
<1>6. ASSUME NEW p \in Proc, RecordIntent(p) PROVE Moves(d)
  <2> DEFINE c == loc[p].cand
  <2>1. /\ pc[p] = "event"
        /\ ledger' = [ledger EXCEPT ![c] =
                        Record(loc[p].copy, By("application_intent", loc[p].ev))]
    BY <1>6 DEF RecordIntent
  <2>2. /\ c \in Candidate /\ Has(c) /\ loc[p].ev \in ledger[c].links
        /\ loc[p].copy = ledger[c]
    BY <2>1, LocalsType DEF CallsConsistent, Consistent, InApply, Planned
  <2>3. LedgerMove(d)
    <3>1. CASE d # c
      BY <2>1, <3>1 DEF LedgerMove, TypeOK
    <3>2. CASE d = c
      <4>1. ledger'[d] = Record(ledger[d], By("application_intent", loc[p].ev))
        BY <2>1, <2>2, <3>2 DEF TypeOK
      <4> QED BY <2>2, <3>2, <4>1 DEF LedgerMove
    <3> QED BY <3>1, <3>2
  <2> QED BY <1>6, <2>3 DEF RecordIntent, Moves, IntentMove, ReceiptMove
<1>7. ASSUME NEW p \in Proc, Issue(p) PROVE Moves(d)
  <2> DEFINE c == loc[p].cand
  <2>1. pc[p] = "issue" /\ UNCHANGED <<name, approvals, intents, receipts>>
    BY <1>7 DEF Issue
  <2>2. /\ c \in Candidate /\ Has(c) /\ intents[c] \in Intent
        /\ loc[p].recovering \in BOOLEAN
        /\ intents[c].by \in ledger[c].links /\ receipts[c] = None
    BY <2>1, LocalsType DEF CallsConsistent, Consistent, Planned
  <2>3. LedgerMove(d)
    <3>1. CASE ledger' = ledger
      BY <3>1 DEF LedgerMove
    <3>2. CASE /\ IssuedBodies(c) = {}
               /\ ledger' = [ledger EXCEPT ![c] =
                     Record(@, Applied(BodyOf(intents[c], loc[p].recovering)))]
      <4>1. CASE d # c
        BY <3>2, <4>1 DEF LedgerMove, TypeOK
      <4>2. CASE d = c
        <5>1. ledger'[d] = Record(ledger[d], Applied(BodyOf(intents[d], loc[p].recovering)))
          BY <2>2, <3>2, <4>2 DEF TypeOK
        <5> QED BY <2>2, <3>2, <4>2, <5>1 DEF LedgerMove
      <4> QED BY <4>1, <4>2
    <3> QED BY <1>7, <3>1, <3>2 DEF Issue
  <2> QED BY <2>1, <2>3 DEF Moves, IntentMove, ReceiptMove
<1>8. ASSUME NEW p \in Proc, WriteReceipt(p) PROVE Moves(d)
  <2> DEFINE c == loc[p].cand
  <2>1. pc[p] = "receipt" /\ UNCHANGED <<name, ledger, approvals, intents>>
    BY <1>8 DEF WriteReceipt
  <2>2. /\ c \in Candidate /\ Has(c) /\ intents[c] \in Intent
        /\ intents[c].by \in ledger[c].links /\ receipts[c] = None
    BY <2>1, LocalsType DEF CallsConsistent, Consistent, Planned
  <2>3. PICK b \in IssuedBodies(c) : receipts' = [receipts EXCEPT ![c] = b]
    BY <1>8 DEF WriteReceipt
  <2>4. ReceiptMove(d)
    BY <2>1, <2>2, <2>3 DEF ReceiptMove, TypeOK
  <2> QED BY <2>1, <2>4 DEF Moves, LedgerMove, IntentMove
<1>9. ASSUME UNCHANGED durable PROVE Moves(d)
  BY <1>9, DurableStill
<1>10. ASSUME NEW p \in Proc,
              \/ \E pl \in Payload, gate \in Verdict : Observe(p, pl, gate)
              \/ \E c \in Candidate, e \in Evidence : ApplyStart(p, c, e)
              \/ Rebind(p) \/ Swap(p) \/ CheckPost(p) \/ Raise(p) \/ Recovery(p)
              \/ Crash(p) \/ Abandon(p)
       PROVE  Moves(d)
  BY <1>9, <1>10 DEF Observe, ApplyStart, Rebind, Swap, CheckPost, Raise, Recovery,
       RecoverStart, RecoverFinalize, RecoverSkip, RecoverDone, Crash, Abandon
<1>11. CASE Environment
  BY <1>9, <1>11 DEF Environment, Edit, Commit, Expire
<1>12. CASE UNCHANGED vars
  BY <1>9, <1>12 DEF vars
<1> QED
  BY <1>1, <1>2, <1>3, <1>4, <1>5, <1>6, <1>7, <1>8, <1>10, <1>11, <1>12
     DEF Next, Call, Continue

\* A ledger that is there stays a ledger; its links and its approval only change
\* when the one approval is linked.
LEMMA LinkMoves ==
    ASSUME TypeOK, NEW c \in Candidate, Has(c), LedgerMove(c)
    PROVE  /\ Has(c)' /\ ledger'[c] \in Ledger
           /\ \/ /\ ledger'[c].links = ledger[c].links
                 /\ ledger'[c].disposition = "approved" => ledger[c].disposition = "approved"
              \/ \E e \in Evidence : /\ ledger[c].links \subseteq {e}
                                     /\ <<c, e>> \in approvals
                                     /\ ledger'[c].links = {e}
<1>1. ledger[c] \in Ledger
  BY DEF TypeOK, Has
<1>2. \A l \in Ledger : l # None
  BY NoneAssumption
<1>3. CASE ledger'[c] = ledger[c]
  BY <1>1, <1>2, <1>3 DEF Has
<1>4. CASE \E v \in Verdict : ledger'[c] = Rescreened(ledger[c], v)
  BY <1>1, <1>2, <1>4, RescreenedType DEF Has
<1>5. CASE \E o \in Assessment \ {"none"} : ledger'[c] = Assessed(ledger[c], o)
  BY <1>1, <1>2, <1>5, AssessedType DEF Has
<1>6. CASE \E e \in Evidence : /\ ledger[c].links \subseteq {e}
                               /\ <<c, e>> \in approvals
                               /\ ledger'[c] = Linked(ledger[c], e)
  <2>1. PICK e \in Evidence : /\ ledger[c].links \subseteq {e}
                              /\ <<c, e>> \in approvals
                              /\ ledger'[c] = Linked(ledger[c], e)
    BY <1>6
  <2>2. ledger'[c] \in Ledger /\ ledger'[c].links = ledger[c].links \cup {e}
    BY <1>1, <2>1, LinkedType
  <2>3. ledger'[c].links = {e}
    BY <2>1, <2>2
  <2> QED BY <1>2, <2>1, <2>2, <2>3 DEF Has
<1>7. CASE \E e \in ledger[c].links :
              ledger'[c] = Record(ledger[c], By("application_intent", e))
  <2>1. PICK e \in ledger[c].links :
              ledger'[c] = Record(ledger[c], By("application_intent", e))
    BY <1>7
  <2>2. By("application_intent", e) \in Event
    BY <1>1, <2>1, EventTypes DEF EventKind, Ledger
  <2> QED BY <1>1, <1>2, <2>1, <2>2, RecordType DEF Has
<1>8. CASE /\ intents[c] \in Intent
           /\ \E rec \in BOOLEAN :
                ledger'[c] = Record(ledger[c], Applied(BodyOf(intents[c], rec)))
  <2>1. PICK rec \in BOOLEAN :
                ledger'[c] = Record(ledger[c], Applied(BodyOf(intents[c], rec)))
    BY <1>8
  <2>2. Applied(BodyOf(intents[c], rec)) \in Event
    <3>1. BodyOf(intents[c], rec) \in Body
      BY <1>8 DEF BodyOf, Body, Intent
    <3> QED BY <3>1, EventTypes
  <2> QED BY <1>1, <1>2, <2>1, <2>2, RecordType DEF Has
<1> QED BY <1>3, <1>4, <1>5, <1>6, <1>7, <1>8 DEF LedgerMove, Has

\* Every step keeps the order ledger, approval, intent, receipt.
LEMMA OrderStep == IInv /\ [Next]_vars => ArtifactOrder'
<1> SUFFICES ASSUME IInv, [Next]_vars, NEW c \in Candidate
             PROVE  /\ Has(c)' => name'[c] # None
                    /\ intents'[c] # None => Has(c)' /\ intents'[c].by \in ledger'[c].links
                    /\ receipts'[c] # None => intents'[c] # None
  BY DEF ArtifactOrder
<1>1. Moves(c) /\ TypeOK
  BY ArtifactMoves DEF IInv
<1>2. /\ Has(c) => name[c] # None
      /\ intents[c] # None => Has(c) /\ intents[c].by \in ledger[c].links
      /\ receipts[c] # None => intents[c] # None
  BY DEF IInv, ArtifactOrder
<1>3. Has(c)' => name'[c] # None
  BY <1>1, <1>2 DEF Moves, LedgerMove, Has
<1>4. intents'[c] # None => Has(c)' /\ intents'[c].by \in ledger'[c].links
  <2>1. CASE intents'[c] = intents[c] /\ Has(c)
    <3>1. Has(c)' /\ ledger[c].links \subseteq ledger'[c].links
      BY <1>1, <2>1, LinkMoves DEF Moves
    <3> QED BY <1>2, <2>1, <3>1
  <2>2. CASE intents'[c] = intents[c] /\ ~Has(c)
    BY <1>2, <2>2
  <2>3. CASE intents'[c] # intents[c]
    BY <1>1, <2>3 DEF Moves, IntentMove, Has
  <2> QED BY <2>1, <2>2, <2>3
<1>5. receipts'[c] # None => intents'[c] # None
  BY <1>1, <1>2, NoneAssumption DEF Moves, IntentMove, ReceiptMove
<1> QED BY <1>3, <1>4, <1>5

\* Every step keeps one durable approval behind every link and every approved ledger.
LEMMA ApprovalStep == IInv /\ [Next]_vars => ApprovalEvidence'
<1> SUFFICES ASSUME IInv, [Next]_vars, NEW c \in Candidate, Has(c)'
             PROVE  /\ \A e, f \in ledger'[c].links : e = f
                    /\ \A e \in ledger'[c].links : <<c, e>> \in approvals'
                    /\ ledger'[c].disposition = "approved" => ledger'[c].links # {}
  BY DEF ApprovalEvidence
<1>1. Moves(c) /\ TypeOK
  BY ArtifactMoves DEF IInv
<1>2. CASE Has(c)
  <2>1. /\ \A e, f \in ledger[c].links : e = f
        /\ \A e \in ledger[c].links : <<c, e>> \in approvals
        /\ ledger[c].disposition = "approved" => ledger[c].links # {}
    BY <1>2 DEF IInv, ApprovalEvidence
  <2>2. \/ /\ ledger'[c].links = ledger[c].links
           /\ ledger'[c].disposition = "approved" => ledger[c].disposition = "approved"
        \/ \E e \in Evidence : <<c, e>> \in approvals /\ ledger'[c].links = {e}
    BY <1>1, <1>2, LinkMoves DEF Moves
  <2> QED BY <1>1, <2>1, <2>2 DEF Moves
<1>3. CASE ~Has(c)
  <2>1. PICK v \in Verdict : ledger'[c] = NewLedger(v)
    BY <1>1, <1>3 DEF Moves, LedgerMove, Has
  <2> QED BY <2>1, NewLedgerType
<1> QED BY <1>2, <1>3

\* Nothing is there before the first call.
LEMMA InitIInv == Init => IInv
<1> SUFFICES ASSUME Init PROVE IInv
  OBVIOUS
<1>1. NoLoc \in Loc
  BY DEF NoLoc, Loc
<1>2. TypeOK
  BY <1>1, CheckoutAssumption DEF Init, TypeOK, PC
<1>3. CallsConsistent
  BY NoneAssumption DEF Init, CallsConsistent, Consistent, InApply, Planned
<1>4. ArtifactOrder /\ ApprovalEvidence
  BY DEF Init, ArtifactOrder, ApprovalEvidence, Has
<1> QED BY <1>2, <1>3, <1>4 DEF IInv

\* IInv holds in every state: the artifacts are well formed, the calls agree with
\* them, and they come in order and under one approval.
THEOREM Invariance == Spec => []IInv
<1>1. IInv /\ [Next]_vars => IInv'
  BY TypeStep, CallsStep, OrderStep, ApprovalStep DEF IInv
<1> QED BY InitIInv, <1>1, PTL DEF Spec

\* Every artifact and every local of a call keeps its declared shape.
THEOREM TypeCorrect == Spec => []TypeOK
<1>1. IInv => TypeOK
  BY DEF IInv
<1> QED BY Invariance, <1>1, PTL

\* A call in its critical section holds the writer lock and remembers nothing stale.
THEOREM CallsAgree == Spec => []CallsConsistent
<1>1. IInv => CallsConsistent
  BY DEF IInv
<1> QED BY Invariance, <1>1, PTL

\* Ledger, approval, intent and receipt of a candidate appear in that order.
THEOREM ArtifactsOrdered == Spec => []ArtifactOrder
<1>1. IInv => ArtifactOrder
  BY DEF IInv
<1> QED BY Invariance, <1>1, PTL

\* An approved candidate has exactly one approval, and its artifact is durable.
THEOREM OneApproval == Spec => []ApprovalEvidence
<1>1. IInv => ApprovalEvidence
  BY DEF IInv
<1> QED BY Invariance, <1>1, PTL
=============================================================================
