---------------------------- MODULE DeletionProofs ----------------------------
(***************************************************************************)
(* What RuntimeDeletion promises, for every value of its constants: a      *)
(* purged session stays gone, only sealed sessions are purged, and a       *)
(* receipt is there only for what was purged.                              *)
(***************************************************************************)
EXTENDS RuntimeDeletion, FiniteSetTheorems, SequenceTheorems, TLAPS

ReceiptStatus == {"none", "pending", "applied", "failed"}

Steps == {"idle", "lookup", "reopen", "existing", "purge", "record", "finalize", "mark"}

\* Every table and every local is of its declared shape.
TypeOK ==
    /\ evidence \subseteq Row /\ formed \subseteq Row
    /\ sealed \in [Request -> SUBSET Candidate] /\ applied \subseteq Request
    /\ receipt \in [Request -> ReceiptStatus]
    /\ pc \in [Proc -> Steps] /\ todo \in [Proc -> Seq(Request)]
    /\ take \in [Proc -> SUBSET Session]

\* Only a sealed tombstone is applied, and only an applied one is purged.
Decided ==
    /\ purged \subseteq applied
    /\ \A r \in applied : sealed[r] # {}

\* The barrier is up wherever nothing may come in again, and it is up for good.
Barrier ==
    /\ \A x \in evidence \cup formed : SessionOf[x] \notin barred
    /\ \A r \in purged : SealedSessions(r) \subseteq barred

\* What a process at step l, with the obligations s before it and the sessions S
\* that it has reopened, may rely on.
Sound(l, s, S) ==
    l # "idle" =>
        /\ s # <<>> /\ s \in Seq(applied)
        /\ l \in {"existing", "purge"} => S = SealedSessions(Head(s))
        /\ l \in {"finalize", "mark"} => Head(s) \in purged
        /\ l = "mark" => Head(s) \notin wal

Working == \A p \in Proc : Sound(pc[p], todo[p], take[p])

IInv == TypeOK /\ Decided /\ Barrier /\ OnlySealed /\ ReceiptTruthful /\ Working

-----------------------------------------------------------------------------

\* The first obligation of a process that is at work is an applied tombstone.
LEMMA FirstObligation ==
    ASSUME TypeOK, NEW p \in Proc, Sound(pc[p], todo[p], take[p]), pc[p] # "idle"
    PROVE  /\ todo[p] # <<>> /\ todo[p] \in Seq(applied)
           /\ Head(todo[p]) \in applied /\ Head(todo[p]) \in Request
           /\ Tail(todo[p]) \in Seq(applied) /\ Len(todo[p]) \in Nat \ {0}
           /\ Len(todo[p]) # 1 => Tail(todo[p]) # <<>>
<1>1. todo[p] # <<>> /\ todo[p] \in Seq(applied)
  BY DEF Sound
<1>2. Head(todo[p]) \in applied /\ Tail(todo[p]) \in Seq(applied)
      /\ Len(Tail(todo[p])) = Len(todo[p]) - 1
  BY <1>1, HeadTailProperties
<1>3. Len(todo[p]) \in Nat \ {0}
  BY <1>1, EmptySeq
<1>4. Len(todo[p]) # 1 => Tail(todo[p]) # <<>>
  <2>1. Len(<<>>) = 0
    BY EmptySeq
  <2>2. Len(todo[p]) # 1 => Len(Tail(todo[p])) # 0
    BY <1>2, <1>3
  <2> QED BY <2>1, <2>2, Zenon
<1> QED BY <1>1, <1>2, <1>3, <1>4 DEF TypeOK

\* recover lists some obligation when there is one, and applied ones only.
LEMMA ListsObligations ==
    ASSUME TypeOK, applied # {}, NEW list \in Obligations
    PROVE  list # <<>> /\ list \in Seq(applied)
<1>1. IsFiniteSet(applied)
  <2>1. IsFiniteSet(Request)
    BY RowAssumption, FS_Interval DEF Request
  <2> QED BY <2>1, FS_Subset DEF TypeOK
<1>2. Cardinality(applied) \in Nat /\ Cardinality(applied) # 0
  BY <1>1, FS_EmptySet, FS_CardinalityType
<1>3. list \in [1 .. Cardinality(applied) -> applied]
  BY DEF Obligations
<1>4. list \in Seq(applied) /\ Len(list) = Cardinality(applied)
  BY <1>2, <1>3
<1> QED BY <1>2, <1>4

\* What a reopened request says of its sessions is what was sealed.
LEMMA ReopensSealed ==
    ASSUME NEW r \in Request, MatchesSeal(r)
    PROVE  SessionsOf(r, Targets(r)) = SealedSessions(r)
BY DEF MatchesSeal, SessionsOf, SealedSessions

\* A purge of sessions that are barred finds nothing to delete.
LEMMA NothingLeft ==
    ASSUME Barrier, NEW r \in purged
    PROVE  InSessions(Row, SealedSessions(r)) \cap (evidence \cup formed) = {}
BY DEF Barrier, InSessions

-----------------------------------------------------------------------------
(* One lemma for each group of steps: what of the store it changes.        *)

\* Intake and retention.
LEMMA OutsideSteps ==
    ASSUME IInv,
           \/ Intake \/ GcPurge
           \/ \E x \in Row : GcSelect({x}, {}) \/ GcSelect({}, {x})
           \/ \E r \in Request : Prepare(r) \/ Age(r)
    PROVE  /\ TypeOK' /\ Decided' /\ Barrier' /\ OnlySealed' /\ ReceiptTruthful'
           /\ UNCHANGED <<procs, applied, purged>> /\ wal' \subseteq wal
           /\ \A r \in applied : SealedSessions(r)' = SealedSessions(r)
<1> USE DEF store, plane, ledger, procs
<1>1. CASE Intake
  <2>1. PICK x \in Row : Capture(x) \/ Form(x)
    BY <1>1 DEF Intake
  <2>2. UNCHANGED <<plane, ledger, wal, procs, purged, barred>>
    BY <1>1, <2>1 DEF Intake, Capture, Form
  <2>a. evidence' \subseteq Row /\ formed' \subseteq Row
    BY <2>1 DEF Capture, Form, IInv, TypeOK
  <2>3. Barrier'
    BY <2>1, <2>2 DEF Capture, Form, Barrier, IInv, SealedSessions
  <2> QED BY <2>2, <2>3, <2>a DEF IInv, TypeOK, Decided, OnlySealed, ReceiptTruthful, SealedSessions
<1>2. CASE GcPurge
  <2>1. /\ UNCHANGED <<barred, plane, binding, procs, purged>> /\ wal' \subseteq wal
        /\ evidence' \subseteq evidence /\ formed' \subseteq formed /\ receipt' = WithoutAged
    BY <1>2 DEF GcPurge, Forget
  <2>2. receipt' \in [Request -> ReceiptStatus]
        /\ \A r \in Request : receipt'[r] \in {"none", receipt[r]}
    BY <2>1 DEF WithoutAged, IInv, TypeOK, ReceiptStatus
  <2>3. Barrier'
    BY <2>1 DEF Barrier, IInv, SealedSessions
  <2>4. ReceiptTruthful'
    BY <2>1, <2>2 DEF ReceiptTruthful, IInv
  <2> QED BY <2>1, <2>2, <2>3, <2>4 DEF IInv, TypeOK, Decided, OnlySealed, SealedSessions
<1>3. CASE \/ \E x \in Row : GcSelect({x}, {}) \/ GcSelect({}, {x})
           \/ \E r \in Request : Age(r)
  <2>1. UNCHANGED <<store, plane, receipt, binding, wal, procs, purged>>
    BY <1>3 DEF GcSelect, Age
  <2> QED BY <2>1 DEF IInv, TypeOK, Decided, Barrier, OnlySealed, ReceiptTruthful, SealedSessions
<1>4. ASSUME NEW r \in Request, Prepare(r)
      PROVE  /\ TypeOK' /\ Decided' /\ Barrier' /\ OnlySealed' /\ ReceiptTruthful'
             /\ UNCHANGED <<procs, applied, purged, wal>>
             /\ \A q \in applied : SealedSessions(q)' = SealedSessions(q)
  <2>1. /\ sealed[r] = {} /\ sealed' = [sealed EXCEPT ![r] = Targets(r)]
        /\ Targets(r) # {} /\ Targets(r) \subseteq Candidate
        /\ UNCHANGED <<store, applied, receipt, binding, wal, procs, purged>>
    BY <1>4 DEF Prepare, Targets
  <2>2. TypeOK'
    BY <2>1 DEF IInv, TypeOK
  <2>3. \A q \in applied : sealed'[q] = sealed[q]
    BY <2>1 DEF IInv, TypeOK, Decided
  <2>4. \A q \in applied : SealedSessions(q)' = SealedSessions(q)
    BY <2>3 DEF SealedSessions
  <2> QED BY <2>1, <2>2, <2>3, <2>4 DEF IInv, TypeOK, Decided, Barrier, OnlySealed, ReceiptTruthful
<1> QED BY <1>1, <1>2, <1>3, <1>4

\* The steps of a process that leave the store and what was decided: they look, fail,
\* end or die.
LEMMA QuietSteps ==
    ASSUME IInv, NEW p \in Proc,
           \/ Lookup(p) \/ Reopen(p) \/ Existing(p) \/ PurgeFails(p) \/ Crash(p) \/ Recover(p)
    PROVE  UNCHANGED <<store, plane, ledger, wal, purged>>
<1> USE DEF ledger, plane, store
<1>1. CASE Lookup(p) \/ Reopen(p) \/ Existing(p)
  BY <1>1 DEF Lookup, Reopen, Existing
<1>2. CASE PurgeFails(p) \/ Crash(p) \/ Recover(p)
  BY <1>2 DEF PurgeFails, Crash, Recover
<1> QED BY <1>1, <1>2

-----------------------------------------------------------------------------
(* The processes.                                                          *)

\* Nothing is taken back that a process may rely on: an approval, its seal, a purge, or a
\* truncation of the log.
Kept ==
    /\ applied \subseteq applied' /\ purged \subseteq purged'
    /\ \A r \in applied : SealedSessions(r)' = SealedSessions(r)
    /\ \A r \in purged \ wal : r \notin wal'

\* What a process relies on is not taken away by the step of another one.
LEMMA SoundStays ==
    ASSUME Kept, NEW l, NEW s, NEW S, Sound(l, s, S)
    PROVE  Sound(l, s, S)'
<1> SUFFICES ASSUME l # "idle"
             PROVE  /\ s # <<>> /\ s \in Seq(applied')
                    /\ l \in {"existing", "purge"} => S = SealedSessions(Head(s))'
                    /\ l \in {"finalize", "mark"} => Head(s) \in purged'
                    /\ l = "mark" => Head(s) \notin wal'
  BY DEF Sound
<1>1. s # <<>> /\ s \in Seq(applied) /\ Head(s) \in applied
  BY HeadTailProperties DEF Sound
<1>2. s \in Seq(applied')
  BY <1>1, SeqMonotonic DEF Kept
<1>3. SealedSessions(Head(s))' = SealedSessions(Head(s))
  BY <1>1 DEF Kept
<1> QED BY <1>1, <1>2, <1>3 DEF Sound, Kept

\* The step of one process: what it may rely on where it goes decides.
LEMMA WorkingStep ==
    ASSUME Working, Kept, NEW p \in Proc, NEW l, NEW s, NEW S,
           \A q \in Proc \ {p} : pc'[q] = pc[q] /\ todo'[q] = todo[q] /\ take'[q] = take[q],
           pc'[p] = l, todo'[p] = s, take'[p] = S, Sound(l, s, S)'
    PROVE  Working'
<1> SUFFICES ASSUME NEW q \in Proc
             PROVE  Sound(pc[q], todo[q], take[q])'
  BY DEF Working
<1>1. CASE q = p
  BY <1>1 DEF Sound, SealedSessions
<1>2. CASE q # p
  <2>1. PICK m, t, T : m = pc[q] /\ t = todo[q] /\ T = take[q]
    OBVIOUS
  <2>2. Sound(m, t, T)
    BY <2>1 DEF Working
  <2>3. Sound(m, t, T)'
    BY <2>2, SoundStays
  <2> QED BY <1>2, <2>1, <2>3 DEF Sound, SealedSessions
<1> QED BY <1>1, <1>2

\* What a process that goes to l with the same obligations leaves to show.
LEMMA GotoStep ==
    ASSUME TypeOK, Working, Kept, NEW p \in Proc, NEW l \in Steps, Goto(p, l),
           Sound(pc[p], todo[p], take[p]), pc[p] # "idle",
           l \in {"existing", "purge"} => take[p] = SealedSessions(Head(todo[p])),
           l \in {"finalize", "mark"} => Head(todo[p]) \in purged',
           l = "mark" => Head(todo[p]) \notin wal'
    PROVE  Working' /\ pc' \in [Proc -> Steps] /\ UNCHANGED <<todo, take>>
<1>1. PICK s, S : s = todo[p] /\ S = take[p]
  OBVIOUS
<1>2. s # <<>> /\ s \in Seq(applied) /\ Head(s) \in applied
  BY <1>1, FirstObligation
<1>3. s \in Seq(applied')
  BY <1>2, SeqMonotonic DEF Kept
<1>4. SealedSessions(Head(s))' = SealedSessions(Head(s))
  BY <1>2 DEF Kept
<1>5. Sound(l, s, S)'
  BY <1>1, <1>2, <1>3, <1>4 DEF Sound
<1>6. /\ pc'[p] = l /\ todo'[p] = s /\ take'[p] = S
      /\ \A q \in Proc \ {p} : pc'[q] = pc[q] /\ todo'[q] = todo[q] /\ take'[q] = take[q]
  BY <1>1 DEF Goto, TypeOK
<1>7. Working'
  BY <1>5, <1>6, WorkingStep
<1> QED BY <1>7 DEF Goto, TypeOK

\* A process that stops, with or without an error, relies on nothing.
LEMMA StopStep ==
    ASSUME TypeOK, Working, Kept, NEW p \in Proc, Stop(p)
    PROVE  /\ Working' /\ pc' \in [Proc -> Steps] /\ todo' \in [Proc -> Seq(Request)]
           /\ take' \in [Proc -> SUBSET Session]
<1>1. /\ pc'[p] = "idle" /\ todo'[p] = <<>> /\ take'[p] = {}
      /\ \A q \in Proc \ {p} : pc'[q] = pc[q] /\ todo'[q] = todo[q] /\ take'[q] = take[q]
  BY DEF Stop, TypeOK
<1>2. Sound("idle", <<>>, {})'
  BY DEF Sound
<1>3. Working'
  BY <1>1, <1>2, WorkingStep
<1> QED BY <1>3 DEF Stop, TypeOK, Steps

\* A process that reports goes on with what is left of its obligations.
LEMMA ReportStep ==
    ASSUME TypeOK, Working, Kept, NEW p \in Proc, pc[p] # "idle", Report(p)
    PROVE  /\ Working' /\ pc' \in [Proc -> Steps] /\ todo' \in [Proc -> Seq(Request)]
           /\ take' \in [Proc -> SUBSET Session]
<1>1. Sound(pc[p], todo[p], take[p])
  BY DEF Working
<1>2. /\ Tail(todo[p]) \in Seq(applied) /\ Tail(todo[p]) \in Seq(Request)
      /\ Len(todo[p]) # 1 => Tail(todo[p]) # <<>>
  BY <1>1, FirstObligation, SeqMonotonic DEF TypeOK
<1>3. PICK l, s : l = (IF Len(todo[p]) = 1 THEN "idle" ELSE "lookup") /\ s = Tail(todo[p])
  OBVIOUS
<1>4. s \in Seq(applied')
  BY <1>2, <1>3, SeqMonotonic DEF Kept
<1>5. Sound(l, s, {})'
  BY <1>2, <1>3, <1>4 DEF Sound
<1>6. /\ pc'[p] = l /\ todo'[p] = s /\ take'[p] = {}
      /\ \A q \in Proc \ {p} : pc'[q] = pc[q] /\ todo'[q] = todo[q] /\ take'[q] = take[q]
  BY <1>3 DEF Report, TypeOK
<1>7. Working'
  BY <1>5, <1>6, WorkingStep
<1> QED BY <1>2, <1>7 DEF Report, TypeOK, Steps

\* A command begins with the obligations it was given.
LEMMA BeginStep ==
    ASSUME TypeOK, Working, Kept, NEW p \in Proc, NEW s, Begin(p, s), applied' \subseteq Request,
           s # <<>>, s \in Seq(applied')
    PROVE  /\ Working' /\ pc' \in [Proc -> Steps] /\ todo' \in [Proc -> Seq(Request)]
           /\ UNCHANGED take
<1>1. PICK S : S = take[p]
  OBVIOUS
<1>2. Sound("lookup", s, S)'
  BY DEF Sound
<1>3. /\ pc'[p] = "lookup" /\ todo'[p] = s /\ take'[p] = S
      /\ \A q \in Proc \ {p} : pc'[q] = pc[q] /\ todo'[q] = todo[q] /\ take'[q] = take[q]
  BY <1>1 DEF Begin, TypeOK
<1>4. Working'
  BY <1>2, <1>3, WorkingStep
<1>5. s \in Seq(Request)
  BY SeqMonotonic
<1> QED BY <1>4, <1>5 DEF Begin, TypeOK, Steps

\* A process that only looks, fails or dies leaves what was decided and stored.
LEMMA QuietKeeps ==
    ASSUME IInv, UNCHANGED <<store, plane, ledger, wal, purged>>
    PROVE  /\ Kept /\ Decided' /\ Barrier' /\ OnlySealed' /\ ReceiptTruthful'
           /\ UNCHANGED <<evidence, formed, sealed, applied, receipt>>
<1>1. UNCHANGED <<evidence, formed, barred, sealed, applied, receipt, binding, wal, purged>>
  BY DEF store, plane, ledger
<1>2. \A r : SealedSessions(r)' = SealedSessions(r)
  BY <1>1 DEF SealedSessions
<1> QED BY <1>1, <1>2 DEF IInv, Kept, Decided, Barrier, OnlySealed, ReceiptTruthful

\* Whatever a process finds, it goes where what it found lets it go.
LEMMA QuietInv ==
    ASSUME IInv, NEW p \in Proc,
           \/ Lookup(p) \/ Reopen(p) \/ Existing(p) \/ PurgeFails(p) \/ Crash(p) \/ Recover(p)
    PROVE  IInv'
<1>1. UNCHANGED <<store, plane, ledger, wal, purged>>
  BY QuietSteps
<1>2. /\ Kept /\ Decided' /\ Barrier' /\ OnlySealed' /\ ReceiptTruthful'
      /\ UNCHANGED <<evidence, formed, sealed, applied, receipt, wal, purged>>
  BY <1>1, QuietKeeps
<1>3. /\ TypeOK /\ Working /\ Sound(pc[p], todo[p], take[p]) /\ ReceiptTruthful
  BY DEF IInv, Working
<1> SUFFICES /\ Working' /\ pc' \in [Proc -> Steps] /\ todo' \in [Proc -> Seq(Request)]
             /\ take' \in [Proc -> SUBSET Session]
  BY <1>2, <1>3 DEF IInv, TypeOK
<1>4. CASE Lookup(p)
  <2>1. pc[p] # "idle" /\ (Report(p) \/ Stop(p) \/ Goto(p, "reopen"))
    BY <1>4 DEF Lookup
  <2>2. CASE Goto(p, "reopen")
    BY <1>2, <1>3, <2>1, <2>2, GotoStep DEF TypeOK, Steps
  <2> QED BY <1>2, <1>3, <2>1, <2>2, StopStep, ReportStep
<1>5. CASE Reopen(p)
  <2> DEFINE r == Head(todo[p])
  <2>1. CASE Stop(p)
    BY <1>2, <1>3, <2>1, StopStep
  <2>2. CASE /\ MatchesSeal(r) /\ pc' = [pc EXCEPT ![p] = "existing"]
             /\ take' = [take EXCEPT ![p] = SessionsOf(r, Targets(r))] /\ UNCHANGED todo
    <3>1. pc[p] # "idle"
      BY <1>5 DEF Reopen
    <3>2. r \in applied /\ r \in Request /\ todo[p] # <<>> /\ todo[p] \in Seq(applied)
      BY <1>3, <3>1, FirstObligation
    <3>3. SessionsOf(r, Targets(r)) = SealedSessions(r)
      BY <2>2, <3>2, ReopensSealed
    <3>4. SealedSessions(r) \subseteq Session
      BY <1>3, <3>2, RowAssumption DEF TypeOK, SealedSessions, Row
    <3>5. PICK s, S : s = todo[p] /\ S = SealedSessions(Head(s))
      OBVIOUS
    <3>6. SealedSessions(Head(s))' = SealedSessions(Head(s))
      BY <1>2 DEF SealedSessions
    <3>7. Sound("existing", s, S)'
      BY <1>2, <3>2, <3>5, <3>6 DEF Sound
    <3>8. /\ pc'[p] = "existing" /\ todo'[p] = s /\ take'[p] = S
          /\ \A q \in Proc \ {p} : pc'[q] = pc[q] /\ todo'[q] = todo[q] /\ take'[q] = take[q]
      BY <1>3, <2>2, <3>3, <3>5 DEF TypeOK
    <3>9. Working'
      BY <1>2, <1>3, <3>7, <3>8, WorkingStep
    <3> QED BY <1>3, <2>2, <3>3, <3>4, <3>9 DEF TypeOK, Steps
  <2> QED BY <1>5, <2>1, <2>2 DEF Reopen
<1>6. CASE Existing(p)
  <2>1. /\ pc[p] = "existing"
        /\ \/ Report(p)
           \/ receipt[Head(todo[p])] = "pending" /\ Goto(p, "finalize")
           \/ Goto(p, "purge")
    BY <1>6 DEF Existing
  <2>2. CASE receipt[Head(todo[p])] = "pending" /\ Goto(p, "finalize")
    <3>1. Head(todo[p]) \in purged'
      BY <1>2, <1>3, <2>1, <2>2, FirstObligation DEF ReceiptTruthful
    <3> QED BY <1>2, <1>3, <2>1, <2>2, <3>1, GotoStep DEF TypeOK, Steps
  <2>3. CASE Goto(p, "purge")
    <3>1. take[p] = SealedSessions(Head(todo[p]))
      BY <1>3, <2>1 DEF Sound
    <3> QED BY <1>2, <1>3, <2>1, <2>3, <3>1, GotoStep DEF TypeOK, Steps
  <2> QED BY <1>2, <1>3, <2>1, <2>2, <2>3, ReportStep
<1>7. CASE PurgeFails(p)
  <2>1. pc[p] # "idle" /\ Goto(p, "record")
    BY <1>7 DEF PurgeFails
  <2> QED BY <1>2, <1>3, <2>1, GotoStep DEF TypeOK, Steps
<1>8. CASE Crash(p)
  BY <1>2, <1>3, <1>8, StopStep DEF Crash
<1>9. CASE Recover(p)
  <2>1. PICK list \in Obligations : applied # {} /\ Begin(p, list)
    BY <1>9 DEF Recover
  <2>2. list # <<>> /\ list \in Seq(applied) /\ applied \subseteq Request
    BY <1>3, <2>1, ListsObligations DEF TypeOK
  <2>3. UNCHANGED take /\ Working' /\ pc' \in [Proc -> Steps] /\ todo' \in [Proc -> Seq(Request)]
    BY <1>2, <1>3, <2>1, <2>2, BeginStep
  <2> QED BY <1>3, <2>3 DEF TypeOK
<1> QED BY <1>4, <1>5, <1>6, <1>7, <1>8, <1>9

\* The tombstone that is applied was sealed, and is the obligation of its process.
LEMMA ApplyInv == ASSUME IInv, NEW p \in Proc, NEW r \in Request, Apply(p, r) PROVE IInv'
<1>1. /\ sealed[r] # {} /\ applied' = applied \cup {r} /\ Begin(p, <<r>>)
      /\ UNCHANGED <<evidence, formed, barred, sealed, receipt, binding, wal, purged>>
  BY DEF Apply, store, ledger
<1>2. \A q : SealedSessions(q)' = SealedSessions(q)
  BY <1>1 DEF SealedSessions
<1>3. Kept /\ Decided' /\ Barrier' /\ OnlySealed' /\ ReceiptTruthful'
  BY <1>1, <1>2 DEF IInv, Kept, Decided, Barrier, OnlySealed, ReceiptTruthful
<1>4. TypeOK /\ Working /\ applied' \subseteq Request
  BY <1>1 DEF IInv, TypeOK
<1>5. PICK s : s = <<r>>
  OBVIOUS
<1>6. s # <<>> /\ s \in Seq(applied')
  BY <1>1, <1>5
<1>7. /\ Working' /\ pc' \in [Proc -> Steps] /\ todo' \in [Proc -> Seq(Request)]
      /\ UNCHANGED take
  BY <1>1, <1>3, <1>4, <1>5, <1>6, BeginStep
<1> QED BY <1>1, <1>3, <1>4, <1>7 DEF IInv, TypeOK

\* The purge: the sessions that were sealed are barred and emptied, and nothing of a
\* session that was purged before is in the log again.
LEMMA PurgeInv == ASSUME IInv, NEW p \in Proc, Purge(p) PROVE IInv'
<1> DEFINE r == Head(todo[p])
           gone == InSessions(Row, take[p])
<1>1. /\ pc[p] = "purge" /\ Goto(p, "finalize")
      /\ Forget(gone, {}) /\ barred' = barred \cup take[p]
      /\ receipt' = [WithoutAged EXCEPT ![r] = "pending"]
      /\ binding' = binding \cup {r} /\ purged' = purged \cup {r}
      /\ wal' = IF gone \cap (evidence \cup formed) = {} THEN wal ELSE wal \cup {r}
      /\ UNCHANGED <<sealed, applied>>
  BY DEF Purge, plane
<1>2. /\ TypeOK /\ Working /\ Sound(pc[p], todo[p], take[p]) /\ Decided /\ Barrier
      /\ OnlySealed /\ ReceiptTruthful
  BY DEF IInv, Working
<1>3. r \in applied /\ r \in Request /\ take[p] = SealedSessions(r)
  BY <1>1, <1>2, FirstObligation DEF Sound
<1>4. \A q : SealedSessions(q)' = SealedSessions(q)
  BY <1>1 DEF SealedSessions
<1>5. ASSUME NEW q \in purged, q \notin wal PROVE q \notin wal'
  <2>1. CASE q = r
    BY <1>1, <1>2, <1>3, <1>5, <2>1, NothingLeft
  <2>2. CASE q # r
    BY <1>1, <1>5, <2>2
  <2> QED BY <2>1, <2>2
<1>6. Kept
  BY <1>1, <1>4, <1>5 DEF Kept
<1>7. /\ WithoutAged \in [Request -> ReceiptStatus]
      /\ \A q \in Request : WithoutAged[q] \in {"none", receipt[q]}
  BY <1>2 DEF WithoutAged, TypeOK, ReceiptStatus
<1>8. /\ receipt' \in [Request -> ReceiptStatus] /\ receipt'[r] = "pending"
      /\ \A q \in Request \ {r} : receipt'[q] \in {"none", receipt[q]}
  BY <1>1, <1>3, <1>7 DEF ReceiptStatus
<1>9. ReceiptTruthful'
  <2>1. binding' \cup {q \in Request : receipt'[q] \in {"pending", "applied"}} \subseteq purged'
    BY <1>1, <1>2, <1>8 DEF ReceiptTruthful
  <2>2. \A q \in Request : receipt'[q] = "applied" => q \notin wal'
    BY <1>2, <1>5, <1>8 DEF ReceiptTruthful
  <2> QED BY <2>1, <2>2 DEF ReceiptTruthful
<1>10. Barrier'
  <2>1. evidence' = evidence \ gone /\ formed' = formed \ gone
    BY <1>1 DEF Forget
  <2>2. ASSUME NEW x \in evidence' \cup formed' PROVE SessionOf[x] \notin barred'
    <3>1. x \in Row
      BY <1>2, <2>1, <2>2 DEF TypeOK
    <3> QED BY <1>1, <1>2, <2>1, <2>2, <3>1 DEF Barrier, InSessions
  <2>3. \A q \in purged' : SealedSessions(q)' \subseteq barred'
    BY <1>1, <1>2, <1>3, <1>4 DEF Barrier
  <2> QED BY <2>2, <2>3 DEF Barrier
<1>a. evidence' \subseteq Row /\ formed' \subseteq Row
  BY <1>1, <1>2 DEF Forget, TypeOK
<1>11. OnlySealed' /\ Decided'
  BY <1>1, <1>2, <1>3, <1>4 DEF OnlySealed, Decided
<1>12. Working' /\ pc' \in [Proc -> Steps] /\ UNCHANGED <<todo, take>>
  BY <1>1, <1>2, <1>6, GotoStep DEF Steps
<1> QED BY <1>1, <1>2, <1>8, <1>9, <1>10, <1>11, <1>12, <1>a DEF IInv, TypeOK

\* A failure is recorded in place of the receipt, which promises less.
LEMMA RecordFailureInv == ASSUME IInv, NEW p \in Proc, RecordFailure(p) PROVE IInv'
<1>1. /\ pc[p] = "record" /\ Stop(p)
      /\ UNCHANGED <<evidence, formed, barred, sealed, applied, wal, purged>>
  BY DEF RecordFailure, store, plane
<1>2. TypeOK /\ Working /\ Sound(pc[p], todo[p], take[p])
  BY DEF IInv, Working
<1>3. /\ binding' \subseteq binding /\ receipt' \in [Request -> ReceiptStatus]
      /\ \A q \in Request : receipt'[q] \in {"failed", receipt[q]}
  BY <1>1, <1>2, FirstObligation, ZenonT(30) DEF RecordFailure, TypeOK, ReceiptStatus, ledger
<1>4. \A q : SealedSessions(q)' = SealedSessions(q)
  BY <1>1 DEF SealedSessions
<1>5. ReceiptTruthful'
  BY <1>1, <1>3 DEF IInv, ReceiptTruthful
<1>6. Kept /\ Decided' /\ Barrier' /\ OnlySealed'
  BY <1>1, <1>4 DEF IInv, Kept, Decided, Barrier, OnlySealed
<1> QED BY <1>1, <1>2, <1>3, <1>5, <1>6, StopStep DEF IInv, TypeOK

\* What a receipt needs to say applied: the log was truncated since the purge.
LEMMA FinalizeInv == ASSUME IInv, NEW p \in Proc, Finalize(p) PROVE IInv'
<1>1. /\ pc[p] = "finalize"
      /\ \/ wal' = {} /\ Goto(p, "mark")
         \/ Stop(p) /\ UNCHANGED wal
      /\ UNCHANGED <<evidence, formed, barred, sealed, applied, receipt, binding, purged>>
  BY DEF Finalize, store, plane, ledger
<1>2. TypeOK /\ Working /\ Sound(pc[p], todo[p], take[p])
  BY DEF IInv, Working
<1>3. \A q : SealedSessions(q)' = SealedSessions(q)
  BY <1>1 DEF SealedSessions
<1>4. wal' \subseteq wal
  BY <1>1
<1>5. Kept /\ Decided' /\ Barrier' /\ OnlySealed' /\ ReceiptTruthful'
  BY <1>1, <1>3, <1>4 DEF IInv, Kept, Decided, Barrier, OnlySealed, ReceiptTruthful
<1>6. Head(todo[p]) \in purged'
  BY <1>1, <1>2 DEF Sound
<1>7. /\ Working' /\ pc' \in [Proc -> Steps] /\ todo' \in [Proc -> Seq(Request)]
      /\ take' \in [Proc -> SUBSET Session]
  <2>1. CASE wal' = {} /\ Goto(p, "mark")
    BY <1>1, <1>2, <1>5, <1>6, <2>1, GotoStep DEF TypeOK, Steps
  <2>2. CASE Stop(p)
    BY <1>2, <1>5, <2>2, StopStep
  <2> QED BY <1>1, <2>1, <2>2
<1> QED BY <1>1, <1>2, <1>5, <1>7 DEF IInv, TypeOK

\* A process marks a receipt whose purge is not in the log.
LEMMA MarkInv == ASSUME IInv, NEW p \in Proc, Mark(p) PROVE IInv'
<1> DEFINE r == Head(todo[p])
<1>1. /\ pc[p] = "mark" /\ Report(p)
      /\ receipt' = [receipt EXCEPT ![r] = "applied"] \/ UNCHANGED receipt
      /\ UNCHANGED <<evidence, formed, barred, sealed, applied, binding, wal, purged>>
  BY DEF Mark, store, plane
<1>2. TypeOK /\ Working /\ Sound(pc[p], todo[p], take[p])
  BY DEF IInv, Working
<1>3. r \in Request /\ r \in purged /\ r \notin wal
  BY <1>1, <1>2, FirstObligation DEF Sound
<1>4. \A q : SealedSessions(q)' = SealedSessions(q)
  BY <1>1 DEF SealedSessions
<1>5. ReceiptTruthful' /\ receipt' \in [Request -> ReceiptStatus]
  BY <1>1, <1>2, <1>3 DEF IInv, TypeOK, ReceiptTruthful, ReceiptStatus
<1>6. Kept /\ Decided' /\ Barrier' /\ OnlySealed'
  BY <1>1, <1>4 DEF IInv, Kept, Decided, Barrier, OnlySealed
<1> QED BY <1>1, <1>2, <1>5, <1>6, ReportStep DEF IInv, TypeOK

-----------------------------------------------------------------------------
(* The theorems.                                                           *)

\* Before the behaviour begins nothing is barred and no process is at work.
LEMMA InitInv == ASSUME Init PROVE IInv
<1>1. TypeOK
  BY LimitAssumption DEF Init, TypeOK, Steps, ReceiptStatus
<1>2. Decided /\ Barrier /\ OnlySealed /\ ReceiptTruthful
  BY DEF Init, Decided, Barrier, OnlySealed, ReceiptTruthful
<1>3. Working
  BY DEF Init, Working, Sound
<1> QED BY <1>1, <1>2, <1>3 DEF IInv

\* What happens outside the processes leaves them what they rely on.
LEMMA OutsideInv ==
    ASSUME IInv,
           \/ Intake \/ GcPurge
           \/ \E x \in Row : GcSelect({x}, {}) \/ GcSelect({}, {x})
           \/ \E r \in Request : Prepare(r) \/ Age(r)
    PROVE  IInv'
<1>1. /\ TypeOK' /\ Decided' /\ Barrier' /\ OnlySealed' /\ ReceiptTruthful'
      /\ UNCHANGED <<procs, applied, purged>> /\ wal' \subseteq wal
      /\ \A r \in applied : SealedSessions(r)' = SealedSessions(r)
  BY OutsideSteps
<1>2. Kept
  BY <1>1 DEF Kept
<1>3. ASSUME NEW p \in Proc PROVE Sound(pc[p], todo[p], take[p])'
  <2>1. PICK l, s, S : l = pc[p] /\ s = todo[p] /\ S = take[p]
    OBVIOUS
  <2>2. Sound(l, s, S)
    BY <2>1 DEF IInv, Working
  <2>3. Sound(l, s, S)'
    BY <1>2, <2>2, SoundStays
  <2> QED BY <1>1, <2>1, <2>3 DEF Sound, SealedSessions, procs
<1> QED BY <1>1, <1>3 DEF IInv, Working

\* Every step of the system keeps the invariant.
LEMMA NextInv == ASSUME IInv, [Next]_vars PROVE IInv'
<1>1. CASE \/ Intake \/ GcPurge
           \/ \E x \in Row : GcSelect({x}, {}) \/ GcSelect({}, {x})
           \/ \E r \in Request : Prepare(r) \/ Age(r)
  BY <1>1, OutsideInv
<1>2. ASSUME NEW p \in Proc,
             Continue(p) \/ Crash(p) \/ Recover(p) \/ \E r \in Request : Apply(p, r)
      PROVE  IInv'
  BY <1>2, QuietInv, ApplyInv, PurgeInv, RecordFailureInv, FinalizeInv, MarkInv DEF Continue
<1>3. CASE UNCHANGED vars
  <2>1. UNCHANGED <<evidence, formed, barred, sealed, applied, receipt, binding, wal,
                    pc, todo, take, purged>>
    BY <1>3 DEF vars, store, plane, ledger, procs
  <2>2. \A r : SealedSessions(r)' = SealedSessions(r)
    BY <2>1 DEF SealedSessions
  <2>3. Working'
    BY <2>1, <2>2 DEF IInv, Working, Sound
  <2> QED BY <2>1, <2>2, <2>3
          DEF IInv, TypeOK, Decided, Barrier, OnlySealed, ReceiptTruthful
<1> QED BY <1>1, <1>2, <1>3 DEF Next

\* The invariant holds in every state.
THEOREM Invariant == Spec => []IInv
BY InitInv, NextInv, PTL DEF Spec

\* The deletion barrier of purge_session holds: nothing of a session that an approved
\* tombstone purged is ever stored again.
THEOREM PurgedIsGone == Spec => []PurgedStaysGone
<1>1. IInv => PurgedStaysGone
  BY DEF IInv, Barrier, PurgedStaysGone, InSessions
<1> QED BY <1>1, Invariant, PTL

\* RuntimeDeletionCoordinator purges no session but those that an applied tombstone sealed.
THEOREM PurgesOnlySealed == Spec => []OnlySealed
<1>1. IInv => OnlySealed
  BY DEF IInv
<1> QED BY <1>1, Invariant, PTL

\* A purge receipt, and the binding that outlives it, is there only for a purge that was
\* committed, and says applied only when the log was truncated after it.
THEOREM ReceiptsAreTrue == Spec => []ReceiptTruthful
<1>1. IInv => ReceiptTruthful
  BY DEF IInv
<1> QED BY <1>1, Invariant, PTL
===============================================================================
