---------------------------- MODULE DistillProofs ----------------------------
(***************************************************************************)
(* Theorems about DistillQueue, for every set of workers, identities,      *)
(* sessions, events and jobs, every number of attempts and batch size, and *)
(* without the bounds of a run.                                            *)
(***************************************************************************)
EXTENDS DistillQueue, TLAPS

-----------------------------------------------------------------------------
(* What the operators on jobs return.                                      *)

\* A transition of a job keeps what the job is about and how often it was tried.
LEMMA TurnedType ==
    ASSUME NEW job \in Job, NEW status \in Status, NEW due \in BOOLEAN
    PROVE  /\ Turned(job, status, due) \in Job
           /\ Turned(job, status, due).status = status
           /\ Turned(job, status, due).session = job.session
           /\ Turned(job, status, due).through = job.through
           /\ Turned(job, status, due).attempts = job.attempts
           /\ Turned(job, status, due).owner = None
BY DEF Turned, Job

LEMMA NewJobType ==
    ASSUME NEW s \in Session, NEW n \in Line
    PROVE  /\ NewJob(s, n) \in Job
           /\ NewJob(s, n).status = "pending" /\ NewJob(s, n).attempts = 0
           /\ NewJob(s, n).session = s /\ NewJob(s, n).through = n
BY LimitAssumption DEF NewJob, Job, Status

\* A try that is over leaves the job dead or pending, by its attempts.
LEMMA RetriedType ==
    ASSUME NEW job \in Job, NEW due \in BOOLEAN
    PROVE  /\ Retried(job, due) \in Job
           /\ Retried(job, due).status = IF Exhausted(job) THEN "dead" ELSE "pending"
           /\ Retried(job, due).session = job.session
           /\ Retried(job, due).through = job.through
           /\ Retried(job, due).attempts = job.attempts
<1>1. CASE Exhausted(job)
  <2>1. Retried(job, due) = Turned(job, "dead", FALSE)
    BY <1>1 DEF Retried
  <2>2. "dead" \in Status /\ FALSE \in BOOLEAN
    BY DEF Status
  <2>3. /\ Retried(job, due) \in Job /\ Retried(job, due).status = "dead"
        /\ Retried(job, due).session = job.session
        /\ Retried(job, due).through = job.through
        /\ Retried(job, due).attempts = job.attempts
    BY <2>1, <2>2 DEF Turned, Job
  <2> QED BY <1>1, <2>3 DEF Exhausted
<1>2. CASE ~Exhausted(job)
  <2>1. Retried(job, due) = Turned(job, "pending", due)
    BY <1>2 DEF Retried
  <2>2. "pending" \in Status /\ due \in BOOLEAN
    BY DEF Status
  <2>3. /\ Retried(job, due) \in Job /\ Retried(job, due).status = "pending"
        /\ Retried(job, due).session = job.session
        /\ Retried(job, due).through = job.through
        /\ Retried(job, due).attempts = job.attempts
    BY <2>1, <2>2, TurnedType
  <2> QED BY <1>2, <2>3 DEF Exhausted
<1> QED BY <1>1, <1>2

\* Handing out a job that has an attempt left.
HandedOut(job, o) ==
    [job EXCEPT !.status = "leased", !.attempts = @ + 1, !.owner = o, !.due = FALSE]

LEMMA HandedOutType ==
    ASSUME NEW job \in Job, job.attempts < MaxAttempts, NEW o \in WorkerId
    PROVE  /\ HandedOut(job, o) \in Job
           /\ HandedOut(job, o).status = "leased"
           /\ HandedOut(job, o).session = job.session
           /\ HandedOut(job, o).through = job.through
           /\ HandedOut(job, o).attempts = job.attempts + 1
           /\ HandedOut(job, o).owner = o
<1>1. job.attempts \in 0 .. MaxAttempts
  BY DEF Job
<1>2. job.attempts + 1 \in 0 .. MaxAttempts
  BY <1>1, LimitAssumption
<1> QED BY <1>2 DEF HandedOut, Job, Status

\* A job is a record and not the absence of one.
LEMMA JobFacts ==
    ASSUME NEW job \in Job
    PROVE  /\ job # None
           /\ job.session \in Session /\ job.through \in Line
           /\ job.attempts \in 0 .. MaxAttempts /\ job.status \in Status
BY NoneAssumption DEF Job

-----------------------------------------------------------------------------
(* The inductive invariant of the queue.                                   *)

\* A waiting job has an attempt left, a dead one has none.
Attempts ==
    \A k \in Key :
        /\ Is(k, "pending") => jobs[k].attempts < MaxAttempts
        /\ Is(k, "dead") => jobs[k].attempts = MaxAttempts

\* A dispatcher is at work on a job.
Dispatching(w) == \/ pc[w] \in {"complete", "fail"}
                  \/ pc[w] \in {"known", "save"} /\ ~loc[w].byHand

\* What a process works on is an item, and what a dispatcher answers for is a job.
ItemsHeld ==
    \A w \in Worker :
        /\ \A i \in loc[w].todo : i.key \in Key
        /\ pc[w] \in {"byhand", "known", "save", "complete", "fail"}
              => loc[w].item \in Item
        /\ Dispatching(w) => loc[w].item.key \in Key
        /\ pc[w] = "byhand" => loc[w].byHand

\* The inductive invariant of the queue.
IInv == TypeOK /\ Attempts /\ DeadLetters /\ ItemsHeld

\* The dead letters of a job.
LettersOf(k) == {d \in letters : d[1] = k}

\* What one step does to a job and its dead letters.
Same(k) == jobs'[k] = jobs[k]
Named(k, s, n) == \/ k.from = "backfill"
                  \/ Capture(s, k.of) /\ Newest(k.of, n)
Enqueued(k) == /\ jobs[k] = None
               /\ \E s \in Session, n \in Line : jobs'[k] = NewJob(s, n) /\ Named(k, s, n)
Leased(k) == /\ Is(k, "pending")
             /\ \E w \in Worker, o \in WorkerId :
                    Lease(w) /\ o = OwnerOf[w] /\ jobs'[k] = HandedOut(jobs[k], o)
By(w, k) == /\ loc[w].item.key = k
            /\ \/ Complete(w) /\ Holds(w)
               \/ SaveByHand(w) /\ Is(k, "pending")
Answered(k) == /\ Is(k, "leased") \/ Is(k, "pending")
               /\ jobs'[k] = Turned(jobs[k], "succeeded", FALSE)
               /\ \E w \in Worker : By(w, k)
TimedOut(k) == /\ Is(k, "leased") \/ Is(k, "pending")
               /\ jobs'[k] = [jobs[k] EXCEPT !.due = TRUE]
Failed(w, k) == loc[w].item.key = k /\ Fail(w) /\ Holds(w)
Tried(k) == /\ Is(k, "leased")
            /\ \E due \in BOOLEAN : jobs'[k] = Retried(jobs[k], due)
            /\ jobs[k].due \/ \E w \in Worker : Failed(w, k)
Forgotten(k) == Present(k) /\ jobs'[k] = None /\ \E s \in Session : Purge(s)

Move(k) ==
    \/ /\ Same(k) \/ Enqueued(k) \/ Leased(k) \/ Answered(k) \/ TimedOut(k)
       /\ LettersOf(k)' = LettersOf(k)
    \/ /\ Tried(k)
       /\ LettersOf(k)' = LettersOf(k) \cup
                             (IF Exhausted(jobs[k]) THEN {<<k, jobs[k].attempts>>} ELSE {})
    \/ Forgotten(k) /\ LettersOf(k)' = {}

\* What every step keeps of the queue.
Moved == /\ jobs' \in [Key -> Job \cup {None}]
         /\ letters' \subseteq Key \X (0 .. MaxAttempts)
         /\ \A k \in Key : Move(k)

\* The job and the letters of a step in which the jobs K are tried in vain.
LEMMA TriedMoves ==
    ASSUME IInv, NEW K \in SUBSET Key, NEW due \in BOOLEAN,
           \A k \in K : Is(k, "leased") /\ (jobs[k].due \/ \E w \in Worker : Failed(w, k)),
           jobs' = [k \in Key |-> IF k \in K THEN Retried(jobs[k], due) ELSE jobs[k]],
           Bury(K)
    PROVE  Moved
<1>1. \A k \in K : jobs[k] \in Job
  BY DEF IInv, TypeOK, Is, Present
<1>2. jobs' \in [Key -> Job \cup {None}]
  BY <1>1, RetriedType DEF IInv, TypeOK
<1>3. letters' \subseteq Key \X (0 .. MaxAttempts)
  BY <1>1, JobFacts DEF IInv, TypeOK, Bury
<1>4. ASSUME NEW k \in Key, k \in K PROVE Move(k)
  <2>1. LettersOf(k)' = LettersOf(k) \cup
                          (IF Exhausted(jobs[k]) THEN {<<k, jobs[k].attempts>>} ELSE {})
    BY <1>4 DEF LettersOf, Bury
  <2>2. Tried(k)
    BY <1>4 DEF Tried
  <2> QED BY <2>1, <2>2 DEF Move
<1>5. ASSUME NEW k \in Key, k \notin K PROVE Move(k)
  <2>1. LettersOf(k)' = LettersOf(k)
    BY <1>5 DEF LettersOf, Bury
  <2> QED BY <1>5, <2>1 DEF Move, Same
<1> QED BY <1>2, <1>3, <1>4, <1>5 DEF Moved

\* A step that writes neither jobs nor dead letters moves no job.
LEMMA NoMove ==
    ASSUME IInv, UNCHANGED <<jobs, letters>>
    PROVE  Moved
BY DEF IInv, TypeOK, Moved, Move, Same, LettersOf

\* A step that writes one job and no dead letters.
LEMMA OneMove ==
    ASSUME IInv, NEW j \in Key, NEW job \in Job, jobs' = [jobs EXCEPT ![j] = job],
           UNCHANGED letters,
           Enqueued(j) \/ Answered(j) \/ TimedOut(j)
    PROVE  Moved
<1>1. jobs' \in [Key -> Job \cup {None}]
  BY DEF IInv, TypeOK
<1>2. \A k \in Key : LettersOf(k)' = LettersOf(k)
  BY DEF LettersOf
<1>3. \A k \in Key \ {j} : Same(k)
  BY DEF IInv, TypeOK, Same
<1> QED BY <1>1, <1>2, <1>3 DEF IInv, TypeOK, Moved, Move

\* An insertion that may find the job there.
LEMMA InsertMoves ==
    ASSUME IInv, NEW j \in Key, NEW s \in Session, NEW n \in Line,
           jobs' = Inserted(j, s, n), Named(j, s, n), UNCHANGED letters
    PROVE  Moved
<1>1. CASE jobs[j] = None
  <2>1. jobs' = [jobs EXCEPT ![j] = NewJob(s, n)]
    BY <1>1 DEF Inserted
  <2>2. Enqueued(j)
    BY <1>1, <2>1 DEF Enqueued, IInv, TypeOK
  <2> QED BY <2>1, <2>2, NewJobType, OneMove
<1>2. CASE jobs[j] # None
  <2>1. jobs' = jobs
    BY <1>2 DEF Inserted, IInv, TypeOK
  <2> QED BY <2>1, NoMove
<1> QED BY <1>1, <1>2

LEMMA CaptureMoves ==
    ASSUME IInv, NEW s \in Session, NEW E \in SUBSET Event, Capture(s, E)
    PROVE  Moved
<1> DEFINE j == [from |-> "capture", of |-> E]
<1>1. PICK n \in Line : jobs' = Inserted(j, s, n) /\ Newest(E, n)
  BY DEF Capture
<1>2. j \in Key /\ j.of = E
  BY DEF Key
<1>3. UNCHANGED letters
  BY DEF Capture
<1> HIDE DEF j
<1>4. Named(j, s, n)
  BY <1>1, <1>2 DEF Named
<1> QED BY <1>1, <1>2, <1>3, <1>4, InsertMoves

LEMMA PurgeMoves ==
    ASSUME IInv, NEW s \in Session, Purge(s)
    PROVE  Moved
<1> DEFINE Gone(k) == Present(k) /\ jobs[k].session = s
<1>1. /\ jobs' = [k \in Key |-> IF Gone(k) THEN None ELSE jobs[k]]
      /\ letters' = {d \in letters : ~Gone(d[1])}
  BY DEF Purge
<1>2. jobs' \in [Key -> Job \cup {None}] /\ letters' \subseteq Key \X (0 .. MaxAttempts)
  BY <1>1 DEF IInv, TypeOK
<1>3. ASSUME NEW k \in Key, Gone(k) PROVE Move(k)
  <2>1. Present(k) /\ jobs'[k] = None /\ LettersOf(k)' = {}
    BY <1>1, <1>3 DEF LettersOf
  <2> QED BY <2>1 DEF Move, Forgotten
<1>4. ASSUME NEW k \in Key, ~Gone(k) PROVE Move(k)
  BY <1>1, <1>4 DEF Move, Same, LettersOf
<1> QED BY <1>2, <1>3, <1>4 DEF Moved

LEMMA RecoverMoves ==
    ASSUME IInv, NEW w \in Worker, Recover(w)
    PROVE  Moved
<1>1. Expired(w) \in SUBSET Key /\ \A k \in Expired(w) : Is(k, "leased") /\ jobs[k].due
  BY DEF Expired, IInv, TypeOK, Loc
<1>2. /\ jobs' = [k \in Key |-> IF k \in Expired(w) THEN Retried(jobs[k], TRUE) ELSE jobs[k]]
      /\ Bury(Expired(w))
  BY DEF Recover
<1> HIDE DEF IInv
<1> QED BY <1>1, <1>2, TriedMoves

LEMMA LeaseMoves ==
    ASSUME IInv, NEW w \in Worker, Lease(w), OwnerOf[w] \in WorkerId
    PROVE  Moved
<1>1. PICK K \in SUBSET Ready(w) :
        jobs' = [k \in Key |-> IF k \notin K THEN jobs[k]
                               ELSE HandedOut(jobs[k], OwnerOf[w])]
  BY DEF Lease, HandedOut
<1>2. \A k \in K : /\ k \in Key /\ Is(k, "pending")
                   /\ jobs[k] \in Job /\ jobs[k].attempts < MaxAttempts
  BY DEF Ready, IInv, TypeOK, Loc, Attempts, Is, Present
<1>3. jobs' \in [Key -> Job \cup {None}]
  BY <1>1, <1>2, HandedOutType DEF IInv, TypeOK
<1>4. letters' \subseteq Key \X (0 .. MaxAttempts) /\ \A k \in Key : LettersOf(k)' = LettersOf(k)
  BY DEF Lease, IInv, TypeOK, LettersOf
<1>5. \A k \in Key : Same(k) \/ Leased(k)
  BY <1>1, <1>2 DEF Same, Leased
<1> QED BY <1>3, <1>4, <1>5 DEF Moved, Move

LEMMA CompleteMoves ==
    ASSUME IInv, NEW w \in Worker, Complete(w)
    PROVE  Moved
<1> DEFINE j == loc[w].item.key
<1>1. j \in Key
  BY DEF Complete, IInv, ItemsHeld, Dispatching
<1>2. CASE Holds(w)
  <2>1. Is(j, "leased") /\ jobs[j] \in Job
    BY <1>1, <1>2 DEF Holds, IInv, TypeOK, Is, Present
  <2>2. jobs' = [jobs EXCEPT ![j] = Turned(jobs[j], "succeeded", FALSE)]
    BY <1>2 DEF Complete
  <2>3. Answered(j)
    <3>1. By(w, j)
      BY <1>2 DEF By
    <3>2. jobs'[j] = Turned(jobs[j], "succeeded", FALSE)
      BY <1>1, <2>2 DEF IInv, TypeOK
    <3> QED BY <2>1, <3>1, <3>2 DEF Answered
  <2>4. Turned(jobs[j], "succeeded", FALSE) \in Job
    BY <2>1, TurnedType DEF Status
  <2> QED BY <1>1, <2>2, <2>3, <2>4, OneMove DEF Complete
<1>3. CASE ~Holds(w)
  BY <1>3, NoMove DEF Complete
<1> QED BY <1>2, <1>3

LEMMA FailMoves ==
    ASSUME IInv, NEW w \in Worker, Fail(w)
    PROVE  Moved
<1> DEFINE j == loc[w].item.key
<1>1. j \in Key
  BY DEF Fail, IInv, ItemsHeld, Dispatching
<1>2. CASE Holds(w)
  <2>1. \A k \in {j} : Is(k, "leased") /\ Failed(w, k)
    BY <1>2 DEF Holds, Failed
  <2>2. jobs' = [k \in Key |-> IF k \in {j} THEN Retried(jobs[k], FALSE) ELSE jobs[k]]
    BY <1>1, <1>2 DEF Fail, IInv, TypeOK
  <2>3. Bury({j}) /\ {j} \in SUBSET Key
    BY <1>1, <1>2 DEF Fail
  <2> HIDE DEF j
  <2> QED BY <2>1, <2>2, <2>3, TriedMoves
<1>3. CASE ~Holds(w)
  BY <1>3, NoMove DEF Fail
<1> QED BY <1>2, <1>3

LEMMA SaveByHandMoves ==
    ASSUME IInv, NEW w \in Worker, SaveByHand(w)
    PROVE  Moved
<1> DEFINE j == loc[w].item.key
<1>1. loc[w].item \in Item /\ UNCHANGED letters
  BY DEF SaveByHand, IInv, ItemsHeld
<1>2. CASE UNCHANGED jobs
  BY <1>1, <1>2, NoMove
<1>3. CASE j # None /\ Acknowledgeable(j) /\ jobs' = [jobs EXCEPT ![j] = Turned(@, "succeeded", FALSE)]
  <2>1. j \in Key /\ Is(j, "pending") /\ jobs[j] \in Job
    BY <1>1, <1>3 DEF Item, Acknowledgeable, Is, Present, IInv, TypeOK
  <2>2. jobs' = [jobs EXCEPT ![j] = Turned(jobs[j], "succeeded", FALSE)]
    BY <1>3
  <2>3. Answered(j)
    <3>1. By(w, j)
      BY <2>1 DEF By
    <3>2. jobs'[j] = Turned(jobs[j], "succeeded", FALSE)
      BY <2>1, <2>2 DEF IInv, TypeOK
    <3> QED BY <2>1, <3>1, <3>2 DEF Answered
  <2>4. Turned(jobs[j], "succeeded", FALSE) \in Job
    BY <2>1, TurnedType DEF Status
  <2> QED BY <1>1, <2>1, <2>2, <2>3, <2>4, OneMove
<1> QED BY <1>2, <1>3 DEF SaveByHand

LEMMA BackfillMoves ==
    ASSUME IInv, NEW w \in Worker, BackfillEnqueue(w)
    PROVE  Moved
<1>1. BackfillKey(w) \in Key
  BY DEF BackfillKey, Key, IInv, TypeOK, Loc
<1>2. PICK s \in Session, n \in Line : jobs' = Inserted(BackfillKey(w), s, n)
  BY DEF BackfillEnqueue
<1>3. Named(BackfillKey(w), s, n)
  BY DEF BackfillKey, Named
<1> QED BY <1>1, <1>2, <1>3, InsertMoves DEF BackfillEnqueue

LEMMA TimeMoves ==
    ASSUME IInv, NEW j \in Key, TimePasses(j)
    PROVE  Moved
<1> DEFINE job == [jobs[j] EXCEPT !.due = TRUE]
<1>1. jobs[j] \in Job /\ jobs' = [jobs EXCEPT ![j] = job]
  BY DEF TimePasses, Is, Present, IInv, TypeOK
<1>2. job \in Job
  BY <1>1 DEF Job
<1>3. TimedOut(j)
  BY <1>1 DEF TimePasses, TimedOut, IInv, TypeOK
<1> QED BY <1>1, <1>2, <1>3, OneMove DEF TimePasses

\* Whatever a step does, every job moves as its life cycle says.
LEMMA Moves ==
    ASSUME IInv, [Next]_vars
    PROVE  Moved
<1>1. CASE UNCHANGED <<jobs, letters>>
  BY <1>1, NoMove
<1>2. CASE \E s \in Session, E \in SUBSET Event : Capture(s, E)
  BY <1>2, CaptureMoves
<1>3. CASE \E s \in Session : Purge(s)
  BY <1>3, PurgeMoves
<1>4. CASE \E k \in Key : TimePasses(k)
  BY <1>4, TimeMoves
<1>5. CASE \E w \in Worker : \/ Recover(w) \/ Lease(w) \/ Complete(w) \/ Fail(w)
                             \/ SaveByHand(w) \/ BackfillEnqueue(w)
  BY <1>5, WorkerAssumption, RecoverMoves, LeaseMoves, CompleteMoves, FailMoves,
     SaveByHandMoves, BackfillMoves
<1>6. \/ UNCHANGED <<jobs, letters>>
      \/ \E s \in Session, E \in SUBSET Event : Capture(s, E)
      \/ \E s \in Session : Purge(s)
      \/ \E k \in Key : TimePasses(k)
      \/ \E w \in Worker : \/ Recover(w) \/ Lease(w) \/ Complete(w) \/ Fail(w)
                           \/ SaveByHand(w) \/ BackfillEnqueue(w)
  BY ZenonT(30) DEF Next, vars, store, Call, Continue, Retention, Begin, ByHand, Backfill,
         Pick, ReadKnown, Save, WorkDone, ReadByHand, BackfillActive, BackfillMissing,
         BackfillDone, FormationFails, Crash, Collect, CollectCandidate
<1> QED BY <1>1, <1>2, <1>3, <1>4, <1>5, <1>6

-----------------------------------------------------------------------------
(* The invariant is inductive.                                             *)

\* The dead letters of a job say whether it is dead.
LettersKnown == \A k \in Key :
    LettersOf(k) = IF Is(k, "dead") THEN {<<k, MaxAttempts>>} ELSE {}

LEMMA LettersAreDeaths == TypeOK => (DeadLetters <=> LettersKnown)
<1> SUFFICES ASSUME letters \subseteq Key \X (0 .. MaxAttempts)
             PROVE  DeadLetters <=> LettersKnown
  BY DEF TypeOK
<1>1. \A d \in letters : d = <<d[1], d[2]>> /\ d[1] \in Key
  OBVIOUS
<1>2. ASSUME DeadLetters PROVE LettersKnown
  BY <1>1, <1>2 DEF DeadLetters, LettersKnown, LettersOf, Is
<1>3. ASSUME LettersKnown PROVE DeadLetters
  <2>1. ASSUME NEW k \in Key, Is(k, "dead") PROVE <<k, MaxAttempts>> \in letters
    BY <1>3, <2>1 DEF LettersKnown, LettersOf, Is
  <2>2. ASSUME NEW d \in letters PROVE Is(d[1], "dead") /\ d[2] = MaxAttempts
    <3>1. d \in LettersOf(d[1]) /\ d[1] \in Key
      BY <1>1 DEF LettersOf
    <3> QED BY <1>1, <1>3, <3>1 DEF LettersKnown, Is
  <2> QED BY <2>1, <2>2 DEF DeadLetters
<1> QED BY <1>2, <1>3

\* After a move a job still has the attempts its status says, and its letter.
LEMMA MoveKeeps ==
    ASSUME IInv, Moved, NEW k \in Key
    PROVE  /\ Is(k, "pending")' => jobs'[k].attempts < MaxAttempts
           /\ Is(k, "dead")' => jobs'[k].attempts = MaxAttempts
           /\ LettersOf(k)' = IF Is(k, "dead")' THEN {<<k, MaxAttempts>>} ELSE {}
<1>1. LettersOf(k) = IF Is(k, "dead") THEN {<<k, MaxAttempts>>} ELSE {}
  BY LettersAreDeaths DEF IInv, LettersKnown
<1>2. Move(k)
  BY DEF Moved
<1>3. jobs[k] # None => jobs[k] \in Job
  BY DEF IInv, TypeOK
<1>4. /\ Is(k, "pending") => jobs[k].attempts < MaxAttempts
      /\ Is(k, "dead") => jobs[k].attempts = MaxAttempts
  BY DEF IInv, Attempts
<1>5. CASE LettersOf(k)' = LettersOf(k) /\ Same(k)
  BY <1>1, <1>4, <1>5 DEF Same, Is, Present
<1>6. CASE LettersOf(k)' = LettersOf(k) /\ Enqueued(k)
  BY <1>1, <1>6, NewJobType, JobFacts, LimitAssumption DEF Enqueued, Is, Present
<1>7. CASE LettersOf(k)' = LettersOf(k) /\ Leased(k)
  <2>1. PICK o \in WorkerId : jobs'[k] = HandedOut(jobs[k], o)
    BY <1>7 DEF Leased
  <2> QED BY <1>1, <1>3, <1>4, <1>7, <2>1, HandedOutType DEF Leased, Is, Present
<1>8. CASE LettersOf(k)' = LettersOf(k) /\ Answered(k)
  <2>1. jobs'[k].status = "succeeded"
    BY <1>3, <1>8 DEF Answered, Turned, Is, Present, Job
  <2> QED BY <1>1, <1>8, <2>1 DEF Answered, Is, Present
<1>9. CASE LettersOf(k)' = LettersOf(k) /\ TimedOut(k)
  <2>1. jobs'[k].status = jobs[k].status /\ jobs'[k].attempts = jobs[k].attempts
    BY <1>3, <1>9 DEF TimedOut, Is, Present, Job
  <2> QED BY <1>1, <1>4, <1>9, <2>1 DEF TimedOut, Is, Present
<1>10. CASE Forgotten(k) /\ LettersOf(k)' = {}
  BY <1>10 DEF Forgotten, Is, Present
<1>11. CASE /\ Tried(k)
            /\ LettersOf(k)' = LettersOf(k) \cup
                  (IF Exhausted(jobs[k]) THEN {<<k, jobs[k].attempts>>} ELSE {})
  <2>1. PICK due \in BOOLEAN : jobs'[k] = Retried(jobs[k], due)
    BY <1>11 DEF Tried
  <2>2. jobs[k] \in Job /\ Is(k, "leased") /\ jobs[k].attempts \in 0 .. MaxAttempts
    BY <1>3, <1>11, JobFacts DEF Tried, Is, Present
  <2>3. LettersOf(k) = {}
    BY <1>1, <2>2 DEF Is
  <2>4. jobs'[k] \in Job /\ jobs'[k].attempts = jobs[k].attempts
    BY <2>1, <2>2, RetriedType
  <2>5. CASE jobs[k].attempts >= MaxAttempts
    <3>1. jobs'[k].status = "dead" /\ jobs[k].attempts = MaxAttempts
      BY <2>1, <2>2, <2>5, RetriedType, LimitAssumption DEF Exhausted
    <3>2. LettersOf(k)' = {<<k, MaxAttempts>>}
      BY <1>11, <2>3, <2>5, <3>1 DEF Exhausted
    <3> QED BY <2>4, <3>1, <3>2, JobFacts DEF Is, Present
  <2>6. CASE ~(jobs[k].attempts >= MaxAttempts)
    <3>1. jobs'[k].status = "pending" /\ jobs[k].attempts < MaxAttempts
      BY <2>1, <2>2, <2>6, RetriedType, LimitAssumption DEF Exhausted
    <3>2. LettersOf(k)' = {}
      BY <1>11, <2>3, <2>6 DEF Exhausted
    <3> QED BY <2>4, <3>1, <3>2, JobFacts DEF Is, Present
  <2> QED BY <2>5, <2>6
<1> QED BY <1>2, <1>5, <1>6, <1>7, <1>8, <1>9, <1>10, <1>11 DEF Move

\* Work a worker leased is a set of items.
LEMMA LeasedItems ==
    ASSUME IInv, NEW w \in Worker, NEW k \in Ready(w)
    PROVE  [key |-> k, session |-> jobs[k].session, through |-> jobs[k].through,
            attempts |-> jobs[k].attempts + 1] \in Item
<1>1. k \in Key /\ jobs[k] \in Job /\ jobs[k].attempts < MaxAttempts
  BY DEF Ready, IInv, TypeOK, Loc, Attempts, Is, Present
<1>2. jobs[k].attempts + 1 \in 0 .. MaxAttempts
  BY <1>1, JobFacts, LimitAssumption
<1> QED BY <1>1, <1>2, JobFacts DEF Item

LEMMA RowsType == \A s, n : RowsThrough(s, n) \subseteq evidence
BY DEF RowsThrough

LEMMA NoLocType == NoLoc \in Loc /\ NoLoc.todo = {} /\ NoLoc.item = None
BY DEF NoLoc, Loc

\* What a step keeps of the rows and of what the processes hold.
Kept == /\ evidence' \subseteq Event /\ identity' \subseteq Event
        /\ formed' \subseteq Event /\ once' \subseteq Event
        /\ barred' \subseteq Session
        /\ pc' \in [Worker -> PC] /\ loc' \in [Worker -> Loc]
        /\ faults' \in Nat /\ calls' \in Nat
        /\ ItemsHeld'

LEMMA CaptureKept ==
    ASSUME IInv, NEW s \in Session, NEW E \in SUBSET Event, Capture(s, E) PROVE Kept
BY DEF Capture, counters, Kept, IInv, TypeOK, ItemsHeld, Dispatching

LEMMA RetentionKept == ASSUME IInv, Retention PROVE Kept
<1>1. ASSUME NEW e \in Event, Collect(e) \/ CollectCandidate(e) PROVE Kept
  BY <1>1 DEF Collect, CollectCandidate, Count, Kept, IInv, TypeOK, ItemsHeld, Dispatching
<1>2. ASSUME NEW s \in Session, Purge(s) PROVE Kept
  BY <1>2 DEF Purge, Count, Kept, IInv, TypeOK, ItemsHeld, Dispatching
<1> QED BY <1>1, <1>2 DEF Retention

LEMMA TimeKept == ASSUME IInv, NEW k \in Key, TimePasses(k) PROVE Kept
BY DEF TimePasses, counters, Kept, IInv, TypeOK, ItemsHeld, Dispatching

\* A step of one process that leaves the rows alone: what it moves to decides.
LEMMA StepKept ==
    ASSUME IInv, NEW w \in Worker, NEW p \in PC, NEW l \in Loc,
           pc' = [pc EXCEPT ![w] = p], loc' = [loc EXCEPT ![w] = l],
           evidence' = evidence, identity' = identity, barred' = barred,
           formed' \subseteq Event, once' \subseteq Event,
           faults' \in Nat, calls' \in Nat,
           \A i \in l.todo : i.key \in Key,
           p \in {"byhand", "known", "save", "complete", "fail"} => l.item \in Item,
           (p \in {"complete", "fail"} \/ (p \in {"known", "save"} /\ ~l.byHand))
              => l.item.key \in Key,
           p = "byhand" => l.byHand
    PROVE  Kept
<1>1. pc' \in [Worker -> PC] /\ loc' \in [Worker -> Loc]
  BY DEF IInv, TypeOK
<1>2. \A v \in Worker : IF v = w THEN pc'[v] = p /\ loc'[v] = l
                                 ELSE pc'[v] = pc[v] /\ loc'[v] = loc[v]
  BY DEF IInv, TypeOK
<1>3. ItemsHeld'
  BY <1>2 DEF IInv, ItemsHeld, Dispatching
<1> QED BY <1>1, <1>3 DEF Kept, IInv, TypeOK

\* The facts about the locals of a process that the steps below start from.
LEMMA LocFacts ==
    ASSUME IInv, NEW w \in Worker
    PROVE  /\ loc[w] \in Loc /\ pc[w] \in PC
           /\ pc \in [Worker -> PC] /\ loc \in [Worker -> Loc]
           /\ formed \subseteq Event /\ once \subseteq Event /\ evidence \subseteq Event
           /\ faults \in Nat /\ calls \in Nat
           /\ \A i \in loc[w].todo : i.key \in Key
           /\ pc[w] \in {"byhand", "known", "save", "complete", "fail"} => loc[w].item \in Item
           /\ Dispatching(w) => loc[w].item.key \in Key
           /\ pc[w] = "byhand" => loc[w].byHand
BY DEF IInv, TypeOK, ItemsHeld

\* A step of one process that keeps its todo list and what it works on.
LEMMA SameWorkKept ==
    ASSUME IInv, NEW w \in Worker, NEW p \in PC, NEW l \in Loc,
           Goto(w, p), loc' = [loc EXCEPT ![w] = l],
           l.todo = loc[w].todo, l.item = loc[w].item, l.byHand = loc[w].byHand,
           evidence' = evidence, identity' = identity, barred' = barred,
           formed' \subseteq Event, once' \subseteq Event,
           faults' \in Nat, calls' \in Nat,
           \/ p \notin {"byhand", "known", "save", "complete", "fail"}
           \/ p = "known" /\ pc[w] = "byhand"
           \/ p = "save" /\ pc[w] = "known"
           \/ p \in {"complete", "fail"} /\ Dispatching(w)
    PROVE  Kept
<1>1. pc' = [pc EXCEPT ![w] = p]
  BY DEF Goto
<1>2. p \in {"byhand", "known", "save", "complete", "fail"} => l.item \in Item
  BY LocFacts DEF Dispatching
<1>3. (p \in {"complete", "fail"} \/ (p \in {"known", "save"} /\ ~l.byHand)) => l.item.key \in Key
  BY LocFacts DEF Dispatching
<1>4. \A i \in l.todo : i.key \in Key
  BY LocFacts
<1> QED BY <1>1, <1>2, <1>3, <1>4, StepKept

\* A process that returns holds nothing.
LEMMA ReturnKept ==
    ASSUME IInv, NEW w \in Worker, Return(w),
           evidence' = evidence, identity' = identity, barred' = barred,
           formed' \subseteq Event, once' \subseteq Event,
           faults' \in Nat, calls' \in Nat
    PROVE  Kept
<1>1. "idle" \in PC
  BY DEF PC
<1> QED BY <1>1, NoLocType, StepKept DEF Return, Goto

\* A dispatcher that turns to its next job.
LEMMA NextItemKept ==
    ASSUME IInv, NEW w \in Worker, NextItem(w),
           evidence' = evidence, identity' = identity, barred' = barred,
           formed' = formed, once' = once, faults' = faults, calls' = calls
    PROVE  Kept
<1> DEFINE l == [loc[w] EXCEPT !.item = None, !.rows = {}, !.known = {}]
<1>1. loc' = [loc EXCEPT ![w] = l]
  BY LocFacts DEF NextItem
<1>2. l \in Loc /\ l.todo = loc[w].todo /\ "work" \in PC
  BY LocFacts DEF Loc, PC
<1>3. pc' = [pc EXCEPT ![w] = "work"]
  BY DEF NextItem, Goto
<1> QED BY <1>1, <1>2, <1>3, LocFacts, StepKept

\* The calls that begin at an idle process.
LEMMA CallKept == ASSUME IInv, NEW w \in Worker, Call(w) PROVE Kept
<1>1. CASE Begin(w)
  <2> DEFINE l == [loc[w] EXCEPT !.due = {k \in Key : Present(k) /\ jobs[k].due}]
  <2>1. l \in Loc /\ l.todo = loc[w].todo /\ l.item = loc[w].item /\ l.byHand = loc[w].byHand
    BY LocFacts DEF Loc
  <2>2. loc' = [loc EXCEPT ![w] = l] /\ "recover" \in PC
    BY <1>1, LocFacts DEF Begin, PC
  <2> QED BY <1>1, <2>1, <2>2, LocFacts, SameWorkKept DEF Begin, store, counters
<1>2. CASE \E s \in Session : ByHand(w, s)
  <2>1. PICK s \in Session : ByHand(w, s)
    BY <1>2
  <2>2. PICK k \in Key \cup {None}, n \in Line :
          loc' = [loc EXCEPT ![w].byHand = TRUE,
                             ![w].item = [key |-> k, session |-> s, through |-> n, attempts |-> 0]]
    BY <2>1, JobFacts DEF ByHand, Is, Present, IInv, TypeOK
  <2> DEFINE i == [key |-> k, session |-> s, through |-> n, attempts |-> 0]
             l == [loc[w] EXCEPT !.byHand = TRUE, !.item = i]
  <2>3. i \in Item
    BY LimitAssumption DEF Item
  <2>4. l \in Loc /\ l.todo = loc[w].todo /\ l.item = i /\ l.byHand /\ "byhand" \in PC
    BY <2>3, LocFacts DEF Loc, PC
  <2>5. loc' = [loc EXCEPT ![w] = l]
    BY <2>2, LocFacts
  <2>6. pc' = [pc EXCEPT ![w] = "byhand"] /\ calls' \in Nat
    BY <2>1, LocFacts DEF ByHand, Goto, Count
  <2> HIDE DEF i, l
  <2> QED BY <2>1, <2>3, <2>4, <2>5, <2>6, LocFacts, StepKept DEF ByHand, store, Count
<1>3. CASE \E S \in {{s} : s \in Session} \cup {Session} : Backfill(w, S)
  <2>1. PICK S \in {{s} : s \in Session} \cup {Session} : Backfill(w, S)
    BY <1>3
  <2> DEFINE rows == {e \in evidence : SessionOf[e] \in S}
             l == [loc[w] EXCEPT !.rows = rows, !.left = {SessionOf[e] : e \in rows}]
  <2>2. rows \subseteq Event /\ {SessionOf[e] : e \in rows} \subseteq Session
    BY LocFacts, EventAssumption
  <2>3. l \in Loc /\ l.todo = loc[w].todo /\ l.item = loc[w].item /\ l.byHand = loc[w].byHand
    BY <2>2, LocFacts DEF Loc
  <2>4. loc' = [loc EXCEPT ![w] = l] /\ "jobs" \in PC
    BY <2>1, LocFacts DEF Backfill, PC
  <2> HIDE DEF l
  <2> QED BY <2>1, <2>3, <2>4, LocFacts, SameWorkKept DEF Backfill, store, counters
<1> QED BY <1>1, <1>2, <1>3 DEF Call

\* The steps of a dispatch.
LEMMA DispatchKept ==
    ASSUME IInv, NEW w \in Worker,
           \/ Recover(w) \/ Lease(w) \/ Pick(w) \/ ReadKnown(w)
           \/ Save(w) \/ Complete(w) \/ Fail(w) \/ WorkDone(w)
    PROVE  Kept
<1> USE DEF counters, store
<1>1. CASE Recover(w)
  <2>1. loc' = [loc EXCEPT ![w] = loc[w]] /\ "lease" \in PC
    BY <1>1, LocFacts DEF Recover, PC
  <2> QED BY <1>1, <2>1, LocFacts, SameWorkKept DEF Recover
<1>2. CASE Lease(w)
  <2>1. PICK K \in SUBSET Ready(w) :
          loc' = [loc EXCEPT ![w].due = {}, ![w].todo =
                       {[key |-> k, session |-> jobs[k].session,
                         through |-> jobs[k].through,
                         attempts |-> jobs[k].attempts + 1] : k \in K}]
    BY <1>2 DEF Lease
  <2> DEFINE todo == {[key |-> k, session |-> jobs[k].session, through |-> jobs[k].through,
                       attempts |-> jobs[k].attempts + 1] : k \in K}
             l == [loc[w] EXCEPT !.due = {}, !.todo = todo]
  <2>2. todo \in SUBSET Item
    BY LeasedItems
  <2>3. \A i \in todo : i.key \in Key
    BY DEF Ready, IInv, TypeOK, Loc
  <2>4. l \in Loc /\ l.todo = todo /\ "work" \in PC
    BY <2>2, LocFacts DEF Loc, PC
  <2>5. loc' = [loc EXCEPT ![w] = l] /\ pc' = [pc EXCEPT ![w] = "work"]
    BY <1>2, <2>1, LocFacts DEF Lease, Goto
  <2> HIDE DEF l, todo
  <2> QED BY <1>2, <2>3, <2>4, <2>5, LocFacts, StepKept DEF Lease
<1>3. CASE Pick(w)
  <2>1. PICK i \in loc[w].todo :
          loc' = [loc EXCEPT ![w].todo = @ \ {i}, ![w].item = i,
                             ![w].rows = RowsThrough(i.session, i.through)]
    BY <1>3 DEF Pick
  <2> DEFINE l == [loc[w] EXCEPT !.todo = @ \ {i}, !.item = i,
                                 !.rows = RowsThrough(i.session, i.through)]
  <2>2. i \in Item /\ i.key \in Key
    BY LocFacts DEF Loc
  <2>3. RowsThrough(i.session, i.through) \subseteq Event
    BY LocFacts, RowsType
  <2>4. l \in Loc /\ l.todo \subseteq loc[w].todo /\ l.item = i /\ "known" \in PC
    BY <2>2, <2>3, LocFacts DEF Loc, PC
  <2>5. loc' = [loc EXCEPT ![w] = l] /\ pc' = [pc EXCEPT ![w] = "known"]
    BY <1>3, <2>1, LocFacts DEF Pick, Goto
  <2> HIDE DEF l
  <2> QED BY <1>3, <2>2, <2>4, <2>5, LocFacts, StepKept DEF Pick
<1>4. CASE ReadKnown(w)
  <2> DEFINE l == [loc[w] EXCEPT !.known = formed]
  <2>1. l \in Loc /\ l.todo = loc[w].todo /\ l.item = loc[w].item /\ l.byHand = loc[w].byHand
    BY LocFacts DEF Loc
  <2>2. loc' = [loc EXCEPT ![w] = l] /\ "save" \in PC
    BY <1>4, LocFacts DEF ReadKnown, PC
  <2> HIDE DEF l
  <2> QED BY <1>4, <2>1, <2>2, LocFacts, SameWorkKept DEF ReadKnown
<1>5. CASE Save(w)
  <2>1. loc' = [loc EXCEPT ![w] = loc[w]] /\ "complete" \in PC /\ "fail" \in PC
    BY <1>5, LocFacts DEF Save, PC
  <2>2. Dispatching(w)
    BY <1>5 DEF Save, Dispatching
  <2>3. New(w) \subseteq Event
    BY LocFacts DEF New, Loc
  <2>4. formed' \subseteq Event /\ once' \subseteq Event
    BY <1>5, <2>3, LocFacts DEF Save
  <2>5. PICK p \in {"complete", "fail"} : Goto(w, p)
    BY <1>5 DEF Save
  <2> QED BY <1>5, <2>1, <2>2, <2>4, <2>5, LocFacts, SameWorkKept DEF Save
<1>6. CASE Complete(w)
  <2>1. CASE Holds(w)
    BY <1>6, <2>1, NextItemKept DEF Complete
  <2>2. CASE ~Holds(w)
    <3>1. loc' = [loc EXCEPT ![w] = loc[w]] /\ "fail" \in PC /\ Dispatching(w)
      BY <1>6, <2>2, LocFacts DEF Complete, PC, Dispatching
    <3> QED BY <1>6, <2>2, <3>1, LocFacts, SameWorkKept DEF Complete
  <2> QED BY <2>1, <2>2
<1>7. CASE Fail(w)
  BY <1>7, NextItemKept, ReturnKept, LocFacts DEF Fail
<1>8. CASE WorkDone(w)
  BY <1>8, ReturnKept, LocFacts DEF WorkDone
<1> QED BY <1>1, <1>2, <1>3, <1>4, <1>5, <1>6, <1>7, <1>8

\* The steps of a manual run and of the backfill, and the failures.
LEMMA OtherStepsKept ==
    ASSUME IInv, NEW w \in Worker,
           \/ ReadByHand(w) \/ SaveByHand(w)
           \/ BackfillActive(w) \/ BackfillMissing(w) \/ BackfillEnqueue(w) \/ BackfillDone(w)
           \/ FormationFails(w) \/ Crash(w)
    PROVE  Kept
<1> USE DEF counters, store
<1>1. CASE ReadByHand(w)
  <2> DEFINE rows == RowsThrough(loc[w].item.session, loc[w].item.through)
             l == [loc[w] EXCEPT !.rows = rows]
  <2>1. rows \subseteq Event
    BY LocFacts, RowsType
  <2> HIDE DEF rows
  <2>2. l \in Loc /\ l.todo = loc[w].todo /\ l.item = loc[w].item /\ l.byHand = loc[w].byHand
    BY <2>1, LocFacts DEF Loc
  <2>3. loc' = [loc EXCEPT ![w] = l] /\ "known" \in PC
    BY <1>1, LocFacts DEF ReadByHand, PC, rows
  <2>4. l.item \in Item
    BY <1>1, <2>2, LocFacts DEF ReadByHand
  <2> QED BY <1>1, <2>2, <2>3, <2>4, LocFacts, SameWorkKept DEF ReadByHand
<1>2. CASE SaveByHand(w)
  <2>1. New(w) \subseteq Event
    BY LocFacts DEF New, Loc
  <2>2. formed' \subseteq Event /\ once' \subseteq Event
    BY <1>2, <2>1, LocFacts DEF SaveByHand
  <2> QED BY <1>2, <2>2, LocFacts, ReturnKept DEF SaveByHand
<1>3. CASE BackfillActive(w)
  <2> DEFINE left == {s \in loc[w].left : \A k \in Key : Is(k, "pending") \/ Is(k, "leased")
                                                => jobs[k].session # s}
             l == [loc[w] EXCEPT !.left = left]
  <2>1. l \in Loc /\ l.todo = loc[w].todo /\ l.item = loc[w].item /\ l.byHand = loc[w].byHand
    BY LocFacts DEF Loc
  <2>2. loc' = [loc EXCEPT ![w] = l] /\ "missing" \in PC
    BY <1>3, LocFacts DEF BackfillActive, PC
  <2> HIDE DEF l
  <2> QED BY <1>3, <2>1, <2>2, LocFacts, SameWorkKept DEF BackfillActive
<1>4. CASE BackfillMissing(w)
  <2>1. PICK s \in loc[w].left :
          LET missing == {e \in loc[w].rows \ formed : SessionOf[e] = s}
          IN /\ loc' = [loc EXCEPT ![w].left = @ \ {s}, ![w].known = missing]
             /\ Goto(w, IF missing = {} THEN "missing" ELSE "enqueue")
    BY <1>4 DEF BackfillMissing
  <2> DEFINE missing == {e \in loc[w].rows \ formed : SessionOf[e] = s}
             l == [loc[w] EXCEPT !.left = @ \ {s}, !.known = missing]
  <2>2. l \in Loc /\ l.todo = loc[w].todo /\ l.item = loc[w].item /\ l.byHand = loc[w].byHand
    BY LocFacts DEF Loc
  <2>3. loc' = [loc EXCEPT ![w] = l]
    BY <2>1, LocFacts
  <2>4. PICK p \in {"missing", "enqueue"} : Goto(w, p)
    BY <2>1
  <2>5. p \in PC
    BY DEF PC
  <2> HIDE DEF l
  <2> QED BY <1>4, <2>2, <2>3, <2>4, <2>5, LocFacts, SameWorkKept DEF BackfillMissing
<1>5. CASE BackfillEnqueue(w)
  <2> DEFINE l == [loc[w] EXCEPT !.known = {}]
  <2>1. l \in Loc /\ l.todo = loc[w].todo /\ l.item = loc[w].item /\ l.byHand = loc[w].byHand
    BY LocFacts DEF Loc
  <2>2. loc' = [loc EXCEPT ![w] = l] /\ "missing" \in PC
    BY <1>5, LocFacts DEF BackfillEnqueue, PC
  <2> HIDE DEF l
  <2> QED BY <1>5, <2>1, <2>2, LocFacts, SameWorkKept DEF BackfillEnqueue
<1>6. CASE BackfillDone(w)
  BY <1>6, ReturnKept, LocFacts DEF BackfillDone
<1>7. CASE FormationFails(w)
  <2>1. loc' = [loc EXCEPT ![w] = loc[w]] /\ "fail" \in PC /\ Dispatching(w)
    BY <1>7, LocFacts DEF FormationFails, PC, Dispatching
  <2>2. faults' \in Nat
    BY <1>7, LocFacts DEF FormationFails
  <2> QED BY <1>7, <2>1, <2>2, LocFacts, SameWorkKept DEF FormationFails
<1>8. CASE Crash(w)
  BY <1>8, ReturnKept, LocFacts DEF Crash
<1> QED BY <1>1, <1>2, <1>3, <1>4, <1>5, <1>6, <1>7, <1>8

LEMMA StutterKept == ASSUME IInv, UNCHANGED vars PROVE Kept
BY DEF vars, store, counters, Kept, IInv, TypeOK, ItemsHeld, Dispatching

LEMMA InitInvariant == ASSUME Init PROVE IInv
<1>1. TypeOK
  BY EventAssumption, NoLocType DEF Init, TypeOK, PC
<1>2. Attempts /\ DeadLetters
  BY DEF Init, Attempts, DeadLetters, Is, Present
<1>3. ItemsHeld
  BY NoLocType DEF Init, ItemsHeld, Dispatching
<1> QED BY <1>1, <1>2, <1>3 DEF IInv

LEMMA NextInvariant == ASSUME IInv, [Next]_vars PROVE IInv'
<1>1. Moved
  BY Moves DEF Moved
<1>2. Kept
  BY CaptureKept, RetentionKept, TimeKept, CallKept, DispatchKept, OtherStepsKept,
     StutterKept DEF Next, Continue
<1>3. TypeOK'
  BY <1>1, <1>2 DEF TypeOK, Moved, Kept
<1>4. Attempts'
  BY <1>1, MoveKeeps DEF Attempts
<1>5. LettersKnown'
  BY <1>1, MoveKeeps DEF LettersKnown
<1>6. DeadLetters'
  BY <1>3, <1>5, LettersAreDeaths, PTL
<1> QED BY <1>2, <1>3, <1>4, <1>6 DEF IInv, Kept

-----------------------------------------------------------------------------
(* Theorems on the queue.                                                  *)

\* The invariant holds in every reachable state.
THEOREM Invariance == Spec => []IInv
<1> QED BY InitInvariant, NextInvariant, PTL DEF Spec

\* Every table and every local keeps its shape, whatever the workers, recoveries,
\* manual runs and purges do; no job is handed out more often than it may be.
THEOREM TypeCorrect == Spec => []TypeOK
<1>1. IInv => TypeOK
  BY DEF IInv
<1> QED BY <1>1, Invariance, PTL

\* A job is dead exactly when it has its dead letter, that of its last attempt.
THEOREM LettersCorrect == Spec => []DeadLetters
<1>1. IInv => DeadLetters
  BY DEF IInv
<1> QED BY <1>1, Invariance, PTL

\* A move of a job is a step of its life cycle.
LEMMA LifeStep ==
    ASSUME IInv, IInv', Moved, NEW k \in Key
    PROVE  [Life(k)!Next]_(Life(k)!vars)
<1> USE DEF Life!Next, Life!vars, Life!Move, Life!Enqueue, Life!HandOut, Life!Acknowledge,
            Life!TryAgain, Life!GiveUp, Life!Forget
<1>1. Move(k)
  BY DEF Moved
<1>2. jobs[k] # None => jobs[k] \in Job
  BY DEF IInv, TypeOK
<1>3. CASE Same(k)
  BY <1>3 DEF Same
<1>4. CASE Enqueued(k)
  BY <1>4, NewJobType, JobFacts DEF Enqueued
<1>5. CASE Leased(k)
  <2>1. PICK o \in WorkerId : jobs'[k] = HandedOut(jobs[k], o)
    BY <1>5 DEF Leased
  <2>2. jobs[k] \in Job /\ jobs[k].status = "pending" /\ jobs[k].attempts < MaxAttempts
    BY <1>2, <1>5 DEF Leased, Is, Present, IInv, Attempts
  <2> QED BY <2>1, <2>2, HandedOutType, JobFacts
<1>6. CASE Answered(k)
  <2>1. jobs[k] \in Job /\ jobs[k].status \in {"leased", "pending"}
    BY <1>2, <1>6 DEF Answered, Is, Present
  <2>2. jobs'[k] \in Job /\ jobs'[k].status = "succeeded" /\ jobs'[k].attempts = jobs[k].attempts
    BY <1>6, <2>1 DEF Answered, Turned, Job, Status
  <2> QED BY <2>1, <2>2, JobFacts
<1>7. CASE TimedOut(k)
  <2>1. jobs[k] \in Job
    BY <1>2, <1>7 DEF TimedOut, Is, Present
  <2>2. jobs'[k] \in Job /\ jobs'[k].status = jobs[k].status /\ jobs'[k].attempts = jobs[k].attempts
    BY <1>7, <2>1 DEF TimedOut, Job
  <2> QED BY <2>1, <2>2, JobFacts
<1>8. CASE Tried(k)
  <2>1. PICK due \in BOOLEAN : jobs'[k] = Retried(jobs[k], due)
    BY <1>8 DEF Tried
  <2>2. jobs[k] \in Job /\ jobs[k].status = "leased" /\ jobs[k].attempts \in 0 .. MaxAttempts
    BY <1>2, <1>8, JobFacts DEF Tried, Is, Present
  <2>3. /\ jobs'[k] \in Job /\ jobs'[k].attempts = jobs[k].attempts
        /\ jobs'[k].status = IF jobs[k].attempts >= MaxAttempts THEN "dead" ELSE "pending"
    BY <2>1, <2>2, RetriedType DEF Exhausted
  <2>4. jobs[k] # None /\ jobs'[k] # None
    BY <2>2, <2>3, JobFacts
  <2> QED BY <2>2, <2>3, <2>4, LimitAssumption
<1>9. CASE Forgotten(k)
  BY <1>9 DEF Forgotten
<1> QED BY <1>1, <1>3, <1>4, <1>5, <1>6, <1>7, <1>8, <1>9 DEF Move

\* The queue implements the life cycle of each of its jobs, under whatever races.
THEOREM Lifecycles == Spec => ImplementsLifecycle
<1>1. Init => \A k \in Key : Life(k)!Init
  BY DEF Init, Life!Init
<1>2. IInv /\ IInv' /\ [Next]_vars => \A k \in Key : [Life(k)!Next]_(Life(k)!vars)
  BY LifeStep, Moves DEF Moved
<1>3. (\A k \in Key : [Life(k)!Next]_(Life(k)!vars))
        => [\A k \in Key : [Life(k)!Next]_(Life(k)!vars)]_vars
  OBVIOUS
<1> QED BY <1>1, <1>2, <1>3, Invariance, PTL DEF Spec, ImplementsLifecycle

\* A lease that has not run out is ended by nobody but a process of its identity.
THEOREM LeasesHonoured == Spec => LeaseHonoured
<1>1. ASSUME IInv, [Next]_vars, NEW k \in Key, Ended(k), ~jobs[k].due
      PROVE  \E w \in Worker : /\ pc[w] \in {"complete", "fail"} /\ pc'[w] = "work"
                               /\ loc[w].item.key = k /\ OwnerOf[w] = jobs[k].owner
  <2>1. Move(k) /\ Is(k, "leased") /\ jobs[k] \in Job
    BY <1>1, Moves DEF Moved, Ended, Is, Present, IInv, TypeOK
  <2>2. ~Same(k) /\ ~Enqueued(k) /\ ~Leased(k) /\ ~Forgotten(k)
    BY <1>1, <2>1 DEF Same, Enqueued, Leased, Forgotten, Ended, Is, Present
  <2>3. ~TimedOut(k)
    BY <1>1, <2>1 DEF TimedOut, Ended, Is, Job
  <2>4. Answered(k) \/ Tried(k)
    BY <2>1, <2>2, <2>3 DEF Move
  <2>5. PICK w \in Worker : /\ loc[w].item.key = k /\ Holds(w)
                            /\ Complete(w) \/ Fail(w)
    BY <1>1, <2>1, <2>4 DEF Answered, By, Tried, Failed, Is
  <2>6. pc[w] \in {"complete", "fail"} /\ pc'[w] = "work"
    <3>1. pc[w] \in {"complete", "fail"} /\ Goto(w, "work")
      BY <2>5 DEF Complete, Fail, NextItem
    <3>2. pc \in [Worker -> PC] /\ pc' = [pc EXCEPT ![w] = "work"]
      BY <1>1, <3>1, LocFacts DEF Goto
    <3>3. pc'[w] = "work"
      BY <3>2
    <3> QED BY <3>1, <3>3
  <2> QED BY <2>5, <2>6 DEF Holds
<1>2. IInv /\ [Next]_vars =>
        [\A k \in Key : Ended(k) /\ ~jobs[k].due =>
          \E w \in Worker : /\ pc[w] \in {"complete", "fail"} /\ pc'[w] = "work"
                            /\ loc[w].item.key = k /\ OwnerOf[w] = jobs[k].owner]_vars
  BY <1>1
<1> QED BY <1>2, Invariance, PTL DEF Spec, LeaseHonoured

-----------------------------------------------------------------------------
(* No captured evidence is lost.  A capture job speaks of the evidence in  *)
(* its key: the checkpoint covers it, it cannot come in twice, and whoever *)
(* answers for the job read all of it that was still there and saved it    *)
(* before.                                                                 *)

\* A session and a checkpoint cover the evidence of a capture job.
Bound(k, s, n) == \A e \in k.of : SessionOf[e] = s /\ LineOf[e] <= n

\* It cannot come in once more.
Blocked(k) == \A e \in k.of : e \in identity \/ SessionOf[e] \in barred

\* The evidence of a job has its candidates, as far as it is still there.
Done(k) == k.of \cap evidence \subseteq once

CaptureJob(k) == k.from = "capture"

CaptureJobs ==
    \A k \in Key : CaptureJob(k) /\ Present(k) =>
        /\ Bound(k, jobs[k].session, jobs[k].through) /\ Blocked(k)
        /\ jobs[k].status = "succeeded" => Done(k)

Captured ==
    /\ evidence \subseteq identity /\ formed \subseteq once
    /\ \A e \in evidence \ Legacy :
           \E k \in Key : CaptureJob(k) /\ e \in k.of /\ Present(k)

\* The items a process has in hand.
Hand(l) == {i \in l.todo \cup {l.item} : i # None /\ i.key \in Key /\ CaptureJob(i.key)}

\* What a process at p with locals l may rely on.
Sound(p, l) ==
    /\ \A i \in Hand(l) : Bound(i.key, i.session, i.through) /\ Blocked(i.key)
    /\ p = "save" => l.known \subseteq once
    /\ l.item \in Hand(l) =>
           /\ p \in {"known", "save"} => l.item.key.of \cap evidence \subseteq l.rows
           /\ p = "complete" => Done(l.item.key)

Working == \A w \in Worker : Sound(pc[w], loc[w])

NInv == CaptureJobs /\ Captured /\ Working

\* A worker writes jobs and candidates, never evidence, identities or barriers, and
\* what had a candidate had one.
LEMMA WorkerRows ==
    ASSUME NEW w \in Worker, Call(w) \/ Continue(w) \/ FormationFails(w) \/ Crash(w)
    PROVE  UNCHANGED <<evidence, identity, barred>> /\ once \subseteq once'
<1> USE DEF store
<1>1. CASE Call(w)
  BY <1>1 DEF Call, Begin, ByHand, Backfill
<1>2. CASE Recover(w) \/ Lease(w) \/ Pick(w) \/ ReadKnown(w)
  BY <1>2 DEF Recover, Lease, Pick, ReadKnown
<1>3. CASE Save(w) \/ Complete(w) \/ Fail(w) \/ WorkDone(w)
  BY <1>3 DEF Save, Complete, Fail, WorkDone
<1>4. CASE ReadByHand(w) \/ SaveByHand(w)
  BY <1>4 DEF ReadByHand, SaveByHand
<1>5. CASE \/ BackfillActive(w) \/ BackfillMissing(w) \/ BackfillEnqueue(w) \/ BackfillDone(w)
  BY <1>5 DEF BackfillActive, BackfillMissing, BackfillEnqueue, BackfillDone
<1>6. CASE FormationFails(w) \/ Crash(w)
  BY <1>6 DEF FormationFails, Crash
<1> QED BY <1>1, <1>2, <1>3, <1>4, <1>5, <1>6 DEF Continue

\* Evidence of a capture job does not come in again.
LEMMA NoneComesBack ==
    ASSUME IInv, [Next]_vars, NEW k \in Key, Blocked(k)
    PROVE  Blocked(k)' /\ k.of \cap evidence' \subseteq k.of \cap evidence
<1>1. CASE UNCHANGED <<evidence, identity, barred>>
  BY <1>1 DEF Blocked
<1>2. ASSUME NEW s \in Session, NEW E \in SUBSET Event, Capture(s, E)
      PROVE  Blocked(k)' /\ k.of \cap evidence' \subseteq k.of \cap evidence
  BY <1>2 DEF Capture, Blocked
<1>3. ASSUME NEW e \in Event, Collect(e)
      PROVE  Blocked(k)' /\ k.of \cap evidence' \subseteq k.of \cap evidence
  BY <1>3 DEF Collect, Blocked
<1>4. ASSUME NEW s \in Session, Purge(s)
      PROVE  Blocked(k)' /\ k.of \cap evidence' \subseteq k.of \cap evidence
  BY <1>4, EventAssumption DEF Purge, Blocked, Key
<1>5. ASSUME NEW w \in Worker, Call(w) \/ Continue(w) \/ FormationFails(w) \/ Crash(w)
      PROVE  UNCHANGED <<evidence, identity, barred>>
  BY <1>5, WorkerRows
<1>6. CASE \E j \in Key : TimePasses(j)
  BY <1>1, <1>6 DEF TimePasses
<1>7. CASE \E e \in Event : CollectCandidate(e)
  BY <1>1, <1>7 DEF CollectCandidate
<1>8. CASE UNCHANGED vars
  BY <1>1, <1>8 DEF vars, store
<1> QED BY <1>1, <1>2, <1>3, <1>4, <1>5, <1>6, <1>7, <1>8 DEF Next, Retention

\* What had a candidate had one.
LEMMA OnceStays == ASSUME [Next]_vars PROVE once \subseteq once'
<1>1. CASE \E w \in Worker : Call(w) \/ Continue(w) \/ FormationFails(w) \/ Crash(w)
  BY <1>1, WorkerRows
<1>2. CASE ~\E w \in Worker : Call(w) \/ Continue(w) \/ FormationFails(w) \/ Crash(w)
  BY <1>2 DEF Next, vars, Retention, Collect, CollectCandidate, Capture, Purge, TimePasses
<1> QED BY <1>1, <1>2

\* What a process relies on is not taken away by a step that leaves its locals.
LEMMA SoundStays ==
    ASSUME IInv, [Next]_vars, NEW p, NEW l, Sound(p, l)
    PROVE  Sound(p, l)'
<1>1. \A k \in Key : Blocked(k) => Blocked(k)' /\ k.of \cap evidence' \subseteq k.of \cap evidence
  BY NoneComesBack
<1>2. once \subseteq once'
  BY OnceStays
<1>3. \A i \in Hand(l) : /\ i.key \in Key
                         /\ Bound(i.key, i.session, i.through) /\ Blocked(i.key)
  BY DEF Sound, Hand
<1>4. \A i \in Hand(l) : Bound(i.key, i.session, i.through)' /\ Blocked(i.key)'
  BY <1>1, <1>3 DEF Bound
<1>5. l.item \in Hand(l) =>
         /\ p \in {"known", "save"} => l.item.key.of \cap evidence' \subseteq l.rows
         /\ p = "complete" => Done(l.item.key)'
  BY <1>1, <1>2, <1>3 DEF Sound, Done
<1>6. p = "save" => l.known \subseteq once'
  BY <1>2 DEF Sound
<1> QED BY <1>4, <1>5, <1>6 DEF Sound, Hand, CaptureJob

\* A step of one process: what it may rely on where it goes decides.
LEMMA WorkingStep ==
    ASSUME IInv, Working, [Next]_vars, NEW w \in Worker, NEW p, NEW l,
           pc' = [pc EXCEPT ![w] = p], loc' = [loc EXCEPT ![w] = l], Sound(p, l)'
    PROVE  Working'
<1>1. \A v \in Worker : IF v = w THEN pc'[v] = p /\ loc'[v] = l
                                 ELSE pc'[v] = pc[v] /\ loc'[v] = loc[v]
  BY DEF IInv, TypeOK
<1>2. ASSUME NEW v \in Worker PROVE Sound(pc[v], loc[v])'
  <2>1. CASE v = w
    <3>1. pc'[v] = p /\ loc'[v] = l
      BY <1>1, <2>1
    <3> QED BY <3>1 DEF Sound, Blocked, Done
  <2>2. CASE v # w
    <3>1. PICK q, m : q = pc[v] /\ m = loc[v]
      OBVIOUS
    <3>2. Sound(q, m)
      BY <3>1 DEF Working
    <3>3. Sound(q, m)'
      BY <3>2, SoundStays
    <3>4. pc'[v] = q /\ loc'[v] = m
      BY <1>1, <2>2, <3>1
    <3> QED BY <3>3, <3>4 DEF Sound, Blocked, Done
  <2> QED BY <2>1, <2>2
<1> QED BY <1>2 DEF Working

LEMMA WorkingNow ==
    ASSUME IInv, Working, [Next]_vars, NEW w \in Worker, NEW p, NEW l,
           Goto(w, p), loc' = [loc EXCEPT ![w] = l], Sound(p, l)
    PROVE  Working'
<1>1. Sound(p, l)'
  BY SoundStays
<1> QED BY <1>1, WorkingStep DEF Goto

\* A process that only puts items away may rely on the rest.
LEMMA Relaxed ==
    ASSUME IInv, Working, NEW w \in Worker, NEW p, NEW l,
           Hand(l) \subseteq Hand(loc[w]), p \notin {"known", "save", "complete"}
    PROVE  Sound(p, l)
<1>1. Sound(pc[w], loc[w])
  BY DEF Working
<1> QED BY <1>1 DEF Sound

\* A step that takes up no item and does not read for one.
LEMMA WorkingRelaxed ==
    ASSUME IInv, Working, [Next]_vars, NEW w \in Worker, NEW p, NEW l,
           Goto(w, p), loc' = [loc EXCEPT ![w] = l],
           l.todo \subseteq loc[w].todo, l.item \in {loc[w].item, None},
           p \notin {"known", "save", "complete"}
    PROVE  Working'
<1>1. Hand(l) \subseteq Hand(loc[w])
  BY DEF Hand
<1>2. Sound(p, l)
  BY <1>1, Relaxed
<1> QED BY <1>2, WorkingNow

LEMMA WorkingReturn ==
    ASSUME IInv, Working, [Next]_vars, NEW w \in Worker, Return(w) PROVE Working'
<1>1. NoLoc.todo \subseteq loc[w].todo
  BY NoLocType
<1> QED BY <1>1, NoLocType, WorkingRelaxed DEF Return

LEMMA WorkingNextItem ==
    ASSUME IInv, Working, [Next]_vars, NEW w \in Worker, NextItem(w) PROVE Working'
<1>1. PICK l : l = [loc[w] EXCEPT !.item = None, !.rows = {}, !.known = {}]
  OBVIOUS
<1>2. loc' = [loc EXCEPT ![w] = l] /\ l.todo = loc[w].todo /\ l.item = None
  BY <1>1, LocFacts DEF NextItem, Loc
<1> QED BY <1>2, WorkingRelaxed DEF NextItem

\* The calls: a manual run that finds a capture job takes its session and checkpoint.
LEMMA CallWorking ==
    ASSUME IInv, NInv, [Next]_vars, NEW w \in Worker, Call(w) PROVE Working'
<1>a. Working
  BY DEF NInv
<1>1. CASE Begin(w)
  <2>1. PICK l : l = [loc[w] EXCEPT !.due = {k \in Key : Present(k) /\ jobs[k].due}]
    OBVIOUS
  <2>2. loc' = [loc EXCEPT ![w] = l] /\ l.todo = loc[w].todo /\ l.item = loc[w].item
    BY <1>1, <2>1, LocFacts DEF Begin, Loc
  <2> QED BY <1>a, <1>1, <2>2, WorkingRelaxed DEF Begin
<1>2. ASSUME NEW s \in Session, ByHand(w, s) PROVE Working'
  <2>1. PICK k \in Key \cup {None}, n \in Line :
          /\ loc' = [loc EXCEPT ![w].byHand = TRUE,
                               ![w].item = [key |-> k, session |-> s, through |-> n, attempts |-> 0]]
          /\ k \in Key => Is(k, "pending") /\ jobs[k].session = s /\ jobs[k].through = n
    BY <1>2, JobFacts, NoneAssumption DEF ByHand, Is, Present, IInv, TypeOK
  <2>2. PICK i : i = [key |-> k, session |-> s, through |-> n, attempts |-> 0]
    OBVIOUS
  <2>3. PICK l : l = [loc[w] EXCEPT !.byHand = TRUE, !.item = i]
    OBVIOUS
  <2>4. loc' = [loc EXCEPT ![w] = l] /\ l.todo = loc[w].todo /\ l.item = i
    BY <2>1, <2>2, <2>3, LocFacts DEF Loc
  <2>5. i.key = k /\ i.session = s /\ i.through = n
    BY <2>2
  <2>6. ASSUME k \in Key, CaptureJob(k)
        PROVE  Bound(i.key, i.session, i.through) /\ Blocked(i.key)
    BY <2>1, <2>5, <2>6 DEF NInv, CaptureJobs, Is
  <2>7. \A j \in Hand(loc[w]) : Bound(j.key, j.session, j.through) /\ Blocked(j.key)
    BY <1>a DEF Working, Sound
  <2>8. \A j \in Hand(l) : Bound(j.key, j.session, j.through) /\ Blocked(j.key)
    BY <2>4, <2>5, <2>6, <2>7 DEF Hand
  <2>9. Sound("byhand", l)
    BY <2>8 DEF Sound
  <2> QED BY <1>a, <1>2, <2>4, <2>9, WorkingNow DEF ByHand
<1>3. ASSUME NEW S \in SUBSET Session, Backfill(w, S) PROVE Working'
  <2> DEFINE rows == {e \in evidence : SessionOf[e] \in S}
  <2>1. PICK l : l = [loc[w] EXCEPT !.rows = rows, !.left = {SessionOf[e] : e \in rows}]
    OBVIOUS
  <2>2. loc' = [loc EXCEPT ![w] = l] /\ l.todo = loc[w].todo /\ l.item = loc[w].item
    BY <1>3, <2>1, LocFacts DEF Backfill, Loc
  <2> QED BY <1>a, <1>3, <2>2, WorkingRelaxed DEF Backfill
<1>4. \A S \in {{s} : s \in Session} \cup {Session} : S \in SUBSET Session
  OBVIOUS
<1> QED BY <1>1, <1>2, <1>3, <1>4 DEF Call

\* Saving makes the evidence of the job in work done: what is still there was read,
\* and what was read and not known is saved.
LEMMA SavingIsDoing ==
    ASSUME IInv, NInv, NEW w \in Worker, pc[w] = "save", loc[w].item \in Hand(loc[w]),
           NEW k, k = loc[w].item.key,
           once' = once \cup New(w), evidence' = evidence
    PROVE  Done(k)'
<1>1. Sound(pc[w], loc[w])
  BY DEF NInv, Working
<1>2. loc[w].known \subseteq once /\ k.of \cap evidence \subseteq loc[w].rows
  BY <1>1 DEF Sound
<1>3. k.of \cap evidence' \subseteq once'
  BY <1>2 DEF New
<1> QED BY <1>3 DEF Done

LEMMA DispatchWorking ==
    ASSUME IInv, NInv, [Next]_vars, NEW w \in Worker,
           \/ Recover(w) \/ Lease(w) \/ Pick(w) \/ ReadKnown(w)
           \/ Save(w) \/ Complete(w) \/ Fail(w) \/ WorkDone(w)
    PROVE  Working'
<1>a. Working /\ Sound(pc[w], loc[w])
  BY DEF NInv, Working
<1>b. PICK here : here = loc[w]
  OBVIOUS
<1>c. [loc EXCEPT ![w] = here] = loc /\ here.todo = loc[w].todo /\ here.item = loc[w].item
  BY <1>b, LocFacts
<1>1. CASE Recover(w)
  BY <1>a, <1>c, <1>1, WorkingRelaxed DEF Recover
<1>2. CASE Lease(w)
  <2>1. PICK K \in SUBSET Ready(w) :
          loc' = [loc EXCEPT ![w].due = {}, ![w].todo =
                       {[key |-> k, session |-> jobs[k].session,
                         through |-> jobs[k].through,
                         attempts |-> jobs[k].attempts + 1] : k \in K}]
    BY <1>2 DEF Lease
  <2>2. PICK todo : todo = {[key |-> k, session |-> jobs[k].session, through |-> jobs[k].through,
                             attempts |-> jobs[k].attempts + 1] : k \in K}
    OBVIOUS
  <2>3. PICK l : l = [loc[w] EXCEPT !.due = {}, !.todo = todo]
    OBVIOUS
  <2>4. loc' = [loc EXCEPT ![w] = l] /\ l.todo = todo /\ l.item = loc[w].item
    BY <2>1, <2>2, <2>3, LocFacts DEF Loc
  <2>5. ASSUME NEW i \in todo, CaptureJob(i.key)
        PROVE  Bound(i.key, i.session, i.through) /\ Blocked(i.key)
    <3>1. PICK k \in Ready(w) : i = [key |-> k, session |-> jobs[k].session,
                                   through |-> jobs[k].through, attempts |-> jobs[k].attempts + 1]
      BY <2>2
    <3>2. i.key = k /\ i.session = jobs[k].session /\ i.through = jobs[k].through
      BY <3>1
    <3>3. k \in Key /\ Present(k)
      BY LocFacts DEF Ready, Loc, Is
    <3> QED BY <2>5, <3>2, <3>3 DEF NInv, CaptureJobs
  <2>6. \A i \in Hand(loc[w]) : Bound(i.key, i.session, i.through) /\ Blocked(i.key)
    BY <1>a DEF Sound
  <2>7. \A i \in Hand(l) : Bound(i.key, i.session, i.through) /\ Blocked(i.key)
    BY <2>4, <2>5, <2>6 DEF Hand
  <2>8. Sound("work", l)
    BY <2>7 DEF Sound
  <2> QED BY <1>a, <1>2, <2>4, <2>8, WorkingNow DEF Lease
<1>3. CASE Pick(w)
  <2>1. PICK i \in loc[w].todo :
          loc' = [loc EXCEPT ![w].todo = @ \ {i}, ![w].item = i,
                             ![w].rows = RowsThrough(i.session, i.through)]
    BY <1>3 DEF Pick
  <2>2. PICK l : l = [loc[w] EXCEPT !.todo = @ \ {i}, !.item = i,
                                    !.rows = RowsThrough(i.session, i.through)]
    OBVIOUS
  <2>3. /\ loc' = [loc EXCEPT ![w] = l] /\ l.todo \subseteq loc[w].todo /\ l.item = i
        /\ l.rows = RowsThrough(i.session, i.through)
    BY <2>1, <2>2, LocFacts DEF Loc
  <2>4. Hand(l) \subseteq Hand(loc[w])
    BY <2>3 DEF Hand
  <2>5. \A j \in Hand(l) : Bound(j.key, j.session, j.through) /\ Blocked(j.key)
    BY <1>a, <2>4 DEF Sound
  <2>6. ASSUME i \in Hand(l) PROVE i.key.of \cap evidence \subseteq l.rows
    BY <2>3, <2>5, <2>6 DEF Bound, RowsThrough
  <2>7. Sound("known", l)
    BY <2>3, <2>5, <2>6 DEF Sound
  <2> QED BY <1>a, <1>3, <2>3, <2>7, WorkingNow DEF Pick
<1>4. CASE ReadKnown(w)
  <2>1. PICK l : l = [loc[w] EXCEPT !.known = formed]
    OBVIOUS
  <2>2. /\ loc' = [loc EXCEPT ![w] = l] /\ l.todo = loc[w].todo /\ l.item = loc[w].item
        /\ l.rows = loc[w].rows /\ l.known = formed
    BY <1>4, <2>1, LocFacts DEF ReadKnown, Loc
  <2>3. Hand(l) = Hand(loc[w])
    BY <2>2 DEF Hand
  <2>4. Sound("save", l)
    BY <1>a, <1>4, <2>2, <2>3 DEF ReadKnown, Sound, NInv, Captured
  <2> QED BY <1>a, <1>4, <2>2, <2>4, WorkingNow DEF ReadKnown
<1>5. CASE Save(w)
  <2>1. CASE Goto(w, "fail")
    BY <1>a, <1>c, <1>5, <2>1, WorkingRelaxed DEF Save
  <2>2. CASE Goto(w, "complete") /\ once' = once \cup New(w)
    <3>1. evidence' = evidence /\ pc[w] = "save" /\ loc' = loc
      BY <1>5 DEF Save
    <3>2. here.item \in Hand(here) => Done(here.item.key)'
      BY <1>b, <2>2, <3>1, SavingIsDoing
    <3>3. here.item \in Hand(here) => here.item.key.of \cap evidence' \subseteq once'
      BY <3>2 DEF Done
    <3>4. Sound("fail", here)
      BY <1>a, <1>b, Relaxed
    <3>5. Sound("fail", here)'
      BY <3>4, SoundStays
    <3>6. Sound("complete", here)'
      BY <3>3, <3>5 DEF Sound, Done
    <3> QED BY <1>a, <1>c, <2>2, <3>1, <3>6, WorkingStep DEF Goto
  <2> QED BY <1>5, <2>1, <2>2 DEF Save
<1>6. CASE Complete(w)
  BY <1>a, <1>c, <1>6, WorkingNextItem, WorkingRelaxed DEF Complete
<1>7. CASE Fail(w)
  BY <1>a, <1>7, WorkingNextItem, WorkingReturn DEF Fail
<1>8. CASE WorkDone(w)
  BY <1>a, <1>8, WorkingReturn DEF WorkDone
<1> QED BY <1>1, <1>2, <1>3, <1>4, <1>5, <1>6, <1>7, <1>8

LEMMA OtherStepsWorking ==
    ASSUME IInv, NInv, [Next]_vars, NEW w \in Worker,
           \/ ReadByHand(w) \/ SaveByHand(w)
           \/ BackfillActive(w) \/ BackfillMissing(w) \/ BackfillEnqueue(w) \/ BackfillDone(w)
           \/ FormationFails(w) \/ Crash(w)
    PROVE  Working'
<1>a. Working /\ Sound(pc[w], loc[w])
  BY DEF NInv, Working
<1>b. PICK here : here = loc[w]
  OBVIOUS
<1>c. [loc EXCEPT ![w] = here] = loc /\ here.todo = loc[w].todo /\ here.item = loc[w].item
  BY <1>b, LocFacts
<1>1. CASE ReadByHand(w)
  <2> DEFINE i == loc[w].item
  <2>1. PICK l : l = [loc[w] EXCEPT !.rows = RowsThrough(i.session, i.through)]
    OBVIOUS
  <2>2. /\ loc' = [loc EXCEPT ![w] = l] /\ l.todo = loc[w].todo /\ l.item = i
        /\ l.rows = RowsThrough(i.session, i.through)
    BY <1>1, <2>1, LocFacts DEF ReadByHand, Loc
  <2>3. Hand(l) = Hand(loc[w])
    BY <2>2 DEF Hand
  <2>4. \A j \in Hand(l) : Bound(j.key, j.session, j.through) /\ Blocked(j.key)
    BY <1>a, <2>3 DEF Sound
  <2>5. ASSUME i \in Hand(l) PROVE i.key.of \cap evidence \subseteq l.rows
    BY <2>2, <2>4, <2>5 DEF Bound, RowsThrough
  <2>6. Sound("known", l)
    BY <2>2, <2>4, <2>5 DEF Sound
  <2> QED BY <1>a, <1>1, <2>2, <2>6, WorkingNow DEF ReadByHand
<1>2. CASE SaveByHand(w) \/ BackfillDone(w) \/ Crash(w)
  BY <1>a, <1>2, WorkingReturn DEF SaveByHand, BackfillDone, Crash
<1>3. CASE BackfillActive(w)
  <2>1. PICK l : l = [loc[w] EXCEPT !.left =
                  {s \in @ : \A k \in Key : Is(k, "pending") \/ Is(k, "leased")
                                                => jobs[k].session # s}]
    OBVIOUS
  <2>2. loc' = [loc EXCEPT ![w] = l] /\ l.todo = loc[w].todo /\ l.item = loc[w].item
    BY <1>3, <2>1, LocFacts DEF BackfillActive, Loc
  <2> QED BY <1>a, <1>3, <2>2, WorkingRelaxed DEF BackfillActive
<1>4. CASE BackfillMissing(w)
  <2>1. PICK s \in loc[w].left :
          LET missing == {e \in loc[w].rows \ formed : SessionOf[e] = s}
          IN /\ loc' = [loc EXCEPT ![w].left = @ \ {s}, ![w].known = missing]
             /\ Goto(w, IF missing = {} THEN "missing" ELSE "enqueue")
    BY <1>4 DEF BackfillMissing
  <2>2. PICK l : l = [loc[w] EXCEPT !.left = @ \ {s},
                         !.known = {e \in loc[w].rows \ formed : SessionOf[e] = s}]
    OBVIOUS
  <2>3. loc' = [loc EXCEPT ![w] = l] /\ l.todo = loc[w].todo /\ l.item = loc[w].item
    BY <2>1, <2>2, LocFacts DEF Loc
  <2>4. PICK p \in {"missing", "enqueue"} : Goto(w, p)
    BY <2>1
  <2> QED BY <1>a, <2>3, <2>4, WorkingRelaxed
<1>5. CASE BackfillEnqueue(w)
  <2>1. PICK l : l = [loc[w] EXCEPT !.known = {}]
    OBVIOUS
  <2>2. loc' = [loc EXCEPT ![w] = l] /\ l.todo = loc[w].todo /\ l.item = loc[w].item
    BY <1>5, <2>1, LocFacts DEF BackfillEnqueue, Loc
  <2> QED BY <1>a, <1>5, <2>2, WorkingRelaxed DEF BackfillEnqueue
<1>6. CASE FormationFails(w)
  BY <1>a, <1>c, <1>6, WorkingRelaxed DEF FormationFails
<1> QED BY <1>1, <1>2, <1>3, <1>4, <1>5, <1>6

\* Steps of the store and of time leave the processes alone.
LEMMA StoreWorking ==
    ASSUME IInv, Working, [Next]_vars, UNCHANGED <<pc, loc>>
    PROVE  Working'
<1>1. ASSUME NEW v \in Worker PROVE Sound(pc[v], loc[v])'
  <2>1. PICK q, m : q = pc[v] /\ m = loc[v]
    OBVIOUS
  <2>2. Sound(q, m)
    BY <2>1 DEF Working
  <2>3. Sound(q, m)'
    BY <2>2, SoundStays
  <2>4. pc'[v] = q /\ loc'[v] = m
    BY <2>1
  <2> QED BY <2>3, <2>4 DEF Sound, Blocked, Done
<1> QED BY <1>1 DEF Working

LEMMA WorkingKept == ASSUME IInv, NInv, [Next]_vars PROVE Working'
<1>1. CASE UNCHANGED <<pc, loc>>
  BY <1>1, StoreWorking DEF NInv
<1>2. CASE \E w \in Worker : Call(w) \/ Continue(w) \/ FormationFails(w) \/ Crash(w)
  BY <1>2, CallWorking, DispatchWorking, OtherStepsWorking DEF Continue
<1>3. CASE ~\E w \in Worker : Call(w) \/ Continue(w) \/ FormationFails(w) \/ Crash(w)
  <2>1. UNCHANGED <<pc, loc>>
    BY <1>3 DEF Next, vars, Retention, Collect, CollectCandidate, Capture, Purge, TimePasses
  <2> QED BY <1>1, <2>1
<1> QED BY <1>2, <1>3

\* A capture job stays about its evidence, and is answered when that is done.
LEMMA CaptureJobsKept == ASSUME IInv, NInv, [Next]_vars PROVE CaptureJobs'
<1> SUFFICES ASSUME NEW k \in Key, CaptureJob(k), Present(k)'
             PROVE  /\ Bound(k, jobs'[k].session, jobs'[k].through) /\ Blocked(k)'
                    /\ jobs'[k].status = "succeeded" => Done(k)'
  BY DEF CaptureJobs, CaptureJob, Bound
<1>1. Move(k)
  BY Moves DEF Moved
<1>2. CASE Present(k)
  <2>1. jobs[k] \in Job
    BY <1>2 DEF IInv, TypeOK, Present
  <2>2. Bound(k, jobs[k].session, jobs[k].through) /\ Blocked(k)
    BY <1>2 DEF NInv, CaptureJobs
  <2>3. Blocked(k)' /\ k.of \cap evidence' \subseteq k.of \cap evidence /\ once \subseteq once'
    BY <2>2, NoneComesBack, OnceStays
  <2>4. CASE Same(k) \/ TimedOut(k)
    <3>1. /\ jobs'[k].session = jobs[k].session /\ jobs'[k].through = jobs[k].through
          /\ jobs'[k].status = jobs[k].status
      BY <2>1, <2>4 DEF Same, TimedOut, Job
    <3>2. jobs[k].status = "succeeded" => Done(k)
      BY <1>2 DEF NInv, CaptureJobs
    <3>3. Done(k) => Done(k)'
      BY <2>3 DEF Done
    <3> QED BY <2>2, <2>3, <3>1, <3>2, <3>3
  <2>5. CASE Leased(k)
    <3>1. PICK o \in WorkerId : jobs'[k] = HandedOut(jobs[k], o)
      BY <2>5 DEF Leased
    <3>2. jobs[k].attempts < MaxAttempts
      BY <2>5 DEF Leased, IInv, Attempts
    <3> QED BY <2>1, <2>2, <2>3, <3>1, <3>2, HandedOutType
  <2>6. CASE Tried(k)
    <3>1. PICK due \in BOOLEAN : jobs'[k] = Retried(jobs[k], due)
      BY <2>6 DEF Tried
    <3>2. /\ jobs'[k].session = jobs[k].session /\ jobs'[k].through = jobs[k].through
          /\ jobs'[k].status # "succeeded"
      BY <2>1, <3>1, RetriedType DEF Exhausted
    <3> QED BY <2>2, <2>3, <3>2
  <2>7. CASE Answered(k)
    <3>1. jobs'[k].session = jobs[k].session /\ jobs'[k].through = jobs[k].through
      BY <2>1, <2>7 DEF Answered, Turned, Job
    <3>2. PICK w \in Worker : By(w, k)
      BY <2>7 DEF Answered
    <3>3. loc[w].item \in Item /\ loc[w].item \in Hand(loc[w])
      <4>1. loc[w].item \in Item
        BY <3>2, LocFacts DEF By, Complete, SaveByHand
      <4> QED BY <3>2, <4>1, NoneAssumption DEF By, Hand
    <3>4. CASE SaveByHand(w)
      <4>1. CASE once' = once \cup New(w)
        <5>1. pc[w] = "save" /\ evidence' = evidence /\ k = loc[w].item.key
          BY <3>2, <3>4 DEF By, SaveByHand
        <5>2. Done(k)'
          BY <3>3, <4>1, <5>1, SavingIsDoing
        <5> QED BY <2>2, <2>3, <3>1, <5>2
      <4>2. CASE UNCHANGED jobs
        <5>1. jobs'[k].status \in {"leased", "pending"}
          BY <2>7, <4>2 DEF Answered, Is
        <5> QED BY <2>2, <2>3, <3>1, <5>1
      <4> QED BY <2>2, <2>3, <3>1, <3>4, <4>1, <4>2 DEF SaveByHand
    <3>5. CASE Complete(w)
      <4>1. Sound(pc[w], loc[w]) /\ pc[w] = "complete"
        BY <3>5 DEF Complete, NInv, Working
      <4>2. Done(k)
        BY <3>2, <3>3, <4>1 DEF Sound, By
      <4>3. Done(k)'
        BY <2>3, <4>2 DEF Done
      <4> QED BY <2>2, <2>3, <3>1, <4>3
    <3> QED BY <3>2, <3>4, <3>5 DEF By
  <2> QED BY <1>1, <1>2, <2>4, <2>5, <2>6, <2>7 DEF Move, Enqueued, Forgotten, Present
<1>3. CASE ~Present(k)
  <2>1. Enqueued(k)
    BY <1>1, <1>3 DEF Move, Same, Leased, Answered, TimedOut, Tried, Forgotten, Is, Present
  <2>2. PICK s \in Session, n \in Line : jobs'[k] = NewJob(s, n) /\ Named(k, s, n)
    BY <2>1 DEF Enqueued
  <2>3. Capture(s, k.of) /\ Newest(k.of, n)
    BY <2>2 DEF Named, CaptureJob
  <2>4. \A e \in k.of : SessionOf[e] = s /\ LineOf[e] <= n /\ e \in identity'
    BY <2>3 DEF Capture, Newest
  <2>5. Bound(k, s, n) /\ Blocked(k)'
    BY <2>4 DEF Bound, Blocked
  <2> QED BY <2>2, <2>5, NewJobType
<1> QED BY <1>2, <1>3

\* A worker only saves candidates of evidence that has them from then on.
LEMMA FormedKept == ASSUME IInv, NInv, [Next]_vars PROVE formed' \subseteq once'
<1>1. formed \subseteq once
  BY DEF NInv, Captured
<1>2. CASE UNCHANGED <<formed, once>>
  BY <1>1, <1>2
<1>3. ASSUME NEW w \in Worker, Save(w) \/ SaveByHand(w) PROVE formed' \subseteq once'
  BY <1>1, <1>3 DEF Save, SaveByHand
<1>4. CASE \E e \in Event : Collect(e) \/ CollectCandidate(e)
  BY <1>1, <1>4 DEF Collect, CollectCandidate
<1>5. CASE \E s \in Session : Purge(s)
  BY <1>1, <1>5 DEF Purge
<1>6. \/ UNCHANGED <<formed, once>>
      \/ \E w \in Worker : Save(w) \/ SaveByHand(w)
      \/ \E e \in Event : Collect(e) \/ CollectCandidate(e)
      \/ \E s \in Session : Purge(s)
  <2> USE DEF store
  <2>1. CASE \E w \in Worker : Call(w) \/ FormationFails(w) \/ Crash(w)
    BY <2>1 DEF Call, Begin, ByHand, Backfill, FormationFails, Crash
  <2>2. CASE \E w \in Worker : Continue(w)
    BY <2>2, ZenonT(30) DEF Continue, Recover, Lease, Pick, ReadKnown, Complete, Fail, WorkDone,
       ReadByHand, BackfillActive, BackfillMissing, BackfillEnqueue, BackfillDone
  <2>3. CASE UNCHANGED vars \/ (\E k \in Key : TimePasses(k))
             \/ \E s \in Session, E \in SUBSET Event : Capture(s, E)
    BY <2>3 DEF vars, TimePasses, Capture
  <2> QED BY <2>1, <2>2, <2>3 DEF Next, Retention
<1> QED BY <1>2, <1>3, <1>4, <1>5, <1>6

\* A job goes only with the evidence of its session.
LEMMA JobStays ==
    ASSUME IInv, NInv, [Next]_vars, NEW e \in evidence', NEW k \in Key,
           CaptureJob(k), e \in k.of, Present(k)
    PROVE  Present(k)'
<1>1. jobs[k] \in Job /\ SessionOf[e] = jobs[k].session /\ k.of \subseteq Event
  BY DEF NInv, CaptureJobs, Bound, IInv, TypeOK, Present, Key
<1>2. Move(k)
  BY Moves DEF Moved
<1>3. CASE ~Forgotten(k)
  <2>1. Same(k) \/ Leased(k) \/ Answered(k) \/ TimedOut(k) \/ Tried(k)
    BY <1>2, <1>3 DEF Move, Enqueued, Present
  <2>2. CASE Same(k)
    BY <2>2 DEF Same, Present
  <2>3. CASE Leased(k)
    <3>1. PICK o \in WorkerId : jobs'[k] = HandedOut(jobs[k], o)
      BY <2>3 DEF Leased
    <3>2. jobs[k].attempts < MaxAttempts
      BY <2>3 DEF Leased, IInv, Attempts
    <3> QED BY <1>1, <3>1, <3>2, HandedOutType, JobFacts DEF Present
  <2>4. CASE Answered(k)
    <3>1. jobs'[k] = Turned(jobs[k], "succeeded", FALSE) /\ "succeeded" \in Status
      BY <2>4 DEF Answered, Status
    <3>2. jobs'[k] \in Job
      BY <1>1, <3>1 DEF Turned, Job
    <3> QED BY <3>2, JobFacts DEF Present
  <2>5. CASE TimedOut(k)
    <3>1. jobs'[k] \in Job
      BY <1>1, <2>5 DEF TimedOut, Job
    <3> QED BY <3>1, JobFacts DEF Present
  <2>6. CASE Tried(k)
    <3>1. PICK due \in BOOLEAN : jobs'[k] = Retried(jobs[k], due)
      BY <2>6 DEF Tried
    <3> QED BY <1>1, <3>1, RetriedType, JobFacts DEF Present
  <2> QED BY <2>1, <2>2, <2>3, <2>4, <2>5, <2>6
<1>4. CASE Forgotten(k)
  <2>1. PICK s \in Session : Purge(s)
    BY <1>4 DEF Forgotten
  <2> QED BY <1>1, <1>4, <2>1 DEF Purge, Forgotten, Present
<1> QED BY <1>3, <1>4

LEMMA CapturedKept == ASSUME IInv, NInv, [Next]_vars PROVE Captured'
<1>1. formed' \subseteq once'
  BY FormedKept
<1>2. ASSUME NEW e \in evidence PROVE e \in evidence' => e \in identity'
  <2>1. e \in identity
    BY DEF NInv, Captured
  <2>2. CASE UNCHANGED <<evidence, identity>>
    BY <2>1, <2>2
  <2>3. CASE ~UNCHANGED <<evidence, identity>>
    <3>1. CASE \E w \in Worker : Call(w) \/ Continue(w) \/ FormationFails(w) \/ Crash(w)
      BY <2>3, <3>1, WorkerRows
    <3>2. CASE ~\E w \in Worker : Call(w) \/ Continue(w) \/ FormationFails(w) \/ Crash(w)
      BY <2>1, <3>2 DEF Next, vars, store, Retention, Collect, CollectCandidate, Capture,
         Purge, TimePasses
    <3> QED BY <3>1, <3>2
  <2> QED BY <2>2, <2>3
<1>3. ASSUME NEW e \in evidence', e \notin evidence
      PROVE  /\ e \in identity'
             /\ \E k \in Key : CaptureJob(k) /\ e \in k.of /\ Present(k)'
  <2>1. PICK s \in Session, E \in SUBSET Event : Capture(s, E)
    <3>1. CASE \E w \in Worker : Call(w) \/ Continue(w) \/ FormationFails(w) \/ Crash(w)
      BY <1>3, <3>1, WorkerRows
    <3>2. CASE ~\E w \in Worker : Call(w) \/ Continue(w) \/ FormationFails(w) \/ Crash(w)
      BY <1>3, <3>2 DEF Next, vars, store, Retention, Collect, CollectCandidate, Purge,
         TimePasses
    <3> QED BY <3>1, <3>2
  <2>2. e \in E /\ e \in identity'
    BY <1>3, <2>1 DEF Capture
  <2> DEFINE k == [from |-> "capture", of |-> E]
  <2>3. k \in Key /\ CaptureJob(k) /\ k.of = E
    BY DEF Key, CaptureJob
  <2>4. PICK n \in Line : jobs' = Inserted(k, s, n)
    BY <2>1 DEF Capture
  <2> HIDE DEF k
  <2>5. jobs'[k] # None
    BY <2>3, <2>4, NewJobType, JobFacts DEF Inserted, IInv, TypeOK
  <2> QED BY <2>2, <2>3, <2>5 DEF Present
<1>4. evidence' \subseteq identity'
  BY <1>2, <1>3
<1>5. ASSUME NEW e \in evidence' \ Legacy
      PROVE  \E k \in Key : CaptureJob(k) /\ e \in k.of /\ Present(k)'
  <2>1. CASE e \in evidence
    <3>1. PICK k \in Key : CaptureJob(k) /\ e \in k.of /\ Present(k)
      BY <2>1 DEF NInv, Captured
    <3> QED BY <3>1, JobStays
  <2> QED BY <1>3, <2>1
<1> QED BY <1>1, <1>4, <1>5 DEF Captured, CaptureJob

LEMMA NInvariance == Spec => [](IInv /\ NInv)
<1>1. Init => NInv
  <2> SUFFICES ASSUME Init PROVE NInv
    OBVIOUS
  <2>1. CaptureJobs /\ Captured
    BY DEF Init, CaptureJobs, Captured, Present
  <2>2. \A w \in Worker : pc[w] = "idle" /\ loc[w] = NoLoc
    BY DEF Init
  <2>3. Hand(NoLoc) = {}
    BY NoLocType DEF Hand
  <2>4. Working
    BY <2>2, <2>3 DEF Working, Sound
  <2> QED BY <2>1, <2>4 DEF NInv
<1>2. IInv /\ NInv /\ [Next]_vars => NInv'
  BY WorkingKept, CaptureJobsKept, CapturedKept DEF NInv
<1> QED BY <1>1, <1>2, Invariance, PTL DEF Spec

\* Evidence captured with a job and never distilled still has a job that covers it and
\* did not report success, whatever crashes, late answers, manual runs and purges do.
THEOREM NothingIsLost == Spec => []NothingLost
<1>1. IInv /\ NInv => NothingLost
  <2> SUFFICES ASSUME IInv, NInv, NEW e \in evidence \ (once \cup Legacy)
               PROVE  \E k \in Key : Covers(k, e) /\ jobs[k].status # "succeeded"
    BY DEF NothingLost
  <2>1. PICK k \in Key : CaptureJob(k) /\ e \in k.of /\ Present(k)
    BY DEF NInv, Captured
  <2>2. Bound(k, jobs[k].session, jobs[k].through) /\ (jobs[k].status = "succeeded" => Done(k))
    BY <2>1 DEF NInv, CaptureJobs
  <2> QED BY <2>1, <2>2 DEF Covers, Bound, Done
<1> QED BY <1>1, NInvariance, PTL

-----------------------------------------------------------------------------
(* What is deleted stays away.                                             *)

\* A purge leaves nothing, its barrier keeps new evidence out, and a candidate is saved only
\* with its evidence.
LEMMA NothingResurrectedStep ==
    ASSUME NothingResurrected, [Next]_vars PROVE NothingResurrected'
<1> USE DEF NothingResurrected, store, counters
<1>1. CASE UNCHANGED <<evidence, formed, barred>>
  BY <1>1
<1>2. ASSUME NEW s \in Session, NEW E \in SUBSET Event, Capture(s, E) PROVE NothingResurrected'
  BY <1>2 DEF Capture
<1>3. CASE Retention
  BY <1>3 DEF Retention, Collect, CollectCandidate, Purge
<1>4. ASSUME NEW w \in Worker, Save(w) \/ SaveByHand(w) PROVE NothingResurrected'
  <2>1. /\ UNCHANGED <<evidence, barred>>
        /\ formed' = formed \/ (Savable(w) /\ formed' = formed \cup New(w))
    BY <1>4 DEF Save, SaveByHand
  <2> QED BY <2>1 DEF Savable
<1>5. ASSUME NEW w \in Worker, Call(w) \/ FormationFails(w) \/ Crash(w)
      PROVE  UNCHANGED <<evidence, formed, barred>>
  BY <1>5 DEF Call, Begin, ByHand, Backfill, FormationFails, Crash
<1>6. ASSUME NEW w \in Worker, Continue(w)
      PROVE  Save(w) \/ SaveByHand(w) \/ UNCHANGED <<evidence, formed, barred>>
  BY <1>6 DEF Continue, Recover, Lease, Complete, Fail, Pick, ReadKnown, WorkDone, ReadByHand,
              BackfillActive, BackfillMissing, BackfillEnqueue, BackfillDone
<1>7. CASE UNCHANGED vars \/ \E k \in Key : TimePasses(k)
  BY <1>1, <1>7 DEF vars, TimePasses
<1> QED BY <1>1, <1>2, <1>3, <1>4, <1>5, <1>6, <1>7 DEF Next

\* A candidate always has its evidence, and nothing of a purged session is stored again,
\* whichever formers still hold rows they read before the purge.
THEOREM NothingComesBack == Spec => []NothingResurrected
<1>1. Init => NothingResurrected
  BY DEF Init, NothingResurrected
<1> QED BY <1>1, NothingResurrectedStep, PTL DEF Spec

-----------------------------------------------------------------------------
(* A late answer does not reach a later lease.  What a process has in hand *)
(* was handed out by the lease it took, and only its identity renews that  *)
(* lease: if no other process has the identity, the attempts agree.        *)

\* The items a dispatcher has in hand.
Held(l) == {i \in l.todo \cup {l.item} : i # None /\ ~l.byHand}

\* A process that has not leased yet has none, and one that answers is a dispatcher.
Placed(p, l) ==
    /\ p \in {"idle", "recover", "lease"} => l.item = None
    /\ p \in {"complete", "fail"} => ~l.byHand

\* The lease of an item, if its owner still holds one, is the one that was handed out.
Tries(w) ==
    \A i \in Held(loc[w]) : i.key \in Key =>
        (Is(i.key, "leased") /\ jobs[i.key].owner = OwnerOf[w]
           => jobs[i.key].attempts = i.attempts)

HandsInv ==
    \A w \in Worker : Placed(pc[w], loc[w]) /\ (Sole(w) => Tries(w))

\* A step of a process: where it goes, and what it has in hand there.
Goes(w, p, l) ==
    /\ pc' = [pc EXCEPT ![w] = p] /\ loc' = [loc EXCEPT ![w] = l] /\ Placed(p, l)
    /\ Lease(w) \/ Held(l) \subseteq Held(loc[w])

\* A process that returns has nothing in hand.
LEMMA ReturnGoes ==
    ASSUME NEW w \in Worker, Return(w) PROVE \E p, l : Goes(w, p, l)
<1>1. Goes(w, "idle", NoLoc)
  BY NoLocType DEF Return, Goto, Goes, Placed, Held
<1> QED BY <1>1

\* A dispatcher that turns to its next job has the rest of them in hand.
LEMMA NextItemGoes ==
    ASSUME IInv, NEW w \in Worker, NextItem(w) PROVE \E p, l : Goes(w, p, l)
<1>1. PICK l : l = [loc[w] EXCEPT !.item = None, !.rows = {}, !.known = {}]
  OBVIOUS
<1>2. /\ loc' = [loc EXCEPT ![w] = l] /\ l.todo = loc[w].todo /\ l.item = None
      /\ l.byHand = loc[w].byHand
  BY <1>1, LocFacts DEF NextItem, Loc
<1>3. Goes(w, "work", l)
  BY <1>2 DEF NextItem, Goto, Goes, Placed, Held
<1> QED BY <1>3

\* A step that keeps what the process has in hand.
LEMMA SameGoes ==
    ASSUME NEW w \in Worker, NEW p, NEW l, Goto(w, p), loc' = [loc EXCEPT ![w] = l],
           l.todo = loc[w].todo, l.item = loc[w].item, l.byHand = loc[w].byHand,
           p \in {"idle", "recover", "lease"} => loc[w].item = None,
           p \in {"complete", "fail"} => ~loc[w].byHand
    PROVE  \E q, m : Goes(w, q, m)
<1>1. Goes(w, p, l)
  BY DEF Goto, Goes, Placed, Held
<1> QED BY <1>1

\* The calls take nothing in hand but what is done by hand.
LEMMA CallGoes ==
    ASSUME IInv, HandsInv, NEW w \in Worker, Call(w) PROVE \E p, l : Goes(w, p, l)
<1>a. pc[w] = "idle" /\ loc[w].item = None
  BY DEF Call, Begin, ByHand, Backfill, HandsInv, Placed
<1>1. CASE Begin(w)
  <2>1. PICK l : l = [loc[w] EXCEPT !.due = {k \in Key : Present(k) /\ jobs[k].due}]
    OBVIOUS
  <2>2. /\ loc' = [loc EXCEPT ![w] = l] /\ l.todo = loc[w].todo /\ l.item = loc[w].item
        /\ l.byHand = loc[w].byHand
    BY <1>1, <2>1, LocFacts DEF Begin, Loc
  <2> QED BY <1>a, <1>1, <2>2, SameGoes DEF Begin
<1>2. ASSUME NEW s \in Session, ByHand(w, s) PROVE \E p, l : Goes(w, p, l)
  <2>1. PICK i : loc' = [loc EXCEPT ![w].byHand = TRUE, ![w].item = i]
    BY <1>2 DEF ByHand
  <2>2. PICK l : l = [loc[w] EXCEPT !.byHand = TRUE, !.item = i]
    OBVIOUS
  <2>3. loc' = [loc EXCEPT ![w] = l] /\ l.byHand
    BY <2>1, <2>2, LocFacts DEF Loc
  <2>4. Goes(w, "byhand", l)
    BY <1>2, <2>3 DEF ByHand, Goto, Goes, Placed, Held
  <2> QED BY <2>4
<1>3. ASSUME NEW S, Backfill(w, S) PROVE \E p, l : Goes(w, p, l)
  <2>1. PICK l : l = [loc[w] EXCEPT !.rows = {e \in evidence : SessionOf[e] \in S},
                                    !.left = {SessionOf[e] : e \in {e \in evidence : SessionOf[e] \in S}}]
    OBVIOUS
  <2>2. /\ loc' = [loc EXCEPT ![w] = l] /\ l.todo = loc[w].todo /\ l.item = loc[w].item
        /\ l.byHand = loc[w].byHand
    BY <1>3, <2>1, LocFacts DEF Backfill, Loc
  <2> QED BY <1>3, <2>2, SameGoes DEF Backfill
<1> QED BY <1>1, <1>2, <1>3 DEF Call

\* A dispatch leases, and then puts one item away after the other.
LEMMA DispatchGoes ==
    ASSUME IInv, HandsInv, NEW w \in Worker,
           \/ Recover(w) \/ Lease(w) \/ Pick(w) \/ ReadKnown(w)
           \/ Save(w) \/ Complete(w) \/ Fail(w) \/ WorkDone(w)
    PROVE  \E p, l : Goes(w, p, l)
<1>a. Placed(pc[w], loc[w])
  BY DEF HandsInv
<1>b. loc = [loc EXCEPT ![w] = loc[w]]
  BY LocFacts
<1>1. CASE Recover(w)
  BY <1>1, <1>a, <1>b, SameGoes DEF Recover, Placed
<1>2. CASE Lease(w)
  <2>1. PICK T : loc' = [loc EXCEPT ![w].due = {}, ![w].todo = T]
    BY <1>2 DEF Lease
  <2>2. PICK l : l = [loc[w] EXCEPT !.due = {}, !.todo = T]
    OBVIOUS
  <2>3. loc' = [loc EXCEPT ![w] = l] /\ l.item = loc[w].item
    BY <2>1, <2>2, LocFacts DEF Loc
  <2>4. Goes(w, "work", l)
    BY <1>2, <2>3 DEF Lease, Goto, Goes, Placed
  <2> QED BY <2>4
<1>3. CASE Pick(w)
  <2>1. PICK i \in loc[w].todo : loc' = [loc EXCEPT ![w].todo = @ \ {i}, ![w].item = i,
                           ![w].rows = RowsThrough(i.session, i.through)]
    BY <1>3 DEF Pick
  <2>2. PICK l : l = [loc[w] EXCEPT !.todo = loc[w].todo \ {i}, !.item = i,
                           !.rows = RowsThrough(i.session, i.through)]
    OBVIOUS
  <2>3. /\ loc' = [loc EXCEPT ![w] = l] /\ l.item = i /\ l.todo = loc[w].todo \ {i}
        /\ l.byHand = loc[w].byHand
    BY <2>1, <2>2, LocFacts DEF Loc
  <2>4. Goes(w, "known", l)
    BY <1>3, <2>3 DEF Pick, Goto, Goes, Placed, Held
  <2> QED BY <2>4
<1>4. CASE ReadKnown(w)
  <2>1. PICK l : l = [loc[w] EXCEPT !.known = formed]
    OBVIOUS
  <2>2. /\ loc' = [loc EXCEPT ![w] = l] /\ l.todo = loc[w].todo /\ l.item = loc[w].item
        /\ l.byHand = loc[w].byHand
    BY <1>4, <2>1, LocFacts DEF ReadKnown, Loc
  <2> QED BY <1>4, <2>2, SameGoes DEF ReadKnown
<1>5. CASE Save(w)
  <2>1. UNCHANGED loc /\ (Goto(w, "complete") \/ Goto(w, "fail"))
    BY <1>5 DEF Save
  <2>2. ~loc[w].byHand
    BY <1>5 DEF Save
  <2> QED BY <2>1, <2>2, <1>b, SameGoes
<1>6. CASE Complete(w)
  <2>1. NextItem(w) \/ (UNCHANGED loc /\ Goto(w, "fail"))
    BY <1>6 DEF Complete
  <2>2. ~loc[w].byHand
    BY <1>6, <1>a DEF Complete, Placed
  <2> QED BY <2>1, <2>2, <1>b, SameGoes, NextItemGoes
<1>7. CASE Fail(w) \/ WorkDone(w)
  BY <1>7, NextItemGoes, ReturnGoes DEF Fail, WorkDone
<1> QED BY <1>1, <1>2, <1>3, <1>4, <1>5, <1>6, <1>7

\* The steps of manual runs and of the backfill, and failures.
LEMMA OthersGo ==
    ASSUME IInv, HandsInv, NEW w \in Worker,
           \/ ReadByHand(w) \/ SaveByHand(w)
           \/ BackfillActive(w) \/ BackfillMissing(w) \/ BackfillEnqueue(w) \/ BackfillDone(w)
           \/ FormationFails(w) \/ Crash(w)
    PROVE  \E p, l : Goes(w, p, l)
<1>b. loc = [loc EXCEPT ![w] = loc[w]]
  BY LocFacts
<1>1. CASE ReadByHand(w)
  <2>1. PICK l : l = [loc[w] EXCEPT !.rows = RowsThrough(loc[w].item.session, loc[w].item.through)]
    OBVIOUS
  <2>2. /\ loc' = [loc EXCEPT ![w] = l] /\ l.todo = loc[w].todo /\ l.item = loc[w].item
        /\ l.byHand = loc[w].byHand
    BY <1>1, <2>1, LocFacts DEF ReadByHand, Loc
  <2> QED BY <1>1, <2>2, SameGoes DEF ReadByHand
<1>2. CASE SaveByHand(w) \/ BackfillDone(w) \/ Crash(w)
  BY <1>2, ReturnGoes DEF SaveByHand, BackfillDone, Crash
<1>3. CASE BackfillActive(w)
  <2>1. PICK L : L = {s \in loc[w].left : \A k \in Key : Is(k, "pending") \/ Is(k, "leased")
                                                => jobs[k].session # s}
    OBVIOUS
  <2>2. PICK l : l = [loc[w] EXCEPT !.left = L]
    OBVIOUS
  <2>3. /\ loc' = [loc EXCEPT ![w] = l] /\ l.todo = loc[w].todo /\ l.item = loc[w].item
        /\ l.byHand = loc[w].byHand
    BY <1>3, <2>1, <2>2, LocFacts DEF BackfillActive, Loc
  <2> QED BY <1>3, <2>3, SameGoes DEF BackfillActive
<1>4. CASE BackfillMissing(w)
  <2>1. PICK s, M : /\ loc' = [loc EXCEPT ![w].left = @ \ {s}, ![w].known = M]
                    /\ Goto(w, IF M = {} THEN "missing" ELSE "enqueue")
    BY <1>4 DEF BackfillMissing
  <2>2. PICK l : l = [loc[w] EXCEPT !.left = loc[w].left \ {s}, !.known = M]
    OBVIOUS
  <2>3. /\ loc' = [loc EXCEPT ![w] = l] /\ l.todo = loc[w].todo /\ l.item = loc[w].item
        /\ l.byHand = loc[w].byHand
    BY <2>1, <2>2, LocFacts DEF Loc
  <2>4. Goto(w, "missing") \/ Goto(w, "enqueue")
    BY <2>1
  <2> QED BY <2>3, <2>4, SameGoes
<1>5. CASE BackfillEnqueue(w)
  <2>1. PICK l : l = [loc[w] EXCEPT !.known = {}]
    OBVIOUS
  <2>2. /\ loc' = [loc EXCEPT ![w] = l] /\ l.todo = loc[w].todo /\ l.item = loc[w].item
        /\ l.byHand = loc[w].byHand
    BY <1>5, <2>1, LocFacts DEF BackfillEnqueue, Loc
  <2> QED BY <1>5, <2>2, SameGoes DEF BackfillEnqueue
<1>6. CASE FormationFails(w)
  <2>1. UNCHANGED loc /\ Goto(w, "fail") /\ ~loc[w].byHand
    BY <1>6 DEF FormationFails, store
  <2> QED BY <2>1, <1>b, SameGoes
<1> QED BY <1>1, <1>2, <1>3, <1>4, <1>5, <1>6

\* Whoever moves, every process keeps what it has in hand, or leases.
LEMMA HandsGo ==
    ASSUME IInv, HandsInv, [Next]_vars, NEW w \in Worker
    PROVE  /\ Placed(pc[w], loc[w])'
           /\ Lease(w) \/ Held(loc[w])' \subseteq Held(loc[w])
<1>1. CASE UNCHANGED <<pc, loc>>
  BY <1>1 DEF HandsInv, Placed, Held
<1>2. ASSUME NEW v \in Worker, Call(v) \/ Continue(v) \/ FormationFails(v) \/ Crash(v)
      PROVE  /\ Placed(pc[w], loc[w])'
             /\ Lease(w) \/ Held(loc[w])' \subseteq Held(loc[w])
  <2>1. PICK p, l : Goes(v, p, l)
    BY <1>2, CallGoes, DispatchGoes, OthersGo DEF Continue
  <2>2. CASE v = w
    <3>1. pc'[w] = p /\ loc'[w] = l
      BY <2>1, <2>2, LocFacts DEF Goes
    <3> QED BY <2>1, <2>2, <3>1 DEF Goes, Placed, Held
  <2>3. CASE v # w
    <3>1. pc'[w] = pc[w] /\ loc'[w] = loc[w]
      BY <2>1, <2>3, LocFacts DEF Goes
    <3> QED BY <3>1 DEF HandsInv, Placed, Held
  <2> QED BY <2>2, <2>3
<1>3. \/ UNCHANGED <<pc, loc>>
      \/ \E v \in Worker : Call(v) \/ Continue(v) \/ FormationFails(v) \/ Crash(v)
  BY DEF Next, vars, store, Capture, Retention, Collect, CollectCandidate, Purge, TimePasses
<1> QED BY <1>1, <1>2, <1>3

\* A lease that is held after a step was held before it, by the same owner and at the same
\* attempt, or was just taken.
LEMMA LeaseIsOld ==
    ASSUME IInv, [Next]_vars, NEW k \in Key, Is(k, "leased")'
    PROVE  \/ /\ Is(k, "leased") /\ jobs'[k].owner = jobs[k].owner
              /\ jobs'[k].attempts = jobs[k].attempts
           \/ \E w \in Worker : Lease(w) /\ jobs'[k].owner = OwnerOf[w]
<1>1. Move(k) /\ jobs'[k] # None /\ jobs'[k].status = "leased"
  BY Moves DEF Moved, Is, Present
<1>2. Present(k) => jobs[k] \in Job
  BY DEF Present, IInv, TypeOK
<1>3. CASE Same(k)
  BY <1>1, <1>3 DEF Same, Is, Present
<1>4. CASE Leased(k)
  <2>1. PICK w \in Worker, o \in WorkerId :
          Lease(w) /\ o = OwnerOf[w] /\ jobs'[k] = HandedOut(jobs[k], o)
    BY <1>4 DEF Leased
  <2>2. jobs'[k].owner = o
    <3>1. jobs[k] \in Job /\ jobs[k].attempts < MaxAttempts
      BY <1>2, <1>4 DEF Leased, Is, IInv, Attempts
    <3> QED BY <2>1, <3>1, HandedOutType
  <2> QED BY <2>1, <2>2
<1>5. CASE TimedOut(k)
  BY <1>1, <1>2, <1>5 DEF TimedOut, Is, Job
<1>6. ~Enqueued(k) /\ ~Forgotten(k)
  <2>1. \A s, n : NewJob(s, n).status = "pending"
    BY DEF NewJob
  <2> QED BY <1>1, <2>1 DEF Enqueued, Forgotten
<1>7. ~Answered(k)
  BY <1>1, <1>2, TurnedType DEF Answered, Is, Status
<1>8. ~Tried(k)
  BY <1>1, <1>2, RetriedType DEF Tried, Is
<1> QED BY <1>1, <1>3, <1>4, <1>5, <1>6, <1>7, <1>8 DEF Move

\* What a process leases is what its jobs say.
LEMMA LeasingTries ==
    ASSUME IInv, HandsInv, NEW w \in Worker, Lease(w) PROVE Tries(w)'
<1>1. PICK K \in SUBSET Ready(w) :
        /\ jobs' = [k \in Key |-> IF k \notin K THEN jobs[k] ELSE HandedOut(jobs[k], OwnerOf[w])]
        /\ loc' = [loc EXCEPT ![w].due = {}, ![w].todo =
                       {[key |-> k, session |-> jobs[k].session, through |-> jobs[k].through,
                         attempts |-> jobs[k].attempts + 1] : k \in K}]
  BY DEF Lease, HandedOut
<1>2. loc[w].item = None
  BY DEF HandsInv, Placed, Lease
<1>3. PICK T : T = {[key |-> k, session |-> jobs[k].session, through |-> jobs[k].through,
                     attempts |-> jobs[k].attempts + 1] : k \in K}
  OBVIOUS
<1>4. loc'[w].todo = T /\ loc'[w].item = None
  BY <1>1, <1>2, <1>3, LocFacts DEF Loc
<1>5. ASSUME NEW i \in T PROVE jobs'[i.key].attempts = i.attempts
  <2>1. PICK k \in K : i = [key |-> k, session |-> jobs[k].session,
                            through |-> jobs[k].through, attempts |-> jobs[k].attempts + 1]
    BY <1>3
  <2>2. k \in Key /\ jobs[k] \in Job /\ jobs[k].attempts < MaxAttempts
    BY DEF Ready, IInv, TypeOK, Loc, Attempts, Is, Present
  <2>3. jobs'[k] = HandedOut(jobs[k], OwnerOf[w]) /\ OwnerOf[w] \in WorkerId
    BY <1>1, <2>2, WorkerAssumption
  <2> QED BY <2>1, <2>2, <2>3, HandedOutType
<1> QED BY <1>4, <1>5 DEF Tries, Held

\* The invariant is inductive.
LEMMA HandsStep == ASSUME IInv, HandsInv, [Next]_vars PROVE HandsInv'
<1> SUFFICES ASSUME NEW w \in Worker PROVE Placed(pc[w], loc[w])' /\ (Sole(w) => Tries(w)')
  BY DEF HandsInv, Sole
<1>1. Placed(pc[w], loc[w])'
  BY HandsGo
<1>2. CASE Lease(w)
  BY <1>1, <1>2, LeasingTries
<1>3. ASSUME ~Lease(w), Sole(w), NEW i \in Held(loc[w])', i.key \in Key,
             Is(i.key, "leased")', jobs'[i.key].owner = OwnerOf[w]
      PROVE  jobs'[i.key].attempts = i.attempts
  <2>1. i \in Held(loc[w])
    BY <1>3, HandsGo
  <2>2. ~\E v \in Worker : Lease(v) /\ jobs'[i.key].owner = OwnerOf[v]
    BY <1>3 DEF Sole
  <2>3. PICK k \in Key : k = i.key
    BY <1>3
  <2>4. /\ Is(k, "leased") /\ jobs'[k].owner = jobs[k].owner
        /\ jobs'[k].attempts = jobs[k].attempts
    BY <1>3, <2>2, <2>3, LeaseIsOld
  <2> QED BY <1>3, <2>1, <2>3, <2>4 DEF HandsInv, Tries
<1> QED BY <1>1, <1>2, <1>3 DEF Tries

\* The answer of a process that shares its identity with no other is about its own lease.
LEMMA AnswerIsFenced ==
    ASSUME IInv, HandsInv, [Next]_vars, NEW w \in Worker, Sole(w),
           pc[w] \in {"complete", "fail"}, pc'[w] = "work", NEW k \in Key, Ended(k)
    PROVE  jobs[k].attempts = loc[w].item.attempts
<1>1. (Complete(w) \/ Fail(w)) /\ Holds(w)
  <2>1. ASSUME NEW v \in Worker, Call(v) \/ Continue(v) \/ FormationFails(v) \/ Crash(v)
        PROVE  v = w
    <3>1. PICK p, l : Goes(v, p, l)
      BY <2>1, CallGoes, DispatchGoes, OthersGo DEF Continue
    <3> QED BY <3>1, LocFacts DEF Goes
  <2>2. Call(w) \/ Continue(w) \/ FormationFails(w) \/ Crash(w)
    <3>1. pc' # pc
      OBVIOUS
    <3> QED BY <2>1, <3>1 DEF Next, vars, Capture, Retention, Collect, CollectCandidate, Purge,
                              TimePasses
  <2>3. pc'[w] \notin {"idle", "fail"}
    OBVIOUS
  <2> QED BY <2>2, <2>3, LocFacts
          DEF Call, Begin, ByHand, Backfill, Continue, Recover, Lease, Pick, ReadKnown, Save,
              WorkDone, ReadByHand, SaveByHand, BackfillActive, BackfillMissing,
              BackfillEnqueue, BackfillDone, FormationFails, Crash, Complete, Fail, Return, Goto
<1>2. PICK j \in Key : j = loc[w].item.key
  BY LocFacts DEF Dispatching
<1>3. \A i \in Key : i # j => jobs'[i] = jobs[i]
  BY <1>1, <1>2 DEF Complete, Fail, IInv, TypeOK
<1>4. k = j
  BY <1>3 DEF Ended, Is
<1>5. loc[w].item \in Held(loc[w])
  <2>1. loc[w].item # None
    BY LocFacts, NoneAssumption
  <2>2. ~loc[w].byHand
    BY DEF HandsInv, Placed
  <2> QED BY <2>1, <2>2 DEF Held
<1> QED BY <1>1, <1>2, <1>4, <1>5 DEF Holds, HandsInv, Tries

\* It holds in every reachable state.
LEMMA HandsHold == Spec => [](IInv /\ HandsInv)
<1>1. Init => HandsInv
  BY NoLocType DEF Init, HandsInv, Placed, Held, Tries
<1>2. IInv /\ HandsInv /\ [Next]_vars => HandsInv'
  BY HandsStep
<1> QED BY <1>1, <1>2, Invariance, PTL DEF Spec

\* The answer of a process whose identity no other one shares ends the very lease it took,
\* never a later one, whoever recovers, leases or purges in between (complete_job, fail_job).
THEOREM AnswersAreFenced == Spec => Fenced
<1>1. IInv /\ HandsInv /\ [Next]_vars =>
        [\A w \in Worker :
          (Sole(w) /\ pc[w] \in {"complete", "fail"} /\ pc'[w] = "work")
             => \A k \in Key : Ended(k) => jobs[k].attempts = loc[w].item.attempts]_vars
  BY AnswerIsFenced
<1> QED BY <1>1, HandsHold, PTL DEF Spec, Fenced
=============================================================================
