---------------------------- MODULE DistillQueue ----------------------------
(***************************************************************************)
(* The durable distill queue of the runtime store: capture enqueues a job  *)
(* with the evidence it covers, hook and command line processes lease,     *)
(* form candidates, complete or fail (CandidateJobDispatcher), repair what *)
(* an older runtime missed (enqueue_missing), and may form candidates by   *)
(* hand; retention and purge delete under their feet.                      *)
(*                                                                         *)
(* Every store call is one SQLite transaction, hence one step; what a      *)
(* process read in one call and uses in a later one is in its locals.  A   *)
(* process that dies keeps its leases.  Time is abstracted to one fact per *)
(* job, due: the lease of a leased job, or the delay of a pending one, has *)
(* passed; a dispatch knows the jobs that were due at its time stamp,      *)
(* which it takes once and uses to its end.  All evidence is eligible and  *)
(* gives one candidate; relations between candidates only matter in that   *)
(* they make a batch fail when their target is gone.                       *)
(***************************************************************************)
EXTENDS Naturals, FiniteSets

CONSTANTS
    Worker,       \* processes that call the dispatcher or the former
    WorkerId,     \* lease identities
    OwnerOf,      \* the identity a process leases under: hooks of one kind in
                  \* one session share it
    Session,
    Event,        \* capture events
    SessionOf,    \* the session of an event
    LineOf,       \* its source line; two sources number their lines alike
    Legacy,       \* evidence an older runtime may have stored without a job
    MaxAttempts,  \* attempts of a job (3 in the code)
    Limit,        \* jobs one dispatch leases (4 in hooks, 16 in recover)
    MaxFaults,    \* bound on exceptions and crashes
    MaxCalls,     \* bound on manual runs, collections and purges
    None

ASSUME WorkerAssumption == OwnerOf \in [Worker -> WorkerId]

ASSUME EventAssumption ==
    /\ SessionOf \in [Event -> Session] /\ LineOf \in [Event -> Nat \ {0}]
    /\ Legacy \subseteq Event /\ IsFiniteSet(Event)

ASSUME LimitAssumption ==
    /\ MaxAttempts \in Nat \ {0} /\ Limit \in Nat \ {0}
    /\ MaxFaults \in Nat /\ MaxCalls \in Nat

\* Idempotency keys: a capture job is named after the evidence it came with, a
\* backfill job after the evidence that was missing.
Key == [from : {"capture", "backfill"}, of : SUBSET Event]

Status == {"pending", "leased", "succeeded", "dead"}

Line == {LineOf[e] : e \in Event}

Job == [session : Session, through : Line, status : Status,
        attempts : 0 .. MaxAttempts, owner : WorkerId \cup {None}, due : BOOLEAN]

\* A leased job as the dispatcher got it (key None: work without a job).
Item == [key : Key \cup {None}, session : Session, through : Line,
         attempts : 0 .. MaxAttempts]

ASSUME NoneAssumption == None \notin Key \cup Job \cup Item \cup WorkerId

VARIABLES
    evidence,   \* evidence rows
    identity,   \* capture identities that block a replay
    formed,     \* evidence that has its candidate
    jobs,       \* idempotency key -> job
    letters,    \* dead letters: <<job, attempt>>
    barred,     \* sessions with a deletion barrier
    pc, loc,    \* where each process is, and its locals
    faults, calls,   \* counters for the bounds
    once        \* history: evidence that had a candidate at some time

store == <<evidence, identity, formed, jobs, letters, barred>>
counters == <<faults, calls>>
vars == <<store, pc, loc, counters, once>>

PC == {"idle", "recover", "lease", "work", "byhand", "known", "save", "complete",
       "fail", "jobs", "missing", "enqueue"}

NoLoc == [due |-> {}, todo |-> {}, item |-> None, rows |-> {}, known |-> {},
          byHand |-> FALSE, left |-> {}]

Loc == [due : SUBSET Key, todo : SUBSET Item, item : Item \cup {None},
        rows : SUBSET Event, known : SUBSET Event, byHand : BOOLEAN,
        left : SUBSET Session]

Present(k) == jobs[k] # None
Is(k, status) == Present(k) /\ jobs[k].status = status

\* Mutant: the checkpoint of a batch is its first line.
Oldest(E, n) == /\ \E e \in E : LineOf[e] = n
                /\ \A e \in E : LineOf[e] >= n

\* The checkpoint of a batch is its last line.
Newest(E, n) == /\ \E e \in E : LineOf[e] = n
                /\ \A e \in E : LineOf[e] <= n

RowsThrough(s, n) == {e \in evidence : SessionOf[e] = s /\ LineOf[e] <= n}

Goto(w, l) == pc' = [pc EXCEPT ![w] = l]
Return(w) == Goto(w, "idle") /\ loc' = [loc EXCEPT ![w] = NoLoc]

\* The columns every transition of a job writes.
Turned(job, status, due) ==
    [job EXCEPT !.status = status, !.owner = None, !.due = due]

NewJob(s, n) == [session |-> s, through |-> n, status |-> "pending",
                 attempts |-> 0, owner |-> None, due |-> TRUE]

\* INSERT OR IGNORE: a job of that name stays as it is, whatever its status.
Inserted(k, s, n) == [jobs EXCEPT ![k] = IF @ = None THEN NewJob(s, n) ELSE @]

Init ==
    /\ evidence \in SUBSET Legacy /\ identity = evidence
    /\ formed = {} /\ once = {}
    /\ jobs = [k \in Key |-> None] /\ letters = {} /\ barred = {}
    /\ pc = [w \in Worker |-> "idle"] /\ loc = [w \in Worker |-> NoLoc]
    /\ faults = 0 /\ calls = 0

-----------------------------------------------------------------------------
(* Capture, retention and purge: each one transaction of the store.        *)

Count == calls < MaxCalls /\ calls' = calls + 1 /\ UNCHANGED faults

\* Evidence and the job that will distill it come in together.
Capture(s, E) ==
    /\ s \notin barred /\ E # {}
    /\ \A e \in E : SessionOf[e] = s /\ e \notin identity
    /\ evidence' = evidence \cup E
    /\ identity' = identity \cup E
    /\ \E n \in Line :
        /\ Newest(E, n)
        /\ jobs' = Inserted([from |-> "capture", of |-> E], s, n)
    /\ UNCHANGED <<formed, letters, barred, pc, loc, counters, once>>

\* run_retention_gc: evidence past its lifetime goes with its candidate; a
\* candidate may be older than the capture of its evidence, and goes alone.
Collect(e) ==
    /\ e \in evidence
    /\ evidence' = evidence \ {e} /\ formed' = formed \ {e}
    /\ Count
    /\ UNCHANGED <<identity, jobs, letters, barred, pc, loc, once>>

CollectCandidate(e) ==
    /\ e \in formed /\ formed' = formed \ {e}
    /\ Count
    /\ UNCHANGED <<evidence, identity, jobs, letters, barred, pc, loc, once>>

\* purge_session, with the permanent barrier
Purge(s) ==
    LET Kept(E) == {e \in E : SessionOf[e] # s}
        Gone(k) == Present(k) /\ jobs[k].session = s
    IN /\ s \notin barred
       /\ evidence' = Kept(evidence) /\ identity' = Kept(identity)
       /\ formed' = Kept(formed)
       /\ jobs' = [k \in Key |-> IF Gone(k) THEN None ELSE jobs[k]]
       /\ letters' = {d \in letters : ~Gone(d[1])}
       /\ barred' = barred \cup {s}
       /\ Count
       /\ UNCHANGED <<pc, loc, once>>

-----------------------------------------------------------------------------
(* dispatch_pending                                                        *)

Begin(w) ==
    /\ pc[w] = "idle"
    /\ Goto(w, "recover")
    /\ loc' = [loc EXCEPT ![w].due = {k \in Key : Present(k) /\ jobs[k].due}]
    /\ UNCHANGED <<store, counters, once>>

\* Mutant: one attempt too many.
ExhaustedLate(job) == job.attempts > MaxAttempts

Exhausted(job) == job.attempts >= MaxAttempts

\* Mutant: a job dies without a dead letter.
BuryUnseen(K) == UNCHANGED letters

\* _insert_dead_letter for each job of K that has no attempt left
Bury(K) == letters' = letters \cup {<<k, jobs[k].attempts>> :
                                       k \in {x \in K : Exhausted(jobs[x])}}

\* A try is over: the job is given up or waits for the next one.
Retried(job, due) == IF Exhausted(job) THEN Turned(job, "dead", FALSE)
                                       ELSE Turned(job, "pending", due)

\* Mutant: every leased job is taken for abandoned.
AnyLeased(w) == {k \in Key : Is(k, "leased")}

\* Mutant: expired leases are not looked for.
NoneExpired(w) == {}

Expired(w) == {k \in loc[w].due : Is(k, "leased") /\ jobs[k].due}

\* recover_expired_jobs
Recover(w) ==
    /\ pc[w] = "recover"
    /\ jobs' = [k \in Key |-> IF k \in Expired(w) THEN Retried(jobs[k], TRUE)
                                                  ELSE jobs[k]]
    /\ Bury(Expired(w))
    /\ Goto(w, "lease")
    /\ UNCHANGED <<evidence, identity, formed, barred, loc, counters, once>>

Ready(w) == {k \in loc[w].due : Is(k, "pending") /\ jobs[k].due}

\* lease_jobs; which of the ready jobs come first is left open
Lease(w) ==
    /\ pc[w] = "lease"
    /\ \E K \in SUBSET Ready(w) :
        /\ Cardinality(K) <= Limit
        /\ K # Ready(w) => Cardinality(K) = Limit
        /\ jobs' = [k \in Key |->
                       IF k \notin K THEN jobs[k]
                       ELSE [jobs[k] EXCEPT !.status = "leased", !.attempts = @ + 1,
                                            !.owner = OwnerOf[w], !.due = FALSE]]
        /\ loc' = [loc EXCEPT ![w].due = {}, ![w].todo =
                       {[key |-> k, session |-> jobs[k].session,
                         through |-> jobs[k].through,
                         attempts |-> jobs[k].attempts + 1] : k \in K}]
    /\ Goto(w, "work")
    /\ UNCHANGED <<evidence, identity, formed, letters, barred, counters, once>>

\* form_candidates reads the evidence of the session up to the checkpoint
Pick(w) ==
    /\ pc[w] = "work"
    /\ \E i \in loc[w].todo :
        loc' = [loc EXCEPT ![w].todo = @ \ {i}, ![w].item = i,
                           ![w].rows = RowsThrough(i.session, i.through)]
    /\ Goto(w, "known")
    /\ UNCHANGED <<store, counters, once>>

\* and then the candidates there are.
ReadKnown(w) ==
    /\ pc[w] = "known"
    /\ loc' = [loc EXCEPT ![w].known = formed]
    /\ Goto(w, "save")
    /\ UNCHANGED <<store, counters, once>>

New(w) == loc[w].rows \ loc[w].known

\* Mutant: the store does not enforce the reference to the evidence.
SavableUnreferenced(w) == TRUE

\* A candidate of evidence that is gone violates its foreign key.
Savable(w) == New(w) \subseteq evidence

\* A relation to a candidate that is gone does, too; whether there is one
\* depends on the claims.
MayFail(w) == New(w) # {} /\ ~(loc[w].known \subseteq formed)

\* save_candidate_batch for a leased job
Save(w) ==
    /\ pc[w] = "save" /\ ~loc[w].byHand
    /\ \/ /\ Savable(w)
          /\ formed' = formed \cup New(w) /\ once' = once \cup New(w)
          /\ Goto(w, "complete")
       \/ /\ ~Savable(w) \/ MayFail(w)
          /\ UNCHANGED <<formed, once>>
          /\ Goto(w, "fail")
    /\ UNCHANGED <<evidence, identity, jobs, letters, barred, loc, counters>>

\* Mutant: any worker that knows the job answers for it.
HoldsAny(w) == Is(loc[w].item.key, "leased")

\* The lease check of complete_job and fail_job.
Holds(w) == LET k == loc[w].item.key
            IN Is(k, "leased") /\ jobs[k].owner = OwnerOf[w]

NextItem(w) == /\ Goto(w, "work")
               /\ loc' = [loc EXCEPT ![w].item = None, ![w].rows = {}, ![w].known = {}]

\* A completion that lost its lease raises LeaseConflict, which is a failure.
Complete(w) ==
    /\ pc[w] = "complete"
    /\ IF Holds(w)
       THEN /\ jobs' = [jobs EXCEPT ![loc[w].item.key] = Turned(@, "succeeded", FALSE)]
            /\ NextItem(w)
       ELSE Goto(w, "fail") /\ UNCHANGED <<jobs, loc>>
    /\ UNCHANGED <<evidence, identity, formed, letters, barred, counters, once>>

\* A failure that lost its lease ends the whole dispatch: the jobs that were
\* leased with it wait for their leases to expire.
Fail(w) ==
    /\ pc[w] = "fail"
    /\ IF Holds(w)
       THEN /\ jobs' = [jobs EXCEPT ![loc[w].item.key] = Retried(@, FALSE)]
            /\ Bury({loc[w].item.key})
            /\ NextItem(w)
       ELSE Return(w) /\ UNCHANGED <<jobs, letters>>
    /\ UNCHANGED <<evidence, identity, formed, barred, counters, once>>

WorkDone(w) ==
    /\ pc[w] = "work" /\ loc[w].todo = {}
    /\ Return(w)
    /\ UNCHANGED <<store, counters, once>>

-----------------------------------------------------------------------------
(* The distill command: form_candidates with acknowledge_pending.          *)

\* It looks for a pending job, due or not, whose checkpoint it will reach.
ByHand(w, s) ==
    LET P == {k \in Key : Is(k, "pending") /\ jobs[k].session = s}
        Through(k, n) == [loc EXCEPT ![w].byHand = TRUE, ![w].item =
                             [key |-> k, session |-> s, through |-> n, attempts |-> 0]]
    IN /\ pc[w] = "idle"
       /\ \/ \E k \in P : loc' = Through(k, jobs[k].through)
          \/ P = {} /\ \E n \in Line : (\A m \in Line : m <= n) /\ loc' = Through(None, n)
       /\ Goto(w, "byhand")
       /\ Count
       /\ UNCHANGED <<store, once>>

ReadByHand(w) ==
    /\ pc[w] = "byhand"
    /\ loc' = [loc EXCEPT ![w].rows = RowsThrough(loc[w].item.session, loc[w].item.through)]
    /\ Goto(w, "known")
    /\ UNCHANGED <<store, counters, once>>

\* Mutant: the job that was found is acknowledged whatever became of it.
AcknowledgeAny(k) == k # None => Present(k)

\* A job that was leased or finished in the meantime is not acknowledged.
Acknowledgeable(k) == k # None => Is(k, "pending")

\* save_candidate_batch with completed_job_id: candidates and acknowledgement
\* commit together or not at all.
SaveByHand(w) ==
    LET k == loc[w].item.key
    IN /\ pc[w] = "save" /\ loc[w].byHand
       /\ \/ /\ Savable(w) /\ Acknowledgeable(k)
             /\ formed' = formed \cup New(w) /\ once' = once \cup New(w)
             /\ jobs' = IF k = None THEN jobs
                        ELSE [jobs EXCEPT ![k] = Turned(@, "succeeded", FALSE)]
          \/ /\ ~Savable(w) \/ MayFail(w) \/ ~Acknowledgeable(k)
             /\ UNCHANGED <<formed, once, jobs>>
       /\ Return(w)
       /\ UNCHANGED <<evidence, identity, letters, barred, counters>>

-----------------------------------------------------------------------------
(* enqueue_missing: three reads, then one transaction per session.         *)

Backfill(w, S) ==
    LET rows == {e \in evidence : SessionOf[e] \in S}
    IN /\ pc[w] = "idle"
       /\ loc' = [loc EXCEPT ![w].rows = rows,
                             ![w].left = {SessionOf[e] : e \in rows}]
       /\ Goto(w, "jobs")
       /\ UNCHANGED <<store, counters, once>>

\* A session with a job that is pending or leased is left to it.
BackfillActive(w) ==
    /\ pc[w] = "jobs"
    /\ loc' = [loc EXCEPT ![w].left =
                  {s \in @ : \A k \in Key : Is(k, "pending") \/ Is(k, "leased")
                                                => jobs[k].session # s}]
    /\ Goto(w, "missing")
    /\ UNCHANGED <<store, counters, once>>

BackfillMissing(w) ==
    /\ pc[w] = "missing"
    /\ \E s \in loc[w].left :
        LET missing == {e \in loc[w].rows \ formed : SessionOf[e] = s}
        IN /\ loc' = [loc EXCEPT ![w].left = @ \ {s}, ![w].known = missing]
           /\ Goto(w, IF missing = {} THEN "missing" ELSE "enqueue")
    /\ UNCHANGED <<store, counters, once>>

BackfillKey(w) == [from |-> "backfill", of |-> loc[w].known]

BackfillEnqueue(w) ==
    /\ pc[w] = "enqueue"
    /\ \E s \in Session, n \in Line :
        /\ \A e \in loc[w].known : SessionOf[e] = s
        /\ Newest({e \in loc[w].rows : SessionOf[e] = s}, n)
        /\ jobs' = Inserted(BackfillKey(w), s, n)
    /\ Goto(w, "missing")
    /\ loc' = [loc EXCEPT ![w].known = {}]
    /\ UNCHANGED <<evidence, identity, formed, letters, barred, counters, once>>

BackfillDone(w) ==
    /\ pc[w] = "missing" /\ loc[w].left = {}
    /\ Return(w)
    /\ UNCHANGED <<store, counters, once>>

-----------------------------------------------------------------------------
(* Time and failures.                                                      *)

\* The lease of a leased job, or the delay of a pending one, runs out.
TimePasses(k) ==
    /\ Is(k, "leased") \/ Is(k, "pending")
    /\ ~jobs[k].due
    /\ jobs' = [jobs EXCEPT ![k].due = TRUE]
    /\ UNCHANGED <<evidence, identity, formed, letters, barred, pc, loc, counters, once>>

\* form_candidates raises: the dispatcher fails the job.
FormationFails(w) ==
    /\ pc[w] \in {"known", "save"} /\ ~loc[w].byHand /\ faults < MaxFaults
    /\ faults' = faults + 1
    /\ Goto(w, "fail")
    /\ UNCHANGED <<store, loc, calls, once>>

\* The process dies, or a call outside the dispatcher raises.
Crash(w) ==
    /\ pc[w] # "idle" /\ faults < MaxFaults
    /\ faults' = faults + 1
    /\ Return(w)
    /\ UNCHANGED <<store, calls, once>>

Continue(w) ==
    \/ Recover(w) \/ Lease(w) \/ Pick(w) \/ ReadKnown(w) \/ Save(w)
    \/ Complete(w) \/ Fail(w) \/ WorkDone(w)
    \/ ReadByHand(w) \/ SaveByHand(w)
    \/ BackfillActive(w) \/ BackfillMissing(w) \/ BackfillEnqueue(w) \/ BackfillDone(w)

Call(w) ==
    \/ Begin(w)
    \/ \E s \in Session : ByHand(w, s)
    \/ \E S \in {{s} : s \in Session} \cup {Session} : Backfill(w, S)

Retention == \/ \E e \in Event : Collect(e) \/ CollectCandidate(e)
             \/ \E s \in Session : Purge(s)

Next ==
    \/ \E w \in Worker : Call(w) \/ Continue(w) \/ FormationFails(w) \/ Crash(w)
    \/ \E s \in Session, E \in SUBSET Event : Capture(s, E)
    \/ Retention
    \/ \E k \in Key : TimePasses(k)

Spec == Init /\ [][Next]_vars

\* A call that began runs to its end or dies, time passes, and every session start
\* and every recover backfills and dispatches again (SF: a process also does other
\* things in between).
FairSpec ==
    /\ Spec
    /\ \A w \in Worker : WF_vars(Continue(w)) /\ SF_vars(Begin(w))
    /\ \A w \in Worker, s \in Session : SF_vars(Backfill(w, {s}))
    /\ \A k \in Key : WF_vars(TimePasses(k))

-----------------------------------------------------------------------------
(* Properties.                                                             *)

\* Every table and every local is of its declared shape; in particular no job is
\* handed out more often than its attempts allow.
TypeOK ==
    /\ evidence \subseteq Event /\ identity \subseteq Event
    /\ formed \subseteq Event /\ once \subseteq Event
    /\ jobs \in [Key -> Job \cup {None}]
    /\ letters \subseteq Key \X (0 .. MaxAttempts)
    /\ barred \subseteq Session
    /\ pc \in [Worker -> PC] /\ loc \in [Worker -> Loc]
    /\ faults \in Nat /\ calls \in Nat

Covers(k, e) == Present(k) /\ jobs[k].session = SessionOf[e] /\ LineOf[e] <= jobs[k].through

\* Captured evidence that never became a candidate still has a job that covers it
\* and did not report success: it is waiting, in work, or visibly dead.  No crash,
\* lost lease, manual run or late answer acknowledges work nobody did.
NothingLost ==
    \A e \in evidence \ (once \cup Legacy) :
        \E k \in Key : Covers(k, e) /\ jobs[k].status # "succeeded"

\* A job is dead exactly when it has its one dead letter, of its last attempt.
DeadLetters ==
    /\ \A k \in Key : Is(k, "dead") => <<k, MaxAttempts>> \in letters
    /\ \A d \in letters : Is(d[1], "dead") /\ d[2] = MaxAttempts

\* A candidate always has its evidence, and nothing of a purged session is there
\* again, although formers still hold rows they read before the purge.
NothingResurrected ==
    /\ formed \subseteq evidence
    /\ \A e \in evidence : SessionOf[e] \notin barred

Ended(k) == Is(k, "leased") /\ jobs'[k] # None /\ jobs'[k].status # "leased"

\* A lease that has not run out is only ended by a process of its owner's
\* identity: no recovery takes it away early and no late answer of another.
LeaseHonoured ==
    [][\A k \in Key : Ended(k) /\ ~jobs[k].due =>
          \E w \in Worker : /\ pc[w] \in {"complete", "fail"} /\ pc'[w] = "work"
                            /\ loc[w].item.key = k /\ OwnerOf[w] = jobs[k].owner]_vars

Sole(w) == \A v \in Worker \ {w} : OwnerOf[v] # OwnerOf[w]

\* The answer of a process that shares its identity with no other ends the very
\* lease it took, not a later one.
Fenced ==
    [][\A w \in Worker :
          (Sole(w) /\ pc[w] \in {"complete", "fail"} /\ pc'[w] = "work")
             => \A k \in Key : Ended(k) => jobs[k].attempts = loc[w].item.attempts]_vars

\* Every job lives by its protocol.
Life(k) == INSTANCE JobLifecycle WITH
    state <- IF jobs[k] = None THEN "absent" ELSE jobs[k].status,
    tries <- IF jobs[k] = None THEN 0 ELSE jobs[k].attempts

\* The queue implements the life cycle of each of its jobs: whatever workers,
\* recoveries and manual runs race, attempts are bounded, a job dies only when
\* they are used up, and a job that succeeded or died stays so until it is purged.
ImplementsLifecycle ==
    /\ \A k \in Key : Life(k)!Init
    /\ [][\A k \in Key : [Life(k)!Next]_(Life(k)!vars)]_vars

\* Evidence, captured with a job or found by the backfill, is in the end formed,
\* given up with a dead job, or gone.
Settled(e) == \/ e \in once \/ e \notin evidence
              \/ \E k \in Key : Covers(k, e) /\ Is(k, "dead")

EventuallySettled == \A e \in Event : e \in evidence ~> Settled(e)

-----------------------------------------------------------------------------
(* What the code says of itself and does not do.                           *)

\* CandidateJobDispatcher.enqueue_missing: "Create durable repair work for evidence
\* missed by an older runtime."  After it, the missing evidence has a job that is
\* still to be done.
RepairWork ==
    [][\A w \in Worker : (pc[w] = "enqueue" /\ pc'[w] = "missing") =>
          /\ jobs'[BackfillKey(w)] # None
          /\ jobs'[BackfillKey(w)].status \in {"pending", "leased"}]_vars
=============================================================================
