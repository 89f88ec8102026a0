---------------------------- MODULE ControlPlane ----------------------------
(***************************************************************************)
(* The memory control plane: scripts/memory_control_plane/core.py, with    *)
(* the repository adapter (repository.py), the event chain (storage.py)    *)
(* and the gate and score rules (model.py) it calls.                       *)
(*                                                                         *)
(* Processes (CLI invocations and threads) run prepare, assess, authorize, *)
(* apply_workspace and recover against durable artifacts: one candidate    *)
(* ledger per content hash, approval receipts, application intents and     *)
(* workspace receipts.  Every mutation is made under the writer lock,      *)
(* which a crash releases.  A user edits and commits the same working tree *)
(* at any moment, without the lock.                                        *)
(*                                                                         *)
(* A step boundary is kept wherever a crash, an edit or another process    *)
(* can make a difference: between the unlocked observation of prepare and  *)
(* its locked write, between the approval artifact and the ledger link,    *)
(* and between the binding check, the intent, the intent event, the second *)
(* binding check, os.replace, the post-state check, the applied event and  *)
(* the receipt.  File modes, timestamps and wording are left out; a call   *)
(* that changes nothing (a refused authorize, a replayed apply) is a       *)
(* stuttering step.                                                        *)
(***************************************************************************)
EXTENDS Naturals, Sequences, FiniteSets

CONSTANTS
    Proc,       \* processes and threads that call the control plane
    Candidate,  \* names of candidate ledgers (bounds the distinct proposals)
    Payload,    \* proposals a caller may submit
    Evidence,   \* approval evidence: turn, actor, mode, exceptions, capability
    Report,     \* validator reports; two runs may differ (duration_ms)
    Path,       \* files under the allowed subtrees
    Bytes,      \* file contents
    Stamped,    \* tombstone draft with the approval id written into it
    Absent,     \* no file at that path
    None,       \* no such artifact
    Checkout,   \* committed trees the system may start from
    MaxOps,     \* bound on prepare, authorize and apply calls
    MaxEdits,   \* bound on user edits and commits
    MaxCrash    \* bound on crashes of a lock holder

Operation == {"add", "update", "no_op", "tombstone"}
Cite == [ref : Path, sha : Bytes]
File == Bytes \cup {Absent}
Tree == [Path -> File]

ASSUME PayloadAssumption ==
    Payload \subseteq [op : Operation, dest : Path, draft : Bytes,
                       cites : SUBSET Cite, window : {"always", "until", "from"}]

ASSUME StampedAssumption == Stamped \in [Bytes \X Evidence -> Bytes]

ASSUME CheckoutAssumption == Checkout \subseteq Tree

ASSUME BoundAssumption == MaxOps \in Nat /\ MaxEdits \in Nat /\ MaxCrash \in Nat

VARIABLES
    head,       \* base revision: number of commits
    index,      \* what git tracks, per path
    work,       \* the working tree, per path
    late,       \* has the clock passed the date the validity windows name
    name,       \* content hash -> identity: which identity a ledger name stands for
    ledger,     \* candidate ledgers
    approvals,  \* approval receipts, one per (candidate, evidence)
    intents,    \* application intents
    receipts,   \* workspace application receipts
    lock,       \* the holder of the writer lock
    pc,         \* where each process is
    loc,        \* the locals of its current call
    ops, edits, crashes,   \* counters for the bounds
    reached     \* history: has the post-state of the current intent existed

git == <<head, index, work, late>>
durable == <<name, ledger, approvals, intents, receipts>>
counters == <<ops, edits, crashes>>
vars == <<git, durable, lock, pc, loc, counters, reached>>

-----------------------------------------------------------------------------
(* The repository as the adapter sees it.                                  *)

Tracked(f) == index[f] # Absent
Untracked == {f \in Path : work[f] # Absent /\ ~Tracked(f)}

\* assert_publishable_authority_state
Publishable == Untracked = {}

\* tracked_workspace_digest: index entry and working-tree hash of tracked paths
TrackedTree == [f \in Path |-> IF Tracked(f) THEN work[f] ELSE Absent]

\* target_precondition: which operations it refuses outright
TargetAdmissible(op, f) ==
    /\ op = "update" => work[f] # Absent
    /\ op \in {"add", "tombstone"} => work[f] = Absent

\* _verify_source_refs: references whose bytes are still the cited ones
CitesHold(cites) == {s \in cites : work[s.ref] = s.sha}

\* the immutable identity whose digest names a candidate
IdentityOf(pl) ==
    [payload |-> pl, head |-> head, index |-> index, tracked |-> TrackedTree,
     cited |-> CitesHold(pl.cites), target |-> work[pl.dest]]

Identity == [payload : Payload, head : Nat, index : Tree, tracked : Tree,
             cited : SUBSET Cite, target : File]

Snapshot == [index : Tree, work : Tree]
Here == [index |-> index, work |-> work]

\* expected_post_workspace_digest refuses an untracked authority file, an add
\* whose target git tracks and an update whose target it does not
PostDefined(pl) ==
    /\ Publishable
    /\ pl.op \in {"add", "tombstone"} => ~Tracked(pl.dest)
    /\ pl.op = "update" => Tracked(pl.dest)

After(pl, e, before) ==
    CASE pl.op = "no_op"     -> before
      [] pl.op = "tombstone" -> Stamped[pl.draft, e]
      [] OTHER               -> pl.draft

\* _verify_repository_and_sources
RepositoryAndSourcesHold(id) ==
    /\ id.head = head
    /\ CitesHold(id.payload.cites) = id.payload.cites
    /\ id.cited = id.payload.cites

\* Mutant: the binding names the revision and the references, not the trees.
BindingOfRevision(id) ==
    /\ Publishable
    /\ RepositoryAndSourcesHold(id)
    /\ TargetAdmissible(id.payload.op, id.payload.dest)

\* _verify_current_binding
CurrentBinding(id) ==
    /\ Publishable
    /\ RepositoryAndSourcesHold(id)
    /\ TargetAdmissible(id.payload.op, id.payload.dest)
    /\ work[id.payload.dest] = id.target
    /\ index = id.index /\ TrackedTree = id.tracked

\* temporal_window_reasons at the current time
InWindow(pl) == /\ pl.window = "until" => ~late
                /\ pl.window = "from" => late

-----------------------------------------------------------------------------
(* Artifacts.                                                              *)

Verdict == {"pass", "consent", "hard", "unsafe"}
Disposition == {"quarantined", "needs_confirmation", "rejected", "approved"}
Assessment == {"none", "eligible", "conflict", "low"}
EventKind == {"screened", "gate_rejected", "assessed", "approved",
              "application_intent", "workspace_applied"}

Intent == [by : Evidence, before : File, after : File, post : Snapshot,
           report : Report]

\* The semantic body a receipt id is the digest of.
Body == [by : Evidence, post : Snapshot, report : Report, recovered : BOOLEAN]

Plain(kind) == [kind |-> kind, by |-> None, body |-> None]
By(kind, e) == [kind |-> kind, by |-> e, body |-> None]
Applied(b) == [kind |-> "workspace_applied", by |-> b.by, body |-> b]

Event == [kind : EventKind \ {"workspace_applied"}, by : Evidence \cup {None},
          body : {None}]
         \cup {Applied(b) : b \in Body}

Ledger == [disposition : Disposition, mayScore : BOOLEAN,
           reasons : SUBSET (Verdict \cup {"conflict", "low"}),
           assessment : Assessment,
           links : SUBSET Evidence, redacted : BOOLEAN, events : Seq(Event)]

BodyOf(i, rec) == [by |-> i.by, post |-> i.post, report |-> i.report,
                   recovered |-> rec]

EventsOf(l) == {l.events[i] : i \in DOMAIN l.events}

DispositionOf(v) ==
    CASE v = "pass"    -> "quarantined"
      [] v = "consent" -> "needs_confirmation"
      [] OTHER         -> "rejected"

Record(l, e) == [l EXCEPT !.events = Append(@, e)]

Approvable(l) == l.assessment = "eligible" /\ l.disposition # "rejected"

\* None is not a value of any kind it stands in for the absence of.
ASSUME NoneAssumption ==
    /\ None \notin Proc \cup Candidate \cup Evidence \cup Verdict
    /\ None \notin Identity /\ None \notin Ledger
    /\ None \notin Intent /\ None \notin Body
    /\ Absent \notin Bytes

-----------------------------------------------------------------------------
(* Processes.                                                              *)

PC == {"idle", "screened", "reconcile", "validate", "event", "rebind", "swap",
       "digest", "issue", "receipt", "recover"}

Loc == [id : Identity \cup {None}, verdict : Verdict \cup {None},
        cand : Candidate \cup {None}, ev : Evidence \cup {None},
        copy : Ledger \cup {None}, todo : SUBSET Candidate, recovering : BOOLEAN]

NoLoc == [id |-> None, verdict |-> None, cand |-> None, ev |-> None,
          copy |-> None, todo |-> {}, recovering |-> FALSE]

Goto(p, l) == pc' = [pc EXCEPT ![p] = l]

Return(p) == /\ Goto(p, "idle")
             /\ loc' = [loc EXCEPT ![p] = NoLoc]
             /\ lock' = IF lock = p THEN None ELSE lock

\* Mutant: mutations do not exclude each other.
AcquireAnyway(p) == lock' = p

\* writer_lock
Acquire(p) == lock = None /\ lock' = p

Init ==
    /\ head = 0 /\ late = FALSE
    /\ index \in Checkout /\ work = index
    /\ name = [c \in Candidate |-> None]
    /\ ledger = [c \in Candidate |-> None]
    /\ approvals = {}
    /\ intents = [c \in Candidate |-> None]
    /\ receipts = [c \in Candidate |-> None]
    /\ lock = None
    /\ pc = [p \in Proc |-> "idle"]
    /\ loc = [p \in Proc |-> NoLoc]
    /\ ops = 0 /\ edits = 0 /\ crashes = 0
    /\ reached = [c \in Candidate |-> FALSE]

\* History: since an intent was last written, has its post-state been the state
\* of the repository?
Observed ==
    reached' = [c \in Candidate |->
        /\ intents'[c] # None
        /\ \/ Here' = intents'[c].post
           \/ intents'[c] = intents[c] /\ reached[c]]

-----------------------------------------------------------------------------
(* prepare: screening and the identity are computed without the lock, the  *)
(* ledger transition is made under it.                                     *)

Worst(pl, gate) ==
    IF gate = "unsafe" THEN "unsafe"
    ELSE IF CitesHold(pl.cites) # pl.cites THEN "hard" ELSE gate

Observe(p, pl, gate) ==
    /\ pc[p] = "idle" /\ ops < MaxOps
    /\ TargetAdmissible(pl.op, pl.dest)
    /\ Publishable
    /\ Goto(p, "screened")
    /\ loc' = [loc EXCEPT ![p].id = IdentityOf(pl),
                          ![p].verdict = Worst(pl, gate)]
    /\ ops' = ops + 1
    /\ UNCHANGED <<git, durable, lock, edits, crashes, reached>>

NameFor(id, c) == \/ name[c] = id
                  \/ name[c] = None /\ \A d \in Candidate : name[d] # id

NewLedger(v) ==
    [disposition |-> DispositionOf(v), mayScore |-> v = "pass",
     reasons |-> IF v = "pass" THEN {} ELSE {v}, assessment |-> "none",
     links |-> {}, redacted |-> v = "unsafe",
     events |-> <<Plain(IF v = "unsafe" THEN "gate_rejected" ELSE "screened")>>]

\* Mutant: revoking a candidate forgets the approval it was linked to.
RescreenedUnlinking(l, v) ==
    IF l.redacted \/ v = "pass" THEN l
    ELSE Record([l EXCEPT !.mayScore = FALSE, !.reasons = @ \cup {v}, !.links = {},
                          !.disposition = DispositionOf(v)],
                Plain("gate_rejected"))

Rescreened(l, v) ==
    IF l.redacted \/ v = "pass" THEN l
    ELSE Record([l EXCEPT !.mayScore = FALSE, !.reasons = @ \cup {v},
                          !.disposition = DispositionOf(v)],
                Plain("gate_rejected"))

Persist(p) ==
    /\ pc[p] = "screened" /\ lock = None
    /\ \E c \in Candidate :
        /\ NameFor(loc[p].id, c)
        /\ name' = [name EXCEPT ![c] = loc[p].id]
        /\ ledger' = [ledger EXCEPT ![c] =
                        IF @ = None THEN NewLedger(loc[p].verdict)
                                    ELSE Rescreened(@, loc[p].verdict)]
    /\ Return(p)
    /\ UNCHANGED <<git, approvals, intents, receipts, counters, reached>>

-----------------------------------------------------------------------------
(* assess: the first assessment is kept.                                   *)

\* Mutant: the outcome is taken for a disposition.
AssessedAsDisposition(l, outcome) ==
    Record([l EXCEPT !.assessment = outcome, !.disposition = outcome], Plain("assessed"))

Assessed(l, outcome) ==
    Record([l EXCEPT
              !.assessment = outcome,
              !.disposition = CASE outcome = "conflict" -> "needs_confirmation"
                                [] outcome = "low"      -> "rejected"
                                [] OTHER                -> @,
              !.reasons = IF outcome = "eligible" THEN @ ELSE {outcome}],
           Plain("assessed"))

Assess(c, outcome) ==
    /\ lock = None
    /\ ledger[c] # None /\ ledger[c].mayScore /\ ledger[c].assessment = "none"
    /\ ledger' = [ledger EXCEPT ![c] = Assessed(@, outcome)]
    /\ UNCHANGED <<git, name, approvals, intents, receipts, lock, pc, loc, counters, reached>>

-----------------------------------------------------------------------------
(* authorize: a durable approval artifact first, then the ledger link.     *)

Authorize(p, c, e) ==
    /\ pc[p] = "idle" /\ ops < MaxOps
    /\ Acquire(p)
    /\ ledger[c] # None /\ Approvable(ledger[c])
    /\ <<c, e>> \in approvals \/ ledger[c].disposition # "approved"
    /\ approvals' = approvals \cup {<<c, e>>}
    /\ Goto(p, "reconcile")
    /\ loc' = [loc EXCEPT ![p].cand = c, ![p].ev = e]
    /\ ops' = ops + 1
    /\ UNCHANGED <<git, name, ledger, intents, receipts, edits, crashes, reached>>

\* Mutant: the link is saved without the event that witnesses it.
LinkedSilently(l, e) == [l EXCEPT !.disposition = "approved", !.links = @ \cup {e}]

Linked(l, e) ==
    LET approved == [l EXCEPT !.disposition = "approved", !.links = @ \cup {e}]
    IN IF By("approved", e) \in EventsOf(l) THEN approved
       ELSE Record(approved, By("approved", e))

\* Mutant: the latest approval wins.
LinkableAnyway(l, e) == TRUE

\* A candidate linked to another approval is refused.
Linkable(l, e) == l.links \subseteq {e}

\* _reconcile_approval
Reconcile(p) ==
    LET c == loc[p].cand
        e == loc[p].ev
    IN /\ pc[p] = "reconcile"
       /\ ledger' = IF Linkable(ledger[c], e)
                    THEN [ledger EXCEPT ![c] = Linked(@, e)]
                    ELSE ledger
       /\ Return(p)
       /\ UNCHANGED <<git, name, approvals, intents, receipts, counters, reached>>

-----------------------------------------------------------------------------
(* apply_workspace.                                                        *)

\* Mutant: a finalized proposal may be applied again.
UnfinishedOrReplayed(c) == TRUE

\* A receipt that is there is returned, and nothing is applied again.
Unfinished(c) == receipts[c] = None

ApplyStart(p, c, e) ==
    /\ pc[p] = "idle" /\ ops < MaxOps
    /\ Acquire(p)
    /\ Unfinished(c)
    /\ ledger[c] # None /\ <<c, e>> \in approvals
    /\ ledger[c].disposition = "approved" /\ e \in ledger[c].links
    /\ CurrentBinding(name[c])
    /\ InWindow(name[c].payload)
    /\ Goto(p, "validate")
    /\ loc' = [loc EXCEPT ![p].cand = c, ![p].ev = e, ![p].copy = ledger[c]]
    /\ ops' = ops + 1
    /\ UNCHANGED <<git, durable, edits, crashes, reached>>

\* The prospective validators have passed; the expected post-state is computed
\* from the repository as it is now and sealed in the intent.
WriteIntent(p) ==
    LET c  == loc[p].cand
        pl == name[c].payload
        after == After(pl, loc[p].ev, name[c].target)
    IN /\ pc[p] = "validate"
       /\ PostDefined(pl)
       /\ \E r \in Report :
            intents' = [intents EXCEPT ![c] =
                [by |-> loc[p].ev, before |-> name[c].target, after |-> after,
                 post |-> [index |-> index,
                           work |-> IF pl.op = "no_op" THEN work
                                    ELSE [work EXCEPT ![pl.dest] = after]],
                 report |-> r]]
       /\ Goto(p, "event")
       /\ UNCHANGED <<git, name, ledger, approvals, receipts, lock, loc, counters>>
       /\ Observed

\* _append_candidate_event writes back the ledger read when the call began.
RecordIntent(p) ==
    LET c == loc[p].cand
    IN /\ pc[p] = "event"
       /\ ledger' = [ledger EXCEPT ![c] =
                        Record(loc[p].copy, By("application_intent", loc[p].ev))]
       /\ Goto(p, IF name[c].payload.op = "no_op" THEN "digest" ELSE "rebind")
       /\ loc' = [loc EXCEPT ![p].copy = None]
       /\ UNCHANGED <<git, name, approvals, intents, receipts, lock, counters, reached>>

\* The second _verify_current_binding and the last precondition of atomic_apply.
Rebind(p) ==
    /\ pc[p] = "rebind"
    /\ CurrentBinding(name[loc[p].cand])
    /\ Goto(p, "swap")
    /\ UNCHANGED <<git, durable, lock, loc, counters, reached>>

\* os.replace: the only step of the control plane that writes authority.
Swap(p) ==
    LET c == loc[p].cand
    IN /\ pc[p] = "swap"
       /\ work' = [work EXCEPT ![name[c].payload.dest] = intents[c].after]
       /\ Goto(p, "digest")
       /\ UNCHANGED <<head, index, late, durable, lock, loc, counters>>
       /\ Observed

\* Mutant: the post-state is not compared with the intent.
SkipPost(p) ==
    /\ pc[p] = "digest"
    /\ Goto(p, "issue")
    /\ UNCHANGED <<git, durable, lock, loc, counters, reached>>

\* complete_workspace_digest against the intent
CheckPost(p) ==
    /\ pc[p] = "digest"
    /\ Here = intents[loc[p].cand].post
    /\ Goto(p, "issue")
    /\ UNCHANGED <<git, durable, lock, loc, counters, reached>>

\* Mutant: any applied event of the same approval is reused.
IssuedByApproval(c) ==
    {b \in {e.body : e \in {x \in EventsOf(ledger[c]) : x.kind = "workspace_applied"}} :
        b.by = intents[c].by}

\* An issued event of the current intent, whichever call appended it.
IssuedBodies(c) ==
    {b \in {e.body : e \in {x \in EventsOf(ledger[c]) : x.kind = "workspace_applied"}} :
        b = BodyOf(intents[c], b.recovered)}

\* _write_workspace_receipt, first half: reuse or append the applied event.
Issue(p) ==
    LET c == loc[p].cand
    IN /\ pc[p] = "issue"
       /\ ledger' = IF IssuedBodies(c) # {} THEN ledger
                    ELSE [ledger EXCEPT ![c] =
                            Record(@, Applied(BodyOf(intents[c], loc[p].recovering)))]
       /\ Goto(p, "receipt")
       /\ UNCHANGED <<git, name, approvals, intents, receipts, lock, loc, counters, reached>>

\* _write_workspace_receipt, second half.
WriteReceipt(p) ==
    LET c == loc[p].cand
    IN /\ pc[p] = "receipt"
       /\ \E b \in IssuedBodies(c) : receipts' = [receipts EXCEPT ![c] = b]
       /\ IF loc[p].recovering
          THEN /\ Goto(p, "recover")
               /\ loc' = [loc EXCEPT ![p].cand = None]
               /\ UNCHANGED lock
          ELSE Return(p)
       /\ UNCHANGED <<git, name, ledger, approvals, intents, counters, reached>>

-----------------------------------------------------------------------------
(* recover: every intent in turn, under one hold of the lock.              *)

RecoverStart(p) ==
    /\ pc[p] = "idle" /\ Acquire(p)
    /\ Goto(p, "recover")
    /\ loc' = [loc EXCEPT ![p].todo = {c \in Candidate : intents[c] # None},
                          ![p].recovering = TRUE]
    /\ UNCHANGED <<git, durable, counters, reached>>

\* Mutant: recovery checks the binding an unapplied candidate must meet.
FinalizableIfUnapplied(c) ==
    /\ intents[c] # None /\ receipts[c] = None
    /\ <<c, intents[c].by>> \in approvals
    /\ ledger[c].disposition = "approved" /\ intents[c].by \in ledger[c].links
    /\ CurrentBinding(name[c]) /\ InWindow(name[c].payload)
    /\ Here = intents[c].post

\* No receipt yet, and the whole post-state of the intent stands.
Finalizable(c) ==
    /\ intents[c] # None /\ receipts[c] = None
    /\ <<c, intents[c].by>> \in approvals
    /\ ledger[c].disposition = "approved" /\ intents[c].by \in ledger[c].links
    /\ work[name[c].payload.dest] = intents[c].after
    /\ InWindow(name[c].payload)
    /\ RepositoryAndSourcesHold(name[c])
    /\ Here = intents[c].post

RecoverFinalize(p, c) ==
    /\ pc[p] = "recover" /\ c \in loc[p].todo /\ Finalizable(c)
    /\ Goto(p, "issue")
    /\ loc' = [loc EXCEPT ![p].todo = @ \ {c}, ![p].cand = c]
    /\ UNCHANGED <<git, durable, lock, counters, reached>>

\* Finalized already, still blocked, or reported corrupt: nothing is written.
RecoverSkip(p, c) ==
    /\ pc[p] = "recover" /\ c \in loc[p].todo /\ ~Finalizable(c)
    /\ loc' = [loc EXCEPT ![p].todo = @ \ {c}]
    /\ UNCHANGED <<git, durable, lock, pc, counters, reached>>

RecoverDone(p) ==
    /\ pc[p] = "recover" /\ loc[p].todo = {}
    /\ Return(p)
    /\ UNCHANGED <<git, durable, counters, reached>>

-----------------------------------------------------------------------------
(* Failures and the environment.                                           *)

\* Mutant: the lock outlives a call that raises.
RaiseHoldingLock(p) ==
    /\ pc[p] = "validate"
    /\ Goto(p, "idle")
    /\ loc' = [loc EXCEPT ![p] = NoLoc]
    /\ UNCHANGED <<git, durable, lock, counters, reached>>

\* A check inside apply_workspace raises: the lock is released, what was
\* written stays.  Validators may fail on any tree.
Raise(p) ==
    /\ \/ pc[p] = "validate"
       \/ pc[p] = "rebind" /\ ~CurrentBinding(name[loc[p].cand])
       \/ pc[p] = "digest" /\ Here # intents[loc[p].cand].post
    /\ Return(p)
    /\ UNCHANGED <<git, durable, counters, reached>>

\* A process that holds the lock dies; flock is released with it.
Crash(p) ==
    /\ lock = p /\ crashes < MaxCrash
    /\ crashes' = crashes + 1
    /\ Return(p)
    /\ UNCHANGED <<git, durable, ops, edits, reached>>

\* A prepare call that never reaches the lock leaves nothing behind.
Abandon(p) ==
    /\ pc[p] = "screened"
    /\ Return(p)
    /\ UNCHANGED <<git, durable, counters, reached>>

Edit(f, b) ==
    /\ edits < MaxEdits /\ work[f] # b
    /\ work' = [work EXCEPT ![f] = b]
    /\ edits' = edits + 1
    /\ UNCHANGED <<head, index, late, durable, lock, pc, loc, ops, crashes>>
    /\ Observed

Commit ==
    /\ edits < MaxEdits /\ index # work
    /\ index' = work /\ head' = head + 1
    /\ edits' = edits + 1
    /\ UNCHANGED <<work, late, durable, lock, pc, loc, ops, crashes>>
    /\ Observed

Expire ==
    /\ ~late /\ late' = TRUE
    /\ UNCHANGED <<head, index, work, durable, lock, pc, loc, counters, reached>>

-----------------------------------------------------------------------------
Recovery(p) ==
    \/ RecoverStart(p)
    \/ \E c \in Candidate : RecoverFinalize(p, c) \/ RecoverSkip(p, c)
    \/ RecoverDone(p)

\* The steps a running call takes by itself.
Continue(p) ==
    \/ Persist(p) \/ Reconcile(p)
    \/ WriteIntent(p) \/ RecordIntent(p) \/ Rebind(p) \/ Swap(p) \/ CheckPost(p)
    \/ Issue(p) \/ WriteReceipt(p) \/ Raise(p)

Call(p) ==
    \/ \E pl \in Payload, gate \in Verdict : Observe(p, pl, gate)
    \/ \E c \in Candidate, e \in Evidence : Authorize(p, c, e) \/ ApplyStart(p, c, e)

Environment == \/ \E f \in Path, b \in File : Edit(f, b)
               \/ Commit
               \/ Expire

Next ==
    \/ \E p \in Proc : Call(p) \/ Continue(p) \/ Recovery(p) \/ Crash(p) \/ Abandon(p)
    \/ \E c \in Candidate, outcome \in Assessment \ {"none"} : Assess(c, outcome)
    \/ Environment


Spec == Init /\ [][Next]_vars

\* The scheduler runs a call that has begun to its end, and recover is invoked
\* again and again (docs/memory-control-plane.md, "Recovery").
FairSpec ==
    /\ Spec
    /\ \A p \in Proc : WF_vars(Continue(p)) /\ WF_vars(Recovery(p))

-----------------------------------------------------------------------------
(* Properties.                                                             *)

\* Every artifact, the git state and the locals are of the declared shapes.
TypeOK ==
    /\ head \in Nat /\ index \in Tree /\ work \in Tree /\ late \in BOOLEAN
    /\ name \in [Candidate -> Identity \cup {None}]
    /\ ledger \in [Candidate -> Ledger \cup {None}]
    /\ approvals \subseteq Candidate \X Evidence
    /\ intents \in [Candidate -> Intent \cup {None}]
    /\ receipts \in [Candidate -> Body \cup {None}]
    /\ lock \in Proc \cup {None}
    /\ pc \in [Proc -> PC] /\ loc \in [Proc -> Loc]
    /\ ops \in Nat /\ edits \in Nat /\ crashes \in Nat
    /\ reached \in [Candidate -> BOOLEAN]

Has(c) == ledger[c] # None

InApply == {"validate", "event", "rebind", "swap", "digest"}
Planned == {"event", "rebind", "swap", "digest", "issue", "receipt"}

Consistent(p) ==
    LET l == loc[p]
        c == loc[p].cand
    IN /\ lock = p <=> pc[p] \notin {"idle", "screened"}
       /\ pc[p] = "screened" => l.id # None /\ l.verdict # None
       /\ pc[p] \in InApply \cup Planned \cup {"reconcile"} => c # None /\ Has(c)
       /\ pc[p] \in InApply \cup {"reconcile"} => l.ev # None /\ <<c, l.ev>> \in approvals
       /\ pc[p] \in InApply =>
            ledger[c].disposition = "approved" /\ l.ev \in ledger[c].links
       /\ pc[p] \in {"validate", "event"} => l.copy = ledger[c]
       /\ pc[p] \in InApply \cup Planned => receipts[c] = None
       /\ pc[p] \in Planned => intents[c] # None /\ intents[c].by \in ledger[c].links
       /\ pc[p] \in Planned \cap InApply => intents[c].by = l.ev
       /\ pc[p] = "receipt" => IssuedBodies(c) # {}

\* Exactly the calls past their entry hold the writer lock, and what such a call
\* remembers of the durable artifacts is still what they say, although other
\* calls screened, assessed or approved before it took the lock.
CallsConsistent == \A p \in Proc : Consistent(p)

\* The durable artifacts of a candidate come in the order ledger, approval,
\* intent, receipt: whatever crashed, none is ever there without the earlier ones.
ArtifactOrder ==
    \A c \in Candidate :
        /\ Has(c) => name[c] # None
        /\ intents[c] # None => Has(c) /\ intents[c].by \in ledger[c].links
        /\ receipts[c] # None => intents[c] # None

\* A candidate is linked to at most one approval, every link has its durable
\* approval artifact, and an approved disposition has a link: whatever authorize
\* calls crashed between the artifact and the link or raced with other evidence.
ApprovalEvidence ==
    \A c \in Candidate : Has(c) =>
        /\ \A e, f \in ledger[c].links : e = f
        /\ \A e \in ledger[c].links : <<c, e>> \in approvals
        /\ ledger[c].disposition = "approved" => ledger[c].links # {}

\* A receipt is exactly equivalent to the durable intent, covered by a linked
\* approval, and issued by exactly one workspace_applied event of the ledger, so
\* that _load_workspace_receipt can always reopen it.
ReceiptEvidence ==
    \A c \in Candidate : receipts[c] # None =>
        /\ Has(c) /\ intents[c] # None
        /\ receipts[c] = BodyOf(intents[c], receipts[c].recovered)
        /\ receipts[c].by \in ledger[c].links
        /\ \E i \in DOMAIN ledger[c].events :
             /\ ledger[c].events[i] = Applied(receipts[c])
             /\ \A j \in DOMAIN ledger[c].events :
                    ledger[c].events[j] = Applied(receipts[c]) => j = i

\* A receipt is only written for a repository state that really existed after
\* the intent was sealed, in apply_workspace and in recover.
ReceiptWitnessed ==
    \A c \in Candidate : receipts[c] # None => reached[c]

Precedes(l, k1, k2) ==
    \A j \in DOMAIN l.events : l.events[j].kind = k2 =>
        \E i \in 1 .. j - 1 : l.events[i].kind = k1 /\ l.events[i].by = l.events[j].by

\* In every ledger, whatever was revoked, retried or recovered in between, an
\* application intent and an applied event follow the approval they name.  (An
\* applied event need not follow an intent event: a crash between the intent
\* artifact and its event leaves an intent that recover may still finalize.)
EventOrder ==
    \A c \in Candidate : Has(c) =>
        /\ Precedes(ledger[c], "approved", "application_intent")
        /\ Precedes(ledger[c], "approved", "workspace_applied")

\* Event chains only grow, and a ledger never disappears: no call writes back a
\* chain it read before another call extended it.
ChainAppendOnly ==
    [][\A c \in Candidate : Has(c) =>
          /\ ledger'[c] # None
          /\ Len(ledger[c].events) <= Len(ledger'[c].events)
          /\ \A i \in DOMAIN ledger[c].events :
                ledger'[c].events[i] = ledger[c].events[i]]_vars

\* A change of the working tree that is not a user's.
ControlWrite == work' # work /\ edits' = edits

\* The control plane writes authority only for one candidate that is approved at
\* that very moment, not finalized, and with a durable intent for those bytes under
\* its approval; and it changes nothing but the destination.
WritesAuthorized ==
    [][ControlWrite =>
        \E c \in Candidate :
            /\ intents[c] # None /\ receipts[c] = None
            /\ ledger[c].disposition = "approved" /\ intents[c].by \in ledger[c].links
            /\ \A f \in Path : work'[f] = IF f = name[c].payload.dest
                                          THEN intents[c].after ELSE work[f]]_vars

\* No lost update: until a user edits, the control plane replaces exactly the
\* bytes the candidate was bound to, in the tree it was bound to.  Of two proposals
\* made for one state of a file, the second is never written over the first.
NoLostUpdate ==
    [][ControlWrite /\ edits = 0 =>
        \E c \in Candidate :
            /\ intents[c] # None
            /\ work' = [work EXCEPT ![name[c].payload.dest] = intents[c].after]
            /\ work[name[c].payload.dest] = name[c].target
            /\ index = name[c].index /\ TrackedTree = name[c].tracked]_vars

\* Once finalized, a proposal's receipt, intent and approval never change.
FinalForever ==
    [][\A c \in Candidate : receipts[c] # None =>
          /\ receipts'[c] = receipts[c] /\ intents'[c] = intents[c]
          /\ receipts[c].by \in ledger'[c].links]_vars

\* What docs/memory-control-plane.md ("Recovery") says can be finalized.
Recoverable(c) ==
    /\ intents[c] # None
    /\ ledger[c].disposition = "approved"
    /\ RepositoryAndSourcesHold(name[c])
    /\ InWindow(name[c].payload)
    /\ work[name[c].payload.dest] = intents[c].after
    /\ Here = intents[c].post

\* An application that was interrupted after its intent is finalized by recover
\* if the whole post-state stays in place and its bindings stay valid.
CrashRecovered ==
    \A c \in Candidate : <>[]Recoverable(c) => <>(receipts[c] # None)

\* A lock that was taken is released again, by the end of the call or its death.
LockReleased == \A p \in Proc : lock = p ~> lock # p
-----------------------------------------------------------------------------
(* Refinement: the artifacts implement the protocol of one proposal.       *)

LinkOf(c) == IF ledger[c] = None THEN None
             ELSE IF ledger[c].links = {} THEN None
             ELSE CHOOSE e \in Evidence : e \in ledger[c].links

Protocol == INSTANCE ProposalProtocol WITH
    link  <- [c \in Candidate |-> LinkOf(c)],
    plan  <- [c \in Candidate |-> IF intents[c] = None THEN None ELSE intents[c].by],
    final <- [c \in Candidate |-> IF receipts[c] = None THEN None ELSE receipts[c].by]

\* Every behaviour of the control plane, crashes and edits included, is a
\* behaviour of the proposal protocol.
ImplementsProtocol == Protocol!Spec

-----------------------------------------------------------------------------
(* What the documentation claims and the code does not do.                 *)

\* docs/memory-control-plane.md: "concurrent or later screening of identical
\* content with any failed or unknown hard gate therefore monotonically revokes or
\* precedes a pass".  A candidate that has failed a hard gate is never approved.
HardGateMonotone ==
    [][\A c \in Candidate :
          (Has(c) /\ "hard" \in ledger[c].reasons /\ ledger'[c].disposition = "approved")
             => ledger[c].disposition = "approved"]_vars
=============================================================================
