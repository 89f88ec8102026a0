-------------------------- MODULE RuntimeDeletion --------------------------
(***************************************************************************)
(* From an approved tombstone to the purge of the private sessions it      *)
(* names.  A deletion request is a candidate formed from what the user     *)
(* said; a tombstone proposal seals the candidates it is related to and    *)
(* their sessions; once the control plane has applied it, every apply and  *)
(* every recover hands the sealed binding to RuntimeDeletionCoordinator,   *)
(* which purges the sessions in one transaction, truncates SQLite's        *)
(* write-ahead log and unlinks the rebuildable indexes (see Publication).  *)
(*                                                                         *)
(* A candidate stands for the one evidence row it was formed from.  The    *)
(* control plane is what ControlPlane says of it: an applied tombstone is  *)
(* final.  Retention runs beside it in two transactions, one that selects  *)
(* and one that deletes; a selection is one row (the code: 500).           *)
(***************************************************************************)
EXTENDS Integers, Sequences, FiniteSets

CONSTANTS
    Proc,        \* processes of the memory-control command
    Candidate,   \* memory candidates
    Requests,    \* deletion requests, 1 .. Requests in the order of their proposals
    Session, SessionOf,
    Matches,     \* the candidates an earlier slot or claim of which a request matches
    Early,       \* rows captured before the behaviour begins
    MaxTrouble   \* bound on crashes, failing transactions, busy logs, rows that retention
                 \* deletes and receipts that outlive receipt_ttl_seconds, together

Request == 1 .. Requests
Row == Candidate \cup Request

ASSUME RowAssumption ==
    /\ Requests \in Nat /\ Candidate \cap Nat = {}
    /\ SessionOf \in [Row -> Session] /\ Matches \in [Request -> SUBSET Candidate]

ASSUME LimitAssumption == MaxTrouble \in Nat /\ Early \subseteq Row

VARIABLES
    evidence, seen,   \* evidence rows; capture identities, which block a replay
    formed, related,  \* candidates; their delete relations
    barred,           \* retention_session_tombstones
    sealed,           \* target candidates in the tombstone proposal of a request, or none
    applied,          \* requests whose tombstone has its workspace receipt
    receipt,          \* retention_purge_receipts: its status, and the physical one
    binding,          \* retention_authority_purge_bindings
    aged,             \* receipts older than their time to live
    wal,              \* purges whose deleted pages are still in the log
    batch,            \* what retention has selected and not yet deleted
    pc, todo, take,   \* where each process is, the obligations before it, the sessions it
                      \* has reopened
    trouble,
    purged            \* history: the requests whose sessions were deleted

store == <<evidence, seen, formed, related, barred>>
plane == <<sealed, applied>>
ledger == <<receipt, binding, aged>>
procs == <<pc, todo, take>>
vars == <<store, plane, ledger, wal, batch, procs, trouble, purged>>

Nothing == <<{}, {}>>

Init ==
    /\ evidence = Early /\ seen = Early /\ formed = {} /\ related = {} /\ barred = {}
    /\ sealed = [r \in Request |-> {}] /\ applied = {}
    /\ receipt = [r \in Request |-> "none"] /\ binding = {} /\ aged = {}
    /\ wal = {} /\ batch = Nothing
    /\ pc = [p \in Proc |-> "idle"] /\ todo = [p \in Proc |-> <<>>]
    /\ take = [p \in Proc |-> {}] /\ trouble = 0
    /\ purged = {}

-----------------------------------------------------------------------------
(* The store before a purge.                                               *)

\* Mutant: a resumed transcript is captured although its session was purged.
CaptureUnbarred(x) ==
    /\ x \in Row \ seen
    /\ evidence' = evidence \cup {x} /\ seen' = seen \cup {x}
    /\ UNCHANGED <<formed, related, barred>>

Capture(x) ==
    /\ x \in Row \ seen /\ SessionOf[x] \notin barred
    /\ evidence' = evidence \cup {x} /\ seen' = seen \cup {x}
    /\ UNCHANGED <<formed, related, barred>>

Targets(r) == {c \in Candidate : <<r, c>> \in related}

\* The batch is refused by the foreign keys when its evidence or a related candidate
\* is gone.  A request is related to what matches when it is formed, never later.
Form(x) ==
    /\ x \in evidence \ formed
    /\ formed' = formed \cup {x}
    /\ related' = related \cup
         (IF x \in Request THEN {x} \X (Matches[x] \cap formed) ELSE {})
    /\ UNCHANGED <<evidence, seen, barred>>

\* Candidates go with their evidence, relations with either of their candidates.
Forget(E, C) ==
    /\ evidence' = evidence \ E
    /\ formed' = formed \ (E \cup C)
    /\ related' = {l \in related : {l[1], l[2]} \cap (E \cup C) = {}}

\* prepare_tombstone: the request can be reopened and has targets.
Prepare(r) ==
    /\ sealed[r] = {} /\ r \in formed /\ Targets(r) # {}
    /\ sealed' = [sealed EXCEPT ![r] = Targets(r)]
    /\ UNCHANGED <<store, applied, ledger, wal, batch, procs, trouble, purged>>

SessionsOf(r, targets) == {SessionOf[c] : c \in targets} \cup {SessionOf[r]}

SealedSessions(r) == {SessionOf[x] : x \in sealed[r] \cup {r}}

-----------------------------------------------------------------------------
(* Retention: run_retention_gc.                                            *)

Trouble == trouble < MaxTrouble /\ trouble' = trouble + 1

GcSelect(E, C) ==
    /\ batch = Nothing /\ Trouble
    /\ Cardinality(E) + Cardinality(C) = 1
    /\ batch' = <<E, C>>
    /\ UNCHANGED <<store, plane, ledger, wal, procs, purged>>

\* Every purge deletes the receipts past their time to live.
WithoutAged == [r \in Request |-> IF r \in aged THEN "none" ELSE receipt[r]]

\* It ends with a truncation of the log, which a reader can prevent.
GcPurge ==
    /\ batch # Nothing /\ Forget(batch[1], batch[2]) /\ batch' = Nothing
    /\ receipt' = WithoutAged /\ aged' = {} /\ wal' \in {{}, wal}
    /\ UNCHANGED <<seen, barred, plane, binding, procs, trouble, purged>>

Age(r) ==
    /\ receipt[r] # "none" /\ r \notin aged /\ Trouble
    /\ aged' = aged \cup {r}
    /\ UNCHANGED <<store, plane, receipt, binding, wal, batch, procs, purged>>

-----------------------------------------------------------------------------
(* The memory-control command: apply-workspace and recover.                *)

Goto(p, l) == pc' = [pc EXCEPT ![p] = l] /\ UNCHANGED <<todo, take>>
Begin(p, requests) ==
    /\ pc[p] = "idle"
    /\ pc' = [pc EXCEPT ![p] = "lookup"] /\ todo' = [todo EXCEPT ![p] = requests]
    /\ UNCHANGED take
Stop(p) ==
    /\ pc' = [pc EXCEPT ![p] = "idle"] /\ todo' = [todo EXCEPT ![p] = <<>>]
    /\ take' = [take EXCEPT ![p] = {}]

\* The indexes are unlinked and runtime_purged is returned; the next obligation begins.
Report(p) ==
    /\ pc' = [pc EXCEPT ![p] = IF Len(todo[p]) = 1 THEN "idle" ELSE "lookup"]
    /\ todo' = [todo EXCEPT ![p] = Tail(@)] /\ take' = [take EXCEPT ![p] = {}]

\* The tombstone is applied, now or by an earlier call with the same receipt.
Apply(p, r) ==
    /\ sealed[r] # {}
    /\ applied' = applied \cup {r} /\ Begin(p, <<r>>)
    /\ UNCHANGED <<store, sealed, ledger, wal, batch, trouble, purged>>

\* recover lists the obligations of all applied tombstones, by proposal.
Obligations ==
    {list \in [1 .. Cardinality(applied) -> applied] :
        \A i, j \in DOMAIN list : i < j => list[i] < list[j]}

Recover(p) ==
    /\ applied # {} /\ \E list \in Obligations : Begin(p, list)
    /\ UNCHANGED <<store, plane, ledger, wal, batch, trouble, purged>>

\* Mutant: the status of the receipt is not looked at.
AnyReceipt == {"pending", "applied", "failed"}

Applied == {"pending", "applied"}

\* get_authority_purge_receipt.  What the binding has left of a receipt that outlived
\* its time does not name the sessions, and the coordinator compares them.
Lookup(p) ==
    /\ pc[p] = "lookup"
    /\ LET r == Head(todo[p]) IN
       \/ receipt[r] \in Applied /\ Report(p)
       \/ receipt[r] \notin Applied /\ r \in binding /\ Stop(p)
       \/ receipt[r] \notin Applied /\ r \notin binding /\ Goto(p, "reopen")
    /\ UNCHANGED <<store, plane, ledger, wal, batch, trouble, purged>>

\* Mutant: the relations are followed as they are now.
MatchesAnything(r) == r \in formed /\ Targets(r) # {}

MatchesSeal(r) == r \in formed /\ Targets(r) # {} /\ Targets(r) = sealed[r]

\* The request, its relations and the sessions of its targets are what was sealed.
Reopen(p) ==
    /\ pc[p] = "reopen"
    /\ LET r == Head(todo[p]) IN
       \/ /\ MatchesSeal(r)
          /\ pc' = [pc EXCEPT ![p] = "existing"]
          /\ take' = [take EXCEPT ![p] = SessionsOf(r, Targets(r))]
          /\ UNCHANGED todo
       \/ ~MatchesSeal(r) /\ Stop(p)
    /\ UNCHANGED <<store, plane, ledger, wal, batch, trouble, purged>>

\* _execute_purge: a receipt that came in meanwhile only has its log finalized.
Existing(p) ==
    /\ pc[p] = "existing"
    /\ LET status == receipt[Head(todo[p])] IN
       \/ status = "applied" /\ Report(p)
       \/ status = "pending" /\ Goto(p, "finalize")
       \/ status \in {"none", "failed"} /\ Goto(p, "purge")
    /\ UNCHANGED <<store, plane, ledger, wal, batch, trouble, purged>>

InSessions(rows, S) == {x \in rows : SessionOf[x] \in S}

\* _purge_targets_tx with its receipt and binding, in one transaction.
Purge(p) ==
    /\ pc[p] = "purge" /\ Goto(p, "finalize")
    /\ LET r == Head(todo[p])
           gone == InSessions(Row, take[p])
       IN  /\ Forget(gone, {}) /\ barred' = barred \cup take[p]
           /\ receipt' = [WithoutAged EXCEPT ![r] = "pending"]
           /\ binding' = binding \cup {r} /\ aged' = {}
           /\ wal' = IF gone \cap (evidence \cup formed) = {} THEN wal ELSE wal \cup {r}
           /\ purged' = purged \cup {r}
    /\ UNCHANGED <<seen, plane, batch, trouble>>

PurgeFails(p) ==
    /\ pc[p] = "purge" /\ Trouble /\ Goto(p, "record")
    /\ UNCHANGED <<store, plane, ledger, wal, batch, purged>>

\* The failure replaces the receipt; that may fail too, and the command ends either way.
RecordFailure(p) ==
    /\ pc[p] = "record" /\ Stop(p)
    /\ LET r == Head(todo[p]) IN
       \/ receipt' = [receipt EXCEPT ![r] = "failed"] /\ binding' = binding \ {r}
          /\ aged' = aged \ {r} /\ UNCHANGED trouble
       \/ Trouble /\ UNCHANGED ledger
    /\ UNCHANGED <<store, plane, wal, batch, purged>>

\* Mutant: the answer of the checkpoint is not looked at.
FinalizeAnyway(p) ==
    /\ pc[p] = "finalize" /\ Goto(p, "mark")
    /\ wal' = {} \/ UNCHANGED wal
    /\ UNCHANGED <<store, plane, ledger, batch, trouble, purged>>

\* The log is truncated, or kept by a reader; then the receipt stays as it is.
Finalize(p) ==
    /\ pc[p] = "finalize"
    /\ \/ wal' = {} /\ Goto(p, "mark") /\ UNCHANGED trouble
       \/ Trouble /\ Stop(p) /\ UNCHANGED wal
    /\ UNCHANGED <<store, plane, ledger, batch, purged>>

Mark(p) ==
    /\ pc[p] = "mark" /\ Report(p)
    /\ LET r == Head(todo[p]) IN
       IF receipt[r] = "pending"
       THEN receipt' = [receipt EXCEPT ![r] = "applied"] /\ aged' = aged \ {r}
       ELSE UNCHANGED <<receipt, aged>>
    /\ UNCHANGED <<store, plane, binding, wal, batch, trouble, purged>>

Crash(p) ==
    /\ pc[p] # "idle" /\ Trouble /\ Stop(p)
    /\ UNCHANGED <<store, plane, ledger, wal, batch, purged>>

Continue(p) ==
    \/ Lookup(p) \/ Reopen(p) \/ Existing(p) \/ Purge(p) \/ PurgeFails(p)
    \/ RecordFailure(p) \/ Finalize(p) \/ Mark(p)

Intake ==
    /\ \E x \in Row : Capture(x) \/ Form(x)
    /\ UNCHANGED <<plane, ledger, wal, batch, procs, trouble, purged>>

Next ==
    \/ Intake \/ GcPurge
    \/ \E x \in Row : GcSelect({x}, {}) \/ GcSelect({}, {x})
    \/ \E r \in Request : Prepare(r) \/ Age(r)
    \/ \E p \in Proc : Continue(p) \/ Crash(p) \/ Recover(p) \/ \E r \in Request : Apply(p, r)

Spec == Init /\ [][Next]_vars

\* Processes that are not killed go on, and recover is invoked again and again.
FairSpec ==
    Spec /\ SF_vars(\E p \in Proc : Recover(p)) /\ \A p \in Proc : WF_vars(Continue(p))

-----------------------------------------------------------------------------
(* Properties.                                                             *)

\* The deletion barrier: nothing of a purged session is ever stored again, not even by a
\* resumed transcript, a dispatcher with an old job or a second purge.
PurgedStaysGone ==
    \A r \in purged : /\ SealedSessions(r) \subseteq barred
                      /\ InSessions(evidence \cup formed, SealedSessions(r)) = {}

\* Only what an approved tombstone names is purged: the session of a candidate that got
\* related, or was collected, after the approval is never touched.
OnlySealed == barred \subseteq UNION {SealedSessions(r) : r \in applied}

\* A receipt that says applied and its binding, the evidence for the report to the host, are
\* there only for sessions that were purged; the physical status, only when the log was
\* truncated.
ReceiptTruthful ==
    /\ binding \cup {r \in Request : receipt[r] \in {"pending", "applied"}} \subseteq purged
    /\ \A r \in Request : receipt[r] = "applied" => r \notin wal

\* An obligation that recover cannot fulfil stops it before the obligations that follow.
Unfulfillable(r) == r \in applied /\ receipt[r] \in {"none", "failed"}
                    /\ (r \in binding \/ ~MatchesSeal(r))

\* Whatever fails or dies between the tombstone and the purge, recover purges the sessions
\* in the end, unless retention took the rows it was sealed over or an obligation before it
\* cannot be fulfilled.
EventuallyPurged ==
    \A r \in Request :
        r \in applied ~> (r \in purged \/ \E s \in 1 .. r : Unfulfillable(s))

\* The document: "its sanitized authority receipt makes retry idempotent after source
\* evidence has gone".
RetryIdempotent ==
    \A p \in Proc : pc[p] \in {"lookup", "reopen"} /\ Head(todo[p]) \in purged
                     => ~Unfulfillable(Head(todo[p]))
=============================================================================
