# codex-memories: TLA+ models, checks and proofs

This directory models `codex-memories`, a governed long-term memory for coding
agents. Untrusted proposals pass through a memory control plane before they become
authority files in a Git working tree; beside it a private runtime store captures
transcripts, forms candidates, offloads tool output and forgets on schedule or on
demand; retrieval reads only committed authority and derived indexes.

## 1. Inventory

### Memory control plane (`scripts/memory_control_plane/`)

State: one Markdown artifact per candidate ledger, approval, application intent and
workspace receipt under `control_plane/`, a writer lock (`flock`), and the Git
working tree itself. Operations: `prepare`, `assess`, `authorize`,
`apply_workspace`, `recover`, and the readers `inspect` and `audit`. Several
processes and threads call it; the user edits and commits the same tree without the
lock. Hard: a crash at any write, user edits between a check and its use, approvals
in competition, screenings that revoke, receipts that must match an intent that may
have been rewritten. Correct when authority is only written for the one approved,
still-bound candidate, every artifact has the ones it rests on, and an interrupted
application ends in exactly one receipt or none.

### Host authorization (`host_authorization.py`)

Stateless verifier of an SSH-signed statement bound to one request, with an expiry.
Correct when a statement authorizes nothing but its request.

### Control plane command line (`scripts/memory_control.py`)

Calls the operations above, and after each apply and recover of a deletion hands the
runtime the obligations of the applied tombstones. Correct when an obligation is
neither forgotten nor widened.

### Committed-memory projection (`projection.py`, `recall_policy.py`)

A SQLite projection of the committed revision with a manifest; `build` replaces it
as a whole, `recall` refuses a projection whose manifest or governance state does
not match the revision. Tombstones are files in the same tree. Hard: builders that
overlap with each other and with commits; an item that is deleted, edited and deleted
again. Correct when nothing deleted is recalled and a stale index is replaced.

### Agent memory store (`agent_memory_system/store.py`)

One SQLite database in WAL mode. It holds captured L0 evidence with source
checkpoints, L1/L2 candidates, a durable job queue with leases and a dead letter
queue, offload batches and the synchronisation cursor, retention and purge receipts
with tombstones that stop replays, and pipeline health. Several processes (hooks,
the worker, the command line) use it concurrently; every operation is a transaction,
but what one operation read before another ran is the hard part.

- Durable jobs: `enqueue_job`, `lease_jobs`, `complete_job`, `fail_job`,
  `recover_expired_jobs`, and `CandidateJobDispatcher` above them. Correct when a
  job is never lost, never completed twice and never retried beyond its limit.
- Offload synchronisation: `ingest_offload_sync_delta`, `next_offload_sync_pair`,
  `complete_offload_sync_pair`, `fail_offload_sync_pair`. Correct when every
  captured tool event is read once and ends in a pair or in the dead letter queue.
- Capture: batches with checkpoints, digests and quota. Correct when a replay adds
  nothing and a checkpoint never passes evidence that was not stored.
- Retention and purge: `run_retention_gc`, `purge_session`,
  `purge_authority_sessions`, `RuntimeDeletionCoordinator`. Correct when what was
  purged never comes back and a receipt is only issued for a purge that happened.

### Candidate formation, lifecycle resolution (`candidates.py`, `lifecycle.py`)

Algorithms over what the store holds: the former derives candidates and relations and
saves them in one batch, the resolver replays the relations. Hard: evidence that
arrives out of its order in time, evidence without a time of its own, and formers that
overlap. Correct when every claim that comes after another one, in the order of
`created_at`, is related to it and a deletion reaches its lineage and no more.

### Offload engine (`offload.py`)

Canonical events, task trees and bundles with digests, committed by the store. Correct
when versions are compared and exchanged, and a step is applied once.

### Hooks and production runtime (`hooks.py`, `scripts/agent_memory.py`)

Process-per-event entry points that capture, dispatch, synchronise, recover the indexes
and recall, and write receipts. The host starts several at a time and kills them.

### Retrieval (`retrieval/`, `agent_memory_system/retrieval.py`, `progressive_*.py`, `knowledge_*.py`)

Rankers over committed sources; a hybrid index with its own build, health and recovery;
a progressive loop in which an untrusted planner asks a governed host for searches and
reads, until it stops or a budget does; a verifier that judges an answer once over a
typed dossier; and session files by which one command after the other continues a
loop. Hard: the repository moves between two calls, the planner asks for anything, two
commands answer one session. Correct when budgets and scopes hold and what is released
was opened, and proved where that was demanded.

### Installer (`install.sh`, `codex_memories.py`), validator (`validate_error_atoms.py`)

Copies a release into place with a rollback; lints error atoms.

### Interactions

The worker forms candidates from captured evidence and hands them to
`ControlPlane.prepare` as proposals. An applied tombstone whose owner is the deletion
bridge obliges the runtime store to purge the sessions it names; the bridge asks the
control plane for the binding and the store for the purge receipt. The projection
and the retrievers read what is committed in Git, never the working tree.

## 2. Plan

Modules, most important behaviour first. Each is parameterised by constants with named
assumptions, has one action per operation or handler, and keeps `RECURSIVE` operators
out, so that it can be proved about.

| # | module | models | composes / refines | state |
|---|--------|--------|--------------------|-------|
| 1 | `ControlPlane` | prepare, assess, authorize, apply, recover | implements `ProposalProtocol` | done, proved |
| 2 | `DistillQueue` | capture, durable jobs, dispatcher, backfill, retention, purge | implements `JobLifecycle` per job | done, proved |
| 3 | `OffloadSync` | the offload cursor, tool pairing, dead letters, steps on a versioned task | the store's queue under the runtime's loop and the engine's commits | done, proved |
| 4 | `RuntimeDeletion` | tombstone bridge, purge, binding, receipt, log truncation, retention | takes from `ControlPlane` that an applied tombstone is final | done, proved |
| 5 | `TranscriptCapture` | transcript batches, checkpoints, hooks, quota, expiry, purge | feeds 2 and 3 | done, proved |
| 6 | `CandidateLifecycle` | candidate relations under overlapping formers, the resolver against a declarative definition | one of the formations that 2 dispatches | done, proved |
| 7 | `Publication` | both indexes: build, publish, health, recovery, recall over many commits | what 4 invalidates | done, proved |
| 8 | `ProgressiveLoop` | one retrieval run: host, planner, budgets, release | asks 9 for a verdict | done, proved |
| 9 | `Answerability` | the dossier, its validation, the parsed verdict | | done, proved |
| 10 | `ProgressiveSession` | session files and overlapping commands | replays 8 | done, proved |
| 11 | `OffloadBundle` | expiry, quota and restore of offload task versions | the tasks `OffloadSync` takes as permanent | left |

"Proved" means every safety and action property that a run checks of the module, and
every refinement; liveness stays with TLC (section 9). Left to prove is what
`OffloadBundle` will promise.

Runs are few on purpose: one safety run and one progress run per state machine, and
machines that share no state together in one run (`MCIntake`, `MCRetrieval`): the
initial state chooses a machine, the variables of the others are `None` and never
change, so the run explores the sum of the state spaces and not their product.

## 3. ControlPlane

`ControlPlane.tla` is `scripts/memory_control_plane/core.py` with the parts of
`repository.py`, `storage.py` and `model.py` it calls.

| model | code |
|-------|------|
| `head`, `index`, `work` | revision, Git index and working tree as the repository adapter reads them |
| `name` | a candidate's content hash: equal identities share a ledger, others never do |
| `ledger`, `approvals`, `intents`, `receipts` | the four kinds of artifacts under `control_plane/` |
| `lock` | the `flock` of `writer_lock`, released by the end of the process |
| `late` | the clock has passed the date of a validity window |
| `Observe`, `Persist` | `prepare`: the unlocked computation of identity and gate reasons, and the locked write |
| `Assess` | `assess` |
| `Authorize`, `Reconcile` | `authorize`: the approval artifact, then the ledger link (also the repair on a retry) |
| `ApplyStart`, `WriteIntent`, `RecordIntent`, `Rebind`, `Swap`, `CheckPost`, `Issue`, `WriteReceipt` | the steps of `apply_workspace`, split wherever a crash, an edit or another process makes a difference |
| `RecoverStart`, `RecoverFinalize`, `RecoverSkip`, `RecoverDone` | `recover` |
| `Edit`, `Commit`, `Expire` | the user and the clock, without the lock |
| `Crash`, `Abandon`, `Raise` | the process dies, with or without the lock; an exception releases the lock |

A call that changes nothing (a refused approval, a replayed application) is a
stuttering step. Validator reports may differ between two runs of one validator
(`duration_ms`), hence `Report`.

`ProposalProtocol.tla` is the abstract promise: a candidate is linked to one approval,
then planned under it, then finalized once under that plan; `ControlPlane` implements
it by the mapping `LinkOf`.

Runs:

- `apply_crash` (1 090 000 states): one candidate that is an update citing a second
  file, an add or a tombstone, in a tree that holds its target or does not, so that each
  of the three is refused in one and applied in the other; two processes, two
  approvals, two validator reports, four calls, one edit or commit, one crash. Four
  calls are enough for prepare, assess or authorize, an apply that is interrupted and one that resumes it, in
  competition with a second approval; the properties about receipts need no more
  than one interruption, since a second one finds the artifacts the first left.
- `two_proposals` (1 280 000 states): two updates bound to the same state of one
  file, two crashes, no user edits (POSIX cannot compare and rename, so a user's edit
  in the last window is overwritten; between candidates that must not happen, which
  is why `NoLostUpdate` speaks of the time until a user edits).
- `recovery` (206 000 states, fair): an update that cites a second file, or a no_op,
  with three calls, one edit and one crash. An interrupted application is finalized
  if its post-state stays and its bindings stay valid; every lock is released.

Symmetry permutes the processes, in safety runs only.

Fairness: `WF(Continue(p))`, a call that has started runs on unless it crashes, which
is what an operating system gives a running process; and fairness of `Recovery`.
`recover` is a command of `memory_control.py` that someone invokes as
`docs/memory-control-plane.md` ("Recovery") describes; no hook does (a session start
calls the runtime's own `recover`, which repairs jobs and indexes). The liveness is
conditional on that: an application ends if recovery is invoked again and again.
`CrashRecovered` is stated under the documented preconditions (post-state in place,
bindings valid).

## 4. DistillQueue

`DistillQueue.tla` is the durable job queue of `store.py` with its callers in
`candidates.py`.

| model | code |
|-------|------|
| `evidence`, `identity`, `barred` | evidence rows, replay tombstones of capture identities, session deletion barriers |
| `formed` | L1 candidates, one per evidence |
| `jobs`, `letters` | the `jobs` table by idempotency key, and the dead letter queue |
| `Capture` | `capture_batch`: evidence and its job in one transaction |
| `Begin`, `Recover`, `Lease`, `Pick`, `ReadKnown`, `Save`, `Complete`, `Fail`, `WorkDone` | `dispatch_pending`, one step per transaction |
| `ByHand`, `ReadByHand`, `SaveByHand` | the distill command with acknowledgement |
| `Backfill*` | `enqueue_missing`, three reads and one transaction per session |
| `Collect`, `CollectCandidate`, `Purge` | retention and `purge_session` |
| `TimePasses` | a lease or a retry delay runs out |
| `FormationFails`, `Crash` | an exception in forming; the process dies |

Time is one fact per job, `due`; a dispatch fixes the set of jobs due at its time
stamp when it begins, as the code does with `now`. What a process read in one
transaction and uses in the next is in its locals, which is where the hazards are.
`once` is a history variable. All evidence is eligible and gives one candidate;
whether a batch fails because a related candidate is gone is left open (`MayFail`).

`JobLifecycle.tla` is the promise about one job: bounded tries, given up only when all
are used, final once succeeded or dead, until its session is purged. The queue
implements it for every key.

Runs (`MaxAttempts = 2`: the first attempt is retried and the last is not, as with the
code's 3; `Limit = 2`: two jobs in one dispatch, so one failure strands the other):

- `distill_queue` (380 000 states): two processes of different identities, two events
  in one or two jobs, one fault. Manual runs and retention are not in this run; that
  they do not lose evidence is what the proof of `NothingLost` adds.
- `distill_progress` (fair): one event that an older runtime left without a job, or
  captured with one; two processes of one identity, manual runs, retention and purge
  between any two steps, one fault. Nothing comes back after a purge, letters agree
  with attempts, and the evidence is settled.

Symmetry swaps the two processes (with their identities) in the safety run.

Fairness: `WF(Continue(w))` as above; `SF` of `Begin` and `Backfill`, because every
session start and every `recover` dispatches and backfills again although a process
does other things in between; `WF(TimePasses)`, clocks advance. `Capture`, faults,
retention and manual runs are not fair.

## 5. OffloadSync

`OffloadSync.tla` is the automatic offload of one session: the queue in `store.py`,
the loop `_sync_offload` in `scripts/agent_memory.py` that every capturing hook runs,
and the commits of `offload.py` it makes.

| model | code |
|-------|------|
| `row`, `seen` | implicit rowid of the stored evidence; capture identities that block a replay |
| `cursor` | `offload_sync_state.last_evidence_rowid` |
| `calls`, `pairs`, `dead` | `offload_pending_calls`, `offload_pair_queue`, `offload_sync_dead_letters` |
| `task` | `offload_tasks`: every version committed, its steps and the pair its goal cites |
| `barred` | the deletion barrier of the session |
| `writer` | the process that holds SQLite's write lock inside an ingestion |
| `Sync`, `BeginIngest`, `IngestRow`, `CommitIngest` | `ingest_offload_sync_delta`, one step per row under the lock, repeated while a batch leaves rows |
| `Load`, `NextPair`, `Start`, `Create`, `Started` | the loop's read of the task, the pair it takes, and the task it starts when there is none |
| `Record`, `Commit`, `Reload`, `Complete` | `record_tool_step`, `commit_offload_bundle`, `complete_offload_sync_pair` |
| `Fail`, `Again` | `fail_offload_sync_pair` and the turn after it |
| `Capture`, `Collect`, `Purge`, `UpdateTask` | hooks that capture, retention, `purge_session`, the operator |
| `CommitFails`, `Crash` | a commit rolls back; a hook dies |

`read` is a history variable: the evidence an ingestion has read. Everything else is in
the database or in a hook's locals, and what a hook took from one transaction to the
next (`loc`) is what the hazards are about.

Abstractions. A version keeps all its steps, and `Active` are those the code keeps in
the snapshot (the last `MaxActive`; the others it archives and counts). A receipt of
the same version and content is the same receipt (`Committed`), which is what the
content-addressed engine makes of it. Capturing several events at once is capturing
them one by one, since each is its own row and its own identity. Age for retention is
the order of capture. Rows of other sessions are there because they share the numbers.
Task versions do not expire here and the command that records a step by hand is left
out; both belong to `OffloadBundle`.

Runs (`MaxAttempts = 2` as above; `Retained = 2`, so that versions are pruned). A step
can only repeat another if both fit in one snapshot, so `MaxActive = 2` in
`offload_sync`, and its two pairs archive nothing: that no snapshot repeats a step when
others are archived is proved (`StepsApplyOnce`, for every `MaxActive`).

- `offload_sync` (264 000 states): two hooks; two calls and two results of one id,
  captured in any order, so that the order decides between pairs, duplicates and
  results that come first; one fault; one collection, purge or update of the task
  between any two steps. Two ids would be two copies of the same table rows, as no
  operation looks at more than one. `Limit = 2` makes an ingestion of four rows take
  more than one batch.
- `offload_progress` (77 000 states, fair): a call, its result, a call without an id
  and an event that is not a tool's; one fault. Every pair is in the end applied or
  given up, unless the operator closes the task.
- `offload_purged`: a finding, see section 10.

Symmetry permutes the hooks, the calls and the results, in the safety run only.

Fairness: `WF(Continue(w))`, as for the other modules, and `WF(Sync(w))`, since every
callback of the host runs the synchronisation again. No fault, capture, retention or
operator command is fair.

What the properties leave out is said with them: `VersionsGrow` is about a session that
is not purged, and `AppliedOnce` about the steps a snapshot holds together.

## 6. RuntimeDeletion

`RuntimeDeletion.tla` follows a deletion from the request in a transcript to the purge
of the sessions it names: `governance.py` (`RuntimeDeletionCoordinator`),
`scripts/memory_control.py` and the purge and retention of `store.py`.

| model | code |
|-------|------|
| `evidence`, `seen`, `formed`, `related`, `barred` | evidence, capture identities, candidates with delete relations, session barriers |
| `sealed`, `applied` | target candidates in the tombstone proposal, and tombstones with a workspace receipt |
| `receipt`, `binding`, `aged` | `retention_purge_receipts`, `retention_authority_purge_bindings`, receipts past `receipt_ttl_seconds` |
| `wal` | purges whose pages are still in SQLite's write-ahead log |
| `Prepare`, `Apply`, `Recover` | `prepare_tombstone`, `apply-workspace`, `recover` with its list of obligations |
| `Lookup`, `Reopen`, `Existing`, `Purge`, `PurgeFails`, `RecordFailure`, `Finalize`, `Mark` | the steps of one obligation, one per transaction |
| `GcSelect`, `GcPurge`, `Age` | `run_retention_gc` in its two transactions; time |

The control plane appears by what `ControlPlane` proves of it: an applied tombstone is
final (`FinalForever`).

Run `runtime_deletion` (450 000 states, fair): two processes; two requests that share a
target, the second made in the session of another target of the first, so that one
purge takes away what the other was sealed over; two troubles of any kind (crash,
failing transaction, busy log, collected row, aged receipt). Two are needed for a
failure and a second one in its repair. `retry_refused` is a finding.

Fairness (`FairSpec`): `SF` of `Recover`, which is the command of `memory_control.py`
again and is taken to be invoked again and again, although processes are busy in between;
`WF(Continue(p))` as above. Capture, troubles,
applications and retention are not fair. `EventuallyPurged` excepts obligations that
cannot be fulfilled: the code refuses them at every call, and with them what follows.

## 7. TranscriptCapture and CandidateLifecycle

`TranscriptCapture.tla` is `capture_jsonl` of `capture.py` with `capture_batch` and the
hook captures of the store.

| model | code |
|-------|------|
| `lines`, `torn`, `inode` | the transcript that the host appends to, cuts or replaces |
| `checkpoint`, `known`, `rows`, `jobs`, `barred` | source checkpoint, capture identities, evidence, distill jobs, replay tombstones |
| `Load`, `ReadFile`, `Lookup`, `Commit` | the checkpoint, the file, the identities known, the batch: each read separately |
| `HookPrompt`, `HookObservation` | an event that a hook sees before or after the transcript does |
| `Expire`, `Purge`, `Crash` | retention, `purge_session`, a process that dies |

The digest at the boundary of a checkpoint is taken to identify all before it; the quota
counts rows and not bytes. `stored` is a history variable. Two quirks of the code are in
the model and break no property: a batch larger than the quota can never be captured,
and a batch whose events were all barred since the lookup returns without a new
checkpoint. One is not: a blank line after a tail without a newline counts a line more.

`CandidateLifecycle.tla` is `form_candidates` of `candidates.py` with the transaction
that saves its batch, and `LifecycleResolver` of `lifecycle.py`.

| model | code |
|-------|------|
| `kind` | an evidence row as it is classified, an input (`Kinds`); `dated` if it has an `occurred_at` |
| `created` | `created_at` of a stored candidate with its source, as a place in `_candidate_order` |
| `Said`, `Created`, `Seen` | `_evidence_order`; `created_at` of a new candidate; the order a former sees |
| `relations`, `batch` | `candidate_relations`; what a former has derived from its read and will save |
| `Read`, `Save`, `Abort`, `Collect` | the read and the derivation, the transaction, its failure, retention |
| `Resolution` | the replay of the relations in `_relation_order` |

There are two orders in the code and in the model. A former works through its rows in the
order of `occurred_at` or `captured_at`; it relates candidates in the order of
`created_at`, which is `occurred_at` or else the stamp that the former took when it
began. Transcript lines tell their time, hook rows do not (`agent_memory.py:215`), so
two hook claims are ordered by the dispatches that formed them. `Read` and `Save` are
apart and `Read` takes any stamp: two formers may give one candidate two stamps. The
first save keeps its stamp (`INSERT OR IGNORE`), and the relations derived from the
other are stored as well: when another claim was saved in between, two claims can be
related in both directions. That is in the model, and the properties hold in spite of
it: `ResolvesLineage` says without the replay what the result must be, in the order of
`created_at`, `PointsBack` says only of claims that tell their own time that relations
lead back, and `LinksEveryClaim` is about the order of `created_at`. It is stated of a
batch that is saved over the store it was derived from: a former whose read is overtaken
repairs at its next run.

Sessions and job checkpoints are abstracted: a former may read any part of the rows that
are not formed yet, which is more than the code lets it have, as are free stamps and the
free choice of kinds. One candidate stands for one row, and claims of other slots are
left out, except that a deletion by subject does not touch the slot (`slot`).

Run `intake` (1 500 000 states): two captures of two events, a file of two lines that is
replaced once and a quota of one row (so the limit is met, and a batch of two events is
refused: the theorem covers larger quotas; lines without evidence, which `Noise` stands
for, are left out of the instance); or three rows in one slot and two instants, with
claims of two values, from hooks or dated, an update or conflict hint, and deletions of
one value or of the slot. Three rows are the least with which a claim comes in between
two others that are related already; two instants the least with which two formers can
order two claims differently. Symmetry permutes events, captures and formers; the
properties are invariants and an action property.

## 8. Retrieval: Publication, ProgressiveLoop, Answerability, ProgressiveSession

`Publication.tla`: the projection and the hybrid index as the number of the commit they
were built from; a builder (`recover`) checks the health, reads a commit, publishes one
index and then the other, with commits, crashes, other builders and the invalidation by
a purge between any two steps. `Valid`, `Bars` and `Eligible` are what `_committed_state`
makes of tombstones and of items that reactivate them. A recall fixes HEAD when it
begins and reopens its candidates at that commit. The recall policy and the ranking are
left out: the answer is everything that a recall could return. Items are edited and
entombed, never removed. A commit that changes a tombstoned item without naming its
tombstones cannot be read: every build and every recall fails until it is mended.

`ProgressiveLoop.tla`: `run_progressive_retrieval` over `GovernedKnowledgeHost`, with one
action per kind of outcome of a planned action (suppressed, rejected, out of budget,
called, raising), commits between two calls, and the release of evidence (`Release`,
`Triggered`, `Provable`). Text is its length; what a query finds, and which handles it
exposes, is an input. Three things the code does are kept as they are: a triggered
verifier whose run stops for another reason than sufficient evidence is not asked, and
final ids are released; evidence read again when the budget of characters is spent is
replaced by its shorter body when no verifier is configured; and a completion without
final ids is `complete` with no evidence. A planner that breaks its protocol raises out
of the run, which is a behaviour that stops.

`Answerability.tla`: the dossier (`Needed`, `Walks`, `Paths`, `Buildable`), the validation
that the verifier makes of any payload (`Validated`), and the parsing of the verdict
(`Parses`, `Structural`, `Accepts`). `DossierValid` is checked over graphs with cycles,
shared ids and several paths, `Grounded` over every decision of two facets. A cycle
that no root leads to is no error to the builder: its dossier holds no path, and if a
relation was followed nothing can be accepted of it. The host mints only edges of
authorized reads today, so the demand for paths (`Required`) is met by inputs of this
module and never by `ProgressiveLoop`.

`ProgressiveSession.tla`: session files without a lock. A command reads, replays, writes
(`Replace` is atomic); a second one may do the same in between, and then the slower
one's file stays. The mode is read again by every start. `Confined` is what holds of
every file that is there.

Run `retrieval` (1 180 000 states, fair for `Publication`): two builders, a reader, two
texts and two commits after the first (an edit and a deletion, or a deletion and an
edit that reactivates), one crash or invalidation; a loop of two rounds and three calls,
one document in scope and one not, one retry; dossiers of up to three of six relations
over three nodes; two tokens, two commands, three decisions. In the last round actions
are counted and not executed, so two rounds hold one with calls after the bootstrap.

What the run does not reach, or hardly tests. With two commits after the first, a text
that is deleted and edited back ends the history: that it is recalled again after more
commits is only proved (`DeletedIsNotRecalled`). In `ProgressiveLoop` the bound on the
length of the final evidence and the scope of what is released follow almost at once
from the guards of `Release` and of the parsing; the budgets, which several rounds
spend, are what its run is for.

Fairness: `WF` of `Check` and of `Continue` for every builder: sessions keep starting,
each runs `recover`, and a process that is not killed goes on. Commits, deletions,
crashes and readers are not fair. `HybridRepaired` assumes that the commits end in one
that can be read.

## 9. Proofs

Every theorem is for all values of the constants, without the bounds of the runs: the
bounds are conjuncts of guards, which the proofs do not use. The two modules of section
7 and the four of section 8 are proved as `MCIntake` and `MCRetrieval` compose them, so
a theorem about them covers whichever machine the initial state chooses.

The assumptions are the named ones in the modules: types of the constants, distinctness
of `None` and `Absent`, finitely many events, and these bounds that the code enforces.
`BudgetAssumption` (`LoopBudgets` rejects what is not a positive integer) and
`DecisionAssumption` (a replay runs at least one round) exclude a loop without budget;
`QuotaAssumption` (`RetentionPolicy` rejects limits that are not positive) a store
without room; `KindAssumption` and `DocumentAssumption` say what the classifier and the
host return.

An invariant that a run checks is seldom inductive alone: a step between two
transactions writes what its process read before, so most strengthenings say what the
locals of a process still guarantee while others go on.

- `ControlPlaneProofs`: `TypeOK`, `CallsConsistent`, `ArtifactOrder`,
  `ApprovalEvidence`. The invariant is their conjunction: what a step writes is right
  only because the call's locals agree with the artifacts (`CallsConsistent`), which the
  lock keeps true between steps. The lemma `ArtifactMoves` says once what any step may
  do to the artifacts of one candidate; everything later follows from it and not from
  the actions.
- `ReceiptProofs`: a second invariant (every link has its event, no intent is issued
  twice) gives `EventOrder` and `ReceiptEvidence`; the witnessing argument gives
  `ReceiptWitnessed`; `ChainAppendOnly`, `FinalForever` and `WritesAuthorized` are
  action properties. `NoLostUpdate` needs `Bound`: from its second check to its write a
  call has the target bound, since the lock keeps every other call out. Last,
  `ControlPlane` implements `ProposalProtocol`: initial states map to initial states and
  each action to a step or a stutter.
- `DistillProofs`: `IInv` is `TypeOK`, the attempts a status implies, `DeadLetters`
  and that a dispatcher works on a job. `Moves` lists the seven things a step may do
  to a job with its letters; the life cycle of every job (`ImplementsLifecycle`) and
  `LeaseHonoured` follow. `NothingLost` needs `NInv`, which follows a capture job
  through the locals of whoever works on it: its checkpoint covers the evidence in its
  key, that evidence cannot come in twice, what is still there was read, what was known
  had a candidate, so whoever answers has saved all of it. `NothingResurrected` is
  inductive as it stands, because `Save` asks for evidence and barrier in its own
  transaction. `Fenced` needs `HandsInv`: what a process holds only shrinks except when it
  leases, and if its identity is its own, the lease of a job it holds is the one it took.
- `OffloadProofs`: `TypeOK`, `Accounted`, `OneFate`, `ReceiptTruthful`, `AppliedOnce`,
  `VersionsGrow`. The invariant is about the queue (what it holds was read, is stored and lies
  behind the cursor, and nothing read comes in again), about the versions of the task
  (each keeps the steps of those before it), and about a hook: unless the session was
  purged, the snapshot it read is still the version it read it from, and the step it
  completes a pair for is in one.
- `DeletionProofs`: `PurgedStaysGone`, `OnlySealed`, `ReceiptTruthful`. What a process
  is about to purge is what an applied tombstone sealed, at the steps after the purge it
  is purged, and before the binding is marked its pages have left the log; a barrier is
  up wherever something was purged, and keeps everything out.
- `IntakeProofs`: `CaptureCovers`, `DeletionsResolved`, `ClaimsRelated`. The capture
  invariant says that, unless a purge closed the session, all that a hook has read past
  is known or in the batch it will store. `ClaimsRelated` rests on a batch relating every
  claim as long as the store is the one it was derived from. `FormInv` says of the store
  that no two candidates share a place and that a dated one is at the place it tells;
  no direction of relations is assumed beyond that. The replay of the relations is a
  recursive function over a sequence of states: five steps of it are one place
  (`Round`), and by induction on the places it computes the declarative lineage
  (`ResolvesLineage`), which is defined by recursion over the places as well and exists
  because of that order, not because relations are acyclic: they need not be.
- `RetrievalProofs`: `NothingDeleted`, `WithinBounds`, `ReleasedInScope`, from one
  invariant per machine. Tombstones are never removed, so the commit that a recall has
  fixed holds those of all commits before (`Entombed`); the loop has spent no more than it
  counted, has executed no action twice without a retry, and releases what it opened
  (`LoopInv`); every session file is well formed, and the one a command replays was
  still open (`SessionInv`); only a verdict over a dossier that was built is accepted,
  and such a dossier is valid for any finite graph, with cycles, shared ids and several
  paths (`AnswerInv`, `DossierIsValid`).
- `Iteration`: induction and strong induction on the natural numbers and the existence
  of a function defined by iteration, for sets and functions. The library states
  induction about operators, which the provers cannot instantiate; these follow from its
  fact that finite sets have no infinite descent.

Only model-checked: liveness (`CrashRecovered`, `LockReleased`, `EventuallySettled`,
`EventuallyDone`, `EventuallyPurged`, `HybridRepaired`), which is out of the prover's
reach.

## 10. Findings

With a run of their own:

- `PurgedTaskGone` (`offload_purged`): a hook with a pair in hand when its session is
  purged starts the offload task again, with the tool output of the purged session.
- `RetryIdempotent` (`retry_refused`): once the receipt of a purge has outlived its time
  and was deleted, every retry of that purge raises, and so does every `recover` before
  it reaches the obligations that follow.

Refuted by TLC when put in the place of a property, and kept without a run, as a
definition where one is named in a module:

- `HardGateMonotone` (`ControlPlane`): a candidate revoked by a hard gate is approvable
  again after a screening whose only reason is missing consent (`core.py:496`, against
  `docs/memory-control-plane.md:14`).
- `RepairWork` (`DistillQueue`): once the backfill job of a set of missing evidence is
  dead, later backfills of that set create no work and report that they did
  (`candidates.py:429`, against the comment at line 396).
- `SkipsNothing` (`OffloadSync`): the offload cursor is an implicit rowid. After
  retention deletes the newest rows SQLite hands their numbers out again, and new tool
  events at or below the cursor are never read (`store.py:1393`, against
  `docs/agent-memory-hook-protocol.md:58`).
- `QuarantineOnly` (`CandidateLifecycle`): the hint of a conflicting claim is not stored,
  so a repair relates it as an update (the comment near `candidates.py:1098`).
- `ProvenanceOrder` (`CandidateLifecycle`): a hook's claim is related to whatever is dated
  before the dispatch that forms it, be it said later (`candidates.py:139` and
  `1186-1192`; hooks pass no `occurred_at`, `agent_memory.py:215-220`, `315-325`),
  against the comment at `candidates.py:153-157`, "ensuring provenance order, not
  ingestion order, defines the first relationship in a slot".
- `~Contradicted` (`CandidateLifecycle`): two dispatches with stamps 1 and 3 both read a
  hook's claim that is not saved yet, a claim with stamp 2 is saved before they read; the
  first relates the saved claim to the new one, the other the new one to the saved one,
  and both relations are stored (`store.py:1944`), so each claim is a duplicate of, in
  conflict with, or replaced by the other and the resolver makes both inactive.
- `IndexesRepaired` (`Publication`): health looks at the hybrid index alone, so an
  authority index that fell behind stays behind (`agent_memory.py:1033`, against
  `docs/agent-memory-hook-protocol.md:16`).
- `docs/progressive-retrieval-v2.md:29` says that a completed session removes its query
  immediately: with two overlapping commands the slower one writes an active file, with
  its query, over a completed one. Files of the day before are removed only by a later
  start in candidate mode.

Some hazards are covered only in part because the code has them: a `no_op` seals a
post-state read after its only binding check; a backfill that read before a purge
enqueues a job that names the purged session after it; hooks that lose a race use up
the attempts of a pair; a receipt whose log was not truncated yet answers a retry, and
nothing truncates it; bytes of an unapplied intent that the user wrote himself are
certified by `recover`, truthfully. `PROJECT.json` notes at their lines what holds in
spite of it.

## 11. Not modelled

Listed with reasons in `PROJECT.json`. Ranking, embedding and routing are numeric or
match texts; argument parsing, rendering, the Markdown lint and the installer have no
state worth a model; the host authorization is a stateless check; file modes,
descriptor-relative access, SQLite's own locking and Git's object store are taken as
given. Left in parts that are modelled: expiry, quota and restore of offload bundles,
the quota by bytes, recall policies, relations that span slots, receipts of hooks.
