---------------------------- MODULE OffloadSync ----------------------------
(***************************************************************************)
(* Automatic offload of one session: every hook that captured evidence     *)
(* runs _sync_offload, which reads the new evidence rows behind a durable  *)
(* cursor, pairs tool calls with tool results, and appends one step per    *)
(* pair to the versioned task of the session.                              *)
(*                                                                         *)
(* Hooks are processes of their own and may overlap or die.  Every store   *)
(* call is one step, but for the ingestion of a batch: it holds SQLite's   *)
(* write lock from its SELECT to its COMMIT and takes one step per row, so *)
(* no other process writes in between, and none reads the tables it        *)
(* changes.  A process that dies inside leaves what it found, as if it had *)
(* died before, so it only dies outside.                                   *)
(*                                                                         *)
(* Rows of other sessions share the table and its row numbers.  A task     *)
(* version keeps all its steps; the code keeps the last MaxActive in the   *)
(* snapshot and a count of the others.  Task versions do not expire here.  *)
(***************************************************************************)
EXTENDS Naturals, Sequences, FiniteSets

CONSTANTS
    Worker,       \* hook processes of the session
    Event,        \* evidence that may be captured
    KindOf,       \* what it is; foreign evidence belongs to another session
    CallId, CallOf,  \* the call_id in the metadata of an event, or None
    Limit,        \* rows of one ingestion (256 in the code)
    MaxAttempts,  \* attempts of a pair (3)
    MaxActive,    \* steps a snapshot keeps (128)
    Retained,     \* task versions that stay readable (4)
    MaxFaults,    \* bound on crashes and failing commits
    MaxCalls,     \* bound on collections, purges and updates by the operator
    None

ASSUME EventAssumption ==
    /\ IsFiniteSet(Event)
    /\ KindOf \in [Event -> {"call", "result", "text", "foreign"}]
    /\ CallOf \in [Event -> CallId \cup {None}]

ASSUME BoundAssumption ==
    /\ Limit \in Nat \ {0} /\ MaxAttempts \in Nat \ {0} /\ MaxActive \in Nat \ {0}
    /\ Retained \in Nat \ {0} /\ MaxFaults \in Nat /\ MaxCalls \in Nat

\* A pair, named by its result: status, attempts, and the task version its
\* receipt cites once it is processed.
Pair == [call : Event, status : {"pending", "processed", "dead"},
         attempts : Nat, version : Nat]

\* One version of the task; from is the pair whose references its goal cites.
Snapshot == [open : BOOLEAN, steps : Seq(Event), from : Event]

ASSUME NoneAssumption == None \notin Event \cup Pair \cup Snapshot \cup Worker \cup CallId

VARIABLES
    row,      \* rowid of the stored evidence, 0 when it is not stored
    seen,     \* capture identities, which block a replay
    cursor,   \* offload_sync_state
    calls,    \* offload_pending_calls
    pairs,    \* offload_pair_queue: result -> pair or None
    dead,     \* offload_sync_dead_letters
    task,     \* offload_tasks: all versions that were committed
    barred,   \* the session has its deletion barrier
    writer,   \* the process inside an ingestion, or None
    pc, loc,  \* where each process is, and its locals
    faults, spent,  \* counters for the bounds
    read      \* history: evidence some ingestion has read

queue == <<cursor, calls, pairs, dead, read>>
rows == <<row, seen>>
counters == <<faults, spent>>
procs == <<pc, loc>>
vars == <<row, seen, queue, task, barred, writer, procs, counters>>

PC == {"idle", "begin", "rows", "load", "next", "start", "create", "started",
       "record", "commit", "reload", "complete", "fail", "again"}

\* left: rows the ingestion may still read; version, snap: the task as last
\* loaded (version 0: there was none); pair: the pair in hand; known: its step
\* was in the snapshot.
NoLoc == [left |-> 0, version |-> 0, snap |-> None, pair |-> None, known |-> FALSE]

Init ==
    /\ row = [e \in Event |-> 0] /\ seen = {}
    /\ cursor = 0 /\ calls = {} /\ pairs = [e \in Event |-> None] /\ dead = {}
    /\ task = <<>> /\ barred = FALSE /\ writer = None
    /\ pc = [w \in Worker |-> "idle"] /\ loc = [w \in Worker |-> NoLoc]
    /\ faults = 0 /\ spent = 0 /\ read = {}

Goto(w, l) == pc' = [pc EXCEPT ![w] = l] /\ UNCHANGED loc
Proceed(w, l, locals) == pc' = [pc EXCEPT ![w] = l] /\ loc' = [loc EXCEPT ![w] = locals]
Return(w) == Proceed(w, "idle", NoLoc)

Is(r, status) == pairs[r] # None /\ pairs[r].status = status

-----------------------------------------------------------------------------
(* The evidence table.                                                     *)

Stored == {e \in Event : row[e] > 0}

\* SQLite numbers a row one above the highest row that is there.
Fresh(n) == \A e \in Event : row[e] < n
FreshRow(n) == n > 0 /\ Fresh(n) /\ (n = 1 \/ ~Fresh(n - 1))

Capture(e) ==
    /\ writer = None /\ e \notin seen
    /\ KindOf[e] = "foreign" \/ ~barred
    /\ seen' = seen \cup {e}
    /\ \E n \in 1 .. Cardinality(Event) : FreshRow(n) /\ row' = [row EXCEPT ![e] = n]
    /\ UNCHANGED <<queue, task, barred, writer, procs, counters>>

\* Deleting evidence deletes what refers to it: ON DELETE CASCADE.
Delete(D) ==
    /\ row' = [e \in Event |-> IF e \in D THEN 0 ELSE row[e]]
    /\ calls' = calls \ D
    /\ pairs' = [r \in Event |-> IF pairs[r] # None /\ {r, pairs[r].call} \cap D # {}
                                 THEN None ELSE pairs[r]]
    /\ dead' = dead \ D

\* Retention deletes what was captured before its cutoff, whatever the session.
Collect(n) ==
    /\ writer = None /\ spent < MaxCalls /\ \E e \in Stored : row[e] = n
    /\ Delete({e \in Stored : row[e] <= n})
    /\ spent' = spent + 1
    /\ UNCHANGED <<seen, cursor, read, task, barred, writer, procs, faults>>

Purge ==
    /\ writer = None /\ spent < MaxCalls /\ ~barred
    /\ Delete({e \in Stored : KindOf[e] # "foreign"})
    /\ cursor' = 0 /\ task' = <<>> /\ barred' = TRUE
    /\ spent' = spent + 1
    /\ UNCHANGED <<seen, read, writer, procs, faults>>

-----------------------------------------------------------------------------
(* ingest_offload_sync_delta.                                              *)

Unread == {e \in Stored : row[e] > cursor /\ KindOf[e] # "foreign"}

\* A hook that captured runs the synchronisation.
Sync(w) ==
    /\ pc[w] = "idle" /\ Goto(w, "begin")
    /\ UNCHANGED <<row, seen, queue, task, barred, writer, counters>>

BeginIngest(w) ==
    /\ pc[w] = "begin" /\ writer = None
    /\ writer' = w
    /\ Proceed(w, "rows", [loc[w] EXCEPT !.left = Limit])
    /\ UNCHANGED <<row, seen, queue, task, barred, counters>>

\* A call that is pending under the same id: neither of the two can be told to
\* belong to a result.
Duplicate(e) == {c \in calls : CallOf[c] = CallOf[e]}

Broken(e) == /\ CallOf[e] = None
             /\ dead' = dead \cup {e} /\ UNCHANGED <<calls, pairs>>

\* Mutant: only the later of two calls gets a dead letter.
ReadCallForgettingFirst(e) ==
    /\ KindOf[e] = "call" /\ CallOf[e] # None
    /\ IF Duplicate(e) # {}
       THEN calls' = calls \ Duplicate(e) /\ dead' = dead \cup {e}
       ELSE calls' = calls \cup {e} /\ UNCHANGED dead
    /\ UNCHANGED pairs

ReadCall(e) ==
    /\ KindOf[e] = "call" /\ CallOf[e] # None
    /\ IF Duplicate(e) # {}
       THEN calls' = calls \ Duplicate(e) /\ dead' = dead \cup Duplicate(e) \cup {e}
       ELSE calls' = calls \cup {e} /\ UNCHANGED dead
    /\ UNCHANGED pairs

\* Mutant: the call stays pending for another result.
ReadResultKeepingCall(e) ==
    /\ KindOf[e] = "result" /\ CallOf[e] # None
    /\ \/ /\ Duplicate(e) = {}
          /\ dead' = dead \cup {e} /\ UNCHANGED <<calls, pairs>>
       \/ \E c \in Duplicate(e) :
          /\ pairs' = [pairs EXCEPT ![e] = [call |-> c, status |-> "pending",
                                            attempts |-> 0, version |-> 0]]
          /\ UNCHANGED <<calls, dead>>

ReadResult(e) ==
    /\ KindOf[e] = "result" /\ CallOf[e] # None
    /\ \/ /\ Duplicate(e) = {}
          /\ dead' = dead \cup {e} /\ UNCHANGED <<calls, pairs>>
       \/ \E c \in Duplicate(e) :
          /\ pairs' = [pairs EXCEPT ![e] = [call |-> c, status |-> "pending",
                                            attempts |-> 0, version |-> 0]]
          /\ calls' = calls \ {c} /\ UNCHANGED dead

ReadText(e) == KindOf[e] = "text" /\ UNCHANGED <<calls, pairs, dead>>

ReadTool(e) == /\ KindOf[e] \in {"call", "result"}
               /\ Broken(e) \/ ReadCall(e) \/ ReadResult(e)

IngestRow(w) ==
    /\ pc[w] = "rows" /\ loc[w].left > 0
    /\ \E e \in Unread :
          /\ \A f \in Unread : row[e] <= row[f]
          /\ ReadText(e) \/ ReadTool(e)
          /\ cursor' = row[e] /\ read' = read \cup {e}
    /\ Proceed(w, "rows", [loc[w] EXCEPT !.left = @ - 1])
    /\ UNCHANGED <<row, seen, task, barred, writer, counters>>

\* Back for another batch while there is more.
CommitIngest(w) ==
    /\ pc[w] = "rows" /\ (loc[w].left = 0 \/ Unread = {})
    /\ writer' = None
    /\ Proceed(w, IF Unread = {} THEN "load" ELSE "begin", NoLoc)
    /\ UNCHANGED <<row, seen, queue, task, barred, counters>>

-----------------------------------------------------------------------------
(* The task: OffloadEngine over commit_offload_bundle.                     *)

Latest == task[Len(task)]

\* Mutant: the current step does not count as known yet.
ActiveButCurrent(snap) == {snap.steps[i] : i \in {j \in DOMAIN snap.steps :
                             j + MaxActive > Len(snap.steps) /\ j < Len(snap.steps)}}

Active(snap) == {snap.steps[i] : i \in {j \in DOMAIN snap.steps : j + MaxActive > Len(snap.steps)}}

\* An old version can be loaded, and its receipt found, until it is pruned.
Readable(v) == v \in DOMAIN task /\ v + Retained > Len(task)

\* The receipt of this very version is there: another process had the same pair in
\* hand and was faster, and what it wrote is byte for byte the same.
Committed(v, snap) == Readable(v) /\ task[v] = snap

\* Mutant: the expected version is not compared.
AcceptsAny(v, snap) == TRUE

Accepts(v, snap) == Committed(v, snap) \/ Len(task) + 1 = v

Store(v, snap) ==
    task' = IF Committed(v, snap) THEN task ELSE Append(task, snap)

\* The operator moves the task between open (active, blocked) and closed states.
UpdateTask(open) ==
    /\ writer = None /\ task # <<>> /\ spent < MaxCalls
    /\ task' = Append(task, [Latest EXCEPT !.open = open])
    /\ spent' = spent + 1
    /\ UNCHANGED <<row, seen, queue, barred, writer, procs, faults>>

-----------------------------------------------------------------------------
(* The rest of _sync_offload.                                              *)

LatestVersion == IF task = <<>> THEN None ELSE Latest

Loaded(w) == [loc[w] EXCEPT !.version = Len(task), !.snap = LatestVersion]

Load(w) ==
    /\ pc[w] = "load"
    /\ IF task # <<>> /\ ~Latest.open
       THEN Return(w)
       ELSE Proceed(w, "next", Loaded(w))
    /\ UNCHANGED <<row, seen, queue, task, barred, writer, counters>>

\* With a pair and a snapshot in hand: stop at a closed task, acknowledge a step
\* that is there already, or record it.
Decide(w, locals) ==
    IF ~locals.snap.open THEN Return(w)
    ELSE IF locals.pair \in Active(locals.snap)
         THEN Proceed(w, "complete", [locals EXCEPT !.known = TRUE])
         ELSE Proceed(w, "record", locals)

\* Mutant: a pair whose attempts are used up is not handed out, nor given up.
PendingWithAttempts == {r \in Event : Is(r, "pending") /\ pairs[r].attempts < MaxAttempts}

Pending == {r \in Event : Is(r, "pending")}

NextPair(w) ==
    /\ pc[w] = "next" /\ writer = None
    /\ \/ /\ Pending = {} /\ Return(w) /\ UNCHANGED queue
       \/ \E r \in Pending :
          /\ \A q \in Pending : row[r] <= row[q]
          /\ pairs' = [pairs EXCEPT ![r].attempts = @ + 1]
          /\ LET locals == [loc[w] EXCEPT !.pair = r]
             IN  IF locals.version = 0
                 THEN Proceed(w, "start", locals)
                 ELSE Decide(w, locals)
          /\ UNCHANGED <<cursor, calls, dead, read>>
    /\ UNCHANGED <<row, seen, task, barred, writer, counters>>

\* start_task refuses a task that is there; nothing catches the exception.
Start(w) ==
    /\ pc[w] = "start"
    /\ IF task # <<>> THEN Return(w) ELSE Goto(w, "create")
    /\ UNCHANGED <<row, seen, queue, task, barred, writer, counters>>

First(r) == [open |-> TRUE, steps |-> <<>>, from |-> r]

Create(w) ==
    /\ pc[w] = "create" /\ writer = None
    /\ IF Accepts(1, First(loc[w].pair))
       THEN Store(1, First(loc[w].pair)) /\ Goto(w, "started")
       ELSE Return(w) /\ UNCHANGED task
    /\ UNCHANGED <<row, seen, queue, barred, writer, counters>>

Started(w) ==
    /\ pc[w] = "started"
    /\ IF task = <<>> THEN Return(w) ELSE Decide(w, Loaded(w))
    /\ UNCHANGED <<row, seen, queue, task, barred, writer, counters>>

\* record_tool_step works on the stored version it expects.
Record(w) ==
    /\ pc[w] = "record"
    /\ LET v == loc[w].version
       IN  IF Readable(v) /\ task[v].open /\ loc[w].pair \notin Active(task[v])
           THEN Proceed(w, "commit", [loc[w] EXCEPT !.snap = task[v]])
           ELSE Goto(w, "fail")
    /\ UNCHANGED <<row, seen, queue, task, barred, writer, counters>>

\* Mutant: the step is built after the pair was put away.
WithoutPair(w) == [loc[w].snap EXCEPT !.steps = Append(@, None)]

WithStep(w) == [loc[w].snap EXCEPT !.steps = Append(@, loc[w].pair)]

Commit(w) ==
    /\ pc[w] = "commit" /\ writer = None
    /\ IF Accepts(loc[w].version + 1, WithStep(w))
       THEN Store(loc[w].version + 1, WithStep(w)) /\ Goto(w, "reload")
       ELSE Goto(w, "fail") /\ UNCHANGED task
    /\ UNCHANGED <<row, seen, queue, barred, writer, counters>>

\* A quota, a busy database, a full disk: the transaction rolls back.
CommitFails(w) ==
    /\ pc[w] \in {"create", "commit"} /\ faults < MaxFaults
    /\ faults' = faults + 1
    /\ IF pc[w] = "create" THEN Return(w) ELSE Goto(w, "fail")
    /\ UNCHANGED <<row, seen, queue, task, barred, writer, spent>>

\* Mutant: the receipt cites the version the step was recorded on.
ReloadNothing(w) ==
    /\ pc[w] = "reload" /\ Goto(w, "complete")
    /\ UNCHANGED <<row, seen, queue, task, barred, writer, counters>>

Reload(w) ==
    /\ pc[w] = "reload"
    /\ IF task = <<>> THEN Goto(w, "fail") ELSE Proceed(w, "complete", Loaded(w))
    /\ UNCHANGED <<row, seen, queue, task, barred, writer, counters>>

\* The step was known: nothing catches an exception.  It was recorded: fail.
Raise(w) == IF loc[w].known THEN Return(w) ELSE Goto(w, "fail")

Complete(w) ==
    /\ pc[w] = "complete" /\ writer = None
    /\ LET r == loc[w].pair
           v == loc[w].version
       IN  \/ /\ Is(r, "pending")
              /\ pairs' = [pairs EXCEPT ![r].status = "processed", ![r].version = v]
              /\ Proceed(w, "next", [loc[w] EXCEPT !.pair = None, !.known = FALSE])
           \/ /\ Is(r, "processed") /\ pairs[r].version = v
              /\ Proceed(w, "next", [loc[w] EXCEPT !.pair = None, !.known = FALSE])
              /\ UNCHANGED pairs
           \/ /\ ~Is(r, "pending") /\ ~(Is(r, "processed") /\ pairs[r].version = v)
              /\ Raise(w) /\ UNCHANGED pairs
    /\ UNCHANGED <<row, seen, cursor, calls, dead, read, task, barred, writer, counters>>

\* fail_offload_sync_pair with retryable=True; what another process finished stays.
Fail(w) ==
    /\ pc[w] = "fail" /\ writer = None
    /\ LET r == loc[w].pair
       IN  \/ /\ pairs[r] = None /\ Return(w) /\ UNCHANGED <<pairs, dead>>
           \/ /\ pairs[r] # None /\ ~Is(r, "pending")
              /\ Goto(w, "again") /\ UNCHANGED <<pairs, dead>>
           \/ /\ Is(r, "pending") /\ pairs[r].attempts < MaxAttempts
              /\ Return(w) /\ UNCHANGED <<pairs, dead>>
           \/ /\ Is(r, "pending") /\ pairs[r].attempts >= MaxAttempts
              /\ pairs' = [pairs EXCEPT ![r].status = "dead"]
              /\ dead' = dead \cup {r} /\ Goto(w, "again")
    /\ UNCHANGED <<row, seen, cursor, calls, read, task, barred, writer, counters>>

Again(w) ==
    /\ pc[w] = "again"
    /\ Proceed(w, "next", [Loaded(w) EXCEPT !.pair = None])
    /\ UNCHANGED <<row, seen, queue, task, barred, writer, counters>>

Crash(w) ==
    /\ pc[w] # "idle" /\ writer # w /\ faults < MaxFaults
    /\ faults' = faults + 1 /\ Return(w)
    /\ UNCHANGED <<row, seen, queue, task, barred, writer, spent>>

Continue(w) ==
    \/ BeginIngest(w) \/ IngestRow(w) \/ CommitIngest(w) \/ Load(w) \/ NextPair(w)
    \/ Start(w) \/ Create(w) \/ Started(w) \/ Record(w) \/ Commit(w) \/ Reload(w)
    \/ Complete(w) \/ Fail(w) \/ Again(w)

Next ==
    \/ \E e \in Event : Capture(e)
    \/ \E n \in 1 .. Cardinality(Event) : Collect(n)
    \/ Purge
    \/ \E open \in BOOLEAN : UpdateTask(open)
    \/ \E w \in Worker : Sync(w) \/ Continue(w) \/ CommitFails(w) \/ Crash(w)

Spec == Init /\ [][Next]_vars

\* A hook that began runs to its end or dies, and hooks keep coming.
FairSpec == Spec /\ \A w \in Worker : WF_vars(Continue(w)) /\ WF_vars(Sync(w))
-----------------------------------------------------------------------------
(* Properties.                                                             *)

Loc == [left : Nat, version : Nat, snap : Snapshot \cup {None},
        pair : Event \cup {None}, known : BOOLEAN]

\* Every table and every local is of its declared shape.
TypeOK ==
    /\ row \in [Event -> Nat] /\ seen \subseteq Event /\ read \subseteq Event
    /\ cursor \in Nat /\ calls \subseteq Event /\ dead \subseteq Event
    /\ pairs \in [Event -> Pair \cup {None}]
    /\ task \in Seq(Snapshot) /\ barred \in BOOLEAN
    /\ writer \in Worker \cup {None}
    /\ pc \in [Worker -> PC] /\ loc \in [Worker -> Loc]
    /\ faults \in Nat /\ spent \in Nat

Tool(e) == KindOf[e] \in {"call", "result"}

Paired(e) == \E r \in Event : pairs[r] # None /\ e \in {r, pairs[r].call}

Other(e, f) == CallOf[e] = CallOf[f] /\ KindOf[e] # KindOf[f]

\* Tool evidence that was read and is still stored waits for its result, is in a
\* pair or has a dead letter, unless retention deleted the other half of its pair:
\* no restart, duplicate id or late result makes the cursor pass over it silently.
Accounted ==
    \A e \in read \cap Stored : Tool(e) =>
        \/ e \in calls \/ Paired(e) \/ e \in dead
        \/ \E f \in read \ Stored : Other(e, f)

\* ... and it is only one of these.  A call answers one result at most, a pair joins
\* a call with a later result of its id, and a dead pair is the one with a letter.
OneFate ==
    /\ \A c \in calls : c \notin dead /\ ~Paired(c)
    /\ \A c, d \in calls : CallOf[c] = CallOf[d] => c = d
    /\ \A r \in Event : pairs[r] # None =>
          /\ Other(r, pairs[r].call) /\ row[pairs[r].call] < row[r]
          /\ pairs[r].call \notin dead /\ (r \in dead <=> Is(r, "dead"))
          /\ \A q \in Event \ {r} : pairs[q] # None => pairs[q].call # pairs[r].call

\* A receipt cites a version of the task that holds the step.
ReceiptTruthful ==
    \A r \in Event : Is(r, "processed") =>
        /\ pairs[r].version \in DOMAIN task
        /\ \E i \in DOMAIN task[pairs[r].version].steps :
              task[pairs[r].version].steps[i] = r

\* However many hooks work on a pair, and whenever they die, no snapshot holds its
\* step twice.  (Archived steps are not compared: a hook that sleeps while the others
\* add MaxActive steps may add its own again.)
AppliedOnce ==
    \A v \in DOMAIN task : \A i, j \in DOMAIN task[v].steps :
        (task[v].steps[i] = task[v].steps[j] /\ i < j) => j >= i + MaxActive

\* A commit adds one version, which keeps every step of the version before: no hook
\* overwrites what another one or the operator committed since it read the task.
\* (After a purge see PurgedTaskGone.)
Extends(snap, old) == /\ Len(snap.steps) \in {Len(old.steps), Len(old.steps) + 1}
                      /\ \A i \in DOMAIN old.steps : snap.steps[i] = old.steps[i]

VersionsGrow ==
    [][(task' # task /\ ~barred') =>
          /\ Len(task') = Len(task) + 1
          /\ \A v \in DOMAIN task : task'[v] = task[v]
          /\ task # <<>> => Extends(task'[Len(task')], Latest)]_vars

\* A pair is in the end applied, given up with a dead letter or deleted with its
\* evidence, unless the operator closed the task.
EventuallyDone ==
    \A r \in Event : Is(r, "pending") ~> \/ ~Is(r, "pending")
                                         \/ task # <<>> /\ ~Latest.open

-----------------------------------------------------------------------------
(* What the code says of itself and does not do.                           *)

\* docs/agent-memory-hook-protocol.md: the cursor "reads only new evidence"; what it
\* has passed it has read.
SkipsNothing ==
    \A e \in Stored : (Tool(e) /\ row[e] <= cursor) => e \in read

\* AgentMemoryStore.purge_session: "Delete one session's private evidence and every
\* store-owned projection."  A purged session has no offload task.
PurgedTaskGone == barred => task = <<>>
=============================================================================
