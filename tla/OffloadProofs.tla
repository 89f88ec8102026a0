---------------------------- MODULE OffloadProofs ----------------------------
(***************************************************************************)
(* The safety of the offload synchronisation for every value of its        *)
(* constants: any number of hooks, rows and task versions, any bounds.     *)
(* The queue is treated first, then the versions of the task, then what a  *)
(* hook relies on while others go on, and last the theorems.               *)
(***************************************************************************)
EXTENDS OffloadSync, FiniteSetTheorems, SequenceTheorems, TLAPS

\* What the queue holds is evidence that was read and is stored; what was read lies
\* behind the cursor and does not come in again.
Tables ==
    /\ read \cup Stored \subseteq seen
    /\ \A e \in read : KindOf[e] # "foreign"
    /\ \A e \in read \cap Stored : row[e] <= cursor
    /\ calls \cup dead \subseteq read \cap Stored
    /\ \A c \in calls : KindOf[c] = "call"
    /\ \A r \in Event : pairs[r] # None =>
          /\ {r, pairs[r].call} \subseteq read \cap Stored
          /\ KindOf[r] = "result" /\ KindOf[pairs[r].call] = "call"
    /\ barred => \A e \in Stored : KindOf[e] = "foreign"

Holds(snap, r) == \E i \in DOMAIN snap.steps : snap.steps[i] = r

\* No step twice among the steps that a snapshot keeps.
Single(steps) ==
    \A i, j \in DOMAIN steps : (steps[i] = steps[j] /\ i < j) => j >= i + MaxActive

\* Every version keeps the steps of the versions before it.
Growing ==
    \A u, v \in DOMAIN task : u <= v =>
        /\ Len(task[u].steps) <= Len(task[v].steps)
        /\ \A i \in DOMAIN task[u].steps : task[v].steps[i] = task[u].steps[i]

WithPair == {"start", "create", "started", "record", "commit", "reload", "complete", "fail"}

\* What a hook at p with locals l may rely on, whatever the others do meanwhile.
Sound(p, l) ==
    /\ p \in WithPair => l.pair \in Event
    /\ l.version # 0 =>
          /\ l.snap \in Snapshot /\ Single(l.snap.steps)
          /\ ~barred => l.version \in DOMAIN task /\ l.snap = task[l.version]
    /\ p = "commit" => l.version # 0 /\ l.pair \notin Active(l.snap)
    /\ p = "reload" /\ ~barred => \E v \in DOMAIN task : Holds(task[v], l.pair)
    /\ p = "complete" => l.version # 0 /\ (~barred => Holds(l.snap, l.pair))

Working == \A w \in Worker : Sound(pc[w], loc[w])

Queue == Tables /\ OneFate /\ Accounted

Versions == AppliedOnce /\ (~barred => Growing)

IInv == TypeOK /\ Queue /\ Versions /\ ReceiptTruthful /\ Working

-----------------------------------------------------------------------------
(* The queue.                                                              *)

\* A pair is a record of its fields.
LEMMA PairFacts ==
    ASSUME TypeOK, NEW r \in Event, pairs[r] # None
    PROVE  /\ pairs[r] \in Pair /\ pairs[r].call \in Event /\ pairs[r].attempts \in Nat
           /\ pairs[r].version \in Nat /\ pairs[r].status \in {"pending", "processed", "dead"}
BY DEF TypeOK, Pair

\* What is not written stays as it is.
LEMMA QueueStays == ASSUME Queue, UNCHANGED <<row, seen, queue, barred>> PROVE Queue'
<1>1. UNCHANGED <<row, seen, cursor, calls, pairs, dead, read, barred>>
  BY DEF queue
<1>2. Tables'
  BY <1>1 DEF Queue, Tables, Stored
<1>3. OneFate'
  BY <1>1 DEF Queue, OneFate, Paired, Other, Is
<1>4. Accounted'
  BY <1>1 DEF Queue, Accounted, Paired, Other, Tool, Stored
<1> QED BY <1>2, <1>3, <1>4 DEF Queue

\* A captured row is new: nothing that was read comes in again.
LEMMA CaptureKeepsQueue ==
    ASSUME TypeOK, Queue, NEW e \in Event, Capture(e)
    PROVE  Queue'
<1>1. PICK n \in 1 .. Cardinality(Event) : n > 0 /\ row' = [row EXCEPT ![e] = n]
  BY DEF Capture, FreshRow
<1>2. /\ e \notin seen /\ seen' = seen \cup {e} /\ (KindOf[e] = "foreign" \/ ~barred)
      /\ UNCHANGED <<cursor, calls, pairs, dead, read, barred>>
  BY DEF Capture, queue
<1>3. row'[e] = n /\ \A f \in Event \ {e} : row'[f] = row[f]
  BY <1>1 DEF TypeOK
<1>4. Stored' = Stored \cup {e} /\ e \notin read /\ e \notin Stored
  BY <1>1, <1>2, <1>3 DEF Stored, Queue, Tables
<1>5. Tables'
  BY <1>2, <1>3, <1>4 DEF Queue, Tables, Stored
<1>6. OneFate'
  <2>1. \A r \in Event : pairs[r] # None => r # e /\ pairs[r].call # e
    BY <1>4 DEF Queue, Tables
  <2>2. \A r \in Event : pairs[r] # None => row'[pairs[r].call] < row'[r]
    BY <1>3, <2>1, PairFacts DEF Queue, OneFate
  <2>3. \A c : Paired(c)' <=> Paired(c)
    BY <1>2 DEF Paired
  <2>4. \A f, g : Other(f, g)' <=> Other(f, g)
    BY DEF Other
  <2>5. \A r, st : Is(r, st)' <=> Is(r, st)
    BY <1>2 DEF Is
  <2> QED BY <1>2, <2>2, <2>3, <2>4, <2>5 DEF Queue, OneFate
<1>7. Accounted'
  BY <1>2, <1>4 DEF Queue, Accounted, Paired, Other, Tool
<1> QED BY <1>5, <1>6, <1>7 DEF Queue

\* Deleting evidence deletes what refers to it, and leaves the other half of a pair
\* accounted for by what was deleted.
LEMMA DeleteKeepsQueue ==
    ASSUME TypeOK, Queue, NEW D \in SUBSET Stored, Delete(D), UNCHANGED <<seen, read>>,
           \A e \in read \cap (Stored \ D) : row[e] <= cursor',
           barred' => \A e \in Stored \ D : KindOf[e] = "foreign"
    PROVE  Queue'
<1>1. /\ row' = [e \in Event |-> IF e \in D THEN 0 ELSE row[e]]
      /\ calls' = calls \ D /\ dead' = dead \ D
      /\ pairs' = [r \in Event |-> IF pairs[r] # None /\ {r, pairs[r].call} \cap D # {}
                                   THEN None ELSE pairs[r]]
  BY DEF Delete
<1>2. \A e \in Event : row'[e] = IF e \in D THEN 0 ELSE row[e]
  BY <1>1
<1>3. Stored' = Stored \ D
  BY <1>2 DEF Stored
<1>4. \A r \in Event :
         /\ pairs'[r] # None => pairs'[r] = pairs[r] /\ r \notin D /\ pairs[r].call \notin D
         /\ pairs[r] # None /\ r \notin D /\ pairs[r].call \notin D => pairs'[r] = pairs[r]
  BY <1>1
<1>5. Tables'
  BY <1>1, <1>2, <1>3, <1>4 DEF Queue, Tables, Stored
<1>6. \A f, g : Other(f, g)' <=> Other(f, g)
  BY DEF Other
<1>7. OneFate'
  <2>1. ASSUME NEW c \in calls' PROVE c \notin dead' /\ ~Paired(c)'
    BY <1>1, <1>4, <2>1 DEF Queue, OneFate, Paired
  <2>2. \A c, d \in calls' : CallOf[c] = CallOf[d] => c = d
    BY <1>1 DEF Queue, OneFate
  <2>3. ASSUME NEW r \in Event, pairs'[r] # None
        PROVE  /\ Other(r, pairs'[r].call) /\ row'[pairs'[r].call] < row'[r]
               /\ pairs'[r].call \notin dead' /\ (r \in dead' <=> Is(r, "dead")')
               /\ \A q \in Event \ {r} : pairs'[q] # None => pairs'[q].call # pairs'[r].call
    <3>1. pairs'[r] = pairs[r] /\ r \notin D /\ pairs[r].call \notin D /\ pairs[r].call \in Event
      BY <1>4, <2>3, PairFacts
    <3>2. row'[r] = row[r] /\ row'[pairs[r].call] = row[pairs[r].call]
      BY <1>2, <3>1
    <3>3. \A q \in Event \ {r} : pairs'[q] # None => pairs'[q].call # pairs'[r].call
      BY <1>4, <2>3, <3>1 DEF Queue, OneFate
    <3> QED BY <1>1, <2>3, <3>1, <3>2, <3>3 DEF Queue, OneFate, Is
  <2> QED BY <1>6, <2>1, <2>2, <2>3 DEF OneFate
<1>8. Accounted'
  <2>1. ASSUME NEW e \in read \cap Stored', Tool(e)
        PROVE  \/ e \in calls' \/ Paired(e)' \/ e \in dead'
               \/ \E f \in read \ Stored' : Other(e, f)
    <3>1. e \in read \cap Stored /\ e \notin D
      BY <1>3, <2>1
    <3>2. CASE e \in calls \/ e \in dead
      BY <1>1, <3>1, <3>2
    <3>3. CASE \E f \in read \ Stored : Other(e, f)
      BY <1>3, <3>3
    <3>4. ASSUME NEW r \in Event, pairs[r] # None, e \in {r, pairs[r].call}
          PROVE  Paired(e)' \/ \E f \in read \ Stored' : Other(e, f)
      <4>1. Other(r, pairs[r].call) /\ {r, pairs[r].call} \subseteq read
        BY <3>4 DEF Queue, Tables, OneFate
      <4>2. CASE r \notin D /\ pairs[r].call \notin D
        BY <1>4, <3>4, <4>2 DEF Paired
      <4>3. CASE r \in D
        BY <1>3, <3>1, <3>4, <4>1, <4>3 DEF Other
      <4>4. CASE pairs[r].call \in D
        BY <1>3, <3>1, <3>4, <4>1, <4>4 DEF Other
      <4> QED BY <4>2, <4>3, <4>4
    <3> QED BY <2>1, <3>1, <3>2, <3>3, <3>4 DEF Queue, Accounted, Paired
  <2> QED BY <1>6, <2>1 DEF Accounted, Tool
<1> QED BY <1>5, <1>7, <1>8 DEF Queue

\* Retention.
LEMMA CollectKeepsQueue ==
    ASSUME TypeOK, Queue, NEW n \in 1 .. Cardinality(Event), Collect(n)
    PROVE  Queue'
<1>1. PICK D : D = {e \in Stored : row[e] <= n}
  OBVIOUS
<1>2. D \in SUBSET Stored /\ Delete(D) /\ UNCHANGED <<seen, read, cursor, barred>>
  BY <1>1 DEF Collect
<1> QED BY <1>2, DeleteKeepsQueue DEF Queue, Tables

\* The purge of the session: nothing that was read is left.
LEMMA PurgeKeepsQueue == ASSUME TypeOK, Queue, Purge PROVE Queue'
<1>1. PICK D : D = {e \in Stored : KindOf[e] # "foreign"}
  OBVIOUS
<1>2. D \in SUBSET Stored /\ Delete(D) /\ UNCHANGED <<seen, read>>
  BY <1>1 DEF Purge
<1>3. read \cap (Stored \ D) = {}
  BY <1>1 DEF Queue, Tables
<1> QED BY <1>1, <1>2, <1>3, DeleteKeepsQueue

-----------------------------------------------------------------------------
(* Reading a row.                                                          *)

\* A row that is about to be read has no part in the queue yet.
LEMMA UnreadIsNew ==
    ASSUME TypeOK, Queue, NEW e \in Unread
    PROVE  /\ e \in Event /\ e \in Stored /\ e \notin read /\ e \notin calls /\ e \notin dead
           /\ KindOf[e] # "foreign" /\ ~barred /\ row[e] > cursor /\ row[e] \in Nat
           /\ pairs[e] = None /\ \A r \in Event : pairs[r] # None => pairs[r].call # e
<1>1. e \in Event /\ e \in Stored /\ row[e] > cursor /\ row[e] \in Nat /\ KindOf[e] # "foreign"
  BY DEF Unread, Stored, TypeOK
<1>2. e \notin read
  BY <1>1 DEF Queue, Tables, TypeOK
<1> QED BY <1>1, <1>2 DEF Queue, Tables

\* What the tables say after a row e was read, whatever became of it.
LEMMA ReadKeepsTables ==
    ASSUME TypeOK, Queue, NEW e \in Unread, cursor' = row[e], read' = read \cup {e},
           UNCHANGED <<row, seen, barred>>,
           calls' \cup dead' \subseteq calls \cup dead \cup {e},
           \A c \in calls' : KindOf[c] = "call",
           \A r \in Event : pairs'[r] # None =>
               \/ pairs'[r] = pairs[r]
               \/ /\ r = e /\ pairs'[r].call \in calls /\ KindOf[e] = "result"
    PROVE  Tables'
<1>1. /\ e \in Event /\ e \in Stored /\ e \notin read /\ KindOf[e] # "foreign"
      /\ row[e] > cursor /\ row[e] \in Nat /\ cursor \in Nat
  BY UnreadIsNew DEF TypeOK
<1>2. Stored' = Stored
  BY DEF Stored
<1>3. \A f \in read' \cap Stored' : row'[f] <= cursor'
  BY <1>1, <1>2 DEF Queue, Tables, TypeOK
<1>4. \A r \in Event : pairs'[r] # None =>
          /\ {r, pairs'[r].call} \subseteq read' \cap Stored'
          /\ KindOf[r] = "result" /\ KindOf[pairs'[r].call] = "call"
  BY <1>1, <1>2 DEF Queue, Tables
<1> QED BY <1>1, <1>2, <1>3, <1>4 DEF Queue, Tables

\* A row with no pair to make.
LEMMA ReadAloneKeepsQueue ==
    ASSUME TypeOK, Queue, NEW e \in Unread, cursor' = row[e], read' = read \cup {e},
           UNCHANGED <<row, seen, barred, pairs>>,
           NEW D \in SUBSET calls,
           \/ KindOf[e] = "text" /\ calls' = calls /\ dead' = dead
           \/ calls' = calls \ D /\ dead' = dead \cup D \cup {e}
           \/ /\ KindOf[e] = "call" /\ Duplicate(e) = {}
              /\ calls' = calls \cup {e} /\ dead' = dead
    PROVE  Queue'
<1>1. /\ e \in Event /\ e \in Stored /\ e \notin read /\ e \notin calls /\ e \notin dead
      /\ pairs[e] = None /\ \A r \in Event : pairs[r] # None => pairs[r].call # e
  BY UnreadIsNew
<1>2. \A c : Paired(c)' <=> Paired(c)
  BY DEF Paired
<1>3. ~Paired(e) /\ Stored' = Stored
  BY <1>1 DEF Paired, Stored
<1>4. \A f, g : Other(f, g)' <=> Other(f, g)
  BY DEF Other
<1>5. Tables'
  BY ReadKeepsTables DEF Queue, Tables
<1>6. OneFate'
  <2>1. \A c \in calls' : c \notin dead' /\ ~Paired(c)
    BY <1>1, <1>3 DEF Queue, OneFate
  <2>2. \A c, d \in calls' : CallOf[c] = CallOf[d] => c = d
    BY DEF Queue, OneFate, Duplicate
  <2>3. ASSUME NEW r \in Event, pairs[r] # None
        PROVE  pairs[r].call \notin dead' /\ (r \in dead' <=> r \in dead)
    <3>1. Paired(r) /\ Paired(pairs[r].call)
      BY <2>3 DEF Paired
    <3> QED BY <1>1, <2>3, <3>1 DEF Queue, OneFate
  <2>4. \A r, st : Is(r, st)' <=> Is(r, st)
    BY DEF Is
  <2> QED BY <1>2, <1>4, <2>1, <2>2, <2>3, <2>4 DEF Queue, OneFate
<1>7. Accounted'
  BY <1>2, <1>3, <1>4 DEF Queue, Accounted, Tool
<1> QED BY <1>5, <1>6, <1>7 DEF Queue

\* A result takes the pending call of its id, and makes a pair with it.
LEMMA ReadResultKeepsQueue ==
    ASSUME TypeOK, Queue, NEW e \in Unread, cursor' = row[e], read' = read \cup {e},
           UNCHANGED <<row, seen, barred, dead>>, NEW c \in Duplicate(e),
           KindOf[e] = "result", calls' = calls \ {c},
           pairs' = [pairs EXCEPT ![e] = [call |-> c, status |-> "pending",
                                          attempts |-> 0, version |-> 0]]
    PROVE  Queue'
<1>1. /\ e \in Event /\ e \in Stored /\ e \notin read /\ e \notin calls /\ e \notin dead
      /\ pairs[e] = None /\ \A r \in Event : pairs[r] # None => pairs[r].call # e
      /\ row[e] > cursor /\ row[e] \in Nat
  BY UnreadIsNew
<1>2. /\ c \in calls /\ c \in Event /\ CallOf[c] = CallOf[e] /\ c \in read \cap Stored
      /\ KindOf[c] = "call" /\ c \notin dead /\ ~Paired(c)
  BY DEF Duplicate, TypeOK, Queue, Tables, OneFate
<1>3. /\ pairs'[e] = [call |-> c, status |-> "pending", attempts |-> 0, version |-> 0]
      /\ pairs'[e] # None /\ \A r \in Event \ {e} : pairs'[r] = pairs[r]
  BY <1>1, <1>2, NoneAssumption DEF TypeOK, Pair
<1>4. pairs'[e].call = c /\ pairs'[e].status = "pending"
  BY <1>3
<1>5. \A f \in Event : Paired(f)' <=> Paired(f) \/ f = e \/ f = c
  BY <1>1, <1>3, <1>4 DEF Paired
<1>6. Stored' = Stored
  BY DEF Stored
<1>7. \A f, g : Other(f, g)' <=> Other(f, g)
  BY DEF Other
<1>8. Tables'
  BY <1>2, <1>3, <1>4, ReadKeepsTables DEF Queue, Tables
<1>9. OneFate'
  <2>1. \A b \in calls' : b \notin dead' /\ ~Paired(b)'
    BY <1>1, <1>5 DEF Queue, OneFate, TypeOK
  <2>2. \A b, d \in calls' : CallOf[b] = CallOf[d] => b = d
    BY DEF Queue, OneFate
  <2>3. Other(e, c) /\ row[c] < row[e]
    BY <1>1, <1>2 DEF Other, Queue, Tables, TypeOK
  <2>4. \A q \in Event \ {e} : pairs'[q] # None => pairs'[q].call # c
    BY <1>2, <1>3 DEF Paired
  <2>5. ~Is(e, "dead")'
    BY <1>4 DEF Is
  <2>6. ASSUME NEW r \in Event \ {e}, pairs'[r] # None
        PROVE  /\ Other(r, pairs'[r].call) /\ row'[pairs'[r].call] < row'[r]
               /\ pairs'[r].call \notin dead' /\ (r \in dead' <=> Is(r, "dead")')
               /\ \A q \in Event \ {r} : pairs'[q] # None => pairs'[q].call # pairs'[r].call
    <3>1. pairs'[r] = pairs[r] /\ pairs[r] # None /\ pairs[r].call # c
      BY <1>2, <1>3, <2>6 DEF Paired
    <3>2. \A q \in Event \ {r} : pairs'[q] # None => pairs'[q].call # pairs'[r].call
      BY <1>3, <1>4, <3>1 DEF Queue, OneFate
    <3> QED BY <3>1, <3>2 DEF Queue, OneFate, Is
  <2> QED BY <1>1, <1>2, <1>4, <1>7, <2>1, <2>2, <2>3, <2>4, <2>5, <2>6 DEF OneFate
<1>10. Accounted'
  BY <1>1, <1>2, <1>5, <1>6, <1>7 DEF Queue, Accounted, Tool, Stored
<1> QED BY <1>8, <1>9, <1>10 DEF Queue

\* Whatever a row is, reading it accounts for it.
LEMMA IngestRowKeepsQueue ==
    ASSUME TypeOK, Queue, NEW w \in Worker, IngestRow(w)
    PROVE  Queue'
<1>1. PICK e \in Unread : /\ ReadText(e) \/ ReadTool(e)
                          /\ cursor' = row[e] /\ read' = read \cup {e}
  BY DEF IngestRow
<1>2. UNCHANGED <<row, seen, barred>>
  BY DEF IngestRow
<1>3. CASE ReadText(e)
  BY <1>1, <1>2, <1>3, ReadAloneKeepsQueue DEF ReadText
<1>4. CASE Broken(e)
  <2>1. PICK D \in SUBSET calls : D = {}
    OBVIOUS
  <2>2. calls' = calls \ D /\ dead' = dead \cup D \cup {e} /\ UNCHANGED pairs
    BY <1>4, <2>1 DEF Broken
  <2> QED BY <1>1, <1>2, <2>2, ReadAloneKeepsQueue
<1>5. CASE ReadCall(e)
  <2>1. Duplicate(e) \in SUBSET calls /\ UNCHANGED pairs /\ KindOf[e] = "call"
    BY <1>5 DEF ReadCall, Duplicate
  <2>2. CASE Duplicate(e) # {}
    <3>1. calls' = calls \ Duplicate(e) /\ dead' = dead \cup Duplicate(e) \cup {e}
      BY <1>5, <2>2 DEF ReadCall
    <3> QED BY <1>1, <1>2, <2>1, <3>1, ReadAloneKeepsQueue
  <2>3. CASE Duplicate(e) = {}
    <3>1. calls' = calls \cup {e} /\ dead' = dead
      BY <1>5, <2>3 DEF ReadCall
    <3> QED BY <1>1, <1>2, <2>1, <2>3, <3>1, ReadAloneKeepsQueue
  <2> QED BY <2>2, <2>3
<1>6. CASE ReadResult(e)
  <2>1. CASE dead' = dead \cup {e} /\ UNCHANGED <<calls, pairs>>
    <3>1. PICK D \in SUBSET calls : D = {}
      OBVIOUS
    <3>2. calls' = calls \ D /\ dead' = dead \cup D \cup {e} /\ UNCHANGED pairs
      BY <2>1, <3>1
    <3> QED BY <1>1, <1>2, <3>2, ReadAloneKeepsQueue
  <2>2. CASE \E c \in Duplicate(e) :
               /\ pairs' = [pairs EXCEPT ![e] = [call |-> c, status |-> "pending",
                                                 attempts |-> 0, version |-> 0]]
               /\ calls' = calls \ {c} /\ UNCHANGED dead
    BY <1>1, <1>2, <1>6, <2>2, ReadResultKeepsQueue DEF ReadResult
  <2> QED BY <1>6, <2>1, <2>2 DEF ReadResult
<1> QED BY <1>1, <1>3, <1>4, <1>5, <1>6 DEF ReadTool

-----------------------------------------------------------------------------
(* Working on a pair.                                                      *)

\* What becomes of a pair leaves its call to it, and buries it with a letter.
LEMMA PairStepKeepsQueue ==
    ASSUME TypeOK, Queue, NEW r \in Event, Is(r, "pending"),
           NEW p \in Pair, p.call = pairs[r].call, pairs' = [pairs EXCEPT ![r] = p],
           dead' = IF p.status = "dead" THEN dead \cup {r} ELSE dead,
           UNCHANGED <<row, seen, cursor, calls, read, barred>>
    PROVE  Queue'
<1>1. /\ pairs'[r] = p /\ p # None /\ pairs[r] # None /\ pairs[r].status = "pending"
      /\ \A q \in Event \ {r} : pairs'[q] = pairs[q]
  BY NoneAssumption DEF TypeOK, Is
<1>2. \A q \in Event : /\ pairs'[q] # None <=> pairs[q] # None
                       /\ pairs[q] # None => pairs'[q].call = pairs[q].call
  BY <1>1
<1>3. \A c : Paired(c)' <=> Paired(c)
  BY <1>2 DEF Paired
<1>4. \A f, g : Other(f, g)' <=> Other(f, g)
  BY DEF Other
<1>5. Stored' = Stored /\ r \in read \cap Stored /\ KindOf[r] = "result"
  BY <1>1 DEF Stored, Queue, Tables
<1>6. Tables'
  BY <1>2, <1>5 DEF Queue, Tables
<1>7. r \notin dead /\ (Is(r, "dead")' <=> p.status = "dead")
  BY <1>1 DEF Queue, OneFate, Is
<1>8. OneFate'
  <2>1. \A c \in calls : c # r
    BY <1>1 DEF Queue, OneFate, Paired
  <2>2. \A q \in Event : pairs[q] # None => pairs[q].call # r
    BY <1>5 DEF Queue, Tables
  <2>3. \A q \in Event \ {r} : Is(q, "dead")' <=> Is(q, "dead")
    BY <1>1 DEF Is
  <2>4. ~Is(r, "dead")
    BY <1>1 DEF Is
  <2>5. \A q \in Event : pairs[q] # None => (q \in dead' <=> Is(q, "dead")')
    BY <1>1, <1>7, <2>3, <2>4 DEF Queue, OneFate
  <2> QED BY <1>2, <1>3, <1>4, <2>1, <2>2, <2>5 DEF Queue, OneFate
<1>9. Accounted'
  BY <1>3, <1>4, <1>5 DEF Queue, Accounted, Tool
<1> QED BY <1>6, <1>8, <1>9 DEF Queue

\* A step of a hook that does not ingest.
LEMMA WorkKeepsQueue ==
    ASSUME TypeOK, Queue, NEW w \in Worker,
           NextPair(w) \/ (loc[w].pair \in Event /\ (Complete(w) \/ Fail(w)))
    PROVE  Queue'
<1>1. CASE UNCHANGED <<row, seen, queue, barred>>
  BY <1>1, QueueStays
<1>2. CASE NextPair(w)
  <2>1. CASE UNCHANGED queue
    BY <1>1, <1>2, <2>1 DEF NextPair
  <2>2. CASE ~UNCHANGED queue
    <3>1. PICK r \in Pending : /\ pairs' = [pairs EXCEPT ![r].attempts = @ + 1]
                               /\ UNCHANGED <<row, seen, cursor, calls, dead, read, barred>>
      BY <1>2, <2>2 DEF NextPair
    <3>2. r \in Event /\ Is(r, "pending") /\ pairs[r] \in Pair
      BY <3>1, PairFacts DEF Pending, Is
    <3>3. PICK p : p = [pairs[r] EXCEPT !.attempts = @ + 1]
      OBVIOUS
    <3>4. p \in Pair /\ p.call = pairs[r].call /\ p.status = "pending"
      BY <3>2, <3>3 DEF Pair, Is
    <3>5. pairs' = [pairs EXCEPT ![r] = p]
      BY <3>1, <3>3
    <3> QED BY <3>1, <3>2, <3>4, <3>5, PairStepKeepsQueue
  <2> QED BY <2>1, <2>2
<1>3. CASE loc[w].pair \in Event /\ Complete(w)
  <2>1. CASE UNCHANGED pairs
    BY <1>1, <1>3, <2>1 DEF Complete, queue
  <2>2. CASE ~UNCHANGED pairs
    <3>1. PICK r, v : r = loc[w].pair /\ v = loc[w].version
      OBVIOUS
    <3>2. /\ r \in Event /\ Is(r, "pending")
          /\ pairs' = [pairs EXCEPT ![r].status = "processed", ![r].version = v]
          /\ UNCHANGED <<row, seen, cursor, calls, dead, read, barred>>
      BY <1>3, <2>2, <3>1 DEF Complete
    <3>3. v \in Nat /\ pairs[r] \in Pair
      BY <3>1, <3>2, PairFacts DEF TypeOK, Loc, Is
    <3>4. PICK p : p = [pairs[r] EXCEPT !.status = "processed", !.version = v]
      OBVIOUS
    <3>5. p \in Pair /\ p.call = pairs[r].call /\ p.status = "processed"
      BY <3>3, <3>4 DEF Pair
    <3>6. pairs' = [pairs EXCEPT ![r] = p]
      BY <3>2, <3>4 DEF TypeOK
    <3> QED BY <3>2, <3>5, <3>6, PairStepKeepsQueue
  <2> QED BY <2>1, <2>2
<1>4. CASE loc[w].pair \in Event /\ Fail(w)
  <2>1. CASE UNCHANGED <<pairs, dead>>
    BY <1>1, <1>4, <2>1 DEF Fail, queue
  <2>2. CASE ~UNCHANGED <<pairs, dead>>
    <3>1. PICK r : r = loc[w].pair
      OBVIOUS
    <3>2. /\ r \in Event /\ Is(r, "pending")
          /\ pairs' = [pairs EXCEPT ![r].status = "dead"] /\ dead' = dead \cup {r}
          /\ UNCHANGED <<row, seen, cursor, calls, read, barred>>
      BY <1>4, <2>2, <3>1 DEF Fail
    <3>3. pairs[r] \in Pair
      BY <3>2, PairFacts DEF Is
    <3>4. PICK p : p = [pairs[r] EXCEPT !.status = "dead"]
      OBVIOUS
    <3>5. p \in Pair /\ p.call = pairs[r].call /\ p.status = "dead"
      BY <3>3, <3>4 DEF Pair
    <3>6. pairs' = [pairs EXCEPT ![r] = p]
      BY <3>2, <3>4
    <3> QED BY <3>2, <3>5, <3>6, PairStepKeepsQueue
  <2> QED BY <2>1, <2>2
<1> QED BY <1>2, <1>3, <1>4

-----------------------------------------------------------------------------
(* The versions of the task.                                               *)

\* A step of the task: a hook or the operator adds one version, which keeps the steps of
\* the last one, or the purge of the session empties it for good.
Adds(s) ==
    /\ s \in Snapshot /\ Single(s.steps)
    /\ task' = Append(task, s) /\ UNCHANGED barred
    /\ ~barred /\ task # <<>> => Extends(s, Latest)

TaskStep ==
    \/ UNCHANGED <<task, barred>>
    \/ \E s \in Snapshot : Adds(s)
    \/ task' = <<>> /\ barred'

\* A version is a snapshot, whose steps are numbered from one.
LEMMA VersionFacts ==
    ASSUME TypeOK
    PROVE  /\ Len(task) \in Nat /\ DOMAIN task = 1 .. Len(task)
           /\ task # <<>> => Len(task) # 0 /\ Latest \in Snapshot
           /\ \A v \in DOMAIN task : task[v] \in Snapshot
<1>1. task \in Seq(Snapshot)
  BY DEF TypeOK
<1>2. Len(task) \in Nat /\ DOMAIN task = 1 .. Len(task)
      /\ \A v \in DOMAIN task : task[v] \in Snapshot
  BY <1>1, LenProperties, ElementOfSeq
<1>3. task # <<>> => Len(task) # 0
  BY <1>1, EmptySeq
<1> QED BY <1>2, <1>3 DEF Latest

\* The steps of a snapshot are numbered from one.
LEMMA StepFacts ==
    ASSUME NEW s \in Snapshot
    PROVE  /\ s.steps \in Seq(Event) /\ Len(s.steps) \in Nat
           /\ DOMAIN s.steps = 1 .. Len(s.steps)
<1>1. s.steps \in Seq(Event)
  BY DEF Snapshot
<1> QED BY <1>1, LenProperties

\* Adding a version changes no other.
LEMMA AddFacts ==
    ASSUME TypeOK, NEW s \in Snapshot, task' = Append(task, s)
    PROVE  /\ task' \in Seq(Snapshot) /\ Len(task') = Len(task) + 1
           /\ DOMAIN task' = 1 .. Len(task) + 1
           /\ task'[Len(task) + 1] = s /\ \A v \in DOMAIN task : task'[v] = task[v]
<1>1. task \in Seq(Snapshot)
  BY DEF TypeOK
<1>2. task' \in Seq(Snapshot) /\ Len(task') = Len(task) + 1
  BY <1>1
<1>3. task'[Len(task) + 1] = s /\ \A v \in 1 .. Len(task) : task'[v] = task[v]
  BY <1>1
<1> QED BY <1>1, <1>2, <1>3, LenProperties

\* Adding a version keeps what the versions promise.
LEMMA AddKeepsVersions ==
    ASSUME TypeOK, Versions, NEW s \in Snapshot, Adds(s)
    PROVE  Versions'
<1> USE DEF Adds
<1>1. /\ DOMAIN task' = 1 .. Len(task) + 1 /\ task'[Len(task) + 1] = s
      /\ \A v \in DOMAIN task : task'[v] = task[v]
  BY AddFacts
<1>2. Len(task) \in Nat /\ DOMAIN task = 1 .. Len(task)
  BY VersionFacts
<1>3. AppliedOnce'
  <2>1. \A v \in DOMAIN task' : v \in DOMAIN task \/ v = Len(task) + 1
    BY <1>1, <1>2
  <2>2. \A v \in DOMAIN task' : Single(task'[v].steps)
    BY <1>1, <2>1 DEF Versions, AppliedOnce, Single
  <2> QED BY <2>2 DEF AppliedOnce, Single
<1>4. ASSUME ~barred', NEW u \in DOMAIN task', NEW v \in DOMAIN task', u <= v
      PROVE  /\ Len(task'[u].steps) <= Len(task'[v].steps)
             /\ \A i \in DOMAIN task'[u].steps : task'[v].steps[i] = task'[u].steps[i]
  <2>1. CASE v \in DOMAIN task
    <3>1. u \in DOMAIN task
      BY <1>1, <1>2, <1>4, <2>1
    <3> QED BY <1>1, <1>4, <2>1, <3>1 DEF Versions, Growing
  <2>2. CASE u = v
    <3>1. task'[v] \in Snapshot
      BY <1>1, <1>2, VersionFacts
    <3> QED BY <2>2, <3>1, StepFacts
  <2>3. CASE v = Len(task) + 1 /\ u \in DOMAIN task
    <3>1. Len(task) \in DOMAIN task /\ task # <<>> /\ u <= Len(task)
      BY <1>2, <2>3, EmptySeq
    <3>2. Latest \in Snapshot /\ task[u] \in Snapshot
      BY <2>3, <3>1, VersionFacts
    <3>3. /\ Len(task[u].steps) <= Len(Latest.steps)
          /\ \A i \in DOMAIN task[u].steps : Latest.steps[i] = task[u].steps[i]
      BY <1>4, <2>3, <3>1 DEF Versions, Growing, Latest
    <3>4. /\ Len(s.steps) \in {Len(Latest.steps), Len(Latest.steps) + 1}
          /\ \A i \in DOMAIN Latest.steps : s.steps[i] = Latest.steps[i]
      BY <1>4, <3>1 DEF Extends
    <3>5. DOMAIN task[u].steps \subseteq DOMAIN Latest.steps
      BY <3>2, <3>3, StepFacts
    <3>6. Len(task[u].steps) <= Len(s.steps)
      BY <3>2, <3>3, <3>4, StepFacts
    <3> QED BY <1>1, <2>3, <3>3, <3>4, <3>5, <3>6
  <2> QED BY <1>1, <1>2, <1>4, <2>1, <2>2, <2>3
<1> QED BY <1>3, <1>4 DEF Versions, Growing

(* A task step keeps what the versions promise. *)
LEMMA TaskStepKeepsVersions ==
    ASSUME TypeOK, Versions, TaskStep
    PROVE  Versions' /\ task' \in Seq(Snapshot)
<1>1. CASE UNCHANGED <<task, barred>>
  BY <1>1 DEF Versions, AppliedOnce, Growing, TypeOK
<1>2. ASSUME NEW s \in Snapshot, Adds(s) PROVE Versions' /\ task' \in Seq(Snapshot)
  BY <1>2, AddKeepsVersions, AddFacts DEF Adds
<1>3. CASE task' = <<>> /\ barred'
  BY <1>3 DEF Versions, AppliedOnce
<1> QED BY <1>1, <1>2, <1>3 DEF TaskStep

\* A step that no kept step repeats keeps the snapshot single.
LEMMA NewStepIsSingle ==
    ASSUME NEW s \in Snapshot, Single(s.steps), NEW r \in Event, r \notin Active(s)
    PROVE  Single(Append(s.steps, r))
<1> DEFINE n == Len(s.steps)
           t == Append(s.steps, r)
<1>1. s.steps \in Seq(Event) /\ n \in Nat /\ DOMAIN s.steps = 1 .. n
  BY StepFacts
<1>2. /\ DOMAIN t = 1 .. n + 1 /\ t[n + 1] = r
      /\ \A i \in 1 .. n : t[i] = s.steps[i]
  BY <1>1
<1>3. \A i \in 1 .. n : s.steps[i] = r => i + MaxActive <= n
  BY <1>1, BoundAssumption DEF Active
<1> HIDE DEF n, t
<1>4. ASSUME NEW i \in DOMAIN t, NEW j \in DOMAIN t, t[i] = t[j], i < j
      PROVE  j >= i + MaxActive
  <2>1. i \in 1 .. n
    BY <1>1, <1>2, <1>4 DEF n
  <2>2. CASE j = n + 1
    BY <1>1, <1>2, <1>3, <1>4, <2>1, <2>2, BoundAssumption DEF n
  <2>3. CASE j \in 1 .. n
    BY <1>1, <1>2, <1>4, <2>1, <2>3 DEF Single, n
  <2> QED BY <1>1, <1>2, <2>2, <2>3 DEF n
<1> QED BY <1>4 DEF Single, t

\* The locals of a hook are a record of their fields.
LEMMA LocFacts ==
    ASSUME TypeOK, NEW w \in Worker
    PROVE  /\ loc[w] \in Loc /\ loc[w].version \in Nat /\ loc[w].left \in Nat
           /\ loc[w].pair \in Event \cup {None} /\ loc[w].snap \in Snapshot \cup {None}
           /\ pc[w] \in PC
BY DEF TypeOK, Loc

\* start_task commits the first version, or finds the same one there.
LEMMA CreateSteps ==
    ASSUME TypeOK, NEW w \in Worker, Create(w), loc[w].pair \in Event
    PROVE  TaskStep
<1>1. PICK s : s = First(loc[w].pair)
  OBVIOUS
<1>2. s \in Snapshot /\ Single(s.steps)
  BY <1>1 DEF First, Snapshot, Single
<1>3. CASE UNCHANGED task
  BY <1>3 DEF Create, TaskStep
<1>4. CASE ~UNCHANGED task
  <2>1. ~Committed(1, s) /\ Accepts(1, s) /\ task' = Append(task, s) /\ UNCHANGED barred
    BY <1>1, <1>4 DEF Create, Store
  <2>2. Len(task) = 0
    BY <2>1, VersionFacts DEF Accepts
  <2>3. task = <<>>
    BY <2>2, VersionFacts
  <2> QED BY <1>2, <2>1, <2>3 DEF Adds, TaskStep
<1> QED BY <1>3, <1>4

\* What record_tool_step is about to commit: the version it expects, with the step.
LEMMA WithStepFacts ==
    ASSUME TypeOK, NEW w \in Worker, pc[w] = "commit", Sound("commit", loc[w])
    PROVE  /\ loc[w].snap \in Snapshot /\ loc[w].pair \in Event /\ loc[w].version \in Nat \ {0}
           /\ WithStep(w) \in Snapshot /\ Single(WithStep(w).steps)
           /\ WithStep(w).steps = Append(loc[w].snap.steps, loc[w].pair)
           /\ Holds(WithStep(w), loc[w].pair) /\ Extends(WithStep(w), loc[w].snap)
<1>1. PICK s, r : s = loc[w].snap /\ r = loc[w].pair
  OBVIOUS
<1>2. /\ s \in Snapshot /\ Single(s.steps) /\ r \in Event /\ r \notin Active(s)
      /\ loc[w].version \in Nat \ {0}
  BY <1>1, LocFacts DEF Sound, WithPair
<1>3. WithStep(w).steps = Append(s.steps, r) /\ WithStep(w) \in Snapshot
  <2>1. s.steps \in Seq(Event)
    BY <1>2, StepFacts
  <2>2. PICK t : t = Append(s.steps, r)
    OBVIOUS
  <2>3. t \in Seq(Event)
    BY <1>2, <2>1, <2>2
  <2>4. WithStep(w) = [s EXCEPT !.steps = t]
    BY <1>1, <2>2 DEF WithStep
  <2>5. WithStep(w).steps = t /\ WithStep(w) \in Snapshot
    BY <1>2, <2>3, <2>4 DEF Snapshot
  <2> QED BY <2>2, <2>5
<1>4. Single(WithStep(w).steps)
  BY <1>2, <1>3, NewStepIsSingle
<1>5. s.steps \in Seq(Event) /\ Len(s.steps) \in Nat /\ DOMAIN s.steps = 1 .. Len(s.steps)
  BY <1>2, StepFacts
<1>6. /\ Len(Append(s.steps, r)) = Len(s.steps) + 1
      /\ DOMAIN Append(s.steps, r) = 1 .. Len(s.steps) + 1
      /\ Append(s.steps, r)[Len(s.steps) + 1] = r
      /\ \A i \in 1 .. Len(s.steps) : Append(s.steps, r)[i] = s.steps[i]
  BY <1>5
<1>7. Holds(WithStep(w), r)
  BY <1>3, <1>5, <1>6 DEF Holds
<1>8. Extends(WithStep(w), s)
  BY <1>3, <1>5, <1>6 DEF Extends
<1> QED BY <1>1, <1>2, <1>3, <1>4, <1>7, <1>8

\* record_tool_step commits the next version, or finds its own one there.
LEMMA CommitSteps ==
    ASSUME TypeOK, NEW w \in Worker, Commit(w), Sound(pc[w], loc[w])
    PROVE  TaskStep
<1>1. pc[w] = "commit" /\ Sound("commit", loc[w])
  BY DEF Commit
<1>2. PICK s, v : s = WithStep(w) /\ v = loc[w].version
  OBVIOUS
<1>3. /\ s \in Snapshot /\ Single(s.steps) /\ v \in Nat \ {0} /\ Extends(s, loc[w].snap)
      /\ ~barred => v \in DOMAIN task /\ loc[w].snap = task[v]
  BY <1>1, <1>2, WithStepFacts DEF Sound
<1>4. CASE UNCHANGED task
  BY <1>4 DEF Commit, TaskStep
<1>5. CASE ~UNCHANGED task
  <2>1. /\ ~Committed(v + 1, s) /\ Accepts(v + 1, s)
        /\ task' = Append(task, s) /\ UNCHANGED barred
    BY <1>2, <1>5 DEF Commit, Store
  <2>2. Len(task) = v
    BY <1>3, <2>1, VersionFacts DEF Accepts
  <2>3. ~barred => Extends(s, Latest)
    BY <1>3, <2>2 DEF Latest
  <2> QED BY <1>3, <2>1, <2>3 DEF Adds, TaskStep
<1> QED BY <1>4, <1>5

\* The operator opens or closes the last version.
LEMMA UpdateSteps ==
    ASSUME TypeOK, Versions, NEW open \in BOOLEAN, UpdateTask(open)
    PROVE  TaskStep
<1>1. PICK s : s = [Latest EXCEPT !.open = open]
  OBVIOUS
<1>2. Latest \in Snapshot /\ Len(task) \in DOMAIN task
  BY VersionFacts DEF UpdateTask
<1>3. s \in Snapshot /\ s.steps = Latest.steps
  BY <1>1, <1>2 DEF Snapshot
<1>4. Single(s.steps)
  BY <1>2, <1>3 DEF Versions, AppliedOnce, Single, Latest
<1>5. Extends(s, Latest)
  BY <1>2, <1>3, StepFacts DEF Extends
<1> QED BY <1>1, <1>3, <1>4, <1>5 DEF UpdateTask, Adds, TaskStep

-----------------------------------------------------------------------------
(* What a hook relies on.                                                  *)

\* It is not taken away by what becomes of the task.
LEMMA SoundStays ==
    ASSUME TypeOK, TaskStep, NEW p, NEW l, Sound(p, l)
    PROVE  Sound(p, l)'
<1>1. CASE UNCHANGED <<task, barred>>
  BY <1>1 DEF Sound
<1>2. ASSUME NEW s \in Snapshot, Adds(s) PROVE Sound(p, l)'
  <2>1. /\ \A v \in DOMAIN task : v \in DOMAIN task' /\ task'[v] = task[v]
        /\ UNCHANGED barred
    BY <1>2, AddFacts, VersionFacts DEF Adds
  <2> QED BY <2>1 DEF Sound
<1>3. CASE task' = <<>> /\ barred'
  BY <1>3 DEF Sound
<1> QED BY <1>1, <1>2, <1>3 DEF TaskStep

\* The step of one hook: what it may rely on where it goes decides.
LEMMA WorkingStep ==
    ASSUME TypeOK, Working, TaskStep, NEW w \in Worker, NEW p \in PC, NEW l \in Loc,
           Proceed(w, p, l), Sound(p, l)'
    PROVE  /\ Working' /\ pc' \in [Worker -> PC] /\ loc' \in [Worker -> Loc]
<1>1. /\ pc'[w] = p /\ loc'[w] = l
      /\ \A v \in Worker \ {w} : pc'[v] = pc[v] /\ loc'[v] = loc[v]
      /\ pc' \in [Worker -> PC] /\ loc' \in [Worker -> Loc]
  BY DEF Proceed, TypeOK
<1>2. ASSUME NEW v \in Worker PROVE Sound(pc[v], loc[v])'
  <2>1. CASE v = w
    BY <1>1, <2>1 DEF Sound
  <2>2. CASE v # w
    <3>1. PICK q, m : q = pc[v] /\ m = loc[v]
      OBVIOUS
    <3>2. Sound(q, m)
      BY <3>1 DEF Working
    <3>3. Sound(q, m)'
      BY <3>2, SoundStays
    <3> QED BY <1>1, <2>2, <3>1, <3>3 DEF Sound
  <2> QED BY <2>1, <2>2
<1> QED BY <1>1, <1>2 DEF Working

\* A step of the others leaves every hook what it relies on.
LEMMA WorkingStays ==
    ASSUME TypeOK, Working, TaskStep, UNCHANGED procs
    PROVE  Working'
<1>1. ASSUME NEW w \in Worker PROVE Sound(pc[w], loc[w])'
  <2>1. PICK q, m : q = pc[w] /\ m = loc[w]
    OBVIOUS
  <2>2. Sound(q, m)
    BY <2>1 DEF Working
  <2>3. Sound(q, m)'
    BY <2>2, SoundStays
  <2> QED BY <2>1, <2>3 DEF Sound, procs
<1> QED BY <1>1 DEF Working

HooksSafe == Working' /\ pc' \in [Worker -> PC] /\ loc' \in [Worker -> Loc]

\* A hook that goes where what it knows now suffices.
LEMMA Proceeds ==
    ASSUME TypeOK, Working, TaskStep, NEW w \in Worker, NEW p \in PC, NEW l \in Loc,
           Proceed(w, p, l), Sound(p, l)
    PROVE  HooksSafe
BY SoundStays, WorkingStep DEF HooksSafe

\* Where a hook that leaves its snapshot may go.
LEMMA Relaxed ==
    ASSUME NEW q, NEW l, Sound(q, l), NEW p, NEW m,
           m.version = l.version, m.snap = l.snap,
           p \notin {"commit", "reload", "complete"}, p \in WithPair => m.pair \in Event
    PROVE  Sound(p, m)
BY DEF Sound

\* A hook that returns relies on nothing.
LEMMA Returns ==
    ASSUME TypeOK, Working, TaskStep, NEW w \in Worker, Return(w)
    PROVE  HooksSafe
<1>1. PICK l : l = NoLoc
  OBVIOUS
<1>2. l \in Loc /\ l.version = 0
  BY <1>1 DEF NoLoc, Loc
<1>3. Sound("idle", l)
  BY <1>2 DEF Sound, WithPair
<1>4. Proceed(w, "idle", l) /\ "idle" \in PC
  BY <1>1 DEF Return, PC
<1> QED BY <1>2, <1>3, <1>4, Proceeds

\* A hook that goes on with the locals it has.
LEMMA Goes ==
    ASSUME TypeOK, Working, TaskStep, NEW w \in Worker, NEW p \in PC, Goto(w, p),
           p \notin {"commit", "reload", "complete"}, p \in WithPair => loc[w].pair \in Event
    PROVE  HooksSafe
<1>1. PICK q, l : q = pc[w] /\ l = loc[w]
  OBVIOUS
<1>2. l \in Loc /\ Proceed(w, p, l)
  BY <1>1, LocFacts DEF Goto, Proceed, TypeOK
<1>3. Sound(q, l)
  BY <1>1 DEF Working
<1>4. Sound(p, l)
  BY <1>1, <1>3, Relaxed
<1> QED BY <1>2, <1>4, Proceeds

\* What was just loaded is the last version.
LEMMA LoadedFacts ==
    ASSUME TypeOK, Versions, NEW w \in Worker
    PROVE  /\ Loaded(w) \in Loc /\ Loaded(w).pair = loc[w].pair
           /\ Loaded(w).version # 0 <=> task # <<>>
           /\ Loaded(w).version # 0 =>
                 /\ Loaded(w).snap = Latest /\ Loaded(w).snap \in Snapshot
                 /\ Loaded(w).version = Len(task) /\ Loaded(w).version \in DOMAIN task
                 /\ Loaded(w).snap = task[Loaded(w).version] /\ Single(Loaded(w).snap.steps)
<1>1. PICK l : l = loc[w]
  OBVIOUS
<1>2. l \in Loc
  BY <1>1, LocFacts
<1>3. LatestVersion \in Snapshot \cup {None} /\ Len(task) \in Nat
  BY VersionFacts DEF LatestVersion
<1>4. PICK m : m = [l EXCEPT !.version = Len(task), !.snap = LatestVersion]
  OBVIOUS
<1>5. Loaded(w) = m /\ m \in Loc /\ m.pair = l.pair /\ m.version = Len(task) /\ m.snap = LatestVersion
  BY <1>1, <1>2, <1>3, <1>4 DEF Loaded, Loc
<1>6. Len(task) # 0 <=> task # <<>>
  BY VersionFacts, EmptySeq
<1>7. task # <<>> => /\ LatestVersion = Latest /\ Latest \in Snapshot
                     /\ Len(task) \in DOMAIN task /\ Latest = task[Len(task)]
  BY <1>6, VersionFacts DEF LatestVersion, Latest
<1>8. task # <<>> => Single(Latest.steps)
  BY <1>7 DEF Versions, AppliedOnce, Single
<1> QED BY <1>1, <1>5, <1>6, <1>7, <1>8

\* A hook that decides on a pair has a snapshot in hand.
LEMMA Decides ==
    ASSUME TypeOK, Working, TaskStep, NEW w \in Worker, NEW l \in Loc, Decide(w, l),
           l.version # 0, Sound("record", l)
    PROVE  HooksSafe
<1>1. CASE Return(w)
  BY <1>1, Returns
<1>2. CASE l.pair \in Active(l.snap) /\ Proceed(w, "complete", [l EXCEPT !.known = TRUE])
  <2>1. PICK m : m = [l EXCEPT !.known = TRUE]
    OBVIOUS
  <2>2. m \in Loc /\ m.version = l.version /\ m.snap = l.snap /\ m.pair = l.pair
    BY <2>1 DEF Loc
  <2>3. Holds(l.snap, l.pair)
    BY <1>2 DEF Active, Holds
  <2>4. Sound("complete", m)
    BY <2>2, <2>3 DEF Sound, WithPair
  <2> QED BY <1>2, <2>1, <2>2, <2>4, Proceeds DEF PC
<1>3. CASE Proceed(w, "record", l)
  BY <1>3, Proceeds DEF PC
<1> QED BY <1>1, <1>2, <1>3 DEF Decide

\* The steps that ingest, return, fail or die.
LEMMA IngestingHooks ==
    ASSUME TypeOK, Working, NEW w \in Worker,
           \/ Sync(w) \/ BeginIngest(w) \/ IngestRow(w) \/ CommitIngest(w)
           \/ CommitFails(w) \/ Crash(w) \/ Fail(w)
    PROVE  HooksSafe /\ TaskStep
<1>1. TaskStep
  BY DEF TaskStep, Sync, BeginIngest, IngestRow, CommitIngest, CommitFails, Crash, Fail
<1>2. PICK l : l = loc[w]
  OBVIOUS
<1>3. l \in Loc /\ Sound(pc[w], l)
  BY <1>2, LocFacts DEF Working
<1>4. CASE Sync(w)
  BY <1>1, <1>4, Goes DEF Sync, PC, WithPair
<1>5. CASE BeginIngest(w)
  <2>1. PICK m : m = [l EXCEPT !.left = Limit]
    OBVIOUS
  <2>2. m \in Loc /\ m.version = l.version /\ m.snap = l.snap
    BY <1>3, <2>1, BoundAssumption DEF Loc
  <2>3. Sound("rows", m)
    BY <1>3, <2>2, Relaxed DEF WithPair
  <2> QED BY <1>1, <1>2, <1>5, <2>1, <2>2, <2>3, Proceeds DEF BeginIngest, PC
<1>6. CASE IngestRow(w)
  <2>1. PICK m : m = [l EXCEPT !.left = @ - 1]
    OBVIOUS
  <2>2. l.left \in Nat \ {0}
    BY <1>2, <1>6, LocFacts DEF IngestRow
  <2>3. m \in Loc /\ m.version = l.version /\ m.snap = l.snap
    BY <1>3, <2>1, <2>2 DEF Loc
  <2>4. Sound("rows", m)
    BY <1>3, <2>3, Relaxed DEF WithPair
  <2> QED BY <1>1, <1>2, <1>6, <2>1, <2>3, <2>4, Proceeds DEF IngestRow, PC
<1>7. CASE CommitIngest(w)
  <2>1. PICK m, p : m = NoLoc /\ p = IF Unread = {} THEN "load" ELSE "begin"
    OBVIOUS
  <2>2. m \in Loc /\ m.version = 0 /\ p \in {"load", "begin"}
    BY <2>1 DEF NoLoc, Loc
  <2>3. Sound(p, m) /\ p \in PC
    BY <2>2 DEF Sound, WithPair, PC
  <2> QED BY <1>1, <1>7, <2>1, <2>2, <2>3, Proceeds DEF CommitIngest
<1>8. CASE CommitFails(w)
  <2>1. Return(w) \/ (pc[w] = "commit" /\ Goto(w, "fail"))
    BY <1>8 DEF CommitFails
  <2>2. pc[w] = "commit" => l.pair \in Event
    BY <1>3 DEF Sound, WithPair
  <2> QED BY <1>1, <1>2, <2>1, <2>2, Returns, Goes DEF PC
<1>9. CASE Crash(w)
  BY <1>1, <1>9, Returns DEF Crash
<1>10. CASE Fail(w)
  <2>1. Return(w) \/ Goto(w, "again")
    BY <1>10 DEF Fail
  <2> QED BY <1>1, <2>1, Returns, Goes DEF PC, WithPair
<1> QED BY <1>1, <1>4, <1>5, <1>6, <1>7, <1>8, <1>9, <1>10

\* The steps that load, pick a pair and start the task.
LEMMA StartingHooks ==
    ASSUME TypeOK, Working, Versions, NEW w \in Worker,
           Load(w) \/ NextPair(w) \/ Start(w) \/ Create(w) \/ Started(w) \/ Again(w)
    PROVE  HooksSafe /\ TaskStep
<1>2. PICK l : l = loc[w]
  OBVIOUS
<1>3. l \in Loc /\ Sound(pc[w], l)
  BY <1>2, LocFacts DEF Working
<1>4. PICK m : m = Loaded(w)
  OBVIOUS
<1>5. m \in Loc /\ Sound("next", m) /\ m.pair = l.pair /\ (m.version # 0 <=> task # <<>>)
  BY <1>2, <1>4, LoadedFacts DEF Sound, WithPair
<1>6. CASE Load(w)
  <2>1. TaskStep
    BY <1>6 DEF Load, TaskStep
  <2>2. Return(w) \/ Proceed(w, "next", m)
    BY <1>4, <1>6 DEF Load
  <2> QED BY <1>5, <2>1, <2>2, Returns, Proceeds DEF PC
<1>7. CASE NextPair(w)
  <2>1. TaskStep
    BY <1>7 DEF NextPair, TaskStep
  <2>2. CASE Return(w)
    BY <2>1, <2>2, Returns
  <2>3. ASSUME NEW r \in Event,
               IF l.version = 0 THEN Proceed(w, "start", [l EXCEPT !.pair = r])
                                ELSE Decide(w, [l EXCEPT !.pair = r])
        PROVE  HooksSafe
    <3>1. PICK n : n = [l EXCEPT !.pair = r]
      OBVIOUS
    <3>2. n \in Loc /\ n.version = l.version /\ n.snap = l.snap /\ n.pair = r
      BY <1>3, <3>1 DEF Loc
    <3>3. Sound("start", n) /\ Sound("record", n)
      BY <1>3, <3>2, Relaxed
    <3>4. CASE l.version = 0
      BY <2>1, <2>3, <3>1, <3>2, <3>3, <3>4, Proceeds DEF PC
    <3>5. CASE l.version # 0
      BY <2>1, <2>3, <3>1, <3>2, <3>3, <3>5, Decides
    <3> QED BY <3>4, <3>5
  <2>4. \/ Return(w)
        \/ \E r \in Event : IF l.version = 0 THEN Proceed(w, "start", [l EXCEPT !.pair = r])
                                             ELSE Decide(w, [l EXCEPT !.pair = r])
    <3>1. CASE Return(w)
      BY <3>1
    <3>2. CASE ~Return(w)
      <4>1. PICK r \in Pending :
               LET locals == [loc[w] EXCEPT !.pair = r]
               IN  IF locals.version = 0 THEN Proceed(w, "start", locals) ELSE Decide(w, locals)
        BY <1>7, <3>2 DEF NextPair
      <4>2. PICK n : n = [l EXCEPT !.pair = r]
        OBVIOUS
      <4>3. n.version = l.version /\ r \in Event
        BY <1>3, <4>2 DEF Loc, Pending
      <4> QED BY <1>2, <4>1, <4>2, <4>3
    <3> QED BY <3>1, <3>2
  <2> QED BY <2>1, <2>2, <2>3, <2>4
<1>8. CASE Start(w)
  <2>1. TaskStep /\ (Return(w) \/ Goto(w, "create")) /\ l.pair \in Event
    BY <1>3, <1>8 DEF Start, TaskStep, Sound, WithPair
  <2> QED BY <1>2, <2>1, Returns, Goes DEF PC
<1>9. CASE Create(w)
  <2>1. l.pair \in Event /\ (Return(w) \/ Goto(w, "started"))
    BY <1>3, <1>9 DEF Create, Sound, WithPair
  <2>2. TaskStep
    BY <1>2, <1>9, <2>1, CreateSteps
  <2> QED BY <1>2, <2>1, <2>2, Returns, Goes DEF PC
<1>10. CASE Started(w)
  <2>1. TaskStep /\ l.pair \in Event /\ (Return(w) \/ (task # <<>> /\ Decide(w, m)))
    BY <1>3, <1>4, <1>10 DEF Started, TaskStep, Sound, WithPair
  <2>2. Sound("record", m)
    BY <1>5, <2>1, Relaxed
  <2> QED BY <1>5, <2>1, <2>2, Returns, Decides
<1>11. CASE Again(w)
  <2>1. TaskStep
    BY <1>11 DEF Again, TaskStep
  <2>2. PICK n : n = [m EXCEPT !.pair = None]
    OBVIOUS
  <2>3. n \in Loc /\ n.version = m.version /\ n.snap = m.snap
    BY <1>5, <2>2 DEF Loc
  <2>4. Sound("next", n)
    BY <1>5, <2>3, Relaxed DEF WithPair
  <2> QED BY <1>4, <1>11, <2>1, <2>2, <2>3, <2>4, Proceeds DEF Again, PC
<1> QED BY <1>6, <1>7, <1>8, <1>9, <1>10, <1>11

\* A step that was recorded is in the last version.
LEMMA LastVersionHolds ==
    ASSUME TypeOK, Versions, ~barred, NEW v \in DOMAIN task, NEW r, Holds(task[v], r)
    PROVE  task # <<>> /\ Holds(Latest, r)
<1>1. Len(task) \in DOMAIN task /\ v <= Len(task) /\ task # <<>>
  BY VersionFacts, EmptySeq
<1>2. task[v] \in Snapshot /\ Latest \in Snapshot
  BY <1>1, VersionFacts
<1>3. /\ Len(task[v].steps) <= Len(Latest.steps)
      /\ \A i \in DOMAIN task[v].steps : Latest.steps[i] = task[v].steps[i]
  BY <1>1 DEF Versions, Growing, Latest
<1>4. DOMAIN task[v].steps \subseteq DOMAIN Latest.steps
  BY <1>2, <1>3, StepFacts
<1> QED BY <1>1, <1>3, <1>4 DEF Holds

\* The steps that record, cite and put away a pair.
LEMMA RecordingHooks ==
    ASSUME TypeOK, Working, Versions, NEW w \in Worker,
           Record(w) \/ Commit(w) \/ Reload(w) \/ Complete(w)
    PROVE  HooksSafe /\ TaskStep
<1>1. PICK l : l = loc[w]
  OBVIOUS
<1>2. l \in Loc /\ Sound(pc[w], l)
  BY <1>1, LocFacts DEF Working
<1>3. l.pair \in Event
  BY <1>2 DEF Record, Commit, Reload, Complete, Sound, WithPair
<1>4. CASE Record(w)
  <2> DEFINE v == l.version
  <2>1. TaskStep
    BY <1>4 DEF Record, TaskStep
  <2>2. CASE Goto(w, "fail")
    BY <1>1, <1>3, <2>1, <2>2, Goes DEF PC
  <2>3. CASE /\ Readable(v) /\ l.pair \notin Active(task[v])
             /\ Proceed(w, "commit", [l EXCEPT !.snap = task[v]])
    <3>1. v \in DOMAIN task /\ task[v] \in Snapshot /\ v # 0
      BY <2>3, VersionFacts DEF Readable
    <3>2. PICK m : m = [l EXCEPT !.snap = task[v]]
      OBVIOUS
    <3>3. m \in Loc /\ m.snap = task[v] /\ m.version = v /\ m.pair = l.pair
      BY <1>2, <3>1, <3>2 DEF Loc
    <3>4. Single(task[v].steps)
      BY <3>1 DEF Versions, AppliedOnce, Single
    <3>5. Sound("commit", m)
      BY <1>3, <2>3, <3>1, <3>3, <3>4 DEF Sound
    <3> QED BY <2>1, <2>3, <3>2, <3>3, <3>5, Proceeds DEF PC
  <2> QED BY <1>1, <1>4, <2>2, <2>3 DEF Record
<1>5. CASE Commit(w)
  <2>1. TaskStep /\ pc[w] = "commit"
    BY <1>1, <1>2, <1>5, CommitSteps DEF Commit
  <2>2. CASE Goto(w, "fail")
    BY <1>1, <1>3, <2>1, <2>2, Goes DEF PC
  <2>3. CASE /\ Accepts(l.version + 1, WithStep(w))
             /\ Store(l.version + 1, WithStep(w)) /\ Goto(w, "reload")
    <3>1. PICK s, v : s = WithStep(w) /\ v = l.version + 1
      OBVIOUS
    <3>2. s \in Snapshot /\ Holds(s, l.pair) /\ l.version \in Nat \ {0}
      BY <1>1, <1>2, <2>1, <3>1, WithStepFacts
    <3>3. v \in DOMAIN task' /\ task'[v] = s
      <4>1. CASE Committed(v, s)
        BY <2>3, <3>1, <4>1 DEF Committed, Readable, Store
      <4>2. CASE ~Committed(v, s)
        <5>1. task' = Append(task, s) /\ v = Len(task) + 1
          BY <2>3, <3>1, <4>2 DEF Accepts, Store
        <5> QED BY <3>2, <5>1, AddFacts, VersionFacts
      <4> QED BY <4>1, <4>2
    <3>4. PICK m : m = l
      OBVIOUS
    <3>5. Sound("next", m)'
      <4>1. Sound("next", m)
        BY <1>2, <3>4, Relaxed DEF WithPair
      <4> QED BY <2>1, <4>1, SoundStays
    <3>6. Sound("reload", m)'
      BY <1>3, <3>2, <3>3, <3>4, <3>5 DEF Sound, Holds
    <3>7. Proceed(w, "reload", m)
      BY <1>1, <2>3, <3>4 DEF Goto, Proceed, TypeOK
    <3> QED BY <1>2, <2>1, <3>4, <3>6, <3>7, WorkingStep DEF PC, HooksSafe
  <2> QED BY <1>1, <1>5, <2>1, <2>2, <2>3 DEF Commit
<1>6. CASE Reload(w)
  <2>1. TaskStep /\ pc[w] = "reload"
    BY <1>6 DEF Reload, TaskStep
  <2>2. CASE Goto(w, "fail")
    BY <1>1, <1>3, <2>1, <2>2, Goes DEF PC
  <2>3. CASE task # <<>> /\ Proceed(w, "complete", Loaded(w))
    <3>1. PICK m : m = Loaded(w)
      OBVIOUS
    <3>2. /\ m \in Loc /\ m.pair = l.pair /\ m.version # 0
          /\ m.snap = Latest /\ m.snap \in Snapshot /\ Single(m.snap.steps)
          /\ m.version \in DOMAIN task /\ m.snap = task[m.version]
      BY <1>1, <2>3, <3>1, LoadedFacts
    <3>3. ~barred => Holds(m.snap, m.pair)
      BY <1>2, <2>1, <3>2, LastVersionHolds DEF Sound
    <3>4. Sound("complete", m)
      BY <1>3, <3>2, <3>3 DEF Sound
    <3> QED BY <2>1, <2>3, <3>1, <3>2, <3>4, Proceeds DEF PC
  <2> QED BY <1>6, <2>1, <2>2, <2>3 DEF Reload
<1>7. CASE Complete(w)
  <2>1. TaskStep
    BY <1>7 DEF Complete, TaskStep
  <2>2. CASE Proceed(w, "next", [l EXCEPT !.pair = None, !.known = FALSE])
    <3>1. PICK m : m = [l EXCEPT !.pair = None, !.known = FALSE]
      OBVIOUS
    <3>2. m \in Loc /\ m.version = l.version /\ m.snap = l.snap
      BY <1>2, <3>1 DEF Loc
    <3>3. Sound("next", m)
      BY <1>2, <3>2, Relaxed DEF WithPair
    <3> QED BY <2>1, <2>2, <3>1, <3>2, <3>3, Proceeds DEF PC
  <2>3. CASE Raise(w)
    BY <1>1, <1>3, <2>1, <2>3, Returns, Goes DEF Raise, PC
  <2> QED BY <1>1, <1>7, <2>1, <2>2, <2>3 DEF Complete
<1> QED BY <1>4, <1>5, <1>6, <1>7

-----------------------------------------------------------------------------
(* The receipts.                                                           *)

\* A receipt stays true while the task grows, and goes with its evidence.
LEMMA ReceiptsStay ==
    ASSUME TypeOK, ReceiptTruthful, TaskStep, Tables',
           \A r \in Event : Is(r, "processed")' =>
               Is(r, "processed") /\ pairs'[r].version = pairs[r].version
    PROVE  ReceiptTruthful'
<1>1. CASE barred'
  <2>1. \A r \in Event : pairs'[r] = None
    BY <1>1 DEF Tables
  <2> QED BY <2>1 DEF ReceiptTruthful, Is
<1>2. CASE ~barred'
  <2>1. \A v \in DOMAIN task : v \in DOMAIN task' /\ task'[v] = task[v]
    <3>1. CASE UNCHANGED task
      BY <3>1
    <3>2. ASSUME NEW s \in Snapshot, Adds(s)
          PROVE  \A v \in DOMAIN task : v \in DOMAIN task' /\ task'[v] = task[v]
      BY <3>2, AddFacts, VersionFacts DEF Adds
    <3> QED BY <1>2, <3>1, <3>2 DEF TaskStep
  <2> QED BY <2>1 DEF ReceiptTruthful
<1> QED BY <1>1, <1>2

\* A receipt is written for a step that its version holds.
LEMMA CompleteIsTruthful ==
    ASSUME TypeOK, Queue, ReceiptTruthful, NEW w \in Worker, Sound(pc[w], loc[w]), Complete(w)
    PROVE  ReceiptTruthful'
<1>1. PICK x, v : x = loc[w].pair /\ v = loc[w].version
  OBVIOUS
<1>2. ~barred => v \in DOMAIN task /\ Holds(task[v], x)
  BY <1>1 DEF Complete, Sound, WithPair
<1>3. UNCHANGED task
  BY DEF Complete
<1>4. CASE UNCHANGED pairs
  BY <1>3, <1>4 DEF ReceiptTruthful, Is
<1>5. CASE ~UNCHANGED pairs
  <2>1. Is(x, "pending") /\ pairs' = [pairs EXCEPT ![x].status = "processed", ![x].version = v]
    BY <1>1, <1>5 DEF Complete
  <2>2. x \in Event /\ ~barred
    BY <1>1, <2>1 DEF Complete, Sound, WithPair, Queue, Tables, Is
  <2>3. pairs[x] \in Pair
    BY <2>1, <2>2, PairFacts DEF Is
  <2>4. pairs'[x].version = v /\ \A r \in Event \ {x} : pairs'[r] = pairs[r]
    BY <2>1, <2>2, <2>3 DEF TypeOK, Pair
  <2>5. ASSUME NEW r \in Event, Is(r, "processed")'
        PROVE  /\ pairs'[r].version \in DOMAIN task
               /\ \E i \in DOMAIN task[pairs'[r].version].steps :
                     task[pairs'[r].version].steps[i] = r
    <3>1. CASE r = x
      BY <1>2, <2>2, <2>4, <3>1 DEF Holds
    <3>2. CASE r # x
      BY <2>4, <2>5, <3>2 DEF ReceiptTruthful, Is
    <3> QED BY <3>1, <3>2
  <2> QED BY <1>3, <2>5 DEF ReceiptTruthful
<1> QED BY <1>4, <1>5

-----------------------------------------------------------------------------
(* The invariant.                                                          *)

\* At first nothing is stored and no hook runs.
LEMMA InitInv == ASSUME Init PROVE IInv
<1>1. \A e \in Event : row[e] = 0 /\ pairs[e] = None
  BY DEF Init
<1>2. Stored = {}
  BY <1>1 DEF Stored
<1>3. NoLoc \in Loc /\ NoLoc.version = 0
  BY DEF NoLoc, Loc
<1>4. TypeOK
  <2>1. task \in Seq(Snapshot)
    BY DEF Init
  <2>2. row \in [Event -> Nat] /\ pairs \in [Event -> Pair \cup {None}]
    BY DEF Init
  <2>3. pc \in [Worker -> PC] /\ loc \in [Worker -> Loc]
    BY <1>3 DEF Init, PC
  <2> QED BY <2>1, <2>2, <2>3 DEF Init, TypeOK
<1>5. Queue
  BY <1>1, <1>2 DEF Init, Queue, Tables, OneFate, Accounted
<1>6. DOMAIN task = {}
  BY DEF Init
<1>7. Versions /\ ReceiptTruthful
  BY <1>1, <1>6 DEF Versions, AppliedOnce, Growing, ReceiptTruthful, Is
<1>8. Working
  BY <1>3 DEF Init, Working, Sound, WithPair
<1> QED BY <1>4, <1>5, <1>7, <1>8 DEF IInv

\* What the tables of the queue hold is of its shape after a row was read.
LEMMA ReadTypes ==
    ASSUME TypeOK, NEW e \in Event, ReadText(e) \/ ReadTool(e)
    PROVE  /\ calls' \subseteq Event /\ dead' \subseteq Event
           /\ pairs' \in [Event -> Pair \cup {None}]
<1>1. CASE ReadText(e) \/ Broken(e) \/ ReadCall(e)
  BY <1>1 DEF ReadText, Broken, ReadCall, TypeOK, Duplicate
<1>2. CASE ReadResult(e)
  <2>1. ASSUME NEW c \in Duplicate(e)
        PROVE  [call |-> c, status |-> "pending", attempts |-> 0, version |-> 0] \in Pair
    BY <2>1 DEF Duplicate, TypeOK, Pair
  <2> QED BY <1>2, <2>1 DEF ReadResult, TypeOK
<1> QED BY <1>1, <1>2 DEF ReadTool

\* Deleting keeps the shape of the tables.
LEMMA DeleteTypes ==
    ASSUME TypeOK, NEW D, Delete(D)
    PROVE  /\ row' \in [Event -> Nat] /\ calls' \subseteq Event /\ dead' \subseteq Event
           /\ pairs' \in [Event -> Pair \cup {None}]
BY DEF Delete, TypeOK

\* What a hook changes of the queue keeps its shape.
LEMMA WorkTypes ==
    ASSUME TypeOK, NEW w \in Worker,
           NextPair(w) \/ (loc[w].pair \in Event /\ (Complete(w) \/ Fail(w)))
    PROVE  pairs' \in [Event -> Pair \cup {None}] /\ dead' \subseteq Event
<1>1. CASE UNCHANGED <<pairs, dead>>
  BY <1>1 DEF TypeOK
<1>2. CASE NextPair(w) /\ ~UNCHANGED <<pairs, dead>>
  <2>1. PICK r \in Pending : pairs' = [pairs EXCEPT ![r].attempts = @ + 1] /\ UNCHANGED dead
    BY <1>2 DEF NextPair, queue
  <2>2. r \in Event /\ pairs[r] \in Pair
    BY <2>1, PairFacts DEF Pending, Is
  <2>3. [pairs[r] EXCEPT !.attempts = @ + 1] \in Pair
    BY <2>2 DEF Pair
  <2> QED BY <2>1, <2>2, <2>3 DEF TypeOK
<1>3. CASE loc[w].pair \in Event /\ Complete(w) /\ ~UNCHANGED <<pairs, dead>>
  <2>1. PICK r, v : r = loc[w].pair /\ v = loc[w].version
    OBVIOUS
  <2>2. /\ r \in Event /\ Is(r, "pending") /\ UNCHANGED dead /\ v \in Nat
        /\ pairs' = [pairs EXCEPT ![r].status = "processed", ![r].version = v]
    BY <1>3, <2>1, LocFacts DEF Complete
  <2>3. pairs[r] \in Pair
    BY <2>2, PairFacts DEF Is
  <2>4. [pairs[r] EXCEPT !.status = "processed", !.version = v] \in Pair
    BY <2>2, <2>3 DEF Pair
  <2> QED BY <2>2, <2>3, <2>4 DEF TypeOK
<1>4. CASE loc[w].pair \in Event /\ Fail(w) /\ ~UNCHANGED <<pairs, dead>>
  <2>1. PICK r : r = loc[w].pair
    OBVIOUS
  <2>2. /\ r \in Event /\ Is(r, "pending") /\ dead' = dead \cup {r}
        /\ pairs' = [pairs EXCEPT ![r].status = "dead"]
    BY <1>4, <2>1 DEF Fail
  <2>3. pairs[r] \in Pair
    BY <2>2, PairFacts DEF Is
  <2>4. [pairs[r] EXCEPT !.status = "dead"] \in Pair
    BY <2>3 DEF Pair
  <2> QED BY <2>2, <2>3, <2>4 DEF TypeOK
<1> QED BY <1>1, <1>2, <1>3, <1>4

\* The steps of a hook that ingest nothing and change no pair.
Elsewhere(w) ==
    \/ Sync(w) \/ BeginIngest(w) \/ CommitIngest(w) \/ CommitFails(w) \/ Crash(w)
    \/ Load(w) \/ Start(w) \/ Create(w) \/ Started(w) \/ Again(w)
    \/ Record(w) \/ Commit(w) \/ Reload(w)

\* They leave the queue.
LEMMA ElsewhereLeavesQueue == ASSUME NEW w \in Worker, Elsewhere(w) PROVE UNCHANGED queue
<1>1. CASE Sync(w) \/ BeginIngest(w) \/ CommitIngest(w) \/ CommitFails(w) \/ Crash(w)
  BY <1>1 DEF Sync, BeginIngest, CommitIngest, CommitFails, Crash
<1>2. CASE \/ Load(w) \/ Start(w) \/ Create(w) \/ Started(w) \/ Again(w)
           \/ Record(w) \/ Commit(w) \/ Reload(w)
  BY <1>2 DEF Load, Start, Create, Started, Again, Record, Commit, Reload
<1> QED BY <1>1, <1>2 DEF Elsewhere

\* A hook counts its faults, and changes rows and barrier nowhere.
LEMMA HookRest ==
    ASSUME TypeOK, NEW w \in Worker, Sync(w) \/ Continue(w) \/ CommitFails(w) \/ Crash(w)
    PROVE  /\ UNCHANGED <<row, seen, barred, spent>>
           /\ writer' \in Worker \cup {None} /\ faults' \in Nat
<1> USE DEF counters
<1>1. CASE Sync(w) \/ BeginIngest(w) \/ IngestRow(w) \/ CommitIngest(w)
  BY <1>1 DEF Sync, BeginIngest, IngestRow, CommitIngest, TypeOK
<1>2. CASE CommitFails(w) \/ Crash(w)
  BY <1>2 DEF CommitFails, Crash, TypeOK
<1>3. CASE Load(w) \/ Start(w) \/ Create(w) \/ Started(w) \/ Again(w)
  BY <1>3 DEF Load, Start, Create, Started, Again, TypeOK
<1>4. CASE Record(w) \/ Commit(w) \/ Reload(w)
  BY <1>4 DEF Record, Commit, Reload, TypeOK
<1>5. CASE NextPair(w) \/ Complete(w) \/ Fail(w)
  BY <1>5 DEF NextPair, Complete, Fail, TypeOK
<1> QED BY <1>1, <1>2, <1>3, <1>4, <1>5 DEF Continue

\* A hook keeps the invariant.
LEMMA HookInv ==
    ASSUME IInv, NEW w \in Worker, Sync(w) \/ Continue(w) \/ CommitFails(w) \/ Crash(w)
    PROVE  IInv' /\ TaskStep
<1>1. TypeOK /\ Queue /\ Versions /\ ReceiptTruthful /\ Working /\ Sound(pc[w], loc[w])
  BY DEF IInv, Working
<1>2. HooksSafe /\ TaskStep
  BY <1>1, IngestingHooks, StartingHooks, RecordingHooks DEF Continue
<1>3. Versions' /\ task' \in Seq(Snapshot)
  BY <1>1, <1>2, TaskStepKeepsVersions
<1>4. /\ UNCHANGED <<row, seen, barred, spent>>
      /\ writer' \in Worker \cup {None} /\ faults' \in Nat
      /\ Elsewhere(w) => UNCHANGED queue
  BY <1>1, HookRest, ElsewhereLeavesQueue
<1>5. loc[w].pair \in Event \/ ~(Complete(w) \/ Fail(w))
  BY <1>1 DEF Complete, Fail, Sound, WithPair
<1>6. Queue'
  BY <1>1, <1>4, <1>5, QueueStays, IngestRowKeepsQueue, WorkKeepsQueue DEF Elsewhere, Continue
<1>7. /\ calls' \subseteq Event /\ dead' \subseteq Event /\ cursor' \in Nat /\ read' \subseteq Event
      /\ pairs' \in [Event -> Pair \cup {None}]
  <2>1. CASE Elsewhere(w)
    BY <1>1, <1>4, <2>1 DEF queue, TypeOK
  <2>2. CASE IngestRow(w)
    <3>1. PICK e \in Unread : /\ ReadText(e) \/ ReadTool(e)
                              /\ cursor' = row[e] /\ read' = read \cup {e}
      BY <2>2 DEF IngestRow
    <3>2. e \in Event /\ row[e] \in Nat
      BY <1>1, <3>1, UnreadIsNew
    <3> QED BY <1>1, <3>1, <3>2, ReadTypes DEF TypeOK
  <2>3. CASE NextPair(w) \/ Complete(w) \/ Fail(w)
    <3>1. UNCHANGED <<calls, cursor, read>>
      BY <2>3 DEF NextPair, Complete, Fail, queue
    <3> QED BY <1>1, <1>5, <2>3, <3>1, WorkTypes DEF TypeOK
  <2> QED BY <2>1, <2>2, <2>3 DEF Elsewhere, Continue
<1>8. TypeOK'
  BY <1>1, <1>2, <1>3, <1>4, <1>7 DEF TypeOK, HooksSafe
<1>9. ReceiptTruthful'
  <2>1. CASE Complete(w)
    BY <1>1, <2>1, CompleteIsTruthful
  <2>2. CASE ~Complete(w)
    <3>1. ASSUME NEW r \in Event, Is(r, "processed")'
          PROVE  Is(r, "processed") /\ pairs'[r].version = pairs[r].version
      <4>1. CASE Elsewhere(w)
        BY <1>4, <3>1, <4>1 DEF queue, Is
      <4>2. CASE IngestRow(w)
        <5>1. PICK e \in Unread : ReadText(e) \/ ReadTool(e)
          BY <4>2 DEF IngestRow
        <5>2. e \in Event
          BY <1>1, <5>1, UnreadIsNew
        <5>3. CASE UNCHANGED pairs
          BY <3>1, <5>3 DEF Is
        <5>4. ASSUME NEW c,
                     pairs' = [pairs EXCEPT ![e] = [call |-> c, status |-> "pending",
                                                    attempts |-> 0, version |-> 0]]
              PROVE  Is(r, "processed") /\ pairs'[r].version = pairs[r].version
          BY <1>1, <3>1, <5>2, <5>4 DEF Is, TypeOK
        <5> QED BY <5>1, <5>3, <5>4 DEF ReadText, ReadTool, Broken, ReadCall, ReadResult
      <4>3. CASE NextPair(w)
        <5>1. CASE UNCHANGED pairs
          BY <3>1, <5>1 DEF Is
        <5>2. CASE ~UNCHANGED pairs
          <6>1. PICK q \in Event : /\ Is(q, "pending") /\ pairs[q] \in Pair
                                   /\ pairs' = [pairs EXCEPT ![q].attempts = @ + 1]
            BY <1>1, <4>3, <5>2, PairFacts DEF NextPair, Pending, Is, queue
          <6>2. pairs'[q].status = "pending" /\ \A p \in Event \ {q} : pairs'[p] = pairs[p]
            BY <1>1, <6>1 DEF TypeOK, Is, Pair
          <6> QED BY <3>1, <6>2 DEF Is
        <5> QED BY <5>1, <5>2
      <4>4. CASE Fail(w)
        <5>1. CASE UNCHANGED pairs
          BY <3>1, <5>1 DEF Is
        <5>2. CASE ~UNCHANGED pairs
          <6>1. PICK q : q = loc[w].pair
            OBVIOUS
          <6>2. /\ q \in Event /\ Is(q, "pending")
                /\ pairs' = [pairs EXCEPT ![q].status = "dead"]
            BY <1>5, <4>4, <5>2, <6>1 DEF Fail
          <6>3. pairs[q] \in Pair
            BY <1>1, <6>2, PairFacts DEF Is
          <6>4. pairs'[q].status = "dead" /\ \A p \in Event \ {q} : pairs'[p] = pairs[p]
            BY <1>1, <6>2, <6>3 DEF TypeOK, Pair
          <6> QED BY <3>1, <6>4 DEF Is
        <5> QED BY <5>1, <5>2
      <4> QED BY <2>2, <4>1, <4>2, <4>3, <4>4 DEF Elsewhere, Continue
    <3> QED BY <1>1, <1>2, <1>6, <3>1, ReceiptsStay DEF Queue
  <2> QED BY <2>1, <2>2
<1> QED BY <1>2, <1>3, <1>6, <1>8, <1>9 DEF IInv, HooksSafe

\* So do retention, the purge, a capture and the operator.
LEMMA OutsideInv ==
    ASSUME IInv,
           \/ \E e \in Event : Capture(e)
           \/ \E n \in 1 .. Cardinality(Event) : Collect(n)
           \/ Purge
           \/ \E open \in BOOLEAN : UpdateTask(open)
    PROVE  IInv' /\ TaskStep
<1>1. TypeOK /\ Queue /\ Versions /\ ReceiptTruthful /\ Working
  BY DEF IInv
<1>2. CASE \E e \in Event : Capture(e)
  <2>1. PICK e \in Event : Capture(e)
    BY <1>2
  <2>2. UNCHANGED <<queue, task, barred, writer, procs, counters>>
    BY <2>1 DEF Capture
  <2>3. seen' \subseteq Event /\ row' \in [Event -> Nat]
    <3>1. \A n \in 1 .. Cardinality(Event) : n > 0 => n \in Nat
      BY EventAssumption, FS_CardinalityType
    <3> QED BY <1>1, <2>1, <3>1 DEF Capture, FreshRow, TypeOK
  <2>4. TypeOK' /\ TaskStep
    BY <1>1, <2>2, <2>3 DEF TypeOK, TaskStep, queue, procs, counters
  <2>5. Queue'
    BY <1>1, <2>1, CaptureKeepsQueue
  <2>6. ReceiptTruthful' /\ Versions'
    BY <1>1, <2>2 DEF ReceiptTruthful, Is, Versions, AppliedOnce, Growing, queue
  <2> QED BY <1>1, <2>2, <2>4, <2>5, <2>6, WorkingStays DEF IInv
<1>3. CASE \E n \in 1 .. Cardinality(Event) : Collect(n)
  <2>1. PICK n \in 1 .. Cardinality(Event), D \in SUBSET Stored : Collect(n) /\ Delete(D)
    BY <1>3 DEF Collect
  <2>2. UNCHANGED <<seen, cursor, read, task, barred, writer, procs, faults>> /\ spent' = spent + 1
    BY <2>1 DEF Collect
  <2>3. TypeOK' /\ TaskStep
    BY <1>1, <2>1, <2>2, DeleteTypes DEF TypeOK, TaskStep, procs
  <2>4. Queue'
    BY <1>1, <2>1, CollectKeepsQueue
  <2>5. \A r \in Event : pairs'[r] # None => pairs'[r] = pairs[r]
    BY <2>1 DEF Delete
  <2>6. ReceiptTruthful'
    BY <1>1, <2>3, <2>4, <2>5, ReceiptsStay DEF Is, Queue
  <2>7. Versions'
    BY <1>1, <2>3, TaskStepKeepsVersions
  <2> QED BY <1>1, <2>2, <2>3, <2>4, <2>6, <2>7, WorkingStays DEF IInv
<1>4. CASE Purge
  <2>1. PICK D \in SUBSET Stored : Delete(D)
    BY <1>4 DEF Purge
  <2>2. /\ UNCHANGED <<seen, read, writer, procs, faults>> /\ spent' = spent + 1
        /\ cursor' = 0 /\ task' = <<>> /\ barred' = TRUE
    BY <1>4 DEF Purge
  <2>3. TaskStep
    BY <2>2 DEF TaskStep
  <2>4. Versions' /\ task' \in Seq(Snapshot)
    BY <1>1, <2>3, TaskStepKeepsVersions
  <2>5. TypeOK'
    BY <1>1, <2>1, <2>2, <2>4, DeleteTypes DEF TypeOK, procs
  <2>6. Queue'
    BY <1>1, <1>4, PurgeKeepsQueue
  <2>7. \A r \in Event : pairs'[r] # None => pairs'[r] = pairs[r]
    BY <2>1 DEF Delete
  <2>8. ReceiptTruthful'
    BY <1>1, <2>3, <2>6, <2>7, ReceiptsStay DEF Is, Queue
  <2> QED BY <1>1, <2>2, <2>3, <2>4, <2>5, <2>6, <2>8, WorkingStays DEF IInv
<1>5. CASE \E open \in BOOLEAN : UpdateTask(open)
  <2>1. PICK open \in BOOLEAN : UpdateTask(open)
    BY <1>5
  <2>2. /\ UNCHANGED <<row, seen, queue, barred, writer, procs, faults>> /\ spent' = spent + 1
    BY <2>1 DEF UpdateTask
  <2>3. TaskStep
    BY <1>1, <2>1, UpdateSteps
  <2>4. Versions' /\ task' \in Seq(Snapshot)
    BY <1>1, <2>3, TaskStepKeepsVersions
  <2>5. TypeOK'
    BY <1>1, <2>2, <2>4 DEF TypeOK, queue, procs
  <2>6. Queue'
    BY <1>1, <2>2, QueueStays
  <2>7. ReceiptTruthful'
    BY <1>1, <2>2, <2>3, <2>6, ReceiptsStay DEF Is, Queue, queue
  <2> QED BY <1>1, <2>2, <2>3, <2>4, <2>5, <2>6, <2>7, WorkingStays DEF IInv
<1> QED BY <1>2, <1>3, <1>4, <1>5

\* Every step of the system keeps the invariant, and the task takes a task step.
LEMMA NextInv == ASSUME IInv, [Next]_vars PROVE IInv' /\ TaskStep
<1>1. CASE UNCHANGED vars
  <2>1. UNCHANGED <<row, seen, cursor, calls, pairs, dead, read, task, barred, writer,
                    pc, loc, faults, spent>>
    BY <1>1 DEF vars, queue, procs, counters
  <2>2. TypeOK' /\ TaskStep
    BY <2>1 DEF IInv, TypeOK, TaskStep
  <2>3. Queue'
    BY <2>1, QueueStays DEF IInv, queue
  <2>4. Working'
    BY <2>1, <2>2, WorkingStays DEF IInv, procs
  <2>5. Versions' /\ ReceiptTruthful'
    BY <2>1 DEF IInv, Versions, AppliedOnce, Growing, ReceiptTruthful, Is
  <2> QED BY <2>2, <2>3, <2>4, <2>5 DEF IInv
<1>2. CASE \E w \in Worker : Sync(w) \/ Continue(w) \/ CommitFails(w) \/ Crash(w)
  BY <1>2, HookInv
<1> QED BY <1>1, <1>2, OutsideInv DEF Next

-----------------------------------------------------------------------------
(* The theorems.                                                           *)

\* The invariant holds in every state.
THEOREM Invariant == Spec => []IInv
BY InitInv, NextInv, PTL DEF Spec

\* Every table of the offload queue, the task and every local of a hook is of its shape.
THEOREM TypeCorrect == Spec => []TypeOK
<1>1. IInv => TypeOK
  BY DEF IInv
<1> QED BY <1>1, Invariant, PTL

\* ingest_offload_sync_delta passes over no tool evidence silently: what it has read waits,
\* is in a pair or has its dead letter, whatever was deleted or read twice meanwhile.
THEOREM NothingIsLost == Spec => []Accounted
<1>1. IInv => Accounted
  BY DEF IInv, Queue
<1> QED BY <1>1, Invariant, PTL

\* ... and only one of these; no call answers two results.
THEOREM EachHasOneFate == Spec => []OneFate
<1>1. IInv => OneFate
  BY DEF IInv, Queue
<1> QED BY <1>1, Invariant, PTL

\* complete_offload_sync_pair cites a version of the task that holds the step.
THEOREM ReceiptsAreTrue == Spec => []ReceiptTruthful
<1>1. IInv => ReceiptTruthful
  BY DEF IInv
<1> QED BY <1>1, Invariant, PTL

\* However many hooks record one pair, no snapshot keeps its step twice.
THEOREM StepsApplyOnce == Spec => []AppliedOnce
<1>1. IInv => AppliedOnce
  BY DEF IInv, Versions
<1> QED BY <1>1, Invariant, PTL

\* commit_offload_bundle loses no update: until the session is purged a commit adds one
\* version, which keeps the steps of the one before.
THEOREM NoVersionIsOverwritten == Spec => VersionsGrow
<1> DEFINE Grows == (task' # task /\ ~barred') =>
                       /\ Len(task') = Len(task) + 1
                       /\ \A v \in DOMAIN task : task'[v] = task[v]
                       /\ task # <<>> => Extends(task'[Len(task')], Latest)
<1>1. ASSUME IInv, [Next]_vars PROVE [Grows]_vars
  <2>1. TaskStep /\ TypeOK
    BY <1>1, NextInv DEF IInv
  <2>2. ASSUME NEW s \in Snapshot, Adds(s), ~barred' PROVE Grows
    BY <2>1, <2>2, AddFacts DEF Adds
  <2> QED BY <2>1, <2>2 DEF TaskStep
<1> QED BY <1>1, Invariant, PTL DEF Spec, VersionsGrow
===============================================================================
