----------------------------- MODULE IntakeProofs -----------------------------
(***************************************************************************)
(* Proofs about TranscriptCapture and CandidateLifecycle as MCIntake       *)
(* composes them, for any number of lines, files, rows, instants and       *)
(* values, and any sets of hooks and formers.                              *)
(*                                                                         *)
(* CaptureInv adds to the properties of the capture what a hook knows      *)
(* between its transactions: unless a purge has closed the session, every  *)
(* event it has read past is known or among those it will store.  FormInv  *)
(* adds to the type of the relations that no two candidates have the same  *)
(* place, that a candidate which tells its time is at the place it tells,  *)
(* for the store and for every former, and that a batch over an unchanged  *)
(* store relates every claim.  The replay of relations is a recursive      *)
(* function: it exists (Iteration), five steps of it are one place         *)
(* (Round), and by induction on the places it computes Line, Repeating and *)
(* Updated.                                                                *)
(***************************************************************************)
EXTENDS MCIntake, SequenceTheorems, Iteration

\* What the variables of the capture hold.
Checkpoint == [prefix : Seq(Transcript!Line), inode : Nat]

Begun == [step : {"read"}, from : Checkpoint \cup {None}]

Batched == [step : {"lookup", "commit"}, after : Nat, all : Seq(Transcript!Line), inode : Nat,
            fresh : SUBSET Event]

\* Events on the lines of s.
On(s) == {s[i] : i \in 1 .. Len(s)} \ Noise

\* What a batch will store was read after the checkpoint; what it read is known or will be.
BatchOK(q) ==
    /\ \A e \in q.fresh : \E n \in q.after + 1 .. Len(q.all) : q.all[n] = e
    /\ IsFiniteSet(q.fresh)
    /\ ~closed => On(q.all) \subseteq known \cup q.fresh

\* What a capture in progress holds: nothing, the checkpoint it read, or a batch.
PendingOK(p) ==
    \/ pending[p] = None
    \/ pending[p] \in Begun /\ (~closed => On(Transcript!Prefix(pending[p].from)) \subseteq known)
    \/ pending[p] \in Batched /\ BatchOK(pending[p])

\* Once a session was purged, no batch of it is committed.
CaptureInv ==
    /\ lines \in Seq(Transcript!Line) /\ inode \in Nat
    /\ checkpoint \in Checkpoint \cup {None} /\ On(Transcript!Prefix(checkpoint)) \subseteq known
    /\ closed \in BOOLEAN /\ (closed => checkpoint = None) /\ (~closed => barred = {})
    /\ stored \in [Event -> Nat]
    /\ \A e \in Event : stored[e] <= 1 /\ (stored[e] # 0 => e \in known \cup barred)
    /\ IsFiniteSet(rows) /\ Transcript!WithinQuota /\ Transcript!Queued
    /\ pending = [p \in Capturer |-> pending[p]]
    /\ \A p \in Capturer : PendingOK(p)

\* The range of a sequence, as the instance defines it.
LEMMA SameRange == \A f : Transcript!Range(f) = {f[i] : i \in DOMAIN f}
BY DEF Transcript!Range

\* The cardinality of a set, as the instance defines it.
LEMMA SameCardinality == \A S : Transcript!Cardinality(S) = Cardinality(S)
BY DEF Transcript!Cardinality, Cardinality

\* The invariant of the capture implies the properties the run checks.
LEMMA CaptureIsSound == ASSUME CaptureInv PROVE Transcript!Captured
<1>1. ASSUME checkpoint # None
      PROVE  Transcript!Range(checkpoint.prefix) \ Noise \subseteq known
  <2>1. checkpoint.prefix \in Seq(Transcript!Line) /\ On(checkpoint.prefix) \subseteq known
    BY <1>1 DEF CaptureInv, Checkpoint, Transcript!Prefix
  <2>2. DOMAIN checkpoint.prefix = 1 .. Len(checkpoint.prefix)
    BY <2>1
  <2> QED BY <2>1, <2>2, SameRange DEF On
<1> QED BY <1>1 DEF CaptureInv, Transcript!Captured, Transcript!CheckpointCovers,
          Transcript!StoredOnce

\* An empty store satisfies the invariant of the capture.
LEMMA CaptureInit == ASSUME Transcript!Init PROVE CaptureInv
<1>1. IsFiniteSet(rows) /\ Cardinality(rows) = 0 /\ rows = {}
  BY FS_EmptySet DEF Transcript!Init
<1>2. Transcript!WithinQuota /\ Transcript!Queued
  BY <1>1, SameCardinality, QuotaAssumption DEF Transcript!WithinQuota, Transcript!Queued
<1>3. On(Transcript!Prefix(checkpoint)) = {}
  <2>1. Transcript!Prefix(checkpoint) = <<>>
    BY DEF Transcript!Init, Transcript!Prefix
  <2>2. Len(<<>>) = 0
    OBVIOUS
  <2> QED BY <2>1, <2>2 DEF On
<1>4. \A p \in Capturer : PendingOK(p)
  BY DEF Transcript!Init, PendingOK
<1>5. lines \in Seq(Transcript!Line) /\ inode \in Nat
  BY DEF Transcript!Init
<1>6. stored \in [Event -> Nat] /\ \A e \in Event : stored[e] = 0
  BY DEF Transcript!Init
<1>7. pending = [p \in Capturer |-> pending[p]]
  BY DEF Transcript!Init
<1>8. /\ checkpoint \in Checkpoint \cup {None} /\ On(Transcript!Prefix(checkpoint)) \subseteq known
      /\ closed \in BOOLEAN /\ (closed => checkpoint = None) /\ (~closed => barred = {})
  BY <1>3 DEF Transcript!Init
<1>9. \A e \in Event : stored[e] <= 1 /\ (stored[e] # 0 => e \in known \cup barred)
  BY <1>6
<1> QED BY <1>1, <1>2, <1>4, <1>5, <1>6, <1>7, <1>8, <1>9, Zenon DEF CaptureInv

\* A step that leaves the database, and one capture at most, keeps it.
LEMMA FileStep ==
    ASSUME CaptureInv, UNCHANGED Transcript!database,
           lines' \in Seq(Transcript!Line), inode' \in Nat, UNCHANGED pending
    PROVE  CaptureInv'
BY DEF CaptureInv, Transcript!database, Transcript!WithinQuota, Transcript!Queued, PendingOK,
   BatchOK, Transcript!Cardinality

\* A write, a torn line or a new file of the host leaves the store as it is.
LEMMA HostStep ==
    ASSUME CaptureInv,
           \/ \E l \in Transcript!Line : Transcript!AppendLine(l)
           \/ Transcript!Tear \/ Transcript!ReplaceFile
           \/ \E n \in 0 .. Len(lines) - 1 : Transcript!Truncate(n)
    PROVE  CaptureInv'
<1>0. lines \in Seq(Transcript!Line) /\ Len(lines) \in Nat /\ inode \in Nat
  BY DEF CaptureInv
<1>1. CASE \E l \in Transcript!Line : Transcript!AppendLine(l)
  BY <1>0, <1>1, FileStep DEF Transcript!AppendLine
<1>2. CASE Transcript!Tear
  BY <1>0, <1>2, FileStep DEF Transcript!Tear
<1>3. CASE Transcript!ReplaceFile
  BY <1>0, <1>3, FileStep DEF Transcript!ReplaceFile
<1>4. ASSUME NEW n \in 0 .. Len(lines) - 1, Transcript!Truncate(n) PROVE CaptureInv'
  <2>1. SubSeq(lines, 1, n) \in Seq(Transcript!Line)
    BY <1>0, SubSeqProperties
  <2> QED BY <1>0, <1>4, <2>1, FileStep DEF Transcript!Truncate
<1> QED BY <1>1, <1>2, <1>3, <1>4

\* A step of one capture that leaves the database keeps it.
LEMMA OneCapture ==
    ASSUME CaptureInv, NEW p \in Capturer, NEW q, Transcript!Goes(p, q),
           UNCHANGED <<Transcript!transcript, Transcript!database>>,
           \/ q = None
           \/ q \in Begun /\ (~closed => On(Transcript!Prefix(q.from)) \subseteq known)
           \/ q \in Batched /\ BatchOK(q)
    PROVE  CaptureInv'
<1>1. pending' = [pending EXCEPT ![p] = q]
  BY DEF Transcript!Goes
<1>2. pending' = [o \in Capturer |-> IF o = p THEN q ELSE pending[o]]
  BY <1>1 DEF CaptureInv
<1>3. UNCHANGED <<lines, inode, checkpoint, known, rows, stored, jobs, barred, closed>>
  BY DEF Transcript!transcript, Transcript!database
<1>4. \A o \in Capturer : PendingOK(o)'
  <2> TAKE o \in Capturer
  <2>1. CASE o = p
    BY <1>2, <1>3, <2>1 DEF PendingOK, BatchOK
  <2>2. CASE o # p
    <3>1. pending'[o] = pending[o] /\ PendingOK(o)
      BY <1>2, <2>2 DEF CaptureInv
    <3> QED BY <1>3, <3>1 DEF PendingOK, BatchOK
  <2> QED BY <2>1, <2>2
<1>5. pending' = [o \in Capturer |-> pending'[o]]
  BY <1>2
<1>6. Transcript!WithinQuota' /\ Transcript!Queued'
  BY <1>3 DEF CaptureInv, Transcript!WithinQuota, Transcript!Queued, Transcript!Cardinality
<1> QED BY <1>3, <1>4, <1>5, <1>6 DEF CaptureInv

\* The events of a part of a sequence are on its lines.
LEMMA PartOf ==
    ASSUME NEW S, NEW s \in Seq(S), NEW n \in 0 .. Len(s)
    PROVE  /\ \A e \in Transcript!Range(SubSeq(s, n + 1, Len(s))) :
                  \E i \in n + 1 .. Len(s) : s[i] = e
           /\ \A i \in n + 1 .. Len(s) : s[i] \in Transcript!Range(SubSeq(s, n + 1, Len(s)))
           /\ IsFiniteSet(Transcript!Range(SubSeq(s, n + 1, Len(s))))
<1>1. PICK t : t = SubSeq(s, n + 1, Len(s))
  OBVIOUS
<1>2. Len(s) \in Nat /\ n \in Nat /\ n <= Len(s)
  OBVIOUS
<1>3. /\ t \in Seq(S) /\ Len(t) = Len(s) - n
      /\ \A i \in 1 .. Len(s) - n : t[i] = s[n + i]
  <2>1. \A i \in n + 1 .. Len(s) : s[i] \in S
    BY <1>2
  <2>2. /\ t \in Seq(S) /\ Len(t) = IF n + 1 <= Len(s) THEN Len(s) - (n + 1) + 1 ELSE 0
        /\ \A i \in 1 .. Len(s) - (n + 1) + 1 : t[i] = s[(n + 1) + i - 1]
    <3>1. n + 1 \in Int /\ Len(s) \in Int
      BY <1>2
    <3> QED BY <1>1, <2>1, <3>1, SubSeqProperties
  <2>3. Len(t) = Len(s) - n
    BY <1>2, <2>2
  <2>4. ASSUME NEW i \in 1 .. Len(s) - n PROVE t[i] = s[n + i]
    <3>1. i \in 1 .. Len(s) - (n + 1) + 1 /\ (n + 1) + i - 1 = n + i
      BY <1>2
    <3> QED BY <2>2, <3>1
  <2> QED BY <2>2, <2>3, <2>4
<1>4. DOMAIN t = 1 .. Len(s) - n
  BY <1>3
<1>5. \A e : e \in Transcript!Range(t) <=> \E i \in 1 .. Len(s) - n : e = t[i]
  BY <1>4, SameRange
<1>6. ASSUME NEW e \in Transcript!Range(t) PROVE \E i \in n + 1 .. Len(s) : s[i] = e
  <2>1. PICK i \in 1 .. Len(s) - n : e = t[i]
    BY <1>5
  <2>2. n + i \in n + 1 .. Len(s) /\ s[n + i] = e
    BY <1>2, <1>3, <2>1
  <2> QED BY <2>2
<1>7. ASSUME NEW i \in n + 1 .. Len(s) PROVE s[i] \in Transcript!Range(t)
  <2>1. i - n \in 1 .. Len(s) - n /\ n + (i - n) = i
    BY <1>2
  <2>2. t[i - n] = s[i]
    BY <1>3, <2>1
  <2> QED BY <1>5, <2>1, <2>2
<1>8. IsFiniteSet(Transcript!Range(t))
  <2> DEFINE D == 1 .. Len(s) - n
             R == Transcript!Range(t)
             f == [i \in D |-> t[i]]
  <2>1. f \in Surjection(D, R)
    BY <1>5 DEF Surjection
  <2>2. IsFiniteSet(D)
    <3>1. 1 \in Int /\ Len(s) - n \in Int
      BY <1>2
    <3> QED BY <3>1, FS_Interval
  <2> HIDE DEF D, R, f
  <2>3. IsFiniteSet(R)
    BY <2>1, <2>2, FS_Surjection
  <2> QED BY <2>3 DEF R
<1> QED BY <1>1, <1>6, <1>7, <1>8

\* What was read after the checkpoint, together with what the checkpoint covers, is all.
LEMMA ReadStep ==
    ASSUME CaptureInv, NEW p \in Capturer, Transcript!ReadFile(p)
    PROVE  CaptureInv'
<1>1. PICK c : c = pending[p].from
  OBVIOUS
<1>2. UNCHANGED <<Transcript!transcript, Transcript!database>>
  BY DEF Transcript!ReadFile
<1>3. PICK old : old = Transcript!Prefix(c)
  OBVIOUS
<1>4. pending[p] \in Begun /\ (~closed => On(old) \subseteq known)
  BY <1>1, <1>3 DEF Transcript!ReadFile, CaptureInv, PendingOK, Batched
<1>5. old \in Seq(Transcript!Line) /\ Len(old) \in Nat
  <2>1. c \in Checkpoint \cup {None}
    BY <1>1, <1>4 DEF Begun
  <2>2. CASE c = None
    BY <1>3, <2>2 DEF Transcript!Prefix
  <2>3. CASE c # None
    BY <1>3, <2>1, <2>3 DEF Transcript!Prefix, Checkpoint
  <2> QED BY <2>2, <2>3
<1>6. lines \in Seq(Transcript!Line) /\ Len(lines) \in Nat /\ inode \in Nat
  BY DEF CaptureInv
<1> DEFINE q == [step |-> "lookup", after |-> Len(old), all |-> lines,
                 inode |-> inode, fresh |-> Transcript!Appended(c)]
<1>7. CASE Transcript!Goes(p, None)
  BY <1>2, <1>7, OneCapture
<1>8. CASE Transcript!Continues(c) /\ Len(lines) > Len(old) /\ Transcript!Goes(p, q)
  <2>1. \A i \in 1 .. Len(old) : lines[i] = old[i]
    <3>1. CASE c = None
      <4>1. Len(old) = 0
        BY <1>3, <3>1 DEF Transcript!Prefix
      <4> QED BY <4>1
    <3>2. CASE c # None
      <4>1. Transcript!IsPrefix(old, lines)
        BY <1>3, <1>8, <3>2 DEF Transcript!Continues, Transcript!Prefix
      <4>2. SubSeq(old, 1, Len(old)) = SubSeq(lines, 1, Len(old))
        BY <4>1 DEF Transcript!IsPrefix
      <4>3. ASSUME NEW i \in 1 .. Len(old) PROVE lines[i] = old[i]
        <5>1. SubSeq(old, 1, Len(old))[i] = old[i]
          BY <1>5
        <5>2. SubSeq(lines, 1, Len(old))[i] = lines[i]
          BY <1>5, <1>6, <1>8
        <5> QED BY <4>2, <5>1, <5>2
      <4> QED BY <4>3
    <3> QED BY <3>1, <3>2
  <2>2. PICK n \in 0 .. Len(lines) : n = Len(old)
    BY <1>5, <1>6, <1>8
  <2>3. Transcript!Appended(c) = Transcript!Range(SubSeq(lines, n + 1, Len(lines))) \ Noise
    BY <1>3, <2>2 DEF Transcript!Appended
  <2>4. /\ \A e \in Transcript!Appended(c) : \E i \in n + 1 .. Len(lines) : lines[i] = e
        /\ \A i \in n + 1 .. Len(lines) : lines[i] \in Transcript!Appended(c) \cup Noise
        /\ IsFiniteSet(Transcript!Appended(c)) /\ Transcript!Appended(c) \cap Noise = {}
    <3>1. PICK A : A = Transcript!Range(SubSeq(lines, n + 1, Len(lines)))
      OBVIOUS
    <3>2. /\ \A e \in A : \E i \in n + 1 .. Len(lines) : lines[i] = e
          /\ \A i \in n + 1 .. Len(lines) : lines[i] \in A /\ IsFiniteSet(A)
          /\ IsFiniteSet(A)
      BY <1>6, <3>1, PartOf
    <3>3. A \ Noise \in SUBSET A
      OBVIOUS
    <3>4. IsFiniteSet(A \ Noise)
      BY <3>2, <3>3, FS_Subset
    <3> QED BY <2>3, <3>1, <3>2, <3>4
  <2>5. Transcript!Appended(c) \subseteq Event
    <3>1. ASSUME NEW e \in Transcript!Appended(c) PROVE e \in Event
      <4>1. PICK i \in n + 1 .. Len(lines) : lines[i] = e
        BY <2>4
      <4>2. lines[i] \in Transcript!Line
        BY <1>6
      <4> QED BY <2>4, <4>1, <4>2 DEF Transcript!Line
    <3> QED BY <3>1
  <2>6. ~closed => On(lines) \subseteq known \cup Transcript!Appended(c)
    <3> SUFFICES ASSUME ~closed, NEW i \in 1 .. Len(lines), lines[i] \notin Noise
                 PROVE  lines[i] \in known \cup Transcript!Appended(c)
      BY DEF On
    <3>1. CASE i <= n
      <4>1. lines[i] = old[i] /\ i \in 1 .. Len(old)
        BY <2>1, <2>2, <3>1
      <4> QED BY <1>4, <4>1 DEF On
    <3>2. CASE i > n
      BY <2>4, <3>2
    <3> QED BY <3>1, <3>2
  <2>7. q \in Batched
    BY <1>5, <1>6, <2>5 DEF Batched
  <2>8. BatchOK(q)
    BY <2>2, <2>4, <2>6 DEF BatchOK
  <2> HIDE DEF q
  <2> QED BY <1>2, <1>8, <2>7, <2>8, OneCapture
<1>9. Transcript!Goes(p, None) \/ (Transcript!Continues(c) /\ Len(lines) > Len(old) /\ Transcript!Goes(p, q))
  BY <1>1, <1>3, <1>5, <1>6 DEF Transcript!ReadFile
<1> QED BY <1>7, <1>8, <1>9

\* Loading, looking up and dying leave the database.
LEMMA LoadStep ==
    ASSUME CaptureInv, NEW p \in Capturer,
           Transcript!Load(p) \/ Transcript!Lookup(p) \/ Transcript!Crash(p)
    PROVE  CaptureInv'
<1>1. CASE Transcript!Load(p)
  <2> DEFINE q == [step |-> "read", from |-> checkpoint]
  <2>1. q \in Begun /\ On(Transcript!Prefix(q.from)) \subseteq known
    BY DEF Begun, CaptureInv
  <2>2. /\ Transcript!Goes(p, q)
        /\ UNCHANGED <<Transcript!transcript, Transcript!database>>
    BY <1>1 DEF Transcript!Load
  <2> HIDE DEF q
  <2> QED BY <2>1, <2>2, OneCapture
<1>2. CASE Transcript!Lookup(p)
  <2>1. PICK o : o = pending[p]
    OBVIOUS
  <2>2. o \in Batched /\ BatchOK(o)
    BY <1>2, <2>1 DEF Transcript!Lookup, CaptureInv, PendingOK, Begun
  <2> DEFINE q == [o EXCEPT !.step = "commit", !.fresh = @ \ (known \cup barred)]
  <2>3. /\ q \in Batched /\ q.fresh = o.fresh \ (known \cup barred)
        /\ q.all = o.all /\ q.after = o.after
    BY <2>2 DEF Batched
  <2>4. Transcript!Goes(p, q) /\ UNCHANGED <<Transcript!transcript, Transcript!database>>
    BY <1>2, <2>1 DEF Transcript!Lookup
  <2> HIDE DEF q
  <2>5. IsFiniteSet(q.fresh)
    <3>1. q.fresh \in SUBSET o.fresh
      BY <2>3
    <3> QED BY <2>2, <3>1, FS_Subset DEF BatchOK
  <2>6. BatchOK(q)
    BY <2>2, <2>3, <2>5 DEF BatchOK, CaptureInv
  <2> QED BY <2>3, <2>4, <2>6, OneCapture
<1>3. CASE Transcript!Crash(p)
  BY <1>3, OneCapture DEF Transcript!Crash
<1> QED BY <1>1, <1>2, <1>3

\* Rows of new events are stored once, within the quota, and queued.
LEMMA StoreKeeps ==
    ASSUME CaptureInv, ~closed, NEW N \in SUBSET Event, IsFiniteSet(N),
           N \cap (known \cup barred) = {}, Transcript!Fits(Cardinality(N)),
           NEW lineOf, Transcript!Store(N, lineOf), barred' = barred, jobs \subseteq jobs',
           \A e \in N : lineOf[e] # 0 => \E n \in jobs' : lineOf[e] <= n
    PROVE  /\ known' = known \cup N /\ stored' \in [Event -> Nat]
           /\ \A e \in Event : stored'[e] <= 1 /\ (stored'[e] # 0 => e \in known' \cup barred')
           /\ IsFiniteSet(rows') /\ Transcript!WithinQuota' /\ Transcript!Queued'
<1> DEFINE more == {[event |-> e, line |-> lineOf[e]] : e \in N}
<1>1. /\ known' = known \cup N /\ rows' = rows \cup more
      /\ stored' = [e \in Event |-> IF e \in N THEN stored[e] + 1 ELSE stored[e]]
  BY DEF Transcript!Store
<1>2. ASSUME NEW e \in Event
      PROVE  /\ stored'[e] \in Nat /\ stored'[e] <= 1
             /\ stored'[e] # 0 => e \in known' \cup barred'
  <2>1. stored[e] \in Nat /\ stored[e] <= 1 /\ (stored[e] # 0 => e \in known \cup barred)
    BY DEF CaptureInv
  <2>2. CASE e \in N
    <3>1. stored[e] = 0 /\ stored'[e] = stored[e] + 1
      BY <1>1, <2>1, <2>2
    <3> QED BY <1>1, <2>2, <3>1
  <2>3. CASE e \notin N
    BY <1>1, <2>1, <2>3
  <2> QED BY <2>2, <2>3
<1>3. stored' \in [Event -> Nat]
  BY <1>1, <1>2
<1>4. IsFiniteSet(more) /\ Cardinality(more) <= Cardinality(N)
  <2> DEFINE f == [e \in N |-> [event |-> e, line |-> lineOf[e]]]
  <2>1. f \in Surjection(N, more)
    BY DEF Surjection
  <2> HIDE DEF f, more
  <2> QED BY <2>1, FS_Surjection
<1>5. IsFiniteSet(rows') /\ Cardinality(rows') <= MaxRows
  <2>1. IsFiniteSet(rows) /\ Cardinality(rows) \in Nat /\ Cardinality(rows) <= MaxRows
    BY FS_CardinalityType, SameCardinality DEF CaptureInv, Transcript!WithinQuota
  <2>2. Cardinality(N) \in Nat /\ (Cardinality(N) = 0 \/ Cardinality(rows) + Cardinality(N) <= MaxRows)
    BY FS_CardinalityType, SameCardinality DEF Transcript!Fits
  <2>3. PICK A : A = rows
    OBVIOUS
  <2>4. PICK B : B = more
    OBVIOUS
  <2>5. IsFiniteSet(A \cap B) /\ Cardinality(A \cap B) \in Nat
    <3>1. A \cap B \in SUBSET A
      OBVIOUS
    <3> QED BY <2>1, <2>3, <3>1, FS_Subset, FS_CardinalityType
  <2> HIDE DEF more
  <2>6. /\ IsFiniteSet(A \cup B) /\ Cardinality(B) \in Nat /\ Cardinality(A) \in Nat
        /\ Cardinality(A \cup B) = Cardinality(A) + Cardinality(B) - Cardinality(A \cap B)
    BY <1>4, <2>1, <2>3, <2>4, FS_Union, FS_CardinalityType
  <2>7. CASE Cardinality(N) = 0
    <3>1. N = {}
      BY <2>7, FS_EmptySet
    <3>2. A \cup B = A
      BY <2>4, <3>1 DEF more
    <3> QED BY <1>1, <2>1, <2>3, <2>4, <3>2
  <2>8. CASE Cardinality(rows) + Cardinality(N) <= MaxRows
    <3>1. Cardinality(A \cup B) <= Cardinality(A) + Cardinality(B)
      BY <2>5, <2>6
    <3>2. Cardinality(B) <= Cardinality(N) /\ Cardinality(A) + Cardinality(N) <= MaxRows
      BY <1>4, <2>3, <2>4, <2>8
    <3>3. rows' = A \cup B
      BY <1>1, <2>3, <2>4
    <3>4. \A i, j, k, m \in Int : (i <= j + k /\ k <= m /\ j + m <= MaxRows) => i <= MaxRows
      BY QuotaAssumption
    <3>5. Cardinality(A \cup B) \in Int /\ Cardinality(A) \in Int /\ Cardinality(B) \in Int
          /\ Cardinality(N) \in Int
      BY <2>2, <2>5, <2>6
    <3>6. Cardinality(A \cup B) <= MaxRows
      BY <3>1, <3>2, <3>4, <3>5, Zenon
    <3> QED BY <2>6, <3>3, <3>6
  <2> QED BY <2>2, <2>7, <2>8
<1>6. Transcript!Queued'
  <2> SUFFICES ASSUME NEW r \in rows', r.line # 0 PROVE \E n \in jobs' : r.line <= n
    BY DEF Transcript!Queued
  <2>1. CASE r \in rows
    BY <2>1 DEF CaptureInv, Transcript!Queued
  <2>2. CASE r \in more
    BY <2>2
  <2> QED BY <1>1, <2>1, <2>2
<1> QED BY <1>1, <1>2, <1>3, <1>5, <1>6, SameCardinality DEF Transcript!WithinQuota

\* What the captures have read stays known or fresh when more is known.
LEMMA StillOK ==
    ASSUME CaptureInv, known \subseteq known', closed' = closed, NEW p \in Capturer,
           pending'[p] = pending[p]
    PROVE  PendingOK(p)'
BY DEF CaptureInv, PendingOK, BatchOK

\* capture_batch.
LEMMA CommitStep ==
    ASSUME CaptureInv, NEW p \in Capturer, Transcript!Commit(p)
    PROVE  CaptureInv'
<1>1. PICK q : q = pending[p]
  OBVIOUS
<1>2. q \in Batched /\ BatchOK(q)
  BY <1>1 DEF Transcript!Commit, CaptureInv, PendingOK, Begun
<1>3. /\ Transcript!Goes(p, None) /\ UNCHANGED Transcript!transcript
  BY DEF Transcript!Commit
<1>4. CASE UNCHANGED Transcript!database
  BY <1>3, <1>4, OneCapture
<1> DEFINE N == Transcript!New(q)
           L == [e \in N |-> Transcript!LineOf(q, e)]
<1>5. CASE /\ ~closed /\ Transcript!Fits(Transcript!Cardinality(N)) /\ Transcript!Store(N, L)
           /\ checkpoint' = [prefix |-> q.all, inode |-> q.inode]
           /\ jobs' = IF N = {} THEN jobs ELSE jobs \cup {Len(q.all)}
           /\ UNCHANGED <<barred, closed>>
  <2>1. /\ N \in SUBSET Event /\ N \in SUBSET q.fresh /\ N \cap (known \cup barred) = {}
        /\ q.fresh \subseteq known \cup barred \cup N
    BY <1>2 DEF Batched, Transcript!New
  <2>2. IsFiniteSet(N)
    <3> HIDE DEF N
    <3> QED BY <1>2, <2>1, FS_Subset DEF BatchOK
  <2>3. ASSUME NEW e \in N PROVE L[e] \in q.after + 1 .. Len(q.all)
    <3> DEFINE At == {n \in q.after + 1 .. Len(q.all) : q.all[n] = e}
    <3>1. q.after \in Nat /\ Len(q.all) \in Nat
      BY <1>2 DEF Batched
    <3>2. At \in SUBSET Nat /\ At # {}
      BY <1>2, <2>1, <3>1 DEF BatchOK
    <3>3. PICK n \in At : \A k \in At : n <= k
      <4> HIDE DEF At
      <4> QED BY <3>2, LeastNatural
    <3>4. \A k \in q.after + 1 .. n - 1 : q.all[k] # e
      BY <3>1, <3>3
    <3>5. Transcript!LineOf(q, e) \in q.after + 1 .. Len(q.all)
      BY <3>3, <3>4, Zenon DEF Transcript!LineOf
    <3> HIDE DEF N
    <3> QED BY <3>5
  <2>4. ASSUME NEW e \in N PROVE \E n \in jobs' : L[e] <= n
    <3>1. Len(q.all) \in jobs'
      BY <1>5
    <3>2. L[e] <= Len(q.all)
      BY <1>2, <2>3 DEF Batched
    <3> QED BY <3>1, <3>2
  <2>5. barred' = barred /\ closed' = closed /\ jobs \subseteq jobs' /\ barred = {}
    BY <1>5 DEF CaptureInv
  <2>6. PICK M : M = N
    OBVIOUS
  <2>7. PICK K : K = L
    OBVIOUS
  <2> HIDE DEF N, L
  <2>8. Transcript!Fits(Cardinality(M)) /\ Transcript!Store(M, K)
    BY <1>5, <2>6, <2>7, SameCardinality
  <2>9. /\ known' = known \cup M /\ stored' \in [Event -> Nat]
        /\ \A e \in Event : stored'[e] <= 1 /\ (stored'[e] # 0 => e \in known' \cup barred')
        /\ IsFiniteSet(rows') /\ Transcript!WithinQuota' /\ Transcript!Queued'
    BY <1>5, <2>1, <2>2, <2>4, <2>5, <2>6, <2>7, <2>8, StoreKeeps
  <2>10. checkpoint' \in Checkpoint /\ Transcript!Prefix(checkpoint)' \in {q.all, <<>>}
    <3>1. checkpoint' = [prefix |-> q.all, inode |-> q.inode] /\ checkpoint' \in Checkpoint
      BY <1>2, <1>5 DEF Checkpoint, Batched
    <3> QED BY <3>1 DEF Transcript!Prefix
  <2>11. On(Transcript!Prefix(checkpoint)') \subseteq known'
    <3>1. On(q.all) \subseteq known'
      BY <1>2, <1>5, <2>1, <2>5, <2>6, <2>9 DEF BatchOK
    <3>2. On(<<>>) = {}
      <4>1. Len(<<>>) = 0
        OBVIOUS
      <4> QED BY <4>1 DEF On
    <3> QED BY <2>10, <3>1, <3>2
  <2>12. pending' = [o \in Capturer |-> IF o = p THEN None ELSE pending[o]]
    BY <1>3 DEF Transcript!Goes, CaptureInv
  <2>13. \A o \in Capturer : PendingOK(o)'
    <3> TAKE o \in Capturer
    <3>1. CASE o = p
      BY <2>12, <3>1 DEF PendingOK
    <3>2. CASE o # p
      BY <2>5, <2>9, <2>12, <3>2, StillOK
    <3> QED BY <3>1, <3>2
  <2>14. lines' \in Seq(Transcript!Line) /\ inode' \in Nat
    BY <1>3 DEF Transcript!transcript, CaptureInv
  <2>15. closed' \in BOOLEAN /\ ~closed' /\ barred' = {}
    BY <1>5, <2>5 DEF CaptureInv
  <2>16. pending' = [o \in Capturer |-> pending'[o]]
    BY <2>12
  <2> QED BY <2>9, <2>10, <2>11, <2>13, <2>14, <2>15, <2>16 DEF CaptureInv
<1> QED BY <1>1, <1>4, <1>5 DEF Transcript!Commit

\* An event that a hook observes.
LEMMA HookStep ==
    ASSUME CaptureInv, NEW e \in Event, NEW distilled \in BOOLEAN, Transcript!Hook(e, distilled)
    PROVE  CaptureInv'
<1> DEFINE L == [i \in {e} |-> 0]
<1>1. PICK N : N = {e}
  OBVIOUS
<1>2. /\ IsFiniteSet(N) /\ Cardinality(N) = 1 /\ N \in SUBSET Event
      /\ N \cap (known \cup barred) = {}
  BY <1>1, FS_Singleton DEF Transcript!Hook
<1>3. /\ ~closed /\ Transcript!Fits(Cardinality(N)) /\ Transcript!Store(N, L)
      /\ barred' = barred /\ jobs \subseteq jobs'
      /\ UNCHANGED <<lines, inode, checkpoint, closed, pending>>
  BY <1>1, <1>2 DEF Transcript!Hook, Transcript!transcript
<1>4. \A i \in N : L[i] = 0
  BY <1>1
<1>5. PICK K : K = L
  OBVIOUS
<1> HIDE DEF L
<1>6. /\ known' = known \cup N /\ stored' \in [Event -> Nat]
      /\ \A i \in Event : stored'[i] <= 1 /\ (stored'[i] # 0 => i \in known' \cup barred')
      /\ IsFiniteSet(rows') /\ Transcript!WithinQuota' /\ Transcript!Queued'
  BY <1>2, <1>3, <1>4, <1>5, StoreKeeps
<1>7. \A p \in Capturer : PendingOK(p)'
  BY <1>3, <1>6, StillOK
<1>8. Transcript!Prefix(checkpoint)' = Transcript!Prefix(checkpoint)
  BY <1>3 DEF Transcript!Prefix
<1> QED BY <1>3, <1>6, <1>7, <1>8 DEF CaptureInv

\* Retention removes rows; a purge bars whatever was ever stored.
LEMMA RemovalStep ==
    ASSUME CaptureInv, Transcript!Purge \/ \E r \in rows : Transcript!Expire(r)
    PROVE  CaptureInv'
<1>1. CASE Transcript!Purge
  <2>1. /\ closed' = TRUE /\ barred' = barred \cup known /\ known' = {} /\ rows' = {}
        /\ checkpoint' = None /\ UNCHANGED <<lines, inode, stored, pending>>
    BY <1>1 DEF Transcript!Purge, Transcript!transcript
  <2>2. IsFiniteSet(rows') /\ Transcript!WithinQuota' /\ Transcript!Queued'
    <3>1. IsFiniteSet(rows') /\ Cardinality(rows') = 0
      BY <2>1, FS_EmptySet
    <3> QED BY <2>1, <3>1, SameCardinality, QuotaAssumption DEF Transcript!WithinQuota, Transcript!Queued
  <2>3. On(Transcript!Prefix(checkpoint)') = {}
    <3>1. Transcript!Prefix(checkpoint)' = <<>> /\ Len(<<>>) = 0
      BY <2>1 DEF Transcript!Prefix
    <3> QED BY <3>1 DEF On
  <2>4. \A p \in Capturer : PendingOK(p)'
    BY <2>1 DEF CaptureInv, PendingOK, BatchOK
  <2>5. \A e \in Event : stored'[e] <= 1 /\ (stored'[e] # 0 => e \in known' \cup barred')
    BY <2>1 DEF CaptureInv
  <2> QED BY <2>1, <2>2, <2>3, <2>4, <2>5 DEF CaptureInv
<1>2. ASSUME NEW r \in rows, Transcript!Expire(r) PROVE CaptureInv'
  <2>1. /\ rows' = rows \ {r} /\ closed' = closed
        /\ UNCHANGED <<lines, inode, checkpoint, known, stored, jobs, barred, pending>>
    BY <1>2 DEF Transcript!Expire, Transcript!transcript
  <2>2. IsFiniteSet(rows') /\ Transcript!WithinQuota' /\ Transcript!Queued'
    <3>1. IsFiniteSet(rows) /\ Cardinality(rows) <= MaxRows /\ rows' \in SUBSET rows
      BY <2>1, SameCardinality DEF CaptureInv, Transcript!WithinQuota
    <3>2. IsFiniteSet(rows') /\ Cardinality(rows') <= Cardinality(rows)
      BY <3>1, FS_Subset
    <3>3. Cardinality(rows) \in Nat /\ Cardinality(rows') \in Nat
      BY <3>1, <3>2, FS_CardinalityType
    <3>4. Cardinality(rows') <= MaxRows
      BY <3>1, <3>2, <3>3, QuotaAssumption
    <3> QED BY <2>1, <3>2, <3>4, SameCardinality
            DEF CaptureInv, Transcript!WithinQuota, Transcript!Queued
  <2>3. Transcript!Prefix(checkpoint)' = Transcript!Prefix(checkpoint)
    BY <2>1 DEF Transcript!Prefix
  <2>4. \A p \in Capturer : PendingOK(p)'
    BY <2>1 DEF CaptureInv, PendingOK, BatchOK
  <2> QED BY <2>1, <2>2, <2>3, <2>4 DEF CaptureInv
<1> QED BY <1>1, <1>2

\* Every step of captures, hooks, the host and the operator keeps the invariant.
LEMMA CaptureStep ==
    ASSUME CaptureInv, Transcript!Next \/ UNCHANGED ofTranscript
    PROVE  CaptureInv'
<1>1. CASE UNCHANGED ofTranscript
  <2>1. UNCHANGED <<lines, inode, pending, Transcript!database>>
    BY <1>1 DEF ofTranscript, Transcript!database
  <2> QED BY <2>1, FileStep DEF CaptureInv
<1> QED BY <1>1, HostStep, LoadStep, ReadStep, CommitStep, HookStep, RemovalStep
        DEF Transcript!Next, Transcript!HookPrompt, Transcript!HookObservation

-----------------------------------------------------------------------------
(* Formation: CandidateFormer and save_candidate_batch.                    *)

\* What the classifier may hint at, and the types of relation between claims.
Hint == {"none", "update", "conflict"}

Replaces == {"duplicate", "conflict", "update", "supersede"}

\* An order of candidates, in which one that tells its own time has the place it tells.
Ordering == [Row -> {0} \cup Places]

Tells(c, place) == kind[c].dated => place[c] = Said(c)

\* Relations join two candidates, and lead back in time where both tell their own.
Joins(r) ==
    /\ r \in Row \X Row \X (Replaces \cup {"delete"}) /\ r[1] # r[2]
    /\ (kind[r[1]].dated /\ kind[r[2]].dated) => Said(r[2]) < Said(r[1])

Proper(R) == \A r \in R : Joins(r)

\* Every claim among candidates that comes after another one is related.
AllRelated(candidates, place, R) ==
    \A e \in Claims(candidates) : Prior(e, candidates, place) # {} => e \in Outgoing(R)

\* A batch over a store that has not changed is of new candidates, and relates all claims.
Derived(p) ==
    (p \notin disturbed /\ Touches(batch[p].new))
      => /\ batch[p].new \cap Formed = {}
         /\ AllRelated(Formed \cup batch[p].new, Seen(batch[p].new, batch[p].stamp),
                       relations \cup batch[p].relations)

\* What a former may hold, and what the store orders its candidates by.
Batch(q) == q.new \subseteq Row /\ (q.new = {} \/ q.stamp \in Time) /\ Proper(q.relations)

Placed(c) == /\ \E time \in Time : created[c] = Place(time, c)
             /\ Tells(c, created)

\* The invariant of formation.
FormInv ==
    /\ kind \in [Row -> Kinds]
    /\ created \in Ordering /\ \A c \in Formed : Placed(c)
    /\ Proper(relations) /\ Endpoints(relations) \subseteq Formed
    /\ batch = [p \in Former |-> batch[p]]
    /\ \A p \in Former : Batch(batch[p]) /\ Derived(p)

\* The fields of a classified row.
LEMMA KindFields ==
    ASSUME kind \in [Row -> Kinds], NEW e \in Row
    PROVE  /\ kind[e].time \in Time /\ kind[e].dated \in BOOLEAN /\ kind[e].hint \in Hint
           /\ kind[e].deletes \in BOOLEAN /\ kind[e].slot \in BOOLEAN
           /\ kind[e].deletes \/ kind[e].slot
BY KindAssumption DEF Hint

\* There are finitely many places.
LEMMA LastIsNat == LastPlace \in Nat
BY KindAssumption DEF LastPlace

\* A place is one of time first, then of row.
LEMMA PlaceIn ==
    ASSUME NEW time \in Time, NEW e \in Row
    PROVE  Place(time, e) \in Places /\ Place(time, e) # 0
<1>1. PICK R \in Nat : R = Rows
  BY KindAssumption
<1>2. PICK T \in Nat : T = Times
  BY KindAssumption
<1>3. time \in 1 .. T /\ e \in 1 .. R
  BY <1>1, <1>2 DEF Time, Row
<1>4. PICK a \in Nat, b \in Nat : a = time - 1 /\ b = T - time
  BY <1>3
<1>5. a * R \in Nat /\ b * R \in Nat
  BY <1>4
<1>6. T = a + b + 1
  BY <1>3, <1>4
<1>7. T * R = a * R + b * R + R
  BY <1>4, <1>6
<1>8. a * R + e \in 1 .. T * R
  BY <1>3, <1>5, <1>7
<1>9. Place(time, e) = a * R + e
  BY <1>1, <1>4 DEF Place
<1> QED BY <1>1, <1>2, <1>8, <1>9 DEF Places, LastPlace

\* Two rows never have the same place.
LEMMA PlaceIsOfOne ==
    ASSUME NEW s \in Time, NEW t \in Time, NEW e \in Row, NEW f \in Row, Place(s, e) = Place(t, f)
    PROVE  e = f
<1>1. PICK R \in Nat : R = Rows
  BY KindAssumption
<1>2. PICK a \in Nat, b \in Nat : a = s - 1 /\ b = t - 1
  BY KindAssumption DEF Time
<1>3. e \in 1 .. R /\ f \in 1 .. R
  BY <1>1 DEF Row
<1>4. a * R + e = b * R + f
  BY <1>1, <1>2 DEF Place
<1>5. ASSUME NEW i \in Nat, NEW j \in Nat, i < j PROVE j * R >= i * R + R
  <2>1. PICK d \in Nat : j = i + 1 + d
    <3>1. j - i - 1 \in Nat /\ j = i + 1 + (j - i - 1)
      BY <1>5
    <3> QED BY <3>1
  <2>2. d * R \in Nat /\ i * R \in Nat
    OBVIOUS
  <2>3. j * R = i * R + R + d * R
    BY <2>1
  <2> QED BY <2>2, <2>3
<1>6. CASE a = b
  BY <1>3, <1>4, <1>6
<1>7. CASE a < b
  BY <1>3, <1>4, <1>5, <1>7
<1>8. CASE b < a
  BY <1>3, <1>4, <1>5, <1>8
<1> QED BY <1>2, <1>6, <1>7, <1>8

\* A nonempty set of candidates has a latest one.
LEMMA LatestExists ==
    ASSUME NEW place \in Ordering, NEW S \in SUBSET Row, S # {}
    PROVE  \E t \in S : \A c \in S : place[c] <= place[t]
<1>1. PICK N \in Nat : N = LastPlace
  BY LastIsNat
<1>2. \A c \in S : place[c] \in 0 .. N
  BY <1>1 DEF Ordering, Places
<1> DEFINE T == {N - place[c] : c \in S}
<1>3. T \in SUBSET Nat /\ T # {}
  BY <1>2
<1>4. PICK n \in T : \A k \in T : n <= k
  <2> HIDE DEF T
  <2> QED BY <1>3, LeastNatural
<1>5. PICK t \in S : n = N - place[t]
  BY <1>4
<1>6. ASSUME NEW c \in S PROVE place[c] <= place[t]
  <2>1. N - place[c] \in T
    OBVIOUS
  <2>2. n <= N - place[c]
    BY <1>4, <2>1
  <2> QED BY <1>2, <1>5, <2>2
<1> QED BY <1>6

\* What a former sees is an order, and candidates that tell their time have their place in it.
LEMMA SeenIsOrdering ==
    ASSUME kind \in [Row -> Kinds], created \in Ordering, \A c \in Formed : Placed(c),
           NEW new \in SUBSET Row, NEW stamp, new = {} \/ stamp \in Time
    PROVE  /\ Seen(new, stamp) \in Ordering
           /\ \A c \in Formed \cup new : Tells(c, Seen(new, stamp))
           /\ \A c \in new : \E time \in Time : Seen(new, stamp)[c] = Place(time, c)
           /\ \A c \in Row \ new : Seen(new, stamp)[c] = created[c]
<1>1. ASSUME NEW c \in new
      PROVE  /\ Created(c, stamp) \in Places /\ (kind[c].dated => Created(c, stamp) = Said(c))
             /\ \E time \in Time : Created(c, stamp) = Place(time, c)
  <2>1. c \in Row /\ kind[c].time \in Time /\ stamp \in Time
    BY KindFields
  <2>2. PICK time \in Time : time = IF kind[c].dated THEN kind[c].time ELSE stamp
    BY <2>1
  <2>3. Created(c, stamp) = Place(time, c)
    BY <2>2 DEF Created
  <2>4. kind[c].dated => Created(c, stamp) = Said(c)
    BY DEF Created, Said
  <2> QED BY <2>1, <2>3, <2>4, PlaceIn
<1>2. PICK P \in Ordering : P = Seen(new, stamp)
  BY <1>1 DEF Seen, Ordering
<1>3. \A c \in Row : P[c] = IF c \in new THEN Created(c, stamp) ELSE created[c]
  BY <1>2 DEF Seen
<1>4. ASSUME NEW c \in Formed \cup new PROVE Tells(c, P)
  <2>1. c \in Row
    BY DEF Formed
  <2>2. CASE c \in new
    BY <1>1, <1>3, <2>1, <2>2 DEF Tells
  <2>3. CASE c \notin new
    <3>1. Placed(c) /\ P[c] = created[c]
      BY <1>3, <2>1, <2>3
    <3> QED BY <3>1 DEF Placed, Tells
  <2> QED BY <2>2, <2>3
<1>5. \A c \in new : c \in Row /\ P[c] = Created(c, stamp)
  BY <1>3
<1> QED BY <1>1, <1>2, <1>3, <1>4, <1>5

\* A claim is related to the latest one before it, if there is one.
LEMMA LifecycleIsProper ==
    ASSUME kind \in [Row -> Kinds], NEW W \in SUBSET Row, NEW e \in W, NEW place \in Ordering,
           \A c \in W : Tells(c, place), NEW hint \in Hint
    PROVE  /\ Proper(LifecycleRelations(e, W, place, hint))
           /\ Prior(e, W, place) # {} => e \in Outgoing(LifecycleRelations(e, W, place, hint))
<1>1. ASSUME NEW t \in Prior(e, W, place), NEW type \in TypesFor(e, t, hint)
      PROVE  Joins(<<e, t, type>>)
  <2>1. t \in W /\ place[t] < place[e] /\ place[e] \in Nat
    BY LastIsNat DEF Prior, Claims, Ordering, Places
  <2>2. type \in Replaces
    BY DEF TypesFor, Replaces, Hint
  <2>3. t # e
    BY <2>1
  <2>4. (kind[e].dated /\ kind[t].dated) => Said(t) < Said(e)
    BY <2>1 DEF Tells
  <2>5. PICK r : r = <<e, t, type>>
    OBVIOUS
  <2>6. r \in Row \X Row \X (Replaces \cup {"delete"}) /\ r[1] = e /\ r[2] = t
    BY <2>1, <2>2, <2>5
  <2> QED BY <2>3, <2>4, <2>5, <2>6 DEF Joins
<1>2. PICK M : M = {t \in Prior(e, W, place) : \A c \in Prior(e, W, place) : place[c] <= place[t]}
  OBVIOUS
<1>3. LifecycleRelations(e, W, place, hint) = UNION {{e} \X {t} \X TypesFor(e, t, hint) : t \in M}
  BY <1>2 DEF LifecycleRelations
<1>4. ASSUME NEW r \in LifecycleRelations(e, W, place, hint) PROVE Joins(r)
  <2>1. PICK t \in M : r \in {e} \X {t} \X TypesFor(e, t, hint)
    BY <1>3, Zenon
  <2>2. PICK T : T = TypesFor(e, t, hint)
    OBVIOUS
  <2>3. PICK type \in T : r = <<e, t, type>>
    BY <2>1, <2>2
  <2> QED BY <1>1, <1>2, <2>2, <2>3
<1>5. ASSUME Prior(e, W, place) # {}
      PROVE  e \in Outgoing(LifecycleRelations(e, W, place, hint))
  <2>1. PICK t \in M : TRUE
    <3>1. PICK P \in SUBSET Row : P = Prior(e, W, place)
      BY DEF Prior, Claims
    <3>2. \E t \in P : \A c \in P : place[c] <= place[t]
      BY <1>5, <3>1, LatestExists
    <3> QED BY <1>2, <3>1, <3>2
  <2>2. PICK T : T = TypesFor(e, t, hint)
    OBVIOUS
  <2>3. PICK type \in T : type # "delete"
    BY <2>2 DEF TypesFor, Hint
  <2>4. PICK r : r = <<e, t, type>>
    OBVIOUS
  <2>5. r \in {e} \X {t} \X T /\ r[1] = e /\ r[3] # "delete"
    BY <2>3, <2>4
  <2>6. r \in LifecycleRelations(e, W, place, hint)
    BY <1>3, <2>2, <2>5, Zenon
  <2> QED BY <2>5, <2>6, Zenon DEF Outgoing
<1> QED BY <1>4, <1>5 DEF Proper

\* A deletion request is related to what comes before it.
LEMMA DeletionIsProper ==
    ASSUME kind \in [Row -> Kinds], NEW W \in SUBSET Row, NEW e \in Row, NEW place \in Ordering,
           \A c \in W \cup {e} : Tells(c, place)
    PROVE  Proper(DeleteRelations(e, W, place))
<1>1. ASSUME NEW c \in Prior(e, W, place) PROVE Joins(<<e, c, "delete">>)
  <2>1. c \in W /\ place[c] < place[e] /\ place[e] \in Nat
    BY LastIsNat DEF Prior, Claims, Ordering, Places
  <2>2. c # e
    BY <2>1
  <2>3. (kind[e].dated /\ kind[c].dated) => Said(c) < Said(e)
    BY <2>1 DEF Tells
  <2>4. PICK r : r = <<e, c, "delete">>
    OBVIOUS
  <2>5. r \in Row \X Row \X (Replaces \cup {"delete"}) /\ r[1] = e /\ r[2] = c
    BY <2>1, <2>4
  <2> QED BY <2>2, <2>3, <2>4, <2>5 DEF Joins
<1>2. ASSUME NEW r \in DeleteRelations(e, W, place)
      PROVE  \E c \in Prior(e, W, place) : r = <<e, c, "delete">>
  BY Zenon DEF DeleteRelations
<1> QED BY <1>1, <1>2 DEF Proper

\* What form_candidates derives.
LEMMA ReadIsDerived ==
    ASSUME kind \in [Row -> Kinds], NEW R, NEW N \in SUBSET Row, NEW W, W = Formed \cup N,
           NEW place \in Ordering, \A c \in W : Tells(c, place),
           NEW fresh, fresh = NewRelations(N, place),
           NEW more, more = fresh \cup Repaired(N, place, R \cup fresh)
    PROVE  Proper(more) /\ (Touches(N) => AllRelated(W, place, R \cup more))
<1>1. W \in SUBSET Row /\ Formed \subseteq W /\ N \subseteq W
  BY DEF Formed
<1>2. Proper(fresh)
  <2> SUFFICES ASSUME NEW r \in fresh PROVE Joins(r)
    BY DEF Proper
  <2>1. PICK e \in N : r \in LET working == Formed \cup {c \in N : Said(c) < Said(e)}
                             IN  IF kind[e].deletes THEN DeleteRelations(e, working, place)
                                 ELSE LifecycleRelations(e, working, place, kind[e].hint)
    BY Zenon DEF NewRelations
  <2>2. PICK V : V = Formed \cup {c \in N : Said(c) < Said(e)}
    OBVIOUS
  <2>3. r \in IF kind[e].deletes THEN DeleteRelations(e, V, place)
              ELSE LifecycleRelations(e, V, place, kind[e].hint)
    BY <2>1, <2>2
  <2>4. V \in SUBSET Row /\ V \subseteq W /\ e \in Row /\ e \in W
    BY <1>1, <2>2
  <2>5. kind[e].hint \in Hint
    BY <2>4, KindFields
  <2>6. Proper(DeleteRelations(e, V, place))
    BY <2>4, DeletionIsProper
  <2>7. PICK hint \in Hint : hint = kind[e].hint
    BY <2>5
  <2>8. LifecycleRelations(e, V, place, hint) = LifecycleRelations(e, V \cup {e}, place, hint)
    <3>1. ~ (place[e] < place[e])
      BY <2>4, LastIsNat DEF Ordering, Places
    <3>2. Prior(e, V, place) = Prior(e, V \cup {e}, place)
      BY <3>1 DEF Prior, Claims
    <3> QED BY <3>2 DEF LifecycleRelations
  <2>9. PICK U \in SUBSET Row : U = V \cup {e}
    BY <2>4
  <2>10. e \in U /\ \A c \in U : Tells(c, place)
    BY <2>4, <2>9
  <2>11. Proper(LifecycleRelations(e, U, place, hint))
    BY <2>10, LifecycleIsProper
  <2> QED BY <2>3, <2>6, <2>7, <2>8, <2>9, <2>11 DEF Proper
<1>3. PICK B : B = Repaired(N, place, R \cup fresh)
  OBVIOUS
<1>4. Proper(B)
  <2> SUFFICES ASSUME NEW r \in B PROVE Joins(r)
    BY DEF Proper
  <2>1. PICK e \in Claims(W) :
          r \in LifecycleRelations(e, W, place, IF e \in N THEN kind[e].hint ELSE "none")
    BY <1>3 DEF Repaired
  <2>2. e \in Row /\ e \in W
    BY <1>1 DEF Claims
  <2>3. PICK hint \in Hint : hint = IF e \in N THEN kind[e].hint ELSE "none"
    BY <2>2, KindFields DEF Hint
  <2>4. Proper(LifecycleRelations(e, W, place, hint))
    BY <1>1, <2>2, LifecycleIsProper
  <2> QED BY <2>1, <2>3, <2>4 DEF Proper
<1>5. ASSUME Touches(N), NEW e \in Claims(W), Prior(e, W, place) # {}
      PROVE  e \in Outgoing(R \cup more)
  <2>1. e \in Row /\ e \in W
    BY <1>1 DEF Claims
  <2>2. CASE e \in Outgoing(R \cup fresh)
    BY <2>2 DEF Outgoing
  <2>3. CASE e \notin Outgoing(R \cup fresh)
    <3>1. PICK hint \in Hint : hint = IF e \in N THEN kind[e].hint ELSE "none"
      BY <2>1, KindFields DEF Hint
    <3>2. PICK L : L = LifecycleRelations(e, W, place, hint)
      OBVIOUS
    <3>3. L \subseteq more
      <4>1. B = UNION {LifecycleRelations(c, W, place, IF c \in N THEN kind[c].hint ELSE "none") :
                         c \in Claims(W) \ Outgoing(R \cup fresh)}
        BY <1>3, <1>5 DEF Repaired
      <4>2. e \in Claims(W) \ Outgoing(R \cup fresh)
        BY <2>3
      <4>3. L \subseteq B
        BY <3>1, <3>2, <4>1, <4>2
      <4> QED BY <1>3, <4>3
    <3>4. e \in Outgoing(L)
      BY <1>1, <1>5, <2>1, <3>2, LifecycleIsProper
    <3> QED BY <3>3, <3>4 DEF Outgoing
  <2> QED BY <2>2, <2>3
<1> QED BY <1>2, <1>3, <1>4, <1>5 DEF Proper, AllRelated

\* A former without a batch will save nothing.
LEMMA NothingIsDerived == ~Touches(NoBatch.new) /\ Batch(NoBatch) /\ NoBatch.new = {}
BY DEF NoBatch, Touches, Batch, Proper

\* An empty store satisfies the invariant of formation.
LEMMA FormInit == ASSUME Init PROVE FormInv
<1>1. \A p \in Former : batch[p] = NoBatch
  BY DEF Init
<1>2. Formed = {} /\ created \in Ordering
  BY DEF Init, Formed, Ordering
<1>3. Proper(relations) /\ Endpoints(relations) \subseteq Formed
  BY DEF Init, Proper, Endpoints
<1>4. batch = [p \in Former |-> batch[p]] /\ kind \in [Row -> Kinds]
  BY DEF Init
<1>5. \A p \in Former : Batch(batch[p]) /\ Derived(p)
  BY <1>1, NothingIsDerived DEF Derived
<1> QED BY <1>2, <1>3, <1>4, <1>5 DEF FormInv

\* What does not change with the batches.
LEMMA SameStore ==
    ASSUME UNCHANGED <<kind, created>>
    PROVE  /\ \A S : Claims(S)' = Claims(S) /\ Touches(S)' = Touches(S)
           /\ Formed' = Formed /\ \A S, stamp : Seen(S, stamp)' = Seen(S, stamp)
           /\ \A S, place, R : AllRelated(S, place, R)' = AllRelated(S, place, R)
           /\ \A R : Proper(R)' = Proper(R)
           /\ \A q : Batch(q)' = Batch(q)
           /\ \A c : Placed(c)' = Placed(c)
<1>1. \A S : Claims(S)' = Claims(S) /\ Touches(S)' = Touches(S)
  BY DEF Claims, Touches
<1>2. Formed' = Formed /\ \A S, stamp : Seen(S, stamp)' = Seen(S, stamp)
  BY DEF Formed, Seen, Created
<1>3. \A S, place, R : AllRelated(S, place, R)' = AllRelated(S, place, R)
  BY <1>1 DEF AllRelated, Prior
<1>4. \A R : Proper(R)' = Proper(R)
  BY DEF Proper, Joins, Said
<1>5. \A q : Batch(q)' = Batch(q)
  BY <1>4 DEF Batch
<1>6. \A c : Placed(c)' = Placed(c)
  BY DEF Placed, Tells, Said
<1> QED BY <1>1, <1>2, <1>3, <1>4, <1>5, <1>6

\* What a former derives holds as long as the store and its batch are the same.
LEMMA StillDerived ==
    ASSUME UNCHANGED <<kind, created, relations>>, NEW o \in Former, NEW q, batch'[o] = q, Batch(q),
           (o \notin disturbed' /\ Touches(q.new))
             => /\ q.new \cap Formed = {}
                /\ AllRelated(Formed \cup q.new, Seen(q.new, q.stamp), relations \cup q.relations)
    PROVE  Batch(batch[o])' /\ Derived(o)'
<1>1. Batch(q)' /\ Touches(q.new)' = Touches(q.new) /\ Formed' = Formed
  BY SameStore
<1>2. PICK place : place = Seen(q.new, q.stamp)
  OBVIOUS
<1>3. Seen(q.new, q.stamp)' = place
  BY <1>2, SameStore
<1>4. PICK S, R : S = Formed \cup q.new /\ R = relations \cup q.relations
  OBVIOUS
<1>5. AllRelated(S, place, R)' = AllRelated(S, place, R)
  BY SameStore
<1>6. Derived(o)' = ((o \notin disturbed' /\ Touches(q.new)')
                      => /\ q.new \cap Formed' = {}
                         /\ AllRelated(Formed \cup q.new, Seen(q.new, q.stamp),
                                       relations \cup q.relations)')
  BY Zenon DEF Derived
<1>7. AllRelated(Formed \cup q.new, Seen(q.new, q.stamp), relations \cup q.relations)'
        = AllRelated(S, place, R)'
  BY <1>1, <1>3, <1>4 DEF AllRelated
<1>8. Derived(o)'
  BY <1>1, <1>2, <1>4, <1>5, <1>6, <1>7
<1>9. Batch(batch[o])' = Batch(q)'
  BY DEF Batch
<1> QED BY <1>1, <1>8, <1>9

\* A batch is replaced, and the store is not.
LEMMA BatchStep ==
    ASSUME FormInv, NEW p \in Former, NEW q, batch' = [batch EXCEPT ![p] = q], Batch(q),
           Touches(q.new) => /\ q.new \cap Formed = {}
                             /\ AllRelated(Formed \cup q.new, Seen(q.new, q.stamp),
                                           relations \cup q.relations),
           disturbed \ {p} \subseteq disturbed', UNCHANGED <<kind, created, relations>>
    PROVE  FormInv'
<1>1. batch' = [o \in Former |-> IF o = p THEN q ELSE batch[o]]
  BY DEF FormInv
<1>2. ASSUME NEW o \in Former PROVE Batch(batch[o])' /\ Derived(o)'
  <2>1. CASE o = p
    <3>1. batch'[o] = q
      BY <1>1, <2>1
    <3> QED BY <3>1, StillDerived
  <2>2. CASE o # p
    <3>1. batch'[o] = batch[o]
      BY <1>1, <2>2
    <3>2. Derived(o) /\ Batch(batch[o])
      BY DEF FormInv
    <3>3. o \notin disturbed' => o \notin disturbed
      BY <2>2
    <3>4. PICK b : b = batch[o]
      OBVIOUS
    <3> QED BY <3>1, <3>2, <3>3, <3>4, StillDerived DEF Derived
  <2> QED BY <2>1, <2>2
<1>3. batch' = [o \in Former |-> batch'[o]]
  BY <1>1
<1>4. /\ kind' \in [Row -> Kinds] /\ Proper(relations)' /\ Endpoints(relations)' \subseteq Formed'
      /\ \A c \in Formed' : Placed(c)'
  BY SameStore DEF FormInv, Endpoints
<1>5. created' \in Ordering'
  BY DEF FormInv, Ordering
<1> QED BY <1>2, <1>3, <1>4, <1>5 DEF FormInv

\* form_candidates derives a batch from the store it has read.
LEMMA ReadKeeps ==
    ASSUME FormInv, NEW p \in Former, NEW new \in SUBSET Row, NEW stamp \in Time,
           Read(p, new, stamp)
    PROVE  FormInv'
<1>1. PICK place : place = Seen(new, stamp)
  OBVIOUS
<1>2. PICK fresh : fresh = NewRelations(new, place)
  OBVIOUS
<1>3. PICK more : more = fresh \cup Repaired(new, place, relations \cup fresh)
  OBVIOUS
<1>4. PICK q : q = [new |-> new, stamp |-> stamp, relations |-> more]
  OBVIOUS
<1>5. /\ batch' = [batch EXCEPT ![p] = q] /\ UNCHANGED <<kind, created, relations, disturbed>>
      /\ new \cap Formed = {}
  BY <1>1, <1>2, <1>3, <1>4 DEF Read
<1>6. place \in Ordering /\ \A c \in Formed \cup new : Tells(c, place)
  BY <1>1, SeenIsOrdering DEF FormInv
<1>7. Proper(more) /\ (Touches(new) => AllRelated(Formed \cup new, place, relations \cup more))
  <2>1. PICK W : W = Formed \cup new
    OBVIOUS
  <2>2. kind \in [Row -> Kinds] /\ \A c \in W : Tells(c, place)
    BY <1>6, <2>1 DEF FormInv
  <2>3. Proper(more) /\ (Touches(new) => AllRelated(W, place, relations \cup more))
    BY <1>2, <1>3, <1>6, <2>1, <2>2, ReadIsDerived
  <2> QED BY <2>1, <2>3
<1>8. q.new = new /\ q.stamp = stamp /\ q.relations = more
  BY <1>4
<1>9. Batch(q)
  BY <1>7, <1>8 DEF Batch
<1> QED BY <1>1, <1>5, <1>7, <1>8, <1>9, BatchStep

\* save_candidate_batch: every other batch is now over a store that has changed.
LEMMA SaveKeeps ==
    ASSUME FormInv, NEW p \in Former, Save(p)
    PROVE  FormInv'
<1>1. PICK q : q = batch[p]
  OBVIOUS
<1>2. PICK N : N = q.new \ Formed
  OBVIOUS
<1>3. /\ created' = Seen(N, q.stamp) /\ relations' = relations \cup q.relations
      /\ Endpoints(q.relations) \subseteq Formed \cup q.new
      /\ batch' = [batch EXCEPT ![p] = NoBatch] /\ disturbed' = Forming \ {p} /\ kind' = kind
  BY <1>1, <1>2 DEF Save
<1>4. Batch(q) /\ kind \in [Row -> Kinds]
  BY <1>1 DEF FormInv
<1>5. N \in SUBSET Row /\ (N = {} \/ q.stamp \in Time)
  BY <1>2, <1>4 DEF Batch
<1>6. PICK stamp : stamp = q.stamp
  OBVIOUS
<1>7. /\ created' \in Ordering /\ \A c \in Formed \cup N : Tells(c, created')
      /\ \A c \in N : \E time \in Time : created'[c] = Place(time, c)
      /\ \A c \in Row \ N : created'[c] = created[c]
  <2>1. created' = Seen(N, stamp) /\ (N = {} \/ stamp \in Time)
    BY <1>3, <1>5, <1>6
  <2>2. created \in Ordering /\ \A c \in Formed : Placed(c)
    BY DEF FormInv
  <2> QED BY <1>4, <1>5, <2>1, <2>2, SeenIsOrdering
<1>8. Formed' = Formed \cup N
  <2>1. \A c \in N : c \in Row /\ created'[c] # 0
    BY <1>5, <1>7, PlaceIn
  <2> QED BY <1>5, <1>7, <2>1 DEF Formed
<1>9. ASSUME NEW c \in Formed' PROVE Placed(c)'
  <2>1. c \in Row /\ Tells(c, created')
    BY <1>7, <1>8 DEF Formed
  <2>2. Tells(c, created)'
    BY <1>3, <2>1 DEF Tells, Said
  <2>3. CASE c \in N
    BY <1>7, <2>2, <2>3 DEF Placed
  <2>4. CASE c \notin N
    <3>1. Placed(c) /\ created'[c] = created[c]
      BY <1>7, <1>8, <2>1, <2>4 DEF FormInv
    <3> QED BY <2>2, <3>1 DEF Placed
  <2> QED BY <2>3, <2>4
<1>10. \A R : Proper(R)' = Proper(R)
  BY <1>3 DEF Proper, Joins, Said
<1>11. Proper(relations)'
  <2>1. Proper(relations) /\ Proper(q.relations)
    BY <1>4 DEF FormInv, Batch
  <2>2. Proper(relations')
    BY <1>3, <2>1 DEF Proper
  <2> QED BY <1>10, <2>2
<1>12. Endpoints(relations)' \subseteq Formed'
  <2>1. Endpoints(relations) \subseteq Formed /\ Formed \cup q.new = Formed \cup N
    BY <1>2 DEF FormInv
  <2> QED BY <1>3, <1>8, <2>1 DEF Endpoints
<1>13. batch' = [o \in Former |-> IF o = p THEN NoBatch ELSE batch[o]]
  BY <1>3 DEF FormInv
<1>14. ASSUME NEW o \in Former PROVE Batch(batch[o])' /\ Derived(o)'
  <2>1. Batch(batch[o]) /\ Batch(NoBatch)
    BY NothingIsDerived DEF FormInv
  <2>2. \A b : Batch(b)' = Batch(b)
    BY <1>10 DEF Batch
  <2>3. \A S : Touches(S)' = Touches(S)
    BY <1>3 DEF Touches
  <2>4. CASE batch'[o] = NoBatch
    BY <2>1, <2>2, <2>3, <2>4, NothingIsDerived DEF Derived
  <2>5. CASE batch'[o] # NoBatch
    <3>1. o # p /\ batch'[o] = batch[o]
      BY <1>13, <2>5
    <3>2. o \in disturbed'
      BY <1>3, <2>5, <3>1 DEF Forming
    <3> QED BY <2>1, <2>2, <3>1, <3>2 DEF Derived
  <2> QED BY <2>4, <2>5
<1>15. batch' = [o \in Former |-> batch'[o]]
  BY <1>13
<1>16. kind' \in [Row -> Kinds] /\ created' \in Ordering'
  BY <1>3, <1>4, <1>7 DEF Ordering
<1> QED BY <1>9, <1>11, <1>12, <1>14, <1>15, <1>16 DEF FormInv

\* Retention removes a candidate with its relations.
LEMMA CollectKeeps ==
    ASSUME FormInv, NEW c \in Row, Collect(c)
    PROVE  FormInv'
<1>1. /\ created' = [created EXCEPT ![c] = 0]
      /\ relations' = {r \in relations : c \notin {r[1], r[2]}}
      /\ disturbed' = Forming /\ UNCHANGED <<kind, batch>>
  BY DEF Collect
<1>2. created' \in Ordering /\ \A e \in Row : created'[e] = IF e = c THEN 0 ELSE created[e]
  BY <1>1 DEF FormInv, Ordering
<1>3. Formed' = Formed \ {c}
  BY <1>2 DEF Formed
<1>4. \A R : Proper(R)' = Proper(R)
  BY <1>1 DEF Proper, Joins, Said
<1>5. ASSUME NEW e \in Formed' PROVE Placed(e)'
  <2>1. Placed(e) /\ created'[e] = created[e]
    BY <1>2, <1>3 DEF FormInv, Formed
  <2> QED BY <1>1, <2>1 DEF Placed, Tells, Said
<1>6. Proper(relations)' /\ Endpoints(relations)' \subseteq Formed'
  <2>1. Proper(relations')
    BY <1>1 DEF FormInv, Proper
  <2>2. Endpoints(relations)' \subseteq Formed'
    BY <1>1, <1>3 DEF FormInv, Endpoints
  <2> QED BY <1>4, <2>1, <2>2
<1>7. ASSUME NEW p \in Former PROVE Batch(batch[p])' /\ Derived(p)'
  <2>1. Batch(batch[p])'
    BY <1>1, <1>4 DEF FormInv, Batch
  <2>2. CASE batch[p] = NoBatch
    <3>1. ~Touches(batch[p].new)'
      BY <1>1, <2>2, NothingIsDerived DEF Touches
    <3> QED BY <2>1, <3>1 DEF Derived
  <2>3. CASE batch[p] # NoBatch
    BY <1>1, <2>1, <2>3 DEF Derived, Forming
  <2> QED BY <2>2, <2>3
<1>8. kind' \in [Row -> Kinds] /\ created' \in Ordering' /\ batch' = [p \in Former |-> batch'[p]]
  BY <1>1, <1>2 DEF FormInv, Ordering
<1> QED BY <1>5, <1>6, <1>7, <1>8 DEF FormInv

\* Every step of formation keeps its invariant.
LEMMA FormStep == ASSUME FormInv, [Next]_vars PROVE FormInv'
<1>1. CASE UNCHANGED vars
  <2>1. UNCHANGED <<kind, created, relations, batch, disturbed>>
    BY <1>1 DEF vars
  <2>2. ASSUME NEW p \in Former PROVE Batch(batch[p])' /\ Derived(p)'
    <3>1. PICK b : b = batch[p]
      OBVIOUS
    <3>2. Batch(b) /\ Derived(p) /\ batch'[p] = b
      BY <2>1, <3>1 DEF FormInv
    <3> QED BY <2>1, <3>1, <3>2, StillDerived DEF Derived
  <2>3. /\ kind' \in [Row -> Kinds] /\ Proper(relations)' /\ Endpoints(relations)' \subseteq Formed'
        /\ (\A c \in Formed' : Placed(c)') /\ created' \in Ordering'
        /\ batch' = [p \in Former |-> batch'[p]]
    BY <2>1, SameStore DEF FormInv, Endpoints, Ordering
  <2> QED BY <2>2, <2>3 DEF FormInv
<1>2. ASSUME NEW p \in Former, Abort(p) PROVE FormInv'
  <2>1. /\ batch' = [batch EXCEPT ![p] = NoBatch] /\ disturbed' = disturbed \ {p}
        /\ UNCHANGED <<kind, created, relations>>
    BY <1>2 DEF Abort
  <2> QED BY <2>1, NothingIsDerived, BatchStep
<1> QED BY <1>1, <1>2, ReadKeeps, SaveKeeps, CollectKeeps DEF Next

\* The invariant of formation implies that a save relates every claim.
LEMMA SaveRelates == ASSUME FormInv PROVE LinksEveryClaim
<1> SUFFICES ASSUME NEW p \in Former, Save(p), p \notin disturbed, Touches(batch[p].new),
                    NEW e \in Claims(Formed'), Prior(e, Formed', created') # {}
             PROVE  e \in Outgoing(relations')
  BY DEF LinksEveryClaim
<1>1. PICK q : q = batch[p]
  OBVIOUS
<1>2. q.new \cap Formed = {} /\ AllRelated(Formed \cup q.new, Seen(q.new, q.stamp), relations \cup q.relations)
  BY <1>1 DEF FormInv, Derived
<1>3. q.new \ Formed = q.new
  BY <1>2
<1>4. created' = Seen(q.new, q.stamp) /\ relations' = relations \cup q.relations
  BY <1>1, <1>3 DEF Save
<1>5. Formed' = Formed \cup q.new
  <2>1. Batch(q) /\ kind \in [Row -> Kinds]
    BY <1>1 DEF FormInv
  <2>2. PICK N \in SUBSET Row : N = q.new
    BY <2>1 DEF Batch
  <2>3. PICK stamp : stamp = q.stamp
    OBVIOUS
  <2>4. N = {} \/ stamp \in Time
    BY <2>1, <2>2, <2>3 DEF Batch
  <2>5. /\ \A c \in N : \E time \in Time : created'[c] = Place(time, c)
        /\ \A c \in Row \ N : created'[c] = created[c]
    <3>1. created' = Seen(N, stamp)
      BY <1>4, <2>2, <2>3
    <3>2. created \in Ordering /\ \A c \in Formed : Placed(c)
      BY DEF FormInv
    <3> QED BY <2>1, <2>4, <3>1, <3>2, SeenIsOrdering
  <2>6. \A c \in N : created'[c] # 0
    BY <2>5, PlaceIn
  <2> QED BY <2>2, <2>5, <2>6 DEF Formed
<1> QED BY <1>2, <1>4, <1>5 DEF AllRelated

-----------------------------------------------------------------------------
(* The replay of relations (LifecycleResolver.resolve).                    *)

\* What the replay relies on: no two candidates have one place, and relations join two.
Stored ==
    /\ created \in Ordering /\ \A e, f \in Formed : created[e] = created[f] => e = f
    /\ Proper(relations) /\ Endpoints(relations) \subseteq Formed

\* What is deleted by the sources up to place n, or descends from it.
Line(D, n) == {t \in Row : Deleted(t, n)} \cup {c \in Formed : created[c] <= n /\ c \in D}

\* What the sources up to place n make inactive besides.
Repeating(n) ==
    {c \in Formed : created[c] <= n /\ Targets(c, "duplicate") \cup Targets(c, "conflict") # {}}

Updated(n) ==
    {t \in Row : \E c \in Formed : /\ created[c] <= n
                                   /\ t \in Targets(c, "update") \cup Targets(c, "supersede")}

\* D holds what descends from a deleted candidate.
Reaches(e, D) ==
    \E t \in Formed : /\ Related(e, t)
                      /\ Deleted(t, created[e]) \/ (created[t] < created[e] /\ t \in D)

Descent(D) == \A e \in Formed : e \in D <=> Reaches(e, D)

\* The states of the replay.
States == [lineage : SUBSET Row, inactive : SUBSET Row]

\* Places are counted from 1.
LEMMA PlacesAreCounted ==
    ASSUME Stored
    PROVE  /\ LastPlace \in Nat
           /\ \A e \in Formed : e \in Row /\ created[e] \in 1 .. LastPlace
BY LastIsNat DEF Stored, Ordering, Places, Formed

\* The relation types are those of formation.
LEMMA Types == {Type[i] : i \in 1 .. 5} = Replaces \cup {"delete"}
<1>1. /\ Type[1] = "duplicate" /\ Type[2] = "conflict" /\ Type[3] = "update"
      /\ Type[4] = "supersede" /\ Type[5] = "delete"
  BY DEF Type
<1>2. \A i \in 1 .. 5 : i \in {1, 2, 3, 4, 5}
  OBVIOUS
<1> QED BY <1>1, <1>2 DEF Replaces

\* The relations of a candidate lead to others.
LEMMA TargetsAreOthers ==
    ASSUME Stored, NEW e, NEW type
    PROVE  /\ Targets(e, type) \subseteq Row \ {e} /\ Targets(e, type) \subseteq Formed
           /\ Targets(e, type) # {} => e \in Formed
<1>1. \A r \in relations : r[1] \in Formed /\ r[2] \in Formed /\ r[1] # r[2]
  BY DEF Stored, Proper, Joins, Endpoints
<1>2. Formed \subseteq Row
  BY DEF Formed
<1> QED BY <1>1, <1>2 DEF Targets

\* What a source deletes, makes inactive, and whether it is suppressed, by a relation type.
Deletes(e, type) == IF type = "delete" THEN Targets(e, type) ELSE {}

Disables(s, e, type) == Inactivated(e, type, Targets(e, type) \ s.lineage)

Suppresses(s, e, type) ==
    IF Targets(e, type) \cap s.lineage # {} \/ Deletes(e, type) # {} THEN {e} ELSE {}

\* One relation type of a source, or of a place that has none.
LEMMA ReplayStep ==
    ASSUME Stored, NEW s \in States, NEW e,
           NEW type \in Replaces \cup {"delete"}
    PROVE  /\ Replay(s, e, type) \in States
           /\ Replay(s, e, type).lineage =
                s.lineage \cup Deletes(e, type) \cup Suppresses(s, e, type)
           /\ Replay(s, e, type).inactive =
                s.inactive \cup Disables(s, e, type) \cup Suppresses(s, e, type)
<1>1. PICK T \in SUBSET Row : T = Targets(e, type) /\ (T # {} => e \in Row)
  BY TargetsAreOthers DEF Formed
<1>2. PICK L \in SUBSET Row : L = s.lineage
  BY DEF States
<1>3. PICK I \in SUBSET Row : I = s.inactive
  BY DEF States
<1>4. PICK K \in SUBSET Row : K = L \cup (IF type = "delete" THEN T \ L ELSE {})
  OBVIOUS
<1>5. PICK U \in SUBSET Row : U = IF T \cap K = {} THEN {} ELSE {e}
  BY <1>1
<1>6. Replay(s, e, type) = [lineage |-> K \cup U, inactive |-> I \cup Inactivated(e, type, T \ L) \cup U]
  BY <1>1, <1>2, <1>3, <1>4, <1>5, Zenon DEF Replay
<1>7. U = IF T \cap L # {} \/ (type = "delete" /\ T # {}) THEN {e} ELSE {}
  BY <1>4, <1>5
<1>8. K \cup U = L \cup (IF type = "delete" THEN T ELSE {}) \cup U
  BY <1>4
<1>9. PICK J \in SUBSET Row : J = Inactivated(e, type, T \ L)
  BY <1>1 DEF Inactivated, Replaces
<1>10. PICK W \in SUBSET Row : W = K \cup U
  OBVIOUS
<1>11. PICK Y \in SUBSET Row : Y = I \cup J \cup U
  OBVIOUS
<1>12. Replay(s, e, type) = [lineage |-> W, inactive |-> Y]
  BY <1>6, <1>9, <1>10, <1>11
<1>13. Replay(s, e, type) \in States
  BY <1>12 DEF States
<1>14. Replay(s, e, type).lineage = K \cup U /\ Replay(s, e, type).inactive = I \cup J \cup U
  BY <1>10, <1>11, <1>12
<1> QED BY <1>1, <1>2, <1>3, <1>7, <1>8, <1>9, <1>13, <1>14
        DEF Deletes, Disables, Suppresses

\* The targets of a source by type, whether it is dragged into the lineage L, and whether
\* it repeats or contradicts another claim.
TargetsOf(e) == [i \in 1 .. 5 |-> Targets(e, Type[i])]

Dragged(e, L) ==
    IF TargetsOf(e)[5] # {} \/ \E i \in 1 .. 5 : TargetsOf(e)[i] \cap L # {} THEN {e} ELSE {}

Repeats(e) == IF TargetsOf(e)[1] \cup TargetsOf(e)[2] # {} THEN {e} ELSE {}

\* The relations of one source, by its five types.
LEMMA Round ==
    ASSUME Stored, NEW e, NEW s, s \in [0 .. 5 -> States],
           s[0].lineage \subseteq s[0].inactive,
           \A i \in 1 .. 5 : s[i] = Replay(s[i - 1], e, Type[i])
    PROVE  /\ s[5].lineage =
                s[0].lineage \cup TargetsOf(e)[5] \cup Dragged(e, s[0].lineage)
           /\ s[5].inactive =
                s[0].inactive \cup TargetsOf(e)[3] \cup TargetsOf(e)[4] \cup TargetsOf(e)[5]
                \cup Dragged(e, s[0].lineage) \cup Repeats(e)
<1>a. PICK T : T = TargetsOf(e)
  OBVIOUS
<1>b. PICK U : U = Dragged(e, s[0].lineage)
  OBVIOUS
<1>c. T = [i \in 1 .. 5 |-> Targets(e, Type[i])]
  BY <1>a DEF TargetsOf
<1>d. U = IF T[5] # {} \/ \E i \in 1 .. 5 : T[i] \cap s[0].lineage # {} THEN {e} ELSE {}
  BY <1>a, <1>b DEF Dragged
<1>e. Repeats(e) = IF T[1] \cup T[2] # {} THEN {e} ELSE {}
  BY <1>a DEF Repeats
<1> USE <1>c, <1>d
<1> DEFINE L(i) == s[i].lineage
           I(i) == s[i].inactive
           V(i) == IF T[i] \cap L(i - 1) # {} \/ (i = 5 /\ T[5] # {}) THEN {e} ELSE {}
<1>1. /\ Type[1] = "duplicate" /\ Type[2] = "conflict" /\ Type[3] = "update"
      /\ Type[4] = "supersede" /\ Type[5] = "delete"
  BY DEF Type
<1>2. \A i \in 1 .. 5 : Type[i] \in Replaces \cup {"delete"} /\ (Type[i] = "delete" <=> i = 5)
  <2>1. \A i \in 1 .. 5 : i \in {1, 2, 3, 4, 5}
    OBVIOUS
  <2> QED BY <1>1, <2>1 DEF Replaces
<1>3. ASSUME NEW i \in 1 .. 5
      PROVE  /\ L(i) = L(i - 1) \cup (IF i = 5 THEN T[i] ELSE {}) \cup V(i)
             /\ I(i) = I(i - 1) \cup Inactivated(e, Type[i], T[i] \ L(i - 1)) \cup V(i)
  <2>1. PICK z \in States : z = s[i - 1]
    OBVIOUS
  <2>2. PICK type \in Replaces \cup {"delete"} : type = Type[i]
    BY <1>2
  <2>3. s[i] = Replay(z, e, type) /\ T[i] = Targets(e, type) /\ (type = "delete" <=> i = 5)
    BY <1>2, <2>1, <2>2
  <2>4. /\ s[i].lineage = z.lineage \cup Deletes(e, type) \cup Suppresses(z, e, type)
        /\ s[i].inactive = z.inactive \cup Disables(z, e, type) \cup Suppresses(z, e, type)
    BY <2>3, ReplayStep
  <2>5. Deletes(e, type) = IF i = 5 THEN T[i] ELSE {}
    BY <2>3 DEF Deletes
  <2>6. Disables(z, e, type) = Inactivated(e, Type[i], T[i] \ L(i - 1))
    BY <2>1, <2>2, <2>3 DEF Disables
  <2>7. Suppresses(z, e, type) = V(i)
    BY <2>1, <2>3, <2>5 DEF Suppresses
  <2> QED BY <2>1, <2>4, <2>5, <2>6, <2>7
<1>4. \A i \in 1 .. 5 : e \notin T[i]
  <2> TAKE i \in 1 .. 5
  <2>1. T[i] \subseteq Row \ {e}
    BY TargetsAreOthers
  <2> QED BY <2>1
<1>5. \A X : /\ Inactivated(e, Type[1], X) = (IF X = {} THEN {} ELSE {e})
             /\ Inactivated(e, Type[2], X) = (IF X = {} THEN {} ELSE {e})
             /\ Inactivated(e, Type[3], X) = X
             /\ Inactivated(e, Type[4], X) = X
             /\ Inactivated(e, Type[5], X) = X
  BY <1>1 DEF Inactivated
<1>6. /\ L(1) = L(0) \cup V(1) /\ I(1) = I(0) \cup (IF T[1] \ L(0) = {} THEN {} ELSE {e}) \cup V(1)
      /\ V(1) = IF T[1] \cap L(0) # {} THEN {e} ELSE {}
  BY <1>3, <1>5
<1>7. /\ L(2) = L(1) \cup V(2) /\ I(2) = I(1) \cup (IF T[2] \ L(1) = {} THEN {} ELSE {e}) \cup V(2)
      /\ V(2) = IF T[2] \cap L(1) # {} THEN {e} ELSE {}
  BY <1>3, <1>5
<1>8. /\ L(3) = L(2) \cup V(3) /\ I(3) = I(2) \cup (T[3] \ L(2)) \cup V(3)
      /\ V(3) = IF T[3] \cap L(2) # {} THEN {e} ELSE {}
  BY <1>3, <1>5
<1>9. /\ L(4) = L(3) \cup V(4) /\ I(4) = I(3) \cup (T[4] \ L(3)) \cup V(4)
      /\ V(4) = IF T[4] \cap L(3) # {} THEN {e} ELSE {}
  BY <1>3, <1>5
<1>10. /\ L(5) = L(4) \cup T[5] \cup V(5) /\ I(5) = I(4) \cup (T[5] \ L(4)) \cup V(5)
       /\ V(5) = IF T[5] \cap L(4) # {} \/ T[5] # {} THEN {e} ELSE {}
  BY <1>3, <1>5
<1>11. /\ e \notin T[1] /\ e \notin T[2] /\ e \notin T[3] /\ e \notin T[4] /\ e \notin T[5]
  BY <1>4
<1>12. U = V(1) \cup V(2) \cup V(3) \cup V(4) \cup V(5)
  <2>1. (\E i \in 1 .. 5 : T[i] \cap L(0) # {}) <=>
          \/ T[1] \cap L(0) # {} \/ T[2] \cap L(0) # {} \/ T[3] \cap L(0) # {}
          \/ T[4] \cap L(0) # {} \/ T[5] \cap L(0) # {}
    <3>1. \A i : i \in 1 .. 5 <=> i \in {1, 2, 3, 4, 5}
      OBVIOUS
    <3> QED BY <3>1, Zenon
  <2>2. U = IF \/ T[1] \cap L(0) # {} \/ T[2] \cap L(0) # {} \/ T[3] \cap L(0) # {}
               \/ T[4] \cap L(0) # {} \/ T[5] # {}
            THEN {e} ELSE {}
    BY <2>1
  <2> HIDE DEF L, I, V
  <2>3. V(2) = IF T[2] \cap L(0) # {} THEN {e} ELSE {}
    BY <1>6, <1>7, <1>11
  <2>4. V(3) = IF T[3] \cap L(0) # {} THEN {e} ELSE {}
    BY <1>6, <1>7, <1>8, <1>11
  <2>5. V(4) = IF T[4] \cap L(0) # {} THEN {e} ELSE {}
    BY <1>6, <1>7, <1>8, <1>9, <1>11
  <2>6. V(5) = IF T[5] # {} THEN {e} ELSE {}
    BY <1>10
  <2>7. V(1) = IF T[1] \cap L(0) # {} THEN {e} ELSE {}
    BY <1>6
  <2> QED BY <2>2, <2>3, <2>4, <2>5, <2>6, <2>7
<1>13. \A i \in 1 .. 5 : V(i) \in {{}, {e}}
  OBVIOUS
<1>14. L(0) \subseteq I(0)
  OBVIOUS
<1> HIDE DEF L, I, V
<1>15. L(5) = L(0) \cup T[5] \cup U
  BY <1>6, <1>7, <1>8, <1>9, <1>10, <1>12
<1>16. I(5) = I(0) \cup T[3] \cup T[4] \cup T[5] \cup U \cup (IF T[1] \cup T[2] # {} THEN {e} ELSE {})
  <2>1. V(1) \cup (IF T[1] \ L(0) = {} THEN {} ELSE {e}) = V(1) \cup (IF T[1] = {} THEN {} ELSE {e})
    BY <1>6
  <2>2. V(2) \cup (IF T[2] \ L(1) = {} THEN {} ELSE {e}) = V(2) \cup (IF T[2] = {} THEN {} ELSE {e})
    BY <1>7
  <2>3. L(1) \subseteq I(1) /\ L(2) \subseteq I(2)
    BY <1>6, <1>7, <1>14
  <2>4. L(3) \subseteq I(3) /\ L(4) \subseteq I(4)
    BY <1>8, <1>9, <2>3
  <2>5. I(2) = I(0) \cup V(1) \cup V(2) \cup (IF T[1] \cup T[2] # {} THEN {e} ELSE {})
    BY <1>6, <1>7, <2>1, <2>2
  <2>6. I(5) = I(2) \cup T[3] \cup T[4] \cup T[5] \cup V(3) \cup V(4) \cup V(5)
    BY <1>8, <1>9, <1>10, <2>3, <2>4
  <2> QED BY <1>12, <2>5, <2>6
<1> QED BY <1>a, <1>b, <1>e, <1>15, <1>16 DEF L, I

\* The candidate at a place.
LEMMA HolderIsOne ==
    ASSUME Stored, NEW n \in Places
    PROVE  \A c \in Formed : created[c] = n <=> c = Holder(n)
<1>1. n # 0
  BY LastIsNat DEF Places
<1>2. \A c \in Row : created[c] = n => c \in Formed
  BY <1>1 DEF Formed
<1>3. CASE \E c \in Row : created[c] = n
  <2>1. PICK c \in Row : c = Holder(n) /\ created[c] = n
    BY <1>3 DEF Holder
  <2> QED BY <1>2, <2>1 DEF Stored
<1>4. CASE ~\E c \in Row : created[c] = n
  <2>1. Holder(n) = 0 /\ 0 \notin Row
    BY <1>4 DEF Holder, Row
  <2> QED BY <1>4, <2>1 DEF Formed
<1> QED BY <1>3, <1>4

\* The five steps of a place.
LEMMA SourceSteps ==
    ASSUME NEW n \in Places, NEW i \in 1 .. 5
    PROVE  LET k == 5 * (n - 1) + i
           IN  k \in 1 .. 5 * LastPlace /\ Source(k) = Holder(n) /\ 1 + ((k - 1) % 5) = i
<1>1. n \in Int /\ LastPlace \in Nat /\ 1 <= n /\ n <= LastPlace
  BY LastIsNat DEF Places
<1>2. 5 * (n - 1) + i \in 1 .. 5 * LastPlace
  BY <1>1
<1>3. PICK q \in Int : q = 5 * (n - 1) + i - 1
  BY <1>1
<1>4. q \div 5 = n - 1 /\ q % 5 = i - 1
  BY <1>1, <1>3
<1>5. PICK k : k = 5 * (n - 1) + i
  OBVIOUS
<1>6. k - 1 = q /\ 1 + (q \div 5) = n /\ 1 + (q % 5) = i
  BY <1>1, <1>3, <1>4, <1>5
<1>7. Source(k) = Holder(n)
  BY <1>6 DEF Source
<1> QED BY <1>2, <1>5, <1>6, <1>7

\* What the replay of a recursive function computes.
Replayed(f) ==
    /\ f \in [0 .. 5 * LastPlace -> States]
    /\ f[0] = [lineage |-> {}, inactive |-> {}]
    /\ \A k \in 1 .. 5 * LastPlace : f[k] = Replay(f[k - 1], Source(k), Type[1 + ((k - 1) % 5)])

\* Every step of the replay is of one type of relation.
LEMMA StepsHaveTypes ==
    ASSUME NEW k \in 1 .. 5 * LastPlace
    PROVE  Type[1 + ((k - 1) % 5)] \in Replaces \cup {"delete"}
<1>1. PICK q \in Nat : q = k - 1
  BY LastIsNat
<1>2. 1 + (q % 5) \in 1 .. 5
  OBVIOUS
<1> QED BY <1>1, <1>2, Types

\* The recursive function of Resolution exists, and computes the replay.
LEMMA ResolutionIsReplayed ==
    ASSUME Stored
    PROVE  \E f : Replayed(f) /\ Resolution = f[5 * LastPlace]
<1> DEFINE zero == [lineage |-> {}, inactive |-> {}]
           type(k) == Type[1 + ((k - 1) % 5)]
           next(k, s) == IF k \in 1 .. 5 * LastPlace THEN Replay(s, Source(k), type(k)) ELSE s
           step == [p \in Nat \X States |-> next(p[1], p[2])]
           n == 5 * LastPlace
<1>1. zero \in States
  BY DEF States
<1>2. n \in Nat /\ 0 <= n
  BY LastIsNat
<1>3. ASSUME NEW k \in Nat, NEW s \in States PROVE next(k, s) \in States
  BY StepsHaveTypes, ReplayStep
<1>4. step \in [Nat \X States -> States]
  <2>1. \A p \in Nat \X States : p[1] \in Nat /\ p[2] \in States
    OBVIOUS
  <2> HIDE DEF next
  <2> QED BY <1>3, <2>1
<1>5. PICK f : Iterates(f, States, zero, step, 0, n)
  <2> HIDE DEF zero, step, n
  <2> QED BY <1>1, <1>2, <1>4, IterationExists
<1>6. f \in [0 .. n -> States] /\ f[0] = zero
  BY <1>5 DEF Iterates
<1>7. ASSUME NEW k \in 1 .. n PROVE f[k] = Replay(f[k - 1], Source(k), type(k))
  <2>1. k \in Nat /\ k - 1 \in 0 .. n
    BY <1>2
  <2>2. f[k - 1] \in States
    BY <1>6, <2>1
  <2>3. f[k] = step[<<k, f[k - 1]>>]
    <3>1. k \in 0 + 1 .. n
      OBVIOUS
    <3> HIDE DEF step, n, zero
    <3> QED BY <1>5, <3>1 DEF Iterates
  <2>4. step[<<k, f[k - 1]>>] = next(k, f[k - 1])
    <3> HIDE DEF next
    <3> QED BY <2>1, <2>2
  <2> QED BY <2>3, <2>4
<1>8. Replayed(f)
  BY <1>6, <1>7 DEF Replayed
<1> DEFINE body(g) == [k \in 0 .. n |-> IF k = 0 THEN zero ELSE Replay(g[k - 1], Source(k), type(k))]
<1>9. f = body(f)
  <2>1. \A k \in 0 .. n : k = 0 \/ k \in 1 .. n
    BY <1>2
  <2>2. \A k \in 0 .. n : f[k] = IF k = 0 THEN zero ELSE Replay(f[k - 1], Source(k), type(k))
    BY <1>6, <1>7, <2>1
  <2> HIDE DEF n, zero, type
  <2> QED BY <1>6, <2>2
<1>10. PICK g : g = CHOOSE h : h = body(h)
  OBVIOUS
<1>11. g = body(g)
  <2> HIDE DEF body
  <2> QED BY <1>9, <1>10
<1>12. Resolution = g[n]
  BY <1>10, Zenon DEF Resolution
<1>13. Replayed(g)
  <2>1. ASSUME NEW k \in 0 .. n PROVE g[k] = IF k = 0 THEN zero ELSE Replay(g[k - 1], Source(k), type(k))
    BY <1>11, Zenon
  <2> DEFINE S == {k \in 0 .. n : g[k] = f[k]}
  <2>2. 0 \in S
    <3>1. 0 \in 0 .. n
      BY <1>2
    <3>2. g[0] = zero
      BY <2>1, <3>1, Zenon
    <3> QED BY <1>6, <3>1, <3>2
  <2>3. ASSUME NEW k \in 0 .. n - 1, k \in S PROVE k + 1 \in S
    <3>1. k + 1 \in 0 .. n /\ k + 1 # 0 /\ (k + 1) - 1 = k /\ k + 1 \in 1 .. n
      BY <1>2
    <3>2. g[k + 1] = Replay(g[(k + 1) - 1], Source(k + 1), type(k + 1))
      BY <2>1, <3>1
    <3>3. f[k + 1] = Replay(f[(k + 1) - 1], Source(k + 1), type(k + 1))
      BY <1>7, <3>1
    <3>4. g[k] = f[k]
      BY <2>3
    <3> QED BY <3>1, <3>2, <3>3, <3>4
  <2>4. \A k \in 0 .. n : k \in S
    <3> HIDE DEF S, n
    <3> QED BY <1>2, <2>2, <2>3, Induction
  <2>5. g = [k \in 0 .. n |-> g[k]] /\ f = [k \in 0 .. n |-> f[k]]
    <3>1. g = [k \in 0 .. n |-> g[k]]
      BY <1>11
    <3> QED BY <1>6, <3>1
  <2> HIDE DEF body
  <2> QED BY <1>8, <2>4, <2>5
<1> QED BY <1>12, <1>13

\* What descends from a deleted candidate is well defined.
LEMMA DescendsIsDescent == ASSUME Stored PROVE Descent(Descends) /\ Descends \subseteq Formed
<1> DEFINE V == SUBSET Places
           Is(n, D) == \E e, t \in Formed :
                         /\ created[e] = n /\ Related(e, t)
                         /\ Deleted(t, n) \/ (created[t] < n /\ created[t] \in D)
           next(n, D) == IF n \in Places /\ Is(n, D) THEN D \cup {n} ELSE D
           step == [p \in Nat \X V |-> next(p[1], p[2])]
<1>1. PICK N \in Nat : N = LastPlace /\ Places = 1 .. N
  BY LastIsNat DEF Places
<1>2. step \in [Nat \X V -> V]
  <2>1. \A n \in Nat, D \in V : next(n, D) \in V
    <3> HIDE DEF Is
    <3> QED OBVIOUS
  <2>2. \A p \in Nat \X V : p[1] \in Nat /\ p[2] \in V
    OBVIOUS
  <2> HIDE DEF next, V
  <2> QED BY <2>1, <2>2
<1>3. PICK f : Iterates(f, V, {}, step, 0, N)
  <2>1. {} \in V /\ 0 <= N
    OBVIOUS
  <2> HIDE DEF V, step
  <2> QED BY <1>2, <2>1, IterationExists
<1>4. f \in [0 .. N -> V] /\ f[0] = {}
  BY <1>3 DEF Iterates
<1>5. ASSUME NEW n \in Places PROVE f[n] = next(n, f[n - 1])
  <2>1. n \in Nat /\ n \in 0 + 1 .. N /\ n - 1 \in 0 .. N
    BY <1>1
  <2>2. f[n - 1] \in V
    BY <1>4, <2>1
  <2>3. f[n] = step[<<n, f[n - 1]>>]
    <3> HIDE DEF step, V
    <3> QED BY <1>3, <2>1 DEF Iterates
  <2> HIDE DEF next, V
  <2> QED BY <2>1, <2>2, <2>3
<1> HIDE DEF Is
<1> DEFINE D == {n \in Places : n \in f[n]}
\* Up to n, the iteration has found the part of D.
<1>6. \A n \in 0 .. N : f[n] = D \cap 1 .. n
  <2> DEFINE S == {n \in 0 .. N : f[n] = D \cap 1 .. n}
  <2>1. 0 \in S
    BY <1>1, <1>4
  <2>2. ASSUME NEW n \in 0 .. N - 1, n \in S PROVE n + 1 \in S
    <3>1. n + 1 \in Places /\ n + 1 \in 0 .. N /\ (n + 1) - 1 = n
      BY <1>1
    <3>2. f[n] = D \cap 1 .. n
      BY <2>2
    <3>3. PICK k \in Places : k = n + 1
      BY <3>1
    <3>4. f[k] = next(k, f[n])
      BY <1>5, <3>1, <3>3
    <3>5. f[k] = f[n] \cup (IF k \in f[k] THEN {k} ELSE {})
      <4>1. k \notin f[n]
        BY <3>2, <3>3
      <4> QED BY <3>4, <4>1
    <3>6. 1 .. k = 1 .. n \cup {k}
      BY <3>3
    <3>7. k \in D <=> k \in f[k]
      OBVIOUS
    <3>8. f[k] = D \cap 1 .. k
      <4> HIDE DEF D
      <4> QED BY <3>2, <3>5, <3>6, <3>7
    <3> QED BY <3>1, <3>3, <3>8
  <2>3. \A n \in 0 .. N : n \in S
    <3> HIDE DEF S
    <3> QED BY <2>1, <2>2, Induction
  <2> QED BY <2>3
<1>7. ASSUME NEW n \in Places PROVE n \in D <=> Is(n, D)
  <2>1. n - 1 \in 0 .. N /\ n \notin 1 .. n - 1
    BY <1>1
  <2>2. f[n - 1] = D \cap 1 .. n - 1
    BY <1>6, <2>1
  <2>3. n \in D <=> Is(n, f[n - 1])
    BY <1>5, <2>1, <2>2
  <2>4. \A t \in Formed : created[t] < n => created[t] \in 1 .. n - 1
    BY <1>1, PlacesAreCounted
  <2> HIDE DEF D
  <2>5. Is(n, f[n - 1]) <=> Is(n, D)
    BY <2>2, <2>4 DEF Is
  <2> QED BY <2>3, <2>5
<1> DEFINE holds(g, n) == \E e, t \in Formed :
                            /\ created[e] = n /\ Related(e, t)
                            /\ \/ Deleted(t, n)
                               \/ created[t] < n /\ g[created[t]]
           body(g) == [n \in Places |-> holds(g, n)]
           d == [n \in Places |-> n \in D]
<1>8. d = body(d)
  <2>1. ASSUME NEW n \in Places PROVE holds(d, n) <=> n \in D
    <3>1. \A t \in Formed : created[t] \in Places
      BY <1>1, PlacesAreCounted
    <3>2. \A t \in Formed : d[created[t]] <=> created[t] \in D
      <4> HIDE DEF D
      <4> QED BY <3>1
    <3> HIDE DEF D, d
    <3> QED BY <1>7, <3>2 DEF Is
  <2>2. \A n \in Places : (n \in D) = holds(d, n)
    <3> HIDE DEF D, d
    <3> TAKE n \in Places
    <3>1. (n \in D) \in BOOLEAN
      OBVIOUS
    <3>2. holds(d, n) \in BOOLEAN
      OBVIOUS
    <3>3. \A p, q \in BOOLEAN : (p <=> q) => p = q
      OBVIOUS
    <3>4. (n \in D) <=> holds(d, n)
      BY <2>1
    <3> HIDE DEF holds
    <3> QED BY <3>1, <3>2, <3>3, <3>4, Zenon
  <2> HIDE DEF D
  <2>3. \E h : h = d /\ \A n \in Places : (n \in D) = holds(h, n)
    BY <2>2, Zenon
  <2>4. PICK h : h = d /\ \A n \in Places : (n \in D) = holds(h, n)
    BY <2>3
  <2> HIDE DEF holds
  <2>5. [n \in Places |-> n \in D] = [n \in Places |-> holds(h, n)]
    BY <2>4, Zenon
  <2> QED BY <2>4, <2>5, Zenon
<1>9. PICK g : g = CHOOSE h : h = body(h)
  OBVIOUS
<1>10. g = body(g)
  <2> HIDE DEF body, d
  <2> QED BY <1>8, <1>9
<1>11. Descends = {e \in Formed : g[created[e]]}
  BY <1>9, Zenon DEF Descends
<1>12. ASSUME NEW n \in Places PROVE g[n] <=> holds(g, n)
  BY <1>10, Zenon
<1>13. ASSUME NEW e \in Formed PROVE e \in Descends <=> Reaches(e, Descends)
  <2>1. created[e] \in Places /\ \A c \in Formed : created[c] = created[e] => c = e
    BY <1>1, PlacesAreCounted DEF Stored
  <2>2. holds(g, created[e]) <=> Reaches(e, Descends)
    BY <1>11, <2>1 DEF Reaches
  <2> QED BY <1>11, <1>12, <2>1, <2>2
<1> QED BY <1>11, <1>13 DEF Descent

\* The sets of the sources up to place n, from those before it.
LEMMA SourceSets ==
    ASSUME Stored, NEW D, D \subseteq Formed, Descent(D), NEW n \in Places, NEW h, h = Holder(n)
    PROVE  /\ Line(D, n) = Line(D, n - 1) \cup TargetsOf(h)[5] \cup Dragged(h, Line(D, n - 1))
           /\ Repeating(n) = Repeating(n - 1) \cup Repeats(h)
           /\ Updated(n) = Updated(n - 1) \cup TargetsOf(h)[3] \cup TargetsOf(h)[4]
<1>a. PICK T : T = TargetsOf(h)
  OBVIOUS
<1>b. PICK U : U = Dragged(h, Line(D, n - 1))
  OBVIOUS
<1>c. T = [i \in 1 .. 5 |-> Targets(h, Type[i])]
  BY <1>a DEF TargetsOf
<1>d. U = IF T[5] # {} \/ \E i \in 1 .. 5 : T[i] \cap Line(D, n - 1) # {} THEN {h} ELSE {}
  BY <1>a, <1>b DEF Dragged
<1>e. Repeats(h) = IF T[1] \cup T[2] # {} THEN {h} ELSE {}
  BY <1>a DEF Repeats
<1>1. /\ Type[1] = "duplicate" /\ Type[2] = "conflict" /\ Type[3] = "update"
      /\ Type[4] = "supersede" /\ Type[5] = "delete"
  BY DEF Type
<1>2. /\ T[1] = Targets(h, "duplicate") /\ T[2] = Targets(h, "conflict")
      /\ T[3] = Targets(h, "update") /\ T[4] = Targets(h, "supersede")
      /\ T[5] = Targets(h, "delete")
  BY <1>c, <1>1
\* Up to n come those up to n - 1, and the holder.
<1>3. \A c \in Formed : /\ created[c] <= n <=> created[c] <= n - 1 \/ c = h
                        /\ created[c] = n <=> c = h
                        /\ created[c] < n <=> created[c] <= n - 1
  <2>1. \A c \in Formed : created[c] \in Nat /\ (created[c] = n <=> c = h)
    BY HolderIsOne, PlacesAreCounted
  <2>2. n \in Nat
    BY LastIsNat DEF Places
  <2> QED BY <2>1, <2>2
<1>4. \A i \in 1 .. 5 : T[i] \subseteq Row \ {h} /\ T[i] \subseteq Formed /\ (T[i] # {} => h \in Formed)
  BY <1>c, TargetsAreOthers
<1>5. \A r \in relations : r = <<r[1], r[2], r[3]>>
  BY DEF Stored, Proper, Joins
<1>6. \A t : Deleted(t, n) <=> Deleted(t, n - 1) \/ t \in T[5]
  <2>1. \A t : t \in T[5] <=> <<h, t, "delete">> \in relations
    BY <1>2, <1>5 DEF Targets
  <2>2. \A t \in T[5] : h \in Formed
    BY <1>4
  <2>3. \A r \in relations : r[1] \in Formed
    BY DEF Stored, Endpoints
  <2> QED BY <1>3, <2>1, <2>2, <2>3 DEF Deleted
<1>7. \A t : Related(h, t) <=> \E i \in 1 .. 5 : t \in T[i]
  <2>1. ASSUME NEW t, NEW i \in 1 .. 5
        PROVE  t \in T[i] <=> <<h, t, Type[i]>> \in relations
    BY <1>c, <1>5 DEF Targets
  <2>2. \A t : Related(h, t) <=> \E i \in 1 .. 5 : <<h, t, Type[i]>> \in relations
    BY DEF Related
  <2> QED BY <2>1, <2>2
<1>8. U # {} <=> h \in Formed /\ h \in D
  <2>1. \A t \in Formed : t \in Line(D, n - 1) <=> Deleted(t, n - 1) \/ (created[t] < n /\ t \in D)
    BY <1>3 DEF Line, Formed
  <2>2. h \in Formed => (h \in D <=> \E t \in Formed : /\ Related(h, t)
                                                       /\ Deleted(t, n) \/ (created[t] < n /\ t \in D))
    BY <1>3 DEF Descent, Reaches
  <2>3. U # {} <=> T[5] # {} \/ \E i \in 1 .. 5 : T[i] \cap Line(D, n - 1) # {}
    BY <1>d
  <2>4. ASSUME h \in Formed, h \in D PROVE U # {}
    <3>1. PICK t \in Formed : Related(h, t) /\ (Deleted(t, n) \/ (created[t] < n /\ t \in D))
      BY <2>2, <2>4
    <3>2. PICK i \in 1 .. 5 : t \in T[i]
      BY <1>7, <3>1
    <3>3. t \in Line(D, n - 1) \/ t \in T[5]
      BY <1>6, <2>1, <3>1
    <3> QED BY <2>3, <3>2, <3>3
  <2>5. ASSUME U # {} PROVE h \in Formed /\ h \in D
    <3>1. CASE T[5] # {}
      <4>1. PICK t : t \in T[5]
        BY <3>1
      <4>2. 5 \in 1 .. 5
        OBVIOUS
      <4>3. t \in Formed /\ h \in Formed /\ Related(h, t) /\ Deleted(t, n)
        BY <1>4, <1>6, <1>7, <4>1, <4>2
      <4> QED BY <2>2, <4>3
    <3>2. CASE \E i \in 1 .. 5 : T[i] \cap Line(D, n - 1) # {}
      <4>1. PICK i \in 1 .. 5, t \in Formed : t \in T[i] /\ t \in Line(D, n - 1)
        BY <1>4, <3>2
      <4>2. t \in Formed /\ h \in Formed /\ Related(h, t)
        BY <1>4, <1>7, <4>1
      <4>3. Deleted(t, n) \/ (created[t] < n /\ t \in D)
        BY <1>6, <2>1, <4>1, <4>2
      <4> QED BY <2>2, <4>2, <4>3
    <3> QED BY <2>3, <2>5, <3>1, <3>2
  <2> QED BY <2>4, <2>5
<1>9. Line(D, n) = Line(D, n - 1) \cup T[5] \cup U
  <2>1. U = IF h \in Formed /\ h \in D THEN {h} ELSE {}
    BY <1>d, <1>8
  <2>2. {c \in Formed : created[c] <= n /\ c \in D}
          = {c \in Formed : created[c] <= n - 1 /\ c \in D} \cup U
    BY <1>3, <2>1
  <2>3. T[5] \subseteq Row
    BY <1>4
  <2>4. {t \in Row : Deleted(t, n)} = {t \in Row : Deleted(t, n - 1)} \cup T[5]
    BY <1>6, <2>3
  <2> QED BY <2>2, <2>4 DEF Line
<1>10. Repeating(n) = Repeating(n - 1) \cup (IF T[1] \cup T[2] # {} THEN {h} ELSE {})
  <2>1. T[1] \cup T[2] # {} => h \in Formed
    BY <1>4
  <2> QED BY <1>2, <1>3, <2>1 DEF Repeating
<1>11. Updated(n) = Updated(n - 1) \cup T[3] \cup T[4]
  <2>1. T[3] \subseteq Row /\ T[4] \subseteq Row /\ (T[3] \cup T[4] # {} => h \in Formed)
    BY <1>4
  <2>2. \A t \in Row :
          t \in Updated(n) <=> \/ t \in Updated(n - 1)
                               \/ h \in Formed /\ t \in T[3] \cup T[4]
    BY <1>2, <1>3 DEF Updated
  <2>3. Updated(n) \subseteq Row /\ Updated(n - 1) \subseteq Row
    BY DEF Updated
  <2> QED BY <2>1, <2>2, <2>3
<1> QED BY <1>a, <1>b, <1>e, <1>9, <1>10, <1>11

\* The replay of all sources, by induction on the places.
LEMMA ReplayOfAll ==
    ASSUME Stored, NEW f, Replayed(f), NEW D, D \subseteq Formed, Descent(D)
    PROVE  f[5 * LastPlace].inactive = Line(D, LastPlace) \cup Repeating(LastPlace) \cup Updated(LastPlace)
<1> DEFINE S == {n \in 0 .. LastPlace :
                   /\ f[5 * n].lineage = Line(D, n)
                   /\ f[5 * n].inactive = Line(D, n) \cup Repeating(n) \cup Updated(n)}
<1>1. LastPlace \in Nat
  BY LastIsNat
<1>2. 0 \in S
  <2>1. f[0].lineage = {} /\ f[0].inactive = {}
    BY DEF Replayed
  <2>2. 5 * 0 = 0 /\ 0 \in 0 .. LastPlace
    BY <1>1
  <2>3. \A c \in Formed : ~ created[c] <= 0
    BY PlacesAreCounted
  <2>4. Line(D, 0) = {} /\ Repeating(0) = {} /\ Updated(0) = {}
    BY <2>3 DEF Line, Repeating, Updated, Deleted
  <2> QED BY <2>1, <2>2, <2>4
<1>3. ASSUME NEW k \in 0 .. LastPlace - 1, k \in S PROVE k + 1 \in S
  <2>1. PICK n \in Places : n = k + 1
    BY <1>1 DEF Places
  <2>2. k = n - 1 /\ n \in Nat /\ n \in 0 .. LastPlace
    BY <1>1, <2>1 DEF Places
  <2>a. PICK h : h = Holder(n)
    OBVIOUS
  <2> DEFINE g == [i \in 0 .. 5 |-> f[5 * (n - 1) + i]]
  <2>3. g \in [0 .. 5 -> States]
    <3>1. ASSUME NEW i \in 0 .. 5 PROVE 5 * (n - 1) + i \in 0 .. 5 * LastPlace
      BY <1>1, <2>2, <3>1 DEF Places
    <3> QED BY <3>1 DEF Replayed
  <2>4. ASSUME NEW i \in 1 .. 5 PROVE g[i] = Replay(g[i - 1], h, Type[i])
    <3>1. PICK q : q = 5 * (n - 1) + i
      OBVIOUS
    <3>2. q \in 1 .. 5 * LastPlace /\ Source(q) = h /\ 1 + ((q - 1) % 5) = i
      BY <2>a, <3>1, SourceSteps
    <3>3. f[q] = Replay(f[q - 1], h, Type[i])
      BY <3>2 DEF Replayed
    <3>4. i \in 0 .. 5 /\ i - 1 \in 0 .. 5 /\ q - 1 = 5 * (n - 1) + (i - 1)
      BY <2>2, <3>1
    <3>5. g[i] = f[q] /\ g[i - 1] = f[q - 1]
      BY <3>1, <3>4
    <3> QED BY <3>3, <3>5
  <2>5. g[0] = f[5 * k] /\ g[5] = f[5 * n]
    <3>1. 5 * (n - 1) + 0 = 5 * k /\ 5 * (n - 1) + 5 = 5 * n
      BY <2>2
    <3>2. 0 \in 0 .. 5 /\ 5 \in 0 .. 5
      OBVIOUS
    <3> QED BY <3>1, <3>2
  <2>6. PICK s : s = g
    OBVIOUS
  <2>7. /\ s[0].lineage = Line(D, n - 1)
        /\ s[0].inactive = Line(D, n - 1) \cup Repeating(n - 1) \cup Updated(n - 1)
    BY <1>3, <2>2, <2>5, <2>6
  <2>8. PICK T : T = TargetsOf(h)
    OBVIOUS
  <2>9. PICK U : U = Dragged(h, Line(D, n - 1))
    OBVIOUS
  <2>10. /\ Line(D, n) = Line(D, n - 1) \cup T[5] \cup U
         /\ Repeating(n) = Repeating(n - 1) \cup Repeats(h)
         /\ Updated(n) = Updated(n - 1) \cup T[3] \cup T[4]
    BY <2>a, <2>8, <2>9, SourceSets
  <2>11. /\ s[5].lineage = s[0].lineage \cup T[5] \cup U
         /\ s[5].inactive =
              s[0].inactive \cup T[3] \cup T[4] \cup T[5] \cup U \cup Repeats(h)
    <3>1. s \in [0 .. 5 -> States] /\ \A i \in 1 .. 5 : s[i] = Replay(s[i - 1], h, Type[i])
      BY <2>3, <2>4, <2>6
    <3>2. s[0].lineage \subseteq s[0].inactive
      BY <2>7
    <3>3. U = Dragged(h, s[0].lineage)
      BY <2>7, <2>9
    <3> HIDE DEF g
    <3> QED BY <2>8, <3>1, <3>2, <3>3, Round
  <2>12. /\ s[5].lineage = Line(D, n)
         /\ s[5].inactive = Line(D, n) \cup Repeating(n) \cup Updated(n)
    BY <2>7, <2>10, <2>11
  <2> HIDE DEF g
  <2> QED BY <2>1, <2>2, <2>5, <2>6, <2>12
<1>4. \A k \in 0 .. LastPlace : k \in S
  <2> HIDE DEF S
  <2> QED BY <1>1, <1>2, <1>3, Induction
<1> QED BY <1>1, <1>4

\* The store of formation is one the replay can rely on.
LEMMA FormIsStored == ASSUME FormInv PROVE Stored
<1>1. ASSUME NEW e \in Formed, NEW c \in Formed, created[e] = created[c] PROVE e = c
  <2>1. PICK s \in Time, t \in Time : created[e] = Place(s, e) /\ created[c] = Place(t, c)
    BY DEF FormInv, Placed
  <2>2. e \in Row /\ c \in Row
    BY DEF Formed
  <2> QED BY <1>1, <2>1, <2>2, PlaceIsOfOne
<1> QED BY <1>1 DEF FormInv, Stored

\* The invariant of formation implies the properties the run checks.
LEMMA FormIsSound == ASSUME FormInv PROVE TypeOK /\ PointsBack /\ ResolvesLineage
<1>1. TypeOK
  BY Types DEF FormInv, TypeOK, Proper, Joins, Ordering
<1>2. PointsBack
  <2> SUFFICES ASSUME NEW r \in relations, kind[r[1]].dated, kind[r[2]].dated
               PROVE  created[r[2]] < created[r[1]]
    BY DEF PointsBack
  <2>1. Joins(r) /\ r[1] \in Formed /\ r[2] \in Formed
    BY DEF FormInv, Proper, Endpoints
  <2>2. Tells(r[1], created) /\ Tells(r[2], created)
    BY <2>1 DEF FormInv, Placed
  <2> QED BY <2>1, <2>2 DEF Joins, Tells
<1>3. PICK D : D = Descends
  OBVIOUS
<1>4. Stored /\ Descent(D) /\ D \subseteq Formed
  BY <1>3, FormIsStored, DescendsIsDescent
<1>5. PICK f : Replayed(f) /\ Resolution = f[5 * LastPlace]
  BY <1>4, ResolutionIsReplayed
<1>6. Resolution.inactive = Line(D, LastPlace) \cup Repeating(LastPlace) \cup Updated(LastPlace)
  BY <1>4, <1>5, ReplayOfAll
<1>7. \A e \in Formed : e \in Row /\ created[e] <= LastPlace
  BY <1>4, PlacesAreCounted
<1>8. ASSUME NEW c \in Formed
      PROVE  c \notin Resolution.inactive <=>
               /\ c \notin D /\ ~Deleted(c, LastPlace)
               /\ Targets(c, "duplicate") \cup Targets(c, "conflict") = {}
               /\ \A e \in Row : c \notin Targets(e, "update") \cup Targets(e, "supersede")
  <2>1. c \in Line(D, LastPlace) <=> c \in D \/ Deleted(c, LastPlace)
    BY <1>7 DEF Line
  <2>2. c \in Repeating(LastPlace) <=> Targets(c, "duplicate") \cup Targets(c, "conflict") # {}
    BY <1>7 DEF Repeating
  <2>3. c \in Updated(LastPlace) <=>
          \E e \in Row : c \in Targets(e, "update") \cup Targets(e, "supersede")
    <3>1. \A e : c \in Targets(e, "update") \cup Targets(e, "supersede") => e \in Formed
      BY <1>4, TargetsAreOthers
    <3> QED BY <1>7, <3>1 DEF Updated
  <2> QED BY <1>6, <2>1, <2>2, <2>3
<1>9. ResolvesLineage
  BY <1>3, <1>8 DEF ResolvesLineage, Active
<1> QED BY <1>1, <1>2, <1>9

-----------------------------------------------------------------------------
(* The theorems.                                                           *)

\* The invariant of the run: the machine it chose satisfies its own.
IntakeInv ==
    /\ machine \in {"transcript", "candidate"}
    /\ machine = "transcript" => CaptureInv
    /\ machine = "candidate" => FormInv

\* The initial states satisfy the invariant.
LEMMA IntakeStarts == MCInit => IntakeInv
BY CaptureInit, FormInit DEF MCInit, IntakeInv

\* Every step of either machine keeps the invariant.
LEMMA IntakeSteps == IntakeInv /\ [MCNext]_allVars => IntakeInv'
<1> SUFFICES ASSUME IntakeInv, [MCNext]_allVars PROVE IntakeInv'
  OBVIOUS
<1>1. \/ machine = "transcript" /\ Transcript!Next /\ UNCHANGED <<machine, vars>>
      \/ machine = "candidate" /\ Next /\ UNCHANGED <<machine, ofTranscript>>
      \/ UNCHANGED allVars
  BY DEF MCNext
<1>2. UNCHANGED machine
  BY <1>1 DEF allVars
<1>3. ASSUME machine = "transcript" PROVE CaptureInv'
  <2>1. Transcript!Next \/ UNCHANGED ofTranscript
    BY <1>1, <1>3 DEF allVars
  <2> QED BY <1>3, <2>1, CaptureStep DEF IntakeInv
<1>4. ASSUME machine = "candidate" PROVE FormInv'
  <2>1. [Next]_vars
    BY <1>1, <1>4 DEF allVars
  <2> QED BY <1>4, <2>1, FormStep DEF IntakeInv
<1> QED BY <1>2, <1>3, <1>4 DEF IntakeInv

\* The invariant holds in every reachable state.
LEMMA IntakeHolds == MCSpec => []IntakeInv
BY IntakeStarts, IntakeSteps, PTL DEF MCSpec

\* What the checkpoint of a transcript has passed is known, stored at most once, queued for
\* distillation and within the quota, whatever is appended, torn or rotated, and whichever
\* hooks capture at the same time, fail or are retried (hook_capture, capture_batch).
THEOREM CaptureIsCovered == MCSpec => []CaptureCovers
<1>1. IntakeInv => CaptureCovers
  BY CaptureIsSound DEF IntakeInv, CaptureCovers
<1> QED BY <1>1, IntakeHolds, PTL

\* The replay of relations (LifecycleResolver.resolve) makes a deleted candidate inactive, and
\* all that is related to it or to its lineage and is replayed after it, in the order of
\* created_at, and nothing else besides duplicates, conflicts and what was replaced.  So it is
\* whatever relations overlapping formers have stored, those in both directions included.
\* Relations join stored candidates, and lead back where both ends tell their own time.
THEOREM DeletionsReachLineage == MCSpec => []DeletionsResolved
<1>1. IntakeInv => DeletionsResolved
  BY FormIsSound DEF IntakeInv, DeletionsResolved
<1> QED BY <1>1, IntakeHolds, PTL

\* A batch saved over the store it was derived from leaves every claim that comes after another
\* one with a relation (form_candidates).  What comes after what is the order of created_at: the
\* time a transcript line tells, whenever it is formed, and the stamp of its former for a hook's
\* row, so that of two hook rows the order of formation decides.
THEOREM ClaimsAreRelated == MCSpec => ClaimsRelated
<1>1. IntakeInv /\ [MCNext]_allVars => [machine = "candidate" => LinksEveryClaim]_allVars
  BY SaveRelates DEF IntakeInv
<1> QED BY <1>1, IntakeHolds, PTL DEF MCSpec, ClaimsRelated
===============================================================================
