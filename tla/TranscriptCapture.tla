-------------------------- MODULE TranscriptCapture --------------------------
(***************************************************************************)
(* Capture of one session: its transcript, which the host appends to, cuts *)
(* or replaces, and the hook observations of the same events.  A capture   *)
(* loads the checkpoint, reads the file, looks up which events are known,  *)
(* and commits its batch with a new checkpoint; captures overlap, and each *)
(* may die.  Only the commit is a transaction.                             *)
(*                                                                         *)
(* A line stands for the replay identity of its event.  The boundary       *)
(* digest of a checkpoint is taken to identify all that precedes it.       *)
(* The quota counts rows and not bytes.                                    *)
(***************************************************************************)
EXTENDS Integers, Sequences, FiniteSets, Functions, SequencesExt

CONSTANTS
    Event,         \* replay identities
    Noise,         \* lines that are no evidence
    None,
    Capturer,      \* processes that capture the transcript
    MaxLines, MaxFiles,
    MaxRows        \* evidence_max_count_per_session

VARIABLES
    lines, torn, inode,     \* the transcript; a torn one ends in half a line
    checkpoint,    \* [prefix, inode], or None
    known,         \* capture_event_identities
    rows,          \* retained evidence: [event, line], line 0 of a hook
    stored,        \* how often the evidence of an event was ever stored
    jobs,          \* checkpoint lines of distill jobs, 0 for a hook
    barred,        \* replay tombstones
    closed,        \* the session was purged
    pending        \* per capture: None, or what it has read so far

vars == <<lines, torn, inode, checkpoint, known, rows, stored, jobs, barred, closed,
          pending>>

transcript == <<lines, torn, inode>>
database == <<checkpoint, known, rows, stored, jobs, barred, closed>>

Init ==
    /\ lines = <<>> /\ torn = FALSE /\ inode = 1
    /\ checkpoint = None /\ known = {} /\ rows = {} /\ jobs = {} /\ barred = {}
    /\ stored = [e \in Event |-> 0] /\ closed = FALSE
    /\ pending = [p \in Capturer |-> None]

-----------------------------------------------------------------------------
(* The host.  A resumed session repeats old events on new lines.           *)

Line == Event \cup Noise

AppendLine(l) ==
    /\ Len(lines) < MaxLines /\ lines' = Append(lines, l) /\ torn' = FALSE
    /\ UNCHANGED <<inode, database, pending>>

Tear == ~torn /\ torn' = TRUE /\ UNCHANGED <<lines, inode, database, pending>>

Truncate(n) ==
    /\ lines' = SubSeq(lines, 1, n) /\ torn' = FALSE
    /\ UNCHANGED <<inode, database, pending>>

ReplaceFile ==
    /\ inode < MaxFiles /\ inode' = inode + 1 /\ lines' = <<>> /\ torn' = FALSE
    /\ UNCHANGED <<database, pending>>

-----------------------------------------------------------------------------
(* A capture (capture_jsonl).                                              *)

Goes(p, value) == pending' = [pending EXCEPT ![p] = value]

Prefix(c) == IF c = None THEN <<>> ELSE c.prefix

Load(p) ==
    /\ pending[p] = None
    /\ Goes(p, [step |-> "read", from |-> checkpoint])
    /\ UNCHANGED <<transcript, database>>

\* The same file, no shorter, and the same up to the checkpoint.
Continues(c) == c = None \/ (c.inode = inode /\ IsPrefix(c.prefix, lines))

\* The identities of the lines from the checkpoint on, the first of each.
Appended(c) == Range(SubSeq(lines, Len(Prefix(c)) + 1, Len(lines))) \ Noise

\* An error, or nothing to read, ends the capture; half a line is an error.
ReadFile(p) ==
    /\ pending[p] # None /\ pending[p].step = "read"
    /\ LET c == pending[p].from
       IN  IF ~Continues(c) \/ torn \/ Len(lines) <= Len(Prefix(c))
           THEN Goes(p, None)
           ELSE Goes(p, [step |-> "lookup", after |-> Len(Prefix(c)), all |-> lines,
                         inode |-> inode, fresh |-> Appended(c)])
    /\ UNCHANGED <<transcript, database>>

Lookup(p) ==
    /\ pending[p] # None /\ pending[p].step = "lookup"
    /\ Goes(p, [pending[p] EXCEPT !.step = "commit", !.fresh = @ \ (known \cup barred)])
    /\ UNCHANGED <<transcript, database>>

\* The line an event is first seen at, after the checkpoint that the capture began from.
LineOf(q, e) ==
    CHOOSE n \in q.after + 1 .. Len(q.all) :
        q.all[n] = e /\ \A k \in q.after + 1 .. n - 1 : q.all[k] # e

\* Mutant: what another capture stored since the lookup is stored again.
NewOfLookup(q) == q.fresh \ barred

New(q) == q.fresh \ (barred \cup known)

Fits(n) == n = 0 \/ Cardinality(rows) + n <= MaxRows

\* Rows of New, at the lines of the batch.
Store(new, lineOf) ==
    /\ known' = known \cup new
    /\ rows' = rows \cup {[event |-> e, line |-> lineOf[e]] : e \in new}
    /\ stored' = [e \in Event |-> IF e \in new THEN stored[e] + 1 ELSE stored[e]]

\* capture_batch.  A batch whose events were all barred since the lookup changes nothing.
Commit(p) ==
    /\ pending[p] # None /\ pending[p].step = "commit"
    /\ LET q == pending[p]
           new == New(q)
       IN  IF closed \/ ~Fits(Cardinality(new)) \/ (q.fresh # {} /\ q.fresh \subseteq barred)
           THEN UNCHANGED database
           ELSE /\ Store(new, [e \in new |-> LineOf(q, e)])
                /\ checkpoint' = [prefix |-> q.all, inode |-> q.inode]
                /\ jobs' = IF new = {} THEN jobs ELSE jobs \cup {Len(q.all)}
                /\ UNCHANGED <<barred, closed>>
    /\ Goes(p, None) /\ UNCHANGED transcript

Crash(p) == pending[p] # None /\ Goes(p, None) /\ UNCHANGED <<transcript, database>>

-----------------------------------------------------------------------------
(* Hooks, retention and purge.                                             *)

\* An event that a hook observes, as the first one to see it.
Hook(e, distilled) ==
    /\ ~closed /\ e \notin barred \cup known /\ Fits(1)
    /\ Store({e}, [x \in {e} |-> 0])
    /\ jobs' = jobs \cup (IF distilled THEN {0} ELSE {})
    /\ UNCHANGED <<transcript, checkpoint, barred, closed, pending>>

HookPrompt(e) == Hook(e, TRUE)

\* Only the answer that ends a turn is distilled.
HookObservation(e) == \E distilled \in BOOLEAN : Hook(e, distilled)

\* The time to live of a row: its identity stays.
Expire(r) ==
    /\ r \in rows /\ rows' = rows \ {r}
    /\ UNCHANGED <<transcript, checkpoint, known, stored, jobs, barred, closed, pending>>

Purge ==
    /\ ~closed /\ closed' = TRUE /\ barred' = barred \cup known
    /\ known' = {} /\ rows' = {} /\ jobs' = {} /\ checkpoint' = None
    /\ UNCHANGED <<transcript, stored, pending>>

Next ==
    \/ \E l \in Line : AppendLine(l)
    \/ Tear \/ ReplaceFile \/ Purge
    \/ \E n \in 0 .. Len(lines) - 1 : Truncate(n)
    \/ \E p \in Capturer : Load(p) \/ ReadFile(p) \/ Lookup(p) \/ Commit(p) \/ Crash(p)
    \/ \E e \in Event : HookPrompt(e) \/ HookObservation(e)
    \/ \E r \in rows : Expire(r)

Spec == Init /\ [][Next]_vars

-----------------------------------------------------------------------------
(* Properties.                                                             *)

\* No event that the checkpoint has passed was missed, though captures that overlap may
\* set it back or forth, and the file may be cut or replaced under them.
CheckpointCovers == checkpoint # None => Range(checkpoint.prefix) \ Noise \subseteq known

\* An event is stored at most once, seen in whatever lines, hooks and captures, even
\* after retention deleted its evidence.
StoredOnce == \A e \in Event : stored[e] <= 1

\* Every row retained of the transcript has a distill job that reaches its line.
Queued == \A r \in rows : r.line # 0 => \E n \in jobs : r.line <= n

WithinQuota == Cardinality(rows) <= MaxRows

Captured == CheckpointCovers /\ StoredOnce /\ Queued /\ WithinQuota
=============================================================================
