------------------------------- MODULE MCIntake -------------------------------
(***************************************************************************)
(* Instances of TranscriptCapture and of CandidateLifecycle for TLC.  The  *)
(* two share no state, so one run checks both: the initial state chooses a *)
(* machine, and the variables of the other one stay None.                  *)
(***************************************************************************)
EXTENDS CandidateLifecycle, TLC

CONSTANTS
    None, Noise, Event, Capturer, MaxLines, MaxFiles, MaxRows,
    x, y

VARIABLES
    machine,
    lines, torn, inode, checkpoint, known, rows, stored, jobs, barred, closed, pending

\* Claims of either value, the second one with a hint, a deletion by subject and one of the
\* whole slot, from a hook's rows and from dated lines.
SomeKinds ==
    [deletes : {FALSE}, values : {{x}}, slot : {TRUE}, hint : {"none"}, dated : {FALSE}, time : {1}]
    \cup [deletes : {FALSE}, values : {{y}}, slot : {TRUE}, hint : {"update"}, dated : {TRUE}, time : {1}]
    \cup [deletes : {FALSE}, values : {{y}}, slot : {TRUE}, hint : {"conflict"}, dated : {FALSE}, time : {2}]
    \cup [deletes : {TRUE}, values : {{x}}, slot : {FALSE}, hint : {"none"}, dated : {FALSE}, time : {2}]
    \cup [deletes : {TRUE}, values : {{}}, slot : {TRUE}, hint : {"none"}, dated : {TRUE}, time : {2}]

\* RetentionPolicy accepts positive limits only.
ASSUME QuotaAssumption == MaxRows \in Nat \ {0}

Transcript == INSTANCE TranscriptCapture

ofTranscript == <<lines, torn, inode, checkpoint, known, rows, stored, jobs, barred, closed, pending>>

allVars == <<machine, ofTranscript, vars>>

MCInit ==
    \/ /\ machine = "transcript" /\ Transcript!Init
       /\ kind = None /\ created = None /\ relations = None
       /\ batch = None /\ disturbed = None /\ collected = None
    \/ /\ machine = "candidate" /\ Init
       /\ lines = None /\ torn = None /\ inode = None /\ checkpoint = None
       /\ known = None /\ rows = None /\ stored = None /\ jobs = None
       /\ barred = None /\ closed = None /\ pending = None

MCNext ==
    \/ machine = "transcript" /\ Transcript!Next /\ UNCHANGED <<machine, vars>>
    \/ machine = "candidate" /\ Next /\ UNCHANGED <<machine, ofTranscript>>

MCSpec == MCInit /\ [][MCNext]_allVars

Symmetry ==
    {f @@ g : f \in Permutations(Event), g \in Permutations(Capturer)} \cup Permutations(Former)

-----------------------------------------------------------------------------

\* The invariant of TranscriptCapture: what the checkpoint has passed is known, stored
\* once, queued for distillation, and within the quota.
CaptureCovers == machine = "transcript" => Transcript!Captured

\* The invariant of CandidateLifecycle: deletions reach their lineage in the order of
\* created_at and nothing else, also over relations in both directions (resolve); relations
\* join stored candidates, and lead back where both ends tell their own time.
DeletionsResolved == machine = "candidate" => TypeOK /\ PointsBack /\ ResolvesLineage

\* The action property of CandidateLifecycle: an undisturbed save leaves no claim without a
\* relation that comes after another one in the order of created_at, in whatever order they
\* were formed (form_candidates).
ClaimsRelated == [][machine = "candidate" => LinksEveryClaim]_allVars
===============================================================================
