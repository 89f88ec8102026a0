-------------------------- MODULE ProgressiveSession --------------------------
(***************************************************************************)
(* The session files by which the prompt hook hands a progressive          *)
(* retrieval to the model, one decision per command.  A command reads the  *)
(* file, replays the whole loop from the query and the decisions, and      *)
(* replaces the file; nothing locks it, and a command may die or fail.     *)
(* The loop itself is ProgressiveLoop: here it asks for another decision   *)
(* or is complete, and it is complete after MaxRounds decisions.  show     *)
(* only reads and is left out.                                             *)
(***************************************************************************)
EXTENDS Integers

CONSTANTS
    Token,         \* session tokens, which are drawn at random
    Command,       \* processes
    None,
    MaxRounds

VARIABLES
    mode,          \* what activation.json says
    file,          \* token -> session file, or None
    stale,         \* tokens whose file is older than a day
    pending        \* per command: [token, value] that it replays, or None

vars == <<mode, file, stale, pending>>

Session == [state : {"active", "complete"}, query : BOOLEAN, decisions : 0 .. MaxRounds]

Opened == [state |-> "active", query |-> TRUE, decisions |-> 0]

Init ==
    /\ mode = "legacy" /\ stale = {}
    /\ file = [t \in Token |-> None] /\ pending = [p \in Command |-> None]

Enabled == mode = "candidate"

SetMode(m) == m # mode /\ mode' = m /\ UNCHANGED <<file, stale, pending>>

Age(t) == file[t] # None /\ stale' = stale \cup {t} /\ UNCHANGED <<mode, file, pending>>

\* The prompt hook starts a session, which removes those of the day before.
Start(p, t) ==
    /\ Enabled /\ pending[p] = None
    /\ file[t] = None /\ \A other \in Command : pending[other] # None => pending[other].token # t
    /\ file' = [u \in Token |-> IF u \in stale THEN None ELSE file[u]] /\ stale' = {}
    /\ pending' = [pending EXCEPT ![p] = [token |-> t, value |-> Opened]]
    /\ UNCHANGED mode

Step(p, t) ==
    /\ pending[p] = None /\ file[t] # None /\ file[t].state = "active"
    /\ pending' = [pending EXCEPT ![p] =
                     [token |-> t, value |-> [file[t] EXCEPT !.decisions = @ + 1]]]
    /\ UNCHANGED <<mode, file, stale>>

\* advance: without a decision the planner is always asked.
Results(n) ==
    IF n = 0 THEN {"awaiting_decision"}
    ELSE IF n = MaxRounds THEN {"complete"} ELSE {"awaiting_decision", "complete"}

Closed(value) == [state |-> "complete", query |-> FALSE, decisions |-> 0]

\* _atomic_json: the file is old or new, never torn.
Replace(t, value) == file' = [file EXCEPT ![t] = value]

Write(p) ==
    /\ pending[p] # None
    /\ LET t == pending[p].token
           v == pending[p].value
       IN  /\ \E result \in Results(v.decisions) :
                Replace(t, IF result = "complete" THEN Closed(v) ELSE v)
           /\ stale' = stale \ {t}
    /\ pending' = [pending EXCEPT ![p] = None] /\ UNCHANGED mode

\* The replay raises, or the process dies.
Fail(p) ==
    /\ pending[p] # None /\ pending' = [pending EXCEPT ![p] = None]
    /\ UNCHANGED <<mode, file, stale>>

Next ==
    \/ \E m \in {"candidate", "legacy"} : SetMode(m)
    \/ \E t \in Token : Age(t)
    \/ \E p \in Command : Write(p) \/ Fail(p) \/ \E t \in Token : Start(p, t) \/ Step(p, t)

Spec == Init /\ [][Next]_vars

-----------------------------------------------------------------------------
(* Properties.                                                             *)

\* However commands overlap, a closed session holds neither its query nor its decisions,
\* and an open one can still be answered within the rounds of the loop.
Confined ==
    \A t \in Token : file[t] # None =>
        IF file[t].state = "complete" THEN ~file[t].query /\ file[t].decisions = 0
        ELSE file[t].query /\ file[t].decisions < MaxRounds
=============================================================================
