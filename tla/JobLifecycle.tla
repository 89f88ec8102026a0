---------------------------- MODULE JobLifecycle ----------------------------
(***************************************************************************)
(* What the durable queue promises about one job, without workers, leases  *)
(* or clocks: it is tried at most MaxAttempts times, it is given up only   *)
(* when every try was used, and once succeeded or dead it stays that way   *)
(* until the session it belongs to is purged.                              *)
(***************************************************************************)
EXTENDS Naturals

CONSTANT MaxAttempts

VARIABLES
    state,   \* absent, pending, leased, succeeded or dead
    tries    \* how often the job was handed out

vars == <<state, tries>>

Init == state = "absent" /\ tries = 0

Move(from, to) == state \in from /\ state' = to /\ UNCHANGED tries

Enqueue == Move({"absent"}, "pending")

HandOut == /\ state = "pending" /\ tries < MaxAttempts
           /\ state' = "leased" /\ tries' = tries + 1

\* A worker answers a leased job; a manual run acknowledges a pending one.
Acknowledge == Move({"leased", "pending"}, "succeeded")

TryAgain == tries < MaxAttempts /\ Move({"leased"}, "pending")

GiveUp == tries = MaxAttempts /\ Move({"leased"}, "dead")

Forget == state' = "absent" /\ tries' = 0

Next == Enqueue \/ HandOut \/ Acknowledge \/ TryAgain \/ GiveUp \/ Forget

Spec == Init /\ [][Next]_vars
=============================================================================
