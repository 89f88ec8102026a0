--------------------------- MODULE MCDistillQueue ---------------------------
(***************************************************************************)
(* Small instances of DistillQueue: one or two sessions with up to three   *)
(* capture events, two or three processes that share an identity or not.   *)
(***************************************************************************)
EXTENDS DistillQueue, TLC

CONSTANTS w1, w2, i1, i2, s1, s2, e1, e2, e3

Apart == [w \in Worker |-> IF w = w1 THEN i1 ELSE i2]
Shared == [w \in Worker |-> i1]

OneSession == [e \in Event |-> s1]
TwoSessions == [e \in Event |-> IF e = e3 THEN s2 ELSE s1]

\* e1 and e2 are lines of one source.
Lines == [e \in Event |-> IF e = e2 THEN 2 ELSE 1]

\* Swapping the processes, with their identities where those differ.
SwapBoth == {(w1 :> w2 @@ w2 :> w1 @@ i1 :> i2 @@ i2 :> i1)}
SwapWorkers == {(w1 :> w2 @@ w2 :> w1)}
=============================================================================
