------------------------- MODULE MCRuntimeDeletion -------------------------
(* Two requests that share a target; the second was made in the session of *)
(* another target of the first.                                            *)
EXTENDS RuntimeDeletion, TLC

CONSTANTS c1, c2, s1, s2

MCSessionOf == (c1 :> s1) @@ (c2 :> s2) @@ (1 :> s1) @@ (2 :> s2)
MCMatches == <<{c1, c2}, {c1}>>
=============================================================================
