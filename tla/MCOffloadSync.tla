---------------------------- MODULE MCOffloadSync ----------------------------
(***************************************************************************)
(* Small instances of OffloadSync: calls and results that share one id, so *)
(* that the order of capture decides which are pairs and which duplicates. *)
(***************************************************************************)
EXTENDS OffloadSync, TLC

CONSTANTS w1, w2, w3, c1, c2, r1, r2, x1, t1, f1, k1

\* x1 is a call without an id.
Kinds == [e \in Event |-> CASE e \in {c1, c2, x1} -> "call"
                             [] e \in {r1, r2} -> "result"
                             [] e = f1 -> "foreign"
                             [] OTHER -> "text"]

OneId == [e \in Event |-> IF e = x1 THEN None ELSE k1]

\* The hooks are alike, and so are the calls and the results among themselves.
Alike == Permutations({w1, w2}) \cup Permutations({c1, c2}) \cup Permutations({r1, r2})
=============================================================================
