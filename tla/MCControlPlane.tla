--------------------------- MODULE MCControlPlane ---------------------------
(***************************************************************************)
(* Small instances of ControlPlane: two files, one to three contents, and  *)
(* proposals that update, add, tombstone or leave alone the first file,    *)
(* with or without citing the second.                                      *)
(***************************************************************************)
EXTENDS ControlPlane, TLC

CONSTANTS p1, p2, c1, c2, e1, e2, r1, r2, f, g, a, b, d, t1, t2

\* A tombstone's bytes name the approval, so they differ per approval.
MCStamped ==
    [x \in Bytes \X Evidence |->
        IF {t1, t2} \subseteq Bytes THEN (IF x[2] = e1 THEN t1 ELSE t2) ELSE x[1]]

Propose(op, cites, window) ==
    [op |-> op, dest |-> f, draft |-> b, cites |-> cites, window |-> window]

CitesG == {[ref |-> g, sha |-> a]}

UpdateCitingG == {Propose("update", CitesG, "until")}
NoOp == {Propose("no_op", {}, "always")}
AddAndTombstone == {Propose("add", {}, "from"), Propose("tombstone", {}, "always")}
TwoUpdates == {Propose("update", {}, "always"),
               [Propose("update", {}, "always") EXCEPT !.draft = d]}

UpdateOrNoOp == UpdateCitingG \cup NoOp

BothPresent == {f :> a @@ g :> a}
OneOrBoth == BothPresent \cup {f :> Absent @@ g :> a}
AllKinds == UpdateCitingG \cup AddAndTombstone

Symmetry == Permutations(Proc)
=============================================================================
