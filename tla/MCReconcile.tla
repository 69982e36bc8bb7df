---------------------------- MODULE MCReconcile ----------------------------
(* Small instances of Reconcile: one or two findings of one target.         *)
EXTENDS Reconcile, TLC

CONSTANTS f1, f2, bad, c1, c2, u1

(* Reported, not reported, reported with a rejected one, reported twice.    *)
OneFinding == {<<>>, <<f1>>, <<bad, f1>>, <<f1, f1>>}
TwoFindings == {<<>>, <<f1>>, <<f1, f2>>, <<f2, bad>>, <<f1, f1>>}

CallSymmetry == Permutations(Calls)
=============================================================================
