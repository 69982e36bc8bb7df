------------------------------ MODULE MCProgram ------------------------------
(* Small instances of Program.                                              *)
EXTENDS Program, TLC

CONSTANTS m1, f1, f2, syslog, hook, s1, s2

AnyScan == Permutations(Scans)
=============================================================================
