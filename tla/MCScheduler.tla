----------------------------- MODULE MCScheduler -----------------------------
(* Small instances of Scheduler for TLC.                                    *)
EXTENDS Scheduler, TLC

AnyJobOrTarget == Permutations(Jobs) \cup Permutations(Targets)
AnyJob == Permutations(Jobs)
=============================================================================
