------------------------------ MODULE Lifecycle ------------------------------
(***************************************************************************)
(* What the store promises about one target's findings, told without       *)
(* goroutines, snapshots or partial writes: the table of statuses in the   *)
(* comment above Engine.Reconcile.  A finding changes by one observation   *)
(* (a scan reported it, or did not) or by one decision of the user.        *)
(***************************************************************************)
EXTENDS Integers

CONSTANTS Findings,       \* fingerprints of one (module, target)
          Threshold       \* consecutive absences that close a finding

VARIABLES status,         \* status of each finding, "none" before its first sighting
          streak          \* absences since it was last seen, while it counts

lifeVars == <<status, streak>>

Init == /\ status = [f \in Findings |-> "none"]
        /\ streak = [f \in Findings |-> 0]

(* A scan reports f: a first sighting and a sighting of a resolved finding  *)
(* open it, any other leaves its status alone.                             *)
Sighting(f) ==
    /\ status' = [status EXCEPT ![f] = IF @ \in {"none", "resolved"} THEN "open" ELSE @]
    /\ streak' = [streak EXCEPT ![f] = 0]

(* A scan misses f: only a finding that still needs attention counts the    *)
(* absence, and Threshold of them in a row resolve it.                     *)
Absence(f) ==
    /\ status[f] \in {"open", "acknowledged"}
    /\ streak' = [streak EXCEPT ![f] = @ + 1]
    /\ status' = [status EXCEPT ![f] = IF streak'[f] >= Threshold THEN "resolved" ELSE @]

(* The user opens, acknowledges or suppresses a finding on record.          *)
Decision(f, choice) ==
    /\ status[f] # "none"
    /\ status' = [status EXCEPT ![f] = choice]
    /\ UNCHANGED streak

Next == \E f \in Findings :
            \/ Sighting(f)
            \/ Absence(f)
            \/ \E choice \in {"open", "acknowledged", "suppressed"} : Decision(f, choice)

Spec == Init /\ [][Next]_lifeVars
=============================================================================
