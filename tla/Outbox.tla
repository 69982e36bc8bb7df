------------------------------- MODULE Outbox -------------------------------
(***************************************************************************)
(* What a notifier owes its channels: an accepted event waits for every    *)
(* channel until it reached it or was given up on it; it never disappears. *)
(***************************************************************************)
CONSTANTS Events, Channels

VARIABLES waiting,        \* waiting[ch]: accepted, and still owed to ch
          reached,        \* reached[ch]: arrived at ch, once or more
          lost            \* lost[ch]: given up on ch

boxVars == <<waiting, reached, lost>>

Init == waiting = [ch \in Channels |-> {}] /\ reached = waiting /\ lost = waiting

Accept(e) ==
    /\ \A ch \in Channels : e \notin waiting[ch] \cup reached[ch] \cup lost[ch]
    /\ waiting' = [ch \in Channels |-> waiting[ch] \cup {e}]
    /\ UNCHANGED <<reached, lost>>

(* Some events arrive; the channel may not have acknowledged them yet.      *)
Arrive(ch, batch) ==
    /\ reached' = [reached EXCEPT ![ch] = @ \cup batch]
    /\ UNCHANGED <<waiting, lost>>

(* A batch is done with: acknowledged, hence arrived, or given up, and part *)
(* of it may have arrived.                                                 *)
Settle(ch, batch) ==
    /\ waiting' = [waiting EXCEPT ![ch] = @ \ batch]
    /\ \/ reached' = [reached EXCEPT ![ch] = @ \cup batch] /\ UNCHANGED lost
       \/ /\ lost' = [lost EXCEPT ![ch] = @ \cup batch]
          /\ \E part \in SUBSET batch : reached' = [reached EXCEPT ![ch] = @ \cup part]

Next == \/ \E e \in Events : Accept(e)
        \/ \E ch \in Channels : \E batch \in SUBSET waiting[ch] :
               batch # {} /\ (Arrive(ch, batch) \/ Settle(ch, batch))

Spec == Init /\ [][Next]_boxVars
=============================================================================
