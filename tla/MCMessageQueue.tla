--------------------------- MODULE MCMessageQueue ---------------------------
(* Model checking of MessageQueue: a terminal state (every bound reached,  *)
(* every call returned) stutters, so that TLC's deadlock check finds only  *)
(* threads that wait for each other.  In a blocking queue a sender may     *)
(* wait for good, after another one took its notification.                 *)
EXTENDS MessageQueue

Quiescent ==
    /\ \A p \in Producers : \/ pc[p] = "idle" /\ sent[p] = MaxSends
                            \/ blocking /\ pc[p] \in {"waitSpace", "waitDone"}
    /\ wpc \in {"none", "asleep"}
    /\ UNCHANGED vars

MCNext == Next \/ Quiescent
MCSpec == Init /\ [][MCNext]_vars
MCFairSpec == MCSpec /\ Fairness
=============================================================================
