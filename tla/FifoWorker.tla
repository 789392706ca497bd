----------------------------- MODULE FifoWorker -----------------------------
(***************************************************************************)
(* What a user of ipcMessageQueue relies on ("a bounded, multi-producer,   *)
(* single-consumer FIFO worker queue", data7/ipc.h): messages are run one  *)
(* at a time, each exactly once, in the order in which they were accepted, *)
(* at most Bound of them are ever outstanding, and once the queue has been *)
(* closed nothing is outstanding, so that a message is run by its sender.  *)
(***************************************************************************)
EXTENDS Naturals, Sequences

CONSTANTS Messages,   \* the messages that may be sent
          Bound       \* accepted messages whose processing has not finished

VARIABLES accepted,   \* every message accepted so far, in order
          processed   \* every message whose callback has run, in order

vars == <<accepted, processed>>

Outstanding == Len(accepted) - Len(processed)

Init == accepted = <<>> /\ processed = <<>>

Accept(m) ==
    /\ Outstanding < Bound
    /\ accepted' = Append(accepted, m)
    /\ UNCHANGED processed

\* The worker has run the oldest outstanding message.
Process ==
    /\ Outstanding > 0
    /\ processed' = Append(processed, accepted[Len(processed) + 1])
    /\ UNCHANGED accepted

\* No worker: the sender runs its own message, after everything before it.
RunInline(m) ==
    /\ Outstanding = 0
    /\ accepted' = Append(accepted, m)
    /\ processed' = Append(processed, m)

Next == Process \/ \E m \in Messages : Accept(m) \/ RunInline(m)

Spec == Init /\ [][Next]_vars
=============================================================================
