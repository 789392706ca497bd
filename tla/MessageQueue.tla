---------------------------- MODULE MessageQueue ----------------------------
(***************************************************************************)
(* ipcMessageQueue (data7/ipc.h, data7/ipc.cpp): a ring of callbacks, one  *)
(* worker thread, a mutex and two condition variables.  A step is what a   *)
(* thread does between two points at which another thread can see or       *)
(* change the queue: taking the mutex, a wait, a callback, an unlocked     *)
(* read of initialized_.                                                   *)
(***************************************************************************)
EXTENDS Naturals, Sequences

CONSTANTS Producers,           \* threads that call Send
          Owner,               \* the producer that calls Init and Shutdown
          MaxMessages,         \* Init's max_messages
          Modes,               \* the modes Init is called with
          SpuriousWakeups,     \* may SDL_WaitCondition return unsignalled?
          SendsDuringShutdown, \* may others call Send while Shutdown runs?
          MaxSends,            \* bound: messages per producer
          MaxInits,            \* bound: calls of Init
          Worker, Free         \* the worker thread; an unheld mutex

ASSUME QueueAssumption ==
    /\ Owner \in Producers
    /\ MaxMessages \in Nat /\ MaxMessages >= 2
    /\ Modes \subseteq {"async", "blocking", "sync"}
    /\ SpuriousWakeups \in BOOLEAN /\ SendsDuringShutdown \in BOOLEAN
    /\ MaxSends \in Nat /\ MaxInits \in Nat
    /\ Worker \notin Producers /\ Free \notin Producers \cup {Worker}

VARIABLES initialized,  \* initialized_
          blocking,     \* blocking_
          sendIndex,    \* send_index_
          readIndex,    \* read_index_
          messages,     \* messages_
          mutex,        \* the thread that holds mutex_, or Free
          pc,           \* where each producer is
          wpc,          \* where the worker is
          current,      \* the worker's copy of the message it runs
          sent,         \* how many messages each producer has sent
          inits,        \* how often Init has been called
          accepted,     \* history: the messages Send accepted, in order
          processed     \* history: the messages that have run, in order

ring    == <<sendIndex, readIndex, messages>>
config  == <<initialized, blocking, inits>>
history == <<accepted, processed>>
vars    == <<config, ring, mutex, pc, wpc, current, sent, history>>

Message   == Producers \X (1 .. MaxSends)
NoMessage == <<Free, 0>>
Slots     == 0 .. MaxMessages - 1

\* max_messages_: a blocking queue has two slots, whatever was asked for.
RingSize == IF blocking THEN 2 ELSE MaxMessages

\* The next index of the ring.  (Mutant: the wrap comes one index late.)
LateAfter(i) == IF i = RingSize THEN 0 ELSE i + 1
After(i)     == IF i + 1 = RingSize THEN 0 ELSE i + 1

\* The number of messages in the ring, and the slot of the k-th of them.
Count   == IF sendIndex >= readIndex THEN sendIndex - readIndex
                                     ELSE sendIndex + RingSize - readIndex
Slot(k) == IF readIndex + k >= RingSize THEN readIndex + k - RingSize
                                        ELSE readIndex + k

\* Empty when the indices meet, full one message before they would meet
\* again.  (Mutant: no slot is kept unused.)
Empty     == readIndex = sendIndex
NeverFull == Count = RingSize
Full      == After(sendIndex) = readIndex

ProducerLabels == {"idle", "lock", "test", "waitSpace", "waitDone", "return"}
OwnerLabels    == {"shutLock", "shutNotify", "shutJoin"}
WorkerLabels   == {"none", "lock", "loop", "asleep", "call", "relock"}

\* Condvar::notify_one on done_event_: one of its waiters, if there is any,
\* returns from its wait; it then has to take the mutex again.  (Mutant: the
\* notification is forgotten.)
DoneWaiters == {p \in Producers : pc[p] \in {"waitSpace", "waitDone"}}
Woken(p)    == IF pc[p] = "waitSpace" THEN "lock" ELSE "return"
NotifyNobody == UNCHANGED pc
NotifyDone  == \/ DoneWaiters = {} /\ UNCHANGED pc
               \/ \E p \in DoneWaiters : pc' = [pc EXCEPT ![p] = Woken(p)]

\* Condvar::notify_one on send_event_, whose only waiter is the worker.
\* (Mutant: the notification is forgotten.)
NotifyLost == UNCHANGED wpc
NotifySend == wpc' = IF wpc = "asleep" THEN "lock" ELSE wpc

Goto(p, label) == pc' = [pc EXCEPT ![p] = label]

Init ==
    /\ initialized = FALSE /\ blocking = FALSE /\ inits = 0
    /\ sendIndex = 0 /\ readIndex = 0
    /\ messages = [i \in Slots |-> NoMessage]
    /\ mutex = Free
    /\ pc = [p \in Producers |-> "idle"]
    /\ wpc = "none" /\ current = NoMessage
    /\ sent = [p \in Producers |-> 0]
    /\ accepted = <<>> /\ processed = <<>>
-----------------------------------------------------------------------------
\* ipcMessageQueue::Init.  A synchronous queue is never initialised; on an
\* initialised one the program quits.
QueueInit(mode) ==
    /\ pc[Owner] = "idle" /\ inits < MaxInits
    /\ inits' = inits + 1
    /\ IF mode = "sync"
       THEN UNCHANGED <<initialized, blocking, ring, wpc>>
       ELSE /\ ~initialized
            /\ initialized' = TRUE
            /\ blocking' = (mode = "blocking")
            /\ sendIndex' = 0 /\ readIndex' = 0
            /\ messages' = [i \in Slots |-> NoMessage]
            /\ wpc' = "lock"
    /\ UNCHANGED <<mutex, pc, current, sent, history>>

ShuttingDown == pc[Owner] \in OwnerLabels

\* Send reads initialized_ without the mutex.  Without a worker the callback
\* runs in the sender.
SendBegin(p) ==
    /\ pc[p] = "idle" /\ sent[p] < MaxSends
    /\ ShuttingDown => SendsDuringShutdown
    /\ sent' = [sent EXCEPT ![p] = @ + 1]
    /\ IF initialized
       THEN Goto(p, "lock") /\ UNCHANGED history
       ELSE /\ accepted' = Append(accepted, <<p, sent'[p]>>)
            /\ processed' = Append(processed, <<p, sent'[p]>>)
            /\ UNCHANGED pc
    /\ UNCHANGED <<config, ring, mutex, wpc, current>>

\* The mutex is taken, at the start of Send or on the way out of a wait.
SendLock(p) ==
    /\ pc[p] = "lock" /\ mutex = Free
    /\ mutex' = p
    /\ Goto(p, "test")
    /\ UNCHANGED <<config, ring, wpc, current, sent, history>>

SendWaitSpace(p) ==
    /\ pc[p] = "test" /\ Full
    /\ mutex' = Free
    /\ Goto(p, "waitSpace")
    /\ UNCHANGED <<config, ring, wpc, current, sent, history>>

\* The message is stored; the worker is notified if the ring was empty.  A
\* blocking queue then waits, once, for done_event_.
SendStore(p) ==
    /\ pc[p] = "test" /\ ~Full
    /\ sendIndex' = After(sendIndex)
    /\ messages' = [messages EXCEPT ![sendIndex'] = <<p, sent[p]>>]
    /\ accepted' = Append(accepted, <<p, sent[p]>>)
    /\ IF Empty THEN NotifySend ELSE UNCHANGED wpc
    /\ mutex' = Free
    /\ Goto(p, IF blocking THEN "waitDone" ELSE "idle")
    /\ UNCHANGED <<config, readIndex, current, sent, processed>>

\* A blocking Send returns: its wait takes the mutex, its lock releases it.
SendReturn(p) ==
    /\ pc[p] = "return" /\ mutex = Free
    /\ Goto(p, "idle")
    /\ UNCHANGED <<config, ring, mutex, wpc, current, sent, history>>
-----------------------------------------------------------------------------
\* Shutdown is called when no other thread is inside Send: the queue's users
\* send to it and shut it down from one thread.
ShutdownBegin ==
    /\ pc[Owner] = "idle" /\ initialized
    /\ \A p \in Producers : pc[p] = "idle"
    /\ Goto(Owner, "shutLock")
    /\ UNCHANGED <<config, ring, mutex, wpc, current, sent, history>>

ShutdownLock ==
    /\ pc[Owner] = "shutLock" /\ mutex = Free
    /\ initialized' = FALSE
    /\ Goto(Owner, "shutNotify")
    /\ UNCHANGED <<blocking, inits, ring, mutex, wpc, current, sent, history>>

\* send_event_ is signalled after the mutex has been released.  (Mutant: it is
\* not signalled.)
ShutdownQuietly ==
    /\ pc[Owner] = "shutNotify"
    /\ Goto(Owner, "shutJoin")
    /\ UNCHANGED <<config, ring, mutex, wpc, current, sent, history>>

ShutdownNotify ==
    /\ pc[Owner] = "shutNotify"
    /\ NotifySend
    /\ Goto(Owner, "shutJoin")
    /\ UNCHANGED <<config, ring, mutex, current, sent, history>>

\* The worker has exited; the mutex and the condition variables are closed.
ShutdownJoin ==
    /\ pc[Owner] = "shutJoin" /\ wpc = "none"
    /\ Goto(Owner, "idle")
    /\ messages' = [i \in Slots |-> NoMessage]
    /\ UNCHANGED <<config, sendIndex, readIndex, mutex, wpc, current, sent, history>>
-----------------------------------------------------------------------------
\* MessageLoop takes the mutex, on entry or on the way out of a wait.
WorkerLock ==
    /\ wpc = "lock" /\ mutex = Free
    /\ mutex' = Worker /\ wpc' = "loop"
    /\ UNCHANGED <<config, ring, pc, current, sent, history>>

\* (Mutant: the worker does not look at the ring before it quits.)
HastyExit ==
    /\ wpc = "loop" /\ ~initialized
    /\ mutex' = Free /\ wpc' = "none"
    /\ UNCHANGED <<config, ring, pc, current, sent, history>>

WorkerExit ==
    /\ wpc = "loop" /\ Empty /\ ~initialized
    /\ mutex' = Free /\ wpc' = "none"
    /\ UNCHANGED <<config, ring, pc, current, sent, history>>

WorkerSleep ==
    /\ wpc = "loop" /\ Empty /\ initialized
    /\ mutex' = Free /\ wpc' = "asleep"
    /\ UNCHANGED <<config, ring, pc, current, sent, history>>

\* (Mutant: the message is read before the index moves.)
StaleTake ==
    /\ wpc = "loop" /\ ~Empty
    /\ readIndex' = After(readIndex)
    /\ current' = messages[readIndex]
    /\ mutex' = Free /\ wpc' = "call"
    /\ UNCHANGED <<config, sendIndex, messages, pc, sent, history>>

WorkerTake ==
    /\ wpc = "loop" /\ ~Empty
    /\ readIndex' = After(readIndex)
    /\ current' = messages[readIndex']
    /\ mutex' = Free /\ wpc' = "call"
    /\ UNCHANGED <<config, sendIndex, messages, pc, sent, history>>

\* The callback runs with the mutex released.
WorkerCall ==
    /\ wpc = "call"
    /\ processed' = Append(processed, current)
    /\ wpc' = "relock"
    /\ UNCHANGED <<config, ring, mutex, pc, current, sent, accepted>>

WorkerRelock ==
    /\ wpc = "relock" /\ mutex = Free
    /\ mutex' = Worker /\ wpc' = "loop"
    /\ NotifyDone
    /\ UNCHANGED <<config, ring, current, sent, history>>
-----------------------------------------------------------------------------
\* A wait on a condition variable may end without a notification.
SpuriousWakeup ==
    /\ SpuriousWakeups
    /\ \/ \E p \in DoneWaiters : Goto(p, Woken(p)) /\ UNCHANGED wpc
       \/ wpc = "asleep" /\ wpc' = "lock" /\ UNCHANGED pc
    /\ UNCHANGED <<config, ring, mutex, current, sent, history>>

SendNext(p) == \/ SendBegin(p) \/ SendLock(p) \/ SendWaitSpace(p)
               \/ SendStore(p) \/ SendReturn(p)

ShutdownNext == ShutdownBegin \/ ShutdownLock \/ ShutdownNotify \/ ShutdownJoin

WorkerNext == \/ WorkerLock \/ WorkerExit \/ WorkerSleep
              \/ WorkerTake \/ WorkerCall \/ WorkerRelock

Next == \/ \E mode \in Modes : QueueInit(mode)
        \/ \E p \in Producers : SendNext(p)
        \/ ShutdownNext
        \/ WorkerNext
        \/ SpuriousWakeup

Spec == Init /\ [][Next]_vars

\* Every thread that can take a step eventually does: the threads are the
\* operating system's, and nobody is obliged to call Send, Init or Shutdown.
Fairness ==
    /\ WF_vars(WorkerNext)
    /\ WF_vars(ShutdownLock \/ ShutdownNotify \/ ShutdownJoin)
    /\ \A p \in Producers :
          WF_vars(SendLock(p) \/ SendWaitSpace(p) \/ SendStore(p) \/ SendReturn(p))

FairSpec == Spec /\ Fairness
-----------------------------------------------------------------------------
\* Every variable has its type; the indices stay inside the ring.
FlagsOK == initialized \in BOOLEAN /\ blocking \in BOOLEAN

TypeOK ==
    /\ FlagsOK
    /\ inits \in 0 .. MaxInits
    /\ sendIndex \in 0 .. RingSize - 1 /\ readIndex \in 0 .. RingSize - 1
    /\ messages \in [Slots -> Message \cup {NoMessage}]
    /\ mutex \in Producers \cup {Worker, Free}
    /\ pc \in [Producers -> ProducerLabels \cup OwnerLabels]
    /\ \A p \in Producers : pc[p] \in OwnerLabels => p = Owner
    /\ wpc \in WorkerLabels
    /\ current \in Message \cup {NoMessage}
    /\ sent \in [Producers -> 0 .. MaxSends]
    /\ accepted \in Seq(Message) /\ processed \in Seq(Message \cup {NoMessage})

\* The messages Send accepted and the worker has not run yet, oldest first:
\* the one it is running, then those in the ring from read_index_ + 1 on.
InFlight == IF wpc = "call" THEN 1 ELSE 0

\* The ring and the worker's copy hold exactly the accepted messages that
\* have not run, in order: no slot is overwritten before it is read, none is
\* read twice, no message is skipped when an index wraps.
RingContents ==
    /\ Len(accepted) = Len(processed) + InFlight + Count
    /\ wpc = "call" => current = accepted[Len(processed) + 1]
    /\ \A k \in 1 .. Count :
          messages[Slot(k)] = accepted[Len(processed) + InFlight + k]

\* The worker never sleeps through a message or through Shutdown: when it
\* waits on send_event_ the ring is empty and either the queue is still
\* initialised or Shutdown's notification is still to come.
NoLostSendWakeup ==
    wpc = "asleep" => Empty /\ (initialized \/ pc[Owner] = "shutNotify")

\* A producer waiting for space is never forgotten: there is a message whose
\* processing will notify done_event_, or a producer already woken by it.
NoLostSpaceWakeup ==
    (~blocking /\ \E p \in Producers : pc[p] = "waitSpace") =>
        \/ ~Empty
        \/ wpc \in {"call", "relock"}
        \/ \E q \in Producers : pc[q] \in {"lock", "test"}

\* "Process all pending messages before quitting": when the worker thread is
\* gone nothing that was accepted is still waiting to run.
DrainedOnExit == wpc = "none" => Empty /\ accepted = processed

\* Every accepted message is where it will be found until it runs, from Send
\* through the ring and the worker to the end of the worker.
NothingIsLost == RingContents /\ DrainedOnExit

\* Nobody sleeps through what it waits for, on either condition variable.
NoLostWakeup == NoLostSendWakeup /\ NoLostSpaceWakeup

\* "If blocking, wait for the event to be processed": a Send that returned
\* from a blocking queue returned after its message ran.
BlockingSendReturnsProcessed ==
    \A p \in Producers :
        (blocking /\ pc[p] = "idle" /\ sent[p] > 0) =>
            \E i \in 1 .. Len(processed) : processed[i] = <<p, sent[p]>>

\* The queue is the FIFO worker its header promises; the slot freed when the
\* worker takes a message makes MaxMessages of them outstanding at most.
Abstract == INSTANCE FifoWorker WITH Messages <- Message, Bound <- MaxMessages
Fifo     == Abstract!Spec

\* If spurious wakeups stop, every accepted message is eventually run, and
\* every Send and every Shutdown that starts eventually returns, unless the
\* queue is a blocking one (where a sender can take the notification another
\* one waits for).
WakeupsStop    == <>[][~SpuriousWakeup]_vars
Accepted(p, n) == \E i \in 1 .. Len(accepted) : accepted[i] = <<p, n>>
Ran(p, n)      == \E i \in 1 .. Len(processed) : processed[i] = <<p, n>>
EveryMessageRuns == WakeupsStop =>
    \A p \in Producers, n \in 1 .. MaxSends : Accepted(p, n) ~> Ran(p, n)
EveryCallReturns == WakeupsStop =>
    \A p \in Producers : pc[p] # "idle" ~> pc[p] = "idle" \/ blocking

\* Both: no thread that began something is left waiting for ever.
Progress == EveryMessageRuns /\ EveryCallReturns
=============================================================================
