------------------------- MODULE MessageQueueProofs -------------------------
(***************************************************************************)
(* Theorems about MessageQueue, for every set of producers, ring size and  *)
(* bound, with and without spurious wakeups.                               *)
(***************************************************************************)
EXTENDS MessageQueue, SequenceTheorems, TLAPS

\* The mutex is held exactly by the thread inside its critical section.
MutexInv ==
    /\ \A p \in Producers : pc[p] = "test" <=> mutex = p
    /\ wpc = "loop" <=> mutex = Worker

\* A thread that is inside Send has a message to send.
SendingInv ==
    \A p \in Producers :
        pc[p] \in {"lock", "test", "waitSpace", "waitDone", "return"} => sent[p] > 0

\* The worker lives from Init to the end of Shutdown.
WorkerInv ==
    /\ pc[Owner] = "shutLock" => initialized
    /\ pc[Owner] \in {"shutNotify", "shutJoin"} => ~initialized
    /\ initialized => wpc # "none"
    /\ ~initialized /\ pc[Owner] \notin {"shutNotify", "shutJoin"} => wpc = "none"

\* Nobody is inside Send while Shutdown runs or once the queue is closed.
QuietInv ==
    ShuttingDown \/ ~initialized =>
        \A p \in Producers : pc[p] \in {"idle"} \cup OwnerLabels

\* What has run is a prefix of what was accepted.
PrefixInv ==
    /\ Len(processed) <= Len(accepted)
    /\ \A i \in 1 .. Len(processed) : processed[i] = accepted[i]

\* What the ring, the worker's copy and the two histories have to do with
\* each other; and the life of the worker, and the silence around Shutdown.
DataInv    == RingContents /\ PrefixInv /\ DrainedOnExit
ControlInv == WorkerInv /\ QuietInv

\* The inductive invariant.
IInv ==
    /\ TypeOK
    /\ SendingInv
    /\ ControlInv
    /\ MutexInv
    /\ DataInv
    /\ NoLostSendWakeup

-----------------------------------------------------------------------------
\* Type correctness needs that a sender has counted the message it stores.
LEMMA TypeInit == Init => TypeOK /\ SendingInv
<1> USE QueueAssumption
<1> SUFFICES ASSUME Init PROVE TypeOK /\ SendingInv
  OBVIOUS
<1>1. FlagsOK
  BY Zenon DEF Init, FlagsOK
<1>2. messages \in [Slots -> Message \cup {NoMessage}] /\ pc = [p \in Producers |-> "idle"]
  BY DEF Init
<1>3. sent \in [Producers -> 0 .. MaxSends] /\ accepted \in Seq(Message) /\ processed \in Seq(Message \cup {NoMessage})
  BY DEF Init
<1>4. sendIndex \in 0 .. RingSize - 1 /\ readIndex \in 0 .. RingSize - 1
  BY DEF Init, RingSize
<1>5. pc \in [Producers -> ProducerLabels \cup OwnerLabels]
  BY <1>2 DEF ProducerLabels
<1>6. \A p \in Producers : pc[p] \in OwnerLabels => p = Owner
  BY <1>2 DEF OwnerLabels
<1>7. inits \in 0 .. MaxInits /\ wpc \in WorkerLabels
      /\ mutex \in Producers \cup {Worker, Free} /\ current \in Message \cup {NoMessage}
  BY DEF Init, WorkerLabels
<1>8. TypeOK
  BY <1>1, <1>2, <1>3, <1>4, <1>5, <1>6, <1>7 DEF TypeOK
<1>9. SendingInv
  BY DEF Init, SendingInv
<1> QED BY <1>8, <1>9

\* Only Init and Shutdown write the flags.
LEMMA FlagsStep == FlagsOK /\ [Next]_vars => FlagsOK'
<1> SUFFICES ASSUME FlagsOK, [Next]_vars PROVE FlagsOK'
  OBVIOUS
<1> USE DEF FlagsOK, config
<1>1. ASSUME NEW mode \in Modes, QueueInit(mode) PROVE FlagsOK'
  BY <1>1, Zenon DEF QueueInit
<1>2. ASSUME ShutdownLock PROVE FlagsOK'
  BY <1>2, Zenon DEF ShutdownLock
<1>3. ASSUME NEW p \in Producers, SendNext(p) PROVE FlagsOK'
  BY <1>3, Zenon DEF SendNext, SendBegin, SendLock, SendWaitSpace, SendStore, SendReturn
<1>4. ASSUME ShutdownBegin \/ ShutdownNotify \/ ShutdownJoin PROVE FlagsOK'
  BY <1>4, Zenon DEF ShutdownBegin, ShutdownNotify, ShutdownJoin
<1>5. ASSUME WorkerNext PROVE FlagsOK'
  BY <1>5, Zenon DEF WorkerNext, WorkerLock, WorkerExit, WorkerSleep, WorkerTake, WorkerCall, WorkerRelock
<1>6. ASSUME SpuriousWakeup \/ UNCHANGED vars PROVE FlagsOK'
  BY <1>6, Zenon DEF SpuriousWakeup, vars
<1> QED
  BY <1>1, <1>2, <1>3, <1>4, <1>5, <1>6, Zenon DEF Next, ShutdownNext

LEMMA TypeStep == TypeOK /\ SendingInv /\ [Next]_vars => TypeOK' /\ SendingInv'
<1> SUFFICES ASSUME TypeOK, SendingInv, [Next]_vars PROVE TypeOK' /\ SendingInv'
  OBVIOUS
<1>0. FlagsOK'
  BY FlagsStep DEF TypeOK
<1> USE QueueAssumption, <1>0 DEF TypeOK, SendingInv, RingSize,
        ProducerLabels, OwnerLabels, WorkerLabels, Goto, config, ring, history
<1>1. ASSUME NEW mode \in Modes, QueueInit(mode) PROVE TypeOK' /\ SendingInv'
  <2>1. CASE mode = "sync"
    BY <1>1, <2>1 DEF QueueInit
  <2>2. CASE mode # "sync"
    <3>1. messages' \in [Slots -> Message \cup {NoMessage}]
      BY <1>1, <2>2 DEF QueueInit
    <3>2. sendIndex' = 0 /\ readIndex' = 0 /\ wpc' = "lock" /\ inits' \in 0 .. MaxInits
      BY <1>1, <2>2 DEF QueueInit
    <3> QED BY <1>1, <3>1, <3>2 DEF QueueInit
  <2> QED BY <2>1, <2>2
<1>2. ASSUME NEW p \in Producers, SendBegin(p) PROVE TypeOK' /\ SendingInv'
  <2>1. sent'[p] \in 1 .. MaxSends /\ sent' \in [Producers -> 0 .. MaxSends]
    BY <1>2 DEF SendBegin
  <2>2. <<p, sent'[p]>> \in Message
    BY <2>1 DEF Message
  <2>3. accepted' \in Seq(Message) /\ processed' \in Seq(Message \cup {NoMessage})
    <3>1. CASE initialized
      BY <1>2, <3>1 DEF SendBegin
    <3>2. CASE ~initialized
      <4>1. /\ accepted' = Append(accepted, <<p, sent'[p]>>)
            /\ processed' = Append(processed, <<p, sent'[p]>>)
        BY <1>2, <3>2 DEF SendBegin
      <4>2. Append(accepted, <<p, sent'[p]>>) \in Seq(Message)
        BY <2>2, AppendProperties
      <4>3. Append(processed, <<p, sent'[p]>>) \in Seq(Message \cup {NoMessage})
        BY <2>2, AppendProperties
      <4> QED BY <4>1, <4>2, <4>3
    <3> QED BY <3>1, <3>2
  <2>4. pc' = pc \/ pc' = [pc EXCEPT ![p] = "lock"]
    BY <1>2 DEF SendBegin
  <2>5. UNCHANGED <<inits, sendIndex, readIndex, messages, blocking, mutex, wpc, current>>
    BY <1>2 DEF SendBegin
  <2>6. SendingInv'
    BY <1>2, <2>1, <2>4 DEF SendBegin
  <2>7. /\ pc' \in [Producers -> ProducerLabels \cup OwnerLabels]
        /\ \A q \in Producers : pc'[q] \in OwnerLabels => q = Owner
    BY <2>4
  <2> QED BY <2>1, <2>3, <2>5, <2>6, <2>7
<1>3. ASSUME NEW p \in Producers, SendLock(p) PROVE TypeOK' /\ SendingInv'
  BY <1>3 DEF SendLock
<1>4. ASSUME NEW p \in Producers, SendWaitSpace(p) PROVE TypeOK' /\ SendingInv'
  BY <1>4 DEF SendWaitSpace
<1>5. ASSUME NEW p \in Producers, SendStore(p) PROVE TypeOK' /\ SendingInv'
  <2>1. <<p, sent[p]>> \in Message
    BY <1>5 DEF SendStore, Message
  <2>2. sendIndex' \in 0 .. RingSize - 1 /\ accepted' \in Seq(Message)
    BY <1>5, <2>1 DEF SendStore, After
  <2> QED BY <1>5, <2>1, <2>2 DEF SendStore, Slots, NotifySend
<1>6. ASSUME NEW p \in Producers, SendReturn(p) PROVE TypeOK' /\ SendingInv'
  BY <1>6 DEF SendReturn
<1>7. ASSUME ShutdownBegin PROVE TypeOK' /\ SendingInv'
  BY <1>7 DEF ShutdownBegin
<1>8. ASSUME ShutdownLock PROVE TypeOK' /\ SendingInv'
  BY <1>8 DEF ShutdownLock
<1>9. ASSUME ShutdownNotify PROVE TypeOK' /\ SendingInv'
  BY <1>9 DEF ShutdownNotify, NotifySend
<1>10. ASSUME ShutdownJoin PROVE TypeOK' /\ SendingInv'
  BY <1>10 DEF ShutdownJoin
<1>11. ASSUME WorkerLock \/ WorkerExit \/ WorkerSleep PROVE TypeOK' /\ SendingInv'
  BY <1>11 DEF WorkerLock, WorkerExit, WorkerSleep
<1>12. ASSUME WorkerTake PROVE TypeOK' /\ SendingInv'
  BY <1>12 DEF WorkerTake, After, Slots
<1>13. ASSUME WorkerCall PROVE TypeOK' /\ SendingInv'
  BY <1>13 DEF WorkerCall
<1>14. ASSUME WorkerRelock PROVE TypeOK' /\ SendingInv'
  BY <1>14 DEF WorkerRelock, NotifyDone, DoneWaiters, Woken
<1>15. ASSUME SpuriousWakeup PROVE TypeOK' /\ SendingInv'
  BY <1>15 DEF SpuriousWakeup, DoneWaiters, Woken
<1>16. CASE UNCHANGED vars
  BY <1>16 DEF vars
<1> QED
  BY <1>1, <1>2, <1>3, <1>4, <1>5, <1>6, <1>7, <1>8, <1>9, <1>10, <1>11, <1>12,
     <1>13, <1>14, <1>15, <1>16
  DEF Next, SendNext, ShutdownNext, WorkerNext

\* Every reachable state of every queue is well typed; in particular the two
\* indices stay inside the ring.
THEOREM TypeCorrect == Spec => []TypeOK
<1>1. Spec => [](TypeOK /\ SendingInv)
  BY TypeInit, TypeStep, PTL DEF Spec
<1> QED BY <1>1, PTL
-----------------------------------------------------------------------------
\* The remaining theorems are about queues used as the program uses them: no
\* Send starts while Shutdown runs.
Serial == ~SendsDuringShutdown

LEMMA MutexStep == ASSUME TypeOK, WorkerInv, MutexInv, [Next]_vars PROVE MutexInv'
<1> USE QueueAssumption DEF TypeOK, MutexInv, Goto, ring, config, history
<1>1. ASSUME NEW mode \in Modes, QueueInit(mode) PROVE MutexInv'
  <2>1. UNCHANGED <<pc, mutex>>
    BY <1>1 DEF QueueInit
  <2>2. CASE mode = "sync"
    BY <1>1, <2>1, <2>2 DEF QueueInit
  <2>3. CASE mode # "sync"
    <3>1. wpc = "none" /\ wpc' = "lock"
      BY <1>1, <2>3 DEF QueueInit, WorkerInv
    <3> QED BY <2>1, <3>1
  <2> QED BY <2>2, <2>3
<1>2. ASSUME NEW p \in Producers, SendNext(p) PROVE MutexInv'
  <2>1. CASE SendBegin(p)
    <3>1. pc' = pc \/ pc' = [pc EXCEPT ![p] = "lock"]
      BY <2>1 DEF SendBegin
    <3> QED BY <2>1, <3>1 DEF SendBegin
  <2>2. CASE SendLock(p)
    BY <2>2 DEF SendLock
  <2>3. CASE SendWaitSpace(p)
    BY <2>3 DEF SendWaitSpace
  <2>4. CASE SendStore(p)
    BY <2>4 DEF SendStore, NotifySend
  <2>5. CASE SendReturn(p)
    BY <2>5 DEF SendReturn
  <2> QED BY <1>2, <2>1, <2>2, <2>3, <2>4, <2>5 DEF SendNext
<1>3. ASSUME ShutdownNext PROVE MutexInv'
  BY <1>3 DEF ShutdownNext, ShutdownBegin, ShutdownLock, ShutdownNotify, ShutdownJoin, NotifySend
<1>4. ASSUME WorkerNext PROVE MutexInv'
  <2>1. CASE WorkerRelock
    BY <2>1 DEF WorkerRelock, NotifyDone, DoneWaiters, Woken
  <2>2. CASE ~WorkerRelock
    BY <1>4, <2>2 DEF WorkerNext, WorkerLock, WorkerExit, WorkerSleep, WorkerTake, WorkerCall
  <2> QED BY <2>1, <2>2
<1>5. ASSUME SpuriousWakeup PROVE MutexInv'
  <2>1. CASE \E p \in DoneWaiters : Goto(p, Woken(p)) /\ UNCHANGED wpc
    BY <1>5, <2>1 DEF SpuriousWakeup, DoneWaiters, Woken
  <2>2. CASE wpc = "asleep" /\ wpc' = "lock" /\ UNCHANGED pc
    BY <1>5, <2>2 DEF SpuriousWakeup
  <2> QED BY <1>5, <2>1, <2>2 DEF SpuriousWakeup
<1>6. CASE UNCHANGED vars
  BY <1>6 DEF vars
<1> QED
  BY <1>1, <1>2, <1>3, <1>4, <1>5, <1>6 DEF Next

LEMMA ControlStep ==
    ASSUME Serial, TypeOK, ControlInv, [Next]_vars PROVE ControlInv'
<1> USE QueueAssumption DEF Serial, TypeOK, ControlInv, WorkerInv, QuietInv, Goto,
        ring, config, history, OwnerLabels, ShuttingDown
<1>1. ASSUME NEW mode \in Modes, QueueInit(mode) PROVE ControlInv'
  <2>1. CASE mode = "sync"
    BY <1>1, <2>1 DEF QueueInit
  <2>2. CASE mode # "sync"
    BY <1>1, <2>2 DEF QueueInit
  <2> QED BY <2>1, <2>2
<1>2. ASSUME NEW p \in Producers, SendNext(p) PROVE ControlInv'
  <2>1. CASE SendBegin(p)
    <3>1. CASE initialized
      BY <2>1, <3>1 DEF SendBegin
    <3>2. CASE ~initialized
      BY <2>1, <3>2 DEF SendBegin
    <3> QED BY <3>1, <3>2
  <2>2. CASE SendLock(p)
    BY <2>2 DEF SendLock
  <2>3. CASE SendWaitSpace(p)
    BY <2>3 DEF SendWaitSpace
  <2>4. CASE SendStore(p)
    BY <2>4 DEF SendStore, NotifySend
  <2>5. CASE SendReturn(p)
    BY <2>5 DEF SendReturn
  <2> QED BY <1>2, <2>1, <2>2, <2>3, <2>4, <2>5 DEF SendNext
<1>3. ASSUME ShutdownNext PROVE ControlInv'
  <2>1. CASE ShutdownBegin
    BY <2>1 DEF ShutdownBegin
  <2>2. CASE ShutdownLock
    BY <2>2 DEF ShutdownLock
  <2>3. CASE ShutdownNotify
    BY <2>3 DEF ShutdownNotify, NotifySend
  <2>4. CASE ShutdownJoin
    BY <2>4 DEF ShutdownJoin
  <2> QED BY <1>3, <2>1, <2>2, <2>3, <2>4 DEF ShutdownNext
<1>4. ASSUME WorkerNext PROVE ControlInv'
  <2>1. CASE WorkerRelock
    BY <2>1 DEF WorkerRelock, NotifyDone, DoneWaiters, Woken
  <2>2. CASE ~WorkerRelock
    BY <1>4, <2>2 DEF WorkerNext, WorkerLock, WorkerExit, WorkerSleep, WorkerTake, WorkerCall
  <2> QED BY <2>1, <2>2
<1>5. ASSUME SpuriousWakeup PROVE ControlInv'
  <2>1. CASE \E p \in DoneWaiters : Goto(p, Woken(p)) /\ UNCHANGED wpc
    BY <1>5, <2>1 DEF SpuriousWakeup, DoneWaiters, Woken
  <2>2. CASE wpc = "asleep" /\ wpc' = "lock" /\ UNCHANGED pc
    BY <1>5, <2>2 DEF SpuriousWakeup
  <2> QED BY <1>5, <2>1, <2>2 DEF SpuriousWakeup
<1>6. CASE UNCHANGED vars
  BY <1>6 DEF vars
<1> QED
  BY <1>1, <1>2, <1>3, <1>4, <1>5, <1>6 DEF Next

\* Arithmetic of the ring.
LEMMA RingFacts ==
    ASSUME TypeOK
    PROVE  /\ RingSize \in Nat /\ RingSize >= 2 /\ RingSize <= MaxMessages
           /\ Count \in 0 .. RingSize - 1
           /\ Empty <=> Count = 0
           /\ Full <=> Count = RingSize - 1
           /\ \A k \in 1 .. Count : Slot(k) \in 0 .. RingSize - 1
           /\ After(readIndex) = Slot(1) /\ After(sendIndex) = Slot(Count + 1)
           /\ \A k \in 1 .. Count : Slot(k) # After(sendIndex) \/ Full
<1>1. RingSize \in Nat /\ RingSize >= 2 /\ RingSize <= MaxMessages
  BY QueueAssumption DEF RingSize
<1>2. sendIndex \in 0 .. RingSize - 1 /\ readIndex \in 0 .. RingSize - 1
  BY DEF TypeOK
<1> HIDE DEF RingSize
<1> QED
  BY <1>1, <1>2 DEF Count, Empty, Full, After, Slot

\* Storing a message lengthens the ring by one slot, at its end.
LEMMA StoreRing ==
    ASSUME TypeOK, ~Full, sendIndex' = After(sendIndex), UNCHANGED <<readIndex, blocking>>
    PROVE  Count' = Count + 1 /\ \A k \in Nat : Slot(k)' = Slot(k)
<1>1. RingSize \in Nat /\ RingSize >= 2 /\ RingSize' = RingSize
  BY QueueAssumption DEF RingSize
<1>2. sendIndex \in 0 .. RingSize - 1 /\ readIndex \in 0 .. RingSize - 1
  BY DEF TypeOK
<1> HIDE DEF RingSize
<1> QED
  BY <1>1, <1>2 DEF Count, Full, After, Slot

\* Taking one drops the first slot.
LEMMA TakeRing ==
    ASSUME TypeOK, ~Empty, readIndex' = After(readIndex), UNCHANGED <<sendIndex, blocking>>
    PROVE  Count' = Count - 1 /\ \A k \in 1 .. Count' : Slot(k)' = Slot(k + 1)
<1>1. RingSize \in Nat /\ RingSize >= 2 /\ RingSize' = RingSize
  BY QueueAssumption DEF RingSize
<1>2. sendIndex \in 0 .. RingSize - 1 /\ readIndex \in 0 .. RingSize - 1
  BY DEF TypeOK
<1> HIDE DEF RingSize
<1> QED
  BY <1>1, <1>2 DEF Count, Empty, After, Slot

\* A step that leaves the data alone and moves the worker neither into nor
\* out of a callback nor to its exit keeps DataInv.
LEMMA DataFrame ==
    ASSUME DataInv, UNCHANGED <<ring, blocking, current, history>>,
           (wpc = "call") <=> (wpc' = "call"), wpc' = "none" => wpc = "none"
    PROVE  DataInv'
<1>1. UNCHANGED <<Count, InFlight, RingSize>>
  BY DEF ring, Count, InFlight, RingSize
<1>2. \A k \in Nat : Slot(k)' = Slot(k)
  BY <1>1 DEF ring, Slot
<1>3. RingContents'
  BY <1>1, <1>2 DEF DataInv, RingContents, ring, history, Slot
<1>4. PrefixInv' /\ DrainedOnExit'
  BY DEF DataInv, PrefixInv, DrainedOnExit, ring, history, Empty
<1> QED BY <1>3, <1>4 DEF DataInv

LEMMA DataSend ==
    ASSUME Serial, TypeOK, SendingInv, ControlInv, DataInv,
           NEW p \in Producers, SendNext(p)
    PROVE  DataInv'
<1> USE QueueAssumption DEF history, ring, config, Goto
<1>1. CASE SendBegin(p) /\ initialized
  BY <1>1, DataFrame DEF SendBegin
<1>2. CASE SendBegin(p) /\ ~initialized
  <2> DEFINE m == <<p, sent'[p]>>
  <2>1. wpc = "none"
    BY <1>2 DEF SendBegin, ControlInv, WorkerInv, Serial, ShuttingDown, OwnerLabels
  <2>2. accepted = processed /\ Empty /\ accepted \in Seq(Message \cup {NoMessage})
    BY <2>1 DEF DataInv, DrainedOnExit, TypeOK
  <2>3. accepted' = Append(accepted, m) /\ processed' = Append(accepted, m)
    BY <1>2, <2>2 DEF SendBegin
  <2>4. UNCHANGED <<sendIndex, readIndex, messages, blocking, wpc>>
    BY <1>2 DEF SendBegin
  <2>5. Count' = 0 /\ InFlight' = 0 /\ Empty'
    BY <2>1, <2>2, <2>4 DEF TypeOK, Count, InFlight, Empty
  <2>6. accepted' = processed'
    BY <2>3
  <2>7. Len(accepted') \in Nat
    BY <2>2, <2>3, AppendProperties
  <2>8. RingContents'
    BY <2>1, <2>4, <2>5, <2>6, <2>7 DEF RingContents
  <2>9. PrefixInv' /\ DrainedOnExit'
    BY <2>5, <2>6, <2>7 DEF PrefixInv, DrainedOnExit
  <2> QED BY <2>8, <2>9 DEF DataInv
<1>3. CASE SendLock(p) \/ SendWaitSpace(p) \/ SendReturn(p)
  BY <1>3, DataFrame DEF SendLock, SendWaitSpace, SendReturn
<1>4. CASE SendStore(p)
  <2> DEFINE m == <<p, sent[p]>>
  <2> DEFINE n == Len(accepted)
  <2>1. accepted \in Seq(Message) /\ processed \in Seq(Message \cup {NoMessage})
        /\ n \in Nat /\ Len(processed) \in Nat /\ InFlight \in {0, 1}
    BY DEF TypeOK, InFlight
  <2>2. /\ Count' = Count + 1 /\ \A k \in Nat : Slot(k)' = Slot(k)
    BY <1>4, StoreRing DEF SendStore
  <2>3. /\ sendIndex' = Slot(Count + 1) /\ Count \in 0 .. RingSize - 1
        /\ \A k \in 1 .. Count : Slot(k) # sendIndex' /\ Slot(k) \in 0 .. RingSize - 1
        /\ Slot(Count + 1) \in Slots
    <3>1. sendIndex' \in Slots
      BY <1>4 DEF SendStore, After, RingSize, Slots, TypeOK
    <3> QED BY <1>4, <3>1, RingFacts DEF SendStore
  <2>4. messages' = [messages EXCEPT ![sendIndex'] = m] /\ messages \in [Slots -> Message \cup {NoMessage}]
    BY <1>4 DEF SendStore, TypeOK
  <2>5. messages'[Slot(Count + 1)] = m /\ \A k \in 1 .. Count : messages'[Slot(k)] = messages[Slot(k)]
    BY <2>3, <2>4
  <2>6. /\ accepted' = Append(accepted, m) /\ Len(accepted') = n + 1
        /\ accepted'[n + 1] = m /\ \A i \in 1 .. n : accepted'[i] = accepted[i]
    BY <1>4, <2>1, AppendProperties DEF SendStore
  <2>7. /\ UNCHANGED <<current, processed, readIndex, blocking>> /\ InFlight' = InFlight
        /\ (wpc' = "call" <=> wpc = "call") /\ (wpc' = "none" => wpc = "none")
    BY <1>4 DEF SendStore, InFlight, NotifySend
  <2>8. n = Len(processed) + InFlight + Count
    BY DEF DataInv, RingContents
  <2>9. wpc # "none"
    BY <1>4 DEF SendStore, ControlInv, WorkerInv, QuietInv, OwnerLabels
  <2>10. RingContents'
    <3>1. Len(accepted') = Len(processed') + InFlight' + Count'
      BY <2>1, <2>2, <2>3, <2>6, <2>7, <2>8
    <3>2. wpc' = "call" => current' = accepted'[Len(processed') + 1]
      <4> SUFFICES ASSUME wpc' = "call" PROVE current' = accepted'[Len(processed') + 1]
        OBVIOUS
      <4>1. InFlight = 1 /\ current = accepted[Len(processed) + 1]
        BY <2>7 DEF InFlight, DataInv, RingContents
      <4> QED BY <4>1, <2>1, <2>3, <2>6, <2>7, <2>8
    <3>3. ASSUME NEW k \in 1 .. Count'
          PROVE  messages'[Slot(k)'] = accepted'[Len(processed') + InFlight' + k]
      <4>1. Slot(k)' = Slot(k)
        BY <2>2, <2>3
      <4>2. CASE k = Count + 1
        BY <4>1, <4>2, <2>1, <2>3, <2>5, <2>6, <2>7, <2>8
      <4>3. CASE k \in 1 .. Count
        <5>1. messages[Slot(k)] = accepted[Len(processed) + InFlight + k]
          BY <4>3 DEF DataInv, RingContents
        <5>2. Len(processed) + InFlight + k \in 1 .. n
          BY <4>3, <2>1, <2>3, <2>8
        <5> QED BY <4>1, <4>3, <5>1, <5>2, <2>5, <2>6, <2>7
      <4> QED BY <4>2, <4>3, <2>2, <2>3
    <3> QED BY <3>1, <3>2, <3>3 DEF RingContents
  <2>11. PrefixInv'
    BY <2>1, <2>6, <2>7 DEF DataInv, PrefixInv
  <2>12. DrainedOnExit'
    BY <2>7, <2>9 DEF DrainedOnExit
  <2> QED BY <2>10, <2>11, <2>12 DEF DataInv
<1> QED BY <1>1, <1>2, <1>3, <1>4 DEF SendNext

LEMMA DataInitShutdown ==
    ASSUME TypeOK, ControlInv, DataInv,
           ShutdownNext \/ SpuriousWakeup \/ \E mode \in Modes : QueueInit(mode)
    PROVE  DataInv'
<1> USE QueueAssumption DEF history, ring, config, Goto
<1>1. CASE ShutdownBegin \/ ShutdownLock
  BY <1>1, DataFrame DEF ShutdownBegin, ShutdownLock
<1>2. CASE ShutdownNotify
  BY <1>2, DataFrame DEF ShutdownNotify, NotifySend
<1>3. CASE ShutdownJoin
  <2>1. Count = 0 /\ accepted = processed /\ Empty
    BY <1>3 DEF ShutdownJoin, DataInv, DrainedOnExit, Empty, Count, TypeOK
  <2>2. Count' = 0 /\ Empty' /\ InFlight' = InFlight /\ wpc' = "none"
    BY <1>3, <2>1 DEF ShutdownJoin, Count, Empty, InFlight, TypeOK
  <2>3. UNCHANGED <<accepted, processed>>
    BY <1>3 DEF ShutdownJoin
  <2> QED BY <2>1, <2>2, <2>3 DEF DataInv, RingContents, PrefixInv, DrainedOnExit
<1>4. CASE SpuriousWakeup
  BY <1>4, DataFrame DEF SpuriousWakeup
<1>5. ASSUME NEW mode \in Modes, QueueInit(mode) PROVE DataInv'
  <2>1. CASE mode = "sync"
    BY <1>5, <2>1, DataFrame DEF QueueInit
  <2>2. CASE mode # "sync"
    <3>1. wpc = "none" /\ accepted = processed
      BY <1>5, <2>2 DEF QueueInit, ControlInv, WorkerInv, DataInv, DrainedOnExit
    <3>2. wpc' = "lock" /\ sendIndex' = 0 /\ readIndex' = 0 /\ UNCHANGED <<accepted, processed>>
      BY <1>5, <2>2 DEF QueueInit
    <3>3. Count' = 0 /\ InFlight' = 0 /\ Len(accepted) \in Nat
      BY <3>2 DEF Count, InFlight, TypeOK
    <3> QED BY <3>1, <3>2, <3>3 DEF DataInv, RingContents, PrefixInv, DrainedOnExit
  <2> QED BY <2>1, <2>2
<1> QED BY <1>1, <1>2, <1>3, <1>4, <1>5 DEF ShutdownNext

LEMMA DataWorker ==
    ASSUME TypeOK, DataInv, WorkerNext
    PROVE  DataInv'
<1> USE QueueAssumption DEF history, ring, config, Goto
<1>0. accepted \in Seq(Message) /\ processed \in Seq(Message \cup {NoMessage})
      /\ Len(accepted) \in Nat /\ Len(processed) \in Nat /\ Count \in Nat
  BY RingFacts DEF TypeOK
<1>1. CASE WorkerLock \/ WorkerSleep \/ WorkerRelock
  BY <1>1, DataFrame DEF WorkerLock, WorkerSleep, WorkerRelock
<1>2. CASE WorkerExit
  <2>1. Count = 0 /\ InFlight = 0
    BY <1>2, RingFacts DEF WorkerExit, InFlight
  <2>2. Len(accepted) = Len(processed) /\ \A i \in 1 .. Len(processed) : processed[i] = accepted[i]
    BY <1>0, <2>1 DEF DataInv, RingContents, PrefixInv
  <2>3. accepted = processed
    BY <1>0, <2>2, SeqEqual
  <2>4. UNCHANGED <<sendIndex, readIndex, messages, blocking, history>> /\ wpc' = "none" /\ Empty
    BY <1>2 DEF WorkerExit
  <2>5. Count' = 0 /\ InFlight' = 0 /\ Empty'
    BY <2>1, <2>4 DEF Count, InFlight, Empty, RingSize
  <2> QED BY <1>0, <2>2, <2>3, <2>4, <2>5 DEF DataInv, RingContents, PrefixInv, DrainedOnExit
<1>3. CASE WorkerTake
  <2>1. /\ Count' = Count - 1 /\ Count > 0 /\ \A k \in 1 .. Count' : Slot(k)' = Slot(k + 1)
        /\ After(readIndex) = Slot(1)
    BY <1>3, TakeRing, RingFacts DEF WorkerTake
  <2>2. /\ InFlight = 0 /\ InFlight' = 1 /\ wpc' = "call"
        /\ UNCHANGED <<messages, accepted, processed>> /\ current' = messages[Slot(1)]
    BY <1>3, <2>1 DEF WorkerTake, InFlight
  <2>3. current' = accepted'[Len(processed') + 1]
    BY <1>0, <2>1, <2>2 DEF DataInv, RingContents
  <2>4. ASSUME NEW k \in 1 .. Count'
        PROVE  messages'[Slot(k)'] = accepted'[Len(processed') + InFlight' + k]
    BY <1>0, <2>1, <2>2 DEF DataInv, RingContents
  <2>5. Len(accepted') = Len(processed') + InFlight' + Count'
    <3>1. Len(accepted) = Len(processed) + InFlight + Count /\ Count \in Int
      BY <1>0 DEF DataInv, RingContents
    <3>2. Len(processed) \in Int /\ Len(processed') = Len(processed) /\ Len(accepted') = Len(accepted)
      BY <1>0, <2>2
    <3> QED BY <3>1, <3>2, <2>1, <2>2
  <2>6. RingContents'
    BY <2>3, <2>4, <2>5 DEF RingContents
  <2>7. PrefixInv'
    BY <2>2 DEF DataInv, PrefixInv
  <2>8. DrainedOnExit'
    BY <2>2 DEF DrainedOnExit
  <2> QED BY <2>6, <2>7, <2>8 DEF DataInv
<1>4. CASE WorkerCall
  <2> DEFINE d == Len(processed)
  <2>1. InFlight = 1 /\ InFlight' = 0 /\ wpc' = "relock" /\ current = accepted[d + 1]
    BY <1>4 DEF WorkerCall, InFlight, DataInv, RingContents
  <2>2. UNCHANGED <<sendIndex, readIndex, messages, blocking, accepted>>
    BY <1>4 DEF WorkerCall
  <2>3. Count' = Count /\ \A k \in Nat : Slot(k)' = Slot(k)
    BY <2>2 DEF Count, Slot, RingSize
  <2>4. /\ Len(processed') = d + 1 /\ processed'[d + 1] = current
        /\ \A i \in 1 .. d : processed'[i] = processed[i]
    BY <1>0, <1>4, AppendProperties DEF WorkerCall, TypeOK
  <2>5. Len(accepted) = d + 1 + Count
    BY <2>1 DEF DataInv, RingContents
  <2>6. RingContents'
    <3>1. \A k \in 1 .. Count : messages[Slot(k)] = accepted[d + 1 + k]
      BY <1>0, <2>1 DEF DataInv, RingContents
    <3>2. \A k \in 1 .. Count : k \in Nat
      BY <1>0
    <3>3. Len(accepted') = Len(processed') + InFlight' + Count'
      BY <1>0, <2>1, <2>2, <2>3, <2>4, <2>5
    <3>4. wpc' # "call"
      BY <2>1
    <3>5. \A k \in 1 .. Count' :
             messages'[Slot(k)'] = accepted'[Len(processed') + InFlight' + k]
      BY <1>0, <2>1, <2>2, <2>3, <2>4, <3>1, <3>2
    <3> QED BY <3>3, <3>4, <3>5 DEF RingContents
  <2>7. PrefixInv'
    BY <1>0, <2>1, <2>2, <2>4, <2>5 DEF DataInv, PrefixInv
  <2>8. DrainedOnExit'
    BY <2>1 DEF DrainedOnExit
  <2> QED BY <2>6, <2>7, <2>8 DEF DataInv
<1> QED BY <1>1, <1>2, <1>3, <1>4 DEF WorkerNext

LEMMA WakeupStep ==
    ASSUME TypeOK, ControlInv, NoLostSendWakeup, [Next]_vars
    PROVE  NoLostSendWakeup'
<1> USE QueueAssumption DEF NoLostSendWakeup, history, ring, config, Goto, Empty, TypeOK
<1>1. ASSUME NEW mode \in Modes, QueueInit(mode) PROVE NoLostSendWakeup'
  <2>1. CASE mode = "sync"
    BY <1>1, <2>1 DEF QueueInit
  <2>2. CASE mode # "sync"
    <3>1. wpc' = "lock"
      BY <1>1, <2>2 DEF QueueInit
    <3> QED BY <3>1
  <2> QED BY <2>1, <2>2
<1>2. ASSUME NEW p \in Producers, SendNext(p) PROVE NoLostSendWakeup'
  <2>1. CASE SendBegin(p)
    <3>1. pc' = pc \/ pc' = [pc EXCEPT ![p] = "lock"]
      BY <2>1 DEF SendBegin
    <3>2. pc[p] = "idle" /\ UNCHANGED <<wpc, initialized, sendIndex, readIndex>>
      BY <2>1 DEF SendBegin
    <3> QED BY <3>1, <3>2
  <2>2. CASE SendLock(p)
    BY <2>2 DEF SendLock
  <2>3. CASE SendWaitSpace(p)
    BY <2>3 DEF SendWaitSpace
  <2>4. CASE SendStore(p)
    <3>1. wpc' # "asleep"
      BY <2>4 DEF SendStore, NotifySend
    <3> QED BY <3>1
  <2>5. CASE SendReturn(p)
    BY <2>5 DEF SendReturn
  <2> QED BY <1>2, <2>1, <2>2, <2>3, <2>4, <2>5 DEF SendNext
<1>3. ASSUME ShutdownNext PROVE NoLostSendWakeup'
  <2>1. CASE ShutdownBegin
    BY <2>1 DEF ShutdownBegin
  <2>2. CASE ShutdownLock
    BY <2>2 DEF ShutdownLock
  <2>3. CASE ShutdownNotify
    <3>1. wpc' # "asleep"
      BY <2>3 DEF ShutdownNotify, NotifySend
    <3> QED BY <3>1
  <2>4. CASE ShutdownJoin
    <3>1. wpc' # "asleep"
      BY <2>4 DEF ShutdownJoin
    <3> QED BY <3>1
  <2> QED BY <1>3, <2>1, <2>2, <2>3, <2>4 DEF ShutdownNext
<1>4. ASSUME WorkerNext PROVE NoLostSendWakeup'
  <2>1. CASE WorkerSleep
    BY <2>1 DEF WorkerSleep
  <2>2. CASE ~WorkerSleep
    <3>1. wpc' # "asleep"
      BY <1>4, <2>2 DEF WorkerNext, WorkerLock, WorkerExit, WorkerTake, WorkerCall, WorkerRelock
    <3> QED BY <3>1
  <2> QED BY <2>1, <2>2
<1>5. ASSUME SpuriousWakeup PROVE NoLostSendWakeup'
  <2>1. UNCHANGED <<initialized, sendIndex, readIndex>> /\ (wpc' = "asleep" => UNCHANGED wpc)
    BY <1>5 DEF SpuriousWakeup
  <2>2. pc[Owner] = "shutNotify" => pc'[Owner] = "shutNotify"
    <3>1. CASE \E p \in DoneWaiters : Goto(p, Woken(p)) /\ UNCHANGED wpc
      BY <1>5, <3>1 DEF SpuriousWakeup, DoneWaiters, Woken
    <3>2. CASE wpc = "asleep" /\ wpc' = "lock" /\ UNCHANGED pc
      BY <3>2
    <3> QED BY <1>5, <3>1, <3>2 DEF SpuriousWakeup
  <2> QED BY <2>1, <2>2
<1>6. CASE UNCHANGED vars
  BY <1>6 DEF vars
<1> QED
  BY <1>1, <1>2, <1>3, <1>4, <1>5, <1>6 DEF Next

LEMMA InvInit == Init => IInv
<1> SUFFICES ASSUME Init PROVE IInv
  OBVIOUS
<1> USE QueueAssumption DEF Init
<1>1. TypeOK /\ SendingInv
  BY TypeInit
<1>2. ControlInv
  BY DEF ControlInv, WorkerInv, QuietInv
<1>3. MutexInv
  BY DEF MutexInv
<1>4. Count = 0 /\ InFlight = 0
  BY DEF Count, InFlight
<1>5. DataInv
  BY <1>4 DEF DataInv, RingContents, PrefixInv, DrainedOnExit, Empty
<1>6. NoLostSendWakeup
  BY DEF NoLostSendWakeup
<1> QED BY <1>1, <1>2, <1>3, <1>5, <1>6 DEF IInv

LEMMA InvStep == ASSUME Serial, IInv, [Next]_vars PROVE IInv'
<1> USE DEF IInv
<1>1. TypeOK' /\ SendingInv'
  BY TypeStep
<1>2. ControlInv'
  BY ControlStep
<1>3. MutexInv'
  BY MutexStep DEF ControlInv
<1>4. DataInv'
  <2>1. ASSUME NEW p \in Producers, SendNext(p) PROVE DataInv'
    BY <2>1, DataSend
  <2>2. CASE UNCHANGED vars
    BY <2>2, DataFrame DEF vars, config
  <2> QED BY <2>1, <2>2, DataWorker, DataInitShutdown DEF Next
<1>5. NoLostSendWakeup'
  BY WakeupStep
<1> QED BY <1>1, <1>2, <1>3, <1>4, <1>5

LEMMA Invariant == ASSUME Serial PROVE Spec => []IInv
<1>1. IInv /\ [Next]_vars => IInv'
  BY InvStep
<1> QED BY InvInit, <1>1, PTL DEF Spec

\* The ring and the worker's copy hold exactly the accepted messages that have
\* not run, in the order of the Sends: ipcMessageQueue never overwrites a slot
\* the worker has not read, whatever the ring's size and the number of senders.
THEOREM RingIsExact == ASSUME Serial PROVE Spec => []RingContents
BY Invariant, PTL DEF IInv, DataInv

\* MessageLoop leaves its thread with nothing pending.
THEOREM ShutdownDrains == ASSUME Serial PROVE Spec => []DrainedOnExit
BY Invariant, PTL DEF IInv, DataInv

\* What was accepted is in the ring or in the worker's hands until it has run,
\* and has run when the worker leaves.
THEOREM NothingGetsLost == ASSUME Serial PROVE Spec => []NothingIsLost
BY RingIsExact, ShutdownDrains, PTL DEF NothingIsLost

\* The worker is never left waiting on send_event_ with a message in the ring
\* or with Shutdown waiting for it to exit.
THEOREM WorkerIsWoken == ASSUME Serial PROVE Spec => []NoLostSendWakeup
BY Invariant, PTL DEF IInv

\* Only a blocking queue has waiters for done_event_ other than for space.
DoneInv == \A p \in Producers : pc[p] \in {"waitDone", "return"} => blocking
SpaceInv == NoLostSpaceWakeup /\ DoneInv

LEMMA SpaceInit == Init => SpaceInv
BY DEF Init, SpaceInv, NoLostSpaceWakeup, DoneInv

\* A sender that begins to wait sees a full ring; one that stores a message
\* leaves a ring that is not empty; the worker takes a message before it can
\* notify, and wakes a sender that waits for space if there is one.
LEMMA SpaceStep == ASSUME Serial, IInv, SpaceInv, [Next]_vars PROVE SpaceInv'
<1> USE QueueAssumption DEF TypeOK, SpaceInv, NoLostSpaceWakeup, DoneInv, Goto,
        Empty, ring, config, history
<1>0. TypeOK /\ WorkerInv /\ QuietInv
  BY DEF IInv, ControlInv
<1>1. ASSUME NEW mode \in Modes, QueueInit(mode) PROVE SpaceInv'
  <2>1. CASE mode = "sync"
    BY <1>1, <2>1 DEF QueueInit
  <2>2. CASE mode # "sync"
    <3>1. \A p \in Producers : pc'[p] \in {"idle"} \cup OwnerLabels
      BY <1>0, <1>1, <2>2 DEF QueueInit, QuietInv
    <3> QED BY <3>1 DEF OwnerLabels
  <2> QED BY <2>1, <2>2
<1>2. ASSUME NEW p \in Producers, SendNext(p) PROVE SpaceInv'
  <2>1. CASE SendBegin(p)
    <3>1. pc' = pc \/ pc' = [pc EXCEPT ![p] = "lock"]
      BY <2>1 DEF SendBegin
    <3> QED BY <1>0, <2>1, <3>1 DEF SendBegin
  <2>2. CASE SendLock(p)
    BY <1>0, <2>2 DEF SendLock
  <2>3. CASE SendWaitSpace(p)
    <3>1. ~Empty
      BY <1>0, <2>3, RingFacts DEF SendWaitSpace
    <3> QED BY <1>0, <2>3, <3>1 DEF SendWaitSpace
  <2>4. CASE SendStore(p)
    <3>1. sendIndex' # readIndex'
      BY <2>4 DEF SendStore, Full
    <3>2. pc' = [pc EXCEPT ![p] = IF blocking THEN "waitDone" ELSE "idle"] /\ blocking' = blocking
      BY <2>4 DEF SendStore
    <3> QED BY <1>0, <3>1, <3>2
  <2>5. CASE SendReturn(p)
    BY <1>0, <2>5 DEF SendReturn
  <2> QED BY <1>2, <2>1, <2>2, <2>3, <2>4, <2>5 DEF SendNext
<1>3. ASSUME ShutdownNext PROVE SpaceInv'
  <2>1. CASE ShutdownBegin
    BY <1>0, <2>1 DEF ShutdownBegin
  <2>2. CASE ~ShutdownBegin
    <3>1. pc[Owner] \in OwnerLabels
      BY <1>3, <2>2 DEF ShutdownNext, ShutdownLock, ShutdownNotify, ShutdownJoin, OwnerLabels
    <3>2. \A p \in Producers : pc[p] \in {"idle"} \cup OwnerLabels
      BY <1>0, <3>1 DEF QuietInv, ShuttingDown
    <3>3. \A p \in Producers : pc'[p] \in {"idle"} \cup OwnerLabels
      BY <1>0, <1>3, <2>2, <3>2 DEF ShutdownNext, ShutdownLock, ShutdownNotify, ShutdownJoin, OwnerLabels
    <3> QED BY <3>3 DEF OwnerLabels
  <2> QED BY <2>1, <2>2
<1>4. ASSUME WorkerNext PROVE SpaceInv'
  <2>1. CASE WorkerRelock
    <3>1. CASE DoneWaiters = {} /\ UNCHANGED pc
      BY <1>0, <2>1, <3>1 DEF WorkerRelock, DoneWaiters
    <3>2. ASSUME NEW p \in DoneWaiters, pc' = [pc EXCEPT ![p] = Woken(p)] PROVE SpaceInv'
      BY <1>0, <2>1, <3>2 DEF WorkerRelock, DoneWaiters, Woken
    <3> QED BY <2>1, <3>1, <3>2 DEF WorkerRelock, NotifyDone
  <2>2. CASE WorkerTake \/ WorkerCall
    BY <1>0, <2>2 DEF WorkerTake, WorkerCall
  <2>3. CASE WorkerLock \/ WorkerExit \/ WorkerSleep
    BY <1>0, <2>3 DEF WorkerLock, WorkerExit, WorkerSleep
  <2> QED BY <1>4, <2>1, <2>2, <2>3 DEF WorkerNext
<1>5. ASSUME SpuriousWakeup PROVE SpaceInv'
  <2>1. ASSUME NEW p \in DoneWaiters, Goto(p, Woken(p)), UNCHANGED wpc PROVE SpaceInv'
    BY <1>0, <1>5, <2>1 DEF SpuriousWakeup, DoneWaiters, Woken
  <2>2. CASE wpc = "asleep" /\ wpc' = "lock" /\ UNCHANGED pc
    BY <1>0, <1>5, <2>2 DEF SpuriousWakeup
  <2> QED BY <1>5, <2>1, <2>2 DEF SpuriousWakeup
<1>6. CASE UNCHANGED vars
  BY <1>0, <1>6 DEF vars
<1> QED
  BY <1>1, <1>2, <1>3, <1>4, <1>5, <1>6 DEF Next

\* A producer that waits for space is never forgotten: notify_one on the one
\* condition variable is enough as long as the queue does not block.
THEOREM SpaceWaiterIsWoken == ASSUME Serial PROVE Spec => []NoLostSpaceWakeup
<1>1. IInv /\ SpaceInv /\ [Next]_vars => SpaceInv'
  BY SpaceStep
<1>2. SpaceInv => NoLostSpaceWakeup
  BY DEF SpaceInv
<1> QED BY Invariant, SpaceInit, <1>1, <1>2, PTL DEF Spec

\* No thread of the queue, worker or producer, sleeps through what it waits for.
THEOREM NobodySleepsOn == ASSUME Serial PROVE Spec => []NoLostWakeup
BY WorkerIsWoken, SpaceWaiterIsWoken, PTL DEF NoLostWakeup

\* A step of the queue is a step of the FIFO worker, or none.
LEMMA FifoStep ==
    ASSUME Serial, IInv, [Next]_vars
    PROVE  [Abstract!Next]_(Abstract!vars)
<1> USE QueueAssumption DEF Abstract!vars, history, Goto
<1>0. /\ accepted \in Seq(Message) /\ processed \in Seq(Message \cup {NoMessage})
      /\ Len(accepted) \in Nat /\ Len(processed) \in Nat
      /\ RingSize \in Nat /\ RingSize <= MaxMessages /\ Count \in 0 .. RingSize - 1
      /\ InFlight \in {0, 1} /\ Abstract!Outstanding = InFlight + Count
  <2>1. accepted \in Seq(Message) /\ processed \in Seq(Message \cup {NoMessage})
    BY DEF IInv, TypeOK
  <2>2. Len(accepted) \in Nat /\ Len(processed) \in Nat
    BY <2>1
  <2>3. RingSize \in Nat /\ RingSize <= MaxMessages /\ Count \in 0 .. RingSize - 1
    BY RingFacts DEF IInv
  <2>4. InFlight \in {0, 1}
    BY DEF InFlight
  <2>5. Len(accepted) = Len(processed) + InFlight + Count
    BY DEF IInv, DataInv, RingContents
  <2>6. Abstract!Outstanding = InFlight + Count
    BY <2>2, <2>3, <2>4, <2>5 DEF Abstract!Outstanding
  <2> QED BY <2>1, <2>2, <2>3, <2>4, <2>6
<1>1. ASSUME NEW p \in Producers, SendBegin(p) PROVE [Abstract!Next]_(Abstract!vars)
  <2>1. CASE initialized
    BY <1>1, <2>1 DEF SendBegin
  <2>2. CASE ~initialized
    <3> DEFINE m == <<p, sent'[p]>>
    <3>1. wpc = "none"
      BY <1>1, <2>2 DEF SendBegin, IInv, ControlInv, WorkerInv, Serial, ShuttingDown, OwnerLabels
    <3>2. Abstract!Outstanding = 0
      BY <1>0, <3>1 DEF IInv, DataInv, DrainedOnExit, Abstract!Outstanding
    <3>3. m \in Message
      BY <1>1 DEF SendBegin, Message, IInv, TypeOK
    <3>4. Abstract!RunInline(m)
      BY <1>1, <2>2, <3>2 DEF SendBegin, Abstract!RunInline
    <3> QED BY <3>3, <3>4 DEF Abstract!Next
  <2> QED BY <2>1, <2>2
<1>2. ASSUME NEW p \in Producers, SendStore(p) PROVE [Abstract!Next]_(Abstract!vars)
  <2> DEFINE m == <<p, sent[p]>>
  <2>1. m \in Message
    BY <1>2 DEF SendStore, Message, IInv, TypeOK, SendingInv
  <2>2. Count < RingSize - 1
    BY <1>0, <1>2, RingFacts DEF SendStore, IInv
  <2>3. Abstract!Outstanding < MaxMessages
    BY <1>0, <2>2
  <2>4. Abstract!Accept(m)
    BY <1>2, <2>3 DEF SendStore, Abstract!Accept
  <2> QED BY <2>1, <2>4 DEF Abstract!Next
<1>3. ASSUME WorkerCall PROVE [Abstract!Next]_(Abstract!vars)
  <2>1. InFlight = 1 /\ current = accepted[Len(processed) + 1]
    BY <1>3 DEF WorkerCall, InFlight, IInv, DataInv, RingContents
  <2>2. Abstract!Outstanding > 0
    BY <1>0, <2>1
  <2>3. Abstract!Process
    BY <1>3, <2>1, <2>2 DEF WorkerCall, Abstract!Process
  <2> QED BY <2>3 DEF Abstract!Next
<1>4. ASSUME NEW p \in Producers, SendLock(p) \/ SendWaitSpace(p) \/ SendReturn(p)
      PROVE  UNCHANGED history
  BY <1>4 DEF SendLock, SendWaitSpace, SendReturn
<1>5. ASSUME ShutdownNext PROVE UNCHANGED history
  BY <1>5 DEF ShutdownNext, ShutdownBegin, ShutdownLock, ShutdownNotify, ShutdownJoin
<1>6. ASSUME WorkerLock \/ WorkerExit \/ WorkerSleep \/ WorkerTake \/ WorkerRelock
      PROVE  UNCHANGED history
  BY <1>6 DEF WorkerLock, WorkerExit, WorkerSleep, WorkerTake, WorkerRelock
<1>7. ASSUME SpuriousWakeup PROVE UNCHANGED history
  BY <1>7 DEF SpuriousWakeup
<1>8. ASSUME NEW mode \in Modes, QueueInit(mode) PROVE UNCHANGED history
  BY <1>8 DEF QueueInit
<1>9. CASE UNCHANGED vars
  BY <1>9 DEF vars
<1> QED
  BY <1>1, <1>2, <1>3, <1>4, <1>5, <1>6, <1>7, <1>8, <1>9 DEF Next, SendNext, WorkerNext

\* ipcMessageQueue implements the FIFO worker of FifoWorker: every message runs
\* at most once, in the order of acceptance, alone, and with never more than
\* MaxMessages accepted and unfinished.
THEOREM ImplementsFifo == ASSUME Serial PROVE Spec => Fifo
<1>1. Init => Abstract!Init
  BY DEF Init, Abstract!Init
<1>2. IInv /\ [Next]_vars => [Abstract!Next]_(Abstract!vars)
  BY FifoStep
<1> QED
  BY <1>1, <1>2, Invariant, PTL DEF Spec, Fifo, Abstract!Spec, Abstract!vars
=============================================================================
