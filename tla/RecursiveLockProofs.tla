-------------------------- MODULE RecursiveLockProofs --------------------------
(***************************************************************************)
(* The lock's safety for any number of threads, any nesting and any width  *)
(* of the ticket counters above the number of threads.                     *)
(***************************************************************************)
EXTENDS RecursiveLock, FiniteSetTheorems, TLAPS

Spinning(t) == pc[t] = "spin"

\* Whoever is inside is the thread served last, and the other way round.
HolderInside == \A t \in Threads : Inside(t) <=> holder = t

\* A thread that still spins waits for a number not served yet.
TicketsAhead ==
    /\ nowServing <= nextTicket
    /\ holder # NoThread => nowServing < nextTicket
    /\ \A t \in Threads : Spinning(t) =>
          /\ nowServing <= ticket[t] /\ ticket[t] < nextTicket
          /\ holder # NoThread => nowServing < ticket[t]

TicketsDistinct ==
    \A t, u \in Threads : Spinning(t) /\ Spinning(u) /\ t # u
                          => ticket[t] # ticket[u]

\* Every number drawn and not yet passed belongs to a thread.
TicketsTaken ==
    \A k \in nowServing .. nextTicket - 1 :
       \/ holder # NoThread /\ k = nowServing
       \/ \E t \in Threads : Spinning(t) /\ ticket[t] = k

CountIsDepth ==
    /\ holder = NoThread => lockCount = 0
    /\ holder # NoThread => lockCount = depth[holder]
    /\ \A t \in Threads : pc[t] = "release" => depth[t] = 0

OwnerHolds ==
    \A t \in Threads : owner = t => holder = t \/ pc[t] = "clear"

IInv == /\ TypeOK /\ HolderInside
        /\ TicketsAhead /\ TicketsDistinct /\ TicketsTaken
        /\ CountIsDepth /\ OwnerHolds
-----------------------------------------------------------------------------
\* The numbers in use fit into the width of the counters: each belongs to a
\* thread, and one thread may hold the lock and spin for another ticket.
LEMMA TicketsFit ==
    ASSUME TypeOK, TicketsAhead, TicketsTaken
    PROVE  nextTicket - nowServing <= Width
<1> DEFINE Users == Threads \cup {NoThread}
           number == [x \in Users |->
                        IF x = NoThread THEN nowServing ELSE ticket[x]]
           Numbers == {number[x] : x \in Users}
<1>1. /\ IsFiniteSet(Threads) /\ NoThread \notin Threads
      /\ Width \in Nat /\ Width > Cardinality(Threads)
      /\ Cardinality(Threads) \in Nat
  BY LockAssumption, FS_CardinalityType
<1>2. IsFiniteSet(Users) /\ Cardinality(Users) = Cardinality(Threads) + 1
  BY <1>1, FS_AddElement
<1>3. IsFiniteSet(Numbers) /\ Cardinality(Numbers) <= Cardinality(Users)
  <2>1. number \in Surjection(Users, Numbers)
    BY DEF Surjection
  <2> HIDE DEF number, Users
  <2> QED BY <1>2, <2>1, FS_Surjection
<1>4. nowServing .. nextTicket - 1 \subseteq Numbers
  <2> SUFFICES ASSUME NEW k \in nowServing .. nextTicket - 1
               PROVE  \E x \in Users : number[x] = k
    BY Zenon
  <2>1. CASE k = nowServing
    BY <2>1, Zenon
  <2>2. CASE \E t \in Threads : ticket[t] = k
    <3>1. PICK t \in Threads : ticket[t] = k
      BY <2>2
    <3>2. number[t] = k
      BY <3>1, <1>1
    <3> QED BY <3>2
  <2> QED BY <2>1, <2>2 DEF TicketsTaken
<1>5. Cardinality(nowServing .. nextTicket - 1) = nextTicket - nowServing
  <2>1. nowServing \in Int /\ nextTicket - 1 \in Int /\ nextTicket \in Int
    BY DEF TypeOK
  <2>2. CASE nowServing > nextTicket - 1
    <3>1. nextTicket - nowServing = 0
      BY <2>1, <2>2 DEF TicketsAhead
    <3> QED BY <2>1, <2>2, <3>1, FS_Interval
  <2>3. CASE ~(nowServing > nextTicket - 1)
    <3>1. (nextTicket - 1) - nowServing + 1 = nextTicket - nowServing
      BY <2>1
    <3> QED BY <2>1, <2>3, <3>1, FS_Interval
  <2> QED BY <2>2, <2>3
<1>6. Cardinality(nowServing .. nextTicket - 1) <= Cardinality(Numbers)
  BY <1>3, <1>4, FS_Subset
<1> QED
  <2>1. nextTicket - nowServing <= Cardinality(Numbers)
    BY <1>5, <1>6
  <2>2. Cardinality(Numbers) <= Cardinality(Threads) + 1
    BY <1>2, <1>3
  <2>3. Cardinality(Numbers) \in Nat
    BY <1>3, FS_CardinalityType
  <2> HIDE DEF Numbers
  <2>4. nowServing \in Nat /\ nextTicket \in Nat
    BY DEF TypeOK
  <2> QED BY <1>1, <2>1, <2>2, <2>3, <2>4

\* A thread leaves the loop only for its own ticket: the comparison modulo
\* the width of the counters decides equality.
LEMMA ServedExactly ==
    ASSUME TypeOK, TicketsAhead, TicketsTaken,
           NEW t \in Threads, Spinning(t), Served(t)
    PROVE  ticket[t] = nowServing
<1>1. /\ ticket[t] \in Nat /\ nowServing \in Nat /\ nextTicket \in Nat
      /\ nowServing <= ticket[t] /\ ticket[t] < nextTicket
  BY DEF TypeOK, TicketsAhead
<1>2. nextTicket - nowServing <= Width /\ Width \in Nat
  BY TicketsFit, LockAssumption
<1> DEFINE d == ticket[t] - nowServing
<1>3. d \in 0 .. Width - 1 /\ d % Width = 0
  BY <1>1, <1>2 DEF Served
<1>4. d = 0
  <2> HIDE DEF d
  <2> DEFINE q == d \div Width
  <2>1. q \in Int /\ d = Width * q + (d % Width) /\ d \in Int /\ Width > 0
    BY <1>2, <1>3
  <2> HIDE DEF q
  <2>2. d = Width * q
    BY <1>2, <1>3, <2>1
  <2>3. CASE q >= 1
    <3>1. Width * q >= Width
      BY <1>2, <2>1, <2>3
    <3> QED BY <1>2, <1>3, <2>2, <3>1
  <2>4. CASE q <= -1
    <3>1. Width * q <= -Width
      BY <1>2, <2>1, <2>4
    <3> QED BY <1>2, <1>3, <2>1, <2>2, <3>1
  <2>5. CASE q = 0
    BY <1>2, <2>2, <2>5
  <2> QED BY <2>1, <2>3, <2>4, <2>5
<1> QED BY <1>1, <1>4
-----------------------------------------------------------------------------
LEMMA InitIInv == Init => IInv
BY LockAssumption
   DEF Init, IInv, TypeOK, Labels, HolderInside, Inside, TicketsAhead,
       TicketsDistinct, TicketsTaken, CountIsDepth, OwnerHolds, Spinning

\* The lock does nothing but go to "ticket" or, for the owner, to "enter".
LEMMA LockBeginIInv ==
    ASSUME IInv, NEW t \in Threads, LockBegin(t)
    PROVE  IInv'
<1> USE DEF IInv, LockBegin, Goto, tickets
<1>1. TypeOK'
  BY DEF TypeOK, Labels
<1>2. pc' \in [Threads -> Labels] /\ \A u \in Threads : u # t => pc'[u] = pc[u]
  BY <1>1 DEF TypeOK
<1>3. pc'[t] \in {"enter", "ticket"} /\ (pc'[t] = "enter" <=> owner = t)
  BY DEF TypeOK
<1>4. HolderInside'
  BY <1>2, <1>3 DEF HolderInside, Inside, OwnerHolds
<1>5. TicketsAhead' /\ TicketsDistinct'
  BY <1>2, <1>3 DEF TicketsAhead, TicketsDistinct, Spinning
<1>6. TicketsTaken'
  BY <1>2, <1>3 DEF TicketsTaken, Spinning
<1>7. CountIsDepth' /\ OwnerHolds'
  BY <1>2, <1>3 DEF CountIsDepth, OwnerHolds
<1> QED BY <1>1, <1>4, <1>5, <1>6, <1>7

LEMMA TakeTicketIInv ==
    ASSUME IInv, NEW t \in Threads, TakeTicket(t)
    PROVE  IInv'
<1> USE DEF IInv, TakeTicket, Goto
<1>1. TypeOK'
  BY DEF TypeOK, Labels
<1>2. /\ pc[t] = "ticket" /\ pc'[t] = "spin"
      /\ ticket'[t] = nextTicket /\ nextTicket' = nextTicket + 1
      /\ \A u \in Threads : u # t => pc'[u] = pc[u] /\ ticket'[u] = ticket[u]
      /\ nextTicket \in Nat /\ nowServing \in Nat
      /\ ticket \in [Threads -> Nat]
  BY DEF TypeOK
<1>3. HolderInside'
  BY <1>2 DEF HolderInside, Inside
<1>4. TicketsAhead'
  BY <1>2 DEF TicketsAhead, Spinning
<1>5. TicketsDistinct'
  BY <1>2 DEF TicketsDistinct, TicketsAhead, Spinning
<1>6. TicketsTaken'
  <2> SUFFICES ASSUME NEW k \in nowServing .. nextTicket,
                      ~(holder # NoThread /\ k = nowServing)
               PROVE  \E u \in Threads : pc'[u] = "spin" /\ ticket'[u] = k
    BY <1>2 DEF TicketsTaken, Spinning
  <2>1. CASE k = nextTicket
    BY <1>2, <2>1
  <2>2. CASE k # nextTicket
    <3>1. k \in nowServing .. nextTicket - 1
      BY <1>2, <2>2
    <3>2. PICK u \in Threads : Spinning(u) /\ ticket[u] = k
      BY <3>1 DEF TicketsTaken
    <3> QED BY <1>2, <3>2 DEF Spinning
  <2> QED BY <2>1, <2>2
<1>7. CountIsDepth' /\ OwnerHolds'
  BY <1>2 DEF CountIsDepth, OwnerHolds
<1> QED BY <1>1, <1>3, <1>4, <1>5, <1>6, <1>7

\* A thread gets in only when nobody is: its ticket is the number served, and
\* while somebody is inside every spinning thread has a later one.
LEMMA SpinIInv ==
    ASSUME IInv, NEW t \in Threads, Spin(t)
    PROVE  IInv'
<1> USE DEF IInv, Spin, Goto, tickets
<1>1. TypeOK'
  BY DEF TypeOK, Labels
<1>2. /\ pc[t] = "spin" /\ pc'[t] = "own" /\ holder' = t
      /\ \A u \in Threads : u # t => pc'[u] = pc[u]
      /\ nextTicket \in Nat /\ nowServing \in Nat
      /\ ticket \in [Threads -> Nat] /\ t # NoThread
  BY LockAssumption DEF TypeOK
<1>3. ticket[t] = nowServing
  BY ServedExactly DEF Spinning
<1>4. holder = NoThread
  BY <1>2, <1>3 DEF TicketsAhead, Spinning
<1>5. HolderInside'
  BY <1>2, <1>4, LockAssumption DEF HolderInside, Inside
<1>6. TicketsAhead'
  <2> SUFFICES ASSUME NEW u \in Threads, pc'[u] = "spin"
               PROVE  nowServing < ticket[u]
    BY <1>2, <1>3 DEF TicketsAhead, Spinning
  <2>1. u # t /\ pc[u] = "spin"
    BY <1>2
  <2>2. ticket[u] # ticket[t] /\ nowServing <= ticket[u]
    BY <1>2, <2>1 DEF TicketsDistinct, TicketsAhead, Spinning
  <2> QED BY <1>2, <1>3, <2>2
<1>7. TicketsDistinct'
  BY <1>2 DEF TicketsDistinct, Spinning
<1>8. TicketsTaken'
  BY <1>2, <1>3, <1>4 DEF TicketsTaken, Spinning
<1>9. depth[t] = 0
  BY <1>2, <1>4 DEF HolderInside, Inside, TypeOK
<1>10. CountIsDepth'
  BY <1>2, <1>4, <1>9 DEF CountIsDepth
<1>11. OwnerHolds'
  <2> SUFFICES ASSUME NEW u \in Threads, owner = u
               PROVE  u = t \/ pc'[u] = "clear"
    BY <1>2 DEF OwnerHolds
  <2>1. pc[u] = "clear"
    BY <1>4, LockAssumption DEF OwnerHolds
  <2> QED BY <1>2, <2>1
<1> QED BY <1>1, <1>5, <1>6, <1>7, <1>8, <1>10, <1>11

LEMMA OwnIInv ==
    ASSUME IInv, NEW t \in Threads, Own(t)
    PROVE  IInv'
<1> USE DEF IInv, Own, Goto, tickets
<1>1. TypeOK'
  BY DEF TypeOK, Labels
<1>2. /\ pc[t] = "own" /\ pc'[t] = "enter" /\ owner' = t
      /\ \A u \in Threads : u # t => pc'[u] = pc[u]
  BY DEF TypeOK
<1>3. holder = t
  BY <1>2 DEF HolderInside, Inside
<1>4. HolderInside'
  BY <1>2 DEF HolderInside, Inside
<1>5. TicketsAhead' /\ TicketsDistinct' /\ TicketsTaken'
  BY <1>2 DEF TicketsAhead, TicketsDistinct, TicketsTaken, Spinning
<1>6. CountIsDepth' /\ OwnerHolds'
  BY <1>2, <1>3 DEF CountIsDepth, OwnerHolds
<1> QED BY <1>1, <1>4, <1>5, <1>6

LEMMA EnterIInv ==
    ASSUME IInv, NEW t \in Threads, Enter(t)
    PROVE  IInv'
<1> USE DEF IInv, Enter, Goto, tickets
<1>1. TypeOK'
  BY DEF TypeOK, Labels
<1>2. /\ pc[t] = "enter" /\ pc'[t] = "out" /\ depth'[t] = depth[t] + 1
      /\ \A u \in Threads : u # t => pc'[u] = pc[u] /\ depth'[u] = depth[u]
      /\ depth \in [Threads -> Nat] /\ lockCount' = lockCount + 1
  BY DEF TypeOK
<1>3. holder = t /\ t # NoThread
  BY <1>2, LockAssumption DEF HolderInside, Inside
<1>4. HolderInside'
  <2>1. depth'[t] > 0
    BY <1>2
  <2> QED BY <1>2, <1>3, <2>1 DEF HolderInside, Inside
<1>5. TicketsAhead' /\ TicketsDistinct' /\ TicketsTaken'
  BY <1>2 DEF TicketsAhead, TicketsDistinct, TicketsTaken, Spinning
<1>6. CountIsDepth' /\ OwnerHolds'
  BY <1>2, <1>3 DEF CountIsDepth, OwnerHolds
<1> QED BY <1>1, <1>4, <1>5, <1>6

\* The count is the depth, so the outermost unlock is the one that releases.
LEMMA UnlockBeginIInv ==
    ASSUME IInv, NEW t \in Threads, UnlockBegin(t)
    PROVE  IInv'
<1> USE DEF IInv, UnlockBegin, Goto, tickets
<1>1. holder = t /\ t # NoThread /\ lockCount = depth[t] /\ depth[t] > 0
  BY LockAssumption DEF HolderInside, Inside, CountIsDepth
<1>2. TypeOK'
  <2>1. depth' \in [Threads -> Nat] /\ lockCount' \in Nat
    BY <1>1 DEF TypeOK
  <2> QED BY <2>1 DEF TypeOK, Labels
<1>3. /\ pc[t] = "out" /\ depth'[t] = depth[t] - 1
      /\ pc'[t] = IF depth[t] = 1 THEN "release" ELSE "out"
      /\ \A u \in Threads : u # t => pc'[u] = pc[u] /\ depth'[u] = depth[u]
      /\ depth \in [Threads -> Nat] /\ lockCount' = lockCount - 1
  BY <1>1 DEF TypeOK, LastUnlock
<1>4. HolderInside'
  <2>1. depth'[t] > 0 \/ pc'[t] = "release"
    BY <1>1, <1>3
  <2> QED BY <1>1, <1>3, <2>1 DEF HolderInside, Inside
<1>5. TicketsAhead' /\ TicketsDistinct' /\ TicketsTaken'
  BY <1>3 DEF TicketsAhead, TicketsDistinct, TicketsTaken, Spinning
<1>6. CountIsDepth' /\ OwnerHolds'
  BY <1>1, <1>3 DEF CountIsDepth, OwnerHolds
<1> QED BY <1>2, <1>4, <1>5, <1>6

LEMMA ReleaseIInv ==
    ASSUME IInv, NEW t \in Threads, Release(t)
    PROVE  IInv'
<1> USE DEF IInv, Release, Goto
<1>1. TypeOK'
  BY DEF TypeOK, Labels
<1>2. /\ pc[t] = "release" /\ pc'[t] = "clear" /\ depth[t] = 0
      /\ \A u \in Threads : u # t => pc'[u] = pc[u]
      /\ holder = t /\ t # NoThread /\ holder' = NoThread /\ lockCount = 0
      /\ nowServing' = nowServing + 1
      /\ nextTicket \in Nat /\ nowServing \in Nat
      /\ ticket \in [Threads -> Nat]
  BY LockAssumption DEF TypeOK, CountIsDepth, HolderInside, Inside
<1>3. HolderInside'
  BY <1>2, LockAssumption DEF HolderInside, Inside
<1>4. TicketsAhead'
  BY <1>2 DEF TicketsAhead, Spinning
<1>5. TicketsDistinct'
  BY <1>2 DEF TicketsDistinct, Spinning
<1>6. TicketsTaken'
  <2> SUFFICES ASSUME NEW k \in nowServing + 1 .. nextTicket - 1
               PROVE  \E u \in Threads : pc'[u] = "spin" /\ ticket[u] = k
    BY <1>2 DEF TicketsTaken, Spinning
  <2>1. k \in nowServing .. nextTicket - 1 /\ k # nowServing
    BY <1>2
  <2>2. PICK u \in Threads : Spinning(u) /\ ticket[u] = k
    BY <2>1 DEF TicketsTaken
  <2> QED BY <1>2, <2>2 DEF Spinning
<1>7. CountIsDepth' /\ OwnerHolds'
  BY <1>2 DEF CountIsDepth, OwnerHolds
<1> QED BY <1>1, <1>3, <1>4, <1>5, <1>6, <1>7

LEMMA ClearIInv ==
    ASSUME IInv, NEW t \in Threads, Clear(t)
    PROVE  IInv'
<1> USE DEF IInv, Clear, Goto, tickets
<1>1. TypeOK'
  BY DEF TypeOK, Labels
<1>2. /\ pc[t] = "clear" /\ pc'[t] = "out" /\ owner' = NoThread
      /\ \A u \in Threads : u # t => pc'[u] = pc[u]
  BY DEF TypeOK
<1>3. HolderInside' /\ CountIsDepth'
  BY <1>2 DEF HolderInside, Inside, CountIsDepth
<1>4. TicketsAhead' /\ TicketsDistinct' /\ TicketsTaken'
  BY <1>2 DEF TicketsAhead, TicketsDistinct, TicketsTaken, Spinning
<1>5. OwnerHolds'
  BY <1>2, LockAssumption DEF OwnerHolds
<1> QED BY <1>1, <1>3, <1>4, <1>5

LEMMA NextIInv == IInv /\ [Next]_vars => IInv'
<1> SUFFICES ASSUME IInv, [Next]_vars PROVE IInv'
  OBVIOUS
<1>1. CASE UNCHANGED vars
  BY <1>1 DEF IInv, vars, tickets, TypeOK, HolderInside, Inside, TicketsAhead,
       TicketsDistinct, TicketsTaken, CountIsDepth, OwnerHolds, Spinning
<1>2. CASE Next
  <2> PICK t \in Threads : LockBegin(t) \/ LockStep(t) \/ UnlockStep(t)
    BY <1>2 DEF Next
  <2>1. CASE LockBegin(t)
    BY <2>1, LockBeginIInv
  <2>2. CASE LockStep(t)
    BY <2>2, TakeTicketIInv, SpinIInv, OwnIInv, EnterIInv DEF LockStep
  <2>3. CASE UnlockStep(t)
    BY <2>3, UnlockBeginIInv, ReleaseIInv, ClearIInv DEF UnlockStep
  <2> QED BY <2>1, <2>2, <2>3
<1> QED BY <1>1, <1>2

LEMMA Invariant == Spec => []IInv
<1> QED BY InitIInv, NextIInv, PTL DEF Spec
-----------------------------------------------------------------------------
\* Every variable of the lock and of its threads keeps its type.
THEOREM TypeCorrect == Spec => []TypeOK
<1>1. IInv => TypeOK
  BY DEF IInv
<1> QED BY Invariant, <1>1, PTL

\* At most one thread is between the load that ends its spin and the release,
\* for any number of threads and although the ticket counters wrap.
THEOREM LockExcludes == Spec => []MutualExclusion
<1>1. IInv => MutualExclusion
  BY DEF IInv, HolderInside, MutualExclusion
<1> QED BY Invariant, <1>1, PTL

\* lock_count_ is the number of open calls of the thread inside.
THEOREM CountIsRight == Spec => []CountMatchesDepth
<1>1. IInv => CountMatchesDepth
  BY LockAssumption DEF IInv, HolderInside, CountIsDepth, CountMatchesDepth
<1> QED BY Invariant, <1>1, PTL

\* A thread that finds itself in lock_owner_ may enter without a ticket.
THEOREM OwnerReadIsSound == Spec => []OwnerIsSound
<1>1. IInv => OwnerIsSound
  BY DEF IInv, HolderInside, OwnerHolds, OwnerIsSound
<1> QED BY Invariant, <1>1, PTL

\* lock_count_ and lock_owner_ are what the code takes them for where it uses
\* them outside the ticket lock.
THEOREM WordsAreSound == Spec => []LockWordsAreSound
BY TypeCorrect, CountIsRight, OwnerReadIsSound, PTL DEF LockWordsAreSound

\* Threads are served in the order of their tickets.
THEOREM ServedInOrder == Spec => FirstComeFirstServed
<1>1. IInv /\ [Next]_vars => [ServesInOrder]_vars
  <2> SUFFICES ASSUME IInv, Next,
                      NEW t \in Threads, NEW u \in Threads, t # u,
                      pc[t] = "spin", pc'[t] = "own", pc[u] = "spin"
               PROVE  ticket[t] < ticket[u]
    BY DEF ServesInOrder
  <2>1. Spin(t)
    <3> PICK v \in Threads : LockBegin(v) \/ LockStep(v) \/ UnlockStep(v)
      BY DEF Next
    <3> QED BY DEF IInv, TypeOK, LockBegin, LockStep, TakeTicket, Spin, Own,
                   Enter, UnlockStep, UnlockBegin, Release, Clear, Goto
  <2>2. ticket[t] = nowServing
    BY <2>1, ServedExactly DEF IInv, Spinning, Spin
  <2> QED BY <2>2 DEF IInv, TypeOK, TicketsAhead, TicketsDistinct, Spinning
<1> QED BY Invariant, <1>1, PTL DEF Spec, FirstComeFirstServed
=============================================================================
