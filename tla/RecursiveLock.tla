---------------------------- MODULE RecursiveLock ----------------------------
(***************************************************************************)
(* TicketLock and RecursiveLock (data7/ticketlock.h, data7/ticketlock.cpp),*)
(* the lock around every operation of asMemoryAllocator.  A step is one    *)
(* atomic operation of a thread, or code only the holder of the lock runs. *)
(* The code's counters are of type usize and wrap; here they are natural   *)
(* numbers that the code's comparison reads modulo Width.  The code's      *)
(* relaxed stores to lock_owner_ may take effect late, which is what a     *)
(* step of their own models.                                               *)
(***************************************************************************)
EXTENDS Integers, FiniteSets

CONSTANTS Threads,     \* threads that use the lock
          NoThread,    \* InvalidThreadId()
          Width,       \* how many values the ticket counters have
          MaxDepth,    \* bound: how deep calls of lock nest in a thread
          MaxTickets   \* bound: tickets drawn in a run

ASSUME LockAssumption ==
    /\ IsFiniteSet(Threads) /\ NoThread \notin Threads
    /\ Width \in Nat /\ Width > Cardinality(Threads)
    /\ MaxDepth \in Nat /\ MaxTickets \in Nat

VARIABLES nextTicket,  \* next_ticket_
          nowServing,  \* now_serving_
          owner,       \* lock_owner_
          lockCount,   \* lock_count_
          pc,          \* where each thread is
          ticket,      \* my_ticket of each thread that spins
          depth,       \* how many calls of lock each thread has to undo
          holder       \* history: the thread that was served last and has
                       \* not released the lock, or NoThread

tickets == <<nextTicket, nowServing, ticket>>
vars    == <<tickets, owner, lockCount, pc, depth, holder>>

Labels == {"out", "ticket", "spin", "own", "enter", "release", "clear"}

Goto(t, label) == pc' = [pc EXCEPT ![t] = label]

\* delay_slots == 0, as unsigned integers.  (Mutant: a thread leaves the loop
\* when it is next in line.)
NextInLine(t) == (ticket[t] - nowServing) % Width <= 1
Served(t)     == (ticket[t] - nowServing) % Width = 0

\* --lock_count_ == 0.  (Mutant: the inner unlock releases.)
InnermostUnlock == lockCount <= 2
LastUnlock      == lockCount = 1

Init ==
    /\ nextTicket = 0 /\ nowServing = 0
    /\ owner = NoThread /\ lockCount = 0 /\ holder = NoThread
    /\ pc = [t \in Threads |-> "out"]
    /\ ticket = [t \in Threads |-> 0]
    /\ depth = [t \in Threads |-> 0]

\* lock: the test whether this thread owns the lock already.
LockBegin(t) ==
    /\ pc[t] = "out" /\ depth[t] < MaxDepth
    /\ nextTicket < MaxTickets
    /\ Goto(t, IF owner = t THEN "enter" ELSE "ticket")
    /\ UNCHANGED <<tickets, owner, lockCount, depth, holder>>

\* TicketLock::lock: next_ticket_.fetch_add.  (Mutant: the ticket is the
\* number being served, so that two threads may hold the same one.)
ServingTicket(t) ==
    /\ pc[t] = "ticket"
    /\ ticket' = [ticket EXCEPT ![t] = nowServing]
    /\ nextTicket' = nextTicket + 1
    /\ Goto(t, "spin")
    /\ UNCHANGED <<nowServing, owner, lockCount, depth, holder>>
TakeTicket(t) ==
    /\ pc[t] = "ticket"
    /\ ticket' = [ticket EXCEPT ![t] = nextTicket]
    /\ nextTicket' = nextTicket + 1
    /\ Goto(t, "spin")
    /\ UNCHANGED <<nowServing, owner, lockCount, depth, holder>>

\* The load of now_serving_ that ends the loop.  A load that does not end it may
\* meet the debug assertion there, serving < my_ticket, which compares without
\* regard to the wrap and only behind two others: fewer than four threads never
\* fail it, and for more it is not modelled.
Spin(t) ==
    /\ pc[t] = "spin" /\ Served(t)
    /\ holder' = t
    /\ Goto(t, "own")
    /\ UNCHANGED <<tickets, owner, lockCount, depth>>

Own(t) ==
    /\ pc[t] = "own"
    /\ owner' = t
    /\ Goto(t, "enter")
    /\ UNCHANGED <<tickets, lockCount, depth, holder>>

\* ++lock_count_, after which lock has returned.  (Mutant: only the outermost
\* call counts.)
CountOnce(t) ==
    /\ pc[t] = "enter"
    /\ lockCount' = IF depth[t] = 0 THEN 1 ELSE lockCount
    /\ depth' = [depth EXCEPT ![t] = @ + 1]
    /\ Goto(t, "out")
    /\ UNCHANGED <<tickets, owner, holder>>
Enter(t) ==
    /\ pc[t] = "enter"
    /\ lockCount' = lockCount + 1
    /\ depth' = [depth EXCEPT ![t] = @ + 1]
    /\ Goto(t, "out")
    /\ UNCHANGED <<tickets, owner, holder>>

\* unlock, by a thread that has called lock.
UnlockBegin(t) ==
    /\ pc[t] = "out" /\ depth[t] > 0
    /\ lockCount' = lockCount - 1
    /\ depth' = [depth EXCEPT ![t] = @ - 1]
    /\ Goto(t, IF LastUnlock THEN "release" ELSE "out")
    /\ UNCHANGED <<tickets, owner, holder>>

\* TicketLock::unlock: now_serving_.fetch_add.  (Mutant: forgotten.)
KeepServing(t) ==
    /\ pc[t] = "release"
    /\ holder' = NoThread
    /\ Goto(t, "clear")
    /\ UNCHANGED <<tickets, owner, lockCount, depth>>
Release(t) ==
    /\ pc[t] = "release"
    /\ nowServing' = nowServing + 1
    /\ holder' = NoThread
    /\ Goto(t, "clear")
    /\ UNCHANGED <<nextTicket, ticket, owner, lockCount, depth>>

\* The owner is cleared after the lock is released.  (Mutant: it is not.)
KeepOwner(t) ==
    /\ pc[t] = "clear"
    /\ Goto(t, "out")
    /\ UNCHANGED <<tickets, owner, lockCount, depth, holder>>
Clear(t) ==
    /\ pc[t] = "clear"
    /\ owner' = NoThread
    /\ Goto(t, "out")
    /\ UNCHANGED <<tickets, lockCount, depth, holder>>

LockStep(t)   == TakeTicket(t) \/ Spin(t) \/ Own(t) \/ Enter(t)
UnlockStep(t) == UnlockBegin(t) \/ Release(t) \/ Clear(t)

Next == \E t \in Threads : LockBegin(t) \/ LockStep(t) \/ UnlockStep(t)

Spec == Init /\ [][Next]_vars

\* Threads run, and whoever locks unlocks; nobody has to call lock.
Fairness == \A t \in Threads : WF_vars(LockStep(t)) /\ WF_vars(UnlockStep(t))
FairSpec == Spec /\ Fairness
-----------------------------------------------------------------------------
\* Every variable holds a value of its type.
TypeOK ==
    /\ nextTicket \in Nat /\ nowServing \in Nat /\ lockCount \in Nat
    /\ owner \in Threads \cup {NoThread} /\ holder \in Threads \cup {NoThread}
    /\ pc \in [Threads -> Labels]
    /\ ticket \in [Threads -> Nat] /\ depth \in [Threads -> Nat]

\* A thread is inside from the load that ends its spin to the fetch_add that
\* lets the next thread in.
Inside(t) == depth[t] > 0 \/ pc[t] \in {"own", "enter", "release"}

\* Two threads are never inside together, although the ticket counters wrap,
\* ownership is read without the lock and cleared after it was released.
MutualExclusion == \A t, u \in Threads : Inside(t) /\ Inside(u) => t = u

\* lock_count_ is not atomic, and yet it always counts the open calls of the
\* thread inside, and is 0 when there is none: an unlock releases the ticket
\* lock exactly when it undoes the outermost lock.
CountMatchesDepth == \A t \in Threads : Inside(t) => lockCount = depth[t]

\* A thread that reads its own identity in lock_owner_ is inside, or it is
\* the very thread that is about to clear it: no stale identity lets a thread
\* skip the ticket.
OwnerIsSound ==
    \A t \in Threads : owner = t => Inside(t) \/ pc[t] = "clear"

\* The words that are read and written outside the ticket lock are what the
\* code takes them for, and of the right type.
LockWordsAreSound == TypeOK /\ CountMatchesDepth /\ OwnerIsSound

\* Nobody overtakes: a thread that is served drew its ticket before every
\* other thread that is still spinning.
ServesInOrder ==
    \A t, u \in Threads :
       /\ t # u /\ pc[t] = "spin" /\ pc'[t] = "own" /\ pc[u] = "spin"
       => ticket[t] < ticket[u]
FirstComeFirstServed == [][ServesInOrder]_vars

\* If whoever gets inside gets out again, every thread that wants the lock
\* gets it: the spinning threads cannot miss the load that lets them in,
\* whatever wraps.
NobodyStays == \A t \in Threads : []<>(~Inside(t))
EveryWaiterEnters ==
    NobodyStays => \A t \in Threads : pc[t] = "ticket" ~> pc[t] = "own"

\* What the name RecursiveLock promises: a thread that is inside never waits
\* for the ticket lock, which it would wait for for ever.
NoSelfDeadlock == \A t \in Threads : depth[t] > 0 => pc[t] # "spin"
=============================================================================
