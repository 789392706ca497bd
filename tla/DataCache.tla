------------------------------ MODULE DataCache ------------------------------
(***************************************************************************)
(* DataCache (data7/cache.h, data7/cache.cpp): the relocating heap that    *)
(* holds the paged-in meshes (CACHE) and textures (TEXCACHE).  A client is *)
(* the owner of a handle: a mesh, a bound or a texture; an instance may    *)
(* have clients of one kind, as the program's two caches, or of both.  The *)
(* pager thread calls BeginObject, Allocate and EndObject, the main thread *)
(* the rest.                                                               *)
(* Sizes and addresses count units of 8 bytes, to which the code aligns.   *)
(* cs names who is inside cache_lock_ and where; the loops of Age and      *)
(* CleanEndOfHeap take one step per object, and nobody else can enter.     *)
(***************************************************************************)
EXTENDS Integers, FiniteSets

CONSTANTS Clients, NoClient,
          SizeOf,        \* what each client asks BeginObject for and fills
          HeapSize,      \* heap_size_
          MaxObjects,    \* max_objects_
          MaxObjectAge,  \* MaxObjectAge
          WasteWidth,    \* how many values cur_waste_, an unsigned, has
          Textures,      \* the clients that are textures; they call Free
          Main, Pager, NoThread,
          MaxAge,        \* bound: calls of Age after an Init
          MaxLocks,      \* bound: nested locks of an object
          MaxWaste       \* bound: cur_waste_, see WasteBound

ASSUME CacheAssumption ==
    /\ IsFiniteSet(Clients) /\ NoClient \notin Clients
    /\ SizeOf \in [Clients -> Nat \ {0}]
    /\ HeapSize \in Nat /\ MaxObjects \in Nat /\ MaxObjectAge \in Nat
    /\ WasteWidth \in Nat \ {0} /\ Textures \subseteq Clients
    /\ Main # Pager /\ NoThread \notin {Main, Pager}
    /\ MaxAge \in Nat /\ MaxLocks \in Nat \ {0} /\ MaxWaste \in Nat

VARIABLES cs,          \* cache_lock_: free, or what its holder is doing
          builder,     \* the client between BeginObject and EndObject
          slots,       \* objects_
          curObjects, heapUsed, curWaste, fragmented,
          age,         \* age_
          objectLocks, \* object_locks_
          objectLock,  \* the thread that holds object_lock_, or NoThread
          scan, live, top,  \* Age's i, j and heap
          handle,      \* each client's *pHandle, 0 for none
          pointer,     \* each client's pointer to its data
          heap         \* whose data each unit of heap_ holds

loop    == <<scan, live, top>>
client  == <<handle, pointer>>
locking == <<objectLocks, objectLock>>
space   == <<curObjects, heapUsed, curWaste, fragmented>>
vars    == <<cs, builder, slots, space, age, locking, loop, client, heap>>

Null == -1
Address == 0 .. HeapSize - 1
Index   == 1 .. MaxObjects
Phases  == {"closed", "free", "build", "expire", "cleanAge", "cleanFree",
            "compact"}

EmptySlot == [used |-> FALSE, owner |-> NoClient, base |-> 0, max |-> 0,
              total |-> 0, locks |-> 0, age |-> 0]

\* A sum or difference of unsigned integers.
Wrap(n) == n % WasteWidth

\* cache_lock_ is free, or is left.
Enter(phase) == cs = "free" /\ cs' = phase
Brief        == cs = "free" /\ UNCHANGED cs
Leave        == cs' = "free"

\* Unload, of an object that nobody has locked or whose only lock goes with
\* it.  The client's callback clears its pointer.
Unload(i) ==
    LET c == slots[i].owner IN
    /\ slots' = [slots EXCEPT ![i] =
          [@ EXCEPT !.used = FALSE, !.owner = NoClient, !.age = 0, !.total = 0,
                    !.locks = 0]]
    /\ handle'  = [handle  EXCEPT ![c] = 0]
    /\ pointer' = [pointer EXCEPT ![c] = Null]

\* object_lock_ is taken with the first lock of any object and released with
\* the last one.
TakeLock(thread) ==
    /\ objectLocks' = objectLocks + 1
    /\ IF objectLocks = 0
       THEN objectLock \in {NoThread, thread} /\ objectLock' = thread
       ELSE UNCHANGED objectLock
DropLock ==
    /\ objectLocks' = objectLocks - 1
    /\ objectLock' = IF objectLocks = 1 THEN NoThread ELSE objectLock

\* The objects one of which an object of size n may replace: unlocked, not
\* used in this frame, and at most n / 2^k too large.  (Mutant: objects of
\* this frame are fair game.)
SizeFits(j, n, k) == slots[j].max \in n .. n + (n + 2^k - 1) \div 2^k
FitsHot(n, k) ==
    {j \in 1 .. curObjects : SizeFits(j, n, k) /\ slots[j].locks = 0}
Fits(n, k) ==
    {j \in 1 .. curObjects :
       SizeFits(j, n, k) /\ slots[j].locks = 0 /\ slots[j].age < age}

\* The tightest fit that there is, and in it the oldest object.
Victim(n) ==
    LET shift == CHOOSE k \in 0 .. 3 : /\ Fits(n, k) # {}
                                       /\ \A m \in k + 1 .. 3 : Fits(n, m) = {}
        fits  == Fits(n, shift)
    IN  CHOOSE j \in fits : \A k \in fits :
           \/ slots[j].age < slots[k].age
           \/ slots[j].age = slots[k].age /\ j <= k

\* The bound on cur_waste_: nothing is begun or locked beyond it, a little
\* below zero excepted.
WasteBound == curWaste <= MaxWaste \/ WasteWidth - curWaste <= HeapSize

\* (Mutant: the size of the new object is not asked for.)
RoomForNone(n) == curObjects < MaxObjects /\ heapUsed <= HeapSize
Room(n)   == curObjects < MaxObjects /\ n + heapUsed <= HeapSize
Evicts(n) == ~Room(n) /\ Fits(n, 0) # {}

Init ==
    /\ cs = "closed" /\ builder = NoClient
    /\ slots = [i \in Index |-> EmptySlot]
    /\ curObjects = 0 /\ heapUsed = 0 /\ curWaste = 0 /\ fragmented = FALSE
    /\ age = 0 /\ objectLocks = 0 /\ objectLock = NoThread
    /\ scan = 0 /\ live = 0 /\ top = 0
    /\ handle = [c \in Clients |-> 0] /\ pointer = [c \in Clients |-> Null]
    /\ heap = [a \in Address |-> NoClient]
-----------------------------------------------------------------------------
\* DataCache::Init.
Open ==
    /\ cs = "closed" /\ cs' = "free"
    /\ slots' = [i \in Index |-> EmptySlot]
    /\ curObjects' = 0 /\ heapUsed' = 0 /\ curWaste' = 0 /\ fragmented' = FALSE
    /\ age' = 0 /\ objectLocks' = 0
    /\ heap' = [a \in Address |-> NoClient]
    /\ UNCHANGED <<builder, objectLock, loop, client>>

\* Shutdown: Flush unloads every object and the arrays are deleted.  With an
\* object still locked the program quits.
Shutdown ==
    /\ Enter("closed") /\ objectLocks = 0
    /\ slots' = [i \in Index |-> EmptySlot]
    /\ curObjects' = 0 /\ heapUsed' = 0 /\ curWaste' = 0 /\ fragmented' = FALSE
    /\ handle' = [c \in Clients |-> 0] /\ pointer' = [c \in Clients |-> Null]
    /\ age' = 0 /\ heap' = [a \in Address |-> NoClient]
    /\ UNCHANGED <<builder, locking, loop>>

\* InitObject: what BeginObject does to the slot it found.
InitObject(s, i, c, base, size) ==
    /\ slots' = [s EXCEPT ![i] =
          [@ EXCEPT !.used = TRUE, !.owner = c, !.base = base, !.max = size,
                    !.locks = 1, !.age = age]]
    /\ TakeLock(Pager)

\* BeginObject returns with cache_lock_ taken, in a new slot at the end...
BeginAppend(c) ==
    LET n == SizeOf[c] IN
    /\ Enter("build") /\ builder' = c
    /\ handle[c] = 0 /\ Room(n)
    /\ curObjects' = curObjects + 1 /\ heapUsed' = heapUsed + n
    /\ handle' = [handle EXCEPT ![c] = curObjects + 1]
    /\ InitObject(slots, curObjects + 1, c, heapUsed, n)
    /\ UNCHANGED <<curWaste, fragmented, age, loop, pointer, heap>>

\* ... or in the place of another object, whose owner is told, or of a hole
\* one has left; the slot keeps its size...  (Mutant: the slot shrinks to the
\* new object.)
Replaced(v)      == IF slots[v].used THEN slots[v].owner ELSE NoClient
TightSize(v, n)  == n
ReusedSize(v, n) == slots[v].max

BeginReuse(c) ==
    LET n == SizeOf[c]
        v == Victim(n)
    IN
    /\ Enter("build") /\ builder' = c
    /\ handle[c] = 0 /\ Evicts(n)
    /\ curWaste' = Wrap(curWaste + slots[v].max - n)
    /\ handle'  = [d \in Clients |-> IF d = c THEN v
                                     ELSE IF d = Replaced(v) THEN 0
                                     ELSE handle[d]]
    /\ pointer' = [d \in Clients |-> IF d = Replaced(v) THEN Null
                                                       ELSE pointer[d]]
    /\ InitObject([slots EXCEPT ![v].total = 0], v, c,
                  slots[v].base, ReusedSize(v, n))
    /\ UNCHANGED <<curObjects, heapUsed, fragmented, age, loop, heap>>

\* ... or fails, and asks the next Age to compact the heap.
BeginFail(c) ==
    /\ Brief /\ handle[c] = 0
    /\ ~Room(SizeOf[c]) /\ ~Evicts(SizeOf[c])
    /\ fragmented' = TRUE
    /\ UNCHANGED <<builder, slots, curObjects, heapUsed, curWaste, age,
                   locking, loop, client, heap>>

\* Allocate, and the pager's writes into what it returns.
Fill(c) ==
    LET i == handle[c]
        n == SizeOf[c]
    IN
    /\ cs = "build" /\ builder = c /\ pointer[c] = Null
    /\ slots[i].total + n <= slots[i].max
    /\ pointer' = [pointer EXCEPT ![c] = slots[i].base + slots[i].total]
    /\ slots' = [slots EXCEPT ![i].total = @ + n]
    /\ heap' = [a \in Address |->
                  IF a \in pointer'[c] .. pointer'[c] + n - 1 THEN c
                                                               ELSE heap[a]]
    /\ UNCHANGED <<cs, builder, space, age, locking, loop, handle>>

\* EndObject.  (Mutant: the object keeps the lock BeginObject took.)
KeptLocks(i)  == slots[i].locks
EndedLocks(i) == 0
EndObject(c) ==
    /\ cs = "build" /\ builder = c /\ pointer[c] # Null
    /\ Leave /\ builder' = NoClient
    /\ slots' = [slots EXCEPT ![handle[c]].locks = EndedLocks(handle[c])]
    /\ DropLock
    /\ UNCHANGED <<space, age, loop, client, heap>>

\* Lock takes cache_lock_ for a moment.  (Mutant: it does not.)
Unguarded == cs \in {"free", "build"} /\ UNCHANGED cs
Guarded   == Brief
Lock(c) ==
    /\ Guarded
    /\ handle[c] # 0 /\ slots[handle[c]].locks < MaxLocks
    /\ slots' = [slots EXCEPT ![handle[c]].locks = @ + 1,
                              ![handle[c]].age = age]
    /\ TakeLock(Main)
    /\ UNCHANGED <<builder, space, age, loop, client, heap>>

Unlock(c) ==
    /\ Brief
    /\ handle[c] # 0 /\ slots[handle[c]].locks > 0
    /\ slots' = [slots EXCEPT ![handle[c]].locks = @ - 1]
    /\ DropLock
    /\ UNCHANGED <<builder, space, age, loop, client, heap>>

\* UnlockAndFree, by the only holder of a lock on the object, up to its call
\* of CleanEndOfHeap.
UnlockAndFree(c) ==
    /\ Enter("cleanFree")
    /\ handle[c] # 0 /\ slots[handle[c]].locks = 1
    /\ DropLock
    /\ curWaste' = Wrap(curWaste + slots[handle[c]].max)
    /\ Unload(handle[c])
    /\ UNCHANGED <<builder, curObjects, heapUsed, fragmented, age, loop, heap>>

\* Free, by the destructor of a texture, does not count the hole it leaves.
Free(c) ==
    /\ c \in Textures /\ Brief
    /\ handle[c] # 0 /\ slots[handle[c]].locks = 0
    /\ Unload(handle[c])
    /\ UNCHANGED <<builder, space, age, locking, loop, heap>>
-----------------------------------------------------------------------------
\* CleanEndOfHeap drops unused objects from the end of the heap.
LastSize   == slots[curObjects].max
CleanStep ==
    /\ cs \in {"cleanAge", "cleanFree"}
    /\ curObjects > 0 /\ ~slots[curObjects].used
    /\ curWaste' = Wrap(curWaste - LastSize)
    /\ heapUsed' = heapUsed - LastSize
    /\ curObjects' = curObjects - 1
    /\ UNCHANGED <<cs, builder, slots, fragmented, age, locking, loop, client,
                   heap>>
CleanDone == curObjects > 0 => slots[curObjects].used

CleanFreeEnd ==
    /\ cs = "cleanFree" /\ CleanDone /\ Leave
    /\ UNCHANGED <<builder, slots, space, age, locking, loop, client, heap>>

\* Age, which quits the program when an object is locked.  (Mutant: it goes
\* on.)
AnyLocks == TRUE
NoLocks  == objectLocks = 0
AgeBegin ==
    /\ Enter("expire")
    /\ age < MaxAge /\ NoLocks /\ objectLock \in {NoThread, Main}
    /\ objectLock' = Main
    /\ age' = age + 1
    /\ scan' = 1
    /\ UNCHANGED <<builder, slots, space, objectLocks, live, top, client, heap>>

Expired(i) == slots[i].used /\ slots[i].age + MaxObjectAge < age

ExpiredWaste(i) == slots[i].max
ExpireStep ==
    /\ cs = "expire" /\ scan <= curObjects
    /\ scan' = scan + 1
    /\ IF Expired(scan)
       THEN Unload(scan) /\ curWaste' = Wrap(curWaste + ExpiredWaste(scan))
       ELSE UNCHANGED <<slots, client, curWaste>>
    /\ UNCHANGED <<cs, builder, curObjects, heapUsed, fragmented, age, locking,
                   live, top, heap>>
ExpireEnd ==
    /\ cs = "expire" /\ scan > curObjects
    /\ cs' = "cleanAge" /\ scan' = 0
    /\ UNCHANGED <<builder, slots, space, age, locking, live, top, client, heap>>

\* Too many failures or too much waste: the objects move together.
Compacts == fragmented \/ 4 * curWaste > HeapSize
CleanAgeEnd ==
    /\ cs = "cleanAge" /\ CleanDone
    /\ IF Compacts
       THEN cs' = "compact" /\ scan' = 1 /\ UNCHANGED objectLock
       ELSE Leave /\ objectLock' = NoThread /\ UNCHANGED scan
    /\ UNCHANGED <<builder, slots, space, age, objectLocks, live, top, client,
                   heap>>

CompactSkip ==
    /\ cs = "compact" /\ scan <= curObjects /\ ~slots[scan].used
    /\ scan' = scan + 1
    /\ UNCHANGED <<cs, builder, slots, space, age, locking, live, top, client,
                   heap>>

\* memmove of the n units at a to b.
Moved(a, b, n) == [x \in Address |-> IF x \in b .. b + n - 1
                                     THEN heap[x - b + a] ELSE heap[x]]

\* Slot scan becomes slot live + 1; its client learns its new handle and moves
\* its pointer.  (Mutants: the client keeps its old handle, or its pointer.)
OldHandle == scan
NewHandle == live + 1
NotFixedUp(p, delta)   == p
PointerFixup(p, delta) == IF p = Null THEN Null ELSE p + delta

CompactMove ==
    LET o == slots[scan] IN
    /\ cs = "compact" /\ scan <= curObjects /\ o.used
    /\ scan' = scan + 1 /\ live' = live + 1 /\ top' = top + o.total
    /\ slots' = [slots EXCEPT ![live + 1] = [o EXCEPT !.base = top,
                                                      !.max = o.total]]
    /\ handle'  = [handle EXCEPT ![o.owner] = NewHandle]
    /\ pointer' = [pointer EXCEPT ![o.owner] = PointerFixup(@, top - o.base)]
    /\ heap' = Moved(o.base, top, o.total)
    /\ UNCHANGED <<cs, builder, space, age, locking>>

\* The slots behind the last object are cleared.  (Mutant: they are not.)
LeftAsIs(o) == o
Cleared(o)  == [o EXCEPT !.used = FALSE, !.total = 0, !.base = 0]

CompactEnd ==
    /\ cs = "compact" /\ scan > curObjects /\ Leave
    /\ slots' = [i \in Index |-> IF i \in live + 1 .. curObjects
                                 THEN Cleared(slots[i]) ELSE slots[i]]
    /\ curObjects' = live /\ heapUsed' = top
    /\ fragmented' = FALSE /\ curWaste' = 0
    /\ scan' = 0 /\ live' = 0 /\ top' = 0
    /\ objectLock' = NoThread
    /\ UNCHANGED <<builder, age, objectLocks, client, heap>>

Aging == ExpireStep \/ ExpireEnd \/ CleanStep \/ CleanAgeEnd \/ CleanFreeEnd
         \/ CompactSkip \/ CompactMove \/ CompactEnd
Building(c) == \/ WasteBound /\ (BeginAppend(c) \/ BeginReuse(c))
               \/ BeginFail(c) \/ Fill(c) \/ EndObject(c)
Using(c)    == \/ WasteBound /\ Lock(c)
               \/ Unlock(c) \/ UnlockAndFree(c) \/ Free(c)

Next == \/ Open \/ Shutdown \/ AgeBegin \/ Aging
        \/ \E c \in Clients : Building(c) \/ Using(c)

Spec == Init /\ [][Next]_vars
-----------------------------------------------------------------------------
Slot == [used : BOOLEAN, owner : Clients \cup {NoClient},
         base : 0 .. HeapSize, max : 0 .. HeapSize, total : 0 .. HeapSize,
         locks : 0 .. MaxLocks, age : 0 .. MaxAge]

\* Every variable holds a value of its type.
TypeOK ==
    /\ cs \in Phases /\ builder \in Clients \cup {NoClient}
    /\ slots \in [Index -> Slot]
    /\ curObjects \in 0 .. MaxObjects /\ heapUsed \in 0 .. HeapSize
    /\ curWaste \in 0 .. WasteWidth - 1 /\ fragmented \in BOOLEAN
    /\ age \in 0 .. MaxAge
    /\ objectLocks \in Nat /\ objectLock \in {Main, Pager, NoThread}
    /\ scan \in 0 .. MaxObjects + 1 /\ live \in 0 .. MaxObjects
    /\ top \in 0 .. HeapSize
    /\ handle \in [Clients -> 0 .. MaxObjects]
    /\ pointer \in [Clients -> Address \cup {Null}]
    /\ heap \in [Address -> Clients \cup {NoClient}]

\* The slots that count: while Age compacts, those it has moved and those it
\* has not reached.
Current  == IF cs = "compact" THEN (1 .. live) \cup (scan .. curObjects)
                              ELSE 1 .. curObjects
Resident == {i \in Current : slots[i].used}

LockCount(c) == IF handle[c] = 0 THEN 0 ELSE slots[handle[c]].locks

\* The objects lie one behind the other from the start of the heap to
\* heap_used_, which is inside it: what CleanEndOfHeap asserts ("Object
\* Corrupt") and BeginObject relies on when it appends, whatever was unloaded,
\* replaced by something smaller, dropped or moved in between.
Tile(i, j) == \A k \in i + 1 .. j : slots[k].base = slots[k-1].base + slots[k-1].max
End(i)     == IF i = 0 THEN 0 ELSE slots[i].base + slots[i].max
HeapIsTiled ==
    /\ cs # "compact" => heapUsed = End(curObjects)
    /\ IF cs = "compact"
       THEN /\ Tile(1, live) /\ Tile(scan, curObjects) /\ top = End(live)
            /\ scan <= curObjects => top <= slots[scan].base
       ELSE Tile(1, curObjects)
    /\ 1 \in Current => slots[1].base = 0

\* A client's handle is the slot that holds its object, and every object has
\* one client with that handle: no handle survives its object, and none is
\* left behind when Age renumbers the slots.
HandlesMatch ==
    /\ \A c \in Clients : handle[c] # 0 =>
          handle[c] \in Resident /\ slots[handle[c]].owner = c
    /\ \A i \in Resident : slots[i].owner \in Clients
                            /\ handle[slots[i].owner] = i

\* A client that has a pointer finds its own data there, wherever the object
\* was moved, and a client with an object that is built has a pointer.
DataIntact ==
    \A c \in Clients :
       IF pointer[c] = Null
       THEN handle[c] = 0 \/ c = builder
       ELSE /\ handle[c] # 0 /\ pointer[c] = slots[handle[c]].base
            /\ \A a \in pointer[c] .. pointer[c] + SizeOf[c] - 1 :
                  a \in Address /\ heap[a] = c

\* What InitObject asserts of the slot it is given ("Object In Use", "Object
\* Not Empty"): an unused slot, or one behind the last, is empty.
FreeSlotsAreEmpty ==
    cs # "compact" =>
       \A i \in Index : ~slots[i].used \/ i > curObjects =>
          ~slots[i].used /\ slots[i].total = 0 /\ slots[i].locks = 0

\* Handles, owners and slots agree, the slots that nobody owns included.
SlotsMatch == HandlesMatch /\ FreeSlotsAreEmpty

\* object_lock_ is held exactly while some object is locked or Age runs, and
\* the thread that will drop the last lock is the one that holds it: no
\* thread releases a mutex that another one took.
LockIsOwners ==
    /\ (objectLock = NoThread) <=>
          (objectLocks = 0 /\ cs \notin {"expire", "cleanAge", "compact"})
    /\ objectLocks = 1 => objectLock = IF cs = "build" THEN Pager ELSE Main
    /\ objectLocks > 1 => objectLock = Main

\* object_locks_ is how many locks there are on all objects together.
LockSet    == {l \in Clients \X (1 .. MaxLocks) : l[2] <= LockCount(l[1])}
LocksAddUp == objectLocks = Cardinality(LockSet)

\* Locks are counted right, and the mutex they take belongs to the right thread.
LocksMatch == LocksAddUp /\ LockIsOwners

\* An object on which a lock is held and not given up stays where it is.
LockedStaysPut ==
    \A c \in Clients :
       LockCount(c) > 0 /\ pointer[c] # Null =>
          \/ handle'[c] = handle[c] /\ pointer'[c] = pointer[c]
          \/ LockCount(c) = 1 /\ objectLocks' = objectLocks - 1

\* An object that was locked or built in this frame is not evicted in it to
\* make room: a frame never pages out what it draws.
FrameStaysResident ==
    \A c \in Clients :
       /\ builder = NoClient /\ builder' # NoClient
       /\ handle[c] # 0 /\ slots[handle[c]].age = age
       => handle'[c] = handle[c]

\* What is in use is neither moved nor evicted by any step.
InUseStaysPut == [][LockedStaysPut /\ FrameStaysResident]_vars
=============================================================================
