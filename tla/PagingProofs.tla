---------------------------- MODULE PagingProofs ----------------------------
(***************************************************************************)
(* Proofs about DataCache, for any heap, any objects and any order of the  *)
(* calls, and about Paging on top of it, for any order in which the main   *)
(* thread and the pager take their steps.                                  *)
(***************************************************************************)
EXTENDS Paging, FiniteSetTheorems, TLAPS

-----------------------------------------------------------------------------
(* The cache *)

\* Where the holder of cache_lock_ is, and what it has done there.
PhaseInv ==
    /\ builder # NoClient <=> cs = "build"
    /\ cs = "closed" => curObjects = 0
    /\ cs = "expire" => scan \in 1 .. curObjects + 1
    /\ cs = "compact" => scan \in 1 .. curObjects + 1 /\ live < scan
    /\ cs # "compact" => live = 0 /\ top = 0
    /\ cs \in {"expire", "cleanAge", "compact"} => objectLocks = 0
    /\ cs = "build" => handle[builder] # 0 /\ slots[handle[builder]].locks = 1

\* The slots that count lie in the order of their numbers, below heap_used_;
\* while Age compacts, top is between what has moved and what has not.
LaidInv ==
    /\ \A i, j \in Current : i < j => End(i) <= slots[j].base
    /\ \A i \in Current : End(i) <= heapUsed
    /\ cs = "compact" => top <= heapUsed /\ \A i \in 1 .. live : End(i) <= top

\* An object has the size its client asked for, and it has room for it; it is
\* empty until the client has its pointer.
SizedInv ==
    \A i \in Resident :
       /\ SizeOf[slots[i].owner] <= slots[i].max
       /\ slots[i].total = IF pointer[slots[i].owner] = Null THEN 0
                           ELSE SizeOf[slots[i].owner]

\* While Age compacts no slot is locked, those it has filled are used, and
\* those behind the last object are empty.
CompactInv ==
    cs = "compact" =>
       \A i \in Index : /\ slots[i].locks = 0
                        /\ i <= live => slots[i].used
                        /\ i > curObjects => ~slots[i].used /\ slots[i].total = 0

IInv == /\ TypeOK /\ PhaseInv /\ HeapIsTiled /\ LaidInv /\ SlotsMatch /\ SizedInv
        /\ CompactInv /\ DataIntact /\ LocksMatch
-----------------------------------------------------------------------------
(* What the types say of each part *)

LEMMA Consts ==
    /\ HeapSize \in Nat /\ MaxObjects \in Nat /\ MaxLocks \in Nat /\ MaxLocks > 0
    /\ MaxAge \in Nat /\ WasteWidth \in Nat /\ WasteWidth > 0
    /\ NoClient \notin Clients /\ Main # Pager /\ NoThread # Main /\ NoThread # Pager
    /\ \A c \in Clients : SizeOf[c] \in Nat /\ SizeOf[c] > 0
BY CacheAssumption

LEMMA SlotFacts ==
    ASSUME TypeOK
    PROVE  /\ \A i \in Index :
                 /\ slots[i] \in Slot /\ slots[i].used \in BOOLEAN
                 /\ slots[i].owner \in Clients \cup {NoClient}
                 /\ slots[i].base \in 0 .. HeapSize /\ slots[i].max \in 0 .. HeapSize
                 /\ slots[i].total \in 0 .. HeapSize /\ slots[i].locks \in 0 .. MaxLocks
                 /\ slots[i].age \in 0 .. MaxAge
           /\ DOMAIN slots = Index
BY DEF TypeOK, Slot

LEMMA Wrapped == ASSUME NEW n \in Int PROVE Wrap(n) \in 0 .. WasteWidth - 1
BY Consts DEF Wrap

Least(S) == CHOOSE n \in S : \A m \in S : n <= m

\* A set of numbers has a least one: of the intervals 0..n that end in it, one
\* contains no other.
LEMMA LeastExists ==
    ASSUME NEW S, S \subseteq Nat, S # {}
    PROVE  Least(S) \in S /\ \A m \in S : Least(S) <= m
<1> DEFINE Q == {0 .. n : n \in S}
<1>1. Q \subseteq FiniteSubsetsOf(Nat) /\ Q # {}
  <2>1. ASSUME NEW n \in S PROVE IsFiniteSet(0 .. n) /\ 0 .. n \in SUBSET Nat
    BY FS_Interval
  <2> QED BY <2>1 DEF FiniteSubsetsOf
<1>2. IsWellFoundedOn(StrictSubsetOrdering(Nat), FiniteSubsetsOf(Nat))
  BY FS_StrictSubsetOrderingWellFounded
<1>3. PICK x \in Q : \A y \in Q : ~(<<y, x>> \in StrictSubsetOrdering(Nat))
  <2> HIDE DEF Q
  <2> QED BY <1>1, <1>2, WFMin, Zenon
<1>4. PICK n \in S : x = 0 .. n
  BY <1>3
<1>5. ASSUME NEW m \in S PROVE n <= m
  <2>1. SUFFICES ASSUME m < n PROVE FALSE
    BY <1>4, <1>5
  <2>2. 0 .. m \subseteq 0 .. n /\ 0 .. m # 0 .. n
        /\ 0 .. m \in SUBSET Nat /\ 0 .. n \in SUBSET Nat
    BY <2>1
  <2>3. <<0 .. m, 0 .. n>> \in StrictSubsetOrdering(Nat)
    BY <2>2 DEF StrictSubsetOrdering
  <2> QED BY <1>3, <1>4, <2>3
<1> QED BY <1>5 DEF Least

\* A slot that holds an object is that of its owner, and only of its owner.
LEMMA Owned ==
    ASSUME TypeOK, HandlesMatch, NEW c \in Clients, handle[c] # 0
    PROVE  /\ handle[c] \in Index /\ handle[c] \in Current /\ slots[handle[c]].used
           /\ slots[handle[c]].owner = c
           /\ \A d \in Clients : handle[d] = handle[c] => d = c
<1>1. handle[c] \in Resident /\ slots[handle[c]].owner = c
  BY DEF HandlesMatch
<1>2. \A d \in Clients : handle[d] = handle[c] => d = c
  BY <1>1 DEF HandlesMatch
<1> QED BY <1>1, <1>2 DEF Resident, TypeOK, Index, Current
-----------------------------------------------------------------------------
(* Types *)

\* What the tightest fit is.
LEMMA VictimFacts ==
    ASSUME TypeOK, NEW n \in Nat, Fits(n, 0) # {}
    PROVE  /\ Victim(n) \in 1 .. curObjects /\ Victim(n) \in Index
           /\ n <= slots[Victim(n)].max /\ slots[Victim(n)].locks = 0
           /\ slots[Victim(n)].age < age
<1> DEFINE K(k) == Fits(n, k) # {} /\ \A m \in k + 1 .. 3 : Fits(n, m) = {}
           shift == CHOOSE k \in 0 .. 3 : K(k)
           fits == Fits(n, shift)
           First(j) == \A k \in fits : \/ slots[j].age < slots[k].age
                                       \/ slots[j].age = slots[k].age /\ j <= k
<1>1. \E k \in 0 .. 3 : K(k)
  <2> DEFINE F(k) == Fits(n, k) # {}
  <2>1. F(0)
    OBVIOUS
  <2> HIDE DEF F
  <2>2. \E k \in 0 .. 3 : F(k) /\ \A m \in k + 1 .. 3 : ~F(m)
    <3>1. CASE F(3)
      BY <3>1
    <3>2. CASE F(2) /\ ~F(3)
      BY <3>2
    <3>3. CASE F(1) /\ ~F(2) /\ ~F(3)
      BY <3>3
    <3>4. CASE ~F(1) /\ ~F(2) /\ ~F(3)
      BY <2>1, <3>4
    <3> QED BY <3>1, <3>2, <3>3, <3>4
  <2> QED BY <2>2 DEF F
<1>2. shift \in 0 .. 3 /\ fits # {}
  BY <1>1
<1> HIDE DEF shift
<1>3. \A j \in fits : /\ j \in 1 .. curObjects /\ j \in Index /\ j \in Nat
                      /\ n <= slots[j].max /\ slots[j].locks = 0
                      /\ slots[j].age < age /\ slots[j].age \in Nat
  <2> SUFFICES ASSUME NEW j \in fits
               PROVE  /\ j \in 1 .. curObjects /\ j \in Index /\ j \in Nat
                      /\ n <= slots[j].max /\ slots[j].locks = 0
                      /\ slots[j].age < age /\ slots[j].age \in Nat
    OBVIOUS
  <2>1. j \in 1 .. curObjects /\ SizeFits(j, n, shift) /\ slots[j].locks = 0 /\ slots[j].age < age
    BY DEF Fits
  <2>2. curObjects \in 0 .. MaxObjects
    BY DEF TypeOK
  <2>3. j \in Index /\ j \in Nat
    BY <2>1, <2>2, Consts DEF Index
  <2>4. slots[j].max \in Nat /\ slots[j].age \in Nat
    BY <2>3, SlotFacts, Consts
  <2>5. n <= slots[j].max
    BY <2>1, <2>4 DEF SizeFits
  <2> QED BY <2>1, <2>3, <2>4, <2>5
<1> HIDE DEF fits
<1>4. \E j \in fits : First(j)
  <2> DEFINE A == {slots[j].age : j \in fits}
             a == Least(A)
             B == {j \in fits : slots[j].age = a}
  <2>0. A \subseteq Nat /\ A # {}
    BY <1>2, <1>3
  <2> HIDE DEF A
  <2>1. a \in A /\ \A x \in A : a <= x
    BY <2>0, LeastExists
  <2> HIDE DEF a
  <2>3. B \subseteq Nat /\ B # {}
    BY <1>3, <2>1 DEF A
  <2> HIDE DEF B
  <2>2. Least(B) \in B /\ \A x \in B : Least(B) <= x
    BY <2>3, LeastExists
  <2>4. First(Least(B))
    BY <1>3, <2>1, <2>2 DEF A, B
  <2> QED BY <2>2, <2>4 DEF B
<1> HIDE DEF First
<1>5. Victim(n) = CHOOSE j \in fits : First(j)
  BY DEF Victim, First, fits, shift
<1>6. Victim(n) \in fits
  BY <1>4, <1>5
<1> QED BY <1>3, <1>6

\* A slot that is given a record of its fields, and the others as they were.
LEMMA OneSlot ==
    ASSUME TypeOK, NEW i \in Index, NEW r \in Slot, slots' = [slots EXCEPT ![i] = r]
    PROVE  /\ slots' \in [Index -> Slot] /\ slots'[i] = r
           /\ \A j \in Index : j # i => slots'[j] = slots[j]
<1>1. slots \in [Index -> Slot]
  BY DEF TypeOK
<1> HIDE DEF Index, Slot
<1> QED BY <1>1

\* What each change of several fields, or of one, makes of a record.
Unloaded(s)          == [s EXCEPT !.used = FALSE, !.owner = NoClient, !.age = 0,
                                  !.total = 0, !.locks = 0]
Begun(s, o, b, m, a) == [s EXCEPT !.used = TRUE, !.owner = o, !.base = b, !.max = m,
                                  !.locks = 1, !.age = a]
Locked(s, n, a)      == [s EXCEPT !.locks = n, !.age = a]
Unlocked(s, n)       == [s EXCEPT !.locks = n]
Filled(s, n)         == [s EXCEPT !.total = n]

LEMMA UnloadedRecord ==
    ASSUME NEW s \in Slot, NEW r, r = Unloaded(s)
    PROVE  /\ r \in Slot /\ ~r.used /\ r.owner = NoClient /\ r.age = 0 /\ r.total = 0
           /\ r.locks = 0 /\ r.base = s.base /\ r.max = s.max
<1>1. r \in Slot
  <2>1. PICK t : t = [s EXCEPT !.used = FALSE, !.owner = NoClient]
    OBVIOUS
  <2>2. PICK u : u = [t EXCEPT !.age = 0, !.total = 0]
    OBVIOUS
  <2>3. t \in Slot
    BY <2>1 DEF Slot
  <2>4. 0 \in 0 .. MaxAge /\ 0 \in 0 .. HeapSize /\ 0 \in 0 .. MaxLocks
    BY Consts
  <2>5. u \in Slot
    BY <2>2, <2>3, <2>4 DEF Slot
  <2>6. [u EXCEPT !.locks = 0] \in Slot
    BY <2>4, <2>5 DEF Slot
  <2>7. r = [u EXCEPT !.locks = 0]
    BY <2>1, <2>2, Zenon DEF Unloaded
  <2> QED BY <2>6, <2>7
<1>2. /\ ~r.used /\ r.owner = NoClient /\ r.age = 0 /\ r.total = 0
      /\ r.locks = 0 /\ r.base = s.base /\ r.max = s.max
  BY DEF Slot, Unloaded
<1> QED BY <1>1, <1>2

LEMMA BegunRecord ==
    ASSUME NEW s \in Slot, NEW o \in Clients, NEW b \in 0 .. HeapSize,
           NEW m \in 0 .. HeapSize, NEW a \in 0 .. MaxAge, NEW r, r = Begun(s, o, b, m, a)
    PROVE  /\ r \in Slot /\ r.used /\ r.owner = o /\ r.base = b /\ r.max = m
           /\ r.locks = 1 /\ r.age = a /\ r.total = s.total
<1>1. r \in Slot
  <2>1. PICK t : t = [s EXCEPT !.used = TRUE, !.owner = o]
    OBVIOUS
  <2>2. PICK u : u = [t EXCEPT !.base = b, !.max = m]
    OBVIOUS
  <2>3. t \in Slot
    BY <2>1 DEF Slot
  <2>4. u \in Slot
    BY <2>2, <2>3 DEF Slot
  <2>5. [u EXCEPT !.locks = 1, !.age = a] \in Slot
    <3>1. 1 \in 0 .. MaxLocks
      BY Consts
    <3> QED BY <2>4, <3>1 DEF Slot
  <2>6. r = [u EXCEPT !.locks = 1, !.age = a]
    BY <2>1, <2>2, Zenon DEF Begun
  <2> QED BY <2>5, <2>6
<1>2. /\ r.used /\ r.owner = o /\ r.base = b /\ r.max = m
      /\ r.locks = 1 /\ r.age = a /\ r.total = s.total
  BY DEF Slot, Begun
<1> QED BY <1>1, <1>2

LEMMA LockedRecord ==
    ASSUME NEW s \in Slot, NEW n \in 0 .. MaxLocks, NEW a \in 0 .. MaxAge, NEW r,
           r = Locked(s, n, a) \/ r = Unlocked(s, n)
    PROVE  /\ r \in Slot /\ r.locks = n /\ r.used = s.used /\ r.owner = s.owner
           /\ r.base = s.base /\ r.max = s.max /\ r.total = s.total
<1>1. CASE r = Locked(s, n, a)
  BY <1>1 DEF Slot, Locked
<1>2. CASE r = Unlocked(s, n)
  BY <1>2 DEF Slot, Unlocked
<1> QED BY <1>1, <1>2

LEMMA FilledRecord ==
    ASSUME NEW s \in Slot, NEW n \in 0 .. HeapSize, NEW r, r = Filled(s, n)
    PROVE  /\ r \in Slot /\ r.locks = s.locks /\ r.used = s.used /\ r.owner = s.owner
           /\ r.base = s.base /\ r.max = s.max /\ r.total = n /\ r.age = s.age
BY DEF Slot, Filled

\* What each action makes of the slot it changes.
LEMMA UnloadEffect ==
    ASSUME TypeOK, NEW i \in Index, Unload(i)
    PROVE  /\ slots' \in [Index -> Slot]
           /\ \A j \in Index : j # i => slots'[j] = slots[j]
           /\ ~slots'[i].used /\ slots'[i].owner = NoClient /\ slots'[i].age = 0
           /\ slots'[i].total = 0 /\ slots'[i].locks = 0
           /\ slots'[i].base = slots[i].base /\ slots'[i].max = slots[i].max
<1>1. slots[i] \in Slot
  BY SlotFacts
<1>2. PICK r : r = Unloaded(slots[i])
  OBVIOUS
<1>3. slots' = [slots EXCEPT ![i] = r]
  BY <1>2 DEF Unload, Unloaded
<1>4. /\ r \in Slot /\ ~r.used /\ r.owner = NoClient /\ r.age = 0 /\ r.total = 0
      /\ r.locks = 0 /\ r.base = slots[i].base /\ r.max = slots[i].max
  BY <1>1, <1>2, UnloadedRecord
<1> QED BY <1>3, <1>4, OneSlot

LEMMA InitObjectEffect ==
    ASSUME TypeOK, NEW s \in [Index -> Slot], NEW i \in Index, NEW c \in Clients,
           NEW base \in 0 .. HeapSize, NEW size \in 0 .. HeapSize,
           InitObject(s, i, c, base, size)
    PROVE  /\ slots' \in [Index -> Slot]
           /\ \A j \in Index : j # i => slots'[j] = s[j]
           /\ slots'[i].used /\ slots'[i].owner = c /\ slots'[i].base = base
           /\ slots'[i].max = size /\ slots'[i].locks = 1 /\ slots'[i].age = age
           /\ slots'[i].total = s[i].total
<1>1. s[i] \in Slot /\ age \in 0 .. MaxAge
  BY DEF TypeOK
<1>2. PICK r : r = Begun(s[i], c, base, size, age)
  OBVIOUS
<1>3. slots' = [s EXCEPT ![i] = r]
  BY <1>2 DEF InitObject, Begun
<1>4. /\ r \in Slot /\ r.used /\ r.owner = c /\ r.base = base /\ r.max = size
      /\ r.locks = 1 /\ r.age = age /\ r.total = s[i].total
  BY <1>1, <1>2, BegunRecord
<1> HIDE DEF Slot, Index
<1>5. /\ slots' \in [Index -> Slot] /\ slots'[i] = r
      /\ \A j \in Index : j # i => slots'[j] = s[j]
  BY <1>3, <1>4
<1> QED BY <1>4, <1>5

\* The lock count and the age of a slot, the latter as it was or new.
LEMMA LocksEffect ==
    ASSUME TypeOK, NEW i \in Index, NEW n \in 0 .. MaxLocks, NEW a \in 0 .. MaxAge,
           \/ slots' = [slots EXCEPT ![i] = Locked(@, n, a)]
           \/ slots' = [slots EXCEPT ![i] = Unlocked(@, n)]
    PROVE  /\ slots' \in [Index -> Slot]
           /\ \A j \in Index : j # i => slots'[j] = slots[j]
           /\ slots'[i].locks = n /\ slots'[i].used = slots[i].used
           /\ slots'[i].owner = slots[i].owner /\ slots'[i].base = slots[i].base
           /\ slots'[i].max = slots[i].max /\ slots'[i].total = slots[i].total
<1>1. slots[i] \in Slot
  BY SlotFacts
<1>2. PICK r : /\ r = Locked(slots[i], n, a) \/ r = Unlocked(slots[i], n)
               /\ slots' = [slots EXCEPT ![i] = r]
  OBVIOUS
<1>3. /\ r \in Slot /\ r.locks = n /\ r.used = slots[i].used
      /\ r.owner = slots[i].owner /\ r.base = slots[i].base
      /\ r.max = slots[i].max /\ r.total = slots[i].total
  BY <1>1, <1>2, LockedRecord
<1> QED BY <1>2, <1>3, OneSlot

SetTotal(i, n) == [slots EXCEPT ![i].total = n]

LEMMA TotalEffect ==
    ASSUME TypeOK, NEW i \in Index, NEW n \in 0 .. HeapSize
    PROVE  /\ SetTotal(i, n) \in [Index -> Slot] /\ SetTotal(i, n)[i] = Filled(slots[i], n)
           /\ \A j \in Index : j # i => SetTotal(i, n)[j] = slots[j]
<1>1. slots[i] \in Slot /\ slots \in [Index -> Slot]
  BY DEF TypeOK
<1>2. Filled(slots[i], n) \in Slot
  BY <1>1, FilledRecord
<1>3. SetTotal(i, n) = [slots EXCEPT ![i] = Filled(slots[i], n)]
  BY DEF Filled, SetTotal
<1> HIDE DEF Slot, Index
<1> QED BY <1>1, <1>2, <1>3
-----------------------------------------------------------------------------
(* Counting locks: object_locks_ is the number of pairs of a client and one *)
(* of its locks.                                                            *)

Tally(k) == {l \in Clients \X (1 .. MaxLocks) : l[2] <= k[l[1]]}
Counts   == [c \in Clients |-> LockCount(c)]

LEMMA TallyFinite == ASSUME NEW k PROVE IsFiniteSet(Tally(k)) /\ Cardinality(Tally(k)) \in Nat
<1>1. IsFiniteSet(1 .. MaxLocks)
  BY Consts, FS_Interval
<1>2. IsFiniteSet(Clients)
  BY CacheAssumption
<1>3. IsFiniteSet(Clients \X (1 .. MaxLocks))
  BY <1>1, <1>2, FS_Product
<1>4. Tally(k) \in SUBSET (Clients \X (1 .. MaxLocks))
  BY DEF Tally
<1>5. IsFiniteSet(Tally(k))
  BY <1>3, <1>4, FS_Subset
<1> QED BY <1>5, FS_CardinalityType

\* One lock more, of one client.
LEMMA TallyUp ==
    ASSUME NEW k \in [Clients -> 0 .. MaxLocks], NEW m \in [Clients -> 0 .. MaxLocks],
           NEW c \in Clients, m[c] = k[c] + 1, \A d \in Clients : d # c => m[d] = k[d]
    PROVE  Cardinality(Tally(m)) = Cardinality(Tally(k)) + 1
<1> DEFINE x == <<c, k[c] + 1>>
<1>0. k[c] \in Nat /\ k[c] + 1 \in 1 .. MaxLocks
  BY Consts
<1>1. x \notin Tally(k)
  BY <1>0 DEF Tally
<1>2. Tally(m) = Tally(k) \cup {x}
  <2>1. x \in Tally(m)
    BY <1>0 DEF Tally
  <2>2. ASSUME NEW l \in Clients \X (1 .. MaxLocks), l # x
        PROVE  l[2] <= m[l[1]] <=> l[2] <= k[l[1]]
    <3>1. l[1] \in Clients /\ l[2] \in 1 .. MaxLocks /\ l = <<l[1], l[2]>>
      OBVIOUS
    <3>2. CASE l[1] = c
      <4>1. l[2] # k[c] + 1
        BY <2>2, <3>1, <3>2
      <4>2. m[l[1]] = k[c] + 1 /\ k[l[1]] = k[c] /\ l[2] \in Nat
        BY <3>1, <3>2
      <4> QED BY <1>0, <4>1, <4>2
    <3>3. CASE l[1] # c
      BY <3>1, <3>3
    <3> QED BY <3>2, <3>3
  <2>3. ASSUME NEW l PROVE l \in Tally(m) <=> l \in Tally(k) \/ l = x
    <3>1. CASE l = x
      BY <2>1, <3>1
    <3>2. CASE l # x
      <4> HIDE DEF x
      <4> QED BY <2>2, <3>2 DEF Tally
    <3> QED BY <3>1, <3>2
  <2> QED BY <2>3
<1>3. IsFiniteSet(Tally(k)) /\ Cardinality(Tally(k)) \in Nat
  BY TallyFinite
<1> HIDE DEF x
<1>4. Cardinality(Tally(k) \cup {x}) = Cardinality(Tally(k)) + 1
  BY <1>1, <1>3, FS_AddElement
<1> QED BY <1>2, <1>4

LEMMA TallyZero ==
    ASSUME NEW k \in [Clients -> 0 .. MaxLocks]
    PROVE  Cardinality(Tally(k)) = 0 <=> \A c \in Clients : k[c] = 0
<1>1. Cardinality(Tally(k)) = 0 <=> Tally(k) = {}
  BY TallyFinite, FS_EmptySet
<1>2. ASSUME NEW c \in Clients, k[c] # 0 PROVE Tally(k) # {}
  <2>1. k[c] \in 1 .. MaxLocks
    BY <1>2, Consts
  <2>2. <<c, k[c]>> \in Tally(k)
    BY <2>1 DEF Tally
  <2> QED BY <2>2
<1>3. ASSUME NEW l \in Tally(k) PROVE k[l[1]] # 0 /\ l[1] \in Clients
  BY Consts DEF Tally
<1> QED BY <1>1, <1>2, <1>3

CountFacts ==
    /\ \A c \in Clients : LockCount(c) \in 0 .. MaxLocks
    /\ Counts \in [Clients -> 0 .. MaxLocks] /\ LockSet = Tally(Counts)
    /\ \A c \in Clients : Counts[c] = LockCount(c)

LEMMA CountTypes == TypeOK => CountFacts
<1> SUFFICES ASSUME TypeOK PROVE CountFacts
  OBVIOUS
<1>1. ASSUME NEW c \in Clients PROVE LockCount(c) \in 0 .. MaxLocks
  <2>1. handle[c] \in 0 .. MaxObjects
    BY DEF TypeOK
  <2>2. handle[c] # 0 => handle[c] \in Index
    BY <2>1, Consts DEF Index
  <2>3. handle[c] # 0 => slots[handle[c]].locks \in 0 .. MaxLocks
    BY <2>2, SlotFacts
  <2> QED BY <2>3, Consts DEF LockCount
<1>2. Counts \in [Clients -> 0 .. MaxLocks] /\ \A c \in Clients : Counts[c] = LockCount(c)
  BY <1>1 DEF Counts
<1>3. LockSet = Tally(Counts)
  BY <1>2, Zenon DEF LockSet, Tally, Counts
<1> QED BY <1>1, <1>2, <1>3 DEF CountFacts

\* The same for the states before and after a step.
LEMMA LocksSame ==
    ASSUME LocksAddUp, \A c \in Clients : LockCount(c)' = LockCount(c),
           objectLocks' = objectLocks
    PROVE  LocksAddUp'
<1>1. LockSet' = LockSet
  BY DEF LockSet
<1> QED BY <1>1 DEF LocksAddUp

LEMMA LocksUp ==
    ASSUME TypeOK, TypeOK', LocksAddUp, NEW c \in Clients,
           LockCount(c)' = LockCount(c) + 1,
           \A d \in Clients : d # c => LockCount(d)' = LockCount(d),
           objectLocks' = objectLocks + 1
    PROVE  LocksAddUp'
<1>1. /\ Counts \in [Clients -> 0 .. MaxLocks] /\ LockSet = Tally(Counts)
      /\ \A d \in Clients : Counts[d] = LockCount(d)
  BY CountTypes DEF CountFacts
<1>2. /\ Counts' \in [Clients -> 0 .. MaxLocks] /\ LockSet' = Tally(Counts')
      /\ \A d \in Clients : Counts'[d] = LockCount(d)'
  <2>1. TypeOK' => CountFacts'
    BY CountTypes, PTL
  <2> QED BY <2>1 DEF CountFacts, Tally
<1>3. Cardinality(Tally(Counts')) = Cardinality(Tally(Counts)) + 1
  <2>1. /\ Counts'[c] = Counts[c] + 1
        /\ \A d \in Clients : d # c => Counts'[d] = Counts[d]
    BY <1>1, <1>2
  <2> HIDE DEF Counts
  <2> QED BY <1>1, <1>2, <2>1, TallyUp
<1> QED BY <1>1, <1>2, <1>3 DEF LocksAddUp

LEMMA LocksDown ==
    ASSUME TypeOK, TypeOK', LocksAddUp, NEW c \in Clients,
           LockCount(c) = LockCount(c)' + 1,
           \A d \in Clients : d # c => LockCount(d)' = LockCount(d),
           objectLocks' = objectLocks - 1
    PROVE  LocksAddUp'
<1>1. /\ Counts \in [Clients -> 0 .. MaxLocks] /\ LockSet = Tally(Counts)
      /\ \A d \in Clients : Counts[d] = LockCount(d)
  BY CountTypes DEF CountFacts
<1>2. /\ Counts' \in [Clients -> 0 .. MaxLocks] /\ LockSet' = Tally(Counts')
      /\ \A d \in Clients : Counts'[d] = LockCount(d)'
  <2>1. TypeOK' => CountFacts'
    BY CountTypes, PTL
  <2> QED BY <2>1 DEF CountFacts, Tally
<1>3. Cardinality(Tally(Counts)) = Cardinality(Tally(Counts')) + 1
  <2>1. /\ Counts[c] = Counts'[c] + 1
        /\ \A d \in Clients : d # c => Counts[d] = Counts'[d]
    BY <1>1, <1>2
  <2> HIDE DEF Counts
  <2> QED BY <1>1, <1>2, <2>1, TallyUp
<1>4. Cardinality(Tally(Counts')) \in Nat
  BY TallyFinite
<1> QED BY <1>1, <1>2, <1>3, <1>4 DEF LocksAddUp

LEMMA NoLocksAtAll ==
    ASSUME TypeOK, LocksAddUp
    PROVE  objectLocks = 0 <=> \A c \in Clients : LockCount(c) = 0
<1>1. /\ Counts \in [Clients -> 0 .. MaxLocks] /\ LockSet = Tally(Counts)
      /\ \A d \in Clients : Counts[d] = LockCount(d)
  BY CountTypes DEF CountFacts
<1> HIDE DEF Counts
<1>2. Cardinality(Tally(Counts)) = 0 <=> \A c \in Clients : Counts[c] = 0
  BY <1>1, TallyZero
<1> QED BY <1>1, <1>2 DEF LocksAddUp
-----------------------------------------------------------------------------
(* What a step keeps that leaves some part of the state alone *)

\* Nothing is moved, begun at the end or dropped from it.
LEMMA SameGeometry ==
    ASSUME IInv, cs # "compact", cs' # "compact",
           curObjects' = curObjects, heapUsed' = heapUsed,
           \A i \in Index : slots'[i].base = slots[i].base /\ slots'[i].max = slots[i].max
    PROVE  HeapIsTiled' /\ LaidInv' /\ CompactInv'
<1>1. Current = 1 .. curObjects /\ Current' = 1 .. curObjects
  BY DEF Current
<1>2. curObjects \in 0 .. MaxObjects
  BY DEF IInv, TypeOK
<1>3. \A i \in 1 .. curObjects : i \in Index
  BY <1>2, Consts DEF Index
<1>4. \A i \in 1 .. curObjects : End(i)' = End(i)
  BY <1>3 DEF End
<1>5. End(curObjects)' = End(curObjects)
  BY <1>2, <1>3 DEF End
<1>6. HeapIsTiled'
  <2>1. heapUsed = End(curObjects) /\ Tile(1, curObjects) /\ (1 \in Current => slots[1].base = 0)
    BY DEF IInv, HeapIsTiled
  <2>2. Tile(1, curObjects)'
    <3>1. \A k \in 2 .. curObjects : k \in Index /\ k - 1 \in Index
      BY <1>2, Consts DEF Index
    <3> QED BY <2>1, <3>1 DEF Tile
  <2> QED BY <1>1, <1>3, <1>5, <2>1, <2>2 DEF HeapIsTiled
<1>7. LaidInv'
  <2>1. /\ \A i, j \in 1 .. curObjects : i < j => End(i) <= slots[j].base
        /\ \A i \in 1 .. curObjects : End(i) <= heapUsed
    BY <1>1 DEF IInv, LaidInv
  <2> QED BY <1>1, <1>3, <1>4, <2>1 DEF LaidInv
<1> QED BY <1>6, <1>7 DEF CompactInv

\* No handle changes, and no slot changes hands.
LEMMA SameHandles ==
    ASSUME IInv, cs # "compact", cs' # "compact",
           curObjects' = curObjects, handle' = handle,
           \A i \in Index : slots'[i].used = slots[i].used /\ slots'[i].owner = slots[i].owner
    PROVE  HandlesMatch' /\ Resident' = Resident /\ Resident \subseteq Index
<1>1. Current = 1 .. curObjects /\ Current' = 1 .. curObjects
  BY DEF Current
<1>2. \A i \in 1 .. curObjects : i \in Index
  BY Consts DEF IInv, TypeOK, Index
<1>3. Resident' = Resident /\ Resident \subseteq Index
  BY <1>1, <1>2 DEF Resident
<1>4. HandlesMatch
  BY DEF IInv, SlotsMatch
<1>5. \A c \in Clients : handle[c] # 0 => handle[c] \in Index
  BY <1>3, <1>4 DEF HandlesMatch
<1> QED BY <1>3, <1>4, <1>5 DEF HandlesMatch

\* Only the locks and the ages of objects change, and who is building one.
LEMMA QuietStep ==
    ASSUME IInv, cs # "compact", cs' # "compact",
           curObjects' = curObjects, heapUsed' = heapUsed,
           handle' = handle, pointer' = pointer, heap' = heap,
           \A i \in Index :
              /\ slots'[i].used = slots[i].used /\ slots'[i].owner = slots[i].owner
              /\ slots'[i].base = slots[i].base /\ slots'[i].max = slots[i].max
              /\ slots'[i].total = slots[i].total
              /\ ~slots[i].used => slots'[i].locks = slots[i].locks,
           \A c \in Clients : pointer[c] = Null /\ c = builder => c = builder'
    PROVE  /\ HeapIsTiled' /\ LaidInv' /\ CompactInv' /\ SlotsMatch' /\ SizedInv'
           /\ DataIntact'
<1>1. HeapIsTiled' /\ LaidInv' /\ CompactInv'
  BY SameGeometry
<1>2. HandlesMatch' /\ Resident' = Resident /\ Resident \subseteq Index
  BY SameHandles
<1>3. FreeSlotsAreEmpty'
  BY DEF IInv, SlotsMatch, FreeSlotsAreEmpty
<1>4. SizedInv'
  BY <1>2 DEF IInv, SizedInv
<1>5. DataIntact'
  <2>1. \A c \in Clients : handle[c] # 0 => handle[c] \in Index
    BY <1>2 DEF IInv, SlotsMatch, HandlesMatch
  <2>2. DataIntact
    BY DEF IInv
  <2>3. \A c \in Clients : handle[c] # 0 => slots'[handle[c]].base = slots[handle[c]].base
    BY <2>1
  <2> QED BY <2>2, <2>3 DEF DataIntact
<1> QED BY <1>1, <1>2, <1>3, <1>4, <1>5 DEF SlotsMatch

\* The mutex goes with the locks: what the counters of one step, that takes a
\* lock, drops one or does neither, say of the mutex.
LEMMA TakenMutex ==
    ASSUME objectLocks \in Nat, LockIsOwners, cs = "free", Main # Pager,
           NoThread # Main, NoThread # Pager,
           \/ TakeLock(Main) /\ cs' = "free"
           \/ TakeLock(Pager) /\ cs' = "build"
    PROVE  /\ LockIsOwners' /\ objectLocks' = objectLocks + 1 /\ objectLocks' \in Nat
           /\ objectLock' \in {Main, Pager, objectLock}
<1>1. /\ objectLocks = 0 <=> objectLock = NoThread
      /\ objectLocks > 0 => objectLock = Main
  BY DEF LockIsOwners
<1>2. CASE objectLocks = 0
  BY <1>2 DEF TakeLock, LockIsOwners
<1>3. CASE objectLocks > 0
  BY <1>1, <1>3 DEF TakeLock, LockIsOwners
<1> QED BY <1>2, <1>3

LEMMA DroppedMutex ==
    ASSUME objectLocks \in Nat, objectLocks > 0, LockIsOwners, DropLock,
           NoThread # Main, cs \in {"free", "build"}, cs' \in {"free", "cleanFree"}
    PROVE  /\ LockIsOwners' /\ objectLocks' = objectLocks - 1 /\ objectLocks' \in Nat
           /\ objectLock' \in {NoThread, objectLock}
<1>1. CASE objectLocks = 1
  BY <1>1 DEF DropLock, LockIsOwners
<1>2. CASE objectLocks > 1
  BY <1>2 DEF DropLock, LockIsOwners
<1> QED BY <1>1, <1>2

\* A client that holds a lock is counted.
LEMMA Counted ==
    ASSUME IInv, NEW c \in Clients, handle[c] # 0, slots[handle[c]].locks > 0
    PROVE  objectLocks \in Nat /\ objectLocks > 0
<1>1. objectLocks \in Nat
  BY DEF IInv, TypeOK
<1>2. LockCount(c) # 0
  <2>1. slots[handle[c]].locks # 0
    <3>1. handle[c] \in Index
      BY Owned DEF IInv, SlotsMatch
    <3> QED BY <3>1, SlotFacts, Consts DEF IInv
  <2> QED BY <2>1 DEF LockCount
<1>3. objectLocks # 0
  BY <1>2, NoLocksAtAll DEF IInv, LocksMatch
<1> QED BY <1>1, <1>3

\* What a step changes of the lock counts that changes the locks of one slot.
LEMMA CountOfOne ==
    ASSUME IInv, NEW c \in Clients, handle[c] # 0, handle' = handle,
           \A j \in Index : j # handle[c] => slots'[j] = slots[j]
    PROVE  /\ LockCount(c)' = slots'[handle[c]].locks
           /\ LockCount(c) = slots[handle[c]].locks
           /\ \A d \in Clients : d # c => LockCount(d)' = LockCount(d)
<1>1. \A d \in Clients : handle[d] # 0 => handle[d] \in Index /\ (handle[d] = handle[c] => d = c)
  BY Owned DEF IInv, SlotsMatch
<1> QED BY <1>1 DEF LockCount
-----------------------------------------------------------------------------
(* Each action keeps the invariant *)

LEMMA LockStep == 
    ASSUME IInv, NEW c \in Clients, Lock(c)
    PROVE  IInv' /\ LockCount(c)' = LockCount(c) + 1 /\ \A d \in Clients : d # c => LockCount(d)' = LockCount(d)
<1> DEFINE i == handle[c]
           n == slots[i].locks + 1
<1>1. /\ cs = "free" /\ cs' = "free" /\ TypeOK /\ i # 0
      /\ HandlesMatch
  BY DEF Lock, Guarded, Brief, IInv, SlotsMatch
<1>2. i \in Index /\ slots[i].used
  BY <1>1, Owned
<1>3. n \in 0 .. MaxLocks /\ age \in 0 .. MaxAge /\ slots[i].locks \in Nat
  BY <1>2, <1>1, SlotFacts, Consts DEF Lock, TypeOK
<1>4. slots' = [slots EXCEPT ![i] = Locked(@, n, age)]
  <2>1. slots' = [slots EXCEPT ![i].locks = n, ![i].age = age]
    BY DEF Lock
  <2>2. slots \in [Index -> Slot] /\ slots[i] \in Slot
    BY <1>2, SlotFacts DEF IInv, TypeOK
  <2> HIDE DEF i, n
  <2> QED BY <1>2, <2>1, <2>2 DEF Locked, Slot
<1> HIDE DEF n
<1>5. /\ slots' \in [Index -> Slot]
      /\ \A j \in Index : j # i => slots'[j] = slots[j]
      /\ slots'[i].locks = n /\ slots'[i].used = slots[i].used
      /\ slots'[i].owner = slots[i].owner /\ slots'[i].base = slots[i].base
      /\ slots'[i].max = slots[i].max /\ slots'[i].total = slots[i].total
  BY <1>1, <1>2, <1>3, <1>4, LocksEffect
<1>6. /\ curObjects' = curObjects /\ heapUsed' = heapUsed /\ handle' = handle
      /\ pointer' = pointer /\ heap' = heap /\ builder' = builder /\ age' = age
      /\ curWaste' = curWaste /\ fragmented' = fragmented
      /\ scan' = scan /\ live' = live /\ top' = top
  BY DEF Lock, space, loop, client
<1>7. /\ HeapIsTiled' /\ LaidInv' /\ CompactInv' /\ SlotsMatch' /\ SizedInv'
      /\ DataIntact'
  BY <1>1, <1>2, <1>5, <1>6, QuietStep
<1>8. /\ LockIsOwners' /\ objectLocks' = objectLocks + 1 /\ objectLocks' \in Nat
      /\ objectLock' \in {Main, Pager, objectLock}
  <2>1. objectLocks \in Nat /\ LockIsOwners /\ TakeLock(Main)
    BY DEF IInv, TypeOK, LocksMatch, Lock
  <2> QED BY <1>1, <2>1, TakenMutex, Consts
<1>9. TypeOK'
  BY <1>1, <1>5, <1>6, <1>8 DEF TypeOK
<1>10. PhaseInv'
  BY <1>1, <1>6 DEF IInv, PhaseInv
<1>11. /\ LockCount(c)' = LockCount(c) + 1
       /\ \A d \in Clients : d # c => LockCount(d)' = LockCount(d)
  BY <1>1, <1>5, <1>6, CountOfOne DEF n
<1>12. LocksAddUp'
  BY <1>1, <1>8, <1>9, <1>11, LocksUp DEF IInv, LocksMatch
<1> QED BY <1>7, <1>8, <1>9, <1>10, <1>11, <1>12 DEF IInv, LocksMatch

LEMMA UnlockStep == 
    ASSUME IInv, NEW c \in Clients, Unlock(c)
    PROVE  IInv' /\ LockCount(c)' = LockCount(c) - 1 /\ \A d \in Clients : d # c => LockCount(d)' = LockCount(d)
<1> DEFINE i == handle[c]
           n == slots[i].locks - 1
<1>1. /\ cs = "free" /\ cs' = "free" /\ TypeOK /\ i # 0 /\ slots[i].locks > 0
      /\ HandlesMatch
  BY DEF Unlock, Brief, IInv, SlotsMatch
<1>2. i \in Index /\ slots[i].used
  BY <1>1, Owned
<1>3. n \in 0 .. MaxLocks /\ age \in 0 .. MaxAge /\ slots[i].locks \in Nat
  BY <1>2, <1>1, SlotFacts, Consts DEF Unlock, TypeOK
<1>4. slots' = [slots EXCEPT ![i] = Unlocked(@, n)]
  BY DEF Unlock, Unlocked
<1> HIDE DEF n
<1>5. /\ slots' \in [Index -> Slot]
      /\ \A j \in Index : j # i => slots'[j] = slots[j]
      /\ slots'[i].locks = n /\ slots'[i].used = slots[i].used
      /\ slots'[i].owner = slots[i].owner /\ slots'[i].base = slots[i].base
      /\ slots'[i].max = slots[i].max /\ slots'[i].total = slots[i].total
  BY <1>1, <1>2, <1>3, <1>4, LocksEffect
<1>6. /\ curObjects' = curObjects /\ heapUsed' = heapUsed /\ handle' = handle
      /\ pointer' = pointer /\ heap' = heap /\ builder' = builder /\ age' = age
      /\ curWaste' = curWaste /\ fragmented' = fragmented
      /\ scan' = scan /\ live' = live /\ top' = top
  BY DEF Unlock, space, loop, client
<1>7. /\ HeapIsTiled' /\ LaidInv' /\ CompactInv' /\ SlotsMatch' /\ SizedInv'
      /\ DataIntact'
  BY <1>1, <1>2, <1>5, <1>6, QuietStep
<1>8. /\ LockIsOwners' /\ objectLocks' = objectLocks - 1 /\ objectLocks' \in Nat
      /\ objectLock' \in {NoThread, objectLock}
  <2>1. objectLocks \in Nat /\ objectLocks > 0 /\ LockIsOwners /\ DropLock
    BY <1>1, Counted DEF IInv, LocksMatch, Unlock
  <2> QED BY <1>1, <2>1, DroppedMutex, Consts
<1>9. TypeOK'
  BY <1>1, <1>5, <1>6, <1>8 DEF TypeOK
<1>10. PhaseInv'
  BY <1>1, <1>6 DEF IInv, PhaseInv
<1>11. /\ LockCount(c) = LockCount(c)' + 1 /\ LockCount(c)' = LockCount(c) - 1
       /\ \A d \in Clients : d # c => LockCount(d)' = LockCount(d)
  BY <1>1, <1>3, <1>5, <1>6, CountOfOne DEF n
<1>12. LocksAddUp'
  BY <1>1, <1>8, <1>9, <1>11, LocksDown DEF IInv, LocksMatch
<1> QED BY <1>7, <1>8, <1>9, <1>10, <1>11, <1>12 DEF IInv, LocksMatch

LEMMA EndObjectStep == 
    ASSUME IInv, NEW c \in Clients, EndObject(c)
    PROVE  IInv' /\ LockCount(c)' = 0 /\ \A d \in Clients : d # c => LockCount(d)' = LockCount(d)
<1> DEFINE i == handle[c]
<1>1. /\ cs = "build" /\ cs' = "free" /\ builder = c /\ TypeOK /\ HandlesMatch
      /\ builder' = NoClient /\ pointer[c] # Null /\ i # 0 /\ slots[i].locks = 1
  BY DEF EndObject, Leave, IInv, SlotsMatch, PhaseInv
<1>2. i \in Index /\ slots[i].used
  BY <1>1, Owned
<1>4. slots' = [slots EXCEPT ![i] = Unlocked(@, 0)]
  BY DEF EndObject, Unlocked, EndedLocks
<1>5. /\ slots' \in [Index -> Slot]
      /\ \A j \in Index : j # i => slots'[j] = slots[j]
      /\ slots'[i].locks = 0 /\ slots'[i].used = slots[i].used
      /\ slots'[i].owner = slots[i].owner /\ slots'[i].base = slots[i].base
      /\ slots'[i].max = slots[i].max /\ slots'[i].total = slots[i].total
  <2>1. 0 \in 0 .. MaxLocks /\ 0 \in 0 .. MaxAge
    BY Consts
  <2> QED BY <1>1, <1>2, <1>4, <2>1, LocksEffect
<1>6. /\ curObjects' = curObjects /\ heapUsed' = heapUsed /\ handle' = handle
      /\ pointer' = pointer /\ heap' = heap /\ age' = age
      /\ curWaste' = curWaste /\ fragmented' = fragmented
      /\ scan' = scan /\ live' = live /\ top' = top
  BY DEF EndObject, space, loop, client
<1>7. /\ HeapIsTiled' /\ LaidInv' /\ CompactInv' /\ SlotsMatch' /\ SizedInv'
      /\ DataIntact'
  BY <1>1, <1>2, <1>5, <1>6, QuietStep
<1>8. /\ LockIsOwners' /\ objectLocks' = objectLocks - 1 /\ objectLocks' \in Nat
      /\ objectLock' \in {NoThread, objectLock}
  <2>1. objectLocks \in Nat /\ objectLocks > 0 /\ LockIsOwners /\ DropLock
    BY <1>1, Counted DEF IInv, LocksMatch, EndObject
  <2> QED BY <1>1, <2>1, DroppedMutex, Consts
<1>9. TypeOK'
  BY <1>1, <1>5, <1>6, <1>8 DEF TypeOK, Phases
<1>10. PhaseInv'
  BY <1>1, <1>6 DEF IInv, PhaseInv
<1>11. /\ LockCount(c) = LockCount(c)' + 1 /\ LockCount(c)' = 0
       /\ \A d \in Clients : d # c => LockCount(d)' = LockCount(d)
  BY <1>1, <1>5, <1>6, CountOfOne
<1>12. LocksAddUp'
  BY <1>1, <1>8, <1>9, <1>11, LocksDown DEF IInv, LocksMatch
<1> QED BY <1>7, <1>8, <1>9, <1>10, <1>11, <1>12 DEF IInv, LocksMatch

\* The steps that change no object, no handle and no lock.
LEMMA IdleSlots ==
    ASSUME IInv, cs # "compact", cs' # "compact",
           slots' = slots, curObjects' = curObjects, heapUsed' = heapUsed,
           handle' = handle, pointer' = pointer, heap' = heap, builder' = builder,
           objectLocks' = objectLocks
    PROVE  /\ HeapIsTiled' /\ LaidInv' /\ CompactInv' /\ SlotsMatch' /\ SizedInv'
           /\ DataIntact' /\ LocksAddUp'
<1>1. /\ HeapIsTiled' /\ LaidInv' /\ CompactInv' /\ SlotsMatch' /\ SizedInv'
      /\ DataIntact'
  BY QuietStep
<1>2. LocksAddUp'
  BY LocksSame DEF IInv, LocksMatch, LockCount
<1> QED BY <1>1, <1>2

LEMMA BeginFailStep == ASSUME IInv, NEW c \in Clients, BeginFail(c) PROVE IInv'
<1>1. /\ cs = "free" /\ cs' = "free" /\ slots' = slots /\ curObjects' = curObjects
      /\ heapUsed' = heapUsed /\ handle' = handle /\ pointer' = pointer /\ heap' = heap
      /\ builder' = builder /\ objectLocks' = objectLocks /\ objectLock' = objectLock
      /\ curWaste' = curWaste /\ fragmented' \in BOOLEAN /\ age' = age
      /\ scan' = scan /\ live' = live /\ top' = top
  BY DEF BeginFail, Brief, loop, client, locking
<1>2. /\ HeapIsTiled' /\ LaidInv' /\ CompactInv' /\ SlotsMatch' /\ SizedInv'
      /\ DataIntact' /\ LocksAddUp'
  BY <1>1, IdleSlots
<1>3. TypeOK'
  BY <1>1 DEF IInv, TypeOK
<1>4. PhaseInv' /\ LockIsOwners'
  BY <1>1 DEF IInv, PhaseInv, LocksMatch, LockIsOwners
<1> QED BY <1>2, <1>3, <1>4 DEF IInv, LocksMatch

LEMMA AgeBeginStep == ASSUME IInv, AgeBegin PROVE IInv'
<1>1. /\ cs = "free" /\ cs' = "expire" /\ slots' = slots /\ curObjects' = curObjects
      /\ heapUsed' = heapUsed /\ handle' = handle /\ pointer' = pointer /\ heap' = heap
      /\ builder' = builder /\ objectLocks' = objectLocks /\ objectLock' = Main
      /\ curWaste' = curWaste /\ fragmented' = fragmented /\ age' = age + 1
      /\ age < MaxAge /\ scan' = 1 /\ live' = live /\ top' = top /\ objectLocks = 0
  BY DEF AgeBegin, Enter, space, client, NoLocks
<1>2. /\ HeapIsTiled' /\ LaidInv' /\ CompactInv' /\ SlotsMatch' /\ SizedInv'
      /\ DataIntact' /\ LocksAddUp'
  BY <1>1, IdleSlots
<1>3. TypeOK'
  <2>1. age' \in 0 .. MaxAge
    BY <1>1, Consts DEF IInv, TypeOK
  <2>2. scan' \in 0 .. MaxObjects + 1
    BY <1>1, Consts
  <2> QED BY <1>1, <2>1, <2>2 DEF IInv, TypeOK, Phases
<1>4. PhaseInv'
  <2>1. curObjects \in Nat
    BY Consts DEF IInv, TypeOK
  <2> QED BY <1>1, <2>1 DEF IInv, PhaseInv
<1>5. LockIsOwners'
  BY <1>1, Consts DEF LockIsOwners
<1> QED BY <1>2, <1>3, <1>4, <1>5 DEF IInv, LocksMatch

LEMMA ExpireEndStep == ASSUME IInv, ExpireEnd PROVE IInv'
<1>1. /\ cs = "expire" /\ cs' = "cleanAge" /\ slots' = slots /\ curObjects' = curObjects
      /\ heapUsed' = heapUsed /\ handle' = handle /\ pointer' = pointer /\ heap' = heap
      /\ builder' = builder /\ objectLocks' = objectLocks /\ objectLock' = objectLock
      /\ curWaste' = curWaste /\ fragmented' = fragmented /\ age' = age
      /\ scan' = 0 /\ live' = live /\ top' = top
  BY DEF ExpireEnd, space, client, locking
<1>2. /\ HeapIsTiled' /\ LaidInv' /\ CompactInv' /\ SlotsMatch' /\ SizedInv'
      /\ DataIntact' /\ LocksAddUp'
  BY <1>1, IdleSlots
<1>3. TypeOK'
  <2>1. scan' \in 0 .. MaxObjects + 1
    BY <1>1, Consts
  <2> QED BY <1>1, <2>1 DEF IInv, TypeOK, Phases
<1>4. PhaseInv' /\ LockIsOwners'
  BY <1>1 DEF IInv, PhaseInv, LocksMatch, LockIsOwners
<1> QED BY <1>2, <1>3, <1>4 DEF IInv, LocksMatch

LEMMA CleanFreeEndStep == ASSUME IInv, CleanFreeEnd PROVE IInv'
<1>1. /\ cs = "cleanFree" /\ cs' = "free" /\ slots' = slots /\ curObjects' = curObjects
      /\ heapUsed' = heapUsed /\ handle' = handle /\ pointer' = pointer /\ heap' = heap
      /\ builder' = builder /\ objectLocks' = objectLocks /\ objectLock' = objectLock
      /\ curWaste' = curWaste /\ fragmented' = fragmented /\ age' = age
      /\ scan' = scan /\ live' = live /\ top' = top
  BY DEF CleanFreeEnd, Leave, space, client, locking, loop
<1>2. /\ HeapIsTiled' /\ LaidInv' /\ CompactInv' /\ SlotsMatch' /\ SizedInv'
      /\ DataIntact' /\ LocksAddUp'
  BY <1>1, IdleSlots
<1>3. TypeOK'
  BY <1>1 DEF IInv, TypeOK, Phases
<1>4. PhaseInv' /\ LockIsOwners'
  BY <1>1 DEF IInv, PhaseInv, LocksMatch, LockIsOwners
<1> QED BY <1>2, <1>3, <1>4 DEF IInv, LocksMatch

\* With no lock counted, no slot is locked.
LEMMA NothingLocked ==
    ASSUME IInv, cs # "compact", objectLocks = 0
    PROVE  \A i \in Index : slots[i].locks = 0
<1> SUFFICES ASSUME NEW i \in Index PROVE slots[i].locks = 0
  OBVIOUS
<1>1. CASE ~slots[i].used \/ i > curObjects
  BY <1>1 DEF IInv, SlotsMatch, FreeSlotsAreEmpty
<1>2. CASE slots[i].used /\ ~(i > curObjects)
  <2>1. i \in Resident
    <3>1. i \in 1 .. curObjects
      BY <1>2, Consts DEF IInv, TypeOK, Index
    <3> QED BY <1>2, <3>1 DEF Resident, Current
  <2>2. slots[i].owner \in Clients /\ handle[slots[i].owner] = i
    BY <2>1 DEF IInv, SlotsMatch, HandlesMatch
  <2>3. LockCount(slots[i].owner) = 0
    BY <2>2, NoLocksAtAll DEF IInv, LocksMatch
  <2> QED BY <2>2, <2>3, Consts DEF LockCount, Index
<1> QED BY <1>1, <1>2

LEMMA CleanAgeEndStep == ASSUME IInv, CleanAgeEnd PROVE IInv'
<1>1. /\ cs = "cleanAge" /\ slots' = slots /\ curObjects' = curObjects
      /\ heapUsed' = heapUsed /\ handle' = handle /\ pointer' = pointer /\ heap' = heap
      /\ builder' = builder /\ objectLocks' = objectLocks
      /\ curWaste' = curWaste /\ fragmented' = fragmented /\ age' = age
      /\ live' = live /\ top' = top /\ objectLocks = 0 /\ live = 0 /\ top = 0
  BY DEF CleanAgeEnd, Leave, space, client, locking, IInv, PhaseInv
<1>2. CASE cs' = "free" /\ objectLock' = NoThread /\ scan' = scan
  <2>2. /\ HeapIsTiled' /\ LaidInv' /\ CompactInv' /\ SlotsMatch' /\ SizedInv'
        /\ DataIntact' /\ LocksAddUp'
    BY <1>1, <1>2, IdleSlots
  <2>3. TypeOK'
    BY <1>1, <1>2 DEF IInv, TypeOK, Phases
  <2>4. PhaseInv' /\ LockIsOwners'
    BY <1>1, <1>2 DEF IInv, PhaseInv, LocksMatch, LockIsOwners
  <2> QED BY <2>2, <2>3, <2>4 DEF IInv, LocksMatch
<1>3. CASE cs' = "compact" /\ scan' = 1 /\ objectLock' = objectLock
  <2>1. /\ curObjects \in 0 .. MaxObjects
        /\ \A i \in 1 .. curObjects : i \in Index
    BY Consts DEF IInv, TypeOK, Index
  <2>2. Current' = 1 .. curObjects /\ Current = 1 .. curObjects /\ Resident' = Resident
    BY <1>1, <1>3, <2>1 DEF Current, Resident
  <2>3. TypeOK'
    <3>1. scan' \in 0 .. MaxObjects + 1
      BY <1>3, Consts
    <3> QED BY <1>1, <1>3, <3>1 DEF IInv, TypeOK, Phases
  <2>4. PhaseInv'
    BY <1>1, <1>3, <2>1 DEF IInv, PhaseInv
  <2>5. LockIsOwners' /\ LocksAddUp'
    BY <1>1, <1>3, LocksSame DEF IInv, LocksMatch, LockIsOwners, LockCount
  <2>6. HeapIsTiled'
    <3>1. Tile(1, curObjects) /\ (1 \in Current => slots[1].base = 0)
      BY <1>1 DEF IInv, HeapIsTiled
    <3>2. Tile(1, 0)' /\ Tile(1, curObjects)' /\ End(0)' = 0
      BY <1>1, <3>1 DEF Tile, End
    <3>3. 1 <= curObjects => 0 <= slots[1].base
      <4>1. 1 <= curObjects => 1 \in Current
        BY <2>1, <2>2
      <4> QED BY <3>1, <4>1
    <3> QED BY <1>1, <1>3, <2>2, <3>1, <3>2, <3>3 DEF HeapIsTiled
  <2>7. LaidInv'
    <3>1. /\ \A i, j \in Current : i < j => End(i) <= slots[j].base
          /\ \A i \in Current : End(i) <= heapUsed
      BY DEF IInv, LaidInv
    <3>2. heapUsed \in 0 .. HeapSize
      BY DEF IInv, TypeOK
    <3>3. \A i \in Current : End(i)' = End(i)
      BY <1>1 DEF End
    <3>4. top' <= heapUsed' /\ \A i \in 1 .. live' : End(i)' <= top'
      BY <1>1, <3>2, Consts
    <3> QED BY <1>1, <2>2, <3>1, <3>3, <3>4 DEF LaidInv
  <2>8. CompactInv'
    <3>1. \A i \in Index : slots[i].locks = 0
      BY <1>1, NothingLocked
    <3>2. \A i \in Index : i > curObjects => ~slots[i].used /\ slots[i].total = 0
      BY <1>1 DEF IInv, SlotsMatch, FreeSlotsAreEmpty
    <3>3. \A i \in Index : ~(i <= live)
      BY <1>1, Consts DEF Index
    <3> QED BY <1>1, <3>1, <3>2, <3>3 DEF CompactInv
  <2>9. SlotsMatch'
    BY <1>1, <1>3, <2>2 DEF IInv, SlotsMatch, HandlesMatch, FreeSlotsAreEmpty
  <2>10. SizedInv' /\ DataIntact'
    BY <1>1, <2>2 DEF IInv, SizedInv, DataIntact
  <2> QED BY <2>3, <2>4, <2>5, <2>6, <2>7, <2>8, <2>9, <2>10 DEF IInv, LocksMatch
<1> QED BY <1>2, <1>3 DEF CleanAgeEnd, Leave

\* An object is unloaded: its owner has neither handle nor pointer any more.
LEMMA UnloadStep ==
    ASSUME IInv, cs \notin {"compact", "build"}, cs' # "compact",
           NEW i \in 1 .. curObjects, slots[i].used, Unload(i),
           NEW c, slots[i].owner = c,
           curObjects' = curObjects, heapUsed' = heapUsed, heap' = heap,
           builder' = builder
    PROVE  /\ HeapIsTiled' /\ LaidInv' /\ CompactInv' /\ SlotsMatch' /\ SizedInv'
           /\ DataIntact' /\ slots' \in [Index -> Slot]
           /\ handle' \in [Clients -> 0 .. MaxObjects]
           /\ pointer' \in [Clients -> Address \cup {Null}]
           /\ c \in Clients /\ handle[c] = i /\ i \in Index
           /\ LockCount(c)' = 0 /\ LockCount(c) = slots[i].locks
           /\ \A d \in Clients : d # c => LockCount(d)' = LockCount(d)
<1>1. TypeOK /\ HandlesMatch /\ curObjects \in 0 .. MaxObjects /\ builder = NoClient
  BY DEF IInv, SlotsMatch, PhaseInv, TypeOK
<1>2. /\ Current = 1 .. curObjects /\ Current' = 1 .. curObjects
      /\ \A j \in 1 .. curObjects : j \in Index
  BY <1>1, Consts DEF Current, Index
<1>3. i \in Index /\ i # 0 /\ i \in Resident
  BY <1>2 DEF Resident
<1>4. c \in Clients /\ handle[c] = i
  BY <1>1, <1>3 DEF HandlesMatch
<1>5. /\ slots' \in [Index -> Slot]
      /\ \A j \in Index : j # i => slots'[j] = slots[j]
      /\ ~slots'[i].used /\ slots'[i].total = 0 /\ slots'[i].locks = 0
      /\ slots'[i].base = slots[i].base /\ slots'[i].max = slots[i].max
  BY <1>1, <1>3, UnloadEffect
<1>6. /\ handle' = [handle EXCEPT ![c] = 0] /\ pointer' = [pointer EXCEPT ![c] = Null]
      /\ handle \in [Clients -> 0 .. MaxObjects]
      /\ pointer \in [Clients -> Address \cup {Null}]
  BY <1>1 DEF Unload, TypeOK
<1>7. /\ handle' \in [Clients -> 0 .. MaxObjects]
      /\ pointer' \in [Clients -> Address \cup {Null}]
      /\ handle'[c] = 0 /\ pointer'[c] = Null
      /\ \A d \in Clients : d # c => handle'[d] = handle[d] /\ pointer'[d] = pointer[d]
  BY <1>4, <1>6, Consts
<1>8. \A d \in Clients : d # c /\ handle[d] # 0 => handle[d] \in Index /\ handle[d] # i
  BY <1>1, <1>3, <1>4, Owned
<1>9. HeapIsTiled' /\ LaidInv' /\ CompactInv'
  BY <1>3, <1>5, SameGeometry
<1>10. \A j \in Resident' : /\ j \in Resident /\ j # i /\ slots'[j] = slots[j]
                            /\ slots[j].owner # c
  <2> SUFFICES ASSUME NEW j \in Resident'
               PROVE  /\ j \in Resident /\ j # i /\ slots'[j] = slots[j]
                      /\ slots[j].owner # c
    OBVIOUS
  <2>1. j \in 1 .. curObjects /\ slots'[j].used /\ j \in Index
    BY <1>2 DEF Resident
  <2>2. j # i /\ slots'[j] = slots[j]
    BY <1>5, <2>1
  <2>3. j \in Resident
    BY <1>2, <2>1, <2>2 DEF Resident
  <2> QED BY <1>1, <1>4, <2>2, <2>3 DEF HandlesMatch
<1>11. HandlesMatch'
  <2>1. ASSUME NEW d \in Clients, handle'[d] # 0
        PROVE  handle'[d] \in Resident' /\ slots'[handle'[d]].owner = d
    <3>1. d # c /\ handle'[d] = handle[d]
      BY <1>7, <2>1
    <3>2. handle[d] \in Resident /\ slots[handle[d]].owner = d /\ handle[d] # i
          /\ handle[d] \in Index
      BY <1>1, <1>8, <2>1, <3>1 DEF HandlesMatch
    <3>3. slots'[handle[d]] = slots[handle[d]]
      BY <1>5, <3>2
    <3> QED BY <1>2, <3>1, <3>2, <3>3 DEF Resident
  <2>2. ASSUME NEW j \in Resident'
        PROVE  slots'[j].owner \in Clients /\ handle'[slots'[j].owner] = j
    BY <1>1, <1>7, <1>10, <2>2 DEF HandlesMatch
  <2> QED BY <2>1, <2>2 DEF HandlesMatch
<1>12. FreeSlotsAreEmpty'
  BY <1>3, <1>5 DEF IInv, SlotsMatch, FreeSlotsAreEmpty
<1>13. SizedInv'
  <2>1. \A j \in Resident : slots[j].owner \in Clients
    BY <1>1 DEF HandlesMatch
  <2> QED BY <1>7, <1>10, <2>1 DEF IInv, SizedInv
<1>14. DataIntact'
  <2> SUFFICES ASSUME NEW d \in Clients
        PROVE  IF pointer'[d] = Null
               THEN handle'[d] = 0 \/ d = builder'
               ELSE /\ handle'[d] # 0 /\ pointer'[d] = slots'[handle'[d]].base
                    /\ \A a \in pointer'[d] .. pointer'[d] + SizeOf[d] - 1 :
                          a \in Address /\ heap'[a] = d
    BY DEF DataIntact
  <2>1. CASE d = c
    BY <1>7, <2>1
  <2>2. CASE d # c
    <3>1. handle'[d] = handle[d] /\ pointer'[d] = pointer[d]
      BY <1>7, <2>2
    <3>2. handle[d] # 0 => slots'[handle[d]].base = slots[handle[d]].base
      BY <1>5, <1>8, <2>2
    <3> QED BY <3>1, <3>2 DEF IInv, DataIntact
  <2> QED BY <2>1, <2>2
<1>15. /\ LockCount(c)' = 0 /\ LockCount(c) = slots[i].locks
       /\ \A d \in Clients : d # c => LockCount(d)' = LockCount(d)
  BY <1>3, <1>4, <1>5, <1>7, <1>8 DEF LockCount
<1> QED BY <1>3, <1>4, <1>5, <1>7, <1>9, <1>11, <1>12, <1>13, <1>14, <1>15 DEF SlotsMatch

LEMMA UnlockAndFreeStep == 
    ASSUME IInv, NEW c \in Clients, UnlockAndFree(c)
    PROVE  IInv' /\ LockCount(c)' = 0 /\ \A d \in Clients : d # c => LockCount(d)' = LockCount(d)
<1>1. PICK i : i = handle[c]
  OBVIOUS
<1>2. /\ cs = "free" /\ cs' = "cleanFree" /\ i # 0 /\ slots[i].locks = 1 /\ Unload(i)
      /\ curObjects' = curObjects /\ heapUsed' = heapUsed /\ heap' = heap
      /\ builder' = builder /\ fragmented' = fragmented /\ age' = age
      /\ scan' = scan /\ live' = live /\ top' = top
      /\ curWaste' = Wrap(curWaste + slots[i].max)
      /\ TypeOK /\ HandlesMatch
  BY <1>1 DEF UnlockAndFree, Enter, loop, IInv, SlotsMatch
<1>3. i \in 1 .. curObjects /\ slots[i].used /\ slots[i].owner = c /\ i \in Index
  BY <1>1, <1>2, Owned DEF Current
<1>4. /\ HeapIsTiled' /\ LaidInv' /\ CompactInv' /\ SlotsMatch' /\ SizedInv'
      /\ DataIntact' /\ slots' \in [Index -> Slot]
      /\ handle' \in [Clients -> 0 .. MaxObjects]
      /\ pointer' \in [Clients -> Address \cup {Null}]
      /\ LockCount(c)' = 0 /\ LockCount(c) = slots[i].locks
      /\ \A d \in Clients : d # c => LockCount(d)' = LockCount(d)
  BY <1>2, <1>3, UnloadStep
<1>5. /\ LockIsOwners' /\ objectLocks' = objectLocks - 1 /\ objectLocks' \in Nat
      /\ objectLock' \in {NoThread, objectLock}
  <2>1. objectLocks \in Nat /\ objectLocks > 0 /\ LockIsOwners /\ DropLock
    BY <1>1, <1>2, Counted DEF IInv, LocksMatch, UnlockAndFree
  <2> QED BY <1>2, <2>1, DroppedMutex, Consts
<1>6. TypeOK'
  <2>1. curWaste' \in 0 .. WasteWidth - 1
    <3>1. curWaste + slots[i].max \in Int
      BY <1>2, <1>3, SlotFacts, Consts DEF TypeOK
    <3> QED BY <1>2, <3>1, Wrapped
  <2> QED BY <1>2, <1>4, <1>5, <2>1 DEF TypeOK, Phases
<1>7. PhaseInv'
  BY <1>2 DEF IInv, PhaseInv
<1>8. LocksAddUp'
  BY <1>2, <1>4, <1>5, <1>6, LocksDown DEF IInv, LocksMatch
<1> QED BY <1>4, <1>5, <1>6, <1>7, <1>8 DEF IInv, LocksMatch

LEMMA FreeStep == ASSUME IInv, NEW c \in Clients, Free(c) PROVE IInv'
<1>1. PICK i : i = handle[c]
  OBVIOUS
<1>2. /\ cs = "free" /\ cs' = "free" /\ i # 0 /\ slots[i].locks = 0 /\ Unload(i)
      /\ curObjects' = curObjects /\ heapUsed' = heapUsed /\ heap' = heap
      /\ builder' = builder /\ fragmented' = fragmented /\ age' = age
      /\ scan' = scan /\ live' = live /\ top' = top /\ curWaste' = curWaste
      /\ objectLocks' = objectLocks /\ objectLock' = objectLock
      /\ TypeOK /\ HandlesMatch
  BY <1>1 DEF Free, Brief, loop, space, locking, IInv, SlotsMatch
<1>3. i \in 1 .. curObjects /\ slots[i].used /\ slots[i].owner = c /\ i \in Index
  BY <1>1, <1>2, Owned DEF Current
<1>4. /\ HeapIsTiled' /\ LaidInv' /\ CompactInv' /\ SlotsMatch' /\ SizedInv'
      /\ DataIntact' /\ slots' \in [Index -> Slot]
      /\ handle' \in [Clients -> 0 .. MaxObjects]
      /\ pointer' \in [Clients -> Address \cup {Null}]
      /\ LockCount(c)' = 0 /\ LockCount(c) = slots[i].locks
      /\ \A d \in Clients : d # c => LockCount(d)' = LockCount(d)
  BY <1>2, <1>3, UnloadStep
<1>5. TypeOK'
  BY <1>2, <1>4 DEF TypeOK
<1>6. PhaseInv' /\ LockIsOwners'
  BY <1>2 DEF IInv, PhaseInv, LocksMatch, LockIsOwners
<1>7. LocksAddUp'
  BY <1>2, <1>4, LocksSame DEF IInv, LocksMatch
<1> QED BY <1>4, <1>5, <1>6, <1>7 DEF IInv, LocksMatch

LEMMA ExpireStepStep == ASSUME IInv, ExpireStep PROVE IInv'
<1>1. /\ cs = "expire" /\ cs' = "expire" /\ scan <= curObjects
      /\ curObjects' = curObjects /\ heapUsed' = heapUsed /\ heap' = heap
      /\ builder' = builder /\ fragmented' = fragmented /\ age' = age
      /\ scan' = scan + 1 /\ live' = live /\ top' = top
      /\ objectLocks' = objectLocks /\ objectLock' = objectLock
      /\ TypeOK /\ scan \in 1 .. curObjects /\ objectLocks = 0
      /\ curObjects \in 0 .. MaxObjects
  BY Consts DEF ExpireStep, locking, IInv, PhaseInv, TypeOK
<1>2. PhaseInv' /\ LockIsOwners'
  BY <1>1 DEF IInv, PhaseInv, LocksMatch, LockIsOwners
<1>3. scan' \in 0 .. MaxObjects + 1
  BY <1>1, Consts
<1>4. CASE Expired(scan)
  <2>1. /\ Unload(scan) /\ curWaste' = Wrap(curWaste + slots[scan].max)
        /\ slots[scan].used
    BY <1>4 DEF ExpireStep, ExpiredWaste, Expired
  <2>2. PICK c, i : c = slots[scan].owner /\ i = scan
    OBVIOUS
  <2>3. /\ HeapIsTiled' /\ LaidInv' /\ CompactInv' /\ SlotsMatch' /\ SizedInv'
        /\ DataIntact' /\ slots' \in [Index -> Slot]
        /\ handle' \in [Clients -> 0 .. MaxObjects]
        /\ pointer' \in [Clients -> Address \cup {Null}]
        /\ c \in Clients /\ i \in Index
        /\ LockCount(c)' = 0 /\ LockCount(c) = slots[i].locks
        /\ \A d \in Clients : d # c => LockCount(d)' = LockCount(d)
    BY <1>1, <2>1, <2>2, UnloadStep
  <2>4. TypeOK'
    <3>1. curWaste + slots[scan].max \in Int
      BY <1>1, <2>2, <2>3, SlotFacts, Consts DEF TypeOK
    <3>2. curWaste' \in 0 .. WasteWidth - 1
      BY <2>1, <3>1, Wrapped
    <3> QED BY <1>1, <1>3, <2>3, <3>2 DEF TypeOK
  <2>5. LocksAddUp'
    <3>1. LockCount(c) = 0
      BY <1>1, <2>3, NoLocksAtAll DEF IInv, LocksMatch
    <3> QED BY <1>1, <2>3, <3>1, LocksSame DEF IInv, LocksMatch
  <2> QED BY <1>2, <2>3, <2>4, <2>5 DEF IInv, LocksMatch
<1>5. CASE ~Expired(scan)
  <2>1. /\ slots' = slots /\ handle' = handle /\ pointer' = pointer
        /\ curWaste' = curWaste
    BY <1>5 DEF ExpireStep, client
  <2>2. /\ HeapIsTiled' /\ LaidInv' /\ CompactInv' /\ SlotsMatch' /\ SizedInv'
        /\ DataIntact' /\ LocksAddUp'
    BY <1>1, <2>1, IdleSlots
  <2>3. TypeOK'
    BY <1>1, <1>3, <2>1 DEF TypeOK
  <2> QED BY <1>2, <2>2, <2>3 DEF IInv, LocksMatch
<1> QED BY <1>4, <1>5

\* The cache as Init and Shutdown leave it.
EmptyCache ==
    /\ cs \in {"closed", "free"} /\ builder = NoClient
    /\ slots = [i \in Index |-> EmptySlot]
    /\ curObjects = 0 /\ heapUsed = 0 /\ curWaste = 0 /\ fragmented = FALSE
    /\ age = 0 /\ objectLocks = 0 /\ objectLock = NoThread
    /\ scan \in 0 .. MaxObjects + 1 /\ live = 0 /\ top = 0
    /\ handle = [c \in Clients |-> 0] /\ pointer = [c \in Clients |-> Null]
    /\ heap = [a \in Address |-> NoClient]

LEMMA EmptyInv == EmptyCache => IInv
<1> SUFFICES ASSUME EmptyCache PROVE IInv
  OBVIOUS
<1> USE DEF EmptyCache
<1>1. Current = {} /\ Resident = {}
  BY DEF Current, Resident
<1>2. \A i \in Index : ~slots[i].used /\ slots[i].total = 0 /\ slots[i].locks = 0
  BY DEF EmptySlot
<1>3. TypeOK
  <2>1. slots \in [Index -> Slot]
    <3>1. EmptySlot \in Slot
      <4>1. 0 \in 0 .. HeapSize /\ 0 \in 0 .. MaxLocks /\ 0 \in 0 .. MaxAge
        BY Consts
      <4> QED BY <4>1 DEF EmptySlot, Slot
    <3> HIDE DEF EmptySlot, Slot
    <3> QED BY <3>1
  <2>2. /\ curObjects \in 0 .. MaxObjects /\ heapUsed \in 0 .. HeapSize
        /\ curWaste \in 0 .. WasteWidth - 1 /\ age \in 0 .. MaxAge
        /\ live \in 0 .. MaxObjects /\ top \in 0 .. HeapSize
    BY Consts
  <2>3. handle \in [Clients -> 0 .. MaxObjects]
    BY Consts
  <2>4. pointer \in [Clients -> Address \cup {Null}] /\ heap \in [Address -> Clients \cup {NoClient}]
    OBVIOUS
  <2> QED BY <2>1, <2>2, <2>3, <2>4 DEF TypeOK, Phases
<1>4. PhaseInv
  BY DEF PhaseInv
<1>5. HeapIsTiled /\ LaidInv /\ CompactInv
  BY <1>1 DEF HeapIsTiled, LaidInv, CompactInv, Tile, End
<1>6. SlotsMatch /\ SizedInv
  BY <1>1, <1>2 DEF SlotsMatch, HandlesMatch, FreeSlotsAreEmpty, SizedInv
<1>7. DataIntact
  BY DEF DataIntact
<1>8. LocksMatch
  <2>1. \A c \in Clients : LockCount(c) = 0
    BY DEF LockCount
  <2>2. LocksAddUp
    <3>1. CountFacts
      BY <1>3, CountTypes
    <3>2. Cardinality(Tally(Counts)) = 0
      <4>1. Counts \in [Clients -> 0 .. MaxLocks] /\ \A c \in Clients : Counts[c] = 0
        BY <2>1, <3>1 DEF CountFacts
      <4> HIDE DEF Counts
      <4> QED BY <4>1, TallyZero
    <3> QED BY <3>1, <3>2 DEF CountFacts, LocksAddUp
  <2>3. LockIsOwners
    BY DEF LockIsOwners
  <2> QED BY <2>2, <2>3 DEF LocksMatch
<1> QED BY <1>3, <1>4, <1>5, <1>6, <1>7, <1>8 DEF IInv

LEMMA InitInv == Init => IInv
<1>1. Init => EmptyCache
  BY Consts DEF Init, EmptyCache
<1> QED BY <1>1, EmptyInv

\* A closed cache is empty, so that the handles and pointers left by the
\* last Shutdown are as good as new.
LEMMA OpenStep == ASSUME IInv, Open PROVE IInv'
<1>1. /\ cs = "closed" /\ curObjects = 0 /\ builder = NoClient /\ live = 0 /\ top = 0
      /\ scan \in 0 .. MaxObjects + 1
      /\ handle \in [Clients -> 0 .. MaxObjects]
      /\ pointer \in [Clients -> Address \cup {Null}]
  BY DEF Open, IInv, PhaseInv, TypeOK
<1>2. Resident = {}
  BY <1>1 DEF Resident, Current
<1>3. \A c \in Clients : handle[c] = 0 /\ pointer[c] = Null
  BY <1>1, <1>2 DEF IInv, SlotsMatch, HandlesMatch, DataIntact
<1>4. handle = [c \in Clients |-> 0] /\ pointer = [c \in Clients |-> Null]
  BY <1>1, <1>3
<1>5. objectLock = NoThread
  <2>1. \A c \in Clients : LockCount(c) = 0
    BY <1>3 DEF LockCount
  <2>2. objectLocks = 0
    BY <2>1, NoLocksAtAll DEF IInv, LocksMatch
  <2> QED BY <1>1, <2>2 DEF IInv, LocksMatch, LockIsOwners
<1>6. EmptyCache'
  BY <1>1, <1>4, <1>5 DEF Open, EmptyCache, loop, client
<1> QED BY <1>6, EmptyInv, PTL

LEMMA ShutdownStep == ASSUME IInv, Shutdown PROVE IInv'
<1>1. /\ cs = "free" /\ builder = NoClient /\ live = 0 /\ top = 0 /\ objectLock = NoThread
      /\ scan \in 0 .. MaxObjects + 1
  BY DEF Shutdown, Enter, IInv, PhaseInv, TypeOK, LocksMatch, LockIsOwners
<1>2. EmptyCache'
  BY <1>1 DEF Shutdown, Enter, EmptyCache, loop, locking
<1> QED BY <1>2, EmptyInv, PTL

\* A client without an object has no pointer either.
LEMMA NoHandleNoPointer ==
    ASSUME IInv, NEW c \in Clients, handle[c] = 0
    PROVE  pointer[c] = Null
BY DEF IInv, DataIntact

LEMMA BeginAppendStep == 
    ASSUME IInv, NEW c \in Clients, BeginAppend(c)
    PROVE  IInv' /\ LockCount(c)' = 1 /\ \A d \in Clients : d # c => LockCount(d)' = LockCount(d)
<1>1. PICK i, n : i = curObjects + 1 /\ n = SizeOf[c]
  OBVIOUS
<1>2. /\ cs = "free" /\ cs' = "build" /\ builder' = c /\ builder = NoClient
      /\ handle[c] = 0 /\ curObjects < MaxObjects /\ n + heapUsed <= HeapSize
      /\ curObjects' = i /\ heapUsed' = heapUsed + n
      /\ handle' = [handle EXCEPT ![c] = i]
      /\ InitObject(slots, i, c, heapUsed, n)
      /\ curWaste' = curWaste /\ fragmented' = fragmented /\ age' = age
      /\ scan' = scan /\ live' = live /\ top' = top /\ pointer' = pointer /\ heap' = heap
  BY <1>1 DEF BeginAppend, Enter, Room, loop, IInv, PhaseInv
<1>3. /\ TypeOK /\ HandlesMatch /\ n \in Nat /\ n > 0 /\ n \in 0 .. HeapSize
      /\ heapUsed \in 0 .. HeapSize
      /\ curObjects \in 0 .. MaxObjects /\ i \in Index /\ i \in Nat /\ i > 0
      /\ slots \in [Index -> Slot] /\ handle \in [Clients -> 0 .. MaxObjects]
  BY <1>1, <1>2, Consts DEF IInv, SlotsMatch, TypeOK, Index
<1>4. /\ slots' \in [Index -> Slot]
      /\ \A j \in Index : j # i => slots'[j] = slots[j]
      /\ slots'[i].used /\ slots'[i].owner = c /\ slots'[i].base = heapUsed
      /\ slots'[i].max = n /\ slots'[i].locks = 1 /\ slots'[i].total = slots[i].total
  BY <1>2, <1>3, InitObjectEffect
<1>5. slots[i].total = 0 /\ ~slots[i].used
  BY <1>1, <1>2, <1>3 DEF IInv, SlotsMatch, FreeSlotsAreEmpty
<1>6. /\ handle'[c] = i /\ handle' \in [Clients -> 0 .. MaxObjects]
      /\ \A d \in Clients : d # c => handle'[d] = handle[d]
  <2>1. i \in 0 .. MaxObjects
    BY <1>3, Consts DEF Index
  <2> QED BY <1>2, <1>3, <2>1
<1>7. /\ Current = 1 .. curObjects /\ Current' = 1 .. i
      /\ \A j \in Current : j \in Index /\ j # i /\ slots'[j] = slots[j] /\ j \in Current'
      /\ \A j \in Current' : j \in Current \/ j = i
      /\ i \in Current'
  <2>1. Current = 1 .. curObjects /\ Current' = 1 .. i
    BY <1>2 DEF Current
  <2>2. \A j \in 1 .. curObjects : j \in Index /\ j # i /\ j \in 1 .. i
    BY <1>1, <1>3, Consts DEF Index
  <2>3. \A j \in 1 .. i : j \in 1 .. curObjects \/ j = i
    BY <1>1, <1>3
  <2> QED BY <1>3, <1>4, <2>1, <2>2, <2>3
<1>8. \A d \in Clients : handle[d] # 0 =>
         /\ d # c /\ handle[d] \in Current /\ handle[d] \in Index /\ handle[d] # i
         /\ slots'[handle[d]] = slots[handle[d]]
  BY <1>2, <1>3, <1>7, Owned
<1>9. /\ LockIsOwners' /\ objectLocks' = objectLocks + 1 /\ objectLocks' \in Nat
      /\ objectLock' \in {Main, Pager, objectLock}
  <2>1. objectLocks \in Nat /\ LockIsOwners /\ TakeLock(Pager)
    BY <1>2 DEF IInv, TypeOK, LocksMatch, InitObject
  <2> QED BY <1>2, <2>1, TakenMutex, Consts
<1>10. TypeOK'
  <2>1. heapUsed' \in 0 .. HeapSize /\ curObjects' \in 0 .. MaxObjects
    BY <1>1, <1>2, <1>3, Consts
  <2> QED BY <1>2, <1>3, <1>4, <1>6, <1>9, <2>1 DEF TypeOK, Phases
<1>11. PhaseInv'
  BY <1>2, <1>3, <1>4, <1>6, Consts DEF IInv, PhaseInv
<1>12. HeapIsTiled'
  <2>1. /\ heapUsed = End(curObjects) /\ Tile(1, curObjects)
        /\ 1 \in Current => slots[1].base = 0
    BY <1>2 DEF IInv, HeapIsTiled
  <2>2. End(i)' = heapUsed + n
    BY <1>3, <1>4 DEF End
  <2>3. Tile(1, i)'
    <3> SUFFICES ASSUME NEW k \in 2 .. i
                 PROVE  slots'[k].base = slots'[k-1].base + slots'[k-1].max
      BY DEF Tile
    <3>1. k - 1 \in Current /\ slots'[k-1] = slots[k-1]
      BY <1>1, <1>3, <1>7
    <3>2. CASE k = i
      BY <1>1, <1>3, <1>4, <2>1, <3>1, <3>2 DEF End
    <3>3. CASE k # i
      <4>1. k \in 2 .. curObjects /\ k \in Current
        BY <1>1, <1>3, <1>7, <3>3
      <4> QED BY <1>7, <2>1, <3>1, <4>1 DEF Tile
    <3> QED BY <3>2, <3>3
  <2>4. slots'[1].base = 0
    <3>1. CASE i = 1
      BY <1>1, <1>3, <1>4, <2>1, <3>1 DEF End
    <3>2. CASE i # 1
      BY <1>1, <1>3, <1>7, <2>1, <3>2
    <3> QED BY <3>1, <3>2
  <2> QED BY <1>2, <2>2, <2>3, <2>4 DEF HeapIsTiled
<1>13. LaidInv'
  <2>1. /\ \A j, k \in Current : j < k => End(j) <= slots[k].base
        /\ \A j \in Current : End(j) <= heapUsed
    BY DEF IInv, LaidInv
  <2>2. \A j \in Current : End(j)' = End(j) /\ j < i
    BY <1>1, <1>3, <1>7 DEF End
  <2>3. End(i)' = heapUsed'
    BY <1>2, <1>3, <1>4 DEF End
  <2>4. \A j \in Current : End(j) \in Int
    BY <1>3, <1>7, SlotFacts, Consts DEF End
  <2>5. \A j, k \in Current' : j < k => End(j)' <= slots'[k].base
    <3> SUFFICES ASSUME NEW j \in Current', NEW k \in Current', j < k
                 PROVE  End(j)' <= slots'[k].base
      OBVIOUS
    <3>1. CASE k = i
      <4>1. j \in Current
        BY <1>7, <3>1
      <4> QED BY <1>4, <2>1, <2>2, <3>1, <4>1
    <3>2. CASE k # i
      <4>1. k \in Current
        BY <1>7, <3>2
      <4>2. j # i
        BY <1>1, <1>3, <1>7, <4>1
      <4> QED BY <1>7, <2>1, <2>2, <4>1, <4>2
    <3> QED BY <3>1, <3>2
  <2>6. \A j \in Current' : End(j)' <= heapUsed'
    <3> SUFFICES ASSUME NEW j \in Current' PROVE End(j)' <= heapUsed'
      OBVIOUS
    <3>1. CASE j = i
      BY <1>2, <1>3, <2>3, <3>1
    <3>2. CASE j # i
      <4>1. End(j) <= heapUsed /\ End(j)' = End(j) /\ End(j) \in Int
        BY <1>7, <2>1, <2>2, <2>4, <3>2
      <4> QED BY <1>2, <1>3, <4>1
    <3> QED BY <3>1, <3>2
  <2> QED BY <1>2, <2>5, <2>6 DEF LaidInv
<1>14. CompactInv'
  BY <1>2 DEF CompactInv
<1>15. \A j \in Resident' : j = i \/ (j \in Resident /\ j # i /\ slots'[j] = slots[j])
  BY <1>7 DEF Resident
<1>16. HandlesMatch'
  <2>1. ASSUME NEW d \in Clients, handle'[d] # 0
        PROVE  handle'[d] \in Resident' /\ slots'[handle'[d]].owner = d
    BY <1>3, <1>4, <1>6, <1>7, <1>8, <2>1 DEF Resident, HandlesMatch
  <2>2. ASSUME NEW j \in Resident'
        PROVE  slots'[j].owner \in Clients /\ handle'[slots'[j].owner] = j
    <3>1. CASE j = i
      BY <1>4, <1>6, <3>1
    <3>2. CASE j # i
      <4>1. j \in Resident /\ slots'[j] = slots[j]
        BY <1>15, <3>2
      <4>2. slots[j].owner \in Clients /\ handle[slots[j].owner] = j /\ j # 0
        BY <1>3, <1>7, <4>1 DEF HandlesMatch, Resident, Index
      <4> QED BY <1>2, <1>6, <4>1, <4>2
    <3> QED BY <3>1, <3>2
  <2> QED BY <2>1, <2>2 DEF HandlesMatch
<1>17. FreeSlotsAreEmpty'
  BY <1>1, <1>2, <1>3, <1>4 DEF IInv, SlotsMatch, FreeSlotsAreEmpty, Index
<1>18. SizedInv'
  <2> SUFFICES ASSUME NEW j \in Resident'
               PROVE  /\ SizeOf[slots'[j].owner] <= slots'[j].max
                      /\ slots'[j].total = IF pointer'[slots'[j].owner] = Null THEN 0
                                           ELSE SizeOf[slots'[j].owner]
    BY DEF SizedInv
  <2>1. CASE j = i
    <3>1. pointer[c] = Null
      BY <1>2, NoHandleNoPointer
    <3> QED BY <1>1, <1>2, <1>3, <1>4, <1>5, <2>1, <3>1
  <2>2. CASE j # i
    BY <1>2, <1>15, <2>2 DEF IInv, SizedInv
  <2> QED BY <2>1, <2>2
<1>19. DataIntact'
  <2>1. pointer[c] = Null
    BY <1>2, NoHandleNoPointer
  <2>2. \A d \in Clients : d # c /\ handle[d] # 0 =>
           handle'[d] = handle[d] /\ slots'[handle'[d]].base = slots[handle[d]].base
    BY <1>6, <1>8
  <2> QED BY <1>2, <1>6, <2>1, <2>2, Consts DEF IInv, DataIntact
<1>21. /\ LockCount(c)' = LockCount(c) + 1 /\ LockCount(c)' = 1
       /\ \A d \in Clients : d # c => LockCount(d)' = LockCount(d)
  BY <1>2, <1>3, <1>4, <1>6, <1>8 DEF LockCount
<1>20. LocksAddUp'
  BY <1>3, <1>9, <1>10, <1>21, LocksUp DEF IInv, LocksMatch
<1> QED BY <1>9, <1>10, <1>11, <1>12, <1>13, <1>14, <1>16, <1>17, <1>18, <1>19, <1>20, <1>21
        DEF IInv, LocksMatch, SlotsMatch

\* The object that makes room was not locked, and its owner, if it has one,
\* loses both its handle and its pointer.
LEMMA BeginReuseStep == 
    ASSUME IInv, NEW c \in Clients, BeginReuse(c)
    PROVE  IInv' /\ LockCount(c)' = 1 /\ \A d \in Clients : d # c => LockCount(d)' = LockCount(d)
<1>1. PICK v, n, o : n = SizeOf[c] /\ v = Victim(n) /\ o = Replaced(v)
  OBVIOUS
<1>2. PICK s : s = SetTotal(v, 0)
  OBVIOUS
<1>3. /\ cs = "free" /\ cs' = "build" /\ builder' = c /\ builder = NoClient
      /\ handle[c] = 0 /\ Fits(n, 0) # {}
      /\ curWaste' = Wrap(curWaste + slots[v].max - n)
      /\ curObjects' = curObjects /\ heapUsed' = heapUsed
      /\ handle'  = [d \in Clients |-> IF d = c THEN v
                                       ELSE IF d = o THEN 0 ELSE handle[d]]
      /\ pointer' = [d \in Clients |-> IF d = o THEN Null ELSE pointer[d]]
      /\ InitObject(s, v, c, slots[v].base, slots[v].max)
      /\ fragmented' = fragmented /\ age' = age
      /\ scan' = scan /\ live' = live /\ top' = top /\ heap' = heap
  BY <1>1, <1>2 DEF BeginReuse, Enter, Evicts, ReusedSize, SetTotal, loop, IInv, PhaseInv
<1>4. /\ TypeOK /\ HandlesMatch /\ n \in Nat /\ n > 0
      /\ curObjects \in 0 .. MaxObjects
      /\ slots \in [Index -> Slot] /\ handle \in [Clients -> 0 .. MaxObjects]
      /\ pointer \in [Clients -> Address \cup {Null}]
  BY <1>1, <1>3, Consts DEF IInv, SlotsMatch, TypeOK
<1>5. /\ v \in 1 .. curObjects /\ v \in Index /\ v # 0 /\ v \in 0 .. MaxObjects
      /\ n <= slots[v].max /\ slots[v].locks = 0
  <2>1. v \in 1 .. curObjects /\ v \in Index /\ n <= slots[v].max /\ slots[v].locks = 0
    BY <1>1, <1>3, <1>4, VictimFacts
  <2> QED BY <2>1, Consts DEF Index
<1>6. slots[v].base \in 0 .. HeapSize /\ slots[v].max \in 0 .. HeapSize
  BY <1>4, <1>5, SlotFacts
<1>7. /\ s \in [Index -> Slot] /\ s[v].total = 0
      /\ \A j \in Index : j # v => s[j] = slots[j]
  <2>1. 0 \in 0 .. HeapSize /\ slots[v] \in Slot
    BY <1>4, <1>5, SlotFacts, Consts
  <2>2. PICK r : r = Filled(slots[v], 0)
    OBVIOUS
  <2>3. r.total = 0
    BY <2>1, <2>2, FilledRecord
  <2> QED BY <1>2, <1>4, <1>5, <2>1, <2>2, <2>3, TotalEffect
<1>8. /\ slots' \in [Index -> Slot]
      /\ \A j \in Index : j # v => slots'[j] = slots[j]
      /\ slots'[v].used /\ slots'[v].owner = c /\ slots'[v].base = slots[v].base
      /\ slots'[v].max = slots[v].max /\ slots'[v].locks = 1 /\ slots'[v].total = 0
  <2>1. /\ slots' \in [Index -> Slot]
        /\ \A j \in Index : j # v => slots'[j] = s[j]
        /\ slots'[v].used /\ slots'[v].owner = c /\ slots'[v].base = slots[v].base
        /\ slots'[v].max = slots[v].max /\ slots'[v].locks = 1
        /\ slots'[v].total = s[v].total
    BY <1>3, <1>4, <1>5, <1>6, <1>7, InitObjectEffect
  <2> QED BY <1>7, <2>1
<1>9. Current = 1 .. curObjects /\ Current' = 1 .. curObjects
  BY <1>3 DEF Current
<1>10. \A d \in Clients :
          /\ handle[d] # 0 => handle[d] \in Index /\ handle[d] \in Current
          /\ handle[d] = v <=> d = o
  <2> SUFFICES ASSUME NEW d \in Clients
               PROVE  /\ handle[d] # 0 => handle[d] \in Index /\ handle[d] \in Current
                      /\ handle[d] = v <=> d = o
    OBVIOUS
  <2>1. handle[d] # 0 => /\ handle[d] \in Index /\ handle[d] \in Current
                         /\ slots[handle[d]].used /\ slots[handle[d]].owner = d
    BY <1>4, Owned
  <2>2. ASSUME handle[d] = v PROVE d = o
    BY <1>1, <1>5, <2>1, <2>2 DEF Replaced
  <2>3. ASSUME d = o PROVE handle[d] = v
    <3>1. slots[v].used /\ slots[v].owner = d
      BY <1>1, <2>3, Consts DEF Replaced
    <3>2. v \in Resident
      BY <1>5, <1>9, <3>1 DEF Resident
    <3> QED BY <1>4, <3>1, <3>2 DEF HandlesMatch
  <2> QED BY <2>1, <2>2, <2>3
<1>11. /\ c # o /\ handle'[c] = v /\ pointer'[c] = Null /\ pointer[c] = Null
       /\ \A d \in Clients : d = o => handle'[d] = 0 /\ pointer'[d] = Null
       /\ \A d \in Clients : d # o /\ d # c => handle'[d] = handle[d]
       /\ \A d \in Clients : d # o => pointer'[d] = pointer[d]
  <2>1. c # o
    BY <1>3, <1>5, <1>10
  <2>2. pointer[c] = Null
    BY <1>3, NoHandleNoPointer
  <2> QED BY <1>3, <2>1, <2>2
<1>12. HeapIsTiled' /\ LaidInv' /\ CompactInv'
  BY <1>3, <1>8, SameGeometry
<1>13. /\ LockIsOwners' /\ objectLocks' = objectLocks + 1 /\ objectLocks' \in Nat
       /\ objectLock' \in {Main, Pager, objectLock}
  <2>1. objectLocks \in Nat /\ LockIsOwners /\ TakeLock(Pager)
    BY <1>3 DEF IInv, TypeOK, LocksMatch, InitObject
  <2> QED BY <1>3, <2>1, TakenMutex, Consts
<1>14. TypeOK'
  <2>1. curWaste' \in 0 .. WasteWidth - 1
    <3>1. curWaste + slots[v].max - n \in Int
      BY <1>4, <1>6, Consts DEF TypeOK
    <3> QED BY <1>3, <3>1, Wrapped
  <2>2. handle' \in [Clients -> 0 .. MaxObjects]
    <3>1. 0 \in 0 .. MaxObjects
      BY Consts
    <3> QED BY <1>3, <1>4, <1>5, <3>1
  <2>3. pointer' \in [Clients -> Address \cup {Null}]
    BY <1>3, <1>4
  <2> QED BY <1>3, <1>4, <1>8, <1>13, <2>1, <2>2, <2>3 DEF TypeOK, Phases
<1>15. PhaseInv'
  BY <1>3, <1>5, <1>8, <1>11, Consts DEF IInv, PhaseInv
<1>16. \A j \in Resident' : j = v \/ (j \in Resident /\ j # v /\ j \in Index /\ slots'[j] = slots[j])
  <2>1. \A j \in 1 .. curObjects : j \in Index
    BY <1>4, Consts DEF Index
  <2> QED BY <1>8, <1>9, <2>1 DEF Resident
<1>17. HandlesMatch'
  <2>1. ASSUME NEW d \in Clients, handle'[d] # 0
        PROVE  handle'[d] \in Resident' /\ slots'[handle'[d]].owner = d
    <3>1. CASE d = c
      BY <1>5, <1>8, <1>9, <1>11, <3>1 DEF Resident
    <3>2. CASE d # c
      <4>1. d # o /\ handle'[d] = handle[d] /\ handle[d] # v /\ handle[d] \in Index
            /\ handle[d] \in Current
        BY <1>10, <1>11, <2>1, <3>2
      <4>2. slots'[handle[d]] = slots[handle[d]]
        BY <1>8, <4>1
      <4> QED BY <1>4, <1>9, <2>1, <4>1, <4>2 DEF Resident, HandlesMatch
    <3> QED BY <3>1, <3>2
  <2>2. ASSUME NEW j \in Resident'
        PROVE  slots'[j].owner \in Clients /\ handle'[slots'[j].owner] = j
    <3>1. CASE j = v
      BY <1>8, <1>11, <3>1
    <3>2. CASE j # v
      <4>1. j \in Resident /\ slots'[j] = slots[j] /\ j \in Index
        BY <1>16, <3>2
      <4>2. slots[j].owner \in Clients /\ handle[slots[j].owner] = j /\ j # 0
        BY <1>4, <4>1 DEF HandlesMatch, Index
      <4> QED BY <1>3, <1>10, <1>11, <3>2, <4>1, <4>2
    <3> QED BY <3>1, <3>2
  <2> QED BY <2>1, <2>2 DEF HandlesMatch
<1>18. FreeSlotsAreEmpty'
  BY <1>3, <1>4, <1>5, <1>8 DEF IInv, SlotsMatch, FreeSlotsAreEmpty
<1>19. SizedInv'
  <2> SUFFICES ASSUME NEW j \in Resident'
               PROVE  /\ SizeOf[slots'[j].owner] <= slots'[j].max
                      /\ slots'[j].total = IF pointer'[slots'[j].owner] = Null THEN 0
                                           ELSE SizeOf[slots'[j].owner]
    BY DEF SizedInv
  <2>1. CASE j = v
    BY <1>1, <1>5, <1>8, <1>11, <2>1
  <2>2. CASE j # v
    <3>1. j \in Resident /\ slots'[j] = slots[j]
      BY <1>16, <2>2
    <3>2. slots[j].owner \in Clients /\ handle[slots[j].owner] = j
      BY <1>4, <3>1 DEF HandlesMatch
    <3>3. pointer'[slots[j].owner] = pointer[slots[j].owner]
      BY <1>10, <1>11, <2>2, <3>2
    <3> QED BY <3>1, <3>3 DEF IInv, SizedInv
  <2> QED BY <2>1, <2>2
<1>20. DataIntact'
  <2>1. \A d \in Clients : d # c /\ d # o /\ handle[d] # 0 =>
           handle'[d] = handle[d] /\ slots'[handle'[d]].base = slots[handle[d]].base
    BY <1>8, <1>10, <1>11
  <2> QED BY <1>3, <1>11, <2>1, Consts DEF IInv, DataIntact
<1>21. /\ LockCount(c)' = 1 /\ LockCount(c) = 0
       /\ \A d \in Clients : d # c => LockCount(d)' = LockCount(d)
  <2>1. LockCount(c)' = 1 /\ LockCount(c) = 0
    BY <1>3, <1>5, <1>8, <1>11 DEF LockCount
  <2>2. ASSUME NEW d \in Clients, d # c PROVE LockCount(d)' = LockCount(d)
    <3>1. CASE d = o
      BY <1>5, <1>10, <1>11, <3>1 DEF LockCount
    <3>2. CASE d # o
      <4>1. handle'[d] = handle[d] /\ handle[d] # v /\ (handle[d] # 0 => handle[d] \in Index)
        BY <1>10, <1>11, <2>2, <3>2
      <4> QED BY <1>8, <4>1 DEF LockCount
    <3> QED BY <3>1, <3>2
  <2> QED BY <2>1, <2>2
<1>22. LocksAddUp'
  BY <1>4, <1>13, <1>14, <1>21, LocksUp DEF IInv, LocksMatch
<1> QED BY <1>12, <1>13, <1>14, <1>15, <1>17, <1>18, <1>19, <1>20, <1>21, <1>22
        DEF IInv, LocksMatch, SlotsMatch

\* The data of two objects are apart: each lies in its own slot.
LEMMA DataApart ==
    ASSUME IInv, NEW d \in Clients, NEW i \in Resident, handle[d] # 0, handle[d] # i,
           pointer[d] # Null
    PROVE  /\ \A a \in pointer[d] .. pointer[d] + SizeOf[d] - 1 :
                 /\ a \in Address /\ heap[a] = d
                 /\ a \notin slots[i].base .. slots[i].base + slots[i].max - 1
           /\ pointer[d] = slots[handle[d]].base /\ pointer[d] \in Int
<1>1. PICK j : j = handle[d]
  OBVIOUS
<1>2. TypeOK /\ HandlesMatch
  BY DEF IInv, SlotsMatch
<1>3. j \in Index /\ j \in Current /\ slots[j].used /\ slots[j].owner = d
  BY <1>1, <1>2, Owned
<1>4. i \in Current /\ i \in Index
  <2>1. i \in Current /\ slots[i].used /\ slots[i].owner \in Clients
        /\ handle[slots[i].owner] = i
    BY <1>2 DEF Resident, HandlesMatch
  <2>2. i # 0
    BY <2>1, Consts DEF Current, IInv, PhaseInv
  <2> QED BY <1>2, <2>1, <2>2, Owned
<1>5. /\ pointer[d] = slots[j].base
      /\ \A a \in pointer[d] .. pointer[d] + SizeOf[d] - 1 : a \in Address /\ heap[a] = d
  BY <1>1 DEF IInv, DataIntact
<1>6. SizeOf[d] <= slots[j].max
  <2>1. j \in Resident
    BY <1>3 DEF Resident
  <2> QED BY <1>3, <2>1 DEF IInv, SizedInv
<1>7. End(i) <= slots[j].base \/ End(j) <= slots[i].base
  <2>1. i < j \/ j < i
    BY <1>1, <1>3, <1>4, Consts DEF Index
  <2> QED BY <1>3, <1>4, <2>1 DEF IInv, LaidInv
<1>8. End(i) = slots[i].base + slots[i].max /\ End(j) = slots[j].base + slots[j].max
  BY <1>3, <1>4, Consts DEF End, Index
<1>9. /\ slots[i].base \in Int /\ slots[i].max \in Int
      /\ slots[j].base \in Int /\ slots[j].max \in Int /\ SizeOf[d] \in Int
  BY <1>2, <1>3, <1>4, SlotFacts, Consts
<1>10. ASSUME NEW a \in pointer[d] .. pointer[d] + SizeOf[d] - 1
       PROVE  a \notin slots[i].base .. slots[i].base + slots[i].max - 1
  BY <1>5, <1>6, <1>7, <1>8, <1>9, <1>10
<1> QED BY <1>1, <1>5, <1>9, <1>10

LEMMA FillStep == 
    ASSUME IInv, NEW c \in Clients, Fill(c)
    PROVE  IInv' /\ \A d \in Clients : LockCount(d)' = LockCount(d)
<1>1. PICK i, n : i = handle[c] /\ n = SizeOf[c]
  OBVIOUS
<1>2. /\ cs = "build" /\ cs' = "build" /\ builder = c /\ builder' = builder
      /\ pointer[c] = Null /\ slots[i].total + n <= slots[i].max
      /\ pointer' = [pointer EXCEPT ![c] = slots[i].base + slots[i].total]
      /\ slots' = [slots EXCEPT ![i].total = @ + n]
      /\ heap' = [a \in Address |->
                    IF a \in pointer'[c] .. pointer'[c] + n - 1 THEN c ELSE heap[a]]
      /\ handle' = handle /\ curObjects' = curObjects /\ heapUsed' = heapUsed
      /\ curWaste' = curWaste /\ fragmented' = fragmented /\ age' = age
      /\ objectLocks' = objectLocks /\ objectLock' = objectLock
      /\ scan' = scan /\ live' = live /\ top' = top
      /\ i # 0 /\ slots[i].locks = 1
  BY <1>1 DEF Fill, space, loop, locking, IInv, PhaseInv
<1>3. /\ TypeOK /\ HandlesMatch /\ n \in Nat /\ n > 0
      /\ pointer \in [Clients -> Address \cup {Null}]
      /\ heap \in [Address -> Clients \cup {NoClient}]
      /\ heapUsed \in 0 .. HeapSize
  BY <1>1, Consts DEF IInv, SlotsMatch, TypeOK
<1>4. i \in Index /\ i \in Current /\ slots[i].used /\ slots[i].owner = c /\ i \in Resident
  BY <1>1, <1>2, <1>3, Owned DEF Resident
<1>5. slots[i].total = 0
  BY <1>2, <1>4 DEF IInv, SizedInv
<1>6. slots[i].base \in 0 .. HeapSize /\ slots[i].max \in 0 .. HeapSize
  BY <1>3, <1>4, SlotFacts
<1>7. slots[i].base + slots[i].max <= HeapSize /\ n <= slots[i].max
  <2>1. End(i) = slots[i].base + slots[i].max
    BY <1>2 DEF End
  <2>2. End(i) <= heapUsed
    BY <1>4 DEF IInv, LaidInv
  <2> QED BY <1>2, <1>3, <1>5, <1>6, <2>1, <2>2, Consts
<1>8. slots[i].base \in Address /\ slots[i].base # Null /\ n \in 0 .. HeapSize
  BY <1>3, <1>6, <1>7, Consts DEF Address, Null
<1>9. /\ pointer'[c] = slots[i].base /\ pointer' \in [Clients -> Address \cup {Null}]
      /\ \A d \in Clients : d # c => pointer'[d] = pointer[d]
  BY <1>2, <1>3, <1>5, <1>6, <1>8
<1>10. /\ slots' \in [Index -> Slot]
       /\ \A j \in Index : j # i => slots'[j] = slots[j]
       /\ slots'[i].locks = slots[i].locks /\ slots'[i].used = slots[i].used
       /\ slots'[i].owner = slots[i].owner /\ slots'[i].base = slots[i].base
       /\ slots'[i].max = slots[i].max /\ slots'[i].total = n
  <2>1. slots[i].total + n = n
    BY <1>3, <1>5
  <2>2. PICK s : s = SetTotal(i, n)
    OBVIOUS
  <2>3. slots' = s
    <3>1. slots' = [slots EXCEPT ![i].total = slots[i].total + n]
      BY <1>2
    <3> QED BY <2>1, <2>2, <3>1, Zenon DEF SetTotal
  <2>4. /\ s \in [Index -> Slot] /\ s[i] = Filled(slots[i], n)
        /\ \A j \in Index : j # i => s[j] = slots[j]
    BY <1>3, <1>4, <1>8, <2>2, TotalEffect
  <2>5. slots[i] \in Slot
    BY <1>3, <1>4, SlotFacts
  <2>6. PICK r : r = Filled(slots[i], n)
    OBVIOUS
  <2>7. /\ r.locks = slots[i].locks /\ r.used = slots[i].used
        /\ r.owner = slots[i].owner /\ r.base = slots[i].base
        /\ r.max = slots[i].max /\ r.total = n
    BY <1>8, <2>5, <2>6, FilledRecord
  <2> QED BY <2>3, <2>4, <2>6, <2>7
<1>11. HeapIsTiled' /\ LaidInv' /\ CompactInv'
  BY <1>2, <1>10, SameGeometry
<1>12. HandlesMatch' /\ Resident' = Resident /\ Resident \subseteq Index
  BY <1>2, <1>10, SameHandles
<1>13. FreeSlotsAreEmpty'
  BY <1>2, <1>4, <1>10 DEF IInv, SlotsMatch, FreeSlotsAreEmpty
<1>14. TypeOK'
  <2>1. heap' \in [Address -> Clients \cup {NoClient}]
    BY <1>2, <1>3
  <2> QED BY <1>2, <1>3, <1>9, <1>10, <2>1 DEF TypeOK
<1>15. PhaseInv' /\ LockIsOwners'
  BY <1>1, <1>2, <1>10 DEF IInv, PhaseInv, LocksMatch, LockIsOwners
<1>19. \A d \in Clients : LockCount(d)' = LockCount(d)
  <2>1. \A d \in Clients : handle[d] # 0 => handle[d] \in Index
    BY <1>3, Owned
  <2> QED BY <1>2, <1>10, <2>1 DEF LockCount
<1>16. LocksAddUp'
  BY <1>2, <1>19, LocksSame DEF IInv, LocksMatch
<1>17. SizedInv'
  <2> SUFFICES ASSUME NEW j \in Resident
               PROVE  /\ SizeOf[slots'[j].owner] <= slots'[j].max
                      /\ slots'[j].total = IF pointer'[slots'[j].owner] = Null THEN 0
                                           ELSE SizeOf[slots'[j].owner]
    BY <1>12 DEF SizedInv
  <2>1. CASE j = i
    BY <1>1, <1>4, <1>7, <1>8, <1>9, <1>10, <2>1
  <2>2. CASE j # i
    <3>1. slots'[j] = slots[j] /\ slots[j].owner \in Clients /\ handle[slots[j].owner] = j
      BY <1>3, <1>10, <1>12, <2>2 DEF HandlesMatch
    <3>2. pointer'[slots[j].owner] = pointer[slots[j].owner]
      BY <1>1, <1>9, <2>2, <3>1
    <3> QED BY <3>1, <3>2 DEF IInv, SizedInv
  <2> QED BY <2>1, <2>2
<1>18. DataIntact'
  <2> SUFFICES ASSUME NEW d \in Clients
        PROVE  IF pointer'[d] = Null
               THEN handle'[d] = 0 \/ d = builder'
               ELSE /\ handle'[d] # 0 /\ pointer'[d] = slots'[handle'[d]].base
                    /\ \A a \in pointer'[d] .. pointer'[d] + SizeOf[d] - 1 :
                          a \in Address /\ heap'[a] = d
    BY DEF DataIntact
  <2>1. CASE d = c
    <3>1. \A a \in pointer'[c] .. pointer'[c] + n - 1 : a \in Address
      BY <1>3, <1>6, <1>7, <1>9, Consts DEF Address
    <3>2. \A a \in pointer'[c] .. pointer'[c] + n - 1 : heap'[a] = c
      BY <1>2, <3>1
    <3> QED BY <1>1, <1>2, <1>8, <1>9, <1>10, <2>1, <3>1, <3>2
  <2>2. CASE d # c
    <3>1. pointer'[d] = pointer[d]
      BY <1>9, <2>2
    <3>2. CASE pointer[d] = Null
      BY <1>2, <2>2, <3>1, <3>2 DEF IInv, DataIntact
    <3>3. CASE pointer[d] # Null
      <4>1. handle[d] # 0 /\ handle[d] # i
        BY <1>1, <1>2, <1>3, <2>2, <3>3, Owned DEF IInv, DataIntact
      <4>2. /\ \A a \in pointer[d] .. pointer[d] + SizeOf[d] - 1 :
                 /\ a \in Address /\ heap[a] = d
                 /\ a \notin slots[i].base .. slots[i].base + slots[i].max - 1
            /\ pointer[d] = slots[handle[d]].base
        BY <1>4, <3>3, <4>1, DataApart
      <4>3. handle[d] \in Index
        BY <1>3, <4>1, Owned
      <4>4. ASSUME NEW a \in pointer[d] .. pointer[d] + SizeOf[d] - 1
            PROVE  a \in Address /\ heap'[a] = d
        <5>1. a \in Address /\ heap[a] = d
              /\ a \notin slots[i].base .. slots[i].base + slots[i].max - 1
          BY <4>2
        <5>2. a \in Int
          BY <5>1, Consts DEF Address
        <5>3. a \notin pointer'[c] .. pointer'[c] + n - 1
          BY <1>3, <1>6, <1>7, <1>9, <5>1, <5>2
        <5> QED BY <1>2, <5>1, <5>3
      <4> QED BY <1>2, <1>10, <3>1, <3>3, <4>1, <4>2, <4>3, <4>4
    <3> QED BY <3>2, <3>3
  <2> QED BY <2>1, <2>2
<1> QED BY <1>11, <1>12, <1>13, <1>14, <1>15, <1>16, <1>17, <1>18, <1>19
        DEF IInv, LocksMatch, SlotsMatch

\* The last slot holds no object: heap_used_ goes back to where it begins.
LEMMA CleanStepStep == ASSUME IInv, CleanStep PROVE IInv'
<1>1. /\ cs \in {"cleanAge", "cleanFree"} /\ cs' = cs /\ curObjects > 0
      /\ ~slots[curObjects].used /\ slots' = slots /\ builder' = builder
      /\ curWaste' = Wrap(curWaste - slots[curObjects].max)
      /\ heapUsed' = heapUsed - slots[curObjects].max /\ curObjects' = curObjects - 1
      /\ fragmented' = fragmented /\ age' = age /\ handle' = handle /\ pointer' = pointer
      /\ heap' = heap /\ objectLocks' = objectLocks /\ objectLock' = objectLock
      /\ scan' = scan /\ live' = live /\ top' = top
  BY DEF CleanStep, LastSize, locking, loop, client
<1>2. PICK n : n = curObjects
  OBVIOUS
<1>3. /\ TypeOK /\ HandlesMatch /\ n \in Index /\ n \in Nat /\ n > 0
      /\ heapUsed \in 0 .. HeapSize /\ curObjects \in 0 .. MaxObjects
  <2>1. TypeOK /\ HandlesMatch
    BY DEF IInv, SlotsMatch
  <2>2. heapUsed \in 0 .. HeapSize /\ curObjects \in 0 .. MaxObjects
    BY <2>1 DEF TypeOK
  <2>3. n \in Nat /\ n > 0 /\ n \in Index
    BY <1>1, <1>2, <2>2, Consts DEF Index
  <2> QED BY <2>1, <2>2, <2>3
<1>4. /\ slots[n].base \in 0 .. HeapSize /\ slots[n].max \in 0 .. HeapSize
  BY <1>3, SlotFacts
<1>5. /\ Current = 1 .. n /\ Current' = 1 .. n - 1
      /\ \A j \in 1 .. n - 1 : j \in Current /\ j \in Index
  BY <1>1, <1>2, <1>3, Consts DEF Current, Index
<1>6. /\ heapUsed = End(n) /\ Tile(1, n) /\ slots[1].base = 0
      /\ End(n) = slots[n].base + slots[n].max
  BY <1>1, <1>2, <1>3, <1>5 DEF IInv, HeapIsTiled, End
<1>7. heapUsed' = slots[n].base
  BY <1>1, <1>2, <1>3, <1>4, <1>6
<1>8. heapUsed' = End(n - 1)'
  <2>1. CASE n = 1
    BY <1>6, <1>7, <2>1 DEF End
  <2>2. CASE n # 1
    <3>1. n \in 2 .. n /\ n - 1 # 0
      BY <1>3, <2>2
    <3>2. slots[n].base = slots[n-1].base + slots[n-1].max
      BY <1>6, <3>1 DEF Tile
    <3> QED BY <1>1, <1>7, <3>1, <3>2 DEF End
  <2> QED BY <2>1, <2>2
<1>9. HeapIsTiled'
  <2>1. Tile(1, n - 1)'
    <3>1. \A k \in 2 .. n - 1 : k \in 2 .. n
      BY <1>3
    <3> QED BY <1>1, <1>6, <3>1 DEF Tile
  <2> QED BY <1>1, <1>2, <1>6, <1>8, <2>1 DEF HeapIsTiled
<1>10. LaidInv'
  <2>1. /\ \A j, k \in 1 .. n : j < k => End(j) <= slots[k].base
    BY <1>5 DEF IInv, LaidInv
  <2>2. \A j \in 1 .. n - 1 : End(j)' = End(j)
    BY <1>1 DEF End
  <2>3. \A j \in 1 .. n - 1 : j \in 1 .. n /\ n \in 1 .. n /\ j < n
    BY <1>3
  <2> QED BY <1>1, <1>5, <1>7, <2>1, <2>2, <2>3 DEF LaidInv
<1>11. Resident' = Resident
  <2>1. \A j \in 1 .. n : j \in 1 .. n - 1 \/ j = n
    BY <1>3
  <2>2. \A j \in 1 .. n - 1 : j \in 1 .. n
    BY <1>3
  <2> QED BY <1>1, <1>2, <1>5, <2>1, <2>2 DEF Resident
<1>12. SlotsMatch'
  <2>1. \A i \in Index : i > n - 1 => i > n \/ i = n
    BY <1>3 DEF Index
  <2> QED BY <1>1, <1>2, <1>11, <2>1 DEF IInv, SlotsMatch, HandlesMatch, FreeSlotsAreEmpty
<1>13. SizedInv' /\ DataIntact' /\ CompactInv'
  BY <1>1, <1>11 DEF IInv, SizedInv, DataIntact, CompactInv
<1>14. TypeOK'
  <2>1. curWaste' \in 0 .. WasteWidth - 1
    <3>1. curWaste - slots[n].max \in Int
      <4>1. curWaste \in Int
        BY <1>3, Consts DEF TypeOK
      <4> QED BY <1>4, <4>1, Consts
    <3> QED BY <1>1, <1>2, <3>1, Wrapped
  <2>2. heapUsed' \in 0 .. HeapSize /\ curObjects' \in 0 .. MaxObjects
    BY <1>1, <1>3, <1>4, <1>7, Consts
  <2> QED BY <1>1, <1>3, <2>1, <2>2 DEF TypeOK
<1>15. PhaseInv' /\ LockIsOwners'
  BY <1>1 DEF IInv, PhaseInv, LocksMatch, LockIsOwners
<1>16. LocksAddUp'
  BY <1>1, LocksSame DEF IInv, LocksMatch, LockCount
<1> QED BY <1>9, <1>10, <1>12, <1>13, <1>14, <1>15, <1>16 DEF IInv, LocksMatch

LEMMA CompactSkipStep == ASSUME IInv, CompactSkip PROVE IInv'
<1>1. /\ cs = "compact" /\ cs' = "compact" /\ scan <= curObjects /\ ~slots[scan].used
      /\ scan' = scan + 1 /\ slots' = slots /\ builder' = builder
      /\ curWaste' = curWaste /\ heapUsed' = heapUsed /\ curObjects' = curObjects
      /\ fragmented' = fragmented /\ age' = age /\ handle' = handle /\ pointer' = pointer
      /\ heap' = heap /\ objectLocks' = objectLocks /\ objectLock' = objectLock
      /\ live' = live /\ top' = top
  BY DEF CompactSkip, locking, space, client
<1>2. PICK s : s = scan
  OBVIOUS
<1>3. /\ TypeOK /\ HandlesMatch /\ s \in Index /\ s \in Nat /\ s > 0
      /\ curObjects \in 0 .. MaxObjects /\ live \in Nat /\ live < s
  BY <1>1, <1>2, Consts DEF IInv, SlotsMatch, TypeOK, Index, PhaseInv
<1>4. /\ Current = (1 .. live) \cup (s .. curObjects)
      /\ Current' = (1 .. live) \cup (s + 1 .. curObjects)
      /\ s \in Current
      /\ \A j \in Current : j \in Current' \/ j = s
      /\ \A j \in Current' : j \in Current
  <2>1. /\ Current = (1 .. live) \cup (s .. curObjects)
        /\ Current' = (1 .. live) \cup (s + 1 .. curObjects)
    BY <1>1, <1>2 DEF Current
  <2> QED BY <1>1, <1>2, <1>3, <2>1
<1>5. Resident' = Resident
  BY <1>1, <1>2, <1>4 DEF Resident
<1>6. HeapIsTiled'
  <2>1. /\ Tile(1, live) /\ Tile(s, curObjects) /\ top = End(live)
        /\ top <= slots[s].base /\ (1 \in Current => slots[1].base = 0)
    BY <1>1, <1>2 DEF IInv, HeapIsTiled
  <2>2. Tile(1, live)' /\ Tile(s + 1, curObjects)' /\ End(live)' = End(live)
    <3>1. \A k \in s + 2 .. curObjects : k \in s + 1 .. curObjects
      BY <1>3
    <3>2. s + 1 + 1 = s + 2
      BY <1>3
    <3> QED BY <1>1, <2>1, <3>1, <3>2 DEF Tile, End
  <2>3. s + 1 <= curObjects => top <= slots[s+1].base
    <3> SUFFICES ASSUME s + 1 <= curObjects PROVE top <= slots[s+1].base
      OBVIOUS
    <3>1. s + 1 \in s + 1 .. curObjects /\ s + 1 - 1 = s
      BY <1>3, Consts
    <3>2. slots[s+1].base = slots[s].base + slots[s].max
      <4>1. PICK k : k = s + 1
        OBVIOUS
      <4>2. slots[k].base = slots[k-1].base + slots[k-1].max
        BY <2>1, <3>1, <4>1 DEF Tile
      <4>3. k - 1 = s
        BY <1>3, <4>1
      <4> QED BY <4>1, <4>2, <4>3, Zenon
    <3>3. slots[s].base \in 0 .. HeapSize /\ slots[s].max \in 0 .. HeapSize
          /\ top \in 0 .. HeapSize
      BY <1>3, SlotFacts DEF TypeOK
    <3> QED BY <2>1, <3>2, <3>3, Consts
  <2> QED BY <1>1, <1>2, <1>4, <2>1, <2>2, <2>3 DEF HeapIsTiled
<1>7. LaidInv'
  <2>1. \A j : End(j)' = End(j)
    BY <1>1 DEF End
  <2> QED BY <1>1, <1>4, <2>1 DEF IInv, LaidInv
<1>8. SlotsMatch' /\ SizedInv' /\ DataIntact' /\ CompactInv'
  BY <1>1, <1>5 DEF IInv, SlotsMatch, HandlesMatch, FreeSlotsAreEmpty, SizedInv, DataIntact,
                    CompactInv
<1>9. TypeOK'
  <2>1. scan' \in 0 .. MaxObjects + 1
    BY <1>1, <1>2, <1>3, Consts
  <2> QED BY <1>1, <1>3, <2>1 DEF TypeOK
<1>10. PhaseInv' /\ LockIsOwners'
  <2>1. scan' \in 1 .. curObjects' + 1 /\ live' < scan'
    BY <1>1, <1>2, <1>3
  <2> QED BY <1>1, <2>1 DEF IInv, PhaseInv, LocksMatch, LockIsOwners
<1>11. LocksAddUp'
  BY <1>1, LocksSame DEF IInv, LocksMatch, LockCount
<1> QED BY <1>6, <1>7, <1>8, <1>9, <1>10, <1>11 DEF IInv, LocksMatch

MovedTo(o, b) == [o EXCEPT !.base = b, !.max = o.total]

LEMMA MovedRecord ==
    ASSUME NEW o \in Slot, NEW b \in 0 .. HeapSize, NEW r, r = MovedTo(o, b)
    PROVE  /\ r \in Slot /\ r.base = b /\ r.max = o.total /\ r.total = o.total
           /\ r.used = o.used /\ r.owner = o.owner /\ r.locks = o.locks
<1>1. r \in Slot
  <2>1. o.total \in 0 .. HeapSize
    BY DEF Slot
  <2> QED BY <2>1 DEF Slot, MovedTo
<1>2. /\ r.base = b /\ r.max = o.total /\ r.total = o.total
      /\ r.used = o.used /\ r.owner = o.owner /\ r.locks = o.locks
  BY DEF Slot, MovedTo
<1> QED BY <1>1, <1>2

\* The object of slot scan goes to slot live + 1 and to the address top.  What
\* lies there belongs to no slot that counts: the slots moved so far end at
\* top, and those not reached begin behind the one that moves.
LEMMA CompactMoveStep == ASSUME IInv, CompactMove PROVE IInv'
<1>1. PICK s, m, c, r : /\ s = scan /\ m = live + 1 /\ c = slots[scan].owner
                        /\ r = MovedTo(slots[scan], top)
  OBVIOUS
<1>2. /\ cs = "compact" /\ cs' = "compact" /\ s <= curObjects /\ slots[s].used
      /\ scan' = s + 1 /\ live' = m /\ top' = top + slots[s].total
      /\ slots' = [slots EXCEPT ![m] = r]
      /\ handle' = [handle EXCEPT ![c] = m]
      /\ pointer' = [pointer EXCEPT ![c] = PointerFixup(@, top - slots[s].base)]
      /\ heap' = Moved(slots[s].base, top, slots[s].total)
      /\ builder' = builder /\ curWaste' = curWaste /\ heapUsed' = heapUsed
      /\ curObjects' = curObjects /\ fragmented' = fragmented /\ age' = age
      /\ objectLocks' = objectLocks /\ objectLock' = objectLock
  BY <1>1 DEF CompactMove, MovedTo, NewHandle, locking, space
<1>3. /\ TypeOK /\ HandlesMatch /\ s \in Index /\ s \in Nat /\ s > 0
      /\ curObjects \in 0 .. MaxObjects /\ live \in Nat /\ live < s
      /\ m \in Index /\ m \in Nat /\ m <= s /\ m = live + 1 /\ m > 0
      /\ top \in 0 .. HeapSize /\ heapUsed \in 0 .. HeapSize
      /\ builder = NoClient
  BY <1>1, <1>2, Consts DEF IInv, SlotsMatch, TypeOK, Index, PhaseInv
<1>4. /\ slots \in [Index -> Slot] /\ handle \in [Clients -> 0 .. MaxObjects]
      /\ pointer \in [Clients -> Address \cup {Null}]
      /\ heap \in [Address -> Clients \cup {NoClient}]
  BY <1>3 DEF TypeOK
<1>5. /\ slots[s] \in Slot /\ slots[s].base \in 0 .. HeapSize
      /\ slots[s].max \in 0 .. HeapSize /\ slots[s].total \in 0 .. HeapSize
  BY <1>3, SlotFacts
<1>6. /\ slots' \in [Index -> Slot]
      /\ \A j \in Index : j # m => slots'[j] = slots[j]
      /\ slots'[m].base = top /\ slots'[m].max = slots[s].total
      /\ slots'[m].total = slots[s].total /\ slots'[m].used = slots[s].used
      /\ slots'[m].owner = c /\ slots'[m].locks = slots[s].locks
  <2>1. /\ r \in Slot /\ r.base = top /\ r.max = slots[s].total
        /\ r.total = slots[s].total /\ r.used = slots[s].used
        /\ r.owner = slots[s].owner /\ r.locks = slots[s].locks
    <3>1. r = MovedTo(slots[s], top) /\ slots[s] \in Slot /\ top \in 0 .. HeapSize
      BY <1>1, <1>3, <1>5
    <3> QED BY <3>1, MovedRecord
  <2>2. /\ slots' \in [Index -> Slot] /\ slots'[m] = r
        /\ \A j \in Index : j # m => slots'[j] = slots[j]
    BY <1>2, <1>3, <2>1, OneSlot
  <2> QED BY <1>1, <2>1, <2>2
<1>7. /\ Current = (1 .. live) \cup (s .. curObjects)
      /\ Current' = (1 .. m) \cup (s + 1 .. curObjects)
  BY <1>1, <1>2 DEF Current
<1>8. /\ s \in Current /\ m \in Current'
      /\ \A j \in Current : j \in Index /\ (j # s => j \in Current' /\ j # m)
      /\ \A j \in Current' : /\ j \in Index
                             /\ j # m => j \in Current /\ j # s /\ slots'[j] = slots[j]
  <2>1. s \in Current /\ m \in Current'
    BY <1>2, <1>3, <1>7
  <2>2. \A j \in Current : j \in Index /\ (j # s => j \in Current' /\ j # m)
    BY <1>2, <1>3, <1>7, Consts DEF Index
  <2>3. \A j \in Current' : j \in Index /\ (j # m => j \in Current /\ j # s)
    BY <1>2, <1>3, <1>7, Consts DEF Index
  <2> QED BY <1>6, <2>1, <2>2, <2>3
<1>9. s \in Resident /\ c \in Clients /\ handle[c] = s
  BY <1>1, <1>2, <1>3, <1>8 DEF Resident, HandlesMatch
<1>10. /\ pointer[c] = slots[s].base /\ pointer[c] # Null
       /\ slots[s].total = SizeOf[c] /\ SizeOf[c] <= slots[s].max
       /\ \A a \in pointer[c] .. pointer[c] + SizeOf[c] - 1 : a \in Address /\ heap[a] = c
  <2>1. pointer[c] # Null
    BY <1>3, <1>9, Consts DEF IInv, DataIntact
  <2>2. slots[s].total = SizeOf[c] /\ SizeOf[c] <= slots[s].max
    BY <1>1, <1>9, <2>1 DEF IInv, SizedInv
  <2> QED BY <1>9, <2>1, <2>2 DEF IInv, DataIntact
<1>11. SizeOf[c] \in Nat /\ SizeOf[c] > 0
  BY <1>9, Consts
<1>12. End(s) = slots[s].base + slots[s].max /\ End(s) <= heapUsed /\ top <= slots[s].base
       /\ top = End(live)
  BY <1>1, <1>2, <1>3, <1>8 DEF IInv, LaidInv, HeapIsTiled, End
<1>13. pointer'[c] = top /\ top \in Address /\ top # Null
       /\ top + SizeOf[c] <= End(s) /\ top + SizeOf[c] <= HeapSize
  <2>1. top + SizeOf[c] <= End(s) /\ top + SizeOf[c] <= HeapSize
    BY <1>3, <1>5, <1>10, <1>11, <1>12, Consts
  <2>2. top \in Address /\ top # Null
    BY <1>3, <1>11, <2>1, Consts DEF Address, Null
  <2>3. pointer'[c] = PointerFixup(pointer[c], top - slots[s].base)
    BY <1>2, <1>4, <1>9
  <2>4. pointer'[c] = top
    BY <1>3, <1>5, <1>10, <2>3, Consts DEF PointerFixup
  <2> QED BY <2>1, <2>2, <2>4
<1>14. /\ handle'[c] = m
       /\ \A d \in Clients : d # c => handle'[d] = handle[d] /\ pointer'[d] = pointer[d]
  BY <1>2, <1>4, <1>9
<1>15. \A d \in Clients : handle[d] # 0 =>
          /\ handle[d] \in Index /\ handle[d] \in Current
          /\ d # c => handle[d] # s
  BY <1>3, <1>9, Owned
<1>16. TypeOK'
  <2>1. handle' \in [Clients -> 0 .. MaxObjects]
    <3>1. m \in 0 .. MaxObjects
      BY <1>3, Consts DEF Index
    <3> QED BY <1>2, <1>4, <1>9, <3>1
  <2>2. pointer' \in [Clients -> Address \cup {Null}]
    <3>1. DOMAIN pointer' = Clients /\ pointer' = [pointer EXCEPT ![c] = pointer'[c]]
      BY <1>2, <1>4, <1>9
    <3> QED BY <1>4, <1>13, <3>1
  <2>3. heap' \in [Address -> Clients \cup {NoClient}]
    <3>1. \A x \in Address : x \in top .. top + SizeOf[c] - 1 =>
             heap[x - top + slots[s].base] \in Clients \cup {NoClient}
      <4> SUFFICES ASSUME NEW x \in top .. top + SizeOf[c] - 1
                   PROVE  heap[x - top + slots[s].base] = c
        BY <1>9
      <4>1. x - top + slots[s].base \in pointer[c] .. pointer[c] + SizeOf[c] - 1
        BY <1>3, <1>5, <1>10, <1>11, Consts
      <4> QED BY <1>10, <4>1
    <3>2. \A x \in Address : heap[x] \in Clients \cup {NoClient}
      BY <1>4
    <3>3. heap' = [x \in Address |-> IF x \in top .. top + SizeOf[c] - 1
                                     THEN heap[x - top + slots[s].base] ELSE heap[x]]
      BY <1>2, <1>10 DEF Moved
    <3> QED BY <3>1, <3>2, <3>3
  <2>4. /\ scan' \in 0 .. MaxObjects + 1 /\ live' \in 0 .. MaxObjects
        /\ top' \in 0 .. HeapSize
    BY <1>2, <1>3, <1>10, <1>11, <1>13, Consts DEF Index
  <2> QED BY <1>2, <1>3, <1>6, <2>1, <2>2, <2>3, <2>4 DEF TypeOK
<1>17. PhaseInv' /\ LockIsOwners'
  <2>1. scan' \in 1 .. curObjects' + 1 /\ live' < scan'
    BY <1>2, <1>3
  <2> QED BY <1>2, <2>1 DEF IInv, PhaseInv, LocksMatch, LockIsOwners
<1>18. HeapIsTiled'
  <2>1. /\ Tile(1, live) /\ Tile(s, curObjects) /\ (1 \in Current => slots[1].base = 0)
    BY <1>1, <1>2 DEF IInv, HeapIsTiled
  <2>2. Tile(1, m)'
    <3> SUFFICES ASSUME NEW k \in 2 .. m
                 PROVE  slots'[k].base = slots'[k-1].base + slots'[k-1].max
      BY DEF Tile
    <3>1. k - 1 \in Current' /\ k - 1 # m /\ k - 1 # 0
      BY <1>3, <1>7
    <3>2. slots'[k-1] = slots[k-1]
      BY <1>8, <3>1
    <3>3. CASE k = m
      <4>1. k - 1 = live
        BY <1>3, <3>3
      <4> QED BY <1>6, <1>12, <3>1, <3>2, <3>3, <4>1 DEF End
    <3>4. CASE k # m
      <4>1. k \in 2 .. live /\ k \in Current'
        BY <1>3, <1>7, <3>4
      <4>2. slots'[k] = slots[k]
        BY <1>8, <3>4, <4>1
      <4> QED BY <2>1, <3>2, <4>1, <4>2 DEF Tile
    <3> QED BY <3>3, <3>4
  <2>3. Tile(s + 1, curObjects)'
    <3> SUFFICES ASSUME NEW k \in s + 2 .. curObjects
                 PROVE  slots'[k].base = slots'[k-1].base + slots'[k-1].max
      <4>1. s + 1 + 1 = s + 2
        BY <1>3
      <4> QED BY <1>2, <4>1 DEF Tile
    <3>1. k \in Current' /\ k - 1 \in Current' /\ k # m /\ k - 1 # m /\ k \in s + 1 .. curObjects
      BY <1>3, <1>7
    <3> QED BY <1>8, <2>1, <3>1 DEF Tile
  <2>4. top' = End(m)'
    BY <1>2, <1>3, <1>6 DEF End
  <2>5. s + 1 <= curObjects => top' <= slots'[s+1].base
    <3> SUFFICES ASSUME s + 1 <= curObjects PROVE top' <= slots'[s+1].base
      OBVIOUS
    <3>1. PICK k : k = s + 1
      OBVIOUS
    <3>2. k \in s + 1 .. curObjects /\ k - 1 = s /\ k \in Current' /\ k # m
      BY <1>3, <1>7, <3>1, Consts
    <3>3. slots[k].base = slots[s].base + slots[s].max
      BY <2>1, <3>2 DEF Tile
    <3>4. slots'[k] = slots[k]
      BY <1>8, <3>2
    <3> QED BY <1>2, <1>10, <1>12, <1>13, <3>1, <3>3, <3>4
  <2>6. slots'[1].base = 0
    <3>1. CASE m = 1
      BY <1>3, <1>6, <1>12, <3>1 DEF End
    <3>2. CASE m # 1
      <4>1. 1 \in Current /\ 1 \in Current'
        BY <1>3, <1>7, <3>2
      <4> QED BY <1>8, <2>1, <3>2, <4>1
    <3> QED BY <3>1, <3>2
  <2> QED BY <1>2, <2>2, <2>3, <2>4, <2>5, <2>6 DEF HeapIsTiled
<1>19. /\ \A j \in Current' : j # m => End(j)' = End(j) /\ End(j) \in Int
       /\ End(m)' = top + SizeOf[c] /\ End(m)' = top' /\ End(s) \in Int
  <2>1. ASSUME NEW j \in Current', j # m PROVE End(j)' = End(j) /\ End(j) \in Int
    <3>1. slots'[j] = slots[j] /\ j \in Index
      BY <1>8, <2>1
    <3>2. slots[j].base \in Int /\ slots[j].max \in Int
      BY <1>3, <3>1, SlotFacts, Consts
    <3> QED BY <3>1, <3>2 DEF End
  <2>2. End(m)' = top + SizeOf[c] /\ End(m)' = top'
    BY <1>2, <1>3, <1>6, <1>10 DEF End
  <2>3. End(s) \in Int
    BY <1>5, <1>12, Consts
  <2> QED BY <2>1, <2>2, <2>3
<1>20. LaidInv'
  <2>1. /\ \A i, j \in Current : i < j => End(i) <= slots[j].base
        /\ \A i \in Current : End(i) <= heapUsed
        /\ \A i \in 1 .. live : End(i) <= top
    BY <1>2 DEF IInv, LaidInv
  <2>2. ASSUME NEW i \in Current', NEW j \in Current', i < j
        PROVE  End(i)' <= slots'[j].base
    <3>1. CASE j = m
      <4>1. i \in 1 .. live /\ i # m
        BY <1>3, <1>7, <2>2, <3>1
      <4> QED BY <1>6, <1>19, <2>1, <3>1, <4>1
    <3>2. CASE i = m
      <4>1. s < j /\ j # m /\ j \in Current
        BY <1>3, <1>7, <1>8, <2>2, <3>2
      <4>2. End(s) <= slots[j].base /\ slots'[j] = slots[j]
        BY <1>8, <2>1, <4>1
      <4>3. slots[j].base \in Int
        <5>1. TypeOK /\ j \in Index
          BY <1>3, <1>8, <4>1
        <5>2. slots[j].base \in 0 .. HeapSize
          BY <5>1, SlotFacts
        <5> QED BY <5>2, Consts
      <4> QED BY <1>3, <1>11, <1>13, <1>19, <3>2, <4>2, <4>3, Consts
    <3>3. CASE i # m /\ j # m
      BY <1>8, <1>19, <2>1, <2>2, <3>3
    <3> QED BY <3>1, <3>2, <3>3
  <2>3. ASSUME NEW i \in Current' PROVE End(i)' <= heapUsed'
    <3>1. CASE i = m
      BY <1>2, <1>3, <1>11, <1>12, <1>13, <1>19, <3>1, Consts
    <3>2. CASE i # m
      BY <1>2, <1>8, <1>19, <2>1, <3>2
    <3> QED BY <3>1, <3>2
  <2>4. m \in Current' /\ top' <= heapUsed'
    BY <1>8, <1>19, <2>3
  <2>5. ASSUME NEW i \in 1 .. m PROVE End(i)' <= top'
    <3>1. CASE i = m
      BY <1>3, <1>11, <1>19, <3>1, Consts
    <3>2. CASE i # m
      <4>1. i \in 1 .. live /\ i \in Current'
        BY <1>3, <1>7, <3>2
      <4> QED BY <1>3, <1>11, <1>19, <2>1, <3>2, <4>1, Consts
    <3> QED BY <3>1, <3>2
  <2> QED BY <1>2, <2>2, <2>3, <2>4, <2>5 DEF LaidInv
<1>21. \A j \in Resident' : j # m => j \in Resident /\ j # s /\ slots'[j] = slots[j]
                                     /\ slots[j].owner # c
  <2>1. ASSUME NEW j \in Resident', j # m
        PROVE  j \in Resident /\ j # s /\ slots'[j] = slots[j]
    BY <1>8, <2>1 DEF Resident
  <2>2. ASSUME NEW j \in Resident, j # s PROVE slots[j].owner # c
    BY <1>3, <1>9, <2>2 DEF HandlesMatch
  <2> QED BY <2>1, <2>2
<1>22. HandlesMatch'
  <2>1. ASSUME NEW d \in Clients, handle'[d] # 0
        PROVE  handle'[d] \in Resident' /\ slots'[handle'[d]].owner = d
    <3>1. CASE d = c
      BY <1>2, <1>6, <1>8, <1>14, <3>1 DEF Resident
    <3>2. CASE d # c
      <4>1. handle'[d] = handle[d] /\ handle[d] \in Current /\ handle[d] # s
        BY <1>14, <1>15, <2>1, <3>2
      <4>2. handle[d] \in Current' /\ slots'[handle[d]] = slots[handle[d]]
        BY <1>8, <4>1
      <4> QED BY <1>3, <2>1, <4>1, <4>2 DEF HandlesMatch, Resident
    <3> QED BY <3>1, <3>2
  <2>2. ASSUME NEW j \in Resident'
        PROVE  slots'[j].owner \in Clients /\ handle'[slots'[j].owner] = j
    <3>1. CASE j = m
      BY <1>6, <1>9, <1>14, <3>1
    <3>2. CASE j # m
      BY <1>3, <1>14, <1>21, <2>2, <3>2 DEF HandlesMatch
    <3> QED BY <3>1, <3>2
  <2> QED BY <2>1, <2>2 DEF HandlesMatch
<1>23. SizedInv'
  <2> SUFFICES ASSUME NEW j \in Resident'
               PROVE  /\ SizeOf[slots'[j].owner] <= slots'[j].max
                      /\ slots'[j].total = IF pointer'[slots'[j].owner] = Null THEN 0
                                           ELSE SizeOf[slots'[j].owner]
    BY DEF SizedInv
  <2>1. CASE j = m
    BY <1>6, <1>10, <1>11, <1>13, <2>1
  <2>2. CASE j # m
    <3>1. slots[j].owner \in Clients
      BY <1>3, <1>21, <2>2 DEF HandlesMatch
    <3> QED BY <1>14, <1>21, <2>2, <3>1 DEF IInv, SizedInv
  <2> QED BY <2>1, <2>2
<1>24. CompactInv'
  <2>1. \A i \in Index : /\ slots[i].locks = 0
                         /\ i <= live => slots[i].used
                         /\ i > curObjects => ~slots[i].used /\ slots[i].total = 0
    BY <1>2 DEF IInv, CompactInv
  <2>2. \A i \in Index : i <= m => i <= live \/ i = m
    BY <1>3 DEF Index
  <2>3. ~(m > curObjects)
    BY <1>2, <1>3
  <2> QED BY <1>2, <1>3, <1>6, <2>1, <2>2, <2>3 DEF CompactInv
<1>25. DataIntact'
  <2> SUFFICES ASSUME NEW d \in Clients
        PROVE  IF pointer'[d] = Null
               THEN handle'[d] = 0 \/ d = builder'
               ELSE /\ handle'[d] # 0 /\ pointer'[d] = slots'[handle'[d]].base
                    /\ \A a \in pointer'[d] .. pointer'[d] + SizeOf[d] - 1 :
                          a \in Address /\ heap'[a] = d
    BY DEF DataIntact
  <2>1. CASE d = c
    <3>1. ASSUME NEW a \in top .. top + SizeOf[c] - 1
          PROVE  a \in Address /\ heap'[a] = c
      <4>1. a - top + slots[s].base \in pointer[c] .. pointer[c] + SizeOf[c] - 1
        BY <1>3, <1>5, <1>10, <1>11, Consts
      <4>2. a \in Address
        BY <1>3, <1>11, <1>13, Consts DEF Address
      <4>3. heap'[a] = heap[a - top + slots[s].base]
        BY <1>2, <1>10, <4>2 DEF Moved
      <4> QED BY <1>10, <4>1, <4>2, <4>3
    <3> QED BY <1>3, <1>6, <1>13, <1>14, <2>1, <3>1
  <2>2. CASE d # c /\ pointer[d] = Null
    BY <1>2, <1>14, <2>2 DEF IInv, DataIntact
  <2>3. CASE d # c /\ pointer[d] # Null
    <3>1. PICK j : j = handle[d]
      OBVIOUS
    <3>2. /\ j # 0 /\ pointer[d] = slots[j].base
          /\ \A a \in pointer[d] .. pointer[d] + SizeOf[d] - 1 : a \in Address /\ heap[a] = d
      BY <2>3, <3>1 DEF IInv, DataIntact
    <3>3. j \in Index /\ j \in Current /\ j # s
      BY <1>15, <2>3, <3>1, <3>2
    <3>4. slots'[j] = slots[j] /\ j # m
      BY <1>8, <3>3
    <3>5. /\ slots[j].base \in Int /\ slots[j].max \in Int /\ SizeOf[d] \in Nat
          /\ End(j) = slots[j].base + slots[j].max /\ SizeOf[d] <= slots[j].max
      <4>1. j \in Resident /\ slots[j].owner = d
        BY <1>3, <3>1, <3>2 DEF HandlesMatch
      <4>2. SizeOf[d] <= slots[j].max
        BY <4>1 DEF IInv, SizedInv
      <4> QED BY <1>3, <3>2, <3>3, <4>2, SlotFacts, Consts DEF End
    <3>6. End(j) <= top \/ End(s) <= slots[j].base
      <4>1. j \in 1 .. live \/ s < j
        BY <1>3, <1>7, <3>3
      <4> QED BY <1>2, <1>8, <3>3, <4>1 DEF IInv, LaidInv
    <3>7. ASSUME NEW a \in pointer[d] .. pointer[d] + SizeOf[d] - 1
          PROVE  a \in Address /\ heap'[a] = d
      <4>1. a \in Address /\ heap[a] = d /\ a \in Int
        BY <3>2, Consts DEF Address
      <4>2. a \notin top .. top + SizeOf[c] - 1
        BY <1>3, <1>11, <1>13, <1>19, <3>2, <3>5, <3>6, <4>1, Consts
      <4> QED BY <1>2, <1>10, <4>1, <4>2 DEF Moved
    <3> QED BY <1>14, <2>3, <3>1, <3>2, <3>4, <3>7
  <2> QED BY <2>1, <2>2, <2>3
<1>26. LocksAddUp'
  <2>1. ASSUME NEW d \in Clients PROVE LockCount(d)' = LockCount(d)
    <3>1. CASE d = c
      BY <1>3, <1>6, <1>9, <1>14, <3>1 DEF LockCount
    <3>2. CASE d # c
      <4>1. handle'[d] = handle[d] /\ (handle[d] # 0 => handle[d] \in Current /\ handle[d] # s)
        BY <1>14, <1>15, <3>2
      <4> QED BY <1>6, <1>8, <4>1 DEF LockCount
    <3> QED BY <3>1, <3>2
  <2> QED BY <1>2, <2>1, LocksSame DEF IInv, LocksMatch
<1>27. FreeSlotsAreEmpty'
  BY <1>2 DEF FreeSlotsAreEmpty
<1> QED BY <1>16, <1>17, <1>18, <1>20, <1>22, <1>23, <1>24, <1>25, <1>26, <1>27
        DEF IInv, LocksMatch, SlotsMatch

LEMMA ClearedRecord ==
    ASSUME NEW o \in Slot, NEW r, r = Cleared(o)
    PROVE  /\ r \in Slot /\ ~r.used /\ r.total = 0 /\ r.locks = o.locks
<1>1. r \in Slot
  <2>1. 0 \in 0 .. HeapSize
    BY Consts
  <2> QED BY <2>1 DEF Slot, Cleared
<1>2. ~r.used /\ r.total = 0 /\ r.locks = o.locks
  BY DEF Slot, Cleared
<1> QED BY <1>1, <1>2

LEMMA CompactEndStep == ASSUME IInv, CompactEnd PROVE IInv'
<1>1. /\ cs = "compact" /\ cs' = "free" /\ scan > curObjects
      /\ slots' = [i \in Index |-> IF i \in live + 1 .. curObjects
                                   THEN Cleared(slots[i]) ELSE slots[i]]
      /\ curObjects' = live /\ heapUsed' = top /\ fragmented' = FALSE /\ curWaste' = 0
      /\ scan' = 0 /\ live' = 0 /\ top' = 0 /\ objectLock' = NoThread
      /\ builder' = builder /\ age' = age /\ objectLocks' = objectLocks
      /\ handle' = handle /\ pointer' = pointer /\ heap' = heap
  BY DEF CompactEnd, Leave, client
<1>2. /\ TypeOK /\ HandlesMatch /\ curObjects \in 0 .. MaxObjects /\ live \in Nat
      /\ live <= curObjects /\ scan = curObjects + 1 /\ top \in 0 .. HeapSize
      /\ slots \in [Index -> Slot] /\ objectLocks = 0
  BY <1>1, Consts DEF IInv, SlotsMatch, TypeOK, PhaseInv
<1>3. /\ \A i \in Index : i \notin live + 1 .. curObjects => slots'[i] = slots[i]
      /\ \A i \in Index : i \in live + 1 .. curObjects =>
            ~slots'[i].used /\ slots'[i].total = 0 /\ slots'[i].locks = slots[i].locks
      /\ slots' \in [Index -> Slot]
  <2>1. \A i \in Index : /\ Cleared(slots[i]) \in Slot /\ ~Cleared(slots[i]).used
                         /\ Cleared(slots[i]).total = 0
                         /\ Cleared(slots[i]).locks = slots[i].locks
    BY <1>2, ClearedRecord
  <2> HIDE DEF Slot, Index, Cleared
  <2> QED BY <1>1, <1>2, <2>1
<1>4. /\ Current = 1 .. live /\ Current' = 1 .. live
      /\ \A i \in 1 .. live : i \in Index /\ slots'[i] = slots[i]
  <2>1. Current = 1 .. live /\ Current' = 1 .. live
    BY <1>1, <1>2 DEF Current
  <2>2. \A i \in 1 .. live : i \in Index /\ i \notin live + 1 .. curObjects
    BY <1>2, Consts DEF Index
  <2> QED BY <1>3, <2>1, <2>2
<1>5. Resident' = Resident /\ \A i \in Resident : i \in 1 .. live
  BY <1>4 DEF Resident
<1>6. HeapIsTiled'
  <2>1. Tile(1, live) /\ top = End(live) /\ (1 \in Current => slots[1].base = 0)
    BY <1>1 DEF IInv, HeapIsTiled
  <2>2. \A k \in 2 .. live : k \in 1 .. live /\ k - 1 \in 1 .. live
    BY <1>2
  <2>3. \A k \in 2 .. live : slots'[k].base = slots'[k-1].base + slots'[k-1].max
    BY <1>4, <2>1, <2>2 DEF Tile
  <2>4. heapUsed' = End(curObjects)'
    BY <1>1, <1>2, <1>4, <2>1 DEF End
  <2>5. 1 \in Current' => slots'[1].base = 0
    BY <1>4, <2>1
  <2>6. Tile(1, curObjects)'
    BY <1>1, <2>3 DEF Tile
  <2>7. cs' # "compact"
    BY <1>1
  <2> QED BY <2>4, <2>5, <2>6, <2>7 DEF HeapIsTiled
<1>7. LaidInv'
  <2>1. /\ \A i, j \in 1 .. live : i < j => End(i) <= slots[j].base
        /\ \A i \in 1 .. live : End(i) <= top
    BY <1>1, <1>4 DEF IInv, LaidInv
  <2>2. \A i \in 1 .. live : End(i)' = End(i) /\ slots'[i].base = slots[i].base
    BY <1>4 DEF End
  <2>3. \A i, j \in 1 .. live : i < j => End(i)' <= slots'[j].base
    BY <2>1, <2>2
  <2>4. \A i \in 1 .. live : End(i)' <= heapUsed'
    BY <1>1, <2>1, <2>2
  <2>5. Current' = 1 .. live /\ cs' # "compact"
    BY <1>1, <1>4
  <2> QED BY <2>3, <2>4, <2>5 DEF LaidInv
<1>8. HandlesMatch' /\ SizedInv'
  <2>1. \A i \in Resident : slots'[i] = slots[i]
    BY <1>4, <1>5
  <2>2. HandlesMatch'
    <3>1. \A c \in Clients : handle[c] # 0 => handle[c] \in Resident
      BY <1>2 DEF HandlesMatch
    <3> QED BY <1>1, <1>2, <1>5, <2>1, <3>1 DEF HandlesMatch
  <2>3. SizedInv'
    BY <1>1, <1>5, <2>1 DEF IInv, SizedInv
  <2> QED BY <2>2, <2>3
<1>9. FreeSlotsAreEmpty'
  <2>1. \A i \in Index : /\ slots[i].locks = 0
                         /\ i <= live => slots[i].used
                         /\ i > curObjects => ~slots[i].used /\ slots[i].total = 0
    BY <1>1 DEF IInv, CompactInv
  <2>2. \A i \in Index : i <= live \/ i \in live + 1 .. curObjects \/ i > curObjects
    BY <1>2 DEF Index
  <2> SUFFICES ASSUME NEW i \in Index, ~slots'[i].used \/ i > live
               PROVE  ~slots'[i].used /\ slots'[i].total = 0 /\ slots'[i].locks = 0
    BY <1>1 DEF FreeSlotsAreEmpty
  <2>3. CASE i <= live
    <3>1. i \in 1 .. live
      BY <1>2, <2>3 DEF Index
    <3>2. ~(i > live)
      BY <1>2, <3>1
    <3> QED BY <1>4, <2>1, <2>3, <3>1, <3>2
  <2>4. CASE i \in live + 1 .. curObjects
    BY <1>3, <2>1, <2>4
  <2>5. CASE i > curObjects
    <3>1. i \notin live + 1 .. curObjects
      BY <1>2, <2>5
    <3> QED BY <1>3, <2>1, <2>5, <3>1
  <2> QED BY <2>2, <2>3, <2>4, <2>5
<1>10. DataIntact'
  <2>1. \A c \in Clients : handle[c] # 0 => slots'[handle[c]] = slots[handle[c]]
    BY <1>2, <1>4, <1>5 DEF HandlesMatch
  <2> QED BY <1>1, <2>1 DEF IInv, DataIntact
<1>11. TypeOK'
  <2>1. /\ curObjects' \in 0 .. MaxObjects /\ heapUsed' \in 0 .. HeapSize
        /\ curWaste' \in 0 .. WasteWidth - 1 /\ scan' \in 0 .. MaxObjects + 1
        /\ live' \in 0 .. MaxObjects /\ top' \in 0 .. HeapSize
    BY <1>1, <1>2, Consts
  <2> QED BY <1>1, <1>2, <1>3, <2>1 DEF TypeOK, Phases
<1>12. PhaseInv' /\ LockIsOwners' /\ CompactInv'
  BY <1>1, <1>2 DEF IInv, PhaseInv, LocksMatch, LockIsOwners, CompactInv
<1>13. LocksAddUp'
  <2>1. \A c \in Clients : handle[c] # 0 => slots'[handle[c]] = slots[handle[c]]
    BY <1>2, <1>4, <1>5 DEF HandlesMatch
  <2> QED BY <1>1, <2>1, LocksSame DEF IInv, LocksMatch, LockCount
<1> QED BY <1>6, <1>7, <1>8, <1>9, <1>10, <1>11, <1>12, <1>13
        DEF IInv, LocksMatch, SlotsMatch
-----------------------------------------------------------------------------
(* The theorems *)

\* A step that changes nothing.
LEMMA StutterStep == ASSUME IInv, UNCHANGED vars PROVE IInv'
<1> USE DEF vars, space, locking, loop, client
<1>1. Current' = Current /\ Resident' = Resident
  BY DEF Current, Resident
<1>2. TypeOK' /\ PhaseInv' /\ CompactInv' /\ DataIntact'
  BY DEF IInv, TypeOK, PhaseInv, CompactInv, DataIntact
<1>3. HeapIsTiled' /\ LaidInv'
  BY <1>1 DEF IInv, HeapIsTiled, LaidInv, Tile, End
<1>4. SlotsMatch' /\ SizedInv'
  BY <1>1 DEF IInv, SlotsMatch, HandlesMatch, FreeSlotsAreEmpty, SizedInv
<1>5. LocksMatch'
  BY LocksSame DEF IInv, LocksMatch, LockIsOwners, LockCount
<1> QED BY <1>2, <1>3, <1>4, <1>5 DEF IInv

LEMMA AgingStep == ASSUME IInv, Aging PROVE IInv'
BY ExpireStepStep, ExpireEndStep, CleanStepStep, CleanAgeEndStep, CleanFreeEndStep,
   CompactSkipStep, CompactMoveStep, CompactEndStep DEF Aging

LEMMA InvStep == IInv /\ [Next]_vars => IInv'
<1> SUFFICES ASSUME IInv, [Next]_vars PROVE IInv'
  OBVIOUS
<1>1. CASE Open \/ Shutdown \/ AgeBegin
  BY <1>1, OpenStep, ShutdownStep, AgeBeginStep
<1>2. CASE Aging
  BY <1>2, AgingStep
<1>3. ASSUME NEW c \in Clients, Building(c) PROVE IInv'
  BY <1>3, BeginAppendStep, BeginReuseStep, BeginFailStep, FillStep, EndObjectStep
     DEF Building
<1>4. ASSUME NEW c \in Clients, Using(c) PROVE IInv'
  BY <1>4, LockStep, UnlockStep, UnlockAndFreeStep, FreeStep DEF Using
<1>5. CASE UNCHANGED vars
  BY <1>5, StutterStep
<1> QED BY <1>1, <1>2, <1>3, <1>4, <1>5 DEF Next

\* The inductive invariant of the cache, whatever its clients ask of it.
THEOREM CacheInvariant == Spec => []IInv
BY InitInv, InvStep, PTL DEF Spec

\* Every variable of DataCache keeps a value of its type; heap_used_ stays
\* inside the heap and the unsigned counters inside their width.
THEOREM CacheTypes == Spec => []TypeOK
<1>1. IInv => TypeOK
  BY DEF IInv
<1> QED BY <1>1, CacheInvariant, PTL

\* The objects tile the heap up to heap_used_, before, during and after Age
\* moves them: CleanEndOfHeap never finds a corrupt object, and BeginObject
\* never appends over one.
THEOREM HeapStaysTiled == Spec => []HeapIsTiled
<1>1. IInv => HeapIsTiled
  BY DEF IInv
<1> QED BY <1>1, CacheInvariant, PTL

\* Handles and slots agree, and free slots are empty, as InitObject asserts.
THEOREM SlotsStayMatched == Spec => []SlotsMatch
<1>1. IInv => SlotsMatch
  BY DEF IInv
<1> QED BY <1>1, CacheInvariant, PTL

\* A client that has a pointer finds its own data behind it, in every state:
\* no eviction, no reuse of a slot and no compaction gives its memory away.
THEOREM DataStaysIntact == Spec => []DataIntact
<1>1. IInv => DataIntact
  BY DEF IInv
<1> QED BY <1>1, CacheInvariant, PTL

\* object_locks_ is the number of locks there are, and object_lock_ belongs to
\* the thread that will drop the last of them.
THEOREM LocksStayMatched == Spec => []LocksMatch
<1>1. IInv => LocksMatch
  BY DEF IInv
<1> QED BY <1>1, CacheInvariant, PTL
-----------------------------------------------------------------------------
(* What is in use stays where it is *)

\* A step that leaves all handles and pointers alone moves nothing; so does
\* any step while nothing is locked.
LEMMA ClientsAlone ==
    ASSUME handle' = handle, pointer' = pointer
    PROVE  LockedStaysPut
BY DEF LockedStaysPut

LEMMA NobodyLocked ==
    ASSUME IInv, objectLocks = 0
    PROVE  LockedStaysPut
<1>1. \A c \in Clients : LockCount(c) = 0
  BY NoLocksAtAll DEF IInv, LocksMatch
<1> QED BY <1>1 DEF LockedStaysPut

LEMMA BeginKeeps ==
    ASSUME IInv, NEW c \in Clients, BeginAppend(c) \/ BeginReuse(c)
    PROVE  LockedStaysPut /\ FrameStaysResident
<1>1. cs = "free" /\ handle[c] = 0 /\ TypeOK /\ HandlesMatch
  BY DEF BeginAppend, BeginReuse, Enter, IInv, SlotsMatch
<1>2. ASSUME NEW d \in Clients, handle[d] # 0,
             LockCount(d) > 0 \/ slots[handle[d]].age = age
      PROVE  handle'[d] = handle[d] /\ pointer'[d] = pointer[d]
  <2>1. d # c
    BY <1>1, <1>2
  <2>2. CASE BeginAppend(c)
    BY <1>1, <2>1, <2>2 DEF BeginAppend, TypeOK
  <2>3. CASE BeginReuse(c)
    <3>1. PICK v, n, o : n = SizeOf[c] /\ v = Victim(n) /\ o = Replaced(v)
      OBVIOUS
    <3>2. /\ handle'  = [e \in Clients |-> IF e = c THEN v
                                           ELSE IF e = o THEN 0 ELSE handle[e]]
          /\ pointer' = [e \in Clients |-> IF e = o THEN Null ELSE pointer[e]]
          /\ Fits(n, 0) # {} /\ n \in Nat
      BY <2>3, <3>1, Consts DEF BeginReuse, Evicts
    <3>3. v \in 1 .. curObjects /\ v \in Index /\ slots[v].locks = 0 /\ slots[v].age < age
      BY <1>1, <3>1, <3>2, VictimFacts
    <3>4. handle[d] # v
      <4>1. slots[v].age \in Int /\ age \in Int
        BY <1>1, <3>3, SlotFacts, Consts DEF TypeOK
      <4>2. slots[v].age # age
        BY <3>3, <4>1
      <4>3. handle[d] = v => LockCount(d) = 0
        BY <1>2, <3>3 DEF LockCount
      <4> QED BY <1>2, <4>2, <4>3
    <3>5. d # o
      <4> SUFFICES ASSUME d = o PROVE handle[d] = v
        BY <3>4
      <4>1. slots[v].used /\ slots[v].owner = d
        BY <3>1, Consts DEF Replaced
      <4>2. v \in Resident
        BY <1>1, <3>3, <4>1 DEF Resident, Current
      <4> QED BY <1>1, <4>1, <4>2 DEF HandlesMatch
    <3> QED BY <2>1, <3>2, <3>5
  <2> QED BY <2>2, <2>3
<1>3. \A d \in Clients : LockCount(d) > 0 => handle[d] # 0
  BY DEF LockCount
<1> QED BY <1>2, <1>3 DEF LockedStaysPut, FrameStaysResident

\* An unload takes the handle and the pointer of the slot's owner only.
LEMMA UnloadKeeps ==
    ASSUME IInv, cs = "free", NEW c \in Clients, handle[c] # 0, Unload(handle[c]),
           LockCount(c) = 0 \/ (LockCount(c) = 1 /\ objectLocks' = objectLocks - 1)
    PROVE  LockedStaysPut
<1>1. TypeOK /\ HandlesMatch /\ slots[handle[c]].owner = c
  BY Owned DEF IInv, SlotsMatch
<1>2. /\ handle' = [handle EXCEPT ![c] = 0] /\ pointer' = [pointer EXCEPT ![c] = Null]
      /\ handle \in [Clients -> 0 .. MaxObjects]
      /\ pointer \in [Clients -> Address \cup {Null}]
  BY <1>1 DEF Unload, TypeOK
<1>3. \A d \in Clients : d # c => handle'[d] = handle[d] /\ pointer'[d] = pointer[d]
  BY <1>2
<1> QED BY <1>3 DEF LockedStaysPut

LEMMA StepKeeps ==
    ASSUME IInv, Next
    PROVE  LockedStaysPut /\ FrameStaysResident
<1> DEFINE Same == handle' = handle /\ pointer' = pointer
           Quiet == ~(builder = NoClient /\ builder' # NoClient)
<1>1. Quiet => FrameStaysResident
  BY DEF FrameStaysResident
<1>2. Same => LockedStaysPut
  BY ClientsAlone
<1>3. CASE Open
  <2>1. cs = "closed" /\ curObjects = 0
    BY <1>3 DEF Open, IInv, PhaseInv
  <2>2. \A c \in Clients : handle[c] = 0
    BY <2>1 DEF IInv, SlotsMatch, HandlesMatch, Resident, Current
  <2> QED BY <1>1, <1>2, <1>3, <2>2 DEF Open, client
<1>4. CASE Shutdown
  BY <1>1, <1>4, NobodyLocked DEF Shutdown, IInv, PhaseInv
<1>5. CASE AgeBegin
  BY <1>1, <1>2, <1>5 DEF AgeBegin, client
<1>6. CASE Aging
  <2>1. CASE ExpireStep \/ ExpireEnd \/ CompactSkip \/ CompactMove \/ CompactEnd
    <3>1. objectLocks = 0 /\ Quiet
      BY <2>1 DEF ExpireStep, ExpireEnd, CompactSkip, CompactMove, CompactEnd, IInv, PhaseInv
    <3> QED BY <1>1, <3>1, NobodyLocked
  <2>2. CASE CleanStep \/ CleanAgeEnd \/ CleanFreeEnd
    <3>1. Same /\ Quiet
      BY <2>2 DEF CleanStep, CleanAgeEnd, CleanFreeEnd, client
    <3> QED BY <1>1, <1>2, <3>1
  <2> QED BY <1>6, <2>1, <2>2 DEF Aging
<1>7. ASSUME NEW c \in Clients, Building(c) PROVE LockedStaysPut /\ FrameStaysResident
  <2>1. CASE BeginAppend(c) \/ BeginReuse(c)
    BY <2>1, BeginKeeps
  <2>2. CASE BeginFail(c) \/ EndObject(c)
    <3>1. Same /\ Quiet
      BY <2>2 DEF BeginFail, EndObject, client
    <3> QED BY <1>1, <1>2, <3>1
  <2>3. CASE Fill(c)
    <3>1. /\ pointer[c] = Null /\ handle' = handle /\ builder' = builder
          /\ \A d \in Clients : d # c => pointer'[d] = pointer[d]
      BY <2>3 DEF Fill, IInv, TypeOK
    <3> QED BY <1>1, <3>1 DEF LockedStaysPut
  <2> QED BY <1>7, <2>1, <2>2, <2>3 DEF Building
<1>8. ASSUME NEW c \in Clients, Using(c) PROVE LockedStaysPut /\ FrameStaysResident
  <2>1. CASE Lock(c) \/ Unlock(c)
    <3>1. Same /\ Quiet
      BY <2>1 DEF Lock, Unlock, client
    <3> QED BY <1>1, <1>2, <3>1
  <2>2. CASE UnlockAndFree(c)
    <3>1. /\ cs = "free" /\ handle[c] # 0 /\ LockCount(c) = 1 /\ Unload(handle[c])
          /\ objectLocks' = objectLocks - 1 /\ Quiet
      BY <2>2 DEF UnlockAndFree, Enter, LockCount, DropLock
    <3> QED BY <1>1, <3>1, UnloadKeeps
  <2>3. CASE Free(c)
    <3>1. /\ cs = "free" /\ handle[c] # 0 /\ LockCount(c) = 0 /\ Unload(handle[c]) /\ Quiet
      BY <2>3 DEF Free, Brief, LockCount
    <3> QED BY <1>1, <3>1, UnloadKeeps
  <2> QED BY <1>8, <2>1, <2>2, <2>3 DEF Using
<1> QED BY <1>3, <1>4, <1>5, <1>6, <1>7, <1>8 DEF Next

\* No step moves or evicts an object that somebody has locked, except the one
\* that gives its last lock up; and none evicts, to make room, what was locked
\* or built in the current frame.
THEOREM InUseIsNotMoved == Spec => InUseStaysPut
<1>1. IInv /\ [Next]_vars => [LockedStaysPut /\ FrameStaysResident]_vars
  BY StepKeeps
<1> QED BY <1>1, CacheInvariant, PTL DEF Spec, InUseStaysPut

-----------------------------------------------------------------------------
(* The main thread and the pager *)

\* The pager works on c, which is not marked resident yet; c is in the queue;
\* the pager is between BeginObject and EndObject of c; the main thread has a
\* lock on c.
Running(c) == job = c /\ ppc # "end"
Asked(c)   == \E i \in 1 .. Len(queue) : queue[i] = c
Builds(c)  == cs = "build" /\ c = job
Holds(c)   == mpc \in {"use", "send"} /\ locked /\ c = target

\* Where each thread is says what it has done inside the cache.
ThreadsInv ==
    /\ ppc = "wait" <=> job = NoClient
    /\ cs = "build" <=> ppc \in {"fill", "mark", "end"}
    /\ cs = "build" => builder = job
    /\ ppc = "fill" => pointer[job] = Null
    /\ ppc \in {"mark", "end"} => pointer[job] # Null
    /\ mpc = "aging" <=> cs \in {"expire", "cleanAge", "compact"}
    /\ mpc = "cleaning" <=> cs = "cleanFree"
    /\ mpc = "send" => locked
    /\ mpc \in {"idle", "aging", "handle", "lock", "pageIn"} => ~locked

\* What each thread knows of the state of the object it works on is still true.
TargetInv ==
    /\ ppc = "end" => resident[job] = 2
    /\ mpc \in {"handle", "lock", "use", "send", "pageIn"} => target \in Clients
    /\ mpc \in {"handle", "lock"} => resident[target] # 1
    /\ mpc \in {"use", "send"} =>
          target # job /\ resident[target] = IF locked THEN 2 ELSE 0

\* The state of an object, the requests for it and its handle agree.
StateInv ==
    \A c \in Clients : /\ resident[c] = 1 <=> Asked(c) \/ Running(c)
                       /\ handle[c] # 0 <=> resident[c] = 2 \/ Builds(c)

\* Nothing is in the queue twice, or while the pager works on it.
QueueInv ==
    /\ \A i, j \in 1 .. Len(queue) :
          queue[i] = queue[j] /\ queue[i] # Other => i = j
    /\ \A c \in Clients : Running(c) => ~Asked(c)

\* An object is locked once, by the thread that uses it, or not at all.
CountInv ==
    \A c \in Clients : LockCount(c) = IF Holds(c) \/ Builds(c) THEN 1 ELSE 0

PInv == /\ PagingTypeOK /\ IInv /\ ThreadsInv /\ TargetInv /\ StateInv
        /\ QueueInv /\ CountInv
-----------------------------------------------------------------------------
(* What the calls into the cache do to its clients *)

\* A step outside the cache.
LEMMA SameCache ==
    ASSUME IInv, UNCHANGED vars
    PROVE  /\ IInv' /\ cs' = cs /\ builder' = builder /\ handle' = handle
           /\ pointer' = pointer /\ objectLocks' = objectLocks
           /\ \A c \in Clients : LockCount(c)' = LockCount(c)
<1>1. IInv'
  BY StutterStep
<1> QED BY <1>1 DEF vars, client, locking, LockCount

LEMMA BeginEffect ==
    ASSUME IInv, NEW c \in Clients, BeginAppend(c) \/ BeginReuse(c)
    PROVE  /\ IInv' /\ cs = "free" /\ cs' = "build" /\ builder' = c
           /\ handle[c] = 0 /\ handle'[c] # 0 /\ pointer'[c] = Null
           /\ LockCount(c)' = 1
           /\ \A d \in Clients : d # c =>
                 /\ LockCount(d)' = LockCount(d)
                 /\ handle'[d] = handle[d] \/ handle'[d] = 0
                 /\ LockCount(d) > 0 => handle'[d] = handle[d]
<1>1. /\ IInv' /\ LockCount(c)' = 1
      /\ \A d \in Clients : d # c => LockCount(d)' = LockCount(d)
  BY BeginAppendStep, BeginReuseStep
<1>2. cs = "free" /\ cs' = "build" /\ builder' = c /\ handle[c] = 0
  BY DEF BeginAppend, BeginReuse, Enter
<1>3. handle'[c] # 0
  BY <1>1, <1>2 DEF IInv, PhaseInv
<1>4. pointer[c] = Null
  BY <1>2, NoHandleNoPointer
<1>5. pointer'[c] = Null
  BY <1>4 DEF BeginAppend, BeginReuse
<1>6. \A d \in Clients : d # c => handle'[d] = handle[d] \/ handle'[d] = 0
  <2>1. handle \in [Clients -> 0 .. MaxObjects]
    BY DEF IInv, TypeOK
  <2> QED BY <2>1 DEF BeginAppend, BeginReuse
<1>7. ASSUME NEW d \in Clients, d # c, LockCount(d) > 0 PROVE handle'[d] = handle[d]
  BY <1>1, <1>6, <1>7 DEF LockCount
<1> QED BY <1>1, <1>2, <1>3, <1>5, <1>6, <1>7

\* While CleanEndOfHeap runs after a Free, nothing happens to any client.
\* While Age runs, nothing is locked, and objects can only be lost.
LEMMA AgingEffect ==
    ASSUME IInv, Aging
    PROVE  /\ IInv' /\ builder' = builder
           /\ cs \in {"expire", "cleanAge", "compact", "cleanFree"}
           /\ \A c \in Clients : handle[c] = 0 => handle'[c] = 0
           /\ cs = "cleanFree" =>
                 /\ cs' \in {"cleanFree", "free"} /\ handle' = handle
                 /\ \A c \in Clients : LockCount(c)' = LockCount(c)
           /\ cs # "cleanFree" =>
                 /\ cs' \in {"expire", "cleanAge", "compact", "free"}
                 /\ \A c \in Clients : LockCount(c) = 0 /\ LockCount(c)' = 0
<1>1. IInv'
  BY AgingStep
<1>2. /\ builder' = builder
      /\ cs \in {"expire", "cleanAge", "compact", "cleanFree"}
      /\ cs = "cleanFree" => cs' \in {"cleanFree", "free"}
      /\ cs # "cleanFree" => cs' \in {"expire", "cleanAge", "compact", "free"}
      /\ objectLocks' = objectLocks
  BY DEF Aging, ExpireStep, ExpireEnd, CleanStep, CleanAgeEnd, CleanFreeEnd,
         CompactSkip, CompactMove, CompactEnd, Leave, locking
<1>3. cs = "cleanFree" => handle' = handle /\ \A c \in Clients : LockCount(c)' = LockCount(c)
  BY DEF Aging, ExpireStep, ExpireEnd, CleanStep, CleanAgeEnd, CleanFreeEnd,
         CompactSkip, CompactMove, CompactEnd, client, LockCount
<1>4. TypeOK /\ LocksAddUp /\ HandlesMatch
  BY DEF IInv, LocksMatch, SlotsMatch
<1>5. TypeOK' /\ LocksAddUp'
  BY <1>1 DEF IInv, LocksMatch
<1>6. ASSUME cs # "cleanFree"
      PROVE  \A c \in Clients : LockCount(c) = 0 /\ LockCount(c)' = 0
  <2>1. objectLocks = 0 /\ objectLocks' = 0
    BY <1>2, <1>6 DEF IInv, PhaseInv
  <2>2. \A c \in Clients : LockCount(c) = 0
    BY <1>4, <2>1, NoLocksAtAll
  <2>3. (TypeOK /\ LocksAddUp /\ objectLocks = 0 => \A c \in Clients : LockCount(c) = 0)'
    BY NoLocksAtAll, PTL
  <2> QED BY <1>5, <2>1, <2>2, <2>3
<1>7. \A c \in Clients : handle[c] = 0 => handle'[c] = 0
  <2>0. handle \in [Clients -> 0 .. MaxObjects]
    BY <1>4 DEF TypeOK
  <2>1. CASE ExpireStep
    BY <2>0, <2>1 DEF ExpireStep, Unload, client
  <2>2. CASE CompactMove
    <3>1. scan \in Resident
      BY <2>2, <1>4, Consts DEF CompactMove, Resident, Current, TypeOK
    <3>2. PICK o : o = slots[scan].owner
      OBVIOUS
    <3>3. o \in Clients /\ handle[o] # 0
      <4>1. scan # 0
        BY <2>2, <1>4 DEF CompactMove, IInv, PhaseInv
      <4> QED BY <1>4, <3>1, <3>2, <4>1 DEF HandlesMatch
    <3>4. handle' = [handle EXCEPT ![o] = NewHandle]
      BY <2>2, <3>2 DEF CompactMove
    <3> QED BY <2>0, <3>3, <3>4
  <2>3. CASE ~ExpireStep /\ ~CompactMove
    BY <2>3 DEF Aging, ExpireEnd, CleanStep, CleanAgeEnd, CleanFreeEnd,
         CompactSkip, CompactEnd, client
  <2> QED BY <2>1, <2>2, <2>3
<1> QED BY <1>1, <1>2, <1>3, <1>6, <1>7
-----------------------------------------------------------------------------
(* The queue *)

LEMMA QueueAppend ==
    ASSUME NEW S, queue \in Seq(S), NEW x \in S, queue' = Append(queue, x)
    PROVE  /\ queue' \in Seq(S) /\ Len(queue') = Len(queue) + 1
           /\ \A c : Asked(c)' <=> Asked(c) \/ c = x
           /\ \A i \in 1 .. Len(queue) : queue'[i] = queue[i]
           /\ queue'[Len(queue) + 1] = x
<1>1. /\ queue' \in Seq(S) /\ Len(queue') = Len(queue) + 1 /\ Len(queue) \in Nat
      /\ \A i \in 1 .. Len(queue) : queue'[i] = queue[i]
      /\ queue'[Len(queue) + 1] = x
  OBVIOUS
<1>2. \A i \in 1 .. Len(queue') : i \in 1 .. Len(queue) \/ i = Len(queue) + 1
  BY <1>1
<1>3. ASSUME NEW c PROVE Asked(c)' <=> Asked(c) \/ c = x
  BY <1>1, <1>2 DEF Asked
<1> QED BY <1>1, <1>3

LEMMA QueueTail ==
    ASSUME NEW S, queue \in Seq(S), queue # <<>>, queue' = Tail(queue)
    PROVE  /\ queue' \in Seq(S) /\ Len(queue) > 0 /\ Len(queue') = Len(queue) - 1
           /\ Head(queue) \in S /\ Head(queue) = queue[1]
           /\ \A c : Asked(c) <=> Asked(c)' \/ c = queue[1]
           /\ \A i \in 1 .. Len(queue') : i + 1 \in 1 .. Len(queue) /\ queue'[i] = queue[i + 1]
<1>1. /\ queue' \in Seq(S) /\ Len(queue') = Len(queue) - 1 /\ Len(queue) \in Nat
      /\ Len(queue) > 0 /\ Head(queue) \in S /\ Head(queue) = queue[1]
      /\ \A i \in 1 .. Len(queue') : queue'[i] = queue[i + 1]
  OBVIOUS
<1>2. \A i \in 1 .. Len(queue) : i = 1 \/ (i - 1 \in 1 .. Len(queue') /\ queue[i] = queue'[i - 1])
  BY <1>1
<1>3. \A i \in 1 .. Len(queue') : i + 1 \in 1 .. Len(queue)
  BY <1>1
<1>4. 1 \in 1 .. Len(queue)
  BY <1>1
<1>5. ASSUME NEW c PROVE Asked(c) <=> Asked(c)' \/ c = queue[1]
  BY <1>1, <1>2, <1>3, <1>4 DEF Asked
<1> QED BY <1>1, <1>3, <1>5
-----------------------------------------------------------------------------
(* Steps outside the cache *)

LEMMA DrawTestStep == ASSUME PInv, NEW c \in Clients, DrawTest(c) PROVE PInv'
<1> USE DEF PInv
<1>1. /\ IInv' /\ cs' = cs /\ builder' = builder /\ handle' = handle /\ pointer' = pointer
      /\ \A d \in Clients : LockCount(d)' = LockCount(d)
  BY SameCache DEF DrawTest
<1>2. PagingTypeOK'
  BY DEF DrawTest, MainGoto, PagingTypeOK, MainLabels
<1>3. ThreadsInv' /\ TargetInv'
  BY <1>1 DEF DrawTest, MainGoto, ThreadsInv, TargetInv, PagingTypeOK
<1>4. StateInv' /\ QueueInv'
  BY <1>1 DEF DrawTest, StateInv, QueueInv, Asked, Running, Builds
<1>5. CountInv'
  BY <1>1 DEF DrawTest, MainGoto, CountInv, Builds, Holds
<1> QED BY <1>1, <1>2, <1>3, <1>4, <1>5

LEMMA DrawHandleStep == ASSUME PInv, DrawHandle PROVE PInv'
<1> USE DEF PInv
<1>1. /\ IInv' /\ cs' = cs /\ builder' = builder /\ handle' = handle /\ pointer' = pointer
      /\ \A d \in Clients : LockCount(d)' = LockCount(d)
  BY SameCache DEF DrawHandle
<1>2. PagingTypeOK'
  BY DEF DrawHandle, MainGoto, PagingTypeOK, MainLabels
<1>3. ThreadsInv' /\ TargetInv'
  <2>1. ThreadsInv' 
    BY <1>1 DEF DrawHandle, MainGoto, ThreadsInv
  <2>2. handle[target] = 0 => resident[target] = 0 /\ target # job
    BY DEF DrawHandle, ThreadsInv, TargetInv, StateInv, PagingTypeOK, Running, Builds
  <2> QED BY <1>1, <2>1, <2>2 DEF DrawHandle, MainGoto, ThreadsInv, TargetInv
<1>4. StateInv' /\ QueueInv'
  BY <1>1 DEF DrawHandle, StateInv, QueueInv, Asked, Running, Builds
<1>5. CountInv'
  BY <1>1 DEF DrawHandle, MainGoto, ThreadsInv, CountInv, Builds, Holds
<1> QED BY <1>1, <1>2, <1>3, <1>4, <1>5

\* Only an object that is not locked can end the program.
LEMMA DrawQuitStep == ASSUME PInv, DrawQuit PROVE PInv'
<1> USE DEF PInv
<1>1. /\ IInv' /\ cs' = cs /\ builder' = builder /\ handle' = handle /\ pointer' = pointer
      /\ \A d \in Clients : LockCount(d)' = LockCount(d)
  BY SameCache DEF DrawQuit
<1>2. PagingTypeOK'
  BY DEF DrawQuit, MainGoto, PagingTypeOK, MainLabels
<1>3. ThreadsInv' /\ TargetInv'
  BY <1>1 DEF DrawQuit, MainGoto, ThreadsInv, TargetInv
<1>4. StateInv' /\ QueueInv'
  BY <1>1 DEF DrawQuit, StateInv, QueueInv, Asked, Running, Builds
<1>5. CountInv'
  BY <1>1 DEF DrawQuit, MainGoto, ThreadsInv, TargetInv, CountInv, Builds, Holds
<1> QED BY <1>1, <1>2, <1>3, <1>4, <1>5

LEMMA DrawSendStep == ASSUME PInv, DrawSend PROVE PInv'
<1> USE DEF PInv
<1>1. /\ IInv' /\ cs' = cs /\ builder' = builder /\ handle' = handle /\ pointer' = pointer
      /\ \A d \in Clients : LockCount(d)' = LockCount(d)
  BY SameCache DEF DrawSend
<1>2. PagingTypeOK'
  BY DEF DrawSend, MainGoto, PagingTypeOK, MainLabels
<1>3. ThreadsInv' /\ TargetInv'
  BY <1>1 DEF DrawSend, MainGoto, ThreadsInv, TargetInv
<1>4. StateInv' /\ QueueInv'
  BY <1>1 DEF DrawSend, StateInv, QueueInv, Asked, Running, Builds
<1>5. CountInv'
  BY <1>1 DEF DrawSend, MainGoto, CountInv, Builds, Holds
<1> QED BY <1>1, <1>2, <1>3, <1>4, <1>5

\* A texture without a handle is not locked, and stays out.
LEMMA DrawReloadStep == ASSUME PInv, DrawReload PROVE PInv'
<1> USE DEF PInv
<1>1. /\ IInv' /\ cs' = cs /\ builder' = builder /\ handle' = handle /\ pointer' = pointer
      /\ \A d \in Clients : LockCount(d)' = LockCount(d)
  BY SameCache DEF DrawReload
<1>2. ~locked /\ resident' = resident /\ target \in Clients
  BY DEF DrawReload, TargetInv, StateInv, PagingTypeOK
<1>3. PagingTypeOK'
  BY <1>2 DEF DrawReload, MainIdle, PagingTypeOK, MainLabels
<1>4. ThreadsInv' /\ TargetInv'
  BY <1>1 DEF DrawReload, MainIdle, ThreadsInv, TargetInv
<1>5. StateInv' /\ QueueInv'
  BY <1>1, <1>2 DEF DrawReload, StateInv, QueueInv, Asked, Running, Builds
<1>6. CountInv'
  BY <1>1, <1>2 DEF DrawReload, MainIdle, CountInv, Builds, Holds
<1> QED BY <1>1, <1>3, <1>4, <1>5, <1>6

LEMMA PagerGiveUpStep == ASSUME PInv, PagerGiveUp PROVE PInv'
<1> USE DEF PInv
<1>1. /\ IInv' /\ cs' = cs /\ builder' = builder /\ handle' = handle /\ pointer' = pointer
      /\ \A d \in Clients : LockCount(d)' = LockCount(d)
  BY SameCache DEF PagerGiveUp
<1>2. job \in Clients /\ cs # "build" /\ handle[job] = 0 /\ ~Asked(job) /\ resident[job] = 1
  BY DEF PagerGiveUp, ThreadsInv, StateInv, QueueInv, PagingTypeOK, Running, Builds
<1>3. PagingTypeOK'
  BY <1>2 DEF PagerGiveUp, PagerGoto, main, PagingTypeOK, PagerLabels, FailState
<1>4. ThreadsInv'
  BY <1>1, <1>2 DEF PagerGiveUp, PagerGoto, main, ThreadsInv
<1>5. TargetInv'
  <2>1. mpc \in {"handle", "lock", "use", "send", "pageIn"} => target # NoClient
    BY CacheAssumption DEF TargetInv
  <2> QED BY <1>2, <2>1 DEF PagerGiveUp, PagerGoto, main, TargetInv, PagingTypeOK, FailState
<1>6. StateInv'
  <2>1. \A c \in Clients : c # job => resident'[c] = resident[c]
    BY DEF PagerGiveUp, PagingTypeOK
  <2>2. resident'[job] = 0
    BY <1>2 DEF PagerGiveUp, PagingTypeOK, FailState
  <2>3. \A c \in Clients : ~Running(c)'
    BY CacheAssumption DEF PagerGiveUp, Running
  <2>4. \A c \in Clients : (Asked(c)' <=> Asked(c)) /\ ~Builds(c) /\ ~Builds(c)'
    BY <1>1, <1>2, CacheAssumption DEF PagerGiveUp, Asked, Builds
  <2>5. ASSUME NEW c \in Clients
        PROVE  /\ resident'[c] = 1 <=> Asked(c)' \/ Running(c)'
               /\ handle'[c] # 0 <=> resident'[c] = 2 \/ Builds(c)'
    <3>1. CASE c = job
      BY <1>1, <1>2, <2>2, <2>3, <2>4, <3>1
    <3>2. CASE c # job
      <4>1. ~Running(c)
        BY <3>2 DEF Running
      <4> QED BY <1>1, <2>1, <2>3, <2>4, <3>2, <4>1 DEF StateInv
    <3> QED BY <3>1, <3>2
  <2> QED BY <2>5 DEF StateInv
<1>6a. QueueInv'
  BY CacheAssumption DEF PagerGiveUp, QueueInv, Asked, Running
<1>7. CountInv'
  BY <1>1, <1>2 DEF PagerGiveUp, main, CountInv, Builds, Holds
<1> QED BY <1>1, <1>3, <1>4, <1>5, <1>6, <1>6a, <1>7

LEMMA PagerMarkStep == ASSUME PInv, PagerMark PROVE PInv'
<1> USE DEF PInv
<1>1. /\ IInv' /\ cs' = cs /\ builder' = builder /\ handle' = handle /\ pointer' = pointer
      /\ \A d \in Clients : LockCount(d)' = LockCount(d)
  BY SameCache DEF PagerMark
<1>2. job \in Clients /\ cs = "build" /\ ~Asked(job) /\ resident[job] = 1 /\ handle[job] # 0
  BY DEF PagerMark, ThreadsInv, StateInv, QueueInv, PagingTypeOK, Running, Builds
<1>3. PagingTypeOK'
  BY <1>2 DEF PagerMark, PagerGoto, main, PagingTypeOK, PagerLabels
<1>4. ThreadsInv'
  BY <1>1, <1>2 DEF PagerMark, PagerGoto, main, ThreadsInv
<1>5. TargetInv'
  BY <1>2 DEF PagerMark, main, TargetInv, PagingTypeOK
<1>6. StateInv' /\ QueueInv'
  <2>1. /\ queue' = queue /\ job' = job /\ ppc = "mark" /\ ppc' = "end"
        /\ resident'[job] = 2
        /\ \A c \in Clients : c # job => resident'[c] = resident[c]
    BY <1>2 DEF PagerMark, PagerGoto, PagingTypeOK
  <2>2. \A c : Asked(c)' <=> Asked(c)
    BY <2>1 DEF Asked
  <2>3. \A c \in Clients : ~Running(c)' /\ (Running(c) <=> c = job)
    BY <2>1 DEF Running
  <2>4. \A c \in Clients : (Builds(c) <=> c = job) /\ (Builds(c)' <=> c = job)
    BY <1>1, <1>2, <2>1 DEF Builds
  <2>5. StateInv'
    BY <1>1, <1>2, <2>1, <2>2, <2>3, <2>4 DEF StateInv
  <2>6. QueueInv'
    BY <2>1, <2>3 DEF QueueInv
  <2> QED BY <2>5, <2>6
<1>7. CountInv'
  BY <1>1, <1>2 DEF PagerMark, main, CountInv, Builds, Holds
<1> QED BY <1>1, <1>3, <1>4, <1>5, <1>6, <1>7
-----------------------------------------------------------------------------
(* Steps that use the queue *)

LEMMA DrawPageInStep == ASSUME PInv, DrawPageIn PROVE PInv'
<1> USE DEF PInv
<1>1. /\ IInv' /\ cs' = cs /\ builder' = builder /\ handle' = handle /\ pointer' = pointer
      /\ \A d \in Clients : LockCount(d)' = LockCount(d)
  BY SameCache DEF DrawPageIn
<1>2. PICK t : t = target
  OBVIOUS
<1>3. t \in Clients /\ mpc = "pageIn" /\ job' = job /\ ppc' = ppc
  BY <1>2 DEF DrawPageIn, TargetInv
<1>4. ThreadsInv' /\ CountInv'
  BY <1>1, <1>3 DEF DrawPageIn, MainIdle, ThreadsInv, CountInv, Builds, Holds
<1>5. CASE resident[t] # 0
  <2>1. queue' = queue /\ resident' = resident
    BY <1>2, <1>5 DEF DrawPageIn, IsPagedOut
  <2>2. PagingTypeOK' /\ TargetInv'
    BY <1>1, <1>3, <2>1 DEF DrawPageIn, MainIdle, PagingTypeOK, MainLabels, TargetInv
  <2>3. StateInv'
    BY <1>1, <1>3, <2>1 DEF StateInv, Asked, Running, Builds
  <2>4. QueueInv'
    BY <1>3, <2>1 DEF QueueInv, Asked, Running
  <2> QED BY <1>1, <1>4, <2>2, <2>3, <2>4
<1>6. CASE resident[t] = 0
  <2>1. /\ Len(queue) < QueueMax /\ resident' = [resident EXCEPT ![t] = 1]
        /\ queue' = Append(queue, t) /\ queue \in Seq(Clients \cup {Other})
    BY <1>2, <1>6 DEF DrawPageIn, IsPagedOut, HasSpace, PagingTypeOK
  <2>2. /\ queue' \in Seq(Clients \cup {Other}) /\ Len(queue') = Len(queue) + 1
        /\ \A c : Asked(c)' <=> Asked(c) \/ c = t
        /\ \A i \in 1 .. Len(queue) : queue'[i] = queue[i]
        /\ queue'[Len(queue) + 1] = t /\ Len(queue) \in Nat
    BY <1>3, <2>1, QueueAppend
  <2>3. ~Asked(t) /\ ~Running(t)
    BY <1>3, <1>6 DEF StateInv
  <2>4. PagingTypeOK'
    <3>1. Len(queue') <= QueueMax
      BY <2>1, <2>2, PagingAssumption
    <3>2. resident' \in [Clients -> 0 .. 2]
      BY <1>3, <2>1 DEF PagingTypeOK
    <3> QED BY <1>3, <2>2, <3>1, <3>2 DEF DrawPageIn, MainIdle, PagingTypeOK, MainLabels
  <2>5. StateInv'
    BY <1>1, <1>3, <1>6, <2>1, <2>2 DEF PagingTypeOK, StateInv, Running, Builds
  <2>6. QueueInv'
    <3>1. \A i \in 1 .. Len(queue') : i \in 1 .. Len(queue) \/ i = Len(queue) + 1
      BY <2>2
    <3>2. \A i \in 1 .. Len(queue) : queue[i] # t
      BY <2>3 DEF Asked
    <3>3. \A i, j \in 1 .. Len(queue') : queue'[i] = queue'[j] /\ queue'[i] # Other => i = j
      BY <2>2, <3>1, <3>2 DEF QueueInv
    <3>4. \A c \in Clients : Running(c)' => ~Asked(c)'
      BY <1>3, <2>2, <2>3 DEF QueueInv, Running
    <3> QED BY <3>3, <3>4 DEF QueueInv
  <2>7. TargetInv'
    <3>1. mpc' = "idle" /\ (ppc = "end" => resident[job] = 2)
      BY DEF DrawPageIn, MainIdle, TargetInv
    <3>2. ppc = "end" => resident'[job] = 2
      BY <1>3, <1>6, <2>1, <3>1 DEF PagingTypeOK
    <3> QED BY <1>3, <3>1, <3>2 DEF TargetInv
  <2> QED BY <1>1, <1>4, <2>4, <2>5, <2>6, <2>7
<1> QED BY <1>5, <1>6

LEMMA DrawSentStep == ASSUME PInv, DrawSent PROVE PInv'
<1> USE DEF PInv
<1>1. /\ IInv' /\ cs' = cs /\ builder' = builder /\ handle' = handle /\ pointer' = pointer
      /\ \A d \in Clients : LockCount(d)' = LockCount(d)
  BY SameCache DEF DrawSent
<1>2. /\ queue' = Append(queue, Other) /\ queue \in Seq(Clients \cup {Other})
      /\ Len(queue) < QueueMax
  BY DEF DrawSent, HasSpace, PagingTypeOK
<1>3. /\ queue' \in Seq(Clients \cup {Other}) /\ Len(queue') = Len(queue) + 1
      /\ \A c : Asked(c)' <=> Asked(c) \/ c = Other
      /\ \A i \in 1 .. Len(queue) : queue'[i] = queue[i]
      /\ queue'[Len(queue) + 1] = Other /\ Len(queue) \in Nat
  BY <1>2, QueueAppend
<1>4. \A c \in Clients : Asked(c)' <=> Asked(c)
  BY <1>3, PagingAssumption
<1>5. PagingTypeOK'
  BY <1>2, <1>3, PagingAssumption DEF DrawSent, MainGoto, PagingTypeOK, MainLabels
<1>6. ThreadsInv' /\ TargetInv'
  BY <1>1 DEF DrawSent, MainGoto, ThreadsInv, TargetInv
<1>7. StateInv'
  BY <1>1, <1>4 DEF DrawSent, StateInv, Running, Builds
<1>8. QueueInv'
  <2>1. \A i \in 1 .. Len(queue') : i \in 1 .. Len(queue) \/ i = Len(queue) + 1
    BY <1>3
  <2>2. \A i, j \in 1 .. Len(queue') : queue'[i] = queue'[j] /\ queue'[i] # Other => i = j
    BY <1>3, <2>1 DEF QueueInv
  <2> QED BY <1>4, <2>2 DEF DrawSent, QueueInv, Running
<1>9. CountInv'
  BY <1>1 DEF DrawSent, MainGoto, CountInv, Builds, Holds
<1> QED BY <1>1, <1>5, <1>6, <1>7, <1>8, <1>9

LEMMA PagerTakeStep == ASSUME PInv, PagerTake PROVE PInv'
<1> USE DEF PInv
<1>1. /\ IInv' /\ cs' = cs /\ builder' = builder /\ handle' = handle /\ pointer' = pointer
      /\ \A d \in Clients : LockCount(d)' = LockCount(d)
  BY SameCache DEF PagerTake
<1>2. /\ queue # <<>> /\ queue' = Tail(queue) /\ queue \in Seq(Clients \cup {Other})
      /\ Len(queue) <= QueueMax
  BY DEF PagerTake, PagingTypeOK
<1>3. PICK h : h = Head(queue)
  OBVIOUS
<1>4. /\ queue' \in Seq(Clients \cup {Other}) /\ Len(queue') = Len(queue) - 1
      /\ h \in Clients \cup {Other} /\ h = queue[1] /\ Len(queue) \in Nat /\ Len(queue) > 0
      /\ \A c : Asked(c) <=> Asked(c)' \/ c = h
      /\ \A i \in 1 .. Len(queue') : i + 1 \in 1 .. Len(queue) /\ queue'[i] = queue[i + 1]
  BY <1>2, <1>3, QueueTail
<1>5. /\ ppc = "wait" /\ job = NoClient /\ cs # "build" /\ resident' = resident
      /\ mpc' = mpc /\ target' = target /\ locked' = locked
      /\ IF h = Other THEN job' = job /\ ppc' = ppc ELSE job' = h /\ ppc' = "begin"
  BY <1>3 DEF PagerTake, PagerGoto, main, ThreadsInv
<1>6. PagingTypeOK'
  BY <1>2, <1>4, <1>5, PagingAssumption DEF PagingTypeOK, PagerLabels
<1>7. \A i, j \in 1 .. Len(queue') : queue'[i] = queue'[j] /\ queue'[i] # Other => i = j
  <2> SUFFICES ASSUME NEW i \in 1 .. Len(queue'), NEW j \in 1 .. Len(queue'),
                      queue'[i] = queue'[j], queue'[i] # Other
               PROVE  i = j
    OBVIOUS
  <2>1. i + 1 = j + 1
    BY <1>4 DEF QueueInv
  <2> QED BY <2>1
<1>8. h # Other => ~Asked(h)'
  <2> SUFFICES ASSUME h # Other, NEW i \in 1 .. Len(queue'), queue'[i] = h PROVE FALSE
    BY DEF Asked
  <2>1. 1 \in 1 .. Len(queue) /\ i + 1 \in 1 .. Len(queue) /\ queue[i + 1] = queue[1]
    BY <1>4
  <2>2. i + 1 = 1
    BY <1>4, <2>1 DEF QueueInv
  <2> QED BY <2>2
<1>9. CASE h = Other
  <2>1. \A c \in Clients : Asked(c)' <=> Asked(c)
    BY <1>4, <1>9, PagingAssumption
  <2>2. ThreadsInv' /\ TargetInv' /\ CountInv'
    BY <1>1, <1>5, <1>9 DEF ThreadsInv, TargetInv, CountInv, Builds, Holds
  <2>3. StateInv'
    BY <1>1, <1>5, <1>9, <2>1 DEF StateInv, Running, Builds
  <2>4. QueueInv'
    BY <1>5, <1>7, <1>9, <2>1 DEF QueueInv, Running
  <2> QED BY <1>1, <1>6, <2>2, <2>3, <2>4
<1>10. CASE h # Other
  <2>1. h \in Clients /\ h # NoClient /\ resident[h] = 1
    BY <1>4, <1>10, CacheAssumption DEF StateInv
  <2>2. ThreadsInv'
    BY <1>1, <1>5, <1>10, <2>1 DEF ThreadsInv
  <2>3. TargetInv'
    BY <1>5, <1>10, <2>1 DEF TargetInv
  <2>4. CountInv'
    BY <1>1, <1>5 DEF CountInv, Builds, Holds
  <2>5. StateInv'
    BY <1>1, <1>4, <1>5, <1>8, <1>10, <2>1, CacheAssumption DEF StateInv, Running, Builds
  <2>6. QueueInv'
    BY <1>5, <1>7, <1>8, <1>10 DEF QueueInv, Running
  <2> QED BY <1>1, <1>6, <2>2, <2>3, <2>4, <2>5, <2>6
<1> QED BY <1>9, <1>10
-----------------------------------------------------------------------------
(* The calls into the cache *)

\* The callbacks: who loses a handle is marked as out.
LEMMA ToldFacts ==
    ASSUME Told, PagingTypeOK
    PROVE  /\ resident' \in [Clients -> 0 .. 2]
           /\ \A c \in Clients : resident'[c] = IF handle[c] # 0 /\ handle'[c] = 0
                                                THEN 0 ELSE resident[c]
BY DEF Told, PagingTypeOK

LEMMA StartCacheStep == ASSUME PInv, StartCache PROVE PInv'
<1> USE DEF PInv
<1>1. /\ IInv' /\ cs = "closed" /\ cs' = "free" /\ builder' = builder /\ handle' = handle
      /\ pointer' = pointer /\ slots' = [i \in Index |-> EmptySlot]
  BY OpenStep DEF StartCache, Open, client
<1>2. \A c \in Clients : handle[c] = 0
  BY <1>1 DEF IInv, PhaseInv, SlotsMatch, HandlesMatch, Resident, Current
<1>3. \A c \in Clients : LockCount(c) = 0 /\ LockCount(c)' = 0
  BY <1>1, <1>2 DEF LockCount
<1>4. PagingTypeOK' /\ TargetInv' /\ QueueInv'
  BY DEF StartCache, paging, main, PagingTypeOK, TargetInv, QueueInv, Asked, Running
<1>5. ThreadsInv' /\ StateInv' /\ CountInv'
  BY <1>1, <1>3
     DEF StartCache, paging, main, ThreadsInv, StateInv, CountInv, Asked, Running, Builds, Holds
<1> QED BY <1>1, <1>4, <1>5

LEMMA StopCacheStep == ASSUME PInv, StopCache PROVE PInv'
<1> USE DEF PInv
<1>1. /\ IInv' /\ cs = "free" /\ cs' = "closed" /\ builder' = builder
      /\ handle' = [c \in Clients |-> 0] /\ pointer' = [c \in Clients |-> Null] /\ Told
  BY ShutdownStep DEF StopCache, Shutdown, Enter
<1>2. \A c \in Clients : LockCount(c)' = 0 /\ handle'[c] = 0
  BY <1>1 DEF LockCount
<1>3. /\ resident' \in [Clients -> 0 .. 2]
      /\ \A c \in Clients : resident'[c] = IF handle[c] # 0 THEN 0 ELSE resident[c]
  BY <1>1, <1>2, ToldFacts
<1>4. /\ queue' = queue /\ job' = job /\ ppc' = ppc /\ mpc' = mpc /\ target' = target
      /\ locked' = locked /\ mpc = "idle" /\ ppc = "wait"
  BY DEF StopCache, main
<1>5. PagingTypeOK' /\ TargetInv' /\ QueueInv' /\ ThreadsInv'
  BY <1>1, <1>3, <1>4 DEF PagingTypeOK, TargetInv, QueueInv, ThreadsInv, Asked, Running
<1>6. StateInv'
  <2>1. \A c \in Clients : resident[c] = 2 => handle[c] # 0
    BY DEF StateInv
  <2> QED BY <1>1, <1>2, <1>3, <1>4, <2>1 DEF StateInv, Asked, Running, Builds
<1>7. CountInv'
  BY <1>1, <1>2, <1>4 DEF CountInv, Builds, Holds
<1> QED BY <1>1, <1>5, <1>6, <1>7

LEMMA FrameAgeStep == ASSUME PInv, FrameAge PROVE PInv'
<1> USE DEF PInv
<1>1. /\ IInv' /\ cs = "free" /\ cs' = "expire" /\ builder' = builder /\ handle' = handle
      /\ pointer' = pointer /\ slots' = slots
  BY AgeBeginStep DEF FrameAge, AgeBegin, Enter, client
<1>2. \A c \in Clients : LockCount(c)' = LockCount(c)
  BY <1>1 DEF LockCount
<1>3. PagingTypeOK' /\ TargetInv' /\ QueueInv' /\ ThreadsInv'
  BY <1>1 DEF FrameAge, MainGoto, PagingTypeOK, MainLabels, TargetInv, QueueInv, ThreadsInv,
              Asked, Running
<1>4. StateInv' /\ CountInv'
  BY <1>1, <1>2 DEF FrameAge, MainGoto, StateInv, CountInv, Asked, Running, Builds, Holds
<1> QED BY <1>1, <1>3, <1>4

LEMMA FrameAgingStep == ASSUME PInv, FrameAging PROVE PInv'
<1> USE DEF PInv
<1>1. /\ mpc = "aging" /\ Told /\ mpc' = IF cs' = "free" THEN "idle" ELSE "aging"
      /\ queue' = queue /\ job' = job /\ ppc' = ppc /\ target' = target /\ locked' = locked
      /\ cs # "cleanFree" /\ cs # "build" /\ ~locked
  BY DEF FrameAging, ThreadsInv
<1>2. /\ IInv' /\ builder' = builder
      /\ cs' \in {"expire", "cleanAge", "compact", "free"}
      /\ \A c \in Clients : handle[c] = 0 => handle'[c] = 0
      /\ \A c \in Clients : LockCount(c)' = 0
  BY <1>1, AgingEffect DEF FrameAging
<1>3. /\ resident' \in [Clients -> 0 .. 2]
      /\ \A c \in Clients : resident'[c] = IF handle[c] # 0 /\ handle'[c] = 0
                                           THEN 0 ELSE resident[c]
  BY <1>1, ToldFacts
<1>4. PagingTypeOK' /\ TargetInv' /\ QueueInv'
  BY <1>1, <1>3 DEF ThreadsInv, PagingTypeOK, MainLabels, TargetInv, QueueInv, Asked, Running
<1>5. ThreadsInv'
  BY <1>1, <1>2 DEF ThreadsInv
<1>6. StateInv'
  BY <1>1, <1>2, <1>3 DEF StateInv, Asked, Running, Builds
<1>7. CountInv'
  BY <1>1, <1>2 DEF CountInv, Builds, Holds
<1> QED BY <1>2, <1>4, <1>5, <1>6, <1>7

LEMMA DrawCleaningStep == ASSUME PInv, DrawCleaning PROVE PInv'
<1> USE DEF PInv
<1>1. /\ mpc = "cleaning" /\ resident' = resident /\ cs = "cleanFree"
      /\ queue' = queue /\ job' = job /\ ppc' = ppc
      /\ IF cs' = "free" THEN mpc' = "idle" /\ target' = NoClient /\ locked' = FALSE
                         ELSE mpc' = mpc /\ target' = target /\ locked' = locked
  BY DEF DrawCleaning, ThreadsInv, MainIdle, main
<1>2. /\ IInv' /\ builder' = builder /\ cs' \in {"cleanFree", "free"} /\ handle' = handle
      /\ \A c \in Clients : LockCount(c)' = LockCount(c)
  BY <1>1, AgingEffect DEF DrawCleaning
<1>3. PagingTypeOK' /\ TargetInv' /\ QueueInv'
  BY <1>1 DEF PagingTypeOK, MainLabels, TargetInv, QueueInv, Asked, Running
<1>4. ThreadsInv'
  BY <1>1, <1>2 DEF ThreadsInv
<1>5. StateInv' /\ CountInv'
  BY <1>1, <1>2 DEF StateInv, CountInv, Asked, Running, Builds, Holds
<1> QED BY <1>2, <1>3, <1>4, <1>5

\* What the main thread locks nobody has locked before.
LEMMA DrawLockStep == ASSUME PInv, DrawLock PROVE PInv'
<1> USE DEF PInv
<1>1. PICK t : t = target
  OBVIOUS
<1>2. /\ t \in Clients /\ Lock(t) /\ mpc = "lock" /\ mpc' = "use" /\ locked' = TRUE
      /\ resident' = resident /\ queue' = queue /\ job' = job /\ ppc' = ppc /\ target' = t
  BY <1>1 DEF DrawLock, MainGoto, TargetInv
<1>3. /\ IInv' /\ LockCount(t)' = LockCount(t) + 1
      /\ \A d \in Clients : d # t => LockCount(d)' = LockCount(d)
  BY <1>2, LockStep
<1>4. /\ cs = "free" /\ cs' = "free" /\ handle[t] # 0 /\ builder' = builder
      /\ handle' = handle /\ pointer' = pointer
  BY <1>2 DEF Lock, Guarded, Brief, client
<1>5. LockCount(t) = 0 /\ resident[t] = 2 /\ t # job
  <2>1. LockCount(t) = 0
    BY <1>2, <1>4 DEF CountInv, Builds, Holds
  <2>2. resident[t] = 2
    BY <1>2, <1>4 DEF StateInv, Builds
  <2>3. ppc # "end"
    BY <1>4 DEF ThreadsInv
  <2> QED BY <1>2, <2>1, <2>2, <2>3 DEF StateInv, Running
<1>6. PagingTypeOK' /\ ThreadsInv' /\ TargetInv' /\ QueueInv'
  BY <1>2, <1>4, <1>5 DEF PagingTypeOK, MainLabels, ThreadsInv, TargetInv, QueueInv, Asked, Running
<1>7. StateInv'
  BY <1>2, <1>4 DEF StateInv, Asked, Running, Builds
<1>8. LockCount(t)' = 1
  BY <1>3, <1>5
<1>9. CountInv'
  BY <1>2, <1>3, <1>4, <1>8 DEF CountInv, Builds, Holds
<1> QED BY <1>3, <1>6, <1>7, <1>9

LEMMA DrawUnlockStep == ASSUME PInv, DrawUnlock PROVE PInv'
<1> USE DEF PInv
<1>1. PICK t : t = target
  OBVIOUS
<1>2. /\ t \in Clients /\ mpc = "use" /\ resident[t] = 2 /\ GiveUp(t) /\ locked /\ t # job
      /\ mpc' = "idle" /\ target' = NoClient /\ locked' = FALSE
      /\ resident' = resident /\ queue' = queue /\ job' = job /\ ppc' = ppc
  BY <1>1 DEF DrawUnlock, MainIdle, TargetInv
<1>3. handle[t] # 0 /\ Unlock(t)
  BY <1>2 DEF GiveUp, StateInv
<1>4. /\ IInv' /\ LockCount(t)' = LockCount(t) - 1
      /\ \A d \in Clients : d # t => LockCount(d)' = LockCount(d)
  BY <1>2, <1>3, UnlockStep
<1>5. /\ cs = "free" /\ cs' = "free" /\ builder' = builder
      /\ handle' = handle /\ pointer' = pointer
  BY <1>3 DEF Unlock, Brief, client
<1>6. LockCount(t) = 1
  BY <1>1, <1>2 DEF CountInv, Holds
<1>7. LockCount(t)' = 0
  BY <1>4, <1>6
<1>8. PagingTypeOK' /\ ThreadsInv' /\ TargetInv' /\ QueueInv'
  BY <1>2, <1>5 DEF PagingTypeOK, MainLabels, ThreadsInv, TargetInv, QueueInv, Asked, Running
<1>9. StateInv'
  BY <1>2, <1>5 DEF StateInv, Asked, Running, Builds
<1>10. CountInv'
  BY <1>1, <1>2, <1>4, <1>5, <1>7 DEF CountInv, Builds, Holds
<1> QED BY <1>4, <1>8, <1>9, <1>10

\* The texture that is freed was locked by the main thread, and by it alone.
LEMMA DrawUploadStep == ASSUME PInv, DrawUpload PROVE PInv'
<1> USE DEF PInv
<1>1. PICK t : t = target
  OBVIOUS
<1>2. /\ t \in Clients /\ mpc = "use" /\ handle[t] # 0 /\ UnlockAndFree(t)
      /\ mpc' = "cleaning" /\ target' = target /\ locked' = locked
      /\ resident' = [resident EXCEPT ![t] = 0]
      /\ queue' = queue /\ job' = job /\ ppc' = ppc /\ resident \in [Clients -> 0 .. 2]
  BY <1>1 DEF DrawUpload, MainGoto, TargetInv, PagingTypeOK
<1>3. /\ IInv' /\ LockCount(t)' = 0
      /\ \A d \in Clients : d # t => LockCount(d)' = LockCount(d)
  BY <1>2, UnlockAndFreeStep
<1>4. /\ cs = "free" /\ cs' = "cleanFree" /\ builder' = builder
      /\ Unload(handle[t]) /\ handle \in [Clients -> 0 .. MaxObjects]
      /\ pointer \in [Clients -> Address \cup {Null}] /\ TypeOK /\ HandlesMatch
  BY <1>2 DEF UnlockAndFree, Enter, IInv, TypeOK, SlotsMatch
<1>5. slots[handle[t]].owner = t
  BY <1>2, <1>4, Owned
<1>6. /\ handle' = [handle EXCEPT ![t] = 0] /\ pointer' = [pointer EXCEPT ![t] = Null]
  BY <1>4, <1>5 DEF Unload
<1>7. resident[t] = 2 /\ t # job
  BY <1>1, <1>2, <1>4 DEF StateInv, Builds, TargetInv
<1>8. ~Asked(t) /\ ~Running(t)
  BY <1>2, <1>7 DEF StateInv
<1>9. PagingTypeOK' /\ TargetInv' /\ QueueInv'
  BY <1>2, <1>7 DEF PagingTypeOK, MainLabels, TargetInv, QueueInv, Asked, Running
<1>10. ThreadsInv'
  BY <1>2, <1>4 DEF ThreadsInv
<1>11. StateInv'
  BY <1>2, <1>4, <1>6, <1>7, <1>8 DEF StateInv, Asked, Running, Builds
<1>12. CountInv'
  BY <1>1, <1>2, <1>3, <1>4 DEF CountInv, Builds, Holds
<1> QED BY <1>3, <1>9, <1>10, <1>11, <1>12

\* BeginObject may evict, but never what the main thread has locked.
LEMMA PagerBeginStep == ASSUME PInv, PagerBegin PROVE PInv'
<1> USE DEF PInv
<1>1. PICK c : c = job
  OBVIOUS
<1>2. /\ c \in Clients /\ ppc = "begin" /\ ppc' = "fill" /\ Told
      /\ BeginAppend(c) \/ BeginReuse(c)
      /\ queue' = queue /\ job' = job /\ mpc' = mpc /\ target' = target /\ locked' = locked
  BY <1>1 DEF PagerBegin, PagerGoto, main, ThreadsInv, PagingTypeOK
<1>3. /\ IInv' /\ cs = "free" /\ cs' = "build" /\ builder' = c
      /\ handle[c] = 0 /\ handle'[c] # 0 /\ pointer'[c] = Null
      /\ LockCount(c)' = 1
      /\ \A d \in Clients : d # c =>
            /\ LockCount(d)' = LockCount(d)
            /\ handle'[d] = handle[d] \/ handle'[d] = 0
            /\ LockCount(d) > 0 => handle'[d] = handle[d]
  BY <1>2, BeginEffect
<1>4. /\ resident' \in [Clients -> 0 .. 2]
      /\ \A d \in Clients : resident'[d] = IF handle[d] # 0 /\ handle'[d] = 0
                                           THEN 0 ELSE resident[d]
  BY <1>2, ToldFacts
<1>5. resident[c] = 1
  BY <1>1, <1>2 DEF StateInv, Running
<1>6. ASSUME NEW d \in Clients PROVE resident'[d] = 1 <=> resident[d] = 1
  BY <1>3, <1>4 DEF StateInv, Builds
<1>7. mpc \in {"use", "send"} => resident'[target] = resident[target]
  <2>1. PICK t : t = target
    OBVIOUS
  <2>2. SUFFICES ASSUME mpc \in {"use", "send"} PROVE resident'[t] = resident[t]
    BY <2>1
  <2>3. t \in Clients /\ t # c /\ resident[t] = IF locked THEN 2 ELSE 0
    BY <1>1, <2>1, <2>2 DEF TargetInv
  <2>4. CASE locked
    <3>1. LockCount(t) = 1
      BY <2>1, <2>2, <2>3, <2>4 DEF CountInv, Holds
    <3>2. handle'[t] = handle[t]
      BY <1>3, <2>3, <3>1
    <3> QED BY <1>4, <2>3, <3>2
  <2>5. CASE ~locked
    BY <1>4, <2>3, <2>5
  <2> QED BY <2>4, <2>5
<1>8. PagingTypeOK' /\ QueueInv'
  BY <1>2, <1>4 DEF PagingTypeOK, PagerLabels, QueueInv, Asked, Running
<1>9. ThreadsInv'
  BY <1>1, <1>2, <1>3 DEF ThreadsInv
<1>10. TargetInv'
  BY <1>2, <1>6, <1>7 DEF TargetInv
<1>11. StateInv'
  BY <1>1, <1>2, <1>3, <1>4, <1>5 DEF StateInv, Asked, Running, Builds
<1>12. CountInv'
  BY <1>1, <1>2, <1>3 DEF CountInv, TargetInv, Builds, Holds
<1> QED BY <1>3, <1>8, <1>9, <1>10, <1>11, <1>12

LEMMA PagerFailStep == ASSUME PInv, PagerFail PROVE PInv'
<1> USE DEF PInv
<1>1. PICK c : c = job
  OBVIOUS
<1>2. /\ c \in Clients /\ BeginFail(c) /\ ppc = "begin" /\ ppc' = "failed"
      /\ resident' = resident /\ queue' = queue /\ job' = job
      /\ mpc' = mpc /\ target' = target /\ locked' = locked
  BY <1>1 DEF PagerFail, PagerGoto, main, ThreadsInv, PagingTypeOK
<1>3. IInv'
  BY <1>2, BeginFailStep
<1>4. /\ cs = "free" /\ cs' = cs /\ builder' = builder /\ handle' = handle
      /\ pointer' = pointer /\ slots' = slots
  BY <1>2 DEF BeginFail, Brief, client
<1>5. \A d \in Clients : LockCount(d)' = LockCount(d)
  BY <1>4 DEF LockCount
<1>6. PagingTypeOK' /\ QueueInv' /\ ThreadsInv' /\ TargetInv'
  BY <1>2, <1>4 DEF PagingTypeOK, PagerLabels, QueueInv, ThreadsInv, TargetInv, Asked, Running
<1>7. StateInv' /\ CountInv'
  BY <1>2, <1>4, <1>5 DEF StateInv, CountInv, Asked, Running, Builds, Holds
<1> QED BY <1>3, <1>6, <1>7

LEMMA PagerFillStep == ASSUME PInv, PagerFill PROVE PInv'
<1> USE DEF PInv
<1>1. PICK c : c = job
  OBVIOUS
<1>2. /\ c \in Clients /\ Fill(c) /\ ppc = "fill" /\ ppc' = "mark"
      /\ resident' = resident /\ queue' = queue /\ job' = job
      /\ mpc' = mpc /\ target' = target /\ locked' = locked
  BY <1>1 DEF PagerFill, PagerGoto, main, ThreadsInv, PagingTypeOK
<1>3. IInv' /\ \A d \in Clients : LockCount(d)' = LockCount(d)
  BY <1>2, FillStep
<1>4. cs = "build" /\ cs' = cs /\ builder' = builder /\ handle' = handle /\ handle[c] # 0
  BY <1>2 DEF Fill, IInv, PhaseInv
<1>5. pointer'[c] # Null
  <2>1. TypeOK /\ HandlesMatch
    BY DEF IInv, SlotsMatch
  <2>2. handle[c] \in Index
    BY <1>2, <1>4, <2>1, Owned
  <2>3. PICK b, m : b = slots[handle[c]].base /\ m = slots[handle[c]].total
    OBVIOUS
  <2>4. b \in Nat /\ m \in Nat
    BY <2>1, <2>2, <2>3, SlotFacts, Consts
  <2>5. pointer'[c] = b + m
    BY <1>2, <2>1, <2>3 DEF Fill, TypeOK
  <2> QED BY <2>4, <2>5 DEF Null
<1>6. PagingTypeOK' /\ QueueInv' /\ TargetInv'
  BY <1>2 DEF PagingTypeOK, PagerLabels, QueueInv, TargetInv, Asked, Running
<1>7. ThreadsInv'
  BY <1>1, <1>2, <1>4, <1>5 DEF ThreadsInv
<1>8. StateInv' /\ CountInv'
  BY <1>2, <1>3, <1>4 DEF StateInv, CountInv, Asked, Running, Builds, Holds
<1> QED BY <1>3, <1>6, <1>7, <1>8

LEMMA PagerEndStep == ASSUME PInv, PagerEnd PROVE PInv'
<1> USE DEF PInv
<1>1. PICK c : c = job
  OBVIOUS
<1>2. /\ c \in Clients /\ c # NoClient /\ EndObject(c) /\ ppc = "end" /\ ppc' = "wait"
      /\ resident' = resident /\ queue' = queue /\ job' = NoClient
      /\ mpc' = mpc /\ target' = target /\ locked' = locked
  BY <1>1 DEF PagerEnd, PagerGoto, main, ThreadsInv, PagingTypeOK
<1>3. IInv' /\ LockCount(c)' = 0 /\ \A d \in Clients : d # c => LockCount(d)' = LockCount(d)
  BY <1>2, EndObjectStep
<1>4. cs = "build" /\ cs' = "free" /\ handle' = handle /\ handle[c] # 0
  BY <1>2 DEF EndObject, Leave, client, IInv, PhaseInv
<1>5. resident[c] = 2
  BY <1>1, <1>2 DEF TargetInv
<1>6. PagingTypeOK' /\ QueueInv' /\ TargetInv'
  BY <1>2, CacheAssumption DEF PagingTypeOK, PagerLabels, QueueInv, TargetInv, Asked, Running
<1>7. ThreadsInv'
  BY <1>2, <1>4 DEF ThreadsInv
<1>8. StateInv'
  BY <1>1, <1>2, <1>4, <1>5, CacheAssumption DEF StateInv, Asked, Running, Builds
<1>9. CountInv'
  <2>1. ~Holds(c)
    BY <1>1 DEF TargetInv, Holds
  <2> QED BY <1>1, <1>2, <1>3, <1>4, <2>1 DEF CountInv, Builds, Holds
<1> QED BY <1>3, <1>6, <1>7, <1>8, <1>9
-----------------------------------------------------------------------------
(* The theorems *)

LEMMA PagingInitInv == PagingInit => PInv
<1> SUFFICES ASSUME PagingInit PROVE PInv
  OBVIOUS
<1>1. IInv /\ \A c \in Clients : handle[c] = 0
  BY InitInv DEF PagingInit, Init
<1>2. PagingTypeOK
  <2>1. queue = <<>> /\ <<>> \in Seq(Clients \cup {Other}) /\ Len(<<>>) = 0 /\ 0 <= QueueMax
    BY PagingAssumption DEF PagingInit
  <2>2. resident \in [Clients -> 0 .. 2] /\ Len(queue) <= QueueMax
    BY <2>1 DEF PagingInit
  <2> QED BY <2>1, <2>2 DEF PagingInit, PagingTypeOK, MainLabels, PagerLabels
<1>3. ThreadsInv /\ TargetInv
  BY DEF PagingInit, Init, ThreadsInv, TargetInv
<1>4. StateInv /\ QueueInv
  <2>1. 1 .. Len(queue) = {}
    <3>1. queue = <<>> /\ Len(<<>>) = 0
      BY DEF PagingInit
    <3> QED BY <3>1
  <2>2. \A c : ~Asked(c)
    BY <2>1 DEF Asked
  <2>3. \A c \in Clients : ~Running(c) /\ ~Builds(c) /\ resident[c] = 0
    BY CacheAssumption DEF PagingInit, Running, Builds
  <2> QED BY <1>1, <2>1, <2>2, <2>3 DEF StateInv, QueueInv
<1>5. CountInv
  BY <1>1 DEF PagingInit, Init, CountInv, LockCount, Builds, Holds
<1> QED BY <1>1, <1>2, <1>3, <1>4, <1>5 DEF PInv

LEMMA PagingStutter == ASSUME PInv, UNCHANGED allVars PROVE PInv'
<1> USE DEF PInv
<1>1. /\ IInv' /\ cs' = cs /\ builder' = builder /\ handle' = handle /\ pointer' = pointer
      /\ \A d \in Clients : LockCount(d)' = LockCount(d)
  BY SameCache DEF allVars
<1>2. PagingTypeOK' /\ ThreadsInv' /\ TargetInv'
  BY <1>1 DEF allVars, paging, main, PagingTypeOK, ThreadsInv, TargetInv
<1>3. StateInv' /\ QueueInv' /\ CountInv'
  BY <1>1 DEF allVars, paging, main, StateInv, QueueInv, CountInv, Asked, Running,
              Builds, Holds
<1> QED BY <1>1, <1>2, <1>3

LEMMA PagingInvStep == PInv /\ [PagingNext]_allVars => PInv'
<1> SUFFICES ASSUME PInv, [PagingNext]_allVars PROVE PInv'
  OBVIOUS
<1>1. CASE PagerNext
  BY <1>1, PagerTakeStep, PagerBeginStep, PagerFailStep, PagerGiveUpStep,
     PagerFillStep, PagerMarkStep, PagerEndStep DEF PagerNext
<1>2. CASE DrawNext
  BY <1>2, DrawPageInStep, DrawHandleStep, DrawQuitStep, DrawLockStep, DrawSentStep,
     DrawUnlockStep, DrawUploadStep, DrawReloadStep, DrawCleaningStep, FrameAgingStep
     DEF DrawNext
<1>3. CASE StartCache \/ StopCache \/ FrameAge \/ DrawSend
  BY <1>3, StartCacheStep, StopCacheStep, FrameAgeStep, DrawSendStep
<1>4. CASE \E c \in Clients : DrawTest(c)
  BY <1>4, DrawTestStep
<1>5. CASE UNCHANGED allVars
  BY <1>5, PagingStutter
<1> QED BY <1>1, <1>2, <1>3, <1>4, <1>5 DEF PagingNext, MainNext

\* The inductive invariant of the two threads and the cache they share.
THEOREM PagingInvariant == PagingSpec => []PInv
BY PagingInitInv, PagingInvStep, PTL DEF PagingSpec

\* The variables of Paging keep values of their types, and PAGER never holds
\* more requests than it has room for.
THEOREM PagingTypes == PagingSpec => []PagingTypeOK
<1>1. PInv => PagingTypeOK
  BY DEF PInv
<1> QED BY <1>1, PagingInvariant, PTL

\* Used as meshes and textures use it, the cache keeps its own invariant.
THEOREM PagingKeepsCache == PagingSpec => []IInv
<1>1. PInv => IInv
  BY DEF PInv
<1> QED BY <1>1, PagingInvariant, PTL

\* PageIn, the queue and DoPageIn never have the same object twice between
\* them, and BeginObject is not called for what is in the cache.
THEOREM AskedOnce == PagingSpec => []RequestedOnce
<1>1. ASSUME PInv PROVE RequestedOnce
  <2> USE <1>1 DEF PInv
  <2>1. ASSUME NEW c \in Clients
        PROVE  /\ (resident[c] = 1) <=> (Requests(c) # {} \/ Running(c))
               /\ Cardinality(Requests(c)) <= IF Running(c) THEN 0 ELSE 1
    <3>1. Requests(c) # {} <=> Asked(c)
      BY DEF Requests, Asked
    <3>2. CASE Requests(c) = {}
      <4>1. Cardinality(Requests(c)) = 0
        BY <3>2, FS_EmptySet
      <4> QED BY <3>1, <4>1 DEF StateInv
    <3>3. CASE Requests(c) # {}
      <4>1. PICK i : i \in Requests(c)
        BY <3>3
      <4>2. Requests(c) = {i}
        BY <4>1, PagingAssumption DEF Requests, QueueInv
      <4>3. Cardinality(Requests(c)) = 1
        BY <4>2, FS_Singleton
      <4>4. ~Running(c)
        BY <3>1, <3>3 DEF QueueInv
      <4> QED BY <3>1, <4>3, <4>4 DEF StateInv
    <3> QED BY <3>2, <3>3
  <2>2. OneRequest
    BY <2>1 DEF OneRequest, Running
  <2>3. BeginsFresh
    <3> SUFFICES ASSUME ppc = "begin" PROVE handle[job] = 0 /\ pointer[job] = Null
      BY DEF BeginsFresh
    <3>1. job \in Clients /\ cs # "build"
      BY DEF ThreadsInv, PagingTypeOK
    <3>2. handle[job] = 0
      BY <3>1 DEF StateInv, Running, Builds
    <3> QED BY <3>1, <3>2, NoHandleNoPointer
  <2> QED BY <2>2, <2>3 DEF RequestedOnce
<1> QED BY <1>1, PagingInvariant, PTL

LEMMA ResidentFacts ==
    ASSUME PInv, NEW c \in Clients, resident[c] = 2
    PROVE  handle[c] # 0 /\ pointer[c] # Null
<1> USE DEF PInv
<1>1. handle[c] # 0
  BY DEF StateInv
<1>2. SUFFICES ASSUME pointer[c] = Null PROVE FALSE
  BY <1>1
<1>3. c = builder
  BY <1>1, <1>2 DEF IInv, DataIntact
<1>4. cs = "build" /\ c = job
  BY <1>3, CacheAssumption DEF IInv, PhaseInv, ThreadsInv
<1>5. ~Running(c)
  BY DEF StateInv
<1> QED BY <1>2, <1>4, <1>5 DEF ThreadsInv, Running

\* Resident tells the truth whenever the main thread reads it, without a lock
\* and in the middle of the pager's work: 2 is in the cache with its data, and
\* 0 has left nothing in it.
THEOREM ResidentIsTrue == PagingSpec => []ResidentMeansData
<1>1. ASSUME PInv PROVE ResidentMeansData
  <2>1. ASSUME NEW c \in Clients, resident[c] = 0 PROVE handle[c] = 0 /\ pointer[c] = Null
    <3>1. ~Builds(c)
      BY <1>1, <2>1 DEF PInv, StateInv, ThreadsInv, TargetInv, Running, Builds
    <3>2. handle[c] = 0
      BY <1>1, <2>1, <3>1 DEF PInv, StateInv
    <3> QED BY <1>1, <3>2, NoHandleNoPointer DEF PInv
  <2> QED BY <1>1, <2>1, ResidentFacts DEF ResidentMeansData
<1> QED BY <1>1, PagingInvariant, PTL

\* Two clients with a lock each are two locks.
LEMMA TwoLocks ==
    ASSUME TypeOK, LocksAddUp, NEW c \in Clients, NEW d \in Clients, c # d,
           LockCount(c) = 1, LockCount(d) = 1
    PROVE  objectLocks # 1
<1> SUFFICES ASSUME objectLocks = 1 PROVE FALSE
  OBVIOUS
<1>1. IsFiniteSet(LockSet)
  <2>1. LockSet \subseteq Clients \X (1 .. MaxLocks)
    BY DEF LockSet
  <2>2. IsFiniteSet(1 .. MaxLocks) /\ IsFiniteSet(Clients)
    BY CacheAssumption, Consts, FS_Interval
  <2>3. IsFiniteSet(Clients \X (1 .. MaxLocks))
    BY <2>2, FS_Product
  <2> QED BY <2>1, <2>3, FS_Subset
<1>2. PICK x : LockSet = {x}
  BY <1>1, FS_Singleton DEF LocksAddUp
<1>3. <<c, 1>> \in LockSet /\ <<d, 1>> \in LockSet
  BY Consts DEF LockSet
<1> QED BY <1>2, <1>3

\* From LockIfResident to Unlock the object is there, it counts as locked, and
\* object_lock_ is the main thread's to release; and between frames nothing is
\* locked, so that Age does not end the program.
THEOREM LocksLastLongEnough == PagingSpec => []LocksLast
<1>1. ASSUME PInv PROVE LocksLast
  <2> USE <1>1 DEF PInv
  <2>1. TypeOK /\ LocksAddUp /\ LockIsOwners /\ objectLocks \in Nat
    BY DEF IInv, LocksMatch, TypeOK
  <2>2. LockedIsUsable
    <3> SUFFICES ASSUME mpc \in {"use", "send"}, locked
                 PROVE  /\ resident[target] = 2 /\ pointer[target] # Null
                        /\ slots[handle[target]].locks > 0 /\ objectLock = Main
      BY DEF LockedIsUsable
    <3>1. PICK t : t = target
      OBVIOUS
    <3>2. t \in Clients /\ resident[t] = 2 /\ t # job
      BY <3>1 DEF TargetInv
    <3>3. handle[t] # 0 /\ pointer[t] # Null
      BY <3>2, ResidentFacts
    <3>4. LockCount(t) = 1
      BY <3>1, <3>2 DEF CountInv, Holds
    <3>5. slots[handle[t]].locks = 1
      BY <3>3, <3>4 DEF LockCount
    <3>6. objectLocks # 0
      BY <2>1, <3>2, <3>4, NoLocksAtAll
    <3>7. objectLocks = 1 => cs # "build"
      <4> SUFFICES ASSUME objectLocks = 1, cs = "build" PROVE FALSE
        OBVIOUS
      <4>1. PICK c : c = job
        OBVIOUS
      <4>2. c \in Clients /\ c # t
        BY <3>2, <4>1 DEF ThreadsInv, PagingTypeOK
      <4>3. LockCount(c) = 1
        BY <4>1, <4>2 DEF CountInv, Builds
      <4> QED BY <2>1, <3>2, <3>4, <4>2, <4>3, TwoLocks
    <3>8. objectLock = Main
      <4>1. objectLocks = 1 \/ objectLocks > 1
        BY <2>1, <3>6
      <4> QED BY <2>1, <3>7, <4>1 DEF LockIsOwners
    <3> QED BY <3>1, <3>2, <3>3, <3>5, <3>8
  <2>3. AgeNeverQuits
    <3> SUFFICES ASSUME mpc = "idle", cs \in {"free", "closed"} PROVE objectLocks = 0
      BY DEF AgeNeverQuits
    <3>1. \A c \in Clients : LockCount(c) = 0
      BY DEF CountInv, Builds, Holds
    <3> QED BY <2>1, <3>1, NoLocksAtAll
  <2> QED BY <2>2, <2>3 DEF LocksLast
<1> QED BY <1>1, PagingInvariant, PTL
=============================================================================
