-------------------------- MODULE AllocatorProofs ---------------------------
(***************************************************************************)
(* Theorems about Allocator, for every size of the heap, every set of      *)
(* sizes and alignments and any number of blocks.                          *)
(***************************************************************************)
EXTENDS Allocator, ListLemmas

NodeRec  == [prev : Address \cup {Null}, size : 1 .. HeapSize, alloc : BOOLEAN]
NodeMaps == UNION {[D -> NodeRec] : D \in SUBSET Address}
Heaps    == [nodes : NodeMaps, buckets : [Buckets -> Seq(Address)],
             live : SUBSET Buckets, used : Int]

Free(h) == {n \in DOMAIN h.nodes : ~h.nodes[n].alloc}

\* The nodes lie one behind the other, and each one knows the one in front of
\* it; the one at stale need not (Null: each does).
Row(h, stale) ==
    /\ 0 \in DOMAIN h.nodes
    /\ \A n \in DOMAIN h.nodes :
          /\ Next(h, n) \in DOMAIN h.nodes \cup {HeapSize}
          /\ \A m \in DOMAIN h.nodes : ~(n < m /\ m < Next(h, n))
          /\ n = 0 => h.nodes[n].prev = Null
          /\ n # 0 /\ n # stale => /\ h.nodes[n].prev \in DOMAIN h.nodes
                                   /\ Next(h, h.nodes[n].prev) = n

\* Free nodes are not beside each other, the one at k not counted (Null: none
\* is left out), and not at the start of the heap.
Apart(h, k) == \A n \in Free(h) \ {k} : n # 0 /\ Next(h, n) \notin Free(h) \ {k}

\* What no node of L covers.
Rest(h, L) == {a \in Address : \A n \in L : ~(n <= a /\ a < Next(h, n))}

\* The lists hold the nodes of L, and heap_used_ is what they leave.
Listed(h, L) ==
    /\ L \subseteq DOMAIN h.nodes
    /\ \A i \in Buckets :
          /\ ToSet(h.buckets[i]) = {n \in L : GetBucketIndex(Size(h, n)) = i}
          /\ IsInjective(h.buckets[i])
    /\ h.live = {i \in Buckets : h.buckets[i] # <<>>}
    /\ h.used = Cardinality(Rest(h, L))

Sound(h) == h \in Heaps /\ Row(h, Null) /\ Apart(h, Null) /\ Listed(h, Free(h))

\* A caller's block lies in a node in use, which is not the very first.
NodeAt(dbg, ptr) == ptr - Header - Offset(dbg)
BlockInv(h, dbg, b) ==
    /\ NodeAt(dbg, b.ptr) \in DOMAIN h.nodes \ Free(h) /\ NodeAt(dbg, b.ptr) # 0
    /\ Size(h, NodeAt(dbg, b.ptr)) >= Guarded(dbg, b.size)
    /\ b.ptr \in Address /\ b.ptr % b.align = 0
    /\ b.size \in 1 .. HeapSize

IInv ==
    /\ status \in {"down", "up"} /\ debug \in BOOLEAN
    /\ status = "up" => Sound(heap)
    /\ status = "down" => heap = NoHeap /\ blocks = {} /\ moving = NoMove
    /\ \A b \in blocks : BlockInv(heap, debug, b)
    /\ \A b, c \in blocks : b.ptr = c.ptr => b = c
    /\ moving = NoMove
          \/ /\ moving \in [old : Address, new : Address]
             /\ \E b \in blocks : b.ptr = moving.old
-----------------------------------------------------------------------------
(* Sizes and addresses *)

LEMMA Numbers ==
    /\ Header = 1 /\ SplitThresh = 2 /\ LowerGuard = 2 /\ UpperGuard = 1 /\ Null = -1
    /\ HeapSize \in Nat /\ HeapSize > 1 /\ SmallLimit \in Nat
    /\ IsFiniteSet(Address) /\ Cardinality(Address) = HeapSize
<1>1. HeapSize \in Nat /\ HeapSize > 1 /\ SmallLimit \in Nat
  BY AllocatorAssumption
<1>2. IsFiniteSet(0 .. HeapSize - 1) /\ Cardinality(0 .. HeapSize - 1) = HeapSize
  BY <1>1, FS_Interval
<1> QED BY <1>1, <1>2 DEF Header, SplitThresh, LowerGuard, UpperGuard, Null, Address

\* The numbers of the buckets grow with the sizes.
LEMMA Log2Facts ==
    ASSUME NEW m \in Nat, NEW n \in Nat, m <= n
    PROVE  Log2(m) \in Nat /\ Log2(n) \in Nat /\ Log2(m) <= Log2(n)
<1>1. IsFiniteSet(2 .. n)
  BY FS_Interval
<1>2. IsFiniteSet((2 .. n) \cap Powers)
  BY <1>1, FS_Intersection
<1>3. (2 .. m) \cap Powers \subseteq (2 .. n) \cap Powers
  OBVIOUS
<1>4. IsFiniteSet((2 .. m) \cap Powers)
      /\ Cardinality((2 .. m) \cap Powers) <= Cardinality((2 .. n) \cap Powers)
  BY <1>2, <1>3, FS_Subset
<1> QED BY <1>2, <1>4, FS_CardinalityType DEF Log2

LEMMA BucketFacts ==
    ASSUME NEW m \in Nat, NEW n \in Nat, m <= n
    PROVE  /\ GetBucketIndex(m) \in Int /\ GetBucketIndex(n) \in Int
           /\ GetBucketIndex(m) <= GetBucketIndex(n)
<1>1. SmallLimit \in Nat /\ Header = 1
  BY Numbers
<1>2. /\ Log2(m + 1) \in Nat /\ Log2(n + 1) \in Nat /\ Log2(SmallLimit) \in Nat
      /\ Log2(m + 1) <= Log2(n + 1)
      /\ n + 1 > SmallLimit => Log2(SmallLimit) <= Log2(n + 1)
      /\ m + 1 > SmallLimit => Log2(SmallLimit) <= Log2(m + 1)
  BY <1>1, Log2Facts
<1> QED BY <1>1, <1>2 DEF GetBucketIndex

LEMMA BucketTypes ==
    /\ Buckets \subseteq Int
    /\ \A size \in 0 .. HeapSize : GetBucketIndex(size) \in Buckets
<1>1. \A size \in 0 .. HeapSize : size \in Nat /\ GetBucketIndex(size) \in Int
  BY Numbers, BucketFacts
<1> QED BY <1>1 DEF Buckets

\* A node that is moved by the gap is aligned.
LEMMA GapFacts ==
    ASSUME NEW n \in Int, NEW a \in Nat \ {0}, NEW o \in Int
    PROVE  /\ Gap(n, a, o) \in 0 .. a - 1
           /\ (n + Gap(n, a, o) + Header + o) % a = 0
<1> DEFINE x == -(n + Header + o)
           r == x % a
<1>1. x \in Int /\ n + Header + o = -x /\ Gap(n, a, o) = r
  BY Numbers DEF Gap
<1> HIDE DEF x
<1>2. r \in 0 .. a - 1
  BY <1>1
<1>3. PICK q \in Int : x = a * q + r
  <2>1. x \div a \in Int /\ x = a * (x \div a) + r
    BY <1>1
  <2> QED BY <2>1
<1>4. n + Gap(n, a, o) + Header + o = a * (-q)
  BY <1>1, <1>2, <1>3, Numbers
<1>5. (a * (-q)) % a = 0
  OBVIOUS
<1> QED BY <1>1, <1>2, <1>4, <1>5
-----------------------------------------------------------------------------
(* What the steps of an operation change *)

LEMMA HeapTypes ==
    ASSUME NEW h \in Heaps
    PROVE  /\ h.nodes \in NodeMaps /\ h.buckets \in [Buckets -> Seq(Address)]
           /\ h.live \subseteq Buckets /\ h.used \in Int
           /\ h.nodes \in [DOMAIN h.nodes -> NodeRec] /\ DOMAIN h.nodes \subseteq Address
           /\ \A n \in DOMAIN h.nodes :
                 /\ n \in Address /\ n \in Nat /\ Size(h, n) \in 1 .. HeapSize
                 /\ h.nodes[n].prev \in Address \cup {Null} /\ h.nodes[n].alloc \in BOOLEAN
                 /\ Next(h, n) = n + 1 + Size(h, n) /\ Next(h, n) \in Nat /\ Next(h, n) > n
<1>1. h.nodes \in NodeMaps /\ h.buckets \in [Buckets -> Seq(Address)]
      /\ h.live \subseteq Buckets /\ h.used \in Int
  BY DEF Heaps
<1>2. h.nodes \in [DOMAIN h.nodes -> NodeRec] /\ DOMAIN h.nodes \subseteq Address
  BY <1>1 DEF NodeMaps
<1>3. ASSUME NEW n \in DOMAIN h.nodes
      PROVE  /\ n \in Address /\ n \in Nat /\ Size(h, n) \in 1 .. HeapSize
             /\ h.nodes[n].prev \in Address \cup {Null} /\ h.nodes[n].alloc \in BOOLEAN
             /\ Next(h, n) = n + 1 + Size(h, n) /\ Next(h, n) \in Nat /\ Next(h, n) > n
  <2>1. h.nodes[n] \in NodeRec /\ n \in Address
    BY <1>2
  <2>2. n \in Nat
    BY <2>1, Numbers DEF Address
  <2>3. /\ Size(h, n) \in 1 .. HeapSize /\ h.nodes[n].prev \in Address \cup {Null}
        /\ h.nodes[n].alloc \in BOOLEAN
    BY <2>1 DEF NodeRec, Size
  <2>4. Size(h, n) \in Nat /\ Next(h, n) = n + 1 + Size(h, n)
    BY <2>3, Numbers DEF Next
  <2> QED BY <2>1, <2>2, <2>3, <2>4
<1> QED BY <1>1, <1>2, <1>3

Same(g, h) == g.buckets = h.buckets /\ g.live = h.live /\ g.used = h.used

\* A heap with other nodes.
LEMMA WithNodes ==
    ASSUME NEW h \in Heaps, NEW f, NEW D \in SUBSET Address, f \in [D -> NodeRec],
           NEW g, g = [h EXCEPT !.nodes = f]
    PROVE  g \in Heaps /\ g.nodes = f /\ Same(g, h)
<1>1. f \in NodeMaps
  BY DEF NodeMaps
<1>2. g.nodes = f /\ Same(g, h)
  BY DEF Heaps, Same
<1> QED BY <1>1, <1>2 DEF Heaps

LEMMA PutFacts ==
    ASSUME NEW h \in Heaps, NEW n \in Address, NEW node \in NodeRec
    PROVE  /\ Put(h, n, node) \in Heaps /\ Same(Put(h, n, node), h)
           /\ DOMAIN Put(h, n, node).nodes = DOMAIN h.nodes \cup {n}
           /\ Put(h, n, node).nodes[n] = node
           /\ \A m \in DOMAIN h.nodes \ {n} : Put(h, n, node).nodes[m] = h.nodes[m]
<1> DEFINE D == DOMAIN h.nodes \cup {n}
           f == [m \in D |-> IF m = n THEN node ELSE h.nodes[m]]
<1>1. D \in SUBSET Address /\ f \in [D -> NodeRec]
  BY HeapTypes
<1>2. Put(h, n, node) = [h EXCEPT !.nodes = f]
  BY DEF Put
<1>3. DOMAIN f = D /\ f[n] = node /\ \A m \in DOMAIN h.nodes \ {n} : f[m] = h.nodes[m]
  OBVIOUS
<1> HIDE DEF D, f
<1>4. Put(h, n, node) \in Heaps /\ Put(h, n, node).nodes = f /\ Same(Put(h, n, node), h)
  BY <1>1, <1>2, WithNodes
<1> QED BY <1>3, <1>4 DEF D

LEMMA DropFacts ==
    ASSUME NEW h \in Heaps, NEW n
    PROVE  /\ Drop(h, n) \in Heaps /\ Same(Drop(h, n), h)
           /\ DOMAIN Drop(h, n).nodes = DOMAIN h.nodes \ {n}
           /\ \A m \in DOMAIN h.nodes \ {n} : Drop(h, n).nodes[m] = h.nodes[m]
<1> DEFINE D == DOMAIN h.nodes \ {n}
           f == [m \in D |-> h.nodes[m]]
<1>1. D \in SUBSET Address /\ f \in [D -> NodeRec]
  BY HeapTypes
<1>2. Drop(h, n) = [h EXCEPT !.nodes = f]
  BY DEF Drop
<1>3. DOMAIN f = D /\ \A m \in D : f[m] = h.nodes[m]
  OBVIOUS
<1> HIDE DEF D, f
<1>4. Drop(h, n) \in Heaps /\ Drop(h, n).nodes = f /\ Same(Drop(h, n), h)
  BY <1>1, <1>2, WithNodes
<1> QED BY <1>3, <1>4 DEF D

\* SetSize, SetAllocated and SetPrev change one field of one node.
LEMMA FieldFacts ==
    ASSUME NEW h \in Heaps, NEW n \in DOMAIN h.nodes, NEW node \in NodeRec, NEW g,
           g = [h EXCEPT !.nodes = [h.nodes EXCEPT ![n] = node]]
    PROVE  /\ g \in Heaps /\ Same(g, h) /\ DOMAIN g.nodes = DOMAIN h.nodes
           /\ g.nodes[n] = node
           /\ \A m \in DOMAIN h.nodes \ {n} : g.nodes[m] = h.nodes[m]
<1> DEFINE D == DOMAIN h.nodes
           f == [h.nodes EXCEPT ![n] = node]
<1>1. D \in SUBSET Address /\ f \in [D -> NodeRec]
  BY HeapTypes
<1>2. DOMAIN f = D /\ f[n] = node /\ \A m \in D \ {n} : f[m] = h.nodes[m]
  BY HeapTypes
<1>3. g = [h EXCEPT !.nodes = f]
  OBVIOUS
<1> HIDE DEF D, f
<1>4. g \in Heaps /\ g.nodes = f /\ Same(g, h)
  BY <1>1, <1>3, WithNodes
<1> QED BY <1>2, <1>4 DEF D

LEMMA SetSizeFacts ==
    ASSUME NEW h \in Heaps, NEW n \in DOMAIN h.nodes, NEW size \in 1 .. HeapSize
    PROVE  /\ SetSize(h, n, size) \in Heaps /\ Same(SetSize(h, n, size), h)
           /\ DOMAIN SetSize(h, n, size).nodes = DOMAIN h.nodes
           /\ SetSize(h, n, size).nodes[n] =
                 [prev |-> h.nodes[n].prev, size |-> size, alloc |-> h.nodes[n].alloc]
           /\ \A m \in DOMAIN h.nodes \ {n} : SetSize(h, n, size).nodes[m] = h.nodes[m]
<1> DEFINE node == [prev |-> h.nodes[n].prev, size |-> size, alloc |-> h.nodes[n].alloc]
<1>1. h.nodes[n] \in NodeRec
  BY HeapTypes
<1>2. node \in NodeRec /\ node = [h.nodes[n] EXCEPT !.size = size]
  BY <1>1 DEF NodeRec
<1>3. SetSize(h, n, size) = [h EXCEPT !.nodes = [h.nodes EXCEPT ![n] = node]]
  BY <1>2 DEF SetSize
<1> HIDE DEF node
<1>4. /\ SetSize(h, n, size) \in Heaps /\ Same(SetSize(h, n, size), h)
      /\ DOMAIN SetSize(h, n, size).nodes = DOMAIN h.nodes
      /\ SetSize(h, n, size).nodes[n] = node
      /\ \A m \in DOMAIN h.nodes \ {n} : SetSize(h, n, size).nodes[m] = h.nodes[m]
  BY <1>2, <1>3, FieldFacts
<1> QED BY <1>4 DEF node

LEMMA SetAllocatedFacts ==
    ASSUME NEW h \in Heaps, NEW n \in DOMAIN h.nodes, NEW alloc \in BOOLEAN
    PROVE  /\ SetAllocated(h, n, alloc) \in Heaps /\ Same(SetAllocated(h, n, alloc), h)
           /\ DOMAIN SetAllocated(h, n, alloc).nodes = DOMAIN h.nodes
           /\ SetAllocated(h, n, alloc).nodes[n] =
                 [prev |-> h.nodes[n].prev, size |-> h.nodes[n].size, alloc |-> alloc]
           /\ \A m \in DOMAIN h.nodes \ {n} : SetAllocated(h, n, alloc).nodes[m] = h.nodes[m]
<1> DEFINE node == [prev |-> h.nodes[n].prev, size |-> h.nodes[n].size, alloc |-> alloc]
<1>1. h.nodes[n] \in NodeRec
  BY HeapTypes
<1>2. node \in NodeRec /\ node = [h.nodes[n] EXCEPT !.alloc = alloc]
  BY <1>1 DEF NodeRec
<1>3. SetAllocated(h, n, alloc) = [h EXCEPT !.nodes = [h.nodes EXCEPT ![n] = node]]
  BY <1>2 DEF SetAllocated
<1> HIDE DEF node
<1>4. /\ SetAllocated(h, n, alloc) \in Heaps /\ Same(SetAllocated(h, n, alloc), h)
      /\ DOMAIN SetAllocated(h, n, alloc).nodes = DOMAIN h.nodes
      /\ SetAllocated(h, n, alloc).nodes[n] = node
      /\ \A m \in DOMAIN h.nodes \ {n} : SetAllocated(h, n, alloc).nodes[m] = h.nodes[m]
  BY <1>2, <1>3, FieldFacts
<1> QED BY <1>4 DEF node

\* A prev is only set where there is a node.
LEMMA SetPrevFacts ==
    ASSUME NEW h \in Heaps, NEW n \in DOMAIN h.nodes \cup {HeapSize}, NEW prev \in Address
    PROVE  /\ SetPrev(h, n, prev) \in Heaps /\ Same(SetPrev(h, n, prev), h)
           /\ DOMAIN SetPrev(h, n, prev).nodes = DOMAIN h.nodes
           /\ n # HeapSize => SetPrev(h, n, prev).nodes[n] =
                 [prev |-> prev, size |-> h.nodes[n].size, alloc |-> h.nodes[n].alloc]
           /\ \A m \in DOMAIN h.nodes \ {n} : SetPrev(h, n, prev).nodes[m] = h.nodes[m]
<1>1. CASE n = HeapSize
  <2>1. SetPrev(h, n, prev) = h /\ n \notin DOMAIN h.nodes
    BY <1>1, Numbers, HeapTypes DEF SetPrev, Address
  <2> QED BY <1>1, <2>1 DEF Same
<1>2. CASE n # HeapSize
  <2> DEFINE node == [prev |-> prev, size |-> h.nodes[n].size, alloc |-> h.nodes[n].alloc]
  <2>1. h.nodes[n] \in NodeRec /\ n \in DOMAIN h.nodes /\ n < HeapSize
    BY <1>2, HeapTypes, Numbers DEF Address
  <2>2. node \in NodeRec /\ node = [h.nodes[n] EXCEPT !.prev = prev]
    BY <2>1 DEF NodeRec
  <2>3. SetPrev(h, n, prev) = [h EXCEPT !.nodes = [h.nodes EXCEPT ![n] = node]]
    BY <2>1, <2>2 DEF SetPrev
  <2> HIDE DEF node
  <2>4. /\ SetPrev(h, n, prev) \in Heaps /\ Same(SetPrev(h, n, prev), h)
        /\ DOMAIN SetPrev(h, n, prev).nodes = DOMAIN h.nodes
        /\ SetPrev(h, n, prev).nodes[n] = node
        /\ \A m \in DOMAIN h.nodes \ {n} : SetPrev(h, n, prev).nodes[m] = h.nodes[m]
    BY <2>1, <2>2, <2>3, FieldFacts
  <2> QED BY <2>4 DEF node
<1> QED BY <1>1, <1>2
-----------------------------------------------------------------------------
(* The lists of free nodes *)

LEMMA RestFacts ==
    ASSUME NEW h, NEW L
    PROVE  /\ Rest(h, L) \subseteq Address /\ IsFiniteSet(Rest(h, L))
           /\ Cardinality(Rest(h, L)) \in 0 .. HeapSize
<1>1. Rest(h, L) \subseteq Address
  BY DEF Rest
<1>2. IsFiniteSet(Rest(h, L)) /\ Cardinality(Rest(h, L)) <= HeapSize
  BY <1>1, Numbers, FS_Subset
<1> QED BY <1>1, <1>2, FS_CardinalityType, Numbers

\* The lists only depend on the sizes of what they hold.
LEMMA ListedFrame ==
    ASSUME NEW h, NEW g, NEW L, Listed(h, L), Same(g, h), L \subseteq DOMAIN g.nodes,
           \A n \in L : g.nodes[n].size = h.nodes[n].size
    PROVE  Listed(g, L)
<1>1. \A n \in L : Size(g, n) = Size(h, n) /\ Next(g, n) = Next(h, n)
  BY DEF Size, Next
<1>2. Rest(g, L) = Rest(h, L)
  BY <1>1 DEF Rest
<1>3. \A i \in Buckets : {n \in L : GetBucketIndex(Size(g, n)) = i}
                          = {n \in L : GetBucketIndex(Size(h, n)) = i}
  BY <1>1
<1> QED BY <1>2, <1>3 DEF Listed, Same

\* A node that no node of L overlaps covers what L leaves.
LEMMA Covered ==
    ASSUME NEW h \in Heaps, NEW L, L \subseteq DOMAIN h.nodes, NEW n \in DOMAIN h.nodes \ L,
           Next(h, n) <= HeapSize, \A m \in L : Next(h, m) <= n \/ Next(h, n) <= m
    PROVE  Cardinality(Rest(h, L)) = Cardinality(Rest(h, L \cup {n})) + Size(h, n) + Header
<1> DEFINE U == n .. Next(h, n) - 1
           R == Rest(h, L)
<1>1. n \in Nat /\ Size(h, n) \in Nat /\ Next(h, n) = n + 1 + Size(h, n)
      /\ \A m \in L : m \in Nat /\ Next(h, m) \in Nat
  BY HeapTypes
<1>2. IsFiniteSet(U) /\ Cardinality(U) = Size(h, n) + 1
  <2>1. n \in Int /\ Next(h, n) - 1 \in Int
    BY <1>1
  <2>2. IsFiniteSet(U) /\ Cardinality(U) = IF n > Next(h, n) - 1 THEN 0
                                          ELSE (Next(h, n) - 1) - n + 1
    BY <2>1, FS_Interval
  <2> QED BY <1>1, <2>2
<1>3. U \subseteq R
  BY <1>1, Numbers DEF Rest, Address
<1>4. Rest(h, L \cup {n}) = R \ U
  <2>1. \A a \in Address : a \in Nat
    BY Numbers DEF Address
  <2> QED BY <1>1, <2>1 DEF Rest
<1>5. IsFiniteSet(R) /\ Cardinality(R) \in Nat
  BY RestFacts
<1> HIDE DEF R, U
<1>6. R \cap U = U
  BY <1>3
<1>7. Cardinality(R \ U) = Cardinality(R) - Cardinality(U)
  BY <1>5, <1>6, FS_Difference
<1>8. Cardinality(Rest(h, L \cup {n})) = Cardinality(R) - (Size(h, n) + 1)
  BY <1>2, <1>4, <1>7
<1> QED BY <1>1, <1>5, <1>8, Numbers DEF R

LEMMA LinkFacts ==
    ASSUME NEW h \in Heaps, NEW L, Listed(h, L), NEW n \in DOMAIN h.nodes \ L,
           Next(h, n) <= HeapSize, \A m \in L : Next(h, m) <= n \/ Next(h, n) <= m
    PROVE  Link(h, n) \in Heaps /\ Link(h, n).nodes = h.nodes /\ Listed(Link(h, n), L \cup {n})
<1> DEFINE i == GetBucketIndex(Size(h, n))
           s == h.buckets[i]
           r == <<n>> \o s
           g == Link(h, n)
<1>1. /\ n \in Address /\ Size(h, n) \in 1 .. HeapSize /\ i \in Buckets
      /\ s \in Seq(Address) /\ h.used \in Int /\ Size(h, n) + Header \in Int
  <2>1. n \in Address /\ Size(h, n) \in 1 .. HeapSize
    BY HeapTypes
  <2>2. Size(h, n) \in 0 .. HeapSize
    BY <2>1, Numbers
  <2>3. i \in Buckets
    BY <2>2, BucketTypes
  <2> QED BY <2>1, <2>2, <2>3, HeapTypes, Numbers
<1>2. ToSet(s) = {m \in L : GetBucketIndex(Size(h, m)) = i} /\ IsInjective(s)
  BY <1>1 DEF Listed
<1>3. n \notin ToSet(s)
  BY <1>2
<1> HIDE DEF i, s
<1>4. r \in Seq(Address) /\ r # <<>> /\ ToSet(r) = ToSet(s) \cup {n} /\ IsInjective(r)
  <2>1. s \in Seq(Address) /\ n \in Address /\ r = <<n>> \o s
    BY <1>1
  <2> HIDE DEF r
  <2>2. /\ r \in Seq(Address) /\ r # <<>> /\ IsInjective(r)
        /\ \A m : m \in ToSet(r) <=> m \in ToSet(s) \/ m = n
    <3> HIDE DEF g
    <3> QED BY <1>2, <1>3, <2>1, PushIs, ZenonT(30)
  <2> QED BY <2>2
<1>5. /\ g.nodes = h.nodes /\ g.used = h.used - (Size(h, n) + Header)
      /\ g.buckets = [h.buckets EXCEPT ![i] = r] /\ g.live = h.live \cup {i}
      /\ g \in Heaps
  <2>1. h.buckets[i] = s
    BY DEF s
  <2>2. g = [h EXCEPT !.used = h.used - (Size(h, n) + Header),
                      !.buckets = [h.buckets EXCEPT ![i] = r],
                      !.live = h.live \cup {i}]
    BY <2>1 DEF Link, i
  <2>3. [h.buckets EXCEPT ![i] = r] \in [Buckets -> Seq(Address)]
    BY <1>1, <1>4, HeapTypes
  <2>4. h.live \cup {i} \in SUBSET Buckets /\ h.used - (Size(h, n) + Header) \in Int
    BY <1>1, HeapTypes
  <2> HIDE DEF g, r
  <2> QED BY <2>2, <2>3, <2>4 DEF Heaps
<1> HIDE DEF g, r
<1>6. \A m \in L \cup {n} : Size(g, m) = Size(h, m) /\ Next(g, m) = Next(h, m)
  BY <1>5 DEF Size, Next
<1>7. g.used = Cardinality(Rest(g, L \cup {n}))
  <2>1. Rest(g, L \cup {n}) = Rest(h, L \cup {n})
    BY <1>6 DEF Rest
  <2>2. Cardinality(Rest(h, L)) = Cardinality(Rest(h, L \cup {n})) + Size(h, n) + Header
    BY Covered DEF Listed
  <2>3. Cardinality(Rest(h, L \cup {n})) \in Int /\ Size(h, n) \in Int /\ Header \in Int
    BY <1>1, RestFacts, Numbers
  <2>4. h.used = Cardinality(Rest(h, L))
    BY DEF Listed
  <2> QED BY <1>5, <2>1, <2>2, <2>3, <2>4
<1>8. ASSUME NEW b \in Buckets
      PROVE  /\ ToSet(g.buckets[b]) = {m \in L \cup {n} : GetBucketIndex(Size(g, m)) = b}
             /\ IsInjective(g.buckets[b])
  <2>1. CASE b = i
    <3>1. g.buckets[b] = r
      BY <1>1, <1>5, <2>1, HeapTypes
    <3>2. {m \in L \cup {n} : GetBucketIndex(Size(g, m)) = b} = ToSet(s) \cup {n}
      BY <1>2, <1>6, <2>1 DEF i
    <3> QED BY <1>4, <3>1, <3>2
  <2>2. CASE b # i
    <3>1. g.buckets[b] = h.buckets[b]
      BY <1>5, <2>2, HeapTypes
    <3>2. {m \in L \cup {n} : GetBucketIndex(Size(g, m)) = b}
             = {m \in L : GetBucketIndex(Size(h, m)) = b}
      BY <1>6, <2>2 DEF i
    <3> QED BY <3>1, <3>2 DEF Listed
  <2> QED BY <2>1, <2>2
<1>9. g.live = {b \in Buckets : g.buckets[b] # <<>>}
  <2>1. g.buckets[i] = r /\ \A b \in Buckets \ {i} : g.buckets[b] = h.buckets[b]
    BY <1>1, <1>5, HeapTypes
  <2>2. h.live = {b \in Buckets : h.buckets[b] # <<>>}
    BY DEF Listed
  <2> QED BY <1>1, <1>4, <1>5, <2>1, <2>2
<1>10. L \cup {n} \subseteq DOMAIN g.nodes
  BY <1>5 DEF Listed
<1>11. Listed(g, L \cup {n})
  BY <1>7, <1>8, <1>9, <1>10 DEF Listed
<1> QED BY <1>5, <1>11 DEF g

LEMMA UnlinkFacts ==
    ASSUME NEW h \in Heaps, NEW L, Listed(h, L), NEW n \in L,
           Next(h, n) <= HeapSize, \A m \in L \ {n} : Next(h, m) <= n \/ Next(h, n) <= m
    PROVE  /\ Unlink(h, n) \in Heaps /\ Unlink(h, n).nodes = h.nodes
           /\ Listed(Unlink(h, n), L \ {n})
<1> DEFINE i == GetBucketIndex(Size(h, n))
           s == h.buckets[i]
           r == RemoveFirst(s, n)
           g == Unlink(h, n)
           M == L \ {n}
           l == IF s = <<n>> THEN h.live \ {i} ELSE h.live
<1>1. /\ n \in Address /\ n \in DOMAIN h.nodes /\ Size(h, n) \in 1 .. HeapSize /\ i \in Buckets
      /\ s \in Seq(Address) /\ h.used \in Int /\ Size(h, n) + Header \in Int
  <2>1. n \in DOMAIN h.nodes
    BY DEF Listed
  <2>2. n \in Address /\ Size(h, n) \in 1 .. HeapSize
    BY <2>1, HeapTypes
  <2>3. Size(h, n) \in 0 .. HeapSize
    BY <2>2, Numbers
  <2>4. i \in Buckets
    BY <2>3, BucketTypes
  <2> QED BY <2>1, <2>2, <2>3, <2>4, HeapTypes, Numbers
<1>2. ToSet(s) = {m \in L : GetBucketIndex(Size(h, m)) = i} /\ IsInjective(s)
  BY <1>1 DEF Listed
<1>3. n \in ToSet(s)
  BY <1>2
<1> HIDE DEF i, s
<1>4. r \in Seq(Address) /\ ToSet(r) = ToSet(s) \ {n} /\ IsInjective(r) /\ (r = <<>> <=> s = <<n>>)
  BY <1>1, <1>2, <1>3, PullIs
<1>5. /\ g.nodes = h.nodes /\ g.used = h.used + Size(h, n) + Header
      /\ g.buckets = [h.buckets EXCEPT ![i] = r] /\ g.live = l
      /\ g \in Heaps
  <2>1. h.buckets[i] = s
    BY DEF s
  <2>2. g = [h EXCEPT !.used = h.used + Size(h, n) + Header,
                      !.buckets = [h.buckets EXCEPT ![i] = r],
                      !.live = l]
    BY <2>1 DEF Unlink, i
  <2>3. [h.buckets EXCEPT ![i] = r] \in [Buckets -> Seq(Address)]
    BY <1>1, <1>4, HeapTypes
  <2>4. l \in SUBSET Buckets /\ h.used + Size(h, n) + Header \in Int
    BY <1>1, HeapTypes, Numbers
  <2> HIDE DEF g, r, l
  <2> QED BY <2>2, <2>3, <2>4 DEF Heaps
<1> HIDE DEF g, r
<1>6. \A m \in L : Size(g, m) = Size(h, m) /\ Next(g, m) = Next(h, m)
  BY <1>5 DEF Size, Next
<1>7. g.used = Cardinality(Rest(g, M))
  <2>1. Rest(g, M) = Rest(h, M)
    BY <1>6 DEF Rest
  <2>2. Cardinality(Rest(h, M)) = Cardinality(Rest(h, L)) + Size(h, n) + Header
    <3>1. M \subseteq DOMAIN h.nodes /\ M \cup {n} = L /\ n \in DOMAIN h.nodes \ M
      BY <1>1 DEF Listed
    <3> HIDE DEF M
    <3> QED BY <3>1, Covered DEF M
  <2>3. Cardinality(Rest(h, L)) \in Int /\ Size(h, n) \in Int /\ Header \in Int
    BY <1>1, RestFacts, Numbers
  <2>4. h.used = Cardinality(Rest(h, L))
    BY DEF Listed
  <2> QED BY <1>5, <2>1, <2>2, <2>3, <2>4
<1>8. ASSUME NEW b \in Buckets
      PROVE  /\ ToSet(g.buckets[b]) = {m \in M : GetBucketIndex(Size(g, m)) = b}
             /\ IsInjective(g.buckets[b])
  <2>1. CASE b = i
    <3>1. g.buckets[b] = r
      BY <1>1, <1>5, <2>1, HeapTypes
    <3>2. {m \in M : GetBucketIndex(Size(g, m)) = b} = ToSet(s) \ {n}
      BY <1>2, <1>6, <2>1 DEF i
    <3> QED BY <1>4, <3>1, <3>2
  <2>2. CASE b # i
    <3>1. g.buckets[b] = h.buckets[b]
      BY <1>5, <2>2, HeapTypes
    <3>2. {m \in M : GetBucketIndex(Size(g, m)) = b}
             = {m \in L : GetBucketIndex(Size(h, m)) = b}
      BY <1>6, <2>2 DEF i
    <3> QED BY <3>1, <3>2 DEF Listed
  <2> QED BY <2>1, <2>2
<1>9. g.live = {b \in Buckets : g.buckets[b] # <<>>}
  <2>1. g.buckets[i] = r /\ \A b \in Buckets \ {i} : g.buckets[b] = h.buckets[b]
    BY <1>1, <1>5, HeapTypes
  <2>2. h.live = {b \in Buckets : h.buckets[b] # <<>>} /\ s # <<>>
    <3>1. s # <<>>
      BY <1>3 DEF ToSet
    <3> QED BY <3>1 DEF Listed
  <2>3. h.buckets[i] = s
    BY DEF s
  <2> QED BY <1>1, <1>4, <1>5, <2>1, <2>2, <2>3
<1>10. M \subseteq DOMAIN g.nodes
  BY <1>5 DEF Listed
<1>11. Listed(g, M)
  BY <1>7, <1>8, <1>9, <1>10 DEF Listed
<1> QED BY <1>5, <1>11 DEF g
-----------------------------------------------------------------------------
(* The search for a free node *)

\* The buckets the search looks into that have a node with room.
Usable(h, size, align, offset) ==
    {b \in h.live : /\ b >= StartBucket(size)
                    /\ \E k \in DOMAIN h.buckets[b] :
                          Size(h, h.buckets[b][k]) >=
                             size + Gap(h.buckets[b][k], align, offset)}

\* What FindFreeNode returns is a free node that has room behind the gap; it
\* returns one if there is such a bucket.
LEMMA FoundFits ==
    ASSUME NEW h \in Heaps, NEW L, Listed(h, L), NEW size \in Nat, NEW align \in Nat \ {0},
           NEW offset \in Nat, \/ FindFreeNode(h, size, align, offset) # Null
                              \/ Usable(h, size, align, offset) # {}
    PROVE  /\ FindFreeNode(h, size, align, offset) \in L
           /\ Size(h, FindFreeNode(h, size, align, offset)) >=
                 size + Gap(FindFreeNode(h, size, align, offset), align, offset)
<1> DEFINE waste(n)  == Size(h, n) - (size + Gap(n, align, offset))
           small(b)  == b < SmallLimit
           i         == GetBucketIndex(size)
           exact     == /\ i \in Buckets /\ small(i) /\ h.buckets[i] # <<>>
                        /\ waste(Head(h.buckets[i])) = 0
           fits(b)   == {k \in DOMAIN h.buckets[b] : waste(h.buckets[b][k]) >= 0}
           usable    == {b \in h.live : b >= StartBucket(size) /\ fits(b) # {}}
           bucket    == Min(usable)
           wastes    == {waste(h.buckets[bucket][k]) : k \in fits(bucket)}
           tightest  == {k \in fits(bucket) :
                           small(bucket) \/ waste(h.buckets[bucket][k]) = Min(wastes)}
           found     == FindFreeNode(h, size, align, offset)
<1>1. found = IF exact THEN Head(h.buckets[i])
              ELSE IF usable = {} THEN Null
              ELSE h.buckets[bucket][Min(tightest)]
  BY DEF FindFreeNode
<1>2. \A n \in L : waste(n) \in Int /\ (waste(n) >= 0 <=> Size(h, n) >= size + Gap(n, align, offset))
  <2> TAKE n \in L
  <2>1. n \in Int /\ Size(h, n) \in Nat
    BY HeapTypes DEF Listed
  <2>2. Gap(n, align, offset) \in Int
    BY <2>1, GapFacts
  <2> QED BY <2>1, <2>2
<1>3. \A b \in Buckets : /\ h.buckets[b] \in Seq(Address)
                         /\ \A k \in DOMAIN h.buckets[b] : h.buckets[b][k] \in L
  <2> TAKE b \in Buckets
  <2>1. \A k \in DOMAIN h.buckets[b] : h.buckets[b][k] \in ToSet(h.buckets[b])
    BY DEF ToSet
  <2> QED BY <2>1, HeapTypes DEF Listed
<1>4. h.live \subseteq Buckets /\ Buckets \subseteq Int /\ StartBucket(size) \in Int
  <2>1. size \in Nat /\ 2 * size \in Nat
    OBVIOUS
  <2>2. GetBucketIndex(size) \in Int /\ GetBucketIndex(2 * size) \in Int
    BY <2>1, BucketFacts
  <2> QED BY <2>2, HeapTypes, BucketTypes DEF StartBucket
<1>5. CASE exact
  <2>1. h.buckets[i] \in Seq(Address) /\ Len(h.buckets[i]) >= 1
    BY <1>3, <1>5
  <2>2. 1 \in DOMAIN h.buckets[i] /\ Head(h.buckets[i]) = h.buckets[i][1]
    BY <2>1
  <2>3. Head(h.buckets[i]) \in L
    BY <1>3, <1>5, <2>2
  <2>4. waste(Head(h.buckets[i])) >= 0
    BY <1>5
  <2> HIDE DEF waste
  <2> QED BY <1>1, <1>2, <1>5, <2>3, <2>4
<1>6. CASE ~exact
  <2> HIDE DEF exact, waste, found
  <2>0. Usable(h, size, align, offset) # {} => usable # {}
    BY <1>2, <1>3, <1>4 DEF Usable
  <2>1. found = h.buckets[bucket][Min(tightest)] /\ usable # {}
    BY <1>1, <1>6, <2>0 DEF found
  <2>2. bucket \in usable
    <3>1. usable \subseteq Int /\ \A b \in usable : StartBucket(size) <= b
      BY <1>4
    <3> HIDE DEF usable
    <3> QED BY <1>4, <2>1, <3>1, LeastAbove
  <2>3. bucket \in Buckets /\ fits(bucket) # {}
    BY <1>4, <2>2
  <2> HIDE DEF bucket
  <2>4. fits(bucket) \subseteq Nat /\ \A k \in fits(bucket) : h.buckets[bucket][k] \in L
    BY <1>3, <2>3
  <2>5. tightest # {}
    <3>1. wastes \subseteq Nat /\ wastes # {}
      BY <1>2, <2>3, <2>4
    <3>2. Min(wastes) \in wastes
      <4> HIDE DEF wastes
      <4> QED BY <3>1, LeastExists
    <3>3. PICK k \in fits(bucket) : Min(wastes) = waste(h.buckets[bucket][k])
      BY <3>2
    <3> QED BY <3>3
  <2>6. Min(tightest) \in tightest
    <3>1. tightest \subseteq Nat
      BY <2>4
    <3> HIDE DEF tightest
    <3> QED BY <2>5, <3>1, LeastExists
  <2>7. Min(tightest) \in fits(bucket)
    BY <2>6
  <2>8. found \in L /\ waste(found) >= 0
    BY <2>1, <2>4, <2>7
  <2> QED BY <1>2, <2>8 DEF found
<1> QED BY <1>5, <1>6

\* It returns one when some free node has twice the size and room for any gap.
LEMMA FoundIfRoom ==
    ASSUME NEW h \in Heaps, NEW L, Listed(h, L), NEW size \in Nat, NEW align \in Nat \ {0},
           NEW offset \in Nat, NEW m \in L, Size(h, m) >= 2 * size, Size(h, m) >= size + align - 1
    PROVE  FindFreeNode(h, size, align, offset) # Null
<1> DEFINE b == GetBucketIndex(Size(h, m))
<1>1. m \in Address /\ m \in Int /\ Size(h, m) \in 1 .. HeapSize /\ Size(h, m) \in Nat
  <2>1. m \in DOMAIN h.nodes
    BY DEF Listed
  <2> QED BY <2>1, HeapTypes, Numbers
<1>2. b \in Buckets
  <2>1. Size(h, m) \in 0 .. HeapSize
    BY <1>1, Numbers
  <2> QED BY <2>1, BucketTypes
<1>3. StartBucket(size) <= b
  <2>1. size \in Nat /\ 2 * size \in Nat /\ size <= Size(h, m) /\ 2 * size <= Size(h, m)
    BY <1>1
  <2>2. GetBucketIndex(size) <= b /\ GetBucketIndex(2 * size) <= b
    BY <1>1, <2>1, BucketFacts
  <2> QED BY <2>2 DEF StartBucket
<1>4. m \in ToSet(h.buckets[b])
  BY <1>2 DEF Listed
<1>5. PICK k \in DOMAIN h.buckets[b] : m = h.buckets[b][k]
  BY <1>4 DEF ToSet
<1>6. b \in h.live
  <2>1. h.buckets[b] # <<>>
    BY <1>5
  <2> QED BY <1>2, <2>1 DEF Listed
<1>7. Size(h, m) >= size + Gap(m, align, offset)
  <2>1. m \in Int /\ offset \in Int
    BY <1>1
  <2>2. Gap(m, align, offset) \in 0 .. align - 1
    BY <2>1, GapFacts
  <2> QED BY <1>1, <2>2
<1>8. b >= StartBucket(size)
  <2>1. StartBucket(size) \in Int /\ b \in Int
    <3>1. size \in Nat /\ 2 * size \in Nat
      OBVIOUS
    <3> QED BY <1>1, <3>1, BucketFacts DEF StartBucket
  <2> QED BY <1>3, <2>1
<1> HIDE DEF b
<1>9. b \in Usable(h, size, align, offset)
  BY <1>5, <1>6, <1>7, <1>8 DEF Usable
<1>10. FindFreeNode(h, size, align, offset) \in L
  BY <1>9, FoundFits
<1>11. \A n \in L : n \in Nat
  BY HeapTypes DEF Listed
<1> QED BY <1>10, <1>11, Numbers
-----------------------------------------------------------------------------
(* The row of nodes *)

\* The nodes do not overlap and end where the heap does.
LEMMA RowFacts ==
    ASSUME NEW h \in Heaps, NEW s, Row(h, s), NEW n \in DOMAIN h.nodes
    PROVE  /\ Next(h, n) <= HeapSize
           /\ \A m \in DOMAIN h.nodes : /\ m < n => Next(h, m) <= n
                                        /\ m > n => Next(h, n) <= m
                                        /\ Next(h, m) = Next(h, n) => m = n
<1>1. /\ n \in Nat /\ Next(h, n) \in Nat /\ Next(h, n) > n
      /\ \A m \in DOMAIN h.nodes : m \in Nat /\ m < HeapSize /\ Next(h, m) \in Nat /\ Next(h, m) > m
  BY HeapTypes, Numbers DEF Address
<1>2. Next(h, n) \in DOMAIN h.nodes \cup {HeapSize}
  BY DEF Row
<1>3. \A m \in DOMAIN h.nodes : ~(n < m /\ m < Next(h, n)) /\ ~(m < n /\ n < Next(h, m))
  BY DEF Row
<1>4. Next(h, n) <= HeapSize
  BY <1>1, <1>2, Numbers
<1>5. ASSUME NEW m \in DOMAIN h.nodes
      PROVE  /\ m < n => Next(h, m) <= n
             /\ m > n => Next(h, n) <= m
             /\ Next(h, m) = Next(h, n) => m = n
  BY <1>1, <1>3, <1>5
<1> QED BY <1>4, <1>5

\* Only the nodes count.
LEMMA RowFrame ==
    ASSUME NEW g, NEW h, g.nodes = h.nodes
    PROVE  /\ \A s : Row(h, s) => Row(g, s)
           /\ Free(g) = Free(h)
           /\ \A k : Apart(h, k) => Apart(g, k)
           /\ \A n : Size(g, n) = Size(h, n) /\ Next(g, n) = Next(h, n)
<1>1. \A n : Size(g, n) = Size(h, n) /\ Next(g, n) = Next(h, n)
  BY DEF Size, Next
<1>2. Free(g) = Free(h)
  BY DEF Free
<1> QED BY <1>1, <1>2 DEF Row, Apart

\* A node is cut in two; the one behind it does not know yet.
LEMMA RowCut ==
    ASSUME NEW h \in Heaps, NEW g \in Heaps, NEW s, Row(h, s),
           NEW n \in DOMAIN h.nodes, NEW k \in Address, n < k, k < Next(h, n),
           s = Null \/ s = Next(h, n),
           DOMAIN g.nodes = DOMAIN h.nodes \cup {k},
           Next(g, n) = k, Next(g, k) = Next(h, n),
           g.nodes[n].prev = h.nodes[n].prev, g.nodes[k].prev = n,
           \A m \in DOMAIN h.nodes \ {n} : g.nodes[m] = h.nodes[m]
    PROVE  k \notin DOMAIN h.nodes /\ Row(g, Next(h, n))
<1>1. \A m \in DOMAIN h.nodes : m \in Nat /\ Next(h, m) \in Nat /\ Next(h, m) > m
  BY HeapTypes
<1>2. k \in Nat /\ HeapSize \in Nat /\ Null \notin Nat
  BY Numbers DEF Address
<1>3. k \notin DOMAIN h.nodes
  BY DEF Row
<1>4. \A m \in DOMAIN h.nodes \ {n} : Next(g, m) = Next(h, m)
  BY DEF Next, Size
<1>5. \A m \in DOMAIN h.nodes : /\ Next(h, m) \in DOMAIN h.nodes \cup {HeapSize}
                                /\ \A o \in DOMAIN h.nodes : ~(m < o /\ o < Next(h, m))
  BY DEF Row
<1>6. \A m \in DOMAIN h.nodes \ {n} : Next(h, m) # Next(h, n) /\ (m < n => Next(h, m) <= n)
                                      /\ (m > n => Next(h, n) <= m)
  BY RowFacts
<1>7. ASSUME NEW m \in DOMAIN g.nodes
      PROVE  /\ Next(g, m) \in DOMAIN g.nodes \cup {HeapSize}
             /\ \A o \in DOMAIN g.nodes : ~(m < o /\ o < Next(g, m))
  <2>1. CASE m = n
    BY <1>1, <1>2, <1>5, <2>1
  <2>2. CASE m = k
    BY <1>1, <1>2, <1>5, <2>2
  <2>3. CASE m \notin {n, k}
    BY <1>1, <1>2, <1>4, <1>5, <1>6, <2>3
  <2> QED BY <2>1, <2>2, <2>3
<1>8. ASSUME NEW m \in DOMAIN g.nodes
      PROVE  /\ m = 0 => g.nodes[m].prev = Null
             /\ m # 0 /\ m # Next(h, n) => /\ g.nodes[m].prev \in DOMAIN g.nodes
                                           /\ Next(g, g.nodes[m].prev) = m
  <2>1. \A o \in DOMAIN h.nodes : /\ o = 0 => h.nodes[o].prev = Null
                                  /\ o # 0 /\ o # Next(h, n) => /\ h.nodes[o].prev \in DOMAIN h.nodes
                                                                /\ Next(h, h.nodes[o].prev) = o
    BY <1>1, <1>2 DEF Row
  <2>2. CASE m = k
    BY <1>1, <1>2, <2>2
  <2>3. CASE m # k
    <3>1. m \in DOMAIN h.nodes /\ g.nodes[m].prev = h.nodes[m].prev
      BY <2>3
    <3> QED BY <1>4, <2>1, <3>1
  <2> QED BY <2>2, <2>3
<1>9. 0 \in DOMAIN g.nodes
  BY DEF Row
<1> QED BY <1>3, <1>7, <1>8, <1>9 DEF Row

\* A node starts later and the one in front of it ends there.
LEMMA RowShift ==
    ASSUME NEW h \in Heaps, NEW g \in Heaps, Row(h, Null),
           NEW n \in DOMAIN h.nodes \ {0}, NEW k \in Address, n < k, k < Next(h, n),
           NEW p, p = h.nodes[n].prev,
           DOMAIN g.nodes = (DOMAIN h.nodes \ {n}) \cup {k},
           Next(g, p) = k, Next(g, k) = Next(h, n),
           g.nodes[p].prev = h.nodes[p].prev, g.nodes[k].prev = p,
           \A m \in DOMAIN h.nodes \ {n, p} : g.nodes[m] = h.nodes[m]
    PROVE  k \notin DOMAIN h.nodes /\ Row(g, Next(h, n))
<1>1. \A m \in DOMAIN h.nodes : m \in Nat /\ Next(h, m) \in Nat /\ Next(h, m) > m
  BY HeapTypes
<1>2. k \in Nat /\ HeapSize \in Nat /\ Null \notin Nat
  BY Numbers DEF Address
<1>3. p \in DOMAIN h.nodes /\ Next(h, p) = n /\ p # n
  BY <1>1, <1>2 DEF Row
<1>4. k \notin DOMAIN h.nodes
  BY DEF Row
<1>5. \A m \in DOMAIN h.nodes \ {n, p} : Next(g, m) = Next(h, m)
  BY DEF Next, Size
<1>6. \A m \in DOMAIN h.nodes : /\ Next(h, m) \in DOMAIN h.nodes \cup {HeapSize}
                                /\ \A o \in DOMAIN h.nodes : ~(m < o /\ o < Next(h, m))
  BY DEF Row
<1>7. \A m \in DOMAIN h.nodes \ {n} : Next(h, m) # Next(h, n) /\ (m < n => Next(h, m) <= n)
                                      /\ (m > n => Next(h, n) <= m)
  BY RowFacts
<1>8. \A m \in DOMAIN h.nodes \ {p} : Next(h, m) # n
  BY <1>3, RowFacts
<1>9. ASSUME NEW m \in DOMAIN g.nodes
      PROVE  /\ Next(g, m) \in DOMAIN g.nodes \cup {HeapSize}
             /\ \A o \in DOMAIN g.nodes : ~(m < o /\ o < Next(g, m))
  <2>1. CASE m = p
    BY <1>1, <1>2, <1>3, <1>6, <1>7, <2>1
  <2>2. CASE m = k
    BY <1>1, <1>2, <1>6, <2>2
  <2>3. CASE m \notin {p, k}
    BY <1>1, <1>2, <1>5, <1>6, <1>7, <1>8, <2>3
  <2> QED BY <2>1, <2>2, <2>3
<1>10. ASSUME NEW m \in DOMAIN g.nodes
      PROVE  /\ m = 0 => g.nodes[m].prev = Null
             /\ m # 0 /\ m # Next(h, n) => /\ g.nodes[m].prev \in DOMAIN g.nodes
                                           /\ Next(g, g.nodes[m].prev) = m
  <2>1. \A o \in DOMAIN h.nodes : /\ o = 0 => h.nodes[o].prev = Null
                                  /\ o # 0 => /\ h.nodes[o].prev \in DOMAIN h.nodes
                                              /\ Next(h, h.nodes[o].prev) = o
    BY <1>1, <1>2 DEF Row
  <2>2. CASE m = k
    BY <1>1, <1>2, <1>3, <2>2
  <2>3. CASE m # k
    <3>1. m \in DOMAIN h.nodes \ {n} /\ g.nodes[m].prev = h.nodes[m].prev
      BY <2>3
    <3>2. m = 0 => g.nodes[m].prev = Null
      BY <2>1, <3>1
    <3>3. ASSUME m # 0, m # Next(h, n)
          PROVE  g.nodes[m].prev \in DOMAIN g.nodes /\ Next(g, g.nodes[m].prev) = m
      <4>1. h.nodes[m].prev \in DOMAIN h.nodes \ {n, p}
        BY <1>3, <2>1, <3>1, <3>3
      <4> QED BY <1>5, <2>1, <3>1, <3>3, <4>1
    <3> QED BY <3>2, <3>3
  <2> QED BY <2>2, <2>3
<1>11. 0 \in DOMAIN g.nodes
  BY DEF Row
<1> QED BY <1>4, <1>9, <1>10, <1>11 DEF Row

\* A node goes into the one in front of it.
LEMMA RowJoin ==
    ASSUME NEW h \in Heaps, NEW g \in Heaps, Row(h, Null),
           NEW p \in DOMAIN h.nodes, NEW n \in DOMAIN h.nodes, n = Next(h, p),
           DOMAIN g.nodes = DOMAIN h.nodes \ {n},
           Next(g, p) = Next(h, n), g.nodes[p].prev = h.nodes[p].prev,
           \A m \in DOMAIN h.nodes \ {n, p} : g.nodes[m] = h.nodes[m]
    PROVE  Row(g, Next(h, n))
<1>1. \A m \in DOMAIN h.nodes : m \in Nat /\ Next(h, m) \in Nat /\ Next(h, m) > m
  BY HeapTypes
<1>2. HeapSize \in Nat /\ Null \notin Nat
  BY Numbers
<1>3. n # 0 /\ p # n
  BY <1>1
<1>5. \A m \in DOMAIN h.nodes \ {n, p} : Next(g, m) = Next(h, m)
  BY DEF Next, Size
<1>6. \A m \in DOMAIN h.nodes : /\ Next(h, m) \in DOMAIN h.nodes \cup {HeapSize}
                                /\ \A o \in DOMAIN h.nodes : ~(m < o /\ o < Next(h, m))
  BY DEF Row
<1>7. \A m \in DOMAIN h.nodes \ {n} : Next(h, m) # Next(h, n) /\ (m < n => Next(h, m) <= n)
                                      /\ (m > n => Next(h, n) <= m)
  BY RowFacts
<1>8. \A m \in DOMAIN h.nodes \ {p} : Next(h, m) # n
  BY RowFacts
<1>9. ASSUME NEW m \in DOMAIN g.nodes
      PROVE  /\ Next(g, m) \in DOMAIN g.nodes \cup {HeapSize}
             /\ \A o \in DOMAIN g.nodes : ~(m < o /\ o < Next(g, m))
  <2>1. CASE m = p
    BY <1>1, <1>2, <1>3, <1>6, <1>7, <2>1
  <2>2. CASE m # p
    BY <1>1, <1>2, <1>5, <1>6, <1>7, <1>8, <2>2
  <2> QED BY <2>1, <2>2
<1>10. ASSUME NEW m \in DOMAIN g.nodes
      PROVE  /\ m = 0 => g.nodes[m].prev = Null
             /\ m # 0 /\ m # Next(h, n) => /\ g.nodes[m].prev \in DOMAIN g.nodes
                                           /\ Next(g, g.nodes[m].prev) = m
  <2>1. \A o \in DOMAIN h.nodes : /\ o = 0 => h.nodes[o].prev = Null
                                  /\ o # 0 => /\ h.nodes[o].prev \in DOMAIN h.nodes
                                              /\ Next(h, h.nodes[o].prev) = o
    BY <1>1, <1>2 DEF Row
  <2>2. m \in DOMAIN h.nodes \ {n} /\ g.nodes[m].prev = h.nodes[m].prev
    OBVIOUS
  <2>3. m = 0 => g.nodes[m].prev = Null
    BY <2>1, <2>2
  <2>4. ASSUME m # 0, m # Next(h, n)
        PROVE  g.nodes[m].prev \in DOMAIN g.nodes /\ Next(g, g.nodes[m].prev) = m
    <3>1. h.nodes[m].prev \in DOMAIN h.nodes \ {n, p}
      BY <2>1, <2>2, <2>4
    <3> QED BY <1>5, <2>1, <2>2, <2>4, <3>1
  <2> QED BY <2>3, <2>4
<1>11. 0 \in DOMAIN g.nodes
  BY <1>3 DEF Row
<1> QED BY <1>9, <1>10, <1>11 DEF Row

\* And the node behind it is told.
LEMMA RowMend ==
    ASSUME NEW h \in Heaps, NEW n \in DOMAIN h.nodes, Row(h, Next(h, n))
    PROVE  Row(SetPrev(h, Next(h, n), n), Null)
<1> DEFINE e == Next(h, n)
           g == SetPrev(h, e, n)
<1>1. e \in DOMAIN h.nodes \cup {HeapSize} /\ n \in Address /\ e \in Nat /\ e > n
      /\ n \in Nat
  BY HeapTypes DEF Row
<1>2. \A m \in DOMAIN h.nodes : m \in Nat /\ m # HeapSize
  BY HeapTypes, Numbers DEF Address
<1>3. /\ DOMAIN g.nodes = DOMAIN h.nodes
      /\ e # HeapSize => g.nodes[e].prev = n
                         /\ g.nodes[e].size = h.nodes[e].size
      /\ \A m \in DOMAIN h.nodes \ {e} : g.nodes[m] = h.nodes[m]
  <2> HIDE DEF e
  <2>1. /\ DOMAIN g.nodes = DOMAIN h.nodes
        /\ e # HeapSize => g.nodes[e] =
              [prev |-> n, size |-> h.nodes[e].size, alloc |-> h.nodes[e].alloc]
        /\ \A m \in DOMAIN h.nodes \ {e} : g.nodes[m] = h.nodes[m]
    BY <1>1, SetPrevFacts
  <2> QED BY <2>1
<1>4. \A m \in DOMAIN h.nodes : Next(g, m) = Next(h, m)
  BY <1>2, <1>3 DEF Next, Size
<1> HIDE DEF e, g
<1>5. ASSUME NEW m \in DOMAIN g.nodes
      PROVE  /\ m = 0 => g.nodes[m].prev = Null
             /\ m # 0 => /\ g.nodes[m].prev \in DOMAIN g.nodes
                         /\ Next(g, g.nodes[m].prev) = m
  <2>1. CASE m = e
    BY <1>1, <1>2, <1>3, <1>4, <2>1 DEF e
  <2>2. CASE m # e
    BY <1>3, <1>4, <2>2 DEF Row, e
  <2> QED BY <2>1, <2>2
<1>6. ASSUME NEW m \in DOMAIN g.nodes
      PROVE  /\ Next(g, m) \in DOMAIN g.nodes \cup {HeapSize}
             /\ \A o \in DOMAIN g.nodes : ~(m < o /\ o < Next(g, m))
  BY <1>3, <1>4 DEF Row
<1>7. 0 \in DOMAIN g.nodes
  BY <1>3 DEF Row
<1> QED BY <1>5, <1>6, <1>7 DEF Row, g, e

LEMMA RowLink ==
    ASSUME NEW h \in Heaps, NEW s, Row(h, s), NEW L, Listed(h, L), NEW n \in DOMAIN h.nodes \ L
    PROVE  Link(h, n) \in Heaps /\ Link(h, n).nodes = h.nodes /\ Listed(Link(h, n), L \cup {n})
<1>1. \A m \in L : m \in DOMAIN h.nodes /\ m # n /\ m \in Nat
  BY HeapTypes DEF Listed
<1>2. n \in Nat
  BY HeapTypes
<1>3. Next(h, n) <= HeapSize /\ \A m \in L : Next(h, m) <= n \/ Next(h, n) <= m
  BY <1>1, <1>2, RowFacts
<1> QED BY <1>3, LinkFacts

LEMMA RowUnlink ==
    ASSUME NEW h \in Heaps, NEW s, Row(h, s), NEW L, Listed(h, L), NEW n \in L
    PROVE  /\ Unlink(h, n) \in Heaps /\ Unlink(h, n).nodes = h.nodes
           /\ Listed(Unlink(h, n), L \ {n})
<1>1. \A m \in L : m \in DOMAIN h.nodes /\ m \in Nat
  BY HeapTypes DEF Listed
<1>2. Next(h, n) <= HeapSize /\ \A m \in L \ {n} : Next(h, m) <= n \/ Next(h, n) <= m
  BY <1>1, RowFacts
<1> QED BY <1>2, UnlinkFacts
-----------------------------------------------------------------------------
(* Allocate *)

\* In the middle of an operation the free node at n is in no list.
Loose(h, n, s) ==
    /\ h \in Heaps /\ n \in Free(h) /\ Row(h, s)
    /\ Apart(h, n) /\ Listed(h, Free(h) \ {n})

\* What is in use, but for the node at k, stays in use and is no smaller.
Kept(g, h, k) ==
    \A m \in (DOMAIN h.nodes \ Free(h)) \ {k} :
       m \in DOMAIN g.nodes \ Free(g) /\ Size(g, m) >= Size(h, m)

LEMMA AlignLemma ==
    ASSUME NEW h, NEW n, Loose(h, n, Null), Next(h, n) \notin Free(h),
           \A m \in Free(h) : Next(h, m) # n,
           NEW gap \in Nat, gap < Size(h, n), n # 0 \/ gap = 0
    PROVE  /\ Loose(AlignNode(h, n, gap), n + gap, Next(h, n))
           /\ Next(AlignNode(h, n, gap), n + gap) = Next(h, n)
           /\ Next(h, n) \notin Free(AlignNode(h, n, gap))
           /\ Kept(AlignNode(h, n, gap), h, Null)
           /\ n + gap \notin DOMAIN h.nodes \ Free(h)
<1> DEFINE e == Next(h, n)
           k == n + gap
           p == h.nodes[n].prev
           a == AlignNode(h, n, gap)
<1>1. h \in Heaps /\ n \in DOMAIN h.nodes /\ ~h.nodes[n].alloc /\ Row(h, Null)
      /\ Apart(h, n) /\ Listed(h, Free(h) \ {n})
  BY DEF Loose, Free
<1>2. /\ n \in Address /\ n \in Nat /\ Size(h, n) \in 1 .. HeapSize /\ p \in Address \cup {Null}
      /\ e = n + 1 + Size(h, n) /\ e \in Nat /\ e > n /\ e <= HeapSize
      /\ Size(h, n) = h.nodes[n].size /\ HeapSize \in Nat
  BY <1>1, HeapTypes, RowFacts, Numbers DEF Size
<1>3. CASE gap = 0
  <2>1. a = h /\ k = n
    <3>1. a = h
      BY <1>3, Zenon DEF AlignNode
    <3> QED BY <1>2, <1>3, <3>1
  <2>2. Row(h, e)
    <3>1. \A m \in DOMAIN h.nodes : m # Null
      BY <1>1, Numbers, HeapTypes
    <3> QED BY <1>1, <3>1 DEF Row
  <2>3. Kept(h, h, Null)
    <3>1. \A m \in DOMAIN h.nodes : Size(h, m) >= Size(h, m)
      BY <1>1, HeapTypes
    <3> QED BY <3>1 DEF Kept
  <2>4. Loose(h, n, e) /\ n \notin DOMAIN h.nodes \ Free(h)
    BY <2>2 DEF Loose
  <2> HIDE DEF a, k, e
  <2> QED BY <2>1, <2>3, <2>4 DEF a, k, e
<1>4. CASE gap # 0
  <2> DEFINE size == Size(h, n) - gap
  <2>1. /\ k \in Address /\ k \in Nat /\ n < k /\ k < e /\ n # 0 /\ gap > 0
        /\ size \in 1 .. HeapSize /\ k + 1 + size = e /\ Size(h, n) - gap = size /\ n + gap = k
    BY <1>2, <1>4 DEF Address
  <2>2. \A prev \in Address \cup {Null} : Node(prev, size) \in NodeRec
    BY <2>1 DEF Node, NodeRec
  <2> HIDE DEF size
  <2>3. k \notin DOMAIN h.nodes
    BY <1>1, <2>1 DEF Row
  <2>4. CASE gap > SplitThresh
    <3> DEFINE x == gap - Header
               b == SetSize(h, n, x)
               c == Put(b, k, Node(n, size))
    <3>1. a = Link(c, n) /\ x \in 1 .. HeapSize /\ n + 1 + x = k
      <4>1. x \in 1 .. HeapSize /\ n + 1 + x = k
        BY <1>2, <2>1, <2>4, Numbers
      <4> HIDE DEF size
      <4>2. a = Link(c, n)
        BY <1>4, <2>1, <2>4, Zenon DEF AlignNode
      <4> QED BY <4>1, <4>2
    <3> HIDE DEF a, x
    <3>2. /\ b \in Heaps /\ Same(b, h) /\ DOMAIN b.nodes = DOMAIN h.nodes
          /\ b.nodes[n] = [prev |-> p, size |-> x, alloc |-> h.nodes[n].alloc]
          /\ \A m \in DOMAIN h.nodes \ {n} : b.nodes[m] = h.nodes[m]
      BY <1>1, <3>1, SetSizeFacts
    <3> HIDE DEF b
    <3>3. /\ c \in Heaps /\ Same(c, b) /\ DOMAIN c.nodes = DOMAIN b.nodes \cup {k}
          /\ c.nodes[k] = Node(n, size)
          /\ \A m \in DOMAIN b.nodes \ {k} : c.nodes[m] = b.nodes[m]
      BY <1>2, <2>1, <2>2, <3>2, PutFacts
    <3> HIDE DEF c
    <3>4. /\ Same(c, h) /\ DOMAIN c.nodes = DOMAIN h.nodes \cup {k}
          /\ c.nodes[k].prev = n /\ c.nodes[k].size = size /\ ~c.nodes[k].alloc
          /\ c.nodes[n].prev = p /\ c.nodes[n].size = x /\ ~c.nodes[n].alloc
          /\ \A m \in DOMAIN h.nodes \ {n} : c.nodes[m] = h.nodes[m]
      BY <1>1, <2>1, <2>3, <3>2, <3>3 DEF Same, Node
    <3>5. /\ Next(c, n) = k /\ Next(c, k) = e
          /\ \A m \in DOMAIN h.nodes \ {n} : Size(c, m) = Size(h, m) /\ Next(c, m) = Next(h, m)
      BY <2>1, <3>1, <3>4, Numbers DEF Next, Size
    <3>6. Row(c, e)
      BY <1>1, <2>1, <3>3, <3>4, <3>5, RowCut
    <3>7. Listed(c, Free(h) \ {n})
      BY <1>1, <3>4, ListedFrame DEF Free
    <3>8. Free(c) = Free(h) \cup {k}
      BY <1>1, <2>3, <3>4 DEF Free
    <3>9. a \in Heaps /\ a.nodes = c.nodes /\ Listed(a, Free(h))
      <4>1. n \in DOMAIN c.nodes \ (Free(h) \ {n}) /\ (Free(h) \ {n}) \cup {n} = Free(h)
        BY <1>1, <3>4 DEF Free
      <4> QED BY <3>1, <3>3, <3>6, <3>7, <4>1, RowLink
    <3>10. /\ Row(a, e) /\ Free(a) = Free(h) \cup {k}
           /\ \A m : Size(a, m) = Size(c, m) /\ Next(a, m) = Next(c, m)
      BY <3>6, <3>8, <3>9, RowFrame
    <3>11. Free(a) \ {k} = Free(h)
      BY <2>3, <3>10 DEF Free
    <3>12. Apart(a, k)
      <4>1. ASSUME NEW m \in Free(h) PROVE m # 0 /\ Next(a, m) \notin Free(h)
        <5>1. CASE m = n
          BY <2>1, <2>3, <3>5, <3>10, <5>1 DEF Free
        <5>2. CASE m # n
          <6>1. m # 0 /\ Next(h, m) \notin Free(h) \ {n} /\ Next(h, m) # n
            BY <1>1, <5>2 DEF Apart
          <6> QED BY <3>5, <3>10, <5>2, <6>1 DEF Free
        <5> QED BY <5>1, <5>2
      <4> QED BY <3>11, <4>1 DEF Apart
    <3>13. Loose(a, k, e)
      BY <3>9, <3>10, <3>11, <3>12 DEF Loose
    <3>14. Kept(a, h, Null)
      <4>1. ASSUME NEW m \in DOMAIN h.nodes \ Free(h)
            PROVE  m \in DOMAIN a.nodes \ Free(a) /\ Size(a, m) >= Size(h, m)
        <5>1. m # n /\ m # k /\ m \in DOMAIN h.nodes /\ Size(h, m) \in Int
          BY <1>1, <2>3, HeapTypes DEF Free
        <5> QED BY <3>4, <3>5, <3>9, <3>10, <5>1
      <4> QED BY <4>1 DEF Kept
    <3>15. Next(a, k) = e /\ e \notin Free(a)
      BY <2>1, <3>5, <3>10
    <3> QED BY <2>3, <3>13, <3>14, <3>15 DEF a
  <2>5. CASE ~(gap > SplitThresh)
    <3> DEFINE x == Size(h, p) + gap
               b == Drop(h, n)
               c == SetSize(b, p, x)
    <3>1. a = Put(c, k, Node(p, size))
      BY <1>4, <2>1, <2>5, Zenon DEF AlignNode
    <3>2. p \in DOMAIN h.nodes /\ Next(h, p) = n /\ p \notin Free(h) /\ p # n
      <4>1. n # Null
        BY <1>2, Numbers
      <4>2. p \in DOMAIN h.nodes /\ Next(h, p) = n
        BY <1>1, <2>1, <4>1 DEF Row
      <4>3. p # n
        BY <1>1, <4>2, HeapTypes
      <4> QED BY <4>2, <4>3
    <3>3. x \in 1 .. HeapSize /\ p + 1 + x = k /\ x >= Size(h, p)
      <4>1. p \in Nat /\ Size(h, p) \in 1 .. HeapSize /\ n = p + 1 + Size(h, p)
        BY <1>1, <3>2, HeapTypes
      <4> QED BY <1>2, <2>1, <4>1
    <3> HIDE DEF a, x, p
    <3>4. /\ b \in Heaps /\ Same(b, h) /\ DOMAIN b.nodes = DOMAIN h.nodes \ {n}
          /\ \A m \in DOMAIN h.nodes \ {n} : b.nodes[m] = h.nodes[m]
      BY <1>1, DropFacts
    <3> HIDE DEF b
    <3>5. /\ c \in Heaps /\ Same(c, b) /\ DOMAIN c.nodes = DOMAIN b.nodes
          /\ c.nodes[p] = [prev |-> b.nodes[p].prev, size |-> x, alloc |-> b.nodes[p].alloc]
          /\ \A m \in DOMAIN b.nodes \ {p} : c.nodes[m] = b.nodes[m]
      <4>1. p \in DOMAIN b.nodes
        BY <3>2, <3>4
      <4> QED BY <3>3, <3>4, <4>1, SetSizeFacts
    <3> HIDE DEF c
    <3>6. /\ a \in Heaps /\ Same(a, c) /\ DOMAIN a.nodes = DOMAIN c.nodes \cup {k}
          /\ a.nodes[k] = Node(p, size)
          /\ \A m \in DOMAIN c.nodes \ {k} : a.nodes[m] = c.nodes[m]
      <4>1. Node(p, size) \in NodeRec
        BY <1>2, <2>2
      <4> QED BY <2>1, <3>1, <3>5, <4>1, PutFacts
    <3>7. /\ Same(a, h) /\ DOMAIN a.nodes = (DOMAIN h.nodes \ {n}) \cup {k}
          /\ a.nodes[k].prev = p /\ a.nodes[k].size = size /\ ~a.nodes[k].alloc
          /\ a.nodes[p].prev = h.nodes[p].prev /\ a.nodes[p].size = x
          /\ a.nodes[p].alloc = h.nodes[p].alloc
          /\ \A m \in DOMAIN h.nodes \ {n, p} : a.nodes[m] = h.nodes[m]
      BY <2>3, <3>2, <3>4, <3>5, <3>6 DEF Same, Node
    <3>8. /\ Next(a, p) = k /\ Next(a, k) = e /\ Size(a, p) >= Size(h, p)
          /\ \A m \in DOMAIN h.nodes \ {n, p} : Size(a, m) = Size(h, m) /\ Next(a, m) = Next(h, m)
      BY <2>1, <3>3, <3>7, Numbers DEF Next, Size
    <3>9. Row(a, e)
      BY <1>1, <2>1, <3>6, <3>7, <3>8, RowShift DEF p
    <3>10. Listed(a, Free(h) \ {n})
      BY <1>1, <3>2, <3>7, ListedFrame DEF Free
    <3>11. Free(a) = (Free(h) \ {n}) \cup {k} /\ Free(a) \ {k} = Free(h) \ {n}
      BY <1>1, <2>3, <3>2, <3>7 DEF Free
    <3>12. Apart(a, k)
      <4>1. ASSUME NEW m \in Free(h) \ {n} PROVE m # 0 /\ Next(a, m) \notin Free(h) \ {n}
        <5>1. m # 0 /\ Next(h, m) \notin Free(h) \ {n}
          BY <1>1 DEF Apart
        <5> QED BY <3>2, <3>8, <5>1 DEF Free
      <4> QED BY <3>11, <4>1 DEF Apart
    <3>13. Loose(a, k, e)
      BY <3>6, <3>9, <3>10, <3>11, <3>12 DEF Loose
    <3>14. Kept(a, h, Null)
      <4>1. ASSUME NEW m \in DOMAIN h.nodes \ Free(h)
            PROVE  m \in DOMAIN a.nodes \ Free(a) /\ Size(a, m) >= Size(h, m)
        <5>1. m # n /\ m # k /\ m \in DOMAIN h.nodes /\ Size(h, m) \in Int
          BY <1>1, <2>3, HeapTypes DEF Free
        <5> QED BY <3>7, <3>8, <3>11, <5>1
      <4> QED BY <4>1 DEF Kept
    <3>15. Next(a, k) = e /\ e \notin Free(a)
      BY <2>1, <3>8, <3>11
    <3> QED BY <2>3, <3>13, <3>14, <3>15 DEF a
  <2> QED BY <2>4, <2>5
<1> QED BY <1>3, <1>4

\* Telling the node behind changes nothing else.
LEMMA Mended ==
    ASSUME NEW h \in Heaps, NEW n \in DOMAIN h.nodes, Row(h, Next(h, n)),
           NEW g, g = SetPrev(h, Next(h, n), n)
    PROVE  /\ g \in Heaps /\ Row(g, Null) /\ DOMAIN g.nodes = DOMAIN h.nodes
           /\ Free(g) = Free(h)
           /\ \A m \in DOMAIN h.nodes : Size(g, m) = Size(h, m) /\ Next(g, m) = Next(h, m)
           /\ \A k : Apart(h, k) => Apart(g, k)
           /\ \A L : Listed(h, L) => Listed(g, L)
<1> DEFINE e == Next(h, n)
<1>1. e \in DOMAIN h.nodes \cup {HeapSize} /\ n \in Address /\ g = SetPrev(h, e, n)
  BY HeapTypes DEF Row
<1>2. \A m \in DOMAIN h.nodes : m # HeapSize
  BY HeapTypes, Numbers DEF Address
<1>3. Row(g, Null)
  BY RowMend
<1> HIDE DEF e
<1>4. /\ g \in Heaps /\ Same(g, h) /\ DOMAIN g.nodes = DOMAIN h.nodes
      /\ e # HeapSize => g.nodes[e] =
            [prev |-> n, size |-> h.nodes[e].size, alloc |-> h.nodes[e].alloc]
      /\ \A m \in DOMAIN h.nodes \ {e} : g.nodes[m] = h.nodes[m]
  BY <1>1, SetPrevFacts
<1>5. \A m \in DOMAIN h.nodes : /\ g.nodes[m].size = h.nodes[m].size
                                /\ g.nodes[m].alloc = h.nodes[m].alloc
  BY <1>1, <1>2, <1>4
<1>6. Free(g) = Free(h)
  BY <1>4, <1>5 DEF Free
<1>7. \A m \in DOMAIN h.nodes : Size(g, m) = Size(h, m) /\ Next(g, m) = Next(h, m)
  BY <1>5 DEF Size, Next
<1>8. \A k : Apart(h, k) => Apart(g, k)
  <2>1. Free(h) \subseteq DOMAIN h.nodes
    BY DEF Free
  <2> QED BY <1>6, <1>7, <2>1 DEF Apart
<1>9. ASSUME NEW L, Listed(h, L) PROVE Listed(g, L)
  <2>1. L \subseteq DOMAIN h.nodes
    BY <1>9 DEF Listed
  <2> QED BY <1>4, <1>5, <1>9, <2>1, ListedFrame
<1> QED BY <1>3, <1>4, <1>6, <1>7, <1>8, <1>9

LEMMA SplitLemma ==
    ASSUME NEW h, NEW n, Loose(h, n, Next(h, n)), Next(h, n) \notin Free(h),
           NEW size \in Nat \ {0}, Size(h, n) >= size
    PROVE  /\ Loose(SplitNode(h, n, size), n, Null)
           /\ Size(SplitNode(h, n, size), n) >= size
           /\ Kept(SplitNode(h, n, size), h, Null)
<1> DEFINE e == Next(h, n)
           z == SplitNode(h, n, size)
           extra == Size(h, n) - size
           k == n + Header + size
<1>1. h \in Heaps /\ n \in DOMAIN h.nodes /\ ~h.nodes[n].alloc /\ Row(h, e)
      /\ Apart(h, n) /\ Listed(h, Free(h) \ {n}) /\ n \in Free(h)
  BY DEF Loose, Free
<1>2. /\ n \in Address /\ n \in Nat /\ Size(h, n) \in 1 .. HeapSize
      /\ e = n + 1 + Size(h, n) /\ e \in Nat /\ e > n /\ e <= HeapSize
      /\ HeapSize \in Nat
  BY <1>1, HeapTypes, RowFacts, Numbers
<1>3. CASE ~(extra > SplitThresh)
  <2>1. z = SetPrev(h, Next(h, n), n)
    BY <1>3, Zenon DEF SplitNode
  <2> HIDE DEF z, e, extra, k
  <2>2. /\ z \in Heaps /\ Row(z, Null) /\ DOMAIN z.nodes = DOMAIN h.nodes
        /\ Free(z) = Free(h)
        /\ \A m \in DOMAIN h.nodes : Size(z, m) = Size(h, m)
        /\ Apart(z, n) /\ Listed(z, Free(h) \ {n})
    BY <1>1, <2>1, Mended DEF e
  <2>3. Loose(z, n, Null)
    BY <1>1, <2>2 DEF Loose
  <2>4. Kept(z, h, Null)
    <3>1. \A m \in DOMAIN h.nodes : Size(h, m) \in Int
      BY <1>1, HeapTypes
    <3> QED BY <2>2, <3>1 DEF Kept
  <2>5. Size(z, n) >= size
    BY <1>1, <2>2
  <2> QED BY <2>3, <2>4, <2>5 DEF z
<1>4. CASE extra > SplitThresh
  <2> DEFINE x == extra - Header
             b == SetSize(h, n, size)
             c == Put(b, k, Node(n, x))
             d == SetPrev(c, e, k)
  <2>1. /\ k \in Address /\ k \in Nat /\ n < k /\ k < e /\ k = n + 1 + size
        /\ size \in 1 .. HeapSize /\ x \in 1 .. HeapSize /\ k + 1 + x = e
    BY <1>2, <1>4, Numbers DEF Address
  <2>2. z = Link(d, k)
    BY <1>4, Zenon DEF SplitNode
  <2> HIDE DEF z, k, x
  <2>3. k \notin DOMAIN h.nodes
    BY <1>1, <2>1 DEF Row
  <2>4. Node(n, x) \in NodeRec
    BY <1>2, <2>1 DEF Node, NodeRec
  <2>5. /\ b \in Heaps /\ Same(b, h) /\ DOMAIN b.nodes = DOMAIN h.nodes
        /\ b.nodes[n] = [prev |-> h.nodes[n].prev, size |-> size, alloc |-> h.nodes[n].alloc]
        /\ \A m \in DOMAIN h.nodes \ {n} : b.nodes[m] = h.nodes[m]
    BY <1>1, <2>1, SetSizeFacts
  <2> HIDE DEF b
  <2>6. /\ c \in Heaps /\ Same(c, b) /\ DOMAIN c.nodes = DOMAIN b.nodes \cup {k}
        /\ c.nodes[k] = Node(n, x)
        /\ \A m \in DOMAIN b.nodes \ {k} : c.nodes[m] = b.nodes[m]
    BY <2>1, <2>4, <2>5, PutFacts
  <2> HIDE DEF c
  <2>7. /\ Same(c, h) /\ DOMAIN c.nodes = DOMAIN h.nodes \cup {k}
        /\ c.nodes[k].prev = n /\ c.nodes[k].size = x /\ ~c.nodes[k].alloc
        /\ c.nodes[n].prev = h.nodes[n].prev /\ c.nodes[n].size = size /\ ~c.nodes[n].alloc
        /\ \A m \in DOMAIN h.nodes \ {n} : c.nodes[m] = h.nodes[m]
    BY <1>1, <2>1, <2>3, <2>5, <2>6 DEF Same, Node
  <2>8. /\ Next(c, n) = k /\ Next(c, k) = e /\ Size(c, n) = size
        /\ \A m \in DOMAIN h.nodes \ {n} : Size(c, m) = Size(h, m) /\ Next(c, m) = Next(h, m)
    BY <2>1, <2>7, Numbers DEF Next, Size
  <2>9. Row(c, e)
    BY <1>1, <2>1, <2>6, <2>7, <2>8, RowCut
  <2>10. Listed(c, Free(h) \ {n})
    BY <1>1, <2>7, ListedFrame DEF Free
  <2>11. Free(c) = Free(h) \cup {k}
    BY <1>1, <2>3, <2>7 DEF Free
  <2>12. Apart(c, n)
    <3>1. ASSUME NEW m \in Free(h) \ {n} PROVE m # 0 /\ Next(c, m) \notin (Free(h) \cup {k}) \ {n}
      <4>1. m # 0 /\ Next(h, m) \notin Free(h) \ {n} /\ m \in DOMAIN h.nodes
        BY <1>1 DEF Apart, Free
      <4>2. Next(h, m) # k
        <5>1. Next(h, m) \in DOMAIN h.nodes \cup {HeapSize} /\ k # HeapSize
          BY <1>1, <2>1, <4>1, Numbers DEF Row, Address
        <5> QED BY <2>3, <5>1
      <4> QED BY <2>8, <4>1, <4>2
    <3>2. k # 0 /\ Next(c, k) \notin (Free(h) \cup {k}) \ {n}
      BY <1>2, <2>1, <2>8
    <3> QED BY <2>11, <3>1, <3>2 DEF Apart
  <2>13. /\ d \in Heaps /\ Row(d, Null) /\ DOMAIN d.nodes = DOMAIN c.nodes
         /\ Free(d) = Free(c) /\ Apart(d, n) /\ Listed(d, Free(h) \ {n})
         /\ \A m \in DOMAIN c.nodes : Size(d, m) = Size(c, m)
    <3>1. k \in DOMAIN c.nodes /\ d = SetPrev(c, Next(c, k), k) /\ Row(c, Next(c, k))
      BY <2>7, <2>8, <2>9
    <3> HIDE DEF d
    <3> QED BY <2>6, <2>10, <2>12, <3>1, Mended
  <2> HIDE DEF d
  <2>14. z \in Heaps /\ z.nodes = d.nodes /\ Listed(z, (Free(h) \cup {k}) \ {n})
    <3>1. k \in DOMAIN d.nodes \ (Free(h) \ {n}) /\ (Free(h) \ {n}) \cup {k} = (Free(h) \cup {k}) \ {n}
      BY <2>1, <2>3, <2>7, <2>13 DEF Free
    <3>2. Listed(Link(d, k), (Free(h) \ {n}) \cup {k}) /\ Link(d, k) \in Heaps /\ Link(d, k).nodes = d.nodes
      BY <2>13, <3>1, RowLink
    <3> QED BY <2>2, <3>1, <3>2
  <2>15. /\ Row(z, Null) /\ Free(z) = Free(h) \cup {k} /\ Apart(z, n)
         /\ DOMAIN z.nodes = DOMAIN c.nodes
         /\ \A m \in DOMAIN c.nodes : Size(z, m) = Size(c, m)
    BY <2>11, <2>13, <2>14, RowFrame
  <2>16. Loose(z, n, Null)
    BY <1>1, <2>14, <2>15 DEF Loose
  <2>17. Kept(z, h, Null)
    <3>1. ASSUME NEW m \in DOMAIN h.nodes \ Free(h)
          PROVE  m \in DOMAIN z.nodes \ Free(z) /\ Size(z, m) >= Size(h, m)
      <4>1. m # n /\ m # k /\ m \in DOMAIN h.nodes /\ Size(h, m) \in Int
        BY <1>1, <2>3, HeapTypes DEF Free
      <4> QED BY <2>7, <2>8, <2>15, <4>1
    <3> QED BY <3>1 DEF Kept
  <2>18. Size(z, n) >= size
    BY <1>1, <2>7, <2>8, <2>15
  <2> QED BY <2>16, <2>17, <2>18 DEF z
<1> QED BY <1>3, <1>4

\* Heap g is heap h with the allocated bit of node n set to alloc.
Marks(g, h, n, alloc) ==
    /\ g \in Heaps /\ DOMAIN g.nodes = DOMAIN h.nodes
    /\ Free(g) = IF alloc THEN Free(h) \ {n} ELSE Free(h) \cup {n}
    /\ \A m \in DOMAIN h.nodes : Size(g, m) = Size(h, m) /\ Next(g, m) = Next(h, m)
    /\ \A s : Row(h, s) => Row(g, s)
    /\ \A L : Listed(h, L) => Listed(g, L)

\* What Free starts with and Allocate ends with.
LEMMA Marked ==
    ASSUME NEW h \in Heaps, NEW n \in DOMAIN h.nodes, NEW alloc \in BOOLEAN,
           NEW g, g = SetAllocated(h, n, alloc)
    PROVE  Marks(g, h, n, alloc)
<1>1. /\ g \in Heaps /\ Same(g, h) /\ DOMAIN g.nodes = DOMAIN h.nodes
      /\ g.nodes[n] = [prev |-> h.nodes[n].prev, size |-> h.nodes[n].size, alloc |-> alloc]
      /\ \A m \in DOMAIN h.nodes \ {n} : g.nodes[m] = h.nodes[m]
  BY SetAllocatedFacts
<1>2. \A m \in DOMAIN h.nodes : /\ g.nodes[m].size = h.nodes[m].size
                                /\ g.nodes[m].prev = h.nodes[m].prev
  BY <1>1
<1>3. Free(g) = IF alloc THEN Free(h) \ {n} ELSE Free(h) \cup {n}
  BY <1>1 DEF Free
<1>4. \A m \in DOMAIN h.nodes : Size(g, m) = Size(h, m) /\ Next(g, m) = Next(h, m)
  BY <1>2 DEF Size, Next
<1>5. ASSUME NEW s, Row(h, s) PROVE Row(g, s)
  BY <1>1, <1>2, <1>4, <1>5 DEF Row
<1>6. ASSUME NEW L, Listed(h, L) PROVE Listed(g, L)
  <2>1. L \subseteq DOMAIN h.nodes
    BY <1>6 DEF Listed
  <2> QED BY <1>1, <1>2, <1>6, <2>1, ListedFrame
<1> QED BY <1>1, <1>3, <1>4, <1>5, <1>6 DEF Marks

LEMMA GuardFacts ==
    ASSUME NEW dbg \in BOOLEAN, NEW size \in Nat \ {0}
    PROVE  /\ Offset(dbg) \in Nat /\ Guarded(dbg, size) \in Nat \ {0}
           /\ Guarded(dbg, size) >= Offset(dbg) + size
<1> QED BY Numbers DEF Offset, Guarded

\* What Allocate does to a heap in which the found node stands alone.
LEMMA AllocateLemma ==
    ASSUME NEW h \in Heaps, Row(h, Null), Listed(h, Free(h)),
           NEW dbg \in BOOLEAN, NEW size \in Nat \ {0}, NEW align \in Nat \ {0},
           NEW n, n = Find(h, dbg, size, align), n # Null,
           NEW gap, gap = Gap(n, align, Offset(dbg)), n # 0 \/ gap = 0,
           Apart(h, n), Next(h, n) \notin Free(h), \A m \in Free(h) : Next(h, m) # n,
           NEW a, a = Allocate(h, dbg, size, align)
    PROVE  /\ n \in Free(h) /\ gap \in Nat /\ Sound(a) /\ Kept(a, h, Null)
           /\ n + gap \in DOMAIN a.nodes \ Free(a)
           /\ n + gap \notin DOMAIN h.nodes \ Free(h)
           /\ Size(a, n + gap) >= Guarded(dbg, size)
<1> DEFINE need == Guarded(dbg, size)
           k == n + gap
           u == Unlink(h, n)
           b == AlignNode(u, n, gap)
           z == SplitNode(b, k, need)
           e == Next(h, n)
<1>1. Offset(dbg) \in Nat /\ need \in Nat \ {0}
  BY GuardFacts
<1>2. n \in Free(h) /\ Size(h, n) >= need + gap
  <2>1. need \in Nat
    BY <1>1
  <2> HIDE DEF need
  <2>2. n = FindFreeNode(h, need, align, Offset(dbg))
    BY DEF Find, need
  <2> QED BY <1>1, <2>1, <2>2, FoundFits
<1>3. n \in DOMAIN h.nodes /\ n \in Int /\ Size(h, n) \in Nat
  BY <1>2, HeapTypes DEF Free
<1>4. gap \in Nat /\ gap < Size(h, n)
  <2>1. gap \in 0 .. align - 1
    BY <1>1, <1>3, GapFacts
  <2> QED BY <1>1, <1>2, <1>3, <2>1
<1>5. a = SetAllocated(z, k, TRUE)
  BY DEF Allocate
<1> HIDE DEF need
<1>6. u \in Heaps /\ u.nodes = h.nodes /\ Listed(u, Free(h) \ {n})
  BY <1>2, RowUnlink
<1> HIDE DEF u
<1>7. /\ Row(u, Null) /\ Free(u) = Free(h) /\ Apart(u, n)
      /\ \A m : Size(u, m) = Size(h, m) /\ Next(u, m) = Next(h, m)
  BY <1>6, RowFrame
<1>8. Loose(u, n, Null) /\ Next(u, n) = e /\ gap < Size(u, n)
  BY <1>2, <1>4, <1>6, <1>7 DEF Loose
<1>9. /\ Loose(b, k, e) /\ Next(b, k) = e /\ e \notin Free(b) /\ Kept(b, u, Null)
      /\ k \notin DOMAIN u.nodes \ Free(u) /\ Size(b, k) >= need
  <2> HIDE DEF b, k, e
  <2>1. /\ Loose(b, k, e) /\ Next(b, k) = e /\ e \notin Free(b) /\ Kept(b, u, Null)
        /\ k \notin DOMAIN u.nodes \ Free(u)
    BY <1>4, <1>7, <1>8, AlignLemma DEF b, k, e
  <2>2. b \in Heaps /\ k \in DOMAIN b.nodes
    BY <2>1 DEF Loose, Free
  <2>3. Size(b, k) \in Int /\ e = k + 1 + Size(b, k)
    BY <2>1, <2>2, HeapTypes
  <2>4. e = n + 1 + Size(h, n)
    BY <1>3, HeapTypes DEF e
  <2>5. Size(b, k) >= need
    BY <1>1, <1>2, <1>3, <1>4, <2>3, <2>4 DEF k
  <2> QED BY <2>1, <2>5
<1> HIDE DEF b, k, e
<1>10. Loose(z, k, Null) /\ Size(z, k) >= need /\ Kept(z, b, Null)
  <2>1. Loose(b, k, Next(b, k)) /\ Next(b, k) \notin Free(b)
    BY <1>9
  <2> QED BY <1>1, <1>9, <2>1, SplitLemma
<1> HIDE DEF z
<1>11. z \in Heaps /\ k \in DOMAIN z.nodes /\ k \in Free(z) /\ Row(z, Null) /\ Apart(z, k)
       /\ Listed(z, Free(z) \ {k})
  BY <1>10 DEF Loose, Free
<1>12. /\ a \in Heaps /\ DOMAIN a.nodes = DOMAIN z.nodes /\ Free(a) = Free(z) \ {k}
       /\ \A m \in DOMAIN z.nodes : Size(a, m) = Size(z, m) /\ Next(a, m) = Next(z, m)
       /\ Row(a, Null) /\ Listed(a, Free(z) \ {k})
  <2>1. Marks(a, z, k, TRUE)
    BY <1>5, <1>11, Marked
  <2> QED BY <1>11, <2>1 DEF Marks
<1>13. Sound(a)
  <2>1. Apart(a, Null)
    <3>1. Free(z) \subseteq DOMAIN z.nodes
      BY DEF Free
    <3> QED BY <1>11, <1>12, <3>1 DEF Apart
  <2> QED BY <1>12, <2>1 DEF Sound
<1>14. Kept(a, h, Null)
  <2>1. ASSUME NEW m \in DOMAIN h.nodes \ Free(h), m # Null
        PROVE  m \in DOMAIN a.nodes \ Free(a) /\ Size(a, m) >= Size(h, m)
    <3>1. m \in DOMAIN u.nodes \ Free(u) /\ Size(u, m) = Size(h, m) /\ Size(h, m) \in Int
      BY <1>6, <1>7, HeapTypes
    <3>2. m \in DOMAIN b.nodes \ Free(b) /\ Size(b, m) >= Size(u, m)
      BY <1>9, <2>1, <3>1 DEF Kept
    <3>3. m \in DOMAIN z.nodes \ Free(z) /\ Size(z, m) >= Size(b, m)
      BY <1>10, <2>1, <3>2 DEF Kept
    <3>4. Size(b, m) \in Int /\ Size(z, m) \in Int
      <4>1. b \in Heaps
        BY <1>9 DEF Loose
      <4> QED BY <1>11, <3>2, <3>3, <4>1, HeapTypes
    <3>5. m \in DOMAIN a.nodes \ Free(a) /\ Size(a, m) = Size(z, m)
      BY <1>12, <3>3
    <3> QED BY <3>1, <3>2, <3>3, <3>4, <3>5
  <2> QED BY <2>1 DEF Kept
<1>15. k \in DOMAIN a.nodes \ Free(a) /\ Size(a, k) >= need
  BY <1>10, <1>11, <1>12
<1>16. k \notin DOMAIN h.nodes \ Free(h)
  BY <1>6, <1>7, <1>9
<1> QED BY <1>2, <1>4, <1>13, <1>14, <1>15, <1>16 DEF k, need

\* A block from a sound heap: new, aligned, in a node of its own.
LEMMA AllocateSound ==
    ASSUME NEW h, Sound(h),
           NEW dbg \in BOOLEAN, NEW size \in Nat \ {0}, NEW align \in Nat \ {0},
           Find(h, dbg, size, align) # Null,
           NEW a, a = Allocate(h, dbg, size, align),
           NEW ptr, ptr = Allocated(h, dbg, size, align),
           NEW k, k = ptr - Header - Offset(dbg)
    PROVE  /\ Sound(a) /\ Kept(a, h, Null)
           /\ ptr \in Address /\ ptr % align = 0 /\ size \in 1 .. HeapSize
           /\ k \in DOMAIN a.nodes \ Free(a) /\ k # 0
           /\ k \notin DOMAIN h.nodes \ Free(h)
           /\ Size(a, k) >= Guarded(dbg, size)
<1> DEFINE n == Find(h, dbg, size, align)
           gap == Gap(n, align, Offset(dbg))
<1>1. h \in Heaps /\ Row(h, Null) /\ Apart(h, Null) /\ Listed(h, Free(h))
  BY DEF Sound
<1>2. /\ Offset(dbg) \in Nat /\ Guarded(dbg, size) \in Nat \ {0}
      /\ Guarded(dbg, size) >= Offset(dbg) + size
  BY GuardFacts
<1>3. n \in Free(h)
  <2>1. n = FindFreeNode(h, Guarded(dbg, size), align, Offset(dbg)) /\ Guarded(dbg, size) \in Nat
    BY <1>2 DEF Find
  <2> QED BY <1>1, <1>2, <2>1, FoundFits
<1>4. n \in DOMAIN h.nodes /\ n \in Nat /\ \A m \in Free(h) : m # Null
  <2>1. \A m \in Free(h) : m \in DOMAIN h.nodes
    BY DEF Free
  <2> QED BY <1>1, <1>3, <2>1, HeapTypes, Numbers
<1>5. n # 0 /\ Next(h, n) \notin Free(h) /\ (\A m \in Free(h) : Next(h, m) # n) /\ Apart(h, n)
  <2>1. \A m \in Free(h) : m # 0 /\ Next(h, m) \notin Free(h)
    BY <1>1, <1>4 DEF Apart
  <2> QED BY <1>3, <2>1 DEF Apart
<1> HIDE DEF n
<1>6. /\ gap \in Nat /\ Sound(a) /\ Kept(a, h, Null)
      /\ n + gap \in DOMAIN a.nodes \ Free(a)
      /\ n + gap \notin DOMAIN h.nodes \ Free(h)
      /\ Size(a, n + gap) >= Guarded(dbg, size)
  <2>1. gap = Gap(n, align, Offset(dbg)) /\ n = Find(h, dbg, size, align) /\ n # Null
    BY DEF n
  <2> HIDE DEF gap
  <2> QED BY <1>1, <1>5, <2>1, AllocateLemma
<1>7. ptr = n + gap + Header + Offset(dbg)
  BY DEF Allocated, n
<1>8. ptr % align = 0
  <2>1. n \in Int /\ Offset(dbg) \in Int
    BY <1>2, <1>4
  <2> QED BY <1>7, <2>1, GapFacts
<1> HIDE DEF gap
<1>9. k = n + gap
  BY <1>2, <1>4, <1>6, <1>7, Numbers
<1>10. k # 0 /\ k \in Nat
  BY <1>4, <1>5, <1>6, <1>9
<1>11. a \in Heaps /\ Row(a, Null)
  BY <1>6 DEF Sound
<1>12. Next(a, k) <= HeapSize /\ Next(a, k) = k + 1 + Size(a, k) /\ Size(a, k) \in 1 .. HeapSize
  BY <1>6, <1>9, <1>11, HeapTypes, RowFacts
<1>13. Size(a, k) >= Guarded(dbg, size)
  BY <1>6, <1>9
<1>14. ptr \in Address /\ size \in 1 .. HeapSize
  <2>1. Size(a, k) >= Offset(dbg) + size
    BY <1>2, <1>12, <1>13
  <2>2. ptr = k + 1 + Offset(dbg)
    BY <1>2, <1>4, <1>6, <1>7, <1>9, Numbers
  <2>3. ptr \in Nat /\ ptr < HeapSize /\ size <= HeapSize
    BY <1>2, <1>10, <1>12, <2>1, <2>2, Numbers
  <2> QED BY <2>3, Numbers DEF Address
<1> QED BY <1>6, <1>8, <1>9, <1>10, <1>14
-----------------------------------------------------------------------------
(* Free *)

\* Two free nodes become one, which is in no list.
LEMMA JoinLemma ==
    ASSUME NEW h \in Heaps, Row(h, Null), NEW p \in Free(h), NEW n \in Free(h),
           n = Next(h, p), Listed(h, Free(h) \ {n, p}), NEW e, e = Next(h, n),
           NEW g, g = SetPrev(SetSize(Drop(h, n), p, e - p - Header), e, p)
    PROVE  /\ g \in Heaps /\ Row(g, Null) /\ DOMAIN g.nodes = DOMAIN h.nodes \ {n}
           /\ Free(g) = Free(h) \ {n} /\ Listed(g, Free(g) \ {p})
           /\ Next(g, p) = e /\ e > p
           /\ \A m \in DOMAIN h.nodes \ {n, p} : Size(g, m) = Size(h, m) /\ Next(g, m) = Next(h, m)
<1> DEFINE x == e - p - Header
           b == Drop(h, n)
           c == SetSize(b, p, x)
<1>1. /\ p \in DOMAIN h.nodes /\ n \in DOMAIN h.nodes /\ ~h.nodes[p].alloc
  BY DEF Free
<1>2. /\ p \in Nat /\ n \in Nat /\ e \in Nat /\ p < n /\ n < e /\ e <= HeapSize
      /\ HeapSize \in Nat /\ n = p + 1 + Size(h, p) /\ Size(h, p) \in 1 .. HeapSize
  BY <1>1, HeapTypes, RowFacts, Numbers
<1>3. x \in 1 .. HeapSize /\ p + 1 + x = e /\ p # n
  BY <1>2, Numbers
<1>4. g = SetPrev(c, e, p)
  OBVIOUS
<1> HIDE DEF x
<1>5. /\ b \in Heaps /\ Same(b, h) /\ DOMAIN b.nodes = DOMAIN h.nodes \ {n}
      /\ \A m \in DOMAIN h.nodes \ {n} : b.nodes[m] = h.nodes[m]
  BY DropFacts
<1> HIDE DEF b
<1>6. /\ c \in Heaps /\ Same(c, b) /\ DOMAIN c.nodes = DOMAIN b.nodes
      /\ c.nodes[p] = [prev |-> b.nodes[p].prev, size |-> x, alloc |-> b.nodes[p].alloc]
      /\ \A m \in DOMAIN b.nodes \ {p} : c.nodes[m] = b.nodes[m]
  <2>1. p \in DOMAIN b.nodes
    BY <1>1, <1>3, <1>5
  <2> QED BY <1>3, <1>5, <2>1, SetSizeFacts
<1> HIDE DEF c
<1>7. /\ Same(c, h) /\ DOMAIN c.nodes = DOMAIN h.nodes \ {n}
      /\ c.nodes[p].prev = h.nodes[p].prev /\ c.nodes[p].size = x /\ ~c.nodes[p].alloc
      /\ \A m \in DOMAIN h.nodes \ {n, p} : c.nodes[m] = h.nodes[m]
  BY <1>1, <1>3, <1>5, <1>6 DEF Same
<1>8. /\ Next(c, p) = e
      /\ \A m \in DOMAIN h.nodes \ {n, p} : Size(c, m) = Size(h, m) /\ Next(c, m) = Next(h, m)
  BY <1>3, <1>7, Numbers DEF Next, Size
<1>9. Row(c, e)
  BY <1>1, <1>6, <1>7, <1>8, RowJoin
<1>10. Free(c) = Free(h) \ {n} /\ Free(c) \ {p} = Free(h) \ {n, p}
  BY <1>1, <1>3, <1>7 DEF Free
<1>11. Listed(c, Free(h) \ {n, p})
  <2>1. \A m \in Free(h) \ {n, p} : c.nodes[m].size = h.nodes[m].size /\ m \in DOMAIN c.nodes
    BY <1>7 DEF Free
  <2> QED BY <1>7, <2>1, ListedFrame
<1>12. /\ g \in Heaps /\ Row(g, Null) /\ DOMAIN g.nodes = DOMAIN c.nodes
       /\ Free(g) = Free(c) /\ Listed(g, Free(h) \ {n, p})
       /\ \A m \in DOMAIN c.nodes : Size(g, m) = Size(c, m) /\ Next(g, m) = Next(c, m)
  <2>1. p \in DOMAIN c.nodes /\ Row(c, Next(c, p)) /\ g = SetPrev(c, Next(c, p), p)
    BY <1>1, <1>3, <1>4, <1>7, <1>8, <1>9
  <2> QED BY <1>6, <1>11, <2>1, Mended
<1>13. Next(g, p) = e /\ e > p
  BY <1>1, <1>2, <1>3, <1>7, <1>8, <1>12
<1>14. \A m \in DOMAIN h.nodes \ {n, p} : Size(g, m) = Size(h, m) /\ Next(g, m) = Next(h, m)
  BY <1>7, <1>8, <1>12
<1> QED BY <1>7, <1>10, <1>12, <1>13, <1>14

\* After a merge with the node in front, no free node is in front.
LEMMA MergePrevLemma ==
    ASSUME NEW h, NEW n, Loose(h, n, Null), n # 0,
           NEW g, NEW k, MergePrev(h, n) = [heap |-> g, node |-> k]
    PROVE  /\ Loose(g, k, Null) /\ k # 0 /\ Kept(g, h, Null)
           /\ \A m \in Free(g) : Next(g, m) # k
<1> DEFINE p == h.nodes[n].prev
           e == Next(h, n)
<1>1. /\ h \in Heaps /\ n \in DOMAIN h.nodes /\ n \in Free(h) /\ Row(h, Null)
      /\ Apart(h, n) /\ Listed(h, Free(h) \ {n}) /\ Free(h) \subseteq DOMAIN h.nodes
  BY DEF Loose, Free
<1>2. \A m \in DOMAIN h.nodes : m # Null /\ m \in Nat /\ Size(h, m) \in Int /\ Next(h, m) > m
  BY <1>1, HeapTypes, Numbers
<1>3. p \in DOMAIN h.nodes /\ Next(h, p) = n /\ p # n
  <2>1. n # Null
    BY <1>1, <1>2
  <2>2. p \in DOMAIN h.nodes /\ Next(h, p) = n
    BY <1>1, <2>1 DEF Row
  <2>3. p # n
    BY <1>1, <1>2, <2>2
  <2> QED BY <2>2, <2>3
<1>4. CASE ~h.nodes[p].alloc
  <2> DEFINE u == Unlink(h, p)
  <2>1. p \in Free(h) \ {n}
    BY <1>3, <1>4 DEF Free
  <2>2. g = SetPrev(SetSize(Drop(u, n), p, e - p - Header), e, p) /\ k = p
    <3> DEFINE w == SetPrev(SetSize(Drop(u, n), p, e - p - Header), e, p)
    <3>1. MergePrev(h, n) = [heap |-> w, node |-> p]
      BY <1>2, <1>3, <1>4, Zenon DEF MergePrev
    <3> HIDE DEF w
    <3>2. [heap |-> w, node |-> p] = [heap |-> g, node |-> k]
      BY <3>1
    <3>3. w = g /\ p = k
      BY <3>2
    <3> QED BY <3>3 DEF w
  <2>3. u \in Heaps /\ u.nodes = h.nodes /\ Listed(u, (Free(h) \ {n}) \ {p})
    BY <1>1, <2>1, RowUnlink
  <2> HIDE DEF u, p, e
  <2>4. /\ Row(u, Null) /\ Free(u) = Free(h)
        /\ \A m : Size(u, m) = Size(h, m) /\ Next(u, m) = Next(h, m)
    BY <1>1, <2>3, RowFrame
  <2>5. /\ g \in Heaps /\ Row(g, Null) /\ DOMAIN g.nodes = DOMAIN h.nodes \ {n}
        /\ Free(g) = Free(h) \ {n} /\ Listed(g, Free(g) \ {p})
        /\ Next(g, p) = e /\ e > p
        /\ \A m \in DOMAIN h.nodes \ {n, p} : Size(g, m) = Size(h, m) /\ Next(g, m) = Next(h, m)
    <3>1. (Free(h) \ {n}) \ {p} = Free(h) \ {n, p}
      OBVIOUS
    <3>2. p \in Free(u) /\ n \in Free(u) /\ n = Next(u, p) /\ Listed(u, Free(u) \ {n, p})
          /\ e = Next(u, n)
      BY <1>1, <1>3, <2>1, <2>3, <2>4, <3>1 DEF e
    <3>3. /\ g \in Heaps /\ Row(g, Null) /\ DOMAIN g.nodes = DOMAIN u.nodes \ {n}
          /\ Free(g) = Free(u) \ {n} /\ Listed(g, Free(g) \ {p})
          /\ Next(g, p) = e /\ e > p
          /\ \A m \in DOMAIN u.nodes \ {n, p} : Size(g, m) = Size(u, m) /\ Next(g, m) = Next(u, m)
      BY <2>2, <2>3, <2>4, <3>2, JoinLemma
    <3> QED BY <2>3, <2>4, <3>3
  <2>6. \A m \in Free(h) \ {n} : m # 0 /\ Next(h, m) \notin Free(h) \ {n}
    BY <1>1 DEF Apart
  <2>7. Apart(g, p)
    <3>1. ASSUME NEW m \in Free(g) \ {p} PROVE m # 0 /\ Next(g, m) \notin Free(g) \ {p}
      <4>1. m \in DOMAIN h.nodes \ {n, p} /\ m \in Free(h) \ {n}
        BY <1>1, <2>5, <3>1
      <4> QED BY <2>5, <2>6, <4>1
    <3> QED BY <3>1 DEF Apart
  <2>8. \A m \in Free(g) : Next(g, m) # p
    <3> TAKE m \in Free(g)
    <3>1. CASE m = p
      BY <1>2, <1>3, <2>5, <3>1
    <3>2. CASE m # p
      <4>1. m \in DOMAIN h.nodes \ {n, p} /\ m \in Free(h) \ {n}
        BY <1>1, <2>5, <3>2
      <4> QED BY <2>1, <2>5, <2>6, <4>1
    <3> QED BY <3>1, <3>2
  <2>9. Loose(g, p, Null) /\ p # 0
    BY <2>1, <2>5, <2>6, <2>7 DEF Loose
  <2>10. Kept(g, h, Null)
    <3>1. ASSUME NEW m \in DOMAIN h.nodes \ Free(h)
          PROVE  m \in DOMAIN g.nodes \ Free(g) /\ Size(g, m) >= Size(h, m)
      <4>1. m \in DOMAIN h.nodes \ {n, p} /\ Size(h, m) \in Int
        BY <1>1, <1>2, <2>1
      <4> QED BY <2>5, <4>1
    <3> QED BY <3>1 DEF Kept
  <2> QED BY <2>2, <2>8, <2>9, <2>10
<1>5. CASE h.nodes[p].alloc
  <2>1. g = h /\ k = n
    <3>1. MergePrev(h, n) = [heap |-> h, node |-> n]
      BY <1>5, Zenon DEF MergePrev
    <3>2. \A x, y, v, w : [heap |-> x, node |-> y] = [heap |-> v, node |-> w] => x = v /\ y = w
      OBVIOUS
    <3> QED BY <3>1, <3>2, Zenon
  <2>2. \A m \in Free(h) : Next(h, m) # n
    <3> SUFFICES ASSUME NEW m \in Free(h), Next(h, m) = n PROVE FALSE
      OBVIOUS
    <3>1. m \in DOMAIN h.nodes /\ m # p
      BY <1>5 DEF Free
    <3> QED BY <1>1, <1>3, <3>1, RowFacts
  <2>3. Kept(h, h, Null)
    <3>1. \A m \in DOMAIN h.nodes : Size(h, m) >= Size(h, m)
      BY <1>2
    <3> QED BY <3>1 DEF Kept
  <2> QED BY <2>1, <2>2, <2>3
<1> QED BY <1>4, <1>5

\* After a merge with the node behind, no free node is behind.
LEMMA MergeNextLemma ==
    ASSUME NEW h, NEW n, Loose(h, n, Null), \A m \in Free(h) : Next(h, m) # n,
           NEW g, g = MergeNext(h, n)
    PROVE  /\ Loose(g, n, Null) /\ Kept(g, h, Null)
           /\ \A m \in Free(g) : Next(g, m) # n
           /\ Next(g, n) \notin Free(g)
<1> DEFINE x == Next(h, n)
           e == Next(h, x)
<1>1. /\ h \in Heaps /\ n \in DOMAIN h.nodes /\ n \in Free(h) /\ Row(h, Null)
      /\ Apart(h, n) /\ Listed(h, Free(h) \ {n}) /\ Free(h) \subseteq DOMAIN h.nodes
  BY DEF Loose, Free
<1>2. \A m \in DOMAIN h.nodes : /\ m \in Nat /\ m < HeapSize /\ Size(h, m) \in Int
                                /\ Next(h, m) \in Nat /\ Next(h, m) > m
  BY <1>1, HeapTypes, Numbers DEF Address
<1>3. x \in DOMAIN h.nodes \cup {HeapSize} /\ x # n
  BY <1>1, <1>2 DEF Row
<1>4. CASE x < HeapSize /\ ~h.nodes[x].alloc
  <2> DEFINE u == Unlink(h, x)
  <2>1. x \in Free(h) \ {n}
    BY <1>3, <1>4, Numbers DEF Free
  <2>2. g = SetPrev(SetSize(Drop(u, x), n, e - n - Header), e, n)
    BY <1>4, Zenon DEF MergeNext
  <2>3. u \in Heaps /\ u.nodes = h.nodes /\ Listed(u, (Free(h) \ {n}) \ {x})
    <3> HIDE DEF x
    <3> QED BY <1>1, <2>1, RowUnlink
  <2> HIDE DEF u, x, e
  <2>4. /\ Row(u, Null) /\ Free(u) = Free(h)
        /\ \A m : Size(u, m) = Size(h, m) /\ Next(u, m) = Next(h, m)
    BY <1>1, <2>3, RowFrame
  <2>5. /\ g \in Heaps /\ Row(g, Null) /\ DOMAIN g.nodes = DOMAIN h.nodes \ {x}
        /\ Free(g) = Free(h) \ {x} /\ Listed(g, Free(g) \ {n})
        /\ Next(g, n) = e /\ e > n
        /\ \A m \in DOMAIN h.nodes \ {x, n} : Size(g, m) = Size(h, m) /\ Next(g, m) = Next(h, m)
    <3>1. (Free(h) \ {n}) \ {x} = Free(h) \ {x, n}
      OBVIOUS
    <3>2. x \in Free(u) /\ n \in Free(u) /\ x = Next(u, n) /\ Listed(u, Free(u) \ {x, n})
          /\ e = Next(u, x)
      BY <1>1, <2>1, <2>3, <2>4, <3>1 DEF e, x
    <3>3. /\ g \in Heaps /\ Row(g, Null) /\ DOMAIN g.nodes = DOMAIN u.nodes \ {x}
          /\ Free(g) = Free(u) \ {x} /\ Listed(g, Free(g) \ {n})
          /\ Next(g, n) = e /\ e > n
          /\ \A m \in DOMAIN u.nodes \ {x, n} : Size(g, m) = Size(u, m) /\ Next(g, m) = Next(u, m)
      BY <2>2, <2>3, <2>4, <3>2, JoinLemma
    <3> QED BY <2>3, <2>4, <3>3
  <2>6. \A m \in Free(h) \ {n} : m # 0 /\ Next(h, m) \notin Free(h) \ {n}
    BY <1>1 DEF Apart
  <2>7. Apart(g, n)
    <3>1. ASSUME NEW m \in Free(g) \ {n} PROVE m # 0 /\ Next(g, m) \notin Free(g) \ {n}
      <4>1. m \in DOMAIN h.nodes \ {x, n} /\ m \in Free(h) \ {n}
        BY <1>1, <2>5, <3>1
      <4> QED BY <2>5, <2>6, <4>1
    <3> QED BY <3>1 DEF Apart
  <2>8. \A m \in Free(g) : Next(g, m) # n
    <3> TAKE m \in Free(g)
    <3>1. CASE m = n
      BY <1>1, <1>2, <2>5, <3>1
    <3>2. CASE m # n
      <4>1. m \in DOMAIN h.nodes \ {x, n} /\ m \in Free(h)
        BY <1>1, <2>5, <3>2
      <4> QED BY <2>5, <4>1
    <3> QED BY <3>1, <3>2
  <2>9. Loose(g, n, Null)
    BY <1>1, <2>1, <2>5, <2>7 DEF Loose
  <2>10. Next(g, n) \notin Free(g)
    <3>1. e \notin Free(h) \ {n}
      BY <2>1, <2>6 DEF e
    <3>2. e # n
      BY <1>1, <1>2, <2>5
    <3> QED BY <2>5, <3>1, <3>2
  <2>11. Kept(g, h, Null)
    <3>1. ASSUME NEW m \in DOMAIN h.nodes \ Free(h)
          PROVE  m \in DOMAIN g.nodes \ Free(g) /\ Size(g, m) >= Size(h, m)
      <4>1. m \in DOMAIN h.nodes \ {x, n} /\ Size(h, m) \in Int
        BY <1>1, <1>2, <2>1
      <4> QED BY <2>5, <4>1
    <3> QED BY <3>1 DEF Kept
  <2> QED BY <2>8, <2>9, <2>10, <2>11
<1>5. CASE ~(x < HeapSize /\ ~h.nodes[x].alloc)
  <2>1. g = h
    BY <1>5, Zenon DEF MergeNext
  <2>2. x \notin Free(h)
    BY <1>2, <1>5 DEF Free
  <2>3. Kept(h, h, Null)
    <3>1. \A m \in DOMAIN h.nodes : Size(h, m) >= Size(h, m)
      BY <1>2
    <3> QED BY <3>1 DEF Kept
  <2> QED BY <2>1, <2>2, <2>3
<1> QED BY <1>4, <1>5

\* A block given back to a sound heap leaves it sound and the others alone.
LEMMA ReleaseSound ==
    ASSUME NEW h, Sound(h), NEW n \in DOMAIN h.nodes \ Free(h), n # 0
    PROVE  Sound(Release(h, n)) /\ Kept(Release(h, n), h, n)
<1> DEFINE b == SetAllocated(h, n, FALSE)
           r == MergePrev(b, n)
           c == r.heap
           k == r.node
           d == MergeNext(c, k)
           g == Link(d, k)
<1>1. h \in Heaps /\ Row(h, Null) /\ Apart(h, Null) /\ Listed(h, Free(h))
  BY DEF Sound
<1>2. /\ b \in Heaps /\ DOMAIN b.nodes = DOMAIN h.nodes /\ Free(b) = Free(h) \cup {n}
      /\ \A m \in DOMAIN h.nodes : Size(b, m) = Size(h, m) /\ Next(b, m) = Next(h, m)
      /\ Row(b, Null) /\ Listed(b, Free(h))
  <2>1. b = SetAllocated(h, n, FALSE)
    OBVIOUS
  <2> HIDE DEF b
  <2>2. Marks(b, h, n, FALSE)
    BY <1>1, <2>1, Marked
  <2> QED BY <1>1, <2>2 DEF Marks
<1>3. \A m \in Free(h) : m # Null /\ m \in DOMAIN h.nodes
  <2>1. Free(h) \subseteq DOMAIN h.nodes
    BY DEF Free
  <2> QED BY <1>1, <2>1, HeapTypes, Numbers
<1>4. Loose(b, n, Null)
  <2>1. Free(b) \ {n} = Free(h)
    BY <1>2
  <2>2. Apart(b, n)
    BY <1>1, <1>2, <1>3, <2>1 DEF Apart
  <2> QED BY <1>2, <2>1, <2>2 DEF Loose
<1>5. g = Release(h, n)
  BY DEF Release
<1>6. r = [heap |-> c, node |-> k]
  <2>1. r = IF b.nodes[n].prev # Null /\ ~b.nodes[b.nodes[n].prev].alloc
            THEN [heap |-> SetPrev(SetSize(Drop(Unlink(b, b.nodes[n].prev), n), b.nodes[n].prev,
                                           Next(b, n) - b.nodes[n].prev - Header),
                                   Next(b, n), b.nodes[n].prev),
                  node |-> b.nodes[n].prev]
            ELSE [heap |-> b, node |-> n]
    BY Zenon DEF MergePrev
  <2>2. \A x, y : [heap |-> x, node |-> y].heap = x /\ [heap |-> x, node |-> y].node = y
    OBVIOUS
  <2> HIDE DEF b, r
  <2>3. \E x, y : r = [heap |-> x, node |-> y]
    BY <2>1, Zenon
  <2>4. PICK x, y : r = [heap |-> x, node |-> y]
    BY <2>3
  <2>5. r.heap = x /\ r.node = y
    BY <2>4
  <2> QED BY <2>4, <2>5
<1> HIDE DEF b, r, c, k, d, g
<1>7. /\ Loose(c, k, Null) /\ k # 0 /\ Kept(c, b, Null) /\ \A m \in Free(c) : Next(c, m) # k
  <2>1. MergePrev(b, n) = [heap |-> c, node |-> k]
    BY <1>6 DEF r
  <2> QED BY <1>4, <2>1, MergePrevLemma
<1>8. /\ Loose(d, k, Null) /\ Kept(d, c, Null)
      /\ (\A m \in Free(d) : Next(d, m) # k) /\ Next(d, k) \notin Free(d)
  BY <1>7, MergeNextLemma DEF d
<1>9. /\ d \in Heaps /\ k \in Free(d) /\ Row(d, Null) /\ Apart(d, k)
      /\ Listed(d, Free(d) \ {k}) /\ k \in DOMAIN d.nodes
  BY <1>8 DEF Loose, Free
<1>10. g \in Heaps /\ g.nodes = d.nodes /\ Listed(g, Free(d))
  <2>1. k \in DOMAIN d.nodes \ (Free(d) \ {k}) /\ (Free(d) \ {k}) \cup {k} = Free(d)
    BY <1>9
  <2> QED BY <1>9, <2>1, RowLink DEF g
<1>11. /\ Row(g, Null) /\ Free(g) = Free(d)
       /\ \A m : Size(g, m) = Size(d, m) /\ Next(g, m) = Next(d, m)
  BY <1>9, <1>10, RowFrame
<1>12. Apart(g, Null)
  <2>1. ASSUME NEW m \in Free(d) PROVE m # 0 /\ Next(d, m) \notin Free(d)
    BY <1>7, <1>8, <1>9 DEF Apart
  <2> QED BY <1>11, <2>1 DEF Apart
<1>13. Sound(g)
  BY <1>10, <1>11, <1>12 DEF Sound
<1>14. Kept(g, h, n)
  <2>1. ASSUME NEW m \in DOMAIN h.nodes \ Free(h), m # n
        PROVE  m \in DOMAIN g.nodes \ Free(g) /\ Size(g, m) >= Size(h, m)
    <3>0. m # Null
      BY <1>1, HeapTypes, Numbers
    <3>1. m \in DOMAIN b.nodes \ Free(b) /\ Size(b, m) = Size(h, m) /\ Size(h, m) \in Int
      BY <1>1, <1>2, <2>1, HeapTypes
    <3>2. m \in DOMAIN c.nodes \ Free(c) /\ Size(c, m) >= Size(b, m)
      BY <1>7, <3>0, <3>1 DEF Kept
    <3>3. m \in DOMAIN d.nodes \ Free(d) /\ Size(d, m) >= Size(c, m)
      BY <1>8, <3>0, <3>2 DEF Kept
    <3>4. Size(c, m) \in Int /\ Size(d, m) \in Int
      <4>1. c \in Heaps
        BY <1>7 DEF Loose
      <4> QED BY <1>9, <3>2, <3>3, <4>1, HeapTypes
    <3>5. m \in DOMAIN g.nodes \ Free(g) /\ Size(g, m) = Size(d, m)
      BY <1>10, <1>11, <3>3
    <3> QED BY <3>1, <3>2, <3>3, <3>4, <3>5
  <2> QED BY <2>1 DEF Kept
<1> QED BY <1>5, <1>13, <1>14
-----------------------------------------------------------------------------
(* The invariant *)

\* The heap before the first allocation is one free node.
LEMMA WholeFacts ==
    /\ WholeHeap \in Heaps /\ Row(WholeHeap, Null) /\ Free(WholeHeap) = {0}
    /\ Listed(WholeHeap, {0}) /\ Next(WholeHeap, 0) = HeapSize
    /\ Apart(WholeHeap, 0)
<1> DEFINE x == HeapSize - Header
           b == [NoHeap EXCEPT !.used = HeapSize]
           c == Put(b, 0, Node(Null, x))
<1>1. /\ HeapSize \in Nat /\ 0 \in Address /\ x \in 1 .. HeapSize /\ 0 + 1 + x = HeapSize
      /\ Header = 1
  BY Numbers DEF Address
<1>2. WholeHeap = Link(c, 0)
  BY DEF WholeHeap
<1> HIDE DEF x
<1>3. b = [nodes |-> <<>>, buckets |-> [i \in Buckets |-> <<>>], live |-> {}, used |-> HeapSize]
  <2>1. \A n, f, l, u, v : [[nodes |-> n, buckets |-> f, live |-> l, used |-> u] EXCEPT !.used = v]
                              = [nodes |-> n, buckets |-> f, live |-> l, used |-> v]
    OBVIOUS
  <2>2. \A n, f : [[nodes |-> n, buckets |-> f, live |-> {}, used |-> 0] EXCEPT !.used = HeapSize]
                     = [nodes |-> n, buckets |-> f, live |-> {}, used |-> HeapSize]
    BY <2>1
  <2>3. [[nodes |-> <<>>, buckets |-> [i \in Buckets |-> <<>>], live |-> {}, used |-> 0]
           EXCEPT !.used = HeapSize]
           = [nodes |-> <<>>, buckets |-> [i \in Buckets |-> <<>>], live |-> {}, used |-> HeapSize]
    BY <2>2, Zenon
  <2> QED BY <2>3, Zenon DEF NoHeap
<1>4. /\ b.nodes = <<>> /\ b.buckets = [i \in Buckets |-> <<>>] /\ b.live = {}
      /\ b.used = HeapSize
  BY <1>3
<1>5. b \in Heaps
  <2>1. <<>> \in NodeMaps
    <3>1. <<>> \in [{} -> NodeRec] /\ {} \in SUBSET Address
      OBVIOUS
    <3> QED BY <3>1 DEF NodeMaps
  <2>2. [i \in Buckets |-> <<>>] \in [Buckets -> Seq(Address)]
    OBVIOUS
  <2>3. {} \in SUBSET Buckets /\ HeapSize \in Int
    BY <1>1
  <2> QED BY <1>3, <2>1, <2>2, <2>3 DEF Heaps
<1> HIDE DEF b
<1>6. Listed(b, {})
  <2>1. Rest(b, {}) = Address
    BY DEF Rest
  <2>2. b.used = Cardinality(Rest(b, {}))
    BY <1>4, <2>1, Numbers
  <2>3. ASSUME NEW i \in Buckets
        PROVE  b.buckets[i] = <<>> /\ ToSet(b.buckets[i]) = {} /\ IsInjective(b.buckets[i])
    <3>1. b.buckets[i] = <<>>
      BY <1>4
    <3>2. DOMAIN <<>> = {}
      OBVIOUS
    <3> QED BY <3>1, <3>2 DEF ToSet, IsInjective
  <2> QED BY <1>4, <2>2, <2>3 DEF Listed
<1>7. Node(Null, x) \in NodeRec
  BY <1>1 DEF Node, NodeRec
<1>8. /\ c \in Heaps /\ Same(c, b) /\ DOMAIN c.nodes = {0} /\ c.nodes[0] = Node(Null, x)
  <2>1. DOMAIN b.nodes = {}
    BY <1>4
  <2> QED BY <1>1, <1>5, <1>7, <2>1, PutFacts
<1> HIDE DEF c
<1>9. Listed(c, {})
  BY <1>6, <1>8, ListedFrame
<1>10. Free(c) = {0} /\ Next(c, 0) = HeapSize /\ c.nodes[0].prev = Null
  BY <1>1, <1>8 DEF Free, Next, Size, Node
<1>11. Row(c, Null)
  BY <1>1, <1>8, <1>10 DEF Row
<1>12. Apart(c, 0)
  BY <1>10 DEF Apart
<1>13. WholeHeap \in Heaps /\ WholeHeap.nodes = c.nodes /\ Listed(WholeHeap, {} \cup {0})
  <2>1. 0 \in DOMAIN c.nodes \ {}
    BY <1>8
  <2> QED BY <1>2, <1>8, <1>9, <1>11, <2>1, RowLink
<1>14. /\ Row(WholeHeap, Null) /\ Free(WholeHeap) = {0} /\ Apart(WholeHeap, 0)
       /\ Next(WholeHeap, 0) = HeapSize
  BY <1>10, <1>11, <1>12, <1>13, RowFrame
<1> QED BY <1>13, <1>14

\* A block is not touched by what leaves its node in use.
LEMMA BlockKept ==
    ASSUME NEW h \in Heaps, NEW g \in Heaps, NEW dbg \in BOOLEAN, NEW b, BlockInv(h, dbg, b),
           NEW k, Kept(g, h, k), NodeAt(dbg, b.ptr) # k
    PROVE  BlockInv(g, dbg, b)
<1> DEFINE n == NodeAt(dbg, b.ptr)
<1>1. n \in DOMAIN h.nodes \ Free(h) /\ n # k
  BY DEF BlockInv
<1>2. n \in DOMAIN g.nodes \ Free(g) /\ Size(g, n) >= Size(h, n)
  BY <1>1 DEF Kept
<1>3. Size(g, n) \in Int /\ Size(h, n) \in Int
  BY <1>1, <1>2, HeapTypes
<1>4. Size(h, n) >= Guarded(dbg, b.size) /\ Guarded(dbg, b.size) \in Int
  <2>1. b.size \in Nat \ {0}
    BY Numbers DEF BlockInv
  <2> QED BY <2>1, GuardFacts DEF BlockInv
<1>5. Size(g, n) >= Guarded(dbg, b.size)
  BY <1>2, <1>3, <1>4
<1> QED BY <1>2, <1>5 DEF BlockInv

\* Two blocks of one node are one.
LEMMA NodeAtIs ==
    ASSUME NEW dbg \in BOOLEAN, NEW p \in Address
    PROVE  /\ NodeAt(dbg, p) \in Int
           /\ \A q \in Address : NodeAt(dbg, p) = NodeAt(dbg, q) => p = q
<1>1. Offset(dbg) \in Nat
  BY Numbers DEF Offset
<1>2. \A q \in Address : q \in Int
  BY Numbers DEF Address
<1> QED BY <1>1, <1>2, Numbers DEF NodeAt

LEMMA AllocateStep ==
    ASSUME IInv, status = "up", NEW size \in Nat \ {0}, NEW align \in Nat \ {0},
           Find(heap, debug, size, align) # Null,
           NEW a, a = Allocate(heap, debug, size, align),
           NEW ptr, ptr = Allocated(heap, debug, size, align),
           NEW B, B = blocks \cup {Block(ptr, size, align)}
    PROVE  /\ Sound(a) /\ Kept(a, heap, Null) /\ ptr \in Address
           /\ \A b \in B : BlockInv(a, debug, b)
           /\ \A b, c \in B : b.ptr = c.ptr => b = c
<1> DEFINE k == NodeAt(debug, ptr)
           new == Block(ptr, size, align)
<1>1. /\ Sound(heap) /\ debug \in BOOLEAN
      /\ \A b \in blocks : BlockInv(heap, debug, b)
      /\ \A b, c \in blocks : b.ptr = c.ptr => b = c
  BY DEF IInv
<1>2. /\ Sound(a) /\ Kept(a, heap, Null)
      /\ ptr \in Address /\ ptr % align = 0 /\ size \in 1 .. HeapSize
      /\ k \in DOMAIN a.nodes \ Free(a) /\ k # 0
      /\ k \notin DOMAIN heap.nodes \ Free(heap)
      /\ Size(a, k) >= Guarded(debug, size)
  <2>1. k = ptr - Header - Offset(debug)
    BY DEF NodeAt
  <2> HIDE DEF k
  <2> QED BY <1>1, <2>1, AllocateSound
<1>3. new.ptr = ptr /\ new.size = size /\ new.align = align
  BY DEF Block
<1>4. B = blocks \cup {new}
  OBVIOUS
<1> HIDE DEF new
<1>5. BlockInv(a, debug, new)
  BY <1>2, <1>3 DEF BlockInv
<1>6. ASSUME NEW b \in blocks PROVE BlockInv(a, debug, b) /\ b.ptr # ptr
  <2>1. BlockInv(heap, debug, b)
    BY <1>1
  <2>2. heap \in Heaps /\ a \in Heaps
    BY <1>1, <1>2 DEF Sound
  <2>3. NodeAt(debug, b.ptr) \in DOMAIN heap.nodes \ Free(heap)
    BY <2>1 DEF BlockInv
  <2>4. NodeAt(debug, b.ptr) # Null
    BY <2>2, <2>3, HeapTypes, Numbers
  <2> HIDE DEF k
  <2>5. BlockInv(a, debug, b)
    BY <1>1, <1>2, <2>1, <2>2, <2>4, BlockKept
  <2>6. b.ptr # ptr
    BY <1>2, <2>3 DEF k
  <2> QED BY <2>5, <2>6
<1>7. \A b \in B : BlockInv(a, debug, b)
  BY <1>4, <1>5, <1>6
<1>8. \A b, c \in B : b.ptr = c.ptr => b = c
  BY <1>1, <1>3, <1>4, <1>6
<1> QED BY <1>2, <1>7, <1>8

LEMMA ReleaseStep ==
    ASSUME IInv, NEW b \in blocks, NEW g, g = Release(heap, NodeOf(b.ptr))
    PROVE  /\ status = "up" /\ Sound(g) /\ Kept(g, heap, NodeOf(b.ptr))
           /\ \A c \in blocks \ {b} : NodeOf(c.ptr) # NodeOf(b.ptr) /\ BlockInv(g, debug, c)
<1> DEFINE n == NodeAt(debug, b.ptr)
<1>1. /\ status = "up" /\ Sound(heap) /\ debug \in BOOLEAN
      /\ \A c \in blocks : BlockInv(heap, debug, c)
      /\ \A c \in blocks : b.ptr = c.ptr => b = c
  BY DEF IInv
<1>2. \A ptr : NodeOf(ptr) = NodeAt(debug, ptr)
  BY DEF NodeOf, NodeAt
<1>3. n \in DOMAIN heap.nodes \ Free(heap) /\ n # 0 /\ b.ptr \in Address
  BY <1>1 DEF BlockInv
<1>4. g = Release(heap, n)
  BY <1>2
<1> HIDE DEF n
<1>5. Sound(g) /\ Kept(g, heap, n)
  BY <1>1, <1>3, <1>4, ReleaseSound
<1>6. ASSUME NEW c \in blocks \ {b} PROVE NodeAt(debug, c.ptr) # n /\ BlockInv(g, debug, c)
  <2>1. BlockInv(heap, debug, c) /\ c.ptr # b.ptr /\ c.ptr \in Address
    BY <1>1 DEF BlockInv
  <2>2. NodeAt(debug, c.ptr) # n
    BY <1>1, <1>3, <2>1, NodeAtIs DEF n
  <2>3. heap \in Heaps /\ g \in Heaps
    BY <1>1, <1>5 DEF Sound
  <2> QED BY <1>1, <1>5, <2>1, <2>2, <2>3, BlockKept
<1> QED BY <1>1, <1>2, <1>5, <1>6 DEF n

\* What an operation keeps of the heap leaves the blocks where they are.
StayPut ==
    \A b \in blocks \cap blocks' :
       /\ NodeOf(b.ptr) \in DOMAIN heap'.nodes
       /\ heap'.nodes[NodeOf(b.ptr)].alloc
       /\ Size(heap', NodeOf(b.ptr)) >= Size(heap, NodeOf(b.ptr))

LEMMA KeptStaysPut ==
    ASSUME IInv, NEW k, Kept(heap', heap, k),
           \A b \in blocks \cap blocks' : NodeOf(b.ptr) # k
    PROVE  StayPut
<1> SUFFICES ASSUME NEW b \in blocks \cap blocks'
             PROVE  /\ NodeOf(b.ptr) \in DOMAIN heap'.nodes
                    /\ heap'.nodes[NodeOf(b.ptr)].alloc
                    /\ Size(heap', NodeOf(b.ptr)) >= Size(heap, NodeOf(b.ptr))
  BY DEF StayPut
<1> DEFINE n == NodeOf(b.ptr)
<1>1. n \in DOMAIN heap.nodes \ Free(heap) /\ n # k
  BY DEF IInv, BlockInv, NodeAt, NodeOf
<1>2. n \in DOMAIN heap'.nodes \ Free(heap') /\ Size(heap', n) >= Size(heap, n)
  <2> HIDE DEF n
  <2> QED BY <1>1 DEF Kept
<1> HIDE DEF n
<1>3. n \in DOMAIN heap'.nodes /\ heap'.nodes[n].alloc
  BY <1>2 DEF Free
<1> QED BY <1>2, <1>3 DEF n

LEMMA StartKeeps ==
    ASSUME IInv, Start
    PROVE  IInv' /\ StayPut
<1>1. /\ status = "down" /\ status' = "up" /\ debug' = debug /\ blocks' = blocks
      /\ moving' = moving /\ debug \in BOOLEAN /\ blocks = {} /\ moving = NoMove
      /\ heap' = Allocate(WholeHeap, debug, 1, 1)
      /\ Find(WholeHeap, debug, 1, 1) # Null
  BY DEF IInv, Start
<1> DEFINE n == Find(WholeHeap, debug, 1, 1)
           gap == Gap(n, 1, Offset(debug))
           a == Allocate(WholeHeap, debug, 1, 1)
<1>2. Offset(debug) \in Nat /\ Guarded(debug, 1) \in Nat
  BY <1>1, GuardFacts
<1>3. n = 0
  <2>1. n = FindFreeNode(WholeHeap, Guarded(debug, 1), 1, Offset(debug))
    BY DEF Find
  <2>2. n \in {0}
    BY <1>1, <1>2, <2>1, WholeFacts, FoundFits
  <2> QED BY <2>2
<1>4. Sound(a)
  <2>1. /\ n = Find(WholeHeap, debug, 1, 1) /\ n # Null /\ gap = Gap(n, 1, Offset(debug))
        /\ a = Allocate(WholeHeap, debug, 1, 1)
    BY <1>1
  <2> HIDE DEF n, gap, a
  <2>2. gap = 0
    <3>1. n \in Int /\ Offset(debug) \in Int /\ 1 \in Nat \ {0}
      BY <1>2, <1>3
    <3>2. gap \in 0 .. 1 - 1
      BY <2>1, <3>1, GapFacts
    <3> QED BY <3>2
  <2>3. /\ Apart(WholeHeap, n) /\ Next(WholeHeap, n) \notin Free(WholeHeap)
        /\ \A m \in Free(WholeHeap) : Next(WholeHeap, m) # n
    BY <1>3, WholeFacts, Numbers
  <2>4. Listed(WholeHeap, Free(WholeHeap)) /\ WholeHeap \in Heaps /\ Row(WholeHeap, Null)
    BY WholeFacts
  <2>5. 1 \in Nat \ {0}
    OBVIOUS
  <2> QED BY <1>1, <2>1, <2>2, <2>3, <2>4, <2>5, AllocateLemma
<1>5. Sound(heap')
  BY <1>1, <1>4
<1>6. StayPut
  BY <1>1 DEF StayPut
<1> HIDE DEF n, gap, a
<1> QED BY <1>1, <1>5, <1>6 DEF IInv

LEMMA KillKeeps ==
    ASSUME IInv, Kill
    PROVE  IInv' /\ StayPut
<1>1. /\ status' = "down" /\ debug' \in BOOLEAN /\ heap' = NoHeap /\ blocks' = {}
      /\ moving' = NoMove
  BY DEF Kill
<1>2. IInv'
  BY <1>1 DEF IInv
<1>3. StayPut
  BY <1>1 DEF StayPut
<1> QED BY <1>2, <1>3

LEMMA MallocKeeps ==
    ASSUME IInv, NEW size \in Sizes, NEW align \in Aligns, Malloc(size, align)
    PROVE  IInv' /\ StayPut
<1> DEFINE a == Allocate(heap, debug, size, align)
           ptr == Allocated(heap, debug, size, align)
           B == blocks \cup {Block(ptr, size, align)}
<1>1. /\ status = "up" /\ status' = status /\ debug' = debug /\ moving' = moving
      /\ heap' = a /\ blocks' = B /\ Find(heap, debug, size, align) # Null
  BY DEF Malloc, Fits
<1>2. size \in Nat \ {0} /\ align \in Nat \ {0}
  BY AllocatorAssumption
<1>3. /\ Sound(a) /\ Kept(a, heap, Null) /\ ptr \in Address
      /\ \A b \in B : BlockInv(a, debug, b)
      /\ \A b, c \in B : b.ptr = c.ptr => b = c
  BY <1>1, <1>2, AllocateStep
<1>4. blocks \subseteq B
  OBVIOUS
<1> HIDE DEF a, ptr, B
<1>5. IInv'
  BY <1>1, <1>3, <1>4 DEF IInv
<1>6. StayPut
  <2>1. \A b \in blocks : NodeOf(b.ptr) # Null
    <3> TAKE b \in blocks
    <3>1. heap \in Heaps /\ NodeOf(b.ptr) \in DOMAIN heap.nodes
      BY <1>1 DEF IInv, Sound, BlockInv, NodeAt, NodeOf
    <3> QED BY <3>1, HeapTypes, Numbers
  <2>2. Kept(heap', heap, Null)
    BY <1>1, <1>3
  <2> QED BY <2>1, <2>2, KeptStaysPut
<1> QED BY <1>5, <1>6

LEMMA FreeKeeps ==
    ASSUME IInv, NEW b \in blocks, FreeBlock(b)
    PROVE  IInv' /\ StayPut
<1> DEFINE n == NodeOf(b.ptr)
           g == Release(heap, n)
<1>1. /\ status' = status /\ debug' = debug /\ moving' = moving
      /\ heap' = g /\ blocks' = blocks \ {b} /\ b.ptr # moving.old
  BY DEF FreeBlock, Held
<1>2. /\ status = "up" /\ Sound(g) /\ Kept(g, heap, n)
      /\ \A c \in blocks \ {b} : NodeOf(c.ptr) # n /\ BlockInv(g, debug, c)
  BY ReleaseStep
<1> HIDE DEF n, g
<1>3. /\ \A c, d \in blocks' : c.ptr = d.ptr => c = d
      /\ \A c \in blocks' : BlockInv(heap', debug', c)
  BY <1>1, <1>2 DEF IInv
<1>4. moving' = NoMove \/ /\ moving' \in [old : Address, new : Address]
                          /\ \E c \in blocks' : c.ptr = moving'.old
  <2>1. CASE moving = NoMove
    BY <1>1, <2>1
  <2>2. CASE moving # NoMove
    <3>1. PICK c \in blocks : c.ptr = moving.old /\ moving \in [old : Address, new : Address]
      BY <2>2 DEF IInv
    <3>2. c \in blocks'
      BY <1>1, <3>1
    <3> QED BY <1>1, <3>1, <3>2
  <2> QED BY <2>1, <2>2
<1>5. IInv'
  <2>1. status' \in {"down", "up"} /\ status' # "down" /\ debug' \in BOOLEAN /\ Sound(heap')
    BY <1>1, <1>2 DEF IInv
  <2> QED BY <1>3, <1>4, <2>1 DEF IInv
<1>6. StayPut
  BY <1>1, <1>2, KeptStaysPut
<1> QED BY <1>5, <1>6

\* The size that Reallocate asks for.
LEMMA NewSizeFacts ==
    ASSUME IInv, NEW b \in blocks, NEW size \in Nat \ {0}
    PROVE  NewSize(b, size) \in Nat \ {0}
<1>1. SizeOf(b) \in Nat
  <2>1. status = "up" /\ BlockInv(heap, debug, b) /\ heap \in Heaps
    BY DEF IInv, Sound
  <2>2. NodeOf(b.ptr) \in DOMAIN heap.nodes /\ b.size \in Nat
    BY <2>1, Numbers DEF BlockInv, NodeAt, NodeOf
  <2>3. Size(heap, NodeOf(b.ptr)) \in Nat
    BY <2>1, <2>2, HeapTypes, Numbers
  <2> QED BY <2>2, <2>3 DEF SizeOf
<1>2. CASE size > SizeOf(b)
  <2> DEFINE x == SizeOf(b) + (SizeOf(b) + 1) \div 2
  <2>1. x \in Nat
    BY <1>1
  <2>2. NewSize(b, size) = Max({size, x})
    BY <1>2 DEF NewSize
  <2> HIDE DEF x
  <2>3. PICK m \in {size, x} : \A y \in {size, x} : m >= y
    BY <2>1
  <2>4. Max({size, x}) \in {size, x} /\ Max({size, x}) >= size
    BY <2>3 DEF Max
  <2> QED BY <2>1, <2>2, <2>4
<1>3. CASE ~(size > SizeOf(b))
  BY <1>3 DEF NewSize
<1> QED BY <1>2, <1>3

LEMMA ReallocateBeginKeeps ==
    ASSUME IInv, NEW b \in blocks, NEW size \in Sizes, ReallocateBegin(b, size)
    PROVE  IInv' /\ StayPut
<1> DEFINE n == NewSize(b, size)
           a == Allocate(heap, debug, n, NewAlign)
           ptr == Allocated(heap, debug, n, NewAlign)
           B == blocks \cup {Block(ptr, n, NewAlign)}
<1>1. /\ status = "up" /\ status' = status /\ debug' = debug
      /\ moving' = [old |-> b.ptr, new |-> ptr]
      /\ heap' = a /\ blocks' = B /\ Find(heap, debug, n, NewAlign) # Null
  BY DEF ReallocateBegin, Fits
<1>2. size \in Nat \ {0} /\ NewAlign \in Nat \ {0}
  BY AllocatorAssumption
<1>3. n \in Nat \ {0}
  BY <1>2, NewSizeFacts
<1> HIDE DEF n
<1>4. /\ Sound(a) /\ Kept(a, heap, Null) /\ ptr \in Address
      /\ \A c \in B : BlockInv(a, debug, c)
      /\ \A c, d \in B : c.ptr = d.ptr => c = d
  BY <1>1, <1>2, <1>3, AllocateStep
<1>5. b \in B
  OBVIOUS
<1> HIDE DEF a, ptr, B
<1>6. moving' \in [old : Address, new : Address] /\ \E c \in blocks' : c.ptr = moving'.old
  <2>1. b.ptr \in Address
    BY DEF IInv, BlockInv
  <2>2. moving'.old = b.ptr
    BY <1>1
  <2> QED BY <1>1, <1>4, <1>5, <2>1, <2>2
<1>7. IInv'
  <2>1. status' \in {"down", "up"} /\ status' # "down" /\ debug' \in BOOLEAN /\ Sound(heap')
    BY <1>1, <1>4 DEF IInv
  <2>2. /\ \A c \in blocks' : BlockInv(heap', debug', c)
        /\ \A c, d \in blocks' : c.ptr = d.ptr => c = d
    BY <1>1, <1>4
  <2> QED BY <1>6, <2>1, <2>2 DEF IInv
<1>8. StayPut
  <2>1. \A c \in blocks : NodeOf(c.ptr) # Null
    <3> TAKE c \in blocks
    <3>1. heap \in Heaps /\ NodeOf(c.ptr) \in DOMAIN heap.nodes
      BY <1>1 DEF IInv, Sound, BlockInv, NodeAt, NodeOf
    <3> QED BY <3>1, HeapTypes, Numbers
  <2>2. Kept(heap', heap, Null)
    BY <1>1, <1>4
  <2> QED BY <2>1, <2>2, KeptStaysPut
<1> QED BY <1>7, <1>8

LEMMA ReallocateEndKeeps ==
    ASSUME IInv, ReallocateEnd
    PROVE  IInv' /\ StayPut
<1>1. PICK b \in blocks : b.ptr = moving.old
  BY DEF IInv, ReallocateEnd
<1> DEFINE n == NodeOf(b.ptr)
           g == Release(heap, n)
<1>2. /\ status' = status /\ debug' = debug /\ moving' = NoMove
      /\ heap' = g /\ blocks' = {c \in blocks : c.ptr # moving.old}
  BY <1>1 DEF ReallocateEnd
<1>3. blocks' = blocks \ {b}
  BY <1>1, <1>2 DEF IInv
<1>4. /\ status = "up" /\ Sound(g) /\ Kept(g, heap, n)
      /\ \A c \in blocks \ {b} : NodeOf(c.ptr) # n /\ BlockInv(g, debug, c)
  BY ReleaseStep
<1> HIDE DEF n, g
<1>5. /\ \A c, d \in blocks' : c.ptr = d.ptr => c = d
      /\ \A c \in blocks' : BlockInv(heap', debug', c)
  BY <1>2, <1>3, <1>4 DEF IInv
<1>6. IInv'
  <2>1. status' \in {"down", "up"} /\ status' # "down" /\ debug' \in BOOLEAN /\ Sound(heap')
    BY <1>2, <1>4 DEF IInv
  <2> QED BY <1>2, <1>5, <2>1 DEF IInv
<1>7. StayPut
  <2>1. Kept(heap', heap, n) /\ \A c \in blocks \cap blocks' : NodeOf(c.ptr) # n
    BY <1>2, <1>3, <1>4
  <2> QED BY <2>1, KeptStaysPut
<1> QED BY <1>6, <1>7

LEMMA StepKeeps ==
    ASSUME IInv, Step
    PROVE  IInv' /\ StayPut
<1>1. CASE Start
  BY <1>1, StartKeeps
<1>2. CASE Kill
  BY <1>2, KillKeeps
<1>3. CASE ReallocateEnd
  BY <1>3, ReallocateEndKeeps
<1>4. CASE \E size \in Sizes, align \in Aligns : Malloc(size, align)
  BY <1>4, MallocKeeps
<1>5. CASE \E b \in blocks : FreeBlock(b)
  BY <1>5, FreeKeeps
<1>6. CASE \E b \in blocks, size \in Sizes : Held(b) /\ ReallocateBegin(b, size)
  BY <1>6, ReallocateBeginKeeps
<1> QED BY <1>1, <1>2, <1>3, <1>4, <1>5, <1>6 DEF Step

\* The inductive invariant: a row of nodes with merged neighbours, lists that
\* hold the free ones, and the blocks in nodes in use.
THEOREM HeapInvariant == Spec => []IInv
<1>1. Init => IInv
  BY DEF Init, IInv
<1>2. IInv /\ [Step]_vars => IInv'
  <2> SUFFICES ASSUME IInv, [Step]_vars PROVE IInv'
    OBVIOUS
  <2>1. CASE Step
    BY <2>1, StepKeeps
  <2>2. CASE UNCHANGED vars
    <3>1. /\ status' = status /\ debug' = debug /\ heap' = heap /\ blocks' = blocks
          /\ moving' = moving
      BY <2>2 DEF vars
    <3> QED BY <3>1 DEF IInv
  <2> QED BY <2>1, <2>2
<1> QED BY <1>1, <1>2, PTL DEF Spec
-----------------------------------------------------------------------------
(* What follows from it *)

\* An empty heap.
LEMMA NoHeapFacts ==
    ASSUME heap = NoHeap
    PROVE  /\ Nodes = {} /\ FreeNodes = {} /\ heap.live = {} /\ heap.used = 0
           /\ heap.buckets \in [Buckets -> Seq(Address)]
           /\ \A i \in Buckets : heap.buckets[i] = <<>>
<1>1. /\ heap.nodes = <<>> /\ heap.buckets = [i \in Buckets |-> <<>>]
      /\ heap.live = {} /\ heap.used = 0
  BY DEF NoHeap
<1>2. Nodes = {}
  BY <1>1 DEF Nodes
<1> QED BY <1>1, <1>2 DEF FreeNodes

LEMMA FreeNodesIs ==
    FreeNodes = Free(heap)
<1> QED BY DEF FreeNodes, Free, Nodes

LEMMA TypeFollows ==
    ASSUME IInv
    PROVE  TypeOK
<1>1. /\ Nodes \subseteq Address
      /\ \A n \in Nodes : heap.nodes[n] \in NodeRec
      /\ heap.buckets \in [Buckets -> Seq(Address)] /\ heap.live \subseteq Buckets
      /\ heap.used \in 0 .. HeapSize
  <2>1. CASE status = "up"
    <3>1. heap \in Heaps /\ heap.used = Cardinality(Rest(heap, Free(heap)))
      BY <2>1 DEF IInv, Sound, Listed
    <3>2. heap.used \in 0 .. HeapSize
      BY <3>1, RestFacts
    <3>3. /\ heap.nodes \in [DOMAIN heap.nodes -> NodeRec] /\ DOMAIN heap.nodes \subseteq Address
          /\ heap.buckets \in [Buckets -> Seq(Address)] /\ heap.live \subseteq Buckets
      BY <3>1, HeapTypes
    <3> QED BY <3>2, <3>3 DEF Nodes
  <2>2. CASE status = "down"
    <3>1. heap = NoHeap
      BY <2>2 DEF IInv
    <3> QED BY <3>1, NoHeapFacts, Numbers
  <2> QED BY <2>1, <2>2 DEF IInv
<1>2. \A b \in blocks : b.ptr \in Address /\ b.size \in 1 .. HeapSize
  BY DEF IInv, BlockInv
<1>3. moving \in [old : Address \cup {Null}, new : Address \cup {Null}]
  <2>1. CASE moving = NoMove
    BY <2>1 DEF NoMove
  <2>2. CASE moving # NoMove
    <3>1. moving \in [old : Address, new : Address]
      BY <2>2 DEF IInv
    <3> QED BY <3>1
  <2> QED BY <2>1, <2>2
<1>4. status \in {"down", "up"} /\ debug \in BOOLEAN
  BY DEF IInv
<1> QED BY <1>1, <1>2, <1>3, <1>4 DEF TypeOK, NodeRec

\* Allocate and Free leave a row of nodes that knows its order, whose free
\* nodes are as large as they can be, the first never among them
\* (asMemoryAllocator::Allocate, Free, AlignNode, SplitNode).
THEOREM HeapStaysSound == Spec => []HeapIsSound
<1>1. IInv => HeapIsSound
  <2> SUFFICES ASSUME IInv PROVE HeapIsSound
    OBVIOUS
  <2>1. TypeOK
    BY TypeFollows
  <2>2. ASSUME status = "up"
        PROVE  heap \in Heaps /\ Row(heap, Null) /\ Apart(heap, Null)
               /\ \A n \in DOMAIN heap.nodes : n # Null
    <3>1. heap \in Heaps /\ Row(heap, Null) /\ Apart(heap, Null)
      BY <2>2 DEF IInv, Sound
    <3> QED BY <3>1, HeapTypes, Numbers
  <2>3. HeapIsTiled
    BY <2>2 DEF HeapIsTiled, Row, Nodes
  <2>4. NeighboursMerged
    <3>1. \A n \in Free(heap) : n \in DOMAIN heap.nodes
      BY DEF Free
    <3> QED BY <2>2, <3>1, FreeNodesIs DEF NeighboursMerged, Apart
  <2> QED BY <2>1, <2>3, <2>4 DEF HeapIsSound
<1> QED BY <1>1, HeapInvariant, PTL

\* Every address of a row of nodes is in one of them: the last that starts in
\* front of it.
LEMMA RowCovers ==
    ASSUME NEW h \in Heaps, Row(h, Null), NEW a \in Address
    PROVE  \E n \in DOMAIN h.nodes : n <= a /\ a < Next(h, n)
<1> DEFINE S == {a - n : n \in {m \in DOMAIN h.nodes : m <= a}}
<1>1. a \in Nat /\ a < HeapSize /\ HeapSize \in Nat
  BY Numbers DEF Address
<1>2. \A n \in DOMAIN h.nodes : n \in Nat /\ Next(h, n) \in Nat /\ Next(h, n) > n
  BY HeapTypes
<1>3. 0 \in DOMAIN h.nodes /\ \A n \in DOMAIN h.nodes : Next(h, n) \in DOMAIN h.nodes \cup {HeapSize}
  BY DEF Row
<1>4. S \subseteq Nat /\ S # {}
  BY <1>1, <1>2, <1>3
<1>5. Min(S) \in S /\ \A x \in S : Min(S) <= x
  <2> HIDE DEF S
  <2> QED BY <1>4, LeastExists
<1>6. PICK n \in DOMAIN h.nodes : n <= a /\ Min(S) = a - n
  BY <1>5
<1>7. \A m \in DOMAIN h.nodes : m <= a => m <= n
  <2> TAKE m \in DOMAIN h.nodes
  <2> HAVE m <= a
  <2>1. a - m \in S
    OBVIOUS
  <2>2. a - n <= a - m
    BY <1>5, <1>6, <2>1, Zenon
  <2> QED BY <1>1, <1>2, <2>2
<1>8. a < Next(h, n)
  BY <1>1, <1>2, <1>3, <1>7
<1> QED BY <1>6, <1>8

\* The lists hold the free nodes, each once and by its size, live_buckets_ is
\* true of them, and heap_used_ is what the nodes in use cover
\* (asMemoryAllocator::Link, Unlink, GetBucketIndex).
THEOREM BooksStayMatched == Spec => []BooksMatch
<1>1. IInv => BooksMatch
  <2> SUFFICES ASSUME IInv PROVE BooksMatch
    OBVIOUS
  <2>1. CASE status = "up"
    <3>1. heap \in Heaps /\ Row(heap, Null) /\ Listed(heap, Free(heap))
      BY <2>1 DEF IInv, Sound
    <3>2. BucketsMatch
      BY <3>1, FreeNodesIs DEF BucketsMatch, Listed
    <3>3. \A n \in DOMAIN heap.nodes : /\ n \in Nat /\ Next(heap, n) \in Nat
                                       /\ Next(heap, n) <= HeapSize
      BY <3>1, HeapTypes, RowFacts
    <3> DEFINE C == UNION {n .. Next(heap, n) - 1 : n \in Nodes \ FreeNodes}
    <3>4. ASSUME NEW a \in C PROVE a \in Rest(heap, Free(heap))
      <4>1. PICK n \in DOMAIN heap.nodes \ Free(heap) : a \in n .. Next(heap, n) - 1
        BY FreeNodesIs DEF Nodes
      <4>2. a \in Nat /\ n <= a /\ a < Next(heap, n) /\ a \in Address
        BY <3>3, <4>1, Numbers DEF Address
      <4>3. ASSUME NEW m \in Free(heap) PROVE ~(m <= a /\ a < Next(heap, m))
        <5>1. m \in DOMAIN heap.nodes /\ m # n
          BY <4>1 DEF Free
        <5>2. (m < n => Next(heap, m) <= n) /\ (m > n => Next(heap, n) <= m)
          BY <3>1, <5>1, RowFacts
        <5> QED BY <3>3, <4>2, <5>1, <5>2
      <4> QED BY <4>2, <4>3 DEF Rest
    <3>5. ASSUME NEW a \in Rest(heap, Free(heap)) PROVE a \in C
      <4>1. a \in Address /\ a \in Int
        BY Numbers DEF Rest, Address
      <4>2. PICK n \in DOMAIN heap.nodes : n <= a /\ a < Next(heap, n)
        BY <3>1, <4>1, RowCovers
      <4>3. n \notin Free(heap)
        BY <4>2 DEF Rest
      <4>4. a \in n .. Next(heap, n) - 1
        BY <3>3, <4>1, <4>2
      <4> QED BY <4>3, <4>4, FreeNodesIs DEF Nodes
    <3>6. C = Rest(heap, Free(heap))
      BY <3>4, <3>5
    <3>7. UsedAddsUp
      BY <3>1, <3>6 DEF UsedAddsUp, Listed
    <3> QED BY <3>2, <3>7 DEF BooksMatch
  <2>2. CASE status = "down"
    <3>1. heap = NoHeap
      BY <2>2 DEF IInv
    <3>2. /\ Nodes = {} /\ FreeNodes = {} /\ heap.live = {} /\ heap.used = 0
          /\ \A i \in Buckets : heap.buckets[i] = <<>>
      BY <3>1, NoHeapFacts
    <3>3. ToSet(<<>>) = {} /\ IsInjective(<<>>)
      <4>1. DOMAIN <<>> = {}
        OBVIOUS
      <4> QED BY <4>1 DEF ToSet, IsInjective
    <3>4. BucketsMatch
      BY <3>2, <3>3 DEF BucketsMatch
    <3>5. UsedAddsUp
      <4>1. UNION {n .. Next(heap, n) - 1 : n \in Nodes \ FreeNodes} = {}
        BY <3>2
      <4> QED BY <3>2, <4>1, FS_EmptySet DEF UsedAddsUp
    <3> QED BY <3>4, <3>5 DEF BooksMatch
  <2> QED BY <2>1, <2>2 DEF IInv
<1> QED BY <1>1, HeapInvariant, PTL

\* Every block a caller holds lies, aligned and with its guards, in a node in
\* use of its own, whatever was allocated and freed since
\* (asMemoryAllocator::Allocate, Reallocate, Free).
THEOREM BlocksStaySafe == Spec => []BlocksAreSafe
<1>1. IInv => BlocksAreSafe
  <2> SUFFICES ASSUME IInv, NEW b \in blocks
               PROVE  /\ NodeOf(b.ptr) \in Nodes \ FreeNodes
                      /\ Size(heap, NodeOf(b.ptr)) >= Guarded(debug, b.size)
                      /\ b.ptr % b.align = 0
                      /\ \A c \in blocks : c.ptr = b.ptr => c = b
    BY DEF BlocksAreSafe
  <2>1. BlockInv(heap, debug, b) /\ \A c \in blocks : c.ptr = b.ptr => c = b
    BY DEF IInv
  <2>2. NodeOf(b.ptr) = NodeAt(debug, b.ptr)
    BY DEF NodeOf, NodeAt
  <2> QED BY <2>1, <2>2, FreeNodesIs DEF BlockInv, Nodes
<1> QED BY <1>1, HeapInvariant, PTL

\* A free node of twice the size that has room for any gap is never missed,
\* though FindFreeNode skips buckets (asMemoryAllocator::FindFreeNode).
THEOREM RoomIsFound == Spec => []FindsRoom
<1>1. IInv => FindsRoom
  <2> SUFFICES ASSUME IInv, status = "up", NEW size \in Sizes, NEW align \in Aligns,
                      NEW n \in FreeNodes, Size(heap, n) >= 2 * Guarded(debug, size),
                      Size(heap, n) >= Guarded(debug, size) + align - 1
               PROVE  Fits(size, align)
    BY DEF FindsRoom
  <2> DEFINE need == Guarded(debug, size)
  <2>1. size \in Nat \ {0} /\ align \in Nat \ {0} /\ debug \in BOOLEAN
    BY AllocatorAssumption DEF IInv
  <2>2. Offset(debug) \in Nat /\ need \in Nat
    BY <2>1, GuardFacts
  <2>3. heap \in Heaps /\ Listed(heap, Free(heap)) /\ n \in Free(heap)
    BY FreeNodesIs DEF IInv, Sound
  <2>4. Find(heap, debug, size, align) = FindFreeNode(heap, need, align, Offset(debug))
    BY DEF Find
  <2>5. Size(heap, n) >= 2 * need /\ Size(heap, n) >= need + align - 1
    OBVIOUS
  <2> HIDE DEF need
  <2>6. FindFreeNode(heap, need, align, Offset(debug)) # Null
    BY <2>1, <2>2, <2>3, <2>5, FoundIfRoom
  <2> QED BY <2>4, <2>6 DEF Fits
<1> QED BY <1>1, HeapInvariant, PTL

\* No step moves, frees or shrinks the node of a block that stays in use
\* (asMemoryAllocator::Allocate, Free, Reallocate).
THEOREM BlocksAreNotMoved == Spec => BlocksStayPut
<1>1. IInv /\ [Step]_vars => [\A b \in blocks \cap blocks' :
          /\ NodeOf(b.ptr) \in DOMAIN heap'.nodes
          /\ heap'.nodes[NodeOf(b.ptr)].alloc
          /\ Size(heap', NodeOf(b.ptr)) >= Size(heap, NodeOf(b.ptr))]_vars
  <2> SUFFICES ASSUME IInv, Step PROVE StayPut
    BY DEF StayPut
  <2> QED BY StepKeeps
<1> QED BY <1>1, HeapInvariant, PTL DEF Spec, BlocksStayPut
=============================================================================
