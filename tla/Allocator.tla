------------------------------ MODULE Allocator ------------------------------
(***************************************************************************)
(* asMemoryAllocator (memory/allocator.h, memory/allocator.cpp): a heap of *)
(* nodes that lie one behind the other, with a list of the free ones for   *)
(* each range of sizes.  Every operation holds lock_ from start to end, so *)
(* each is one step; Reallocate is two.  Sizes and addresses count units   *)
(* of 8 bytes, to which the code rounds, from the start of the heap, which *)
(* is aligned as strictly as any request.  The layout is the 32-bit one.   *)
(***************************************************************************)
EXTENDS Integers, FiniteSetsExt, SequencesExt

CONSTANTS HeapSize,    \* heap_size_
          SmallLimit,  \* SmallBucketLimit, a power of two
          Sizes,       \* what callers ask for
          Aligns,      \* how they want it aligned, powers of two
          NewAlign,    \* DefaultNewAlignment
          MaxBlocks    \* bound: blocks in use

ASSUME AllocatorAssumption ==
    /\ HeapSize \in Nat \ {0, 1} /\ SmallLimit \in Nat \ {0} /\ MaxBlocks \in Nat
    /\ Sizes \subseteq Nat \ {0} /\ Aligns \subseteq Nat \ {0}
    /\ NewAlign \in Nat \ {0}

VARIABLES status,  \* "down" or "up": initialized_
          debug,   \* debug_
          heap,    \* the nodes, buckets_, live_buckets_ and heap_used_
          blocks,  \* the blocks callers hold
          moving   \* a Reallocate between its Allocate and its Free

vars == <<status, debug, heap, blocks, moving>>

Null        == -1
Header      == 1  \* sizeof(Node)
SplitThresh == 2  \* SplitNodeThresh
LowerGuard  == 2  \* DebugLowerGuardSize
UpperGuard  == 1  \* DebugUpperGuardSize

Address == 0 .. HeapSize - 1
Nodes   == DOMAIN heap.nodes
Size(h, n) == h.nodes[n].size
Next(h, n) == n + Header + Size(h, n)

\* GetBucketIndex: one bucket per size up to SmallLimit, then one per power
\* of two.  A size of 32 bits has less than 2^30 units.
Powers  == {2^k : k \in 1 .. 29}
Log2(n) == Cardinality((2 .. n) \cap Powers)
GetBucketIndex(size) ==
    LET total == size + Header
    IN  IF total <= SmallLimit THEN total
        ELSE SmallLimit + Log2(total) - Log2(SmallLimit)
Buckets == {GetBucketIndex(size) : size \in 0 .. HeapSize}

SetSize(h, n, size)       == [h EXCEPT !.nodes[n].size = size]
SetAllocated(h, n, alloc) == [h EXCEPT !.nodes[n].alloc = alloc]
SetPrev(h, n, prev) ==
    IF n < HeapSize THEN [h EXCEPT !.nodes[n].prev = prev] ELSE h

\* (Mutants: what is linked is not taken from heap_used_; the bit of a bucket
\* stays set after its last node.)
LinkUncounted(h, n) ==
    LET i == GetBucketIndex(Size(h, n)) IN
    [h EXCEPT !.buckets[i] = <<n>> \o @, !.live = @ \cup {i}]
Link(h, n) ==
    LET i == GetBucketIndex(Size(h, n)) IN
    [h EXCEPT !.used = @ - (Size(h, n) + Header),
              !.buckets[i] = <<n>> \o @,
              !.live = @ \cup {i}]
UnlinkLive(h, n) ==
    LET i == GetBucketIndex(Size(h, n)) IN
    [h EXCEPT !.used = @ + Size(h, n) + Header,
              !.buckets[i] = RemoveFirst(@, n)]
Unlink(h, n) ==
    LET i == GetBucketIndex(Size(h, n)) IN
    [h EXCEPT !.used = @ + Size(h, n) + Header,
              !.buckets[i] = RemoveFirst(@, n),
              !.live = IF h.buckets[i] = <<n>> THEN @ \ {i} ELSE @]

\* How far a node at n has to move for data, offset units behind its header,
\* to be aligned.  (Mutant: the header is forgotten.)
BareGap(n, align, offset) == (-(n + offset)) % align
Gap(n, align, offset)     == (-(n + Header + offset)) % align

\* Where the search starts: a small request skips to the bucket of twice its
\* size.  (Mutant: one bucket further.)
LateBucket(size)  == GetBucketIndex(2 * size) + 1
StartBucket(size) == IF GetBucketIndex(size) < SmallLimit
                     THEN GetBucketIndex(2 * size) ELSE GetBucketIndex(size)

\* FindFreeNode: the first node of the very size, else the first bucket from
\* StartBucket on which has a node that fits: in a small bucket the first one,
\* in a large one the tightest.
FindFreeNode(h, size, align, offset) ==
    LET waste(n)  == Size(h, n) - (size + Gap(n, align, offset))
        small(b)  == b < SmallLimit
        i         == GetBucketIndex(size)
        exact     == /\ i \in Buckets /\ small(i) /\ h.buckets[i] # <<>>
                     /\ waste(Head(h.buckets[i])) = 0
        fits(b)   == {k \in DOMAIN h.buckets[b] : waste(h.buckets[b][k]) >= 0}
        usable    == {b \in h.live : b >= StartBucket(size) /\ fits(b) # {}}
        bucket    == Min(usable)
        wastes    == {waste(h.buckets[bucket][k]) : k \in fits(bucket)}
        tightest  == {k \in fits(bucket) :
                        small(bucket) \/ waste(h.buckets[bucket][k]) = Min(wastes)}
    IN  IF exact THEN Head(h.buckets[i])
        ELSE IF usable = {} THEN Null
        ELSE h.buckets[bucket][Min(tightest)]

Node(prev, size) == [prev |-> prev, size |-> size, alloc |-> FALSE]
Put(h, n, node)  == [h EXCEPT !.nodes = [m \in DOMAIN h.nodes \cup {n} |->
                                           IF m = n THEN node ELSE h.nodes[m]]]
Drop(h, n)       == [h EXCEPT !.nodes = [m \in DOMAIN h.nodes \ {n} |-> h.nodes[m]]]

\* An unlinked node starts gap units later: what is before is a node of its
\* own, or added to the node in front of it, which is in use.  (Mutant: it is
\* lost.)
WasteGap(h, n, gap) ==
    LET rest == Node(h.nodes[n].prev, Size(h, n) - gap)
    IN  IF gap = 0 THEN h ELSE Put(Drop(h, n), n + gap, rest)
AlignNode(h, n, gap) ==
    LET prev == h.nodes[n].prev
        rest(p) == Node(p, Size(h, n) - gap)
    IN  IF gap = 0 THEN h
        ELSE IF gap > SplitThresh
             THEN Link(Put(SetSize(h, n, gap - Header), n + gap, rest(n)), n)
             ELSE Put(SetSize(Drop(h, n), prev, Size(h, prev) + gap),
                      n + gap, rest(prev))

\* What a node has beyond size becomes a free node, when it is worth it.
\* (Mutant: the node behind does not learn of it.)
SplitBlindly(h, n, size) ==
    LET extra == Size(h, n) - size
        new   == n + Header + size
    IN  IF extra > SplitThresh
        THEN Link(Put(SetSize(h, n, size), new, Node(n, extra - Header)), new)
        ELSE SetPrev(h, Next(h, n), n)
SplitNode(h, n, size) ==
    LET extra == Size(h, n) - size
        new   == n + Header + size
    IN  IF extra > SplitThresh
        THEN Link(SetPrev(Put(SetSize(h, n, size), new, Node(n, extra - Header)),
                          Next(h, n), new), new)
        ELSE SetPrev(h, Next(h, n), n)

\* Allocate.  In debug mode the caller's memory lies between two guards.
Offset(dbg)      == IF dbg THEN LowerGuard ELSE 0
Guarded(dbg, size) == IF dbg THEN LowerGuard + size + UpperGuard ELSE size
Find(h, dbg, size, align) ==
    FindFreeNode(h, Guarded(dbg, size), align, Offset(dbg))
Allocate(h, dbg, size, align) ==
    LET found == Find(h, dbg, size, align)
        gap   == Gap(found, align, Offset(dbg))
        split == SplitNode(AlignNode(Unlink(h, found), found, gap),
                           found + gap, Guarded(dbg, size))
    IN  SetAllocated(split, found + gap, TRUE)
Allocated(h, dbg, size, align) ==
    LET found == Find(h, dbg, size, align)
    IN  found + Gap(found, align, Offset(dbg)) + Header + Offset(dbg)

NodeOf(ptr) == ptr - Header - Offset(debug)

\* Free merges the node with free neighbours.  (Mutants: not with the one in
\* front of it; with the one behind it in any case.)
KeepPrev(h, n) == [heap |-> h, node |-> n]
MergePrev(h, n) ==
    LET prev == h.nodes[n].prev IN
    IF prev # Null /\ ~h.nodes[prev].alloc
    THEN [heap |-> SetPrev(SetSize(Drop(Unlink(h, prev), n), prev,
                                   Next(h, n) - prev - Header),
                           Next(h, n), prev),
          node |-> prev]
    ELSE [heap |-> h, node |-> n]
MergeAnyNext(h, n) ==
    LET next == Next(h, n) IN
    IF next < HeapSize
    THEN SetPrev(SetSize(Drop(Unlink(h, next), next), n,
                         Next(h, next) - n - Header),
                 Next(h, next), n)
    ELSE h
MergeNext(h, n) ==
    LET next == Next(h, n) IN
    IF next < HeapSize /\ ~h.nodes[next].alloc
    THEN SetPrev(SetSize(Drop(Unlink(h, next), next), n,
                         Next(h, next) - n - Header),
                 Next(h, next), n)
    ELSE h
Release(h, n) ==
    LET merged == MergePrev(SetAllocated(h, n, FALSE), n)
    IN  Link(MergeNext(merged.heap, merged.node), merged.node)
-----------------------------------------------------------------------------
NoHeap == [nodes |-> <<>>, buckets |-> [b \in Buckets |-> <<>>],
           live |-> {}, used |-> 0]
NoMove == [old |-> Null, new |-> Null]

Init ==
    /\ status = "down" /\ debug \in BOOLEAN
    /\ heap = NoHeap /\ blocks = {} /\ moving = NoMove

\* asMemoryAllocator::Init.  Its first allocation stays in front of all nodes.
WholeHeap == Link(Put([NoHeap EXCEPT !.used = HeapSize],
                      0, Node(Null, HeapSize - Header)), 0)
Start ==
    /\ status = "down" /\ status' = "up" /\ Find(WholeHeap, debug, 1, 1) # Null
    /\ heap' = Allocate(WholeHeap, debug, 1, 1)
    /\ UNCHANGED <<debug, blocks, moving>>

\* Kill, and SetDebug, which must come before the next Init.  What callers
\* hold is lost.
Kill ==
    /\ status = "up" /\ moving = NoMove
    /\ status' = "down" /\ debug' \in BOOLEAN
    /\ heap' = NoHeap /\ blocks' = {}
    /\ UNCHANGED moving

Block(ptr, size, align) == [ptr |-> ptr, size |-> size, align |-> align]
Fits(size, align) == Find(heap, debug, size, align) # Null

\* Without a node that fits the program aborts.
Malloc(size, align) ==
    /\ status = "up" /\ Cardinality(blocks) < MaxBlocks /\ Fits(size, align)
    /\ heap' = Allocate(heap, debug, size, align)
    /\ blocks' = blocks \cup {Block(Allocated(heap, debug, size, align), size,
                                    align)}
    /\ UNCHANGED <<status, debug, moving>>

Held(b) == b \in blocks /\ b.ptr \notin {moving.old, moving.new}

FreeBlock(b) ==
    /\ status = "up" /\ Held(b)
    /\ heap' = Release(heap, NodeOf(b.ptr))
    /\ blocks' = blocks \ {b}
    /\ UNCHANGED <<status, debug, moving>>

\* Reallocate to a size that is larger, by half at least, or at most half of
\* what there is; in between the block stays.
SizeOf(b)        == IF debug THEN b.size ELSE Size(heap, NodeOf(b.ptr))
NewSize(b, size) == IF size > SizeOf(b)
                    THEN Max({size, SizeOf(b) + (SizeOf(b) + 1) \div 2})
                    ELSE size
ReallocateBegin(b, size) ==
    LET n == NewSize(b, size) IN
    /\ status = "up" /\ moving = NoMove
    /\ Cardinality(blocks) < MaxBlocks
    /\ size > SizeOf(b) \/ 2 * size <= SizeOf(b)
    /\ Fits(n, NewAlign)
    /\ heap' = Allocate(heap, debug, n, NewAlign)
    /\ moving' = [old |-> b.ptr, new |-> Allocated(heap, debug, n, NewAlign)]
    /\ blocks' = blocks \cup {Block(moving'.new, n, NewAlign)}
    /\ UNCHANGED <<status, debug>>
ReallocateEnd ==
    /\ moving # NoMove
    /\ heap' = Release(heap, NodeOf(moving.old))
    /\ blocks' = {b \in blocks : b.ptr # moving.old}
    /\ moving' = NoMove
    /\ UNCHANGED <<status, debug>>

Step == \/ Start \/ Kill \/ ReallocateEnd
        \/ \E size \in Sizes, align \in Aligns : Malloc(size, align)
        \/ \E b \in blocks : FreeBlock(b)
        \/ \E b \in blocks, size \in Sizes : Held(b) /\ ReallocateBegin(b, size)

Spec == Init /\ [][Step]_vars
-----------------------------------------------------------------------------
\* Every variable holds a value of its type.
TypeOK ==
    /\ status \in {"down", "up"} /\ debug \in BOOLEAN
    /\ Nodes \subseteq Address
    /\ \A n \in Nodes : heap.nodes[n] \in [prev : Address \cup {Null},
                                          size : 1 .. HeapSize, alloc : BOOLEAN]
    /\ heap.buckets \in [Buckets -> Seq(Address)] /\ heap.live \subseteq Buckets
    /\ heap.used \in 0 .. HeapSize
    /\ \A b \in blocks : b.ptr \in Address /\ b.size \in 1 .. HeapSize
    /\ moving \in [old : Address \cup {Null}, new : Address \cup {Null}]

FreeNodes == {n \in Nodes : ~heap.nodes[n].alloc}

\* What DoSanityCheck walks: the nodes cover the heap from its start to its
\* end, and each one knows the one in front of it ("Linked List").
HeapIsTiled == status = "up" =>
    /\ 0 \in Nodes
    /\ \A n \in Nodes :
          /\ Next(heap, n) \in Nodes \cup {HeapSize}
          /\ \A m \in Nodes : ~(n < m /\ m < Next(heap, n))
          /\ IF n = 0 THEN heap.nodes[n].prev = Null
             ELSE LET prev == heap.nodes[n].prev
                  IN  prev \in Nodes /\ Next(heap, prev) = n

\* Free leaves no two free nodes beside each other, and the first node is
\* never free: the gap in front of an aligned block always has a node in use
\* before it to go to.
NeighboursMerged == status = "up" =>
    /\ 0 \notin FreeNodes
    /\ \A n \in FreeNodes : Next(heap, n) \notin FreeNodes

\* The heap is a row of nodes of the right types, as large as they can be.
HeapIsSound == TypeOK /\ HeapIsTiled /\ NeighboursMerged

\* The free nodes, and nothing else, are in the lists, each once and in the
\* bucket of its size, and live_buckets_ tells which lists are not empty.
BucketsMatch ==
    /\ \A i \in Buckets :
          /\ ToSet(heap.buckets[i]) =
                {n \in FreeNodes : GetBucketIndex(Size(heap, n)) = i}
          /\ IsInjective(heap.buckets[i])
    /\ heap.live = {i \in Buckets : heap.buckets[i] # <<>>}

\* heap_used_ is how many units the nodes in use and their headers cover.
UsedAddsUp == heap.used =
    Cardinality(UNION {n .. Next(heap, n) - 1 : n \in Nodes \ FreeNodes})

\* What is kept beside the nodes agrees with them.
BooksMatch == BucketsMatch /\ UsedAddsUp

\* Whatever was allocated, freed, aligned, split and merged since: a caller's
\* block lies, aligned as asked and with its guards, in a node in use that is
\* no other caller's.
BlocksAreSafe ==
    \A b \in blocks :
       /\ NodeOf(b.ptr) \in Nodes \ FreeNodes
       /\ Size(heap, NodeOf(b.ptr)) >= Guarded(debug, b.size)
       /\ b.ptr % b.align = 0
       /\ \A c \in blocks : c.ptr = b.ptr => c = b

\* The allocator only gives up when there is no free node of twice the size
\* and the alignment: the heuristic that skips the buckets in between does
\* not miss one.
FindsRoom == status = "up" =>
    \A size \in Sizes, align \in Aligns :
       LET need == Guarded(debug, size) IN
       (\E n \in FreeNodes : /\ Size(heap, n) >= 2 * need
                             /\ Size(heap, n) >= need + align - 1)
       => Fits(size, align)

\* No operation moves or shrinks a block that stays in use.
BlocksStayPut ==
    [][\A b \in blocks \cap blocks' :
          /\ NodeOf(b.ptr) \in DOMAIN heap'.nodes
          /\ heap'.nodes[NodeOf(b.ptr)].alloc
          /\ Size(heap', NodeOf(b.ptr)) >= Size(heap, NodeOf(b.ptr))]_vars
=============================================================================
