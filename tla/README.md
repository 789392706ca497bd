# A verification project for Open1560

TLA+ models of the concurrent, memory-managing and state-keeping parts of Open1560
(`src/code/midtown`), their model checking with TLC and proofs with TLAPS.  Every definition is translated from the source;
`PROJECT.json` maps each one to the lines it stands for and lists the runs, the mutants each
property is tested against, the findings, the hazards and the theorems.

    tlc -config MQ_queue.cfg MCMessageQueue.tla    # a run: see PROJECT.json for the others
    tlapm MessageQueueProofs.tla                   # proofs

## 1. The system

Open1560 re-implements Midtown Madness.  One *main thread* runs `MainPhase` and `GameLoop`
(`midtown.cpp`): it polls events, updates the tree of nodes, draws and, once a frame, ages the
caches.  A *pager thread* (`PAGER`, an `ipcMessageQueue`) reads meshes and textures from the
archives into two relocating heaps (`CACHE`, `TEXCACHE`).  All threads share the allocator.

| part | state | operations | interacts with | correct if |
|---|---|---|---|---|
| message queue (`data7/ipc`) | ring of callbacks, mutex, two condition variables, worker | Init, Send, Shutdown, MessageLoop | called by the main thread; runs callbacks in its worker | FIFO, each message runs once, no lost wakeup, Shutdown drains |
| ticket and recursive lock (`data7/ticketlock`) | two counters, owner, count | lock, unlock | around every allocator operation | exclusion, order of arrival, re-entrance |
| data cache (`data7/cache`) | slots, heap, waste, age, two locks | Init, Shutdown, BeginObject, Allocate, EndObject, Lock, Unlock, UnlockAndFree, Free, Age | calls back the owners of objects when it evicts or moves them | no stale handle or pointer, heap tiled, nothing in use moves |
| paging (`agiworld/mesh*`, `agi/texdef`) | `Resident`/`page_state_`, handle, pointers | PageIn, LockIfResident, Unlock, UnlockAndFree, DoPageIn, PageOutCallback | queue and cache, from two threads, without a lock of its own | one request at a time, resident means data, every request ends |
| allocator (`memory/allocator`) | nodes, bucket lists, count of used memory | Init, Kill, Allocate, Free, Reallocate | everybody | blocks disjoint and aligned, free nodes merged and findable |
| hash tables, metaclasses, parser (`data7`) | buckets | Insert, Change, Delete, Kill | libraries of textures and metaclasses | an entry is found until it is deleted |
| streams and file systems (`stream`) | buffer, `position_`, the base an archive's members share | Read, Write, Gets, Vscanf, Seek, Tell, Flush, open and close | pager, loaders, drivers | every stream is a cursor in its own file, buffers do not show, what is closed is on disk |
| graphics (`agi`, `agigl`, `agisw`, `agirend`, `agisdl`, `agiworld`) | libraries, render state | Begin/EndGfx, Draw | driver, SDL | drawing; refresh in order |
| scene tree (`arts7`) | tree of nodes | AddChild, InsertChild, RemoveChild, Update, Cull | everything that is updated | one parent each, every active child updated once |
| events, replays (`eventq7`) | ring of events, monitors, channels | Queue, Pop, AddClient, DoPlayback | windows, menus | events in order; a replay ends cleanly |
| bangers (`mmbangers`, with `mmphysics/phys`, `mmcity/instchn`) | pool of entities, ring of hit bangers, movers, active rooms, chains of instances | Attach, Detach, Update, Impact, GetBanger, NewMover, DeclareMover, Parent, UnParent | physics, city | entity and prop name each other, each prop in one chain, none left that nothing can hit |
| menus (`mmwidget/manager`, `mmgame/interface`) | active, next and previous menus | Switch, Update, the buttons | main loop, every menu | one menu enabled; a way back |
| drivers (`mmui/driver`) | list, picked driver, `players.dir`, `.sav` files | NewPlayer, AddPlayer, RemovePlayer, SetPlayerPick, LoadPlayers, SavePlayers | streams, menus | the list survives, the pick is in it |
| network (`mmnetwork`, `mmgame/netobject`) | last update of each car | PositionUpdate, SetLocalData | session | old updates are ignored |
| physics, cars, traffic, cameras, effects, audio, video, input, game modes | per-frame state | Update, Reset, ... | main loop | mostly numeric, or still in `game.asm` |

What is hard here: two threads over unlocked flags (`Resident`, handles, `initialized_`), a heap
that moves its objects under its users, a hand-written lock, wrapping counters and indices,
arrays that change under the loop that goes over them, one buffer shared by many readers, a program
that ends between two writes, and operations that are legal only in some orders.  `PROJECT.json` lists these hazards at the lines
where they bite, each with the properties that would catch it; section 4 names those nothing here covers yet.

## 2. Modules

| module | models | composed with |
|---|---|---|
| `MessageQueue` | `ipcMessageQueue` | implements `FifoWorker` (INSTANCE); checked through `MCMessageQueue` |
| `FifoWorker` | what the queue promises, abstractly | |
| `MessageQueueProofs` | theorems about the queue | EXTENDS `MessageQueue` |
| `RecursiveLock` | `TicketLock`, `RecursiveLock` | |
| `RecursiveLockProofs` | theorems about the lock | EXTENDS `RecursiveLock` |
| `DataCache` | `DataCache` | checked through `MCDataCache` |
| `Paging` | the residency protocol of meshes and textures, main loop and pager | EXTENDS `DataCache`; PAGER is the FIFO `MessageQueue` implements; checked through `MCPaging` |
| `PagingProofs` | theorems about the cache and about paging | EXTENDS `Paging` |
| `Allocator` | `asMemoryAllocator` | atomic operations, which `RecursiveLock` stands for |
| `AllocatorProofs` | theorems about the allocator | EXTENDS `Allocator` and `ListLemmas` |
| `ListLemmas` | what the operators on sequences do, and the least number with a property | used by the proofs of drivers, allocator and streams |
| `Streams` | `Stream`, `FileStream`, `VirtualStream` | implements `StoredFile` (INSTANCE); checked through `MCStreams` |
| `StoredFile` | what a stream promises its caller, abstractly | |
| `StreamsProofs` | theorems about the streams, the refinement among them | EXTENDS `Streams` and `ListLemmas` |
| `Menus` | `MenuManager` and the buttons of the front end | |
| `Drivers` | `DriverMenu`, its files, and the frame of the front end | EXTENDS `Menus`; its files are emptied and flushed as `Streams` does |
| `DriversProofs` | theorems about menus and drivers | EXTENDS `Drivers` and `ListLemmas` |
| `Bangers` | bangers, their pool and ring, movers and chains | checked through `MCBangers` |

The MC modules give sizes to clients, and let a state stutter in which every call has returned or
the program has ended, so that TLC's deadlock check finds only threads waiting for each other.

### MessageQueue

A step is what a thread does between two points where another one can see or change the queue:
taking the mutex, a wait, a callback, an unlocked read of `initialized_`.  `pc` is where each
producer is in Send (or, the owner, in Shutdown), `wpc` where the worker is in MessageLoop;
`accepted` and `processed` are histories.  `MaxMessages`, `Modes`, the number of producers and
whether waits end spuriously are parameters.  The environment: only one thread calls Init and
Shutdown, and unless `SendsDuringShutdown` nobody is in Send meanwhile.  That is how the repository uses
it: only the main thread sends to PAGER (`meshset.cpp:116`, `texdef.cpp:262`) and
to GFXPAGER (`pipeline.cpp`, `screenshot.cpp`), and it is the one that shuts them down
(`midtown.cpp:736`).  The repository uses the modes ASYNC and SYNC (`midtown.cpp:562`,
`pipeline.cpp:199`), never BLOCKING, which the class offers all the same.  SDL's mutex and condition
variable are modelled by their contract: a wait gives up the mutex atomically, a notification
releases one waiter, if there is any, and a wait may end on its own.

Run `queue`: two producers, three slots (two usable), three messages each, two calls of Init:
enough for the ring to wrap twice, to be full with a sender waiting, and to be shut down and started
again in another mode.  Liveness is checked under weak fairness of the worker, of each
producer inside Send and of Shutdown: they are threads of the operating system.  Nobody is obliged to
start a call.  The properties ask that spurious wakeups stop (`WakeupsStop`), because a thread woken again and again takes the
mutex from one that has only weak fairness.

Findings.  `queue_blocking`: with two producers (or one, and a spurious wakeup) a blocking Send returns
before its message has run.  A related hazard, which the MC module tolerates and
`EveryCallReturns` excludes: a sender that waits for its message can take the notification another
one needs, which then waits for good.  `queue_shutdown_race`: a Send that overlaps Shutdown loses
its message.

### RecursiveLock

One step per atomic operation.  Counters are natural numbers compared modulo `Width`, as the
code's unsigned subtraction does.  The relaxed stores to `lock_owner_` are steps of their own, so
that they may take effect late.  Threads may nest calls (`MaxDepth`); `MaxTickets` bounds a run,
and at 6 tickets of width 4 the counters wrap.  Fairness: a thread inside lock or unlock, or that
holds the lock, goes on; `EveryWaiterEnters` adds the premise that nobody stays inside for ever.
The debug assertion in the waiting loop (`ticketlock.cpp:37`, `serving < my_ticket`) is not modelled: it
does not allow for the wrap, but is only reached behind two others, so that three threads never fail it;
with four waiting across the wrap a debug build could stop there.
The run allows deadlock, which `lock_self_deadlock` shows: thread A releases, B takes the lock and
stores its identity, A's late clear erases it, B's nested lock takes a new ticket and waits for
itself.  Nested locking happens in the allocator (`DumpStats` calls `SanityCheck` and `GetStats`
under the lock).  The safety properties hold in spite of it.

### DataCache

`slots` is `objects_`, `handle` and `pointer` are the owner's handle and pointer, which the cache
and the callbacks write, and `heap` says whose data each unit holds, so that a wrong move is seen.
`cs` names who is inside `cache_lock_`: the loops of Age and CleanEndOfHeap take one step per
object, and between BeginObject and EndObject the pager keeps the lock.  `object_lock_` is
modelled with its owner.  Sizes count 8 bytes, to which the code aligns.  One instance with clients of
both kinds stands for CACHE and TEXCACHE.  A client asks for what it then fills (`SizeOf`), in one Allocate.  Flush is only called by Shutdown.
`Quitf` and failed assertions are guards, and where they matter there is an invariant that says they never fail.

`cur_waste_` grows without bound, and may also wrap around below zero: Free leaves a hole that it does not
count, and CleanEndOfHeap takes the hole off all the same.  Age then compacts for nothing.  No property
says that this does not happen, since it does (run `cache` goes through it); that no data is lost
by it is what the properties of that run say.  `WasteWidth` is the number of values of the
counter, and `WasteBound` stops new work when the waste is neither small nor just below zero.
Run `cache`: two meshes and a texture of sizes 2, 3 and 2 in a heap of 6 with 3 slots, two calls
of Age per life: every pair of objects fits, not all three; slots are reused with waste, dropped
from the end, and moved over gaps.

### Paging

The main thread's Draw is split at every unlocked read: `Resident > 1`, the handle, the call into
the cache, the use, the unlock.  The pager runs one request at a time: BeginObject, fill,
`Resident = 2`, EndObject.  Textures are uploaded and freed (UnlockAndFree) as the OpenGL
texture does.  `Other` is a request for an object of another cache, sent while this one is
locked.  `quit` is the state in which an assertion has ended the program.  Fairness: both threads
run; what is drawn and when is open.  In SYNC mode the request would run inside PageIn; only the asynchronous mode is modelled.
Run `paging`: the three clients in a heap of 4 with 2 slots, so that each page-in
evicts or fails; two requests in the queue.  Objects are there for good: the destructor of a texture, which calls Free
(`texdef.cpp:338`), is not in this model, and Free is checked in run `cache` alone.  Nor is `DrawLitEnv`
(`meshrend.cpp:919`), which calls DrawLit, and so locks again, while it has the mesh locked.  `paging_lock_race` shows the race between LockIfResident's unlocked reads and the
pager's eviction.

### Allocator

Node addresses are offsets; `heap` holds the nodes (previous node, size, in use), the bucket lists,
the live bits and the used count.  Each public operation holds the lock from start to end and is one
step, a composition of operators named after the code's (Link, Unlink, FindFreeNode, AlignNode and
SplitNode for the two halves of Allocate's second part); Reallocate is two steps.  `debug` adds the
guards.  The layout is the 32-bit one: header of 8 bytes, links of a free node inside its data.
When nothing fits the program aborts, so Malloc is disabled.  Run `allocator`: a heap of 20 units,
requests of 1, 2 and 5, aligned to 1 and 4, up to three blocks; `SmallLimit` is 4 (32 bytes) instead of
the code's limit so that small and large buckets both occur.  Bigger heaps only add more of the same
patterns: a gap before, a split behind, a merge on either side.

### Streams

An operator takes the world a call finds (the disk, the handle's offset, every stream's buffer,
`buffer_head_`, `buffer_read_`, `position_`) and gives the one it leaves, with what it returned.
`RawSeek` and `RawRead` are virtual in the code; Flush, Seek and Read make at most one such call, and what it
leaves is an argument of `Flushed`, `Sought` and `AfterRead`, which the members of an archive and the file below them share.  A `VirtualStream`'s raw calls
are calls of the base stream, which has a buffer of its own and is left wherever the last member
put it.  A call is one step: the pager and the main thread never use the same archive's base at
once in the calls modelled, since every VirtualStream call is made inside one thread's turn.
(`VirtualStream::lock_` belongs to the member and not to the base, so that it would not order two
threads; the model does not say what would then happen.)

`ImplementsFile` is the refinement: `StoredFile` knows neither buffers nor archives, only a cursor
per stream; `SeenBytes` (what is on disk overlaid with what waits to be written) and `SeenCursor`
map one to the other.  `Crash` ends the process with the file open and loses at most a buffer.
`lag` is what the code leaves out of `position_`: a Write of at least the buffer's capacity goes to
the file without counting in `position_`, so that a Tell or a Read right after it is wrong.  No code
in `src/` does either, and the calls are guarded by `lag = 0`.
Other things the code does that the model leaves to the caller, as the code's callers do: UnGetCh
fails on a stream without a buffer (`GetCh` is never undone there); a seek past the end of a member
is not refused; an error of RawWrite is not reported.

Run `streams`: a member without a buffer and one with two bytes, a base of three, reads of 0 to 4
bytes, pieces shorter than, equal to and longer than the buffer, lines shorter and longer than what the caller
keeps.  A buffer that is larger than what is asked, equal, or smaller decides every branch of Read
and Write; longer files only repeat them.

### Menus and Drivers

A frame is three steps: a button of the menu (`input`), one of the navigation bar (`nav`), and
`MenuManager::Update`, which makes the switch that was asked for last (`update`).  `prev` is
each menu's `prev_menu_id_`, written the first time the menu is entered only.  "race" and "net"
stand for `IDM_RACE` and `IDM_NET_SELECT`, which buttons ask for although no such menu is added.

The handlers of the driver menu change the list at once and leave a sequence of things to do to files
in `todo`; `FileStep` does the next (an fopen for writing, which empties the file, or the flush in the
Stream's destructor), `FileFault` lets it fail, `Restart` ends the program anywhere and starts it again.
`hurt` is set once a save failed: the code tells nobody, the next entry into the menu loads the old list
under the index of the new one, and `PickMatches` is not promised for the rest of that process.
Everything else holds in spite of faults.

The dropdown of the driver menu is bound to `current_player_` (`driver.cpp:158`), and `UITextDropdown::Action` writes the value without a
callback (`textdrop.cpp:154`).  This write is not modelled: `UIMenu::Update` turns the arrow keys into focus changes
before they reach a widget, and nothing calls `UIMenu::MouseAction`, so that it is never made.

What the code does that a reader may not expect, all in the model: a driver's name and file are both
numbered by the length of the list, so that after a delete and an add two drivers can share both, and
AddPlayer then empties the first one's `.sav`; `DeleteTakesThePicked` says that DeleteCB, which looks for the name, still takes out
an entry equal to the one picked.  A program that ends between opening and flushing `players.dir` has
lost all drivers.  `mmPlayerData::Load` looks for `players/<file>/<file>.sav` while AddPlayer creates
`players/<file>.sav`, and nothing calls Save, so no `.sav` is ever read.  NEW asks for a switch to the
menu that is active, which does nothing, so that its dropdown stays stale.

Run `drivers`: five menus with the way through a dialog, three drivers (one deleted and one added
between two others), one fault.  The first entries into menus in every order decide `prev`.

### Bangers

`s` is a record of everything the handlers change, so that operators named after the code's functions
take one and give the next; `i` is the place of the loop in the pool's Update, which `Detach` may
change the array under.  A frame is: the vehicles declare themselves, the pool updates; then the physics forgets the
active rooms, updates the movers that are on, lets any mover meet any collider, and clears the table
of movers.  The physics' part, and the Resets of the ring and of the props, are in `game.asm`
(`mmPhysicsMGR::Update`, `CollideInstances`, `Cull`, `asInertialCS::FinishForces`, `mmBangerManager::Reset`, `mmUnhitBangerInstance::Reset`) and
are translated from there: who gets an entity at which point of a collision, and what is done with it when
the body is not hit hard enough.  Which two collide is open, whichever rooms they are in, which only adds behaviours.  The lists of what
a mover may meet are gathered once before all samples of a frame; NewMover takes a struck prop out of all of them, and everything else in them stays in
its chain, so that it is enough to ask who is a collider without an entity when two meet.

Of the dynamics one number is kept, `Counter`, by which Attach chooses whom to replace.  It is
not an age: FinishForces adds to it while a body that is awake moves slowly, and sets it to 0 when the body moves
or falls asleep, and Attach sets it to 0.  `resting` is who has more than 0.  A full pool takes one of those,
and any of them may have the most; if nobody rests all are equal, and the comparison `>=` in `active.cpp:203` takes the last one
of the array.

Fairness: the frame's own steps (`Frames`), since frames follow one another as long as the program
runs; nothing need move or collide.  `TempsLeave` needs it: Update's loop passes over the entity that
moved into a detached one's place, but never for good.

What the code does that the model shows.  The last one of the array is the one that was attached
last.  So when all entities are in use and every body moves, a prop that breaks takes one entity, its first part
takes that entity from it, the next part takes it from the first, and at the end Impact detaches it
from the last: the parts hang where the prop stood until something pushes them.  `PartsStayBehind` says so, and
`PartsKeepEntities` is the other side: with more entities free or at rest than the prop has parts, each part has one.  The comment at `active.cpp:196`
("Find and replace the oldest active banger") is what the code means to do; with an age instead of a sleep timer the parts
would keep what they got.  Between the two premises Impact may take
the entity whose impulse it hands on, and its last DetachMe detaches the part which it serves by then.
A prop that the pool updates itself (type 1), once struck, is not put back into its chain by its
Reset, only its flags are (`Unchained`).  A prop without parts
hands over its entity but no flag of the mover, and the hit banger stays a collider.
`banger.cpp` says that NewMover replaces the unhit instance; the code adds a second entry and
leaves the first.

Run `bangers`: a prop without parts, one of one part and one of two, two entities and three hit
bangers, two rooms of which the second has the first as a neighbour: the pool is full with one prop of two parts and
the ring comes round with the second that is struck.  MAX_MOVERS and MAX_ACTIVE_ROOMS are modelled but not
reached: no list of movers comes near 8 in two rooms.

### Runs

A property that joins several named ones (`NothingIsLost == RingContents /\ DrainedOnExit`, say) is checked
as one; its parts are defined and explained where they stand in the module.

| run | command | checks | shows |
|---|---|---|---|
| `queue` | `tlc -config MQ_queue.cfg MCMessageQueue.tla` | `TypeOK`, `NothingIsLost`, `NoLostWakeup`, `Fifo`, `Progress` | passes, 130 053 states. Two producers, three slots, three messages each and two calls of Init in any mode, with spurious wakeups: the ring loses, repeats and reorders nothing, no thread sleeps through a wakeup, Shutdown drains, the queue implements FifoWorker, every message runs and every call returns. |
| `queue_blocking` | `tlc -config MQ_blocking.cfg MCMessageQueue.tla` | `BlockingSendReturnsProcessed` | is violated. With two producers on a blocking queue, a Send returns before its own message has run: done_event_ does not say whose message is done, and the wait is not in a loop. |
| `queue_shutdown_race` | `tlc -config MQ_shutdown_race.cfg MCMessageQueue.tla` | `DrainedOnExit` | is violated. A producer that has read initialized_ before Shutdown clears it stores its message after the worker has gone: the message never runs. |
| `lock` | `tlc -config RL_lock.cfg RecursiveLock.tla` | `MutualExclusion`, `LockWordsAreSound`, `FirstComeFirstServed`, `EveryWaiterEnters` | passes, 22 138 states. Three threads, calls nested two deep, tickets that wrap: the lock excludes, counts its nesting right, serves in order and, as long as nobody stays inside, serves everybody. |
| `lock_self_deadlock` | `tlc -config RL_self_deadlock.cfg RecursiveLock.tla` | `NoSelfDeadlock` | is violated. A thread that has just taken the lock loses its ownership to the previous owner's late store, and its nested lock waits for itself. |
| `cache` | `tlc -config DC_cache.cfg MCDataCache.tla` | `TypeOK`, `HeapIsTiled`, `DataIntact`, `SlotsMatch`, `LocksMatch`, `InUseStaysPut` | passes, 765 678 states. Two meshes and a texture that do not fit together, in every order of the cache's operations: no handle or pointer is ever stale, the heap stays tiled, locks are accounted for and nothing in use is moved or evicted. |
| `paging` | `tlc -config PG_paging.cfg MCPaging.tla` | `PagingTypeOK`, `RequestedOnce`, `ResidentMeansData`, `LocksLast`, `RequestsEnd` | passes, 66 892 states. The main thread's frames and the pager's requests in every interleaving: one request at a time per object, what is marked resident has its data, what is locked stays usable, the frame's Age never finds a lock, and every request ends. |
| `paging_lock_race` | `tlc -config PG_lock_race.cfg MCPaging.tla` | `LockHasHandle` | is violated. LockIfResident reads Resident and CacheHandle without a lock; when the pager evicts the object between these reads and Lock's assertion, the program ends with "Invalid Handle". |
| `allocator` | `tlc -config AL_heap.cfg Allocator.tla` | `HeapIsSound`, `BooksMatch`, `BlocksAreSafe`, `FindsRoom`, `BlocksStayPut` | passes, 80 396 states. Every sequence of allocations of three sizes and two alignments, frees and reallocations on a small heap, with and without debug guards: nodes tile the heap, free ones are merged and listed once, blocks are aligned, disjoint and stay where they are. |
| `streams` | `tlc -config ST_streams.cfg MCStreams.tla` | `TypeOK`, `BuffersAreSound`, `ImplementsFile` | passes, 12 365 states. Every order of calls on two members of an archive that share a base stream, and on a file that is written, read and closed by processes that may end at any time: the buffers never show, and the calls do what the abstract file does. |
| `drivers` | `tlc -config DR_drivers.cfg Drivers.tla` | `DriversTypeOK`, `Durable`, `PickMatches`, `EntriesAreSound`, `BackReachesMain`, `DeleteTakesThePicked` | passes, 1 693 111 states. Every walk through the menus with drivers added, deleted and picked on the way, a file that fails, and a program that may end between any two file operations and start again: the list on disk, the list in memory, the driver picked and the way back through the menus stay consistent. |
| `bangers` | `tlc -config BG_bangers.cfg MCBangers.tla` | `PoolIsConsistent`, `RoomsAreSound`, `MoversAreServed`, `PartsKeepEntities`, `PartsStayBehind`, `TempsLeave` | passes, 378 629 states. Three props that are struck, break, move, settle, are struck again and are taken back by a ring of three hit bangers, with two entities to serve them, in frames of which any mover may meet any prop: the pool, the chains and the movers stay consistent, parts keep their entities while the pool has some that are free or rest, lose them all when it has none, and props outside the active rooms are let go. |

## 3. What is proved

TLAPS proves these for every value of the constants that satisfies the assumption of the module
(`QueueAssumption`, `LockAssumption`, `CacheAssumption`, `PagingAssumption`, `AllocatorAssumption`,
`MenusAssumption`, `DriversAssumption`, `BangersAssumption`, `StreamsAssumption`): that sizes and bounds are natural numbers, that ids which
stand for nothing name nothing, and what is said below.

* `MessageQueueProofs`: `TypeCorrect` (`[]TypeOK`); and, assuming `Serial` (nobody sends during
  Shutdown: without it `queue_shutdown_race` refutes them), `NothingGetsLost` (from `RingIsExact` and
  `ShutdownDrains`), `NobodySleepsOn` (from `WorkerIsWoken` and `SpaceWaiterIsWoken`) and `ImplementsFifo`
  (refinement of `FifoWorker`).  `RingContents` is not inductive: nothing in it says that the
  one who stores holds the mutex, or that a worker that has gone left an empty ring.  The
  invariant `IInv` adds who holds the mutex at which label (`MutexInv`), that whoever is inside Send has counted a message
  (`SendingInv`), which labels the worker and the owner can be at
  together (`ControlInv`) and the wakeup argument.  The ring arithmetic is in the lemmas `RingFacts`, `StoreRing` and `TakeRing`.
* `RecursiveLockProofs`: `LockExcludes`, `WordsAreSound` (from `TypeCorrect`, `CountIsRight` and `OwnerReadIsSound`), `ServedInOrder`.
  The invariant says that tickets in use are distinct and lie between `nowServing` and
  `nextTicket`, that a spinning thread's number has not been served yet, and what the count and the owner are at each label.  Every number drawn and not yet
  passed belongs to the holder or to a spinning thread, and `Width` exceeds the number of threads, so the comparison
  modulo `Width` is equality (`TicketsFit`, `ServedExactly`); this is where the assumption `Width > Cardinality(Threads)` is needed.
* `PagingProofs`, first half, the cache: for any clients, sizes, heap, slots and bounds, `CacheTypes`, `HeapStaysTiled`, `SlotsStayMatched`,
  `DataStaysIntact`, `LocksStayMatched` and `InUseIsNotMoved`.  The properties of the run are nearly inductive
  together, and none of them is alone: a pointer stays right only where slots do not overlap, a slot is reused only if
  its handle is the owner's, and object_lock_ is the right thread's only if the locks are counted.  What `IInv`
  adds is where each of the loops of Age is (`PhaseInv`), that a resident object's data fits its slot
  (`SizedInv`), that slots lie in their order below the end mark (`LaidInv`) and that nothing is locked and no gap is left among
  what Age has moved already (`CompactInv`).  There is a lemma for each action, which names its effect and takes the
  conjuncts one after the other; `LocksAddUp` counts a set of pairs, so that a lock more is a pair more.
* `PagingProofs`, second half: the cache's invariant holds in spite of two threads (`PagingKeepsCache`), and with it `PagingTypes`, `AskedOnce`,
  `ResidentIsTrue` and `LocksLastLongEnough`.  The lemmas of the first half do the cache's part of each step; `PInv` adds what each thread has done inside the cache at
  each place (`ThreadsInv`), that what the main thread has read without a lock is still true where the protocol needs it
  (`TargetInv`), that the state, the requests and the handle of an object go together (`StateInv`, `QueueInv`), and that an
  object has one lock, of the thread that uses it, or none (`CountInv`).  `TargetInv` is the argument for the protocol: only the
  main thread takes an object out of states 0 and 2, except for the eviction that `paging_lock_race` shows.
* `AllocatorProofs`: for any heap, requests and alignments, `HeapStaysSound`, `BooksStayMatched`, `BlocksStaySafe`,
  `RoomIsFound` and `BlocksAreNotMoved`.  The invariant says that the nodes are a row (`Row`), that free ones are apart (`Apart`), that the lists
  hold them and heap_used_ counts what they leave (`Listed`), and that each block has a node in use, which is not the first of the heap
  (`BlockInv`).  An operation breaks all of this half way: the parts take the node whose successor does not know it yet, the node
  that may lie beside a free one, and the set of nodes that are listed, as arguments, and there is a lemma
  for each operator (`AlignLemma`, `SplitLemma`, `MergePrevLemma`, `MergeNextLemma`), which says how they hand them on
  (`Loose`).  They rest on what cutting a node in two, moving the cut and joining two does to a row (`RowCut`, `RowShift`, `RowJoin`).
  heap_used_ is compared with the number of units not covered by listed nodes, so that linking and unlinking
  are the taking and adding of an interval.  `RoomIsFound` rests on `GetBucketIndex` being monotone.  That the
  first allocation stays in front of all nodes is needed twice: the gap before an aligned block always has
  a node in use before it, and that first node is never a caller's.
* `DriversProofs`: `MenusAlone` (one menu is enabled), `EveryWayEndsInMain` and `DriversTypes`; and, for any length of the list and any number of faults,
  `DriversAreDurable`, `PickIsInTheList`, `EntriesStandForDrivers` (from `SavComesFirst` and `NamesAndFiles`) and `DeleteTakesOne`.  None of these is inductive: while a
  handler runs, what they say is on its way.  `IInv` adds that `players.dir` is only opened to be
  written next with the list in memory (`JobsInv`), that the list is on disk or still to be written
  (`SavedInv`), and that a driver has its `.sav` or is about to get it first of all (`MadeInv`).
  Every action that takes jobs away takes a piece of the sequence that keeps what belongs together
  (`Shifted`, `ShiftedJobs`).  `RemovedFacts` says what RemovePlayer leaves; that the first entry of a name
  exists at all rests on `LeastExists`.  For the way back, `WayInv` says of every set of menus PREV does not lead out
  of that it has the main menu in it, if it has any menu that was entered: the way to a menu is written once, from one that has a way.

* `BangersProofs`: for any props, rooms, parts and sizes of the pool, the ring and the tables,
  `PoolStaysConsistent`, `RoomsStaySound`, `MoversStayServed`, `PartsStayServed` and `PartsAreLeftBehind`.  The first three would not all be true in the middle of an operation,
  so the invariant `Good(w, X, loose)` is about any record that an operator takes or gives and has
  two parameters: the entity `loose` serves nobody but is still in use (between the two halves of DetachMe, or while a full pool gives it
  on), and the props of `X` are being struck and may have an entity without being hit bangers.  It adds what the properties do not say:
  a mover that is on is the first of its instance, which is the one GetInstMover finds, and its entity serves
  that instance (`Driven`); a prop keeps the number of its chain for good (`Chains`), and also a hit banger that lies nowhere can be hit (`Settled`).  During
  Update nobody is attached, so that what is served then are hit bangers (`Fresh`).  There is a lemma for each operator, and the loops of
  Impact, PermRooms and Reset run over functions whose existence and invariant follow by the least counterexample.
  `PartsStayServed` follows Impact part by part.  The entities that are free or at rest are counted (`IdleCount`): a part
  takes at most one of them, and while there is one the pool gives away nothing else, so what the parts before have
  is kept (`Kept`).  The ring could take it back instead, but it gives no banger twice in one Impact
  (`RoundFacts`), since no prop has more parts than the ring has bangers.
  `PartsAreLeftBehind` follows it with the pool full and nobody at rest: there is one entity, the last of the array, that goes from the prop to each part in turn
  (`BreakStarves`), and no other part has one before.

* `StreamsProofs`: for any archive, members, capacities of the buffers, pieces and sizes of calls, `StreamsTypes`,
  `BuffersStaySound` and `FilesAreStored`, the refinement of `StoredFile`.  The invariant is about any world that an operator
  takes or gives, since the calls are composed of others (`Good(w, md, g)`): a stream's buffer is a window on its file
  (`Reads`), or holds bytes that follow where the handle stands (`Writes`), and `position_`, what was read and `g`, the bytes of
  large writes that the code does not count, add up to the handle (`Base`).  In an archive nothing is said of where the base stands, so that any member may have moved it
  since the last call; each member's buffer mirrors its own part of the archive.  One more conjunct says that a byte just
  read can be put back (`Returnable`), which UnGetCh needs.  A call that only reads is shown to keep what all
  others see and to take its own cursor to a place that is said (`Moved`); a call that writes lays its bytes over the file,
  and that two overlays in a row are one, wherever the buffer is flushed between them, is `OverlayTwice` and `OverlayIsPut`.
  Gets and Vscanf are loops over GetCh: where each loop is after `i` bytes is a predicate (`LineState`, `SkipState`), which holds at every `i` because
  there is no least one at which it fails.  `CrashRemains` says which prefix of the last buffer is on disk.  `BuffersAreSound` alone is
  not inductive: it does not say where the handle is while bytes wait, nor that a byte can go back.  The refinement did not hold for every value of the
  constants before: GetCh reads one byte whatever the sizes are that callers ask for, so `StoredFile` has to allow reads of one byte whatever `Sizes` is.
  `StreamsAssumption` gives a file's own buffer more than one byte: the archives and the files that
  `arts_fopen` and `OpenFile` open have 4096 (`stream.cpp:495`, `fsystem.cpp:294`).  A member's may have none.  A file that lies outside all archives
  and is opened with none (`OpenAny(..., 0)` in `vehinfo.cpp:36`, `texsheet.cpp:98`, `getmesh.cpp:68`) is not covered by the run or the proofs.

Only model-checked: liveness under fairness (`Progress`, `EveryWaiterEnters`, `RequestsEnd`, `TempsLeave`), which this prover does not reach.
Every other property of a passing run, and both refinements, are proved.

## 4. Plan and what is not modelled

Done: the queue and its abstract specification, the lock, the cache, paging, the allocator, the streams
and theirs, menus and drivers, bangers; the proofs of section 3.

Hazards that the code has and nothing here covers yet, with the reason:
* `data7/ipc.cpp:189`: in a blocking queue, senders waiting for space and senders waiting for their
  message share one condition variable.  Nobody uses the mode; see the findings of `MessageQueue`.
* `agi/texdef.cpp:336` and `:127`: a texture destroyed while its page-in is queued, and the palette queue
  `lutQ` of the software renderer, full or shared without a lock.  Left out of `Paging`, whose
  objects live for ever and are those of the OpenGL renderer.
* `memory/allocator.cpp:274`: on a 64-bit build the two links of a free node need 16 bytes and
  `MinAllocSize` is 8.  `Allocator` has the 32-bit layout, for which the repository is built.
* `eventq7/eventq.cpp:141`: the event ring masks with `max_events_ - 1`; right for powers of two, which
  is what is passed.
* `mmgame/netobject.cpp:109`: an update that arrives twice passes the test for old ones, and a sender
  whose counter starts anew is ignored.  The transport is DirectPlay and the session is in the
  original binary, so there is no code to compare the other half of a model with.
* `mmcityinfo/playerdir.cpp:84`: the same numbering as in `mmui/driver.cpp`; nothing uses this class.
* `arts7/node.cpp:236`: InsertChild, and a child that changes the list its parent goes over.

Not modelled: rendering, the dynamics of physics, cars and traffic, audio, video, input, file formats, and the
original code in `game.asm`: numeric, driver calls, or not in a language a model could be compared
with.  They are most of the repository's lines: what is mapped is the state that is shared, kept, or lost.
The reasons are with each component in `PROJECT.json`.
