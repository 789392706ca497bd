------------------------------- MODULE Paging -------------------------------
(***************************************************************************)
(* How a mesh or a texture gets into a DataCache and out of it again       *)
(* (agiMeshSet in agiworld/meshset.cpp, meshload.cpp and meshrend.cpp,     *)
(* agiTexDef in agi/texdef.cpp, agiGLTexDef in agigl/gltexdef.cpp).  The   *)
(* main thread draws, asks PAGER for what is not resident and ages the     *)
(* cache; the pager thread runs the requests one by one.  PAGER is taken   *)
(* for the FIFO that MessageQueue is shown to implement.  A step of the    *)
(* main thread is one unlocked read or one call into the cache.  An object *)
(* is there for good: the destructor of a texture, which calls Free, is    *)
(* left out here, and Free is checked in DataCache alone.                  *)
(***************************************************************************)
EXTENDS DataCache, Sequences

CONSTANTS Other,       \* a request for something kept in another cache
          QueueMax     \* how many requests PAGER holds

ASSUME PagingAssumption ==
    /\ Other \notin Clients /\ Other # NoClient
    /\ QueueMax \in Nat \ {0}

VARIABLES resident,  \* Resident, page_state_: 0 out, 1 paging in, 2 in
          queue,     \* the requests PAGER holds
          job, ppc,  \* the pager's request and where it is in DoPageIn
          mpc,       \* where the main thread is
          target,    \* the object it draws
          locked     \* did its LockIfResident take a lock?

main   == <<mpc, target, locked>>
paging == <<resident, queue, job, ppc, main>>
allVars == <<vars, paging>>

MainLabels  == {"idle", "aging", "handle", "lock", "use", "send", "pageIn",
                "cleaning", "quit"}
PagerLabels == {"wait", "begin", "failed", "fill", "mark", "end"}

\* PageOutCallback: an object that loses its handle is not resident.
\* (Mutant: the callback only clears the pointers.)
NotTold == UNCHANGED resident
Told == resident' = [c \in Clients |-> IF handle[c] # 0 /\ handle'[c] = 0
                                       THEN 0 ELSE resident[c]]

PagingInit ==
    /\ Init
    /\ resident = [c \in Clients |-> 0]
    /\ queue = <<>> /\ job = NoClient /\ ppc = "wait"
    /\ mpc = "idle" /\ target = NoClient /\ locked = FALSE

MainGoto(label)  == mpc' = label
MainIdle         == mpc' = "idle" /\ target' = NoClient /\ locked' = FALSE
PagerGoto(label) == ppc' = label

\* Send waits for space in the queue.  (Mutant: it does not.)
NeverFull == TRUE
HasSpace  == Len(queue) < QueueMax
-----------------------------------------------------------------------------
\* Main: CACHE.Init, and the end of a game: PAGER.Shutdown, which returns when
\* every request has run, then CACHE.Shutdown.
StartCache == mpc = "idle" /\ Open /\ UNCHANGED paging

StopCache ==
    /\ mpc = "idle" /\ queue = <<>> /\ ppc = "wait"
    /\ Shutdown /\ Told
    /\ UNCHANGED <<queue, job, ppc, main>>

\* Once a frame: CACHE.Age.
FrameAge ==
    /\ mpc = "idle" /\ AgeBegin /\ MainGoto("aging")
    /\ UNCHANGED <<resident, queue, job, ppc, target, locked>>
FrameAging ==
    /\ mpc = "aging" /\ Aging /\ Told
    /\ mpc' = IF cs' = "free" THEN "idle" ELSE "aging"
    /\ UNCHANGED <<queue, job, ppc, target, locked>>

\* LockIfResident, first read: Resident > 1.  (DrawLitEnv, which calls DrawLit
\* with its lock held, locks once more; that is not modelled.)
DrawTest(c) ==
    /\ cs # "closed" /\ mpc = "idle" /\ WasteBound
    /\ target' = c
    /\ MainGoto(IF resident[c] = 2 THEN "handle" ELSE "pageIn")
    /\ UNCHANGED <<vars, resident, queue, job, ppc, locked>>

\* PageIn, when LockIfResident has failed, tests the state again.  (Mutant:
\* it does not.)
PagesOut(c)  == TRUE
IsPagedOut(c) == resident[c] = 0
DrawPageIn ==
    /\ mpc = "pageIn"
    /\ IF IsPagedOut(target)
       THEN /\ HasSpace
            /\ resident' = [resident EXCEPT ![target] = 1]
            /\ queue' = Append(queue, target)
       ELSE UNCHANGED <<resident, queue>>
    /\ MainIdle
    /\ UNCHANGED <<vars, job, ppc>>

\* LockIfResident, second read: without a handle there is nothing to lock.
DrawHandle ==
    /\ mpc = "handle"
    /\ MainGoto(IF handle[target] = 0 THEN "use" ELSE "lock")
    /\ UNCHANGED <<vars, resident, queue, job, ppc, target, locked>>

\* The assertion in Lock that there is a handle, or the one in Geometry that
\* the mesh is resident, ends the program.
DrawQuit ==
    /\ \/ mpc = "lock" /\ handle[target] = 0
       \/ mpc = "use" /\ target \notin Textures /\ resident[target] # 2
    /\ MainGoto("quit")
    /\ UNCHANGED <<vars, resident, queue, job, ppc, target, locked>>

DrawLock ==
    /\ mpc = "lock" /\ Lock(target)
    /\ MainGoto("use") /\ locked' = TRUE
    /\ UNCHANGED <<resident, queue, job, ppc, target>>

\* What is drawn may need something else paged in, while it is locked.
DrawSend ==
    /\ mpc = "use" /\ locked /\ MainGoto("send")
    /\ UNCHANGED <<vars, resident, queue, job, ppc, target, locked>>
DrawSent ==
    /\ mpc = "send" /\ HasSpace
    /\ queue' = Append(queue, Other) /\ MainGoto("use")
    /\ UNCHANGED <<vars, resident, job, ppc, target, locked>>

\* Unlock reads the handle again.  (Mutant: the lock is not given up.)
KeepLock(c) == UNCHANGED vars
GiveUp(c)   == IF handle[c] = 0 THEN UNCHANGED vars ELSE Unlock(c)
DrawUnlock ==
    /\ mpc = "use" /\ target \notin Textures /\ resident[target] = 2
    /\ GiveUp(target)
    /\ MainIdle
    /\ UNCHANGED <<resident, queue, job, ppc>>

\* An OpenGL texture is uploaded, which clears page_state_, and freed; one
\* that has no data any more is read from its file instead.
DrawUpload ==
    /\ mpc = "use" /\ target \in Textures /\ handle[target] # 0
    /\ UnlockAndFree(target) /\ MainGoto("cleaning")
    /\ resident' = [resident EXCEPT ![target] = 0]
    /\ UNCHANGED <<queue, job, ppc, target, locked>>
DrawReload ==
    /\ mpc = "use" /\ target \in Textures /\ handle[target] = 0
    /\ resident' = [resident EXCEPT ![target] = 0]
    /\ MainIdle
    /\ UNCHANGED <<vars, queue, job, ppc>>
DrawCleaning ==
    /\ mpc = "cleaning" /\ Aging
    /\ IF cs' = "free" THEN MainIdle ELSE UNCHANGED main
    /\ UNCHANGED <<resident, queue, job, ppc>>
-----------------------------------------------------------------------------
\* The pager takes a request and reads the file, without any lock.
PagerTake ==
    /\ ppc = "wait" /\ queue # <<>>
    /\ queue' = Tail(queue)
    /\ IF Head(queue) = Other THEN UNCHANGED <<job, ppc>>
                              ELSE job' = Head(queue) /\ PagerGoto("begin")
    /\ UNCHANGED <<vars, resident, main>>

\* BeginObject, which may page out another object.
PagerBegin ==
    /\ ppc = "begin"
    /\ BeginAppend(job) \/ BeginReuse(job)
    /\ Told /\ PagerGoto("fill")
    /\ UNCHANGED <<queue, job, main>>

PagerFail ==
    /\ ppc = "begin" /\ BeginFail(job)
    /\ PagerGoto("failed")
    /\ UNCHANGED <<resident, queue, job, main>>

\* After a failure the object may be asked for again.  (Mutant: it stays in
\* the state "paging in".)
StuckState == 1
FailState  == 0
PagerGiveUp ==
    /\ ppc = "failed"
    /\ resident' = [resident EXCEPT ![job] = FailState]
    /\ job' = NoClient /\ PagerGoto("wait")
    /\ UNCHANGED <<vars, queue, main>>

PagerFill ==
    /\ ppc = "fill" /\ Fill(job)
    /\ PagerGoto("mark")
    /\ UNCHANGED <<resident, queue, job, main>>

\* The state is set before EndObject.
PagerMark ==
    /\ ppc = "mark"
    /\ resident' = [resident EXCEPT ![job] = 2]
    /\ PagerGoto("end")
    /\ UNCHANGED <<vars, queue, job, main>>

PagerEnd ==
    /\ ppc = "end" /\ EndObject(job)
    /\ job' = NoClient /\ PagerGoto("wait")
    /\ UNCHANGED <<resident, queue, main>>

PagerNext == /\ mpc # "quit"
             /\ \/ PagerTake \/ PagerBegin \/ PagerFail \/ PagerGiveUp
                \/ PagerFill \/ PagerMark \/ PagerEnd
DrawNext  == DrawPageIn \/ DrawHandle \/ DrawQuit \/ DrawLock \/ DrawSent
             \/ DrawUnlock \/ DrawUpload \/ DrawReload \/ DrawCleaning
             \/ FrameAging
MainNext  == \/ StartCache \/ StopCache \/ FrameAge \/ DrawNext \/ DrawSend
             \/ \E c \in Clients : DrawTest(c)

PagingNext == PagerNext \/ MainNext
PagingSpec == PagingInit /\ [][PagingNext]_allVars

\* Both threads run; what the main thread draws, and when, is up to the game.
PagingFairness == WF_allVars(PagerNext) /\ WF_allVars(DrawNext)
PagingFairSpec == PagingSpec /\ PagingFairness
-----------------------------------------------------------------------------
\* Every variable of this module holds a value of its type.
PagingTypeOK ==
    /\ resident \in [Clients -> 0 .. 2]
    /\ queue \in Seq(Clients \cup {Other}) /\ Len(queue) <= QueueMax
    /\ job \in Clients \cup {NoClient} /\ ppc \in PagerLabels
    /\ mpc \in MainLabels /\ target \in Clients \cup {NoClient}
    /\ locked \in BOOLEAN

Requests(c) == {i \in 1 .. Len(queue) : queue[i] = c}

\* A request is in flight exactly while the object's state says so, and never
\* twice: whoever sees state 0 may ask, and nobody else does.
OneRequest ==
    \A c \in Clients :
       LET running == job = c /\ ppc # "end" IN
       /\ (resident[c] = 1) <=> (Requests(c) # {} \/ running)
       /\ Cardinality(Requests(c)) <= IF running THEN 0 ELSE 1

\* The pager never begins an object that is in the cache already, which would
\* leave the old one there with nobody to free it.
BeginsFresh == ppc = "begin" => handle[job] = 0 /\ pointer[job] = Null

\* No object is asked for twice, in the queue or in the cache.
RequestedOnce == OneRequest /\ BeginsFresh

\* An object marked resident is in the cache with its data, and one that is
\* marked absent has left nothing behind.
ResidentMeansData ==
    \A c \in Clients :
       /\ resident[c] = 2 => handle[c] # 0 /\ pointer[c] # Null
       /\ resident[c] = 0 => handle[c] = 0 /\ pointer[c] = Null

\* What the main thread has locked stays usable until it gives it up,
\* whatever the pager begins, replaces or ends meanwhile.
LockedIsUsable ==
    mpc \in {"use", "send"} /\ locked =>
       /\ resident[target] = 2 /\ pointer[target] # Null
       /\ slots[handle[target]].locks > 0 /\ objectLock = Main

\* When the main thread ages the cache nothing is locked: Age never quits
\* the program ("object still locked").
AgeNeverQuits == mpc = "idle" /\ cs \in {"free", "closed"} => objectLocks = 0

\* The main thread's locks hold as long as it needs them, and no longer.
LocksLast == LockedIsUsable /\ AgeNeverQuits

\* Every request ends, unless the program does: the object is resident or may
\* be asked for again.
RequestsEnd ==
    \A c \in Clients : resident[c] = 1 ~> resident[c] # 1 \/ mpc = "quit"

\* "Invalid Handle": Lock is never called without a handle.
LockHasHandle == mpc = "lock" => handle[target] # 0
=============================================================================
