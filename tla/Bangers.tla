------------------------------ MODULE Bangers ------------------------------
(***************************************************************************)
(* The props that a car can knock over (mmbangers).  A prop that stands is *)
(* an unhit banger.  When it is hit an entity of a small pool is attached  *)
(* to it, and Impact turns it into one or more hit bangers, which come     *)
(* from a ring that hands out its oldest member again.  When all entities  *)
(* are in use the pool gives away the one that has rested longest, also    *)
(* while Impact still holds one.  Around them: the chains of instances of  *)
(* each room (instchn.cpp, cullcity.cpp) and the frame's table of movers   *)
(* and active rooms (phys.cpp).  The frame of the physics, its collisions, *)
(* the timer of the bodies and the Resets of ring and props are in         *)
(* game.asm.  Of a body only Counter is kept: how long it has moved too    *)
(* slowly to stay awake.  FinishForces adds to it or sets it to 0 whenever *)
(* the body is updated, and Attach to 0; `resting' is who has more than 0, *)
(* and any of them may have the most.  A paused frame changes nothing here. *)
(***************************************************************************)
EXTENDS Integers, Sequences, FiniteSets, FiniteSetsExt, Functions

CONSTANTS MaxActive, \* MAX_ACTIVE_BANGERS, the entities of the pool
          MaxHit,    \* MAX_HIT_BANGERS, the members of the ring
          MaxMovers, \* MAX_MOVERS
          MaxRooms,  \* MAX_ACTIVE_ROOMS
          Rooms,     \* the cells of the city
          Near,      \* the neighbours of each room, in the order of the web
          Unhit,     \* the props of the city
          Home,      \* the room each of them stands in
          Kind,      \* what each becomes when it has no parts
          Parts,     \* the kinds of the parts it breaks into
          Car        \* a vehicle, which is a mover of its own

\* CollisionType: 1 is updated by the pool itself, 6 is a mover that keeps its
\* surroundings active, the others are movers that active rooms alone keep.
Kinds == {"own", "perm", "temp"}
Hit == 1..MaxHit
Inst == Hit \cup Unhit \cup {Car}
Entity == 1..MaxActive
Null == 0

ASSUME BangersAssumption ==
    /\ MaxActive \in Nat \ {0} /\ MaxHit \in Nat \ {0}
    /\ MaxMovers \in Nat \ {0} /\ MaxRooms \in Nat
    /\ Rooms \subseteq Nat /\ Near \in [Rooms -> Seq(Rooms)]
    /\ Home \in [Unhit -> Rooms] /\ Kind \in [Unhit -> Kinds]
    /\ \A u \in Unhit : Parts[u] \in Seq(Kinds) /\ Len(Parts[u]) <= MaxHit
    /\ Unhit \cap Hit = {} /\ Car \notin Hit \cup Unhit
    /\ Null \notin Inst /\ -1 \notin Rooms

VARIABLES s,      \* the pools, the instances and the movers
          rooms,  \* ActiveRooms
          phase,  \* of the frame: "cars", "update", "physics"
          i       \* the place Update's loop has reached

vars == <<s, rooms, phase, i>>

Init ==
    /\ s = [Active  |-> [p \in Entity |-> p], NumActive |-> 0,
            Target  |-> [b \in Entity |-> Null], resting |-> {},
            Owner   |-> [t \in Inst |-> Null],
            ChainId |-> [t \in Inst |-> IF t \in Unhit THEN Home[t] ELSE -1],
            chained |-> Unhit,           \* who is linked into the chain of its ChainId
            collider |-> Hit \cup Unhit, \* INST_FLAG_COLLIDER
            unhit   |-> Unhit,           \* INST_FLAG_UNHIT_BANGER
            kind    |-> [h \in Hit |-> "temp"],
            NextBanger |-> 1, Movers |-> <<>>,
            failed  |-> FALSE]           \* an ArAssert failed
    /\ rooms = {} /\ phase = "cars" /\ i = 1
-----------------------------------------------------------------------------
(* Chains of instances *)

\* A new parent for an instance that has none.
Parent(w, t, r) ==
    [w EXCEPT !.failed = @ \/ w.ChainId[t] # -1, !.chained = @ \cup {t}, !.ChainId[t] = r]

\* An instance without a parent has none to leave; one that only has the number
\* of a chain takes the neighbours out that it had.
Unparent(w, t) ==
    [w EXCEPT !.failed = @ \/ t \notin w.chained, !.chained = @ \ {t}, !.ChainId[t] = -1]

\* Where the instance is now: a room, or -1 outside of all, where it stays put.
ReparentObject(w, t, r) ==
    IF r \in {-1, w.ChainId[t]} THEN w
    ELSE Parent(IF w.ChainId[t] = -1 THEN w ELSE Unparent(w, t), t, r)
-----------------------------------------------------------------------------
(* Movers.  DeclareMover sets the flags that make the frame update a mover; *)
(* NewMover leaves those of the slot, which the frame before has cleared.   *)

\* GetInstMover: the place of the instance's first mover, or 0.
Places(w, t) == {k \in DOMAIN w.Movers : w.Movers[k].inst = t}
GetInstMover(w, t) == IF Places(w, t) = {} THEN 0 ELSE Min(Places(w, t))

IgnoreMover(w, t) ==
    LET k == GetInstMover(w, t)
    IN  IF k = 0 THEN w ELSE [w EXCEPT !.Movers[k].on = FALSE]

AddMover(w, t, on) ==
    IF Len(w.Movers) >= MaxMovers THEN w
    ELSE [w EXCEPT !.Movers = Append(@, [inst |-> t, ent |-> w.Owner[t], on |-> on])]

SetInstance(w, t) ==
    LET k == GetInstMover(w, t)
    IN  IF k = 0 THEN AddMover(w, t, FALSE)
        ELSE [w EXCEPT !.Movers[k].ent = w.Owner[t]]

\* NewMover of two: they collided, and one of them had no entity until then.
CollidedMover(w, t, other) ==
    IF GetInstMover(w, t) = 0 THEN w ELSE SetInstance(SetInstance(w, t), other)

\* NewMover of three: a hit banger comes into the frame.
HitMover(w, t, other) ==
    IF GetInstMover(w, other) = 0 THEN w ELSE AddMover(w, t, FALSE)

DeclaredMover(w, t) ==
    LET k == GetInstMover(w, t)
    IN  IF k = 0 THEN AddMover(w, t, TRUE) ELSE [w EXCEPT !.Movers[k].on = TRUE]
-----------------------------------------------------------------------------
(* The pool of entities *)

InUse(w) == {w.Active[p] : p \in 1..w.NumActive}

\* (Mutants: the mover of a banger that lost its entity is not ignored; and the
\* banger does not collide again.)
ActiveDetachKeepsMover(w, b) ==
    LET t == w.Target[b]
    IN  IF t = Null THEN w
        ELSE [w EXCEPT !.collider = @ \cup {t}, !.Owner[t] = Null, !.Target[b] = Null]
ActiveDetachPassable(w, b) ==
    LET t == w.Target[b]
    IN  IF t = Null THEN w
        ELSE [IgnoreMover(w, t) EXCEPT !.Owner[t] = Null, !.Target[b] = Null]
ActiveDetach(w, b) ==   \* what Counter is left with matters to nobody
    LET t == w.Target[b]
    IN  IF t = Null THEN w
        ELSE [IgnoreMover(w, t) EXCEPT
                  !.collider = @ \cup {t}, !.Owner[t] = Null, !.Target[b] = Null,
                  !.resting = @ \ {b}]

ActiveAttach(w, b, t) ==
    [w EXCEPT !.collider = @ \ {t}, !.Owner[t] = b, !.Target[b] = t, !.resting = @ \ {b}]

\* The last one in use moves to the place of the one that leaves.
PoolDetach(w, b) ==
    LET n == w.NumActive
        p == CHOOSE q \in 1..n : w.Active[q] = b
    IN  IF b \notin InUse(w) THEN w
        ELSE [w EXCEPT !.NumActive = n - 1, !.Active[p] = w.Active[n], !.Active[n] = b]

DetachMe(w, b) == PoolDetach(ActiveDetach(w, b), b)

\* The one that is replaced has the highest Counter, or is the last of them if
\* none rests.  (Mutant: the lowest.)
Youngest(w) == IF Entity \subseteq w.resting THEN Entity ELSE Entity \ w.resting
Oldest(w) == IF w.resting = {} THEN {w.Active[MaxActive]} ELSE w.resting

\* What Attach of the pool may leave behind, once per entity it may choose.
PoolAttach(w, t) ==
    IF \E b \in InUse(w) : w.Target[b] = t THEN {w}
    ELSE IF w.NumActive < MaxActive
         THEN {ActiveAttach([w EXCEPT !.NumActive = @ + 1], w.Active[w.NumActive + 1], t)}
         ELSE {ActiveAttach(ActiveDetach(w, b), b, t) : b \in Oldest(w)}

AttachEntity(w, t) == IF w.Owner[t] # Null THEN {w} ELSE PoolAttach(w, t)
-----------------------------------------------------------------------------
(* The ring of hit bangers, and Impact *)

\* (Mutants: the ring ends one late; the entity stays attached; and the banger
\* stays in its chain.)
GetBangerWrapsLate(w) ==
    LET h == w.NextBanger
        x == [w EXCEPT !.NextBanger = IF h > MaxHit THEN 1 ELSE h + 1]
        y == IF x.Owner[h] = Null THEN x ELSE DetachMe(x, x.Owner[h])
    IN  IF y.ChainId[h] = -1 THEN y ELSE Unparent(y, h)
GetBangerServed(w) ==
    LET h == w.NextBanger
        x == [w EXCEPT !.NextBanger = (h % MaxHit) + 1]
    IN  IF x.ChainId[h] = -1 THEN x ELSE Unparent(x, h)
GetBangerChained(w) ==
    LET h == w.NextBanger
        x == [w EXCEPT !.NextBanger = (h % MaxHit) + 1]
    IN  IF x.Owner[h] = Null THEN x ELSE DetachMe(x, x.Owner[h])
GetBanger(w) ==
    LET h == w.NextBanger
        x == [w EXCEPT !.NextBanger = (h % MaxHit) + 1]
        y == IF x.Owner[h] = Null THEN x ELSE DetachMe(x, x.Owner[h])
    IN  IF y.ChainId[h] = -1 THEN y ELSE Unparent(y, h)

\* The next hit banger, in the room of the prop it was.
NewHit(w, u, kind) ==
    LET h == w.NextBanger
    IN  [Parent(GetBanger(w), h, w.ChainId[u]) EXCEPT !.kind[h] = kind]

\* No parts: the hit banger takes over the entity of the prop.
Become(w, u, other) ==
    LET h == w.NextBanger
        b == w.Owner[u]
        x == NewHit(w, u, Kind[u])
    IN  HitMover([x EXCEPT !.Owner[h] = x.Owner[u], !.Owner[u] = Null, !.Target[b] = h], h, other)

\* Parts: each takes an entity of its own, which may be the one of the prop, and
\* then that one is detached, whatever it serves by then.
Part(w, u, kind, other) ==
    {HitMover(x, w.NextBanger, other) : x \in AttachEntity(NewHit(w, u, kind), w.NextBanger)}

NthPart(ws, n, u, other) == UNION {Part(x, u, Parts[u][n], other) : x \in ws}

\* (Mutant: the prop's entity is detached only if it still serves the prop.)
BreakDetachesOwn(w, u, other) ==
    LET after[n \in 0..Len(Parts[u])] ==
            IF n = 0 THEN {w} ELSE NthPart(after[n - 1], n, u, other)
    IN  {IF x.Owner[u] = Null THEN x ELSE DetachMe(x, x.Owner[u]) :
            x \in after[Len(Parts[u])]}
Break(w, u, other) ==
    LET after[n \in 0..Len(Parts[u])] ==
            IF n = 0 THEN {w} ELSE NthPart(after[n - 1], n, u, other)
    IN  {DetachMe(x, w.Owner[u]) : x \in after[Len(Parts[u])]}

\* A prop is struck, once an entity serves it.  It leaves its chain but keeps
\* the number; no flag brings it back before the Reset.
Impact(w, u, other) ==
    LET x == [Unparent(w, u) EXCEPT
                  !.failed = @ \/ w.Owner[u] = Null, !.unhit = @ \ {u},
                  !.ChainId[u] = w.ChainId[u]]
    IN  IF Parts[u] = <<>> THEN {Become(x, u, other)} ELSE Break(x, u, other)

\* Detach of a hit banger, which is the end of it until the ring comes round.
HitDetach(w, h) ==
    LET x == IF w.Owner[h] = Null THEN w ELSE DetachMe(w, w.Owner[h])
    IN  IF x.ChainId[h] = -1 THEN x ELSE Unparent(x, h)
-----------------------------------------------------------------------------
(* The frame: the vehicles declare themselves, the pool's Update goes over *)
(* the entities in use, then the physics moves and collides. *)

AddActiveRoom(rs, r) ==
    IF Cardinality(rs) < MaxRooms THEN rs \cup {r} ELSE rs

\* DeclareMover of a permanent mover, and of a temporary one.
\* (Mutant: a mover outside the active rooms is left alone.)
PermRooms(rs, r) ==
    LET after[n \in 0..Len(Near[r])] ==
            IF n = 0 THEN AddActiveRoom(rs, r) ELSE AddActiveRoom(after[n - 1], Near[r][n])
    IN  after[Len(Near[r])]

DeclareTempLeft(w, h) ==
    IF w.ChainId[h] \in rooms THEN DeclaredMover(w, h) ELSE w
DeclareTemp(w, h) ==
    IF w.ChainId[h] \in rooms THEN DeclaredMover(w, h) ELSE HitDetach(w, h)

\* The car is somewhere, or off the road and declares nothing.
CarDeclares ==
    /\ phase = "cars" /\ phase' = "update" /\ i' = 1
    /\ \/ UNCHANGED <<s, rooms>>
       \/ \E r \in Rooms : /\ rooms' = PermRooms(rooms, r)
                           /\ s' = DeclaredMover([s EXCEPT !.ChainId[Car] = r,
                                                           !.chained = @ \cup {Car}], Car)

\* Update and PostUpdate of an entity: its target moves, and then the entity is
\* detached if the body fell asleep or out of the world.
Moved(w, b, r) ==
    {[ReparentObject(w, w.Target[b], r) EXCEPT !.resting = x] :
        x \in {w.resting \ {b}, w.resting \cup {b}}}

Updated(w, b) ==
    UNION {Moved(w, b, r) \cup {DetachMe(ReparentObject(w, w.Target[b], r), b)} :
              r \in Rooms \cup {-1}}

Here == s.Active[i]

UpdateOwn ==
    /\ phase = "update" /\ i <= s.NumActive /\ s.Target[Here] \in Hit
    /\ s.kind[s.Target[Here]] = "own"
    /\ s' \in Updated(s, Here)
    /\ i' = i + 1 /\ UNCHANGED <<rooms, phase>>

UpdatePerm ==
    /\ phase = "update" /\ i <= s.NumActive /\ s.Target[Here] \in Hit
    /\ s.kind[s.Target[Here]] = "perm"
    /\ LET h == s.Target[Here]
       IN  IF s.ChainId[h] = -1 THEN s' = HitDetach(s, h) /\ UNCHANGED rooms
           ELSE s' = DeclaredMover(s, h) /\ rooms' = PermRooms(rooms, s.ChainId[h])
    /\ i' = i + 1 /\ UNCHANGED phase

UpdateTemp ==
    /\ phase = "update" /\ i <= s.NumActive /\ s.Target[Here] \in Hit
    /\ s.kind[s.Target[Here]] = "temp"
    /\ s' = DeclareTemp(s, s.Target[Here])
    /\ i' = i + 1 /\ UNCHANGED <<rooms, phase>>

\* The physics forgets the active rooms when its turn comes.
UpdateEnd ==
    /\ phase = "update" /\ i > s.NumActive
    /\ phase' = "physics" /\ rooms' = {} /\ UNCHANGED <<s, i>>

\* The physics updates a mover that is on, once for each sample of the frame.
MoverUpdate ==
    /\ phase = "physics"
    /\ \E k \in DOMAIN s.Movers :
           LET m == s.Movers[k]
           IN  /\ m.on /\ m.inst # Car
               /\ s' \in Updated(s, m.ent)
    /\ UNCHANGED <<rooms, phase, i>>

\* A mover that is on meets any collider, which gets an entity.  A prop is then
\* struck hard enough to come loose, or loses the entity again; a hit banger
\* joins the movers.
Others == {m.inst : m \in {n \in Range(s.Movers) : n.on}}

Collides(t, other) ==
    /\ phase = "physics" /\ other \in Others /\ t # other
    /\ t \in s.collider \cap s.chained /\ s.Owner[t] = Null

Strike(u, other) ==
    /\ Collides(u, other) /\ u \in s.unhit
    /\ s' \in UNION {Impact(x, u, other) : x \in AttachEntity(s, u)}
    /\ UNCHANGED <<rooms, phase, i>>

Touch(u, other) ==
    /\ Collides(u, other) /\ u \in s.unhit
    /\ s' \in {DetachMe(x, x.Owner[u]) : x \in AttachEntity(s, u)}
    /\ UNCHANGED <<rooms, phase, i>>

Push(h, other) ==
    /\ Collides(h, other) /\ h \in Hit
    /\ s' \in {CollidedMover(x, other, h) : x \in AttachEntity(s, h)}
    /\ UNCHANGED <<rooms, phase, i>>

\* Cull, after all have updated.
FrameEnd ==
    /\ phase = "physics" /\ phase' = "cars" /\ i' = 1
    /\ s' = [s EXCEPT !.Movers = <<>>] /\ UNCHANGED rooms

\* The game starts anew: the Resets of the pool, of the ring and of the props.  No
\* hit banger stays in a room; every prop stands again, though one that the pool
\* would update itself is not put back into its chain.
ResetLast(w) ==
    [ActiveDetach(w, w.Active[w.NumActive]) EXCEPT !.NumActive = @ - 1]

PoolReset(w) ==
    LET after[n \in 0..w.NumActive] == IF n = 0 THEN w ELSE ResetLast(after[n - 1])
    IN  after[w.NumActive]

Unchained == {u \in Unhit : Kind[u] = "own"}

Restart ==
    /\ phase = "cars"
    /\ s' = [PoolReset(s) EXCEPT
                 !.failed = @ \/ \E h \in Hit : s.ChainId[h] # -1 /\ h \notin s.chained,
                 !.ChainId = [t \in Inst |-> IF t \in Unhit THEN @[t] ELSE -1],
                 !.chained = (@ \cap Unhit) \cup (Unhit \ (s.unhit \cup Unchained)),
                 !.unhit = Unhit,
                 !.collider = @ \cup (Unhit \ s.unhit), !.NextBanger = 1]
    /\ UNCHANGED <<rooms, phase, i>>

StrikeNext == \E u \in Unhit, other \in Hit \cup {Car} : Strike(u, other)
TouchNext  == \E u \in Unhit, other \in Hit \cup {Car} : Touch(u, other)
PushNext   == \E h \in Hit, other \in Hit \cup {Car} : Push(h, other)

Next == \/ CarDeclares \/ UpdateOwn \/ UpdatePerm \/ UpdateTemp \/ UpdateEnd
        \/ MoverUpdate \/ StrikeNext \/ TouchNext \/ PushNext
        \/ FrameEnd \/ Restart

\* Frames follow one another; nothing need move, collide or start anew.
Frames == CarDeclares \/ UpdateOwn \/ UpdatePerm \/ UpdateTemp \/ UpdateEnd \/ FrameEnd

Spec == Init /\ [][Next]_vars /\ WF_vars(Frames)
-----------------------------------------------------------------------------
BangersTypeOK ==
    /\ s.Active \in [Entity -> Entity] /\ s.NumActive \in 0..MaxActive
    /\ s.Target \in [Entity -> Inst \cup {Null}] /\ s.resting \subseteq Entity
    /\ s.Owner \in [Inst -> Entity \cup {Null}]
    /\ s.ChainId \in [Inst -> Rooms \cup {-1}] /\ s.chained \subseteq Inst
    /\ s.collider \subseteq Inst /\ s.unhit \subseteq Unhit
    /\ s.kind \in [Hit -> Kinds] /\ s.NextBanger \in Hit
    /\ s.Movers \in Seq([inst : Inst, ent : Entity \cup {Null}, on : BOOLEAN])
    /\ Len(s.Movers) <= MaxMovers
    /\ rooms \subseteq Rooms /\ phase \in {"cars", "update", "physics"}
    /\ i \in 1..(MaxActive + 1)

\* Whatever is attached, evicted, handed on by Impact or taken back by the ring:
\* Active stays a permutation with exactly the serving entities in front, and an
\* entity and its target name each other.
PoolIsSound ==
    /\ {s.Active[p] : p \in Entity} = Entity
    /\ InUse(s) = {b \in Entity : s.Target[b] # Null}
    /\ \A b \in Entity, t \in Inst : s.Target[b] = t <=> s.Owner[t] = b

\* The pool, and everything that points into it, with their types.
PoolIsConsistent == BangersTypeOK /\ PoolIsSound

\* The assertions of the chains and of Impact hold, and an instance is linked
\* into a chain exactly when it has the number of one; only a prop that was
\* struck keeps the number of the chain it left, also after a Reset that does not
\* put it back.
ChainsAreSound ==
    /\ ~s.failed
    /\ \A t \in s.chained : s.ChainId[t] # -1 /\ (t \in Unhit => t \in s.unhit)
    /\ \A t \in Inst \ s.chained :
           s.ChainId[t] = -1 \/ t \in Unchained \/ (t \in Unhit /\ t \notin s.unhit)

\* A banger that lies in a room and has no entity can be hit again: none is left
\* behind that cars pass through.
SettledCollide ==
    \A t \in s.chained \ {Car} : s.Owner[t] = Null => t \in s.collider

\* What lies in a room is in its chain, once, and can be hit.
RoomsAreSound == ChainsAreSound /\ SettledCollide

\* Pool Update finds no prop among its targets, as it asserts, and every mover
\* that the physics is still to update is updated by the entity that serves it.
MoversAreServed ==
    /\ phase # "physics" => \A b \in InUse(s) : s.Target[b] \in Hit
    /\ \A k \in DOMAIN s.Movers :
           LET m == s.Movers[k]
           IN  m.on /\ m.inst # Car => m.ent # Null /\ s.Target[m.ent] = m.inst

\* The hit bangers that the parts of a prop become, or the prop itself.
NewHits(u) == {((s.NextBanger + n - 1) % MaxHit) + 1 : n \in 0..(Max({1, Len(Parts[u])}) - 1)}
Struck(u) == u \in s.unhit /\ u \notin s'.unhit

\* As long as the pool has enough entities that are free or rest, every part of
\* a struck prop keeps the entity it got.
PartsKeepEntities ==
    [][\A u \in Unhit :
           /\ Struck(u)
           /\ MaxActive - s.NumActive + Cardinality(InUse(s) \cap s.resting) > Len(Parts[u])
           => \A h \in NewHits(u) : s'.Owner[h] # Null]_vars

\* When the pool is full and everything moves, "the oldest" is who was attached
\* last.  The prop and its parts take the same entity from each other and Impact
\* detaches it at the end: no part has one, and all hang in the air where the prop
\* stood.  (Unless the ring takes a banger back that is served.)
PartsStayBehind ==
    [][\A u \in Unhit :
           /\ Struck(u) /\ Parts[u] # <<>>
           /\ s.NumActive = MaxActive /\ s.resting = {}
           /\ \A h \in NewHits(u) : s.Owner[h] = Null
           => \A h \in NewHits(u) : s'.Owner[h] = Null]_vars

\* The loop of Update passes over the entity that moved into the place of one it
\* detached, so a banger may be late, but never for good: each temporary mover
\* is again and again without an entity, or in a room that is active.
TempsLeave ==
    \A h \in Hit :
        []<>(s.Owner[h] = Null \/ s.kind[h] # "temp" \/ s.ChainId[h] \in rooms)
=============================================================================
