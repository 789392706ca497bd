----------------------------- MODULE BangersProofs -----------------------------
(***************************************************************************)
(* What is proved about Bangers, for any props, parts, rooms, entities and *)
(* lengths of the ring and the tables.  The operators of Bangers take a    *)
(* world, as `s' is one, and return one: for each there is a lemma that    *)
(* says what it keeps of `Good' and what else it does to the world.        *)
(***************************************************************************)
EXTENDS Bangers, ListLemmas

Mover == [inst : Inst, ent : Entity \cup {Null}, on : BOOLEAN]

World ==
    [Active : [Entity -> Entity], NumActive : 0..MaxActive,
     Target : [Entity -> Inst \cup {Null}], resting : SUBSET Entity,
     Owner : [Inst -> Entity \cup {Null}], ChainId : [Inst -> Rooms \cup {-1}],
     chained : SUBSET Inst, collider : SUBSET Inst, unhit : SUBSET Unhit,
     kind : [Hit -> Kinds], NextBanger : Hit, Movers : Seq(Mover), failed : BOOLEAN]

\* Active is a permutation.  In front are the entities that serve somebody,
\* and `loose', which has just been taken from one or is about to be given to one.
Pool(w, loose) ==
    /\ \A p, q \in Entity : w.Active[p] = w.Active[q] => p = q
    /\ \A b \in Entity : \E p \in Entity : w.Active[p] = b
    /\ \A p \in Entity :
           p <= w.NumActive <=> w.Target[w.Active[p]] # Null \/ w.Active[p] = loose
    /\ loose # Null => w.Target[loose] = Null
    /\ \A b \in Entity, t \in Inst : w.Target[b] = t <=> w.Owner[t] = b

\* Only hit bangers are served, and what is in X while it is struck.
Served(w, X) == \A t \in Inst \ (Hit \cup X) : w.Owner[t] = Null

\* No assertion failed, and props keep the number of their chain for good.
Chains(w) ==
    /\ ~w.failed
    /\ \A t \in w.chained : w.ChainId[t] # -1 /\ (t \in Unhit => t \in w.unhit)
    /\ \A t \in Inst \ w.chained :
           w.ChainId[t] = -1 \/ t \in Unchained \/ (t \in Unhit /\ t \notin w.unhit)
    /\ \A u \in Unhit : w.ChainId[u] # -1

\* What has no entity can be hit, also a hit banger that lies nowhere.
Settled(w) == \A t \in Hit \cup w.unhit : w.Owner[t] = Null => t \in w.collider

\* A mover that is on is the one that GetInstMover finds.
Driven(w) ==
    \A k \in DOMAIN w.Movers :
        w.Movers[k].on =>
            /\ w.Movers[k].inst \in Hit \cup {Car}
            /\ \A j \in DOMAIN w.Movers : w.Movers[j].inst = w.Movers[k].inst => k <= j
            /\ w.Movers[k].inst # Car =>
                   /\ w.Movers[k].ent # Null
                   /\ w.Target[w.Movers[k].ent] = w.Movers[k].inst

\* While Update declares movers nobody is attached, so the movers it finds
\* have the entities of now.
Fresh(w) ==
    \A k \in DOMAIN w.Movers :
        w.Movers[k].inst # Car /\ w.Owner[w.Movers[k].inst] # Null =>
            w.Movers[k].ent = w.Owner[w.Movers[k].inst]

Good(w, X, loose) ==
    /\ w \in World /\ Len(w.Movers) <= MaxMovers
    /\ Pool(w, loose) /\ Served(w, X) /\ Chains(w) /\ Settled(w) /\ Driven(w)

FrameOK ==
    /\ rooms \subseteq Rooms /\ phase \in {"cars", "update", "physics"}
    /\ i \in 1..(MaxActive + 1)
    /\ phase = "cars" => s.Movers = <<>>
    /\ phase = "update" => Fresh(s)

\* The inductive invariant.
IInv == Good(s, {}, Null) /\ FrameOK
-----------------------------------------------------------------------------
(* Worlds *)

\* What the assumption says of ids and bounds.
LEMMA Ids ==
    /\ MaxActive \in Nat \ {0} /\ MaxHit \in Nat \ {0} /\ MaxMovers \in Nat \ {0}
    /\ MaxRooms \in Nat /\ Null \notin Entity /\ Null \notin Inst /\ Null = 0
    /\ Hit \subseteq Inst /\ Unhit \subseteq Inst /\ Car \in Inst
    /\ Unhit \cap Hit = {} /\ Car \notin Hit /\ Car \notin Unhit
    /\ Inst = Hit \cup Unhit \cup {Car} /\ -1 \notin Rooms /\ Unchained \subseteq Unhit
  BY BangersAssumption DEF Null, Entity, Inst, Unchained

\* Two worlds that differ in their movers at most.
SameBut(x, w) ==
    /\ x.Active = w.Active /\ x.NumActive = w.NumActive /\ x.Target = w.Target
    /\ x.resting = w.resting /\ x.Owner = w.Owner /\ x.ChainId = w.ChainId
    /\ x.chained = w.chained /\ x.collider = w.collider /\ x.unhit = w.unhit
    /\ x.kind = w.kind /\ x.NextBanger = w.NextBanger /\ x.failed = w.failed

\* A world with another list of movers.
LEMMA MoversSet ==
    ASSUME NEW w \in World, NEW ms \in Seq(Mover), NEW x, x = [w EXCEPT !.Movers = ms]
    PROVE  x \in World /\ x.Movers = ms /\ SameBut(x, w)
  BY DEF World, SameBut

\* What a change of the movers keeps, as long as they are driven right.
LEMMA MoversGood ==
    ASSUME NEW w, NEW X, NEW b, Good(w, X, b), NEW x \in World, SameBut(x, w),
           Len(x.Movers) <= MaxMovers, Driven(x)
    PROVE  Good(x, X, b)
  BY DEF Good, SameBut, Pool, Served, Chains, Settled

-----------------------------------------------------------------------------
(* Movers *)

\* A mover of the world is a record with its fields.
LEMMA MoverFacts ==
    ASSUME NEW w \in World
    PROVE  /\ w.Movers \in Seq(Mover) /\ Len(w.Movers) \in Nat
           /\ DOMAIN w.Movers = 1..Len(w.Movers)
           /\ \A k \in DOMAIN w.Movers :
                  /\ w.Movers[k] \in Mover /\ w.Movers[k].inst \in Inst
                  /\ w.Movers[k].ent \in Entity \cup {Null} /\ w.Movers[k].on \in BOOLEAN
<1>1. w.Movers \in Seq(Mover)
  BY DEF World
<1>2. /\ Len(w.Movers) \in Nat /\ DOMAIN w.Movers = 1..Len(w.Movers)
      /\ \A k \in DOMAIN w.Movers : w.Movers[k] \in Mover
  BY <1>1
<1> QED BY <1>1, <1>2 DEF Mover

\* GetInstMover finds the first mover of the instance, or there is none.
LEMMA PlaceFacts ==
    ASSUME NEW w \in World, NEW t
    PROVE  \/ /\ GetInstMover(w, t) = 0
              /\ \A k \in DOMAIN w.Movers : w.Movers[k].inst # t
           \/ /\ GetInstMover(w, t) \in DOMAIN w.Movers /\ GetInstMover(w, t) # 0
              /\ w.Movers[GetInstMover(w, t)].inst = t
              /\ \A k \in DOMAIN w.Movers :
                     w.Movers[k].inst = t => GetInstMover(w, t) <= k
<1>1. CASE Places(w, t) = {}
  BY <1>1 DEF GetInstMover, Places
<1>2. CASE Places(w, t) # {}
  <2>1. DOMAIN w.Movers \subseteq Nat \ {0}
    BY MoverFacts
  <2>2. Places(w, t) \subseteq Nat
    BY <2>1 DEF Places
  <2>3. /\ Min(Places(w, t)) \in Places(w, t)
        /\ \A k \in Places(w, t) : Min(Places(w, t)) <= k
    BY <1>2, <2>2, LeastExists
  <2>4. GetInstMover(w, t) = Min(Places(w, t))
    BY <1>2 DEF GetInstMover
  <2> QED BY <2>1, <2>3, <2>4 DEF Places
<1> QED BY <1>1, <1>2

\* One mover is replaced.
LEMMA MoverSet ==
    ASSUME NEW w \in World, NEW k \in DOMAIN w.Movers, NEW m \in Mover,
           NEW x, x = [w EXCEPT !.Movers = [w.Movers EXCEPT ![k] = m]]
    PROVE  /\ x \in World /\ SameBut(x, w) /\ Len(x.Movers) = Len(w.Movers)
           /\ DOMAIN x.Movers = DOMAIN w.Movers
           /\ x.Movers[k] = m
           /\ \A j \in DOMAIN w.Movers : j # k => x.Movers[j] = w.Movers[j]
<1> DEFINE ms == [w.Movers EXCEPT ![k] = m]
<1>1. w.Movers \in Seq(Mover)
  BY MoverFacts
<1>2. /\ ms \in Seq(Mover) /\ Len(ms) = Len(w.Movers) /\ DOMAIN ms = DOMAIN w.Movers
      /\ ms[k] = m /\ \A j \in DOMAIN w.Movers : j # k => ms[j] = w.Movers[j]
  BY <1>1
<1> HIDE DEF ms
<1>3. x = [w EXCEPT !.Movers = ms]
  BY DEF ms
<1>4. x \in World /\ x.Movers = ms /\ SameBut(x, w)
  BY <1>2, <1>3, MoversSet
<1> QED BY <1>2, <1>4

\* IgnoreMover switches the mover off that may be on, and nothing else.
LEMMA IgnoreFacts ==
    ASSUME NEW w \in World, NEW t, Len(w.Movers) <= MaxMovers, Driven(w),
           NEW x, x = IgnoreMover(w, t)
    PROVE  /\ x \in World /\ SameBut(x, w) /\ Len(x.Movers) <= MaxMovers
           /\ DOMAIN x.Movers = DOMAIN w.Movers
           /\ \A k \in DOMAIN w.Movers :
                  /\ x.Movers[k].inst = w.Movers[k].inst
                  /\ x.Movers[k].ent = w.Movers[k].ent
                  /\ x.Movers[k].on => w.Movers[k].on /\ w.Movers[k].inst # t
<1> DEFINE k == GetInstMover(w, t)
<1>1. CASE k = 0
  <2>1. x = w
    BY <1>1 DEF IgnoreMover
  <2>2. \A j \in DOMAIN w.Movers : w.Movers[j].inst # t
    BY <1>1, PlaceFacts, MoverFacts
  <2> QED BY <2>1, <2>2 DEF SameBut
<1>2. CASE k # 0
  <2>1. /\ k \in DOMAIN w.Movers /\ w.Movers[k].inst = t
        /\ \A j \in DOMAIN w.Movers : w.Movers[j].inst = t => k <= j
    BY <1>2, PlaceFacts
  <2> HIDE DEF k
  <2> DEFINE m == [w.Movers[k] EXCEPT !.on = FALSE]
  <2>2. m \in Mover /\ m.inst = w.Movers[k].inst /\ m.ent = w.Movers[k].ent /\ m.on = FALSE
    <3>1. w.Movers[k] \in Mover
      BY <2>1, MoverFacts
    <3> QED BY <3>1 DEF Mover
  <2>3. x = [w EXCEPT !.Movers = [w.Movers EXCEPT ![k] = m]]
    <3>1. x = [w EXCEPT !.Movers[k].on = FALSE]
      BY <1>2, Zenon DEF IgnoreMover, k
    <3> QED BY <3>1
  <2> HIDE DEF m
  <2>4. /\ x \in World /\ SameBut(x, w) /\ Len(x.Movers) = Len(w.Movers)
        /\ DOMAIN x.Movers = DOMAIN w.Movers /\ x.Movers[k] = m
        /\ \A j \in DOMAIN w.Movers : j # k => x.Movers[j] = w.Movers[j]
    BY <2>1, <2>2, <2>3, MoverSet
  <2>5. ASSUME NEW j \in DOMAIN w.Movers, j # k, w.Movers[j].on PROVE w.Movers[j].inst # t
    <3>1. SUFFICES ASSUME w.Movers[j].inst = t PROVE FALSE
      OBVIOUS
    <3>2. j <= k /\ k <= j
      BY <2>1, <2>5, <3>1 DEF Driven
    <3>3. j \in Nat /\ k \in Nat
      BY <2>1, MoverFacts
    <3> QED BY <2>5, <3>2, <3>3
  <2> QED BY <2>1, <2>2, <2>4, <2>5
<1> QED BY <1>1, <1>2

\* A mover more, which is on only if the instance had none.
LEMMA AddFacts ==
    ASSUME NEW w, NEW X, NEW b, Good(w, X, b), NEW t \in Inst, NEW on \in BOOLEAN,
           on => /\ \A k \in DOMAIN w.Movers : w.Movers[k].inst # t
                 /\ t = Car \/ (t \in Hit /\ w.Owner[t] # Null),
           NEW x, x = AddMover(w, t, on)
    PROVE  Good(x, X, b) /\ SameBut(x, w) /\ (Fresh(w) => Fresh(x))
<1>1. w \in World /\ Len(w.Movers) <= MaxMovers /\ Driven(w)
  BY DEF Good
<1>2. CASE Len(w.Movers) >= MaxMovers
  <2>1. x = w
    BY <1>2 DEF AddMover
  <2> QED BY <2>1 DEF SameBut
<1>3. CASE ~(Len(w.Movers) >= MaxMovers)
  <2> DEFINE m == [inst |-> t, ent |-> w.Owner[t], on |-> on]
             ms == Append(w.Movers, m)
             n == Len(w.Movers)
  <2>1. m \in Mover /\ m.inst = t /\ m.ent = w.Owner[t] /\ m.on = on
    BY <1>1 DEF Mover, World
  <2>2. x = [w EXCEPT !.Movers = ms]
    BY <1>3 DEF AddMover
  <2> HIDE DEF m
  <2>3. n \in Nat /\ w.Movers \in Seq(Mover) /\ DOMAIN w.Movers = 1..n
    BY <1>1, MoverFacts
  <2>4. /\ ms \in Seq(Mover) /\ Len(ms) = n + 1 /\ DOMAIN ms = 1..(n + 1) /\ ms[n + 1] = m
        /\ \A k \in 1..n : ms[k] = w.Movers[k]
    BY <2>1, <2>3
  <2> HIDE DEF ms
  <2>5. x \in World /\ x.Movers = ms /\ SameBut(x, w)
    BY <1>1, <2>2, <2>4, MoversSet
  <2>6. n + 1 <= MaxMovers
    BY <1>3, <2>3, Ids
  <2>7. \A k \in 1..(n + 1) : k \in 1..n \/ k = n + 1
    BY <2>3
  <2>8. on /\ t # Car => w.Owner[t] # Null /\ w.Target[w.Owner[t]] = t /\ t \in Hit
    <3>1. SUFFICES ASSUME on, t # Car PROVE w.Target[w.Owner[t]] = t
      OBVIOUS
    <3>2. w.Owner[t] # Null /\ w.Owner[t] \in Entity \cup {Null}
      BY <1>1, <3>1 DEF World
    <3> QED BY <3>2 DEF Good, Pool
  <2>9. Driven(x)
    <3>1. SUFFICES ASSUME NEW k \in 1..(n + 1), ms[k].on
                   PROVE  /\ ms[k].inst \in Hit \cup {Car}
                          /\ \A j \in 1..(n + 1) : ms[j].inst = ms[k].inst => k <= j
                          /\ ms[k].inst # Car =>
                                 ms[k].ent # Null /\ w.Target[ms[k].ent] = ms[k].inst
      BY <2>4, <2>5 DEF Driven, SameBut
    <3>2. CASE k \in 1..n
      <4>1. /\ w.Movers[k].on /\ w.Movers[k].inst \in Hit \cup {Car}
            /\ \A j \in 1..n : w.Movers[j].inst = w.Movers[k].inst => k <= j
            /\ w.Movers[k].inst # Car =>
                   w.Movers[k].ent # Null /\ w.Target[w.Movers[k].ent] = w.Movers[k].inst
        BY <1>1, <2>3, <2>4, <3>1, <3>2 DEF Driven
      <4>2. k <= n + 1
        BY <2>3
      <4> QED BY <2>4, <2>7, <3>2, <4>1, <4>2
    <3>3. CASE k = n + 1
      <4>1. /\ on /\ ms[k].inst = t /\ ms[k].ent = w.Owner[t]
            /\ t \in Hit \cup {Car} /\ \A j \in 1..n : ms[j].inst # t
        BY <2>1, <2>3, <2>4, <3>1, <3>3
      <4>2. k <= n + 1
        BY <2>3, <3>3
      <4> QED BY <2>7, <2>8, <3>3, <4>1, <4>2
    <3> QED BY <2>7, <3>2, <3>3
  <2>10. Good(x, X, b)
    BY <2>4, <2>5, <2>6, <2>9, MoversGood
  <2>11. Fresh(w) => Fresh(x)
    <3>1. SUFFICES ASSUME Fresh(w), NEW k \in 1..(n + 1), ms[k].inst # Car,
                          w.Owner[ms[k].inst] # Null
                   PROVE  ms[k].ent = w.Owner[ms[k].inst]
      BY <2>4, <2>5 DEF Fresh, SameBut
    <3>2. CASE k \in 1..n
      BY <2>3, <2>4, <3>1, <3>2 DEF Fresh
    <3>3. CASE k = n + 1
      BY <2>1, <2>4, <3>3
    <3> QED BY <2>7, <3>2, <3>3
  <2> QED BY <2>5, <2>10, <2>11
<1> QED BY <1>2, <1>3

\* A mover that is on has the entity of its instance already.
LEMMA SetFacts ==
    ASSUME NEW w, NEW X, NEW b, Good(w, X, b), NEW t \in Inst, NEW x, x = SetInstance(w, t)
    PROVE  Good(x, X, b) /\ SameBut(x, w)
<1> DEFINE k == GetInstMover(w, t)
<1>1. w \in World /\ Len(w.Movers) <= MaxMovers /\ Driven(w)
  BY DEF Good
<1>2. CASE k = 0
  <2>1. x = AddMover(w, t, FALSE)
    BY <1>2 DEF SetInstance
  <2> QED BY <2>1, AddFacts
<1>3. CASE k # 0
  <2>1. /\ k \in DOMAIN w.Movers /\ w.Movers[k].inst = t
        /\ \A j \in DOMAIN w.Movers : w.Movers[j].inst = t => k <= j
    BY <1>1, <1>3, PlaceFacts
  <2>2. x = [w EXCEPT !.Movers[k].ent = w.Owner[t]]
    BY <1>3, Zenon DEF SetInstance, k
  <2> HIDE DEF k
  <2> DEFINE m == [w.Movers[k] EXCEPT !.ent = w.Owner[t]]
  <2>3. /\ m \in Mover /\ m.inst = t /\ m.ent = w.Owner[t] /\ m.on = w.Movers[k].on
    <3>1. w.Movers[k] \in Mover
      BY <1>1, <2>1, MoverFacts
    <3>2. w.Owner[t] \in Entity \cup {Null}
      BY <1>1 DEF World
    <3> QED BY <2>1, <3>1, <3>2 DEF Mover
  <2>4. x = [w EXCEPT !.Movers = [w.Movers EXCEPT ![k] = m]]
    BY <2>2
  <2> HIDE DEF m
  <2>5. /\ x \in World /\ SameBut(x, w) /\ Len(x.Movers) = Len(w.Movers)
        /\ DOMAIN x.Movers = DOMAIN w.Movers /\ x.Movers[k] = m
        /\ \A j \in DOMAIN w.Movers : j # k => x.Movers[j] = w.Movers[j]
    BY <1>1, <2>1, <2>3, <2>4, MoverSet
  <2>6. \A j \in DOMAIN w.Movers :
            x.Movers[j].inst = w.Movers[j].inst /\ x.Movers[j].on = w.Movers[j].on
    BY <2>1, <2>3, <2>5
  <2>7. \A j \in DOMAIN w.Movers : w.Movers[j].on /\ w.Movers[j].inst # Car =>
            x.Movers[j].ent # Null /\ w.Target[x.Movers[j].ent] = w.Movers[j].inst
    <3>1. SUFFICES ASSUME NEW j \in DOMAIN w.Movers, w.Movers[j].on, w.Movers[j].inst # Car
                   PROVE  x.Movers[j].ent = w.Movers[j].ent
      BY <1>1 DEF Driven
    <3>2. CASE j # k
      BY <2>5, <3>2
    <3>3. CASE j = k
      <4>1. w.Movers[k].ent # Null /\ w.Target[w.Movers[k].ent] = t
        BY <1>1, <2>1, <3>1, <3>3 DEF Driven
      <4>2. w.Movers[k].ent \in Entity
        BY <1>1, <2>1, <4>1, MoverFacts
      <4>3. w.Owner[t] = w.Movers[k].ent
        BY <4>1, <4>2 DEF Good, Pool
      <4> QED BY <2>3, <2>5, <3>3, <4>3
    <3> QED BY <3>2, <3>3
  <2>8. Driven(x)
    BY <1>1, <2>5, <2>6, <2>7 DEF Driven, SameBut
  <2> QED BY <1>1, <2>5, <2>8, MoversGood
<1> QED BY <1>2, <1>3

\* The two forms of NewMover.
LEMMA CollidedFacts ==
    ASSUME NEW w, NEW X, NEW b, Good(w, X, b), NEW t \in Inst, NEW other \in Inst,
           NEW x, x = CollidedMover(w, t, other)
    PROVE  Good(x, X, b) /\ SameBut(x, w)
<1> DEFINE y == SetInstance(w, t)
<1>1. CASE GetInstMover(w, t) = 0
  BY <1>1 DEF CollidedMover, SameBut
<1>2. CASE GetInstMover(w, t) # 0
  <2>1. x = SetInstance(y, other)
    BY <1>2 DEF CollidedMover
  <2>2. Good(y, X, b) /\ SameBut(y, w)
    BY SetFacts
  <2> HIDE DEF y
  <2>3. Good(x, X, b) /\ SameBut(x, y)
    BY <2>1, <2>2, SetFacts
  <2> QED BY <2>2, <2>3 DEF SameBut
<1> QED BY <1>1, <1>2

\* The second form, for a hit banger that comes into the frame.
LEMMA HitMoverFacts ==
    ASSUME NEW w, NEW X, NEW b, Good(w, X, b), NEW t \in Inst, NEW other,
           NEW x, x = HitMover(w, t, other)
    PROVE  Good(x, X, b) /\ SameBut(x, w)
<1>1. CASE GetInstMover(w, other) = 0
  BY <1>1 DEF HitMover, SameBut
<1>2. CASE GetInstMover(w, other) # 0
  <2>1. x = AddMover(w, t, FALSE)
    BY <1>2 DEF HitMover
  <2> QED BY <2>1, AddFacts
<1> QED BY <1>1, <1>2

\* A banger that is declared while Update runs.
LEMMA DeclaredFacts ==
    ASSUME NEW w, NEW X, NEW b, Good(w, X, b), Fresh(w), NEW t \in Hit \cup {Car},
           t # Car => w.Owner[t] # Null, NEW x, x = DeclaredMover(w, t)
    PROVE  Good(x, X, b) /\ SameBut(x, w) /\ Fresh(x)
<1> DEFINE k == GetInstMover(w, t)
<1>1. w \in World /\ Len(w.Movers) <= MaxMovers /\ Driven(w) /\ t \in Inst
  BY Ids DEF Good
<1>2. CASE k = 0
  <2>1. x = AddMover(w, t, TRUE)
    BY <1>2 DEF DeclaredMover
  <2>2. \A j \in DOMAIN w.Movers : w.Movers[j].inst # t
    <3>1. DOMAIN w.Movers \subseteq Nat \ {0}
      BY <1>1, MoverFacts
    <3> QED BY <1>1, <1>2, <3>1, PlaceFacts
  <2>3. t = Car \/ (t \in Hit /\ w.Owner[t] # Null)
    OBVIOUS
  <2>4. TRUE \in BOOLEAN
    OBVIOUS
  <2> HIDE DEF k
  <2> QED BY <1>1, <2>1, <2>2, <2>3, <2>4, AddFacts, Zenon
<1>3. CASE k # 0
  <2>1. /\ k \in DOMAIN w.Movers /\ w.Movers[k].inst = t
        /\ \A j \in DOMAIN w.Movers : w.Movers[j].inst = t => k <= j
    BY <1>1, <1>3, PlaceFacts
  <2>2. x = [w EXCEPT !.Movers[k].on = TRUE]
    BY <1>3, Zenon DEF DeclaredMover, k
  <2> HIDE DEF k
  <2> DEFINE m == [w.Movers[k] EXCEPT !.on = TRUE]
  <2>3. m \in Mover /\ m.inst = t /\ m.ent = w.Movers[k].ent /\ m.on = TRUE
    <3>1. w.Movers[k] \in Mover
      BY <1>1, <2>1, MoverFacts
    <3> QED BY <2>1, <3>1 DEF Mover
  <2>4. x = [w EXCEPT !.Movers = [w.Movers EXCEPT ![k] = m]]
    BY <2>2
  <2> HIDE DEF m
  <2>5. /\ x \in World /\ SameBut(x, w) /\ Len(x.Movers) = Len(w.Movers)
        /\ DOMAIN x.Movers = DOMAIN w.Movers /\ x.Movers[k] = m
        /\ \A j \in DOMAIN w.Movers : j # k => x.Movers[j] = w.Movers[j]
    BY <1>1, <2>1, <2>3, <2>4, MoverSet
  <2>6. \A j \in DOMAIN w.Movers :
            /\ x.Movers[j].inst = w.Movers[j].inst /\ x.Movers[j].ent = w.Movers[j].ent
            /\ j # k => x.Movers[j].on = w.Movers[j].on
    BY <2>1, <2>3, <2>5
  <2>7. t # Car => w.Movers[k].ent # Null /\ w.Target[w.Movers[k].ent] = t
    <3>1. SUFFICES ASSUME t # Car PROVE w.Movers[k].ent # Null /\ w.Target[w.Movers[k].ent] = t
      OBVIOUS
    <3>2. w.Movers[k].ent = w.Owner[t] /\ w.Owner[t] # Null
      BY <2>1, <3>1 DEF Fresh
    <3>3. w.Owner[t] \in Entity
      BY <1>1, <3>2 DEF World
    <3> QED BY <1>1, <3>2, <3>3 DEF Good, Pool
  <2>8. Driven(x)
    BY <1>1, <2>1, <2>5, <2>6, <2>7 DEF Driven, SameBut
  <2>9. Fresh(x)
    BY <2>5, <2>6 DEF Fresh, SameBut
  <2> QED BY <1>1, <2>5, <2>8, <2>9, MoversGood
<1> QED BY <1>2, <1>3

-----------------------------------------------------------------------------
(* Chains *)

\* Worlds that agree in the pool, in the chains, and in the rest.
SamePool(x, w) ==
    /\ x.Active = w.Active /\ x.NumActive = w.NumActive /\ x.Target = w.Target
    /\ x.resting = w.resting /\ x.Owner = w.Owner
SameChains(x, w) ==
    x.ChainId = w.ChainId /\ x.chained = w.chained /\ x.failed = w.failed
SameRest(x, w) ==
    x.unhit = w.unhit /\ x.kind = w.kind /\ x.NextBanger = w.NextBanger

\* A change of chains that keeps what is said of them.
LEMMA ChainsGood ==
    ASSUME NEW w, NEW X, NEW b, Good(w, X, b), NEW x \in World, SamePool(x, w), SameRest(x, w),
           x.collider = w.collider, x.Movers = w.Movers, Chains(x)
    PROVE  Good(x, X, b) /\ (Fresh(w) => Fresh(x))
  BY DEF Good, SamePool, SameRest, Pool, Served, Settled, Driven, Fresh

\* A hit banger leaves its chain.
LEMMA UnparentFacts ==
    ASSUME NEW w, NEW X, NEW b, Good(w, X, b), NEW h \in Hit, w.ChainId[h] # -1,
           NEW x, x = Unparent(w, h)
    PROVE  /\ Good(x, X, b) /\ (Fresh(w) => Fresh(x))
           /\ SamePool(x, w) /\ SameRest(x, w) /\ x.Movers = w.Movers
           /\ x.ChainId[h] = -1
           /\ \A t \in Inst \ {h} : x.ChainId[t] = w.ChainId[t]
<1>1. w \in World /\ Chains(w)
  BY DEF Good
<1>2. h \in Inst /\ h \notin Unhit /\ h \in w.chained
  BY <1>1, Ids DEF Chains
<1>3. /\ x \in World /\ SamePool(x, w) /\ SameRest(x, w)
      /\ x.collider = w.collider /\ x.Movers = w.Movers
      /\ x.failed = (w.failed \/ h \notin w.chained) /\ x.chained = w.chained \ {h}
      /\ x.ChainId = [w.ChainId EXCEPT ![h] = -1]
  BY <1>1, <1>2 DEF Unparent, World, SamePool, SameRest
<1>4. \A t \in Inst : x.ChainId[t] = IF t = h THEN -1 ELSE w.ChainId[t]
  BY <1>1, <1>3 DEF World
<1>5. Chains(x)
  <2>1. x.unhit = w.unhit /\ ~x.failed /\ w.chained \subseteq Inst /\ x.chained \subseteq Inst
    BY <1>1, <1>2, <1>3 DEF Chains, SameRest, World
  <2>2. \A t \in x.chained : x.ChainId[t] # -1 /\ (t \in Unhit => t \in x.unhit)
    BY <1>1, <1>2, <1>3, <1>4, <2>1 DEF Chains
  <2>3. \A t \in Inst \ x.chained :
            x.ChainId[t] = -1 \/ t \in Unchained \/ (t \in Unhit /\ t \notin x.unhit)
    BY <1>1, <1>2, <1>3, <1>4, <2>1 DEF Chains
  <2>4. \A u \in Unhit : x.ChainId[u] # -1
    BY <1>1, <1>2, <1>4, Ids DEF Chains
  <2> QED BY <2>1, <2>2, <2>3, <2>4 DEF Chains
<1> QED BY <1>2, <1>3, <1>4, <1>5, ChainsGood

\* One without a chain enters one.
LEMMA ParentFacts ==
    ASSUME NEW w, NEW X, NEW b, Good(w, X, b), NEW h \in Hit, w.ChainId[h] = -1,
           NEW r \in Rooms, NEW x, x = Parent(w, h, r)
    PROVE  /\ Good(x, X, b) /\ (Fresh(w) => Fresh(x))
           /\ SamePool(x, w) /\ SameRest(x, w) /\ x.Movers = w.Movers
           /\ x.ChainId[h] = r
           /\ \A t \in Inst \ {h} : x.ChainId[t] = w.ChainId[t]
<1>1. w \in World /\ Chains(w) /\ r # -1
  BY Ids DEF Good
<1>2. h \in Inst /\ h \notin Unhit
  BY Ids
<1>3. /\ x \in World /\ SamePool(x, w) /\ SameRest(x, w)
      /\ x.collider = w.collider /\ x.Movers = w.Movers
      /\ x.failed = (w.failed \/ w.ChainId[h] # -1) /\ x.chained = w.chained \cup {h}
      /\ x.ChainId = [w.ChainId EXCEPT ![h] = r]
  BY <1>1, <1>2 DEF Parent, World, SamePool, SameRest
<1>4. \A t \in Inst : x.ChainId[t] = IF t = h THEN r ELSE w.ChainId[t]
  BY <1>1, <1>3 DEF World
<1>5. Chains(x)
  <2>1. x.unhit = w.unhit /\ ~x.failed /\ w.chained \subseteq Inst /\ x.chained \subseteq Inst
    BY <1>1, <1>2, <1>3 DEF Chains, SameRest, World
  <2>2. \A t \in x.chained : x.ChainId[t] # -1 /\ (t \in Unhit => t \in x.unhit)
    BY <1>1, <1>2, <1>3, <1>4, <2>1 DEF Chains
  <2>3. \A t \in Inst \ x.chained :
            x.ChainId[t] = -1 \/ t \in Unchained \/ (t \in Unhit /\ t \notin x.unhit)
    BY <1>1, <1>2, <1>3, <1>4, <2>1 DEF Chains
  <2>4. \A u \in Unhit : x.ChainId[u] # -1
    BY <1>1, <1>2, <1>4, Ids DEF Chains
  <2> QED BY <2>1, <2>2, <2>3, <2>4 DEF Chains
<1> QED BY <1>2, <1>3, <1>4, <1>5, ChainsGood

\* Wherever a hit banger is carried.
LEMMA ReparentFacts ==
    ASSUME NEW w, NEW X, NEW b, Good(w, X, b), NEW h \in Hit, NEW r \in Rooms \cup {-1},
           NEW x, x = ReparentObject(w, h, r)
    PROVE  /\ Good(x, X, b) /\ (Fresh(w) => Fresh(x))
           /\ SamePool(x, w) /\ SameRest(x, w) /\ x.Movers = w.Movers
<1> DEFINE y == IF w.ChainId[h] = -1 THEN w ELSE Unparent(w, h)
<1>1. CASE r \in {-1, w.ChainId[h]}
  BY <1>1 DEF ReparentObject, SamePool, SameRest
<1>2. CASE r \notin {-1, w.ChainId[h]}
  <2>1. x = Parent(y, h, r) /\ r \in Rooms
    BY <1>2 DEF ReparentObject
  <2>2. /\ Good(y, X, b) /\ (Fresh(w) => Fresh(y)) /\ SamePool(y, w) /\ SameRest(y, w)
        /\ y.Movers = w.Movers /\ y.ChainId[h] = -1
    <3>1. CASE w.ChainId[h] = -1
      BY <3>1 DEF SamePool, SameRest
    <3>2. CASE w.ChainId[h] # -1
      BY <3>2, UnparentFacts
    <3> QED BY <3>1, <3>2
  <2> HIDE DEF y
  <2>3. /\ Good(x, X, b) /\ (Fresh(y) => Fresh(x)) /\ SamePool(x, y) /\ SameRest(x, y)
        /\ x.Movers = y.Movers
    BY <2>1, <2>2, ParentFacts
  <2> QED BY <2>2, <2>3 DEF SamePool, SameRest
<1> QED BY <1>1, <1>2

-----------------------------------------------------------------------------
(* The pool *)

\* The target of an entity in use has it for its owner.
LEMMA TargetFacts ==
    ASSUME NEW w, NEW X, NEW b, Good(w, X, b), NEW c \in Entity
    PROVE  /\ w.Target[c] \in Inst \cup {Null}
           /\ w.Target[c] # Null =>
                  w.Target[c] \in Hit \cup X /\ w.Owner[w.Target[c]] = c /\ c # Null
           /\ \A t \in Inst : w.Owner[t] \in Entity \cup {Null}
           /\ \A t \in Inst : w.Owner[t] # Null => w.Target[w.Owner[t]] = t
<1>1. /\ w.Target[c] \in Inst \cup {Null}
      /\ \A t \in Inst : w.Owner[t] \in Entity \cup {Null}
  BY DEF Good, World
<1>2. \A d \in Entity, t \in Inst : w.Target[d] = t <=> w.Owner[t] = d
  BY DEF Good, Pool
<1>3. w.Target[c] # Null => w.Target[c] \in Hit \cup X
  BY <1>1, <1>2, Ids DEF Good, Served
<1> QED BY <1>1, <1>2, <1>3, Ids

\* The banger of an entity is let go; the entity stays in its place for the moment.
LEMMA ActiveDetachFacts ==
    ASSUME NEW w, NEW X, Good(w, X, Null), NEW c \in Entity, w.Target[c] # Null,
           NEW x, x = ActiveDetach(w, c)
    PROVE  /\ Good(x, X, c) /\ (Fresh(w) => Fresh(x))
           /\ x.Active = w.Active /\ x.NumActive = w.NumActive
           /\ \A v \in Inst : x.Owner[v] = IF v = w.Target[c] THEN Null ELSE w.Owner[v]
           /\ SameChains(x, w) /\ SameRest(x, w) /\ x.resting = w.resting \ {c}
           /\ Len(x.Movers) = Len(w.Movers)
<1> DEFINE t == w.Target[c]
           y == IgnoreMover(w, t)
<1>1. w \in World /\ Len(w.Movers) <= MaxMovers /\ Driven(w) /\ t \in Inst /\ c # Null
  BY TargetFacts, Ids DEF Good
<1>2. x = [y EXCEPT !.collider = @ \cup {t}, !.Owner[t] = Null, !.Target[c] = Null,
                    !.resting = @ \ {c}]
  BY Zenon DEF ActiveDetach, y, t
<1>3. /\ y \in World /\ SameBut(y, w) /\ Len(y.Movers) <= MaxMovers
      /\ DOMAIN y.Movers = DOMAIN w.Movers
      /\ \A k \in DOMAIN w.Movers :
             /\ y.Movers[k].inst = w.Movers[k].inst
             /\ y.Movers[k].ent = w.Movers[k].ent
             /\ y.Movers[k].on => w.Movers[k].on /\ w.Movers[k].inst # t
  BY <1>1, IgnoreFacts
<1>4. t = w.Target[c]
  OBVIOUS
<1> HIDE DEF y, t
<1>5. x = [y EXCEPT !.collider = y.collider \cup {t}, !.Owner = [y.Owner EXCEPT ![t] = Null],
                    !.Target = [y.Target EXCEPT ![c] = Null], !.resting = y.resting \ {c}]
  BY <1>2, <1>3 DEF World
<1>6. /\ x \in World /\ x.Active = w.Active /\ x.NumActive = w.NumActive
      /\ x.resting = w.resting \ {c} /\ x.Target = [w.Target EXCEPT ![c] = Null]
      /\ x.Owner = [w.Owner EXCEPT ![t] = Null] /\ x.collider = w.collider \cup {t}
      /\ SameChains(x, w) /\ SameRest(x, w) /\ x.Movers = y.Movers
  <2> DEFINE C == y.collider \cup {t}
             O == [y.Owner EXCEPT ![t] = Null]
             T == [y.Target EXCEPT ![c] = Null]
             A == y.resting \ {c}
  <2>1. /\ C \in SUBSET Inst /\ O \in [Inst -> Entity \cup {Null}]
        /\ T \in [Entity -> Inst \cup {Null}] /\ A \in SUBSET Entity
    BY <1>1, <1>3 DEF World
  <2>2. x = [y EXCEPT !.collider = C, !.Owner = O, !.Target = T, !.resting = A]
    BY <1>5
  <2>3. /\ C = w.collider \cup {t} /\ O = [w.Owner EXCEPT ![t] = Null]
        /\ T = [w.Target EXCEPT ![c] = Null] /\ A = w.resting \ {c}
    BY <1>3 DEF SameBut
  <2> HIDE DEF C, O, T, A
  <2>4. x \in World
    BY <1>3, <2>1, <2>2 DEF World
  <2>5. /\ x.collider = C /\ x.Owner = O /\ x.Target = T /\ x.resting = A
        /\ x.Movers = y.Movers
    BY <1>3, <2>2 DEF World
  <2>6. x.Active = y.Active /\ x.NumActive = y.NumActive /\ SameChains(x, y) /\ SameRest(x, y)
    BY <1>3, <2>2 DEF World, SameChains, SameRest
  <2> QED BY <1>3, <2>3, <2>4, <2>5, <2>6 DEF SameBut, SameChains, SameRest
<1>7. /\ \A d \in Entity : x.Target[d] = IF d = c THEN Null ELSE w.Target[d]
      /\ \A v \in Inst : x.Owner[v] = IF v = t THEN Null ELSE w.Owner[v]
  BY <1>1, <1>6 DEF World
<1>8. Pool(x, c)
  <2>1. Pool(w, Null) /\ w.Active \in [Entity -> Entity]
    BY <1>1 DEF Good, World
  <2>2. \A p \in Entity : p <= w.NumActive <=> w.Target[w.Active[p]] # Null
    BY <2>1, Ids DEF Pool
  <2>3. \A p \in Entity : p <= x.NumActive <=> x.Target[x.Active[p]] # Null \/ x.Active[p] = c
    BY <1>4, <1>6, <1>7, <2>1, <2>2
  <2>4. \A d \in Entity, v \in Inst : x.Target[d] = v <=> x.Owner[v] = d
    <3>1. \A d \in Entity, v \in Inst : w.Target[d] = v <=> w.Owner[v] = d
      BY <2>1 DEF Pool
    <3> QED BY <1>1, <1>4, <1>7, <3>1, Ids
  <2> QED BY <1>6, <1>7, <2>1, <2>3, <2>4 DEF Pool
<1>9. Served(x, X)
  BY <1>7 DEF Good, Served
<1>10. Chains(x)
  BY <1>6 DEF Good, Chains, SameChains, SameRest
<1>11. Settled(x)
  <2>1. Settled(w) /\ w.unhit \subseteq Unhit
    BY <1>1 DEF Good, World
  <2> QED BY <1>6, <1>7, <2>1, Ids DEF Settled, SameRest
<1>12. Driven(x)
  <2>1. SUFFICES ASSUME NEW k \in DOMAIN w.Movers, y.Movers[k].on
                 PROVE  /\ w.Movers[k].inst \in Hit \cup {Car}
                        /\ \A j \in DOMAIN w.Movers :
                               w.Movers[j].inst = w.Movers[k].inst => k <= j
                        /\ w.Movers[k].inst # Car =>
                               /\ w.Movers[k].ent # Null
                               /\ x.Target[w.Movers[k].ent] = w.Movers[k].inst
    BY <1>3, <1>6 DEF Driven
  <2>2. /\ w.Movers[k].inst \in Hit \cup {Car} /\ w.Movers[k].inst # t
        /\ \A j \in DOMAIN w.Movers : w.Movers[j].inst = w.Movers[k].inst => k <= j
        /\ w.Movers[k].inst # Car =>
               w.Movers[k].ent # Null /\ w.Target[w.Movers[k].ent] = w.Movers[k].inst
    BY <1>1, <1>3, <2>1 DEF Driven
  <2>3. w.Movers[k].ent \in Entity \cup {Null}
    BY <1>1, MoverFacts
  <2> QED BY <1>4, <1>7, <2>2, <2>3
<1>13. Fresh(w) => Fresh(x)
  <2>1. SUFFICES ASSUME Fresh(w), NEW k \in DOMAIN w.Movers, w.Movers[k].inst # Car,
                        x.Owner[w.Movers[k].inst] # Null
                 PROVE  w.Movers[k].ent = x.Owner[w.Movers[k].inst]
    BY <1>3, <1>6 DEF Fresh
  <2>2. w.Movers[k].inst \in Inst
    BY <1>1, MoverFacts
  <2> QED BY <1>7, <2>1, <2>2 DEF Fresh
<1>14. Len(x.Movers) = Len(w.Movers)
  <2>1. DOMAIN y.Movers = 1..Len(y.Movers) /\ DOMAIN w.Movers = 1..Len(w.Movers)
        /\ Len(y.Movers) \in Nat /\ Len(w.Movers) \in Nat
    BY <1>1, <1>3, MoverFacts
  <2>2. 1..Len(y.Movers) = 1..Len(w.Movers)
    BY <1>3, <2>1
  <2>3. Len(y.Movers) = Len(w.Movers)
    <3> DEFINE a == Len(y.Movers)
               d == Len(w.Movers)
    <3>1. a \in Nat /\ d \in Nat /\ 1..a = 1..d
      BY <2>1, <2>2
    <3> HIDE DEF a, d
    <3>2. a = d
      BY <3>1
    <3> QED BY <3>2 DEF a, d
  <2> QED BY <1>6, <2>3
<1>15. \A v \in Inst : x.Owner[v] = IF v = w.Target[c] THEN Null ELSE w.Owner[v]
  BY <1>4, <1>7
<1>16. Good(x, X, c)
  BY <1>3, <1>6, <1>8, <1>9, <1>10, <1>11, <1>12 DEF Good
<1> QED BY <1>6, <1>13, <1>14, <1>15, <1>16

\* Arithmetic of places in Active.
LEMMA PlaceRange ==
    ASSUME NEW n \in 0..MaxActive
    PROVE  /\ n \in Nat /\ 1..n \subseteq Entity
           /\ \A q \in Entity : q \in Nat \ {0} /\ (q <= n => q \in 1..n)
           /\ n # 0 => n \in Entity /\ n - 1 \in 0..MaxActive
           /\ n < MaxActive => n + 1 \in Entity /\ n + 1 \in 0..MaxActive
           /\ n < MaxActive => \A q \in Entity : q <= n + 1 <=> q <= n \/ q = n + 1
           /\ ~(n < MaxActive) => \A q \in Entity : q <= n
<1>1. MaxActive \in Nat \ {0}
  BY Ids
<1> QED BY <1>1 DEF Entity

\* The last entity in use takes the place of the one that leaves.
LEMMA PoolDetachFacts ==
    ASSUME NEW w, NEW X, NEW c \in Entity, Good(w, X, c), NEW x, x = PoolDetach(w, c)
    PROVE  /\ Good(x, X, Null) /\ (Fresh(w) => Fresh(x))
           /\ x.Target = w.Target /\ x.Owner = w.Owner /\ x.resting = w.resting
           /\ SameChains(x, w) /\ SameRest(x, w) /\ x.Movers = w.Movers
<1> DEFINE n == w.NumActive
           p == CHOOSE q \in 1..n : w.Active[q] = c
<1>1. w \in World /\ Pool(w, c) /\ n \in 0..MaxActive /\ w.Active \in [Entity -> Entity]
  BY DEF Good, World
<1>2. /\ \A q, r \in Entity : w.Active[q] = w.Active[r] => q = r
      /\ \A b \in Entity : \E q \in Entity : w.Active[q] = b
      /\ \A q \in Entity : q <= n <=> w.Target[w.Active[q]] # Null \/ w.Active[q] = c
      /\ w.Target[c] = Null
  BY <1>1, Ids DEF Pool
<1>3. \E q \in 1..n : w.Active[q] = c
  <2>1. PICK q \in Entity : w.Active[q] = c
    BY <1>2
  <2>2. q <= n
    BY <1>2, <2>1
  <2>3. q \in 1..n
    BY <1>1, <2>2, PlaceRange
  <2> QED BY <2>1, <2>3
<1>4. p \in 1..n /\ w.Active[p] = c
  BY <1>3
<1>5. c \in InUse(w)
  BY <1>3 DEF InUse
<1>6. x = [w EXCEPT !.NumActive = n - 1, !.Active[p] = w.Active[n], !.Active[n] = c]
  BY <1>5, Zenon DEF PoolDetach
<1> HIDE DEF p
<1>7. n \in Entity /\ p \in Entity /\ n - 1 \in 0..MaxActive /\ p <= n
  <2>1. n # 0 /\ p <= n
    BY <1>1, <1>4
  <2> QED BY <1>1, <1>4, <2>1, PlaceRange
<1> DEFINE A == [[w.Active EXCEPT ![p] = w.Active[n]] EXCEPT ![n] = c]
<1>8. x = [w EXCEPT !.NumActive = n - 1, !.Active = A]
  BY <1>6
<1>9. /\ A \in [Entity -> Entity] /\ A[n] = c
      /\ \A q \in Entity \ {n} : A[q] = IF q = p THEN w.Active[n] ELSE w.Active[q]
  BY <1>1, <1>7
<1> HIDE DEF A
<1>10. /\ x \in World /\ x.Active = A /\ x.NumActive = n - 1
       /\ x.Target = w.Target /\ x.Owner = w.Owner /\ x.resting = w.resting
       /\ SameChains(x, w) /\ SameRest(x, w) /\ x.Movers = w.Movers
       /\ x.collider = w.collider
  BY <1>1, <1>7, <1>8, <1>9 DEF World, SameChains, SameRest
<1>11. Pool(x, Null)
  <2>1. ASSUME NEW q \in Entity, NEW r \in Entity, A[q] = A[r] PROVE q = r
    <3>1. CASE q = n
      BY <1>2, <1>4, <1>7, <1>9, <2>1, <3>1
    <3>2. CASE r = n
      BY <1>2, <1>4, <1>7, <1>9, <2>1, <3>2
    <3>3. CASE q # n /\ r # n
      <4>1. /\ A[q] = IF q = p THEN w.Active[n] ELSE w.Active[q]
            /\ A[r] = IF r = p THEN w.Active[n] ELSE w.Active[r]
        BY <1>9, <3>3
      <4>2. CASE q = p /\ r # p
        <5>1. w.Active[r] = w.Active[n]
          BY <2>1, <4>1, <4>2
        <5> QED BY <1>2, <1>7, <3>3, <5>1
      <4>3. CASE q # p /\ r = p
        <5>1. w.Active[q] = w.Active[n]
          BY <2>1, <4>1, <4>3
        <5> QED BY <1>2, <1>7, <3>3, <5>1
      <4>4. CASE q # p /\ r # p
        BY <1>2, <2>1, <4>1, <4>4
      <4> QED BY <4>2, <4>3, <4>4
    <3> QED BY <3>1, <3>2, <3>3
  <2>2. ASSUME NEW b \in Entity PROVE \E q \in Entity : A[q] = b
    <3>1. PICK q \in Entity : w.Active[q] = b
      BY <1>2
    <3>2. CASE q = p
      BY <1>4, <1>7, <1>9, <3>1, <3>2
    <3>3. CASE q # p /\ q = n
      BY <1>7, <1>9, <3>1, <3>3
    <3>4. CASE q # p /\ q # n
      BY <1>9, <3>1, <3>4
    <3> QED BY <3>2, <3>3, <3>4
  <2>3. ASSUME NEW q \in Entity PROVE q <= n - 1 <=> w.Target[A[q]] # Null
    <3>0. n \in Int /\ q \in Int /\ p \in Int
      BY <1>1, <1>7, PlaceRange
    <3>1. CASE q = n
      BY <1>2, <1>9, <3>0, <3>1
    <3>2. CASE q # n /\ q = p
      <4>1. w.Active[n] # c
        BY <1>2, <1>4, <1>7, <3>2
      <4>2. w.Target[w.Active[n]] # Null
        BY <1>2, <1>7, <3>0, <4>1
      <4>3. q <= n - 1
        BY <1>7, <3>0, <3>2
      <4> QED BY <1>9, <3>2, <4>2, <4>3
    <3>3. CASE q # n /\ q # p
      <4>1. w.Active[q] # c /\ A[q] = w.Active[q]
        BY <1>2, <1>4, <1>7, <1>9, <3>3
      <4>2. q <= n <=> q <= n - 1
        BY <3>0, <3>3
      <4> QED BY <1>2, <4>1, <4>2
    <3> QED BY <3>1, <3>2, <3>3
  <2>4. \A q \in Entity : A[q] # Null
    BY <1>9, Ids
  <2>5. \A d \in Entity, t \in Inst : w.Target[d] = t <=> w.Owner[t] = d
    BY <1>1 DEF Pool
  <2>6. \A q \in Entity : q <= x.NumActive <=> x.Target[x.Active[q]] # Null \/ x.Active[q] = Null
    BY <1>10, <2>3, <2>4
  <2> QED BY <1>10, <2>1, <2>2, <2>5, <2>6 DEF Pool
<1>12. Served(x, X) /\ Chains(x) /\ Settled(x) /\ Driven(x) /\ (Fresh(w) => Fresh(x))
  BY <1>10 DEF Good, Served, Chains, Settled, Driven, Fresh, SameChains, SameRest
<1> QED BY <1>10, <1>11, <1>12 DEF Good

\* DetachMe of any entity, also of one that serves nobody any more.
LEMMA DetachFacts ==
    ASSUME NEW w, NEW X, Good(w, X, Null), NEW c \in Entity, NEW x, x = DetachMe(w, c)
    PROVE  /\ Good(x, X, Null) /\ (Fresh(w) => Fresh(x))
           /\ SameChains(x, w) /\ SameRest(x, w)
           /\ \A t \in Inst : x.Owner[t] = IF w.Owner[t] = c THEN Null ELSE w.Owner[t]
           /\ x.resting \subseteq w.resting /\ w.resting \subseteq x.resting \cup {c}
<1> DEFINE y == ActiveDetach(w, c)
<1>1. w \in World /\ Pool(w, Null) /\ w.NumActive \in 0..MaxActive
      /\ w.Active \in [Entity -> Entity] /\ w.Owner \in [Inst -> Entity \cup {Null}]
  BY DEF Good, World
<1>2. x = PoolDetach(y, c)
  BY DEF DetachMe
<1>3. CASE w.Target[c] = Null
  <2>1. y = w
    BY <1>3 DEF ActiveDetach
  <2>2. c \notin InUse(w)
    <3>1. SUFFICES ASSUME NEW p \in 1..w.NumActive, w.Active[p] = c PROVE FALSE
      BY DEF InUse
    <3>2. p \in Entity /\ p <= w.NumActive
      BY <1>1, PlaceRange
    <3>3. w.Target[c] # Null \/ c = Null
      BY <1>1, <3>1, <3>2 DEF Pool
    <3> QED BY <1>3, <3>3, Ids
  <2>3. x = w
    BY <1>2, <2>1, <2>2 DEF PoolDetach
  <2>4. \A t \in Inst : w.Owner[t] # c
    BY <1>1, <1>3, Ids DEF Pool
  <2> QED BY <2>3, <2>4 DEF SameChains, SameRest
<1>4. CASE w.Target[c] # Null
  <2>0. y = ActiveDetach(w, c)
    OBVIOUS
  <2> HIDE DEF y
  <2>5. w.Target[c] # Null /\ Good(w, X, Null) /\ c \in Entity
    BY <1>4
  <2>1. /\ Good(y, X, c) /\ (Fresh(w) => Fresh(y))
        /\ \A v \in Inst : y.Owner[v] = IF v = w.Target[c] THEN Null ELSE w.Owner[v]
        /\ SameChains(y, w) /\ SameRest(y, w) /\ y.resting = w.resting \ {c}
    BY <2>0, <2>5, ActiveDetachFacts
  <2>2. /\ Good(x, X, Null) /\ (Fresh(y) => Fresh(x)) /\ x.Owner = y.Owner
        /\ SameChains(x, y) /\ SameRest(x, y) /\ x.resting = y.resting
    BY <1>2, <2>1, PoolDetachFacts
  <2>3. \A t \in Inst : w.Target[c] = t <=> w.Owner[t] = c
    BY <1>1 DEF Pool
  <2>4. \A t \in Inst : x.Owner[t] = IF w.Owner[t] = c THEN Null ELSE w.Owner[t]
    BY <1>1, <2>1, <2>2, <2>3
  <2> QED BY <2>1, <2>2, <2>4 DEF SameChains, SameRest
<1> QED BY <1>3, <1>4

\* A loose entity gets a target.
LEMMA ActiveAttachFacts ==
    ASSUME NEW w, NEW X, NEW c \in Entity, Good(w, X, c),
           NEW t \in Inst, t \in Hit \cup X, w.Owner[t] = Null,
           NEW x, x = ActiveAttach(w, c, t)
    PROVE  /\ Good(x, X, Null) /\ SameChains(x, w) /\ SameRest(x, w)
           /\ x.Owner[t] = c /\ \A v \in Inst \ {t} : x.Owner[v] = w.Owner[v]
           /\ x.resting = w.resting \ {c}
<1> DEFINE C == w.collider \ {t}
           O == [w.Owner EXCEPT ![t] = c]
           T == [w.Target EXCEPT ![c] = t]
           A == w.resting \ {c}
<1>1. w \in World /\ Pool(w, c) /\ c # Null /\ t # Null /\ w.Target[c] = Null
      /\ w.Active \in [Entity -> Entity]
  BY Ids DEF Good, Pool, World
<1>2. /\ C \in SUBSET Inst /\ O \in [Inst -> Entity \cup {Null}]
      /\ T \in [Entity -> Inst \cup {Null}] /\ A \in SUBSET Entity
      /\ \A d \in Entity : T[d] = IF d = c THEN t ELSE w.Target[d]
      /\ \A v \in Inst : O[v] = IF v = t THEN c ELSE w.Owner[v]
  BY <1>1 DEF World
<1>3. x = [w EXCEPT !.collider = C, !.Owner = O, !.Target = T, !.resting = A]
  BY DEF ActiveAttach
<1>4. C = w.collider \ {t} /\ O = [w.Owner EXCEPT ![t] = c] /\ A = w.resting \ {c}
  OBVIOUS
<1> HIDE DEF C, O, T, A
<1>5. x \in World
  BY <1>1, <1>2, <1>3 DEF World
<1>6. /\ x.collider = C /\ x.Owner = O /\ x.Target = T
      /\ x.Active = w.Active /\ x.NumActive = w.NumActive /\ x.Movers = w.Movers
      /\ SameChains(x, w) /\ SameRest(x, w) /\ x.resting = A
  BY <1>1, <1>3 DEF World, SameChains, SameRest
<1>7. Pool(x, Null)
  <2>1. \A q \in Entity : q <= w.NumActive <=> w.Target[w.Active[q]] # Null \/ w.Active[q] = c
    BY <1>1 DEF Pool
  <2>2. \A q \in Entity : w.Active[q] \in Entity
    BY <1>1
  <2>3. \A q \in Entity : q <= w.NumActive <=> T[w.Active[q]] # Null \/ w.Active[q] = Null
    BY <1>1, <1>2, <2>1, <2>2, Ids
  <2>4. \A d \in Entity, v \in Inst : T[d] = v <=> O[v] = d
    <3>1. \A d \in Entity, v \in Inst : w.Target[d] = v <=> w.Owner[v] = d
      BY <1>1 DEF Pool
    <3> QED BY <1>1, <1>2, <3>1, Ids
  <2> QED BY <1>1, <1>6, <2>3, <2>4 DEF Pool
<1>8. Served(x, X)
  BY <1>2, <1>6 DEF Good, Served
<1>9. Chains(x)
  BY <1>6 DEF Good, Chains, SameChains, SameRest
<1>10. Settled(x)
  <2>1. Settled(w) /\ w.unhit \subseteq Unhit
    BY <1>1 DEF Good, World
  <2> QED BY <1>1, <1>2, <1>4, <1>6, <2>1, Ids DEF Settled, SameRest
<1>11. Driven(x)
  <2>1. \A k \in DOMAIN w.Movers : w.Movers[k].ent \in Entity \cup {Null}
    BY <1>1, MoverFacts
  <2>2. \A d \in Entity : w.Target[d] \in Hit => T[d] = w.Target[d]
    BY <1>1, <1>2, Ids
  <2>3. Driven(w)
    BY DEF Good
  <2> QED BY <1>6, <2>1, <2>2, <2>3 DEF Driven
<1> QED BY <1>2, <1>4, <1>5, <1>6, <1>7, <1>8, <1>9, <1>10, <1>11 DEF Good

\* The entities that PoolAttach takes as long as there are any, and the bangers
\* that keep theirs meanwhile.
Idle(w) == {d \in Entity : w.Target[d] = Null \/ d \in w.resting}
Kept(w, t) == w.Owner[t] \in Entity \ w.resting

\* What it takes to give t an entity, which is its own in x.
Taken(x, w, t) ==
    /\ x.resting = w.resting \ {x.Owner[t]}
    /\ Idle(w) # {} => x.Owner[t] \in Idle(w)
    /\ \A v \in Inst \ {t} : x.Owner[v] = IF w.Owner[v] = x.Owner[t] THEN Null ELSE w.Owner[v]

\* An entity is given to a banger without one; another may lose it for that.
LEMMA PoolAttachFacts ==
    ASSUME NEW w, NEW X, Good(w, X, Null), NEW t \in Inst, t \in Hit \cup X, w.Owner[t] = Null,
           NEW x \in PoolAttach(w, t)
    PROVE  /\ Good(x, X, Null) /\ SameChains(x, w) /\ SameRest(x, w)
           /\ x.Owner[t] \in Entity
           /\ \A v \in Inst \ {t} : x.Owner[v] \in {w.Owner[v], Null}
           /\ Taken(x, w, t)
<1> DEFINE n == w.NumActive
<1>1. /\ w \in World /\ Pool(w, Null) /\ n \in 0..MaxActive /\ w.Active \in [Entity -> Entity]
      /\ w.Owner \in [Inst -> Entity \cup {Null}] /\ w.resting \subseteq Entity
  BY DEF Good, World
<1>2. \A q \in Entity : q <= n <=> w.Target[w.Active[q]] # Null
  BY <1>1, Ids DEF Pool
<1>3. ~ \E b \in InUse(w) : w.Target[b] = t
  <2>1. InUse(w) \subseteq Entity
    <3>1. 1..n \subseteq Entity
      BY <1>1, PlaceRange
    <3> QED BY <1>1, <3>1 DEF InUse
  <2>2. \A b \in Entity : w.Target[b] = t => w.Owner[t] = b
    BY <1>1 DEF Pool
  <2> QED BY <2>1, <2>2, Ids
<1>4. CASE n < MaxActive
  <2> DEFINE c == w.Active[n + 1]
             y == [w EXCEPT !.NumActive = n + 1]
  <2>1. x = ActiveAttach(y, c, t)
    BY <1>3, <1>4 DEF PoolAttach
  <2>2. n + 1 \in Entity /\ c \in Entity /\ n + 1 \in 0..MaxActive
    BY <1>1, <1>4, PlaceRange
  <2>3. /\ y \in World /\ y.NumActive = n + 1 /\ y.Active = w.Active /\ y.Target = w.Target
        /\ y.Owner = w.Owner /\ y.Movers = w.Movers /\ y.collider = w.collider
        /\ SameChains(y, w) /\ SameRest(y, w) /\ y.resting = w.resting
    BY <1>1, <2>2 DEF World, SameChains, SameRest
  <2>4. c = w.Active[n + 1]
    OBVIOUS
  <2> HIDE DEF c, y
  <2>9. w.Target[c] = Null
    <3>1. ~(n + 1 <= n)
      BY <1>1
    <3> QED BY <1>2, <2>2, <2>4, <3>1
  <2>5. Pool(y, c)
    <3>2. \A q \in Entity : q <= n + 1 <=> q <= n \/ q = n + 1
      BY <1>1, <1>4, PlaceRange
    <3>3. \A q \in Entity : w.Active[q] = c <=> q = n + 1
      BY <1>1, <2>2, <2>4 DEF Pool
    <3>4. \A q \in Entity : q <= n + 1 <=> w.Target[w.Active[q]] # Null \/ w.Active[q] = c
      BY <1>2, <3>2, <3>3
    <3> QED BY <1>1, <2>3, <2>9, <3>4 DEF Pool
  <2>6. Good(y, X, c)
    BY <2>3, <2>5 DEF Good, Served, Chains, Settled, Driven, SameChains, SameRest
  <2>7. /\ Good(x, X, Null) /\ SameChains(x, y) /\ SameRest(x, y)
        /\ x.Owner[t] = c /\ \A v \in Inst \ {t} : x.Owner[v] = y.Owner[v]
        /\ x.resting = y.resting \ {c}
    BY <2>1, <2>2, <2>3, <2>6, ActiveAttachFacts
  <2>8. x.Owner[t] = c /\ \A v \in Inst \ {t} : x.Owner[v] = w.Owner[v]
    BY <2>3, <2>7
  <2>10. Taken(x, w, t)
    <3>1. c \in Idle(w)
      BY <2>2, <2>9 DEF Idle
    <3>2. \A v \in Inst : w.Owner[v] # c
      BY <1>1, <2>2, <2>9, Ids DEF Pool
    <3> QED BY <2>3, <2>7, <2>8, <3>1, <3>2 DEF Taken
  <2> QED BY <2>2, <2>3, <2>7, <2>8, <2>10 DEF SameChains, SameRest
<1>5. CASE ~(n < MaxActive)
  <2>1. PICK c \in Oldest(w) : x = ActiveAttach(ActiveDetach(w, c), c, t)
    BY <1>3, <1>5 DEF PoolAttach
  <2>2. c \in Entity
    <3>1. MaxActive \in Entity
      BY Ids DEF Entity
    <3> QED BY <1>1, <3>1 DEF Oldest
  <2>3. w.Target[c] # Null
    <3>1. PICK q \in Entity : w.Active[q] = c
      BY <1>1, <2>2 DEF Pool
    <3>2. q <= n
      BY <1>1, <1>5, PlaceRange
    <3> QED BY <1>2, <3>1, <3>2
  <2> DEFINE y == ActiveDetach(w, c)
  <2>0. y = ActiveDetach(w, c) /\ x = ActiveAttach(y, c, t)
    BY <2>1
  <2> HIDE DEF y
  <2>4. /\ Good(y, X, c)
        /\ \A v \in Inst : y.Owner[v] = IF v = w.Target[c] THEN Null ELSE w.Owner[v]
        /\ SameChains(y, w) /\ SameRest(y, w) /\ y.resting = w.resting \ {c}
    BY <2>0, <2>2, <2>3, ActiveDetachFacts
  <2>5. y.Owner[t] = Null
    BY <1>1, <2>4
  <2>6. \A v \in Inst : y.Owner[v] \in {w.Owner[v], Null}
    BY <1>1, <2>4
  <2>7. /\ Good(x, X, Null) /\ SameChains(x, y) /\ SameRest(x, y)
        /\ x.Owner[t] = c /\ \A v \in Inst \ {t} : x.Owner[v] = y.Owner[v]
        /\ x.resting = y.resting \ {c}
    BY <2>0, <2>2, <2>4, <2>5, ActiveAttachFacts
  <2>8. Taken(x, w, t)
    <3>1. Idle(w) # {} => c \in Idle(w)
      <4>1. \A d \in Entity : w.Target[d] # Null
        <5>1. SUFFICES ASSUME NEW d \in Entity PROVE w.Target[d] # Null
          OBVIOUS
        <5>2. PICK q \in Entity : w.Active[q] = d
          BY <1>1 DEF Pool
        <5>3. q <= n
          BY <1>1, <1>5, PlaceRange
        <5> QED BY <1>2, <5>2, <5>3
      <4> QED BY <2>1, <2>2, <4>1 DEF Idle, Oldest
    <3>2. \A v \in Inst : w.Owner[v] = c <=> v = w.Target[c]
      BY <1>1, <2>2 DEF Pool
    <3>3. \A v \in Inst \ {t} : x.Owner[v] = IF w.Owner[v] = c THEN Null ELSE w.Owner[v]
      BY <2>4, <2>7, <3>2
    <3>4. x.resting = w.resting \ {c}
      BY <2>4, <2>7
    <3> QED BY <2>7, <3>1, <3>3, <3>4 DEF Taken
  <2> QED BY <2>2, <2>4, <2>6, <2>7, <2>8 DEF SameChains, SameRest
<1> QED BY <1>4, <1>5

\* A banger that has an entity keeps it.
LEMMA AttachFacts ==
    ASSUME NEW w, NEW X, Good(w, X, Null), NEW t \in Inst, t \in Hit \cup X,
           NEW x \in AttachEntity(w, t)
    PROVE  /\ Good(x, X, Null) /\ SameChains(x, w) /\ SameRest(x, w)
           /\ x.Owner[t] \in Entity
           /\ \A v \in Inst \ {t} : x.Owner[v] \in {w.Owner[v], Null}
           /\ w.Owner[t] = Null => Taken(x, w, t)
<1>1. CASE w.Owner[t] = Null
  BY <1>1, PoolAttachFacts DEF AttachEntity
<1>2. CASE w.Owner[t] # Null
  <2>1. x = w
    BY <1>2 DEF AttachEntity
  <2>2. w.Owner[t] \in Entity \cup {Null}
    BY DEF Good, World
  <2> QED BY <1>2, <2>1, <2>2 DEF SameChains, SameRest
<1> QED BY <1>1, <1>2

\* A banger loses its entity, which is idle then, if it had one.
Freed(x, w, h) ==
    /\ x.Owner[h] = Null /\ \A t \in Inst \ {h} : x.Owner[t] = w.Owner[t]
    /\ x.resting \subseteq w.resting /\ w.resting \subseteq x.resting \cup {w.Owner[h]}

\* What was idle is idle after that, and the others keep what they have.
LEMMA IdleFreed ==
    ASSUME NEW w, NEW X, Good(w, X, Null), NEW x, NEW Y, Good(x, Y, Null),
           NEW h \in Inst, Freed(x, w, h)
    PROVE  Idle(w) \subseteq Idle(x) /\ \A t \in Inst \ {h} : Kept(w, t) => Kept(x, t)
<1>1. /\ \A d \in Entity, t \in Inst : w.Target[d] = t <=> w.Owner[t] = d
      /\ \A d \in Entity, t \in Inst : x.Target[d] = t <=> x.Owner[t] = d
      /\ \A d \in Entity : x.Target[d] \in Inst \cup {Null}
  BY DEF Good, Pool, World
<1>2. ASSUME NEW d \in Idle(w) PROVE d \in Idle(x)
  <2>1. d \in Entity
    BY DEF Idle
  <2>2. SUFFICES ASSUME x.Target[d] # Null, d \notin x.resting PROVE FALSE
    BY <2>1 DEF Idle
  <2> DEFINE t == x.Target[d]
  <2>3. t \in Inst /\ x.Owner[t] = d
    BY <1>1, <2>1, <2>2
  <2>4. t # h /\ w.Owner[t] = d
    BY <2>1, <2>3, Ids DEF Freed
  <2>5. w.Target[d] = t /\ t # Null
    BY <1>1, <2>1, <2>3, <2>4, Ids
  <2>6. d \in w.resting
    BY <2>5 DEF Idle
  <2>7. d = w.Owner[h]
    BY <2>2, <2>6 DEF Freed
  <2>8. w.Target[d] = h
    BY <1>1, <2>1, <2>7
  <2> QED BY <2>4, <2>5, <2>8
<1>3. ASSUME NEW t \in Inst \ {h}, Kept(w, t) PROVE Kept(x, t)
  BY <1>3 DEF Freed, Kept
<1> QED BY <1>2, <1>3

\* The one that is taken is idle no more; nobody else loses what is not idle.
LEMMA IdleTaken ==
    ASSUME NEW w, NEW X, Good(w, X, Null), NEW x, NEW Y, Good(x, Y, Null),
           NEW t \in Inst, x.Owner[t] \in Entity, Taken(x, w, t)
    PROVE  /\ Kept(x, t) /\ Idle(w) \ {x.Owner[t]} \subseteq Idle(x)
           /\ Idle(w) # {} =>
                  \A v \in Inst \ {t} : Kept(w, v) => Kept(x, v) /\ x.Owner[v] = w.Owner[v]
<1> DEFINE c == x.Owner[t]
<1>1. /\ \A d \in Entity, v \in Inst : w.Target[d] = v <=> w.Owner[v] = d
      /\ \A d \in Entity, v \in Inst : x.Target[d] = v <=> x.Owner[v] = d
      /\ \A d \in Entity : x.Target[d] \in Inst \cup {Null}
  BY DEF Good, Pool, World
<1>2. /\ c \in Entity /\ x.resting = w.resting \ {c} /\ (Idle(w) # {} => c \in Idle(w))
      /\ \A v \in Inst \ {t} : x.Owner[v] = IF w.Owner[v] = c THEN Null ELSE w.Owner[v]
  BY DEF Taken
<1>3. Kept(x, t)
  BY <1>2 DEF Kept
<1>4. c = x.Owner[t]
  OBVIOUS
<1> HIDE DEF c
<1>5. ASSUME NEW d \in Idle(w) \ {c} PROVE d \in Idle(x)
  <2>1. d \in Entity /\ d # c
    BY DEF Idle
  <2>2. SUFFICES ASSUME x.Target[d] # Null, d \notin x.resting PROVE FALSE
    BY <2>1 DEF Idle
  <2> DEFINE v == x.Target[d]
  <2>3. v \in Inst /\ x.Owner[v] = d
    BY <1>1, <2>1, <2>2
  <2>4. v # t /\ w.Owner[v] = d
    BY <1>2, <1>4, <2>1, <2>3, Ids
  <2>5. w.Target[d] # Null
    BY <1>1, <2>1, <2>3, <2>4, Ids
  <2>6. d \in w.resting
    BY <2>5 DEF Idle
  <2> QED BY <1>2, <2>1, <2>2, <2>6
<1>6. ASSUME Idle(w) # {}, NEW v \in Inst \ {t}, Kept(w, v)
      PROVE  Kept(x, v) /\ x.Owner[v] = w.Owner[v]
  <2>1. w.Owner[v] \in Entity /\ w.Owner[v] \notin w.resting
    BY <1>6 DEF Kept
  <2>2. w.Owner[v] # c
    <3>1. SUFFICES ASSUME w.Owner[v] = c PROVE FALSE
      OBVIOUS
    <3>2. w.Target[c] = v /\ c \in Idle(w) /\ v # Null
      BY <1>1, <1>2, <1>6, <3>1, Ids
    <3> QED BY <2>1, <3>1, <3>2 DEF Idle
  <2>3. x.Owner[v] = w.Owner[v]
    BY <1>2, <2>2
  <2> QED BY <1>2, <2>1, <2>2, <2>3 DEF Kept
<1> QED BY <1>3, <1>4, <1>5, <1>6

-----------------------------------------------------------------------------
(* The ring *)

\* The banger that the ring gives after h.
After(h) == (h % MaxHit) + 1

\* What GetBanger leaves in x: banger h, which it hands out, has no entity and no chain, and
\* the rest is as it was in w.
Got(x, w, X, h) ==
    /\ Good(x, X, Null) /\ h \in Hit /\ x.ChainId[h] = -1 /\ x.Owner[h] = Null
    /\ x.unhit = w.unhit /\ x.NextBanger = After(h) /\ Freed(x, w, h)
    /\ \A t \in Inst \ {h} : x.Owner[t] = w.Owner[t] /\ x.ChainId[t] = w.ChainId[t]

\* What becomes of a world when a hit banger is taken: the banger h is in no
\* chain and has no entity, and all others keep theirs.
LEMMA GetBangerFacts ==
    ASSUME NEW w, NEW X, Good(w, X, Null), NEW h, h = w.NextBanger, NEW x, x = GetBanger(w)
    PROVE  Got(x, w, X, h)
<1> DEFINE v == [w EXCEPT !.NextBanger = (h % MaxHit) + 1]
           y == IF v.Owner[h] = Null THEN v ELSE DetachMe(v, v.Owner[h])
<1>1. w \in World /\ h \in Hit /\ h \in Inst
  BY Ids DEF Good, World
<1>2. (h % MaxHit) + 1 \in Hit
  <2>1. MaxHit \in Nat \ {0} /\ h \in Nat
    BY <1>1, Ids DEF Hit
  <2>2. h % MaxHit \in 0..(MaxHit - 1)
    BY <2>1
  <2> QED BY <2>1, <2>2 DEF Hit
<1>3. x = IF y.ChainId[h] = -1 THEN y ELSE Unparent(y, h)
  BY DEF GetBanger
<1>4. /\ v \in World /\ SamePool(v, w) /\ SameChains(v, w)
      /\ v.unhit = w.unhit /\ v.collider = w.collider /\ v.Movers = w.Movers
      /\ v.NextBanger = After(h)
  BY <1>1, <1>2 DEF World, SamePool, SameChains, After
<1> HIDE DEF v
<1>5. Good(v, X, Null)
  BY <1>4 DEF Good, Pool, Served, Chains, Settled, Driven, SamePool, SameChains
<1>6. /\ Good(y, X, Null) /\ SameChains(y, v) /\ SameRest(y, v) /\ y.Owner[h] = Null
      /\ (\A t \in Inst \ {h} : y.Owner[t] = v.Owner[t]) /\ Freed(y, v, h)
  <2>1. CASE v.Owner[h] = Null
    BY <1>5, <2>1 DEF SameChains, SameRest, Freed
  <2>2. CASE v.Owner[h] # Null
    <3> DEFINE c == v.Owner[h]
    <3>1. c \in Entity
      BY <1>1, <1>4, <2>2 DEF World
    <3>2. y = DetachMe(v, c)
      BY <2>2
    <3>3. c = v.Owner[h]
      OBVIOUS
    <3> HIDE DEF y, c
    <3>4. /\ Good(y, X, Null) /\ SameChains(y, v) /\ SameRest(y, v)
          /\ \A t \in Inst : y.Owner[t] = IF v.Owner[t] = c THEN Null ELSE v.Owner[t]
          /\ y.resting \subseteq v.resting /\ v.resting \subseteq y.resting \cup {c}
      BY <1>5, <3>1, <3>2, DetachFacts
    <3>5. \A d \in Entity, t \in Inst : v.Target[d] = t <=> v.Owner[t] = d
      BY <1>5 DEF Good, Pool
    <3>6. \A t \in Inst \ {h} : v.Owner[t] # c
      BY <1>1, <3>1, <3>3, <3>5
    <3> QED BY <1>1, <3>3, <3>4, <3>6 DEF Freed
  <2> QED BY <2>1, <2>2
<1> HIDE DEF y
<1>7. CASE y.ChainId[h] = -1
  <2>1. x = y
    BY <1>3, <1>7
  <2> QED BY <1>1, <1>4, <1>6, <1>7, <2>1 DEF Got, SamePool, SameChains, SameRest, Freed
<1>8. CASE y.ChainId[h] # -1
  <2>1. x = Unparent(y, h)
    BY <1>3, <1>8
  <2>2. /\ Good(x, X, Null) /\ SamePool(x, y) /\ SameRest(x, y) /\ x.ChainId[h] = -1
        /\ \A t \in Inst \ {h} : x.ChainId[t] = y.ChainId[t]
    BY <1>1, <1>6, <1>8, <2>1, UnparentFacts
  <2> QED BY <1>1, <1>4, <1>6, <2>2 DEF Got, SamePool, SameChains, SameRest, Freed
<1> QED BY <1>7, <1>8

\* A struck prop keeps what it has while the next hit banger takes its room.
LEMMA NewHitFacts ==
    ASSUME NEW w, NEW X, Good(w, X, Null), NEW u \in Unhit, NEW kind \in Kinds,
           NEW h, h = w.NextBanger, NEW x, x = NewHit(w, u, kind)
    PROVE  /\ Good(x, X, Null) /\ h \in Hit /\ x.Owner[h] = Null /\ x.unhit = w.unhit
           /\ (\A t \in Inst \ {h} : x.Owner[t] = w.Owner[t])
           /\ x.NextBanger = After(h) /\ Freed(x, w, h)
<1> DEFINE r == w.ChainId[u]
           v == GetBanger(w)
           y == Parent(v, h, r)
           K == [y.kind EXCEPT ![h] = kind]
<1>1. /\ Good(v, X, Null) /\ h \in Hit /\ v.ChainId[h] = -1 /\ v.Owner[h] = Null
      /\ v.unhit = w.unhit /\ v.NextBanger = After(h) /\ Freed(v, w, h)
      /\ \A t \in Inst \ {h} : v.Owner[t] = w.Owner[t] /\ v.ChainId[t] = w.ChainId[t]
  <2>1. v = GetBanger(w)
    OBVIOUS
  <2> HIDE DEF v
  <2>2. Got(v, w, X, h)
    BY <2>1, GetBangerFacts
  <2> QED BY <2>2 DEF Got
<1>2. r \in Rooms
  BY Ids DEF Good, World, Chains
<1>3. x = [y EXCEPT !.kind = K]
  BY DEF NewHit
<1> HIDE DEF v, r
<1>4. /\ Good(y, X, Null) /\ SamePool(y, v) /\ SameRest(y, v)
  <2>1. y = Parent(v, h, r)
    OBVIOUS
  <2> HIDE DEF y
  <2> QED BY <1>1, <1>2, <2>1, ParentFacts
<1> HIDE DEF y
<1>5. K \in [Hit -> Kinds] /\ y \in World
  BY <1>1, <1>4 DEF Good, World
<1> HIDE DEF K
<1>6. /\ x \in World /\ SamePool(x, y) /\ SameChains(x, y)
      /\ x.unhit = y.unhit /\ x.collider = y.collider /\ x.Movers = y.Movers
      /\ x.NextBanger = y.NextBanger
  BY <1>3, <1>5 DEF World, SamePool, SameChains
<1>7. Good(x, X, Null)
  BY <1>4, <1>6 DEF Good, Pool, Served, Chains, Settled, Driven, SamePool, SameChains
<1> QED BY <1>1, <1>4, <1>6, <1>7 DEF SamePool, SameRest, Freed

\* A hit banger loses its entity and leaves its chain.
LEMMA HitDetachFacts ==
    ASSUME NEW w, NEW X, Good(w, X, Null), NEW h \in Hit, NEW x, x = HitDetach(w, h)
    PROVE  Good(x, X, Null) /\ (Fresh(w) => Fresh(x)) /\ x.unhit = w.unhit
<1> DEFINE y == IF w.Owner[h] = Null THEN w ELSE DetachMe(w, w.Owner[h])
<1>1. x = IF y.ChainId[h] = -1 THEN y ELSE Unparent(y, h)
  BY Zenon DEF HitDetach
<1>2. Good(y, X, Null) /\ (Fresh(w) => Fresh(y)) /\ y.unhit = w.unhit
  <2>1. CASE w.Owner[h] = Null
    BY <2>1
  <2>2. CASE w.Owner[h] # Null
    <3> DEFINE c == w.Owner[h]
    <3>1. h \in Inst /\ w \in World
      BY Ids DEF Good
    <3>2. c \in Entity
      BY <2>2, <3>1 DEF World
    <3>3. y = DetachMe(w, c)
      BY <2>2
    <3> HIDE DEF y, c
    <3> QED BY <3>2, <3>3, DetachFacts DEF SameRest
  <2> QED BY <2>1, <2>2
<1> HIDE DEF y
<1>3. CASE y.ChainId[h] = -1
  BY <1>1, <1>2, <1>3
<1>4. CASE y.ChainId[h] # -1
  <2>1. x = Unparent(y, h)
    BY <1>1, <1>4
  <2> QED BY <1>2, <1>4, <2>1, UnparentFacts DEF SameRest
<1> QED BY <1>3, <1>4

\* The hit banger takes the place of the prop at its entity.
LEMMA BecomeFacts ==
    ASSUME NEW w, NEW u \in Unhit, Good(w, {u}, Null), u \notin w.unhit, w.Owner[u] # Null,
           NEW other, NEW x, x = Become(w, u, other)
    PROVE  Good(x, {}, Null) /\ x.unhit = w.unhit /\ x.Owner[w.NextBanger] # Null
<1> DEFINE h == w.NextBanger
           b == w.Owner[u]
           y == NewHit(w, u, Kind[u])
           O == [[y.Owner EXCEPT ![h] = y.Owner[u]] EXCEPT ![u] = Null]
           T == [y.Target EXCEPT ![b] = h]
           z == [y EXCEPT !.Owner = O, !.Target = T]
<1>1. x = HitMover(z, h, other)
  BY DEF Become
<1>2. Kind[u] \in Kinds /\ u \in Inst /\ u \notin Hit
  BY BangersAssumption, Ids
<1>3. b \in Entity
  BY <1>2 DEF Good, World
<1>4. /\ Good(y, {u}, Null) /\ h \in Hit /\ y.Owner[h] = Null /\ y.unhit = w.unhit
      /\ \A t \in Inst \ {h} : y.Owner[t] = w.Owner[t]
  <2> DEFINE k == Kind[u]
  <2>1. y = NewHit(w, u, k) /\ h = w.NextBanger /\ k \in Kinds
    BY <1>2
  <2> HIDE DEF y, h, k
  <2> QED BY <2>1, NewHitFacts
<1>5. y.Owner[u] = b /\ h = w.NextBanger
  BY <1>2, <1>4
<1> HIDE DEF y, b, h
<1>6. y \in World /\ h \in Inst /\ h # u /\ h # Null /\ u # Null
  BY <1>2, <1>4, Ids DEF Good
<1>7. /\ O \in [Inst -> Entity \cup {Null}] /\ T \in [Entity -> Inst \cup {Null}]
      /\ \A t \in Inst : O[t] = IF t = u THEN Null ELSE IF t = h THEN b ELSE y.Owner[t]
      /\ \A d \in Entity : T[d] = IF d = b THEN h ELSE y.Target[d]
  BY <1>2, <1>3, <1>5, <1>6 DEF World
<1>8. z = [y EXCEPT !.Owner = O, !.Target = T]
  OBVIOUS
<1> HIDE DEF O, T, z
<1>9. /\ z \in World /\ z.Owner = O /\ z.Target = T /\ z.Active = y.Active
      /\ z.NumActive = y.NumActive /\ z.Movers = y.Movers /\ z.collider = y.collider
      /\ SameChains(z, y) /\ SameRest(z, y)
  BY <1>6, <1>7, <1>8 DEF World, SameChains, SameRest
<1>10. \A d \in Entity, t \in Inst : y.Target[d] = t <=> y.Owner[t] = d
  BY <1>4 DEF Good, Pool
<1>11. y.Target[b] = u
  BY <1>2, <1>3, <1>5, <1>10
<1>12. Pool(z, Null)
  <2>1. Pool(y, Null) /\ y.Active \in [Entity -> Entity]
    BY <1>4, <1>6 DEF Good, World
  <2>2. \A d \in Entity : T[d] # Null <=> y.Target[d] # Null
    BY <1>6, <1>7, <1>11
  <2>3. \A p \in Entity : p <= y.NumActive <=> T[y.Active[p]] # Null \/ y.Active[p] = Null
    BY <2>1, <2>2 DEF Pool
  <2>4. \A d \in Entity, t \in Inst : T[d] = t <=> O[t] = d
    BY <1>2, <1>3, <1>4, <1>6, <1>7, <1>10, <1>11, Ids
  <2> QED BY <1>9, <2>1, <2>3, <2>4 DEF Pool
<1>13. Served(z, {})
  <2>1. \A t \in Inst \ (Hit \cup {u}) : y.Owner[t] = Null
    BY <1>4 DEF Good, Served
  <2> QED BY <1>4, <1>7, <1>9, <2>1 DEF Served
<1>14. Chains(z)
  BY <1>4, <1>9 DEF Good, Chains, SameChains, SameRest
<1>15. Settled(z)
  <2>1. \A t \in Hit \cup y.unhit : y.Owner[t] = Null => t \in y.collider
    BY <1>4 DEF Good, Settled
  <2>2. y.unhit \subseteq Inst /\ u \notin y.unhit /\ Hit \subseteq Inst
    BY <1>4, <1>6, Ids DEF World
  <2> QED BY <1>2, <1>3, <1>7, <1>9, <2>1, <2>2, Ids DEF Settled, SameRest
<1>16. Driven(z)
  <2>1. \A k \in DOMAIN y.Movers : y.Movers[k].ent \in Entity \cup {Null}
    BY <1>6, MoverFacts
  <2>2. \A d \in Entity : y.Target[d] \in Hit => T[d] = y.Target[d]
    BY <1>2, <1>7, <1>11
  <2>3. Driven(y)
    BY <1>4 DEF Good
  <2> QED BY <1>9, <2>1, <2>2, <2>3 DEF Driven
<1>17. Good(z, {}, Null)
  BY <1>4, <1>9, <1>12, <1>13, <1>14, <1>15, <1>16 DEF Good
<1>18. Good(x, {}, Null) /\ SameBut(x, z)
  BY <1>1, <1>6, <1>17, HitMoverFacts
<1> QED BY <1>3, <1>4, <1>5, <1>6, <1>7, <1>9, <1>18, Ids DEF SameBut, SameRest

-----------------------------------------------------------------------------
(* Impact *)

\* The banger that the ring gives after n others.
Nth(h, n) == ((h + n - 1) % MaxHit) + 1

\* A remainder within two rounds.
LEMMA Modulo ==
    ASSUME NEW m \in Nat \ {0}, NEW a \in 0..(2 * m - 1)
    PROVE  a % m = IF a < m THEN a ELSE a - m
  OBVIOUS

\* In one round the ring gives each once.
LEMMA RoundFacts ==
    ASSUME NEW h \in Hit
    PROVE  /\ Nth(h, 0) = h
           /\ \A n \in 0..MaxHit : Nth(h, n) \in Hit
           /\ \A n \in 0..(MaxHit - 1) : After(Nth(h, n)) = Nth(h, n + 1)
           /\ \A n, j \in 0..(MaxHit - 1) : Nth(h, n) = Nth(h, j) => n = j
<1> DEFINE M == MaxHit
<1>1. M \in Nat \ {0} /\ h \in 1..M
  BY Ids DEF Hit
<1>2. \A n \in 0..M : Nth(h, n) = IF h + n - 1 < M THEN h + n ELSE h + n - M
  <2>1. SUFFICES ASSUME NEW n \in 0..M
                 PROVE  Nth(h, n) = IF h + n - 1 < M THEN h + n ELSE h + n - M
    OBVIOUS
  <2> DEFINE a == h + n - 1
  <2>2. a \in 0..(2 * M - 1) /\ Nth(h, n) = (a % M) + 1
    BY <1>1 DEF Nth
  <2>3. a % M = IF a < M THEN a ELSE a - M
    <3> HIDE DEF a, M
    <3> QED BY <1>1, <2>2, Modulo
  <2> QED BY <1>1, <2>2, <2>3
<1>3. \A k \in 1..M : After(k) = IF k < M THEN k + 1 ELSE 1
  <2>1. SUFFICES ASSUME NEW k \in 1..M PROVE After(k) = IF k < M THEN k + 1 ELSE 1
    OBVIOUS
  <2>2. k \in 0..(2 * M - 1) /\ After(k) = (k % M) + 1
    BY <1>1 DEF After
  <2>3. k % M = IF k < M THEN k ELSE k - M
    <3> HIDE DEF M
    <3> QED BY <1>1, <2>2, Modulo
  <2> QED BY <1>1, <2>2, <2>3
<1>4. Hit = 1..M
  BY DEF Hit
<1> HIDE DEF M
<1>5. Nth(h, 0) = h
  BY <1>1, <1>2
<1>6. \A n \in 0..M : Nth(h, n) \in Hit
  BY <1>1, <1>2, <1>4
<1>7. ASSUME NEW n \in 0..(M - 1) PROVE After(Nth(h, n)) = Nth(h, n + 1)
  <2>1. n \in 0..M /\ n + 1 \in 0..M
    BY <1>1
  <2>2. Nth(h, n) = IF h + n - 1 < M THEN h + n ELSE h + n - M
    BY <1>2, <2>1
  <2>3. Nth(h, n + 1) = IF h + (n + 1) - 1 < M THEN h + (n + 1) ELSE h + (n + 1) - M
    BY <1>2, <2>1
  <2>4. Nth(h, n) \in 1..M
    BY <1>4, <1>6, <2>1
  <2>5. After(Nth(h, n)) = IF Nth(h, n) < M THEN Nth(h, n) + 1 ELSE 1
    BY <1>3, <2>4
  <2> QED BY <1>1, <2>1, <2>2, <2>3, <2>5
<1>8. ASSUME NEW n \in 0..(M - 1), NEW j \in 0..(M - 1), Nth(h, n) = Nth(h, j)
      PROVE  n = j
  <2>1. n \in 0..M /\ j \in 0..M
    BY <1>1
  <2>2. /\ Nth(h, n) = IF h + n - 1 < M THEN h + n ELSE h + n - M
        /\ Nth(h, j) = IF h + j - 1 < M THEN h + j ELSE h + j - M
    BY <1>2, <2>1
  <2>3. n \in Nat /\ j \in Nat /\ n < M /\ j < M /\ h \in Nat /\ h >= 1 /\ h <= M
    BY <1>1
  <2>4. CASE h + n - 1 < M /\ h + j - 1 < M
    <3>1. Nth(h, n) = h + n /\ Nth(h, j) = h + j
      BY <2>2, <2>4
    <3>2. h + n = h + j
      BY <1>8, <3>1
    <3> QED BY <1>1, <2>3, <3>2
  <2>5. CASE ~(h + n - 1 < M) /\ ~(h + j - 1 < M)
    <3>1. Nth(h, n) = h + n - M /\ Nth(h, j) = h + j - M
      BY <2>2, <2>5
    <3>2. h + n - M = h + j - M
      BY <1>8, <3>1
    <3> QED BY <1>1, <2>3, <3>2
  <2>6. CASE h + n - 1 < M /\ ~(h + j - 1 < M)
    <3>1. Nth(h, n) = h + n /\ Nth(h, j) = h + j - M
      BY <2>2, <2>6
    <3>2. h + n = h + j - M
      BY <1>8, <3>1
    <3> QED BY <1>1, <2>3, <3>2
  <2>7. CASE ~(h + n - 1 < M) /\ h + j - 1 < M
    <3>1. Nth(h, n) = h + n - M /\ Nth(h, j) = h + j
      BY <2>2, <2>7
    <3>2. h + n - M = h + j
      BY <1>8, <3>1
    <3> QED BY <1>1, <2>3, <3>2
  <2> QED BY <2>4, <2>5, <2>6, <2>7
<1> QED BY <1>5, <1>6, <1>7, <1>8 DEF M

\* One part more, for which the ring gave h: the prop keeps its entity or has lost
\* it to a part.  As long as there are idle ones the part takes one of them, and
\* others keep theirs.
PartDone(x, w, u, h) ==
    /\ Good(x, {u}, Null) /\ x.unhit = w.unhit
    /\ x.Owner[u] \in {w.Owner[u], Null}
    /\ x.NextBanger = After(h) /\ Kept(x, h)
    /\ \E c \in Entity : Idle(w) \ {c} \subseteq Idle(x)
    /\ Idle(w) # {} =>
           \A v \in Inst \ {h} : Kept(w, v) => Kept(x, v) /\ x.Owner[v] = w.Owner[v]

\* Every part of Impact's loop does that.
LEMMA PartFacts ==
    ASSUME NEW u \in Unhit, NEW w, Good(w, {u}, Null), NEW kind \in Kinds, NEW other,
           NEW x \in Part(w, u, kind, other), NEW h, h = w.NextBanger
    PROVE  PartDone(x, w, u, h)
<1> DEFINE y == NewHit(w, u, kind)
<1>1. PICK z \in AttachEntity(y, h) : x = HitMover(z, h, other)
  BY DEF Part
<1>2. /\ Good(y, {u}, Null) /\ h \in Hit /\ y.Owner[h] = Null /\ y.unhit = w.unhit
      /\ \A t \in Inst \ {h} : y.Owner[t] = w.Owner[t]
      /\ y.NextBanger = After(h) /\ Freed(y, w, h)
  <2>1. y = NewHit(w, u, kind)
    OBVIOUS
  <2> HIDE DEF y
  <2> QED BY <2>1, NewHitFacts
<1>3. h \in Inst /\ h \in Hit \cup {u} /\ u \in Inst \ {h} /\ h = w.NextBanger
  BY <1>2, Ids
<1> HIDE DEF y
<1>4. /\ Good(z, {u}, Null) /\ SameRest(z, y) /\ z.Owner[h] \in Entity
      /\ \A v \in Inst \ {h} : z.Owner[v] \in {y.Owner[v], Null}
      /\ Taken(z, y, h)
  BY <1>2, <1>3, AttachFacts
<1>5. Good(x, {u}, Null) /\ SameBut(x, z)
  BY <1>1, <1>3, <1>4, HitMoverFacts
<1>6. Idle(w) \subseteq Idle(y) /\ \A t \in Inst \ {h} : Kept(w, t) => Kept(y, t)
  BY <1>2, <1>3, IdleFreed
<1>7. /\ Kept(z, h) /\ Idle(y) \ {z.Owner[h]} \subseteq Idle(z)
      /\ Idle(y) # {} =>
             \A v \in Inst \ {h} : Kept(y, v) => Kept(z, v) /\ z.Owner[v] = y.Owner[v]
  BY <1>2, <1>3, <1>4, IdleTaken
<1>8. Idle(x) = Idle(z) /\ x.Owner = z.Owner /\ x.resting = z.resting
  BY <1>5 DEF SameBut, Idle
<1>9. Idle(w) # {} =>
          \A v \in Inst \ {h} : Kept(w, v) => Kept(x, v) /\ x.Owner[v] = w.Owner[v]
  BY <1>2, <1>6, <1>7, <1>8 DEF Kept
<1>10. \E c \in Entity : Idle(w) \ {c} \subseteq Idle(x)
  BY <1>4, <1>6, <1>7, <1>8
<1>11. Kept(x, h) /\ x.NextBanger = After(h)
  BY <1>2, <1>4, <1>5, <1>7, <1>8 DEF Kept, SameRest, SameBut
<1> QED BY <1>2, <1>3, <1>4, <1>5, <1>9, <1>10, <1>11 DEF SameRest, SameBut, PartDone

\* The worlds there may be after each number of parts.
PartRun(f, m, w, u, other) ==
    f = [n \in 0..m |-> IF n = 0 THEN {w} ELSE NthPart(f[n - 1], n, u, other)]

\* There are such sets, since there is no least number without.
LEMMA PartRuns ==
    ASSUME NEW w, NEW u, NEW other, NEW m \in Nat
    PROVE  \E f : PartRun(f, m, w, u, other)
<1> DEFINE S == {n \in Nat : ~ \E f : PartRun(f, n, w, u, other)}
<1>1. SUFFICES ASSUME S # {} PROVE FALSE
  OBVIOUS
<1>2. PICK k \in S : \A n \in S : k <= n
  BY <1>1, LeastExists
<1>3. k \in Nat /\ ~ \E f : PartRun(f, k, w, u, other)
  OBVIOUS
<1>4. CASE k = 0
  <2> DEFINE g == [n \in 0..0 |-> {w}]
  <2>1. g = [n \in 0..0 |-> IF n = 0 THEN {w} ELSE NthPart(g[n - 1], n, u, other)]
    OBVIOUS
  <2>2. PartRun(g, 0, w, u, other)
    BY <2>1 DEF PartRun
  <2> HIDE DEF g
  <2> QED BY <1>3, <1>4, <2>2
<1>5. CASE k # 0
  <2>1. k - 1 \in Nat /\ ~(k <= k - 1)
    BY <1>3, <1>5
  <2>2. PICK f : PartRun(f, k - 1, w, u, other)
    BY <1>2, <2>1
  <2> DEFINE g == [n \in 0..k |-> IF n = k THEN NthPart(f[k - 1], k, u, other) ELSE f[n]]
  <2>3. \A n \in 0..(k - 1) : f[n] = IF n = 0 THEN {w} ELSE NthPart(f[n - 1], n, u, other)
    <3>1. f = [n \in 0..(k - 1) |-> IF n = 0 THEN {w} ELSE NthPart(f[n - 1], n, u, other)]
      BY <2>2, Zenon DEF PartRun
    <3> QED BY <3>1
  <2>4. ASSUME NEW n \in 0..k
        PROVE  g[n] = IF n = 0 THEN {w} ELSE NthPart(g[n - 1], n, u, other)
    <3>1. CASE n = k
      <4>1. g[n] = NthPart(f[k - 1], k, u, other)
        BY <3>1
      <4>2. g[k - 1] = f[k - 1]
        BY <2>1
      <4> QED BY <1>5, <3>1, <4>1, <4>2
    <3>2. CASE n # k
      <4>1. n \in 0..(k - 1) /\ g[n] = f[n]
        BY <1>3, <3>2
      <4>2. n # 0 => g[n - 1] = f[n - 1]
        BY <1>3, <3>2
      <4> QED BY <2>3, <4>1, <4>2
    <3> QED BY <3>1, <3>2
  <2>5. g = [n \in 0..k |-> g[n]]
    OBVIOUS
  <2> HIDE DEF g
  <2>6. [n \in 0..k |-> g[n]]
            = [n \in 0..k |-> IF n = 0 THEN {w} ELSE NthPart(g[n - 1], n, u, other)]
    BY <2>4
  <2>7. PartRun(g, k, w, u, other)
    BY <2>5, <2>6 DEF PartRun
  <2> QED BY <1>3, <2>7
<1> QED BY <1>4, <1>5

\* Each of them is one part after one of those before.
Parting(f, m, w, u, other) ==
    /\ f[0] = {w}
    /\ \A n \in 1..m : \A z \in f[n] :
           /\ Parts[u][n] \in Kinds
           /\ \E y \in f[n - 1] : z \in Part(y, u, Parts[u][n], other)

\* What Break gives is at the end of such a run.
LEMMA BreakIs ==
    ASSUME NEW w, NEW u \in Unhit, NEW other, NEW x \in Break(w, u, other), NEW b, b = w.Owner[u],
           NEW m, m = Len(Parts[u])
    PROVE  \E f : Parting(f, m, w, u, other) /\ \E z \in f[m] : x = DetachMe(z, b)
<1> DEFINE after == CHOOSE f : PartRun(f, m, w, u, other)
<1>1. m \in Nat /\ Parts[u] \in Seq(Kinds)
  BY BangersAssumption
<1>2. x \in {DetachMe(z, w.Owner[u]) : z \in after[m]}
  BY Zenon DEF Break, PartRun
<1>3. PartRun(after, m, w, u, other)
  BY <1>1, PartRuns
<1> HIDE DEF after
<1>4. \A n \in 0..m : after[n] = IF n = 0 THEN {w} ELSE NthPart(after[n - 1], n, u, other)
  <2>1. after = [n \in 0..m |-> IF n = 0 THEN {w} ELSE NthPart(after[n - 1], n, u, other)]
    BY <1>3, Zenon DEF PartRun
  <2> QED BY <2>1
<1>5. after[0] = {w}
  BY <1>1, <1>4
<1>6. ASSUME NEW n \in 1..m, NEW z \in after[n]
      PROVE  /\ Parts[u][n] \in Kinds
             /\ \E y \in after[n - 1] : z \in Part(y, u, Parts[u][n], other)
  <2>1. n \in 0..m /\ n # 0
    BY <1>1
  <2>2. z \in NthPart(after[n - 1], n, u, other)
    BY <1>4, <2>1
  <2>3. Parts[u][n] \in Kinds
    BY <1>1
  <2> QED BY <2>2, <2>3 DEF NthPart
<1>7. Parting(after, m, w, u, other)
  BY <1>5, <1>6 DEF Parting
<1> QED BY <1>2, <1>7

\* All parts, and then the entity of the prop goes, if it is still the prop's.
LEMMA BreakFacts ==
    ASSUME NEW w, NEW u \in Unhit, Good(w, {u}, Null), w.Owner[u] # Null,
           NEW other, NEW x \in Break(w, u, other)
    PROVE  Good(x, {}, Null) /\ x.unhit = w.unhit
<1> DEFINE m == Len(Parts[u])
           b == w.Owner[u]
<1>1. m \in Nat /\ m = Len(Parts[u])
  BY BangersAssumption
<1>4. b \in Entity /\ u \in Inst
  BY Ids DEF Good, World
<1>5. b = w.Owner[u]
  OBVIOUS
<1> HIDE DEF b, m
<1>2. PICK after : Parting(after, m, w, u, other) /\ \E z \in after[m] : x = DetachMe(z, b)
  BY <1>1, <1>5, BreakIs
<1> DEFINE Fine(z) == Good(z, {u}, Null) /\ z.Owner[u] \in {b, Null} /\ z.unhit = w.unhit
           S == {n \in Nat : n <= m /\ ~ \A z \in after[n] : Fine(z)}
<1>7. S = {}
  <2>1. SUFFICES ASSUME S # {} PROVE FALSE
    OBVIOUS
  <2>2. PICK k \in S : \A n \in S : k <= n
    BY <2>1, LeastExists
  <2>3. k \in Nat /\ k <= m /\ ~ \A z \in after[k] : Fine(z)
    OBVIOUS
  <2>4. PICK z \in after[k] : ~Fine(z)
    BY <2>3
  <2>5. k # 0
    <3>1. SUFFICES ASSUME k = 0 PROVE FALSE
      OBVIOUS
    <3>3. z = w
      BY <1>2, <2>4, <3>1 DEF Parting
    <3> QED BY <1>5, <2>4, <3>3
  <2>6. k - 1 \in Nat /\ k - 1 <= m /\ ~(k <= k - 1) /\ k \in 1..m /\ k \in 0..m
    BY <1>1, <2>3, <2>5
  <2>7. \A y \in after[k - 1] : Fine(y)
    BY <2>2, <2>6
  <2>9. Parts[u][k] \in Kinds /\ \E y \in after[k - 1] : z \in Part(y, u, Parts[u][k], other)
    BY <1>2, <2>4, <2>6 DEF Parting
  <2>10. PICK y \in after[k - 1] : z \in Part(y, u, Parts[u][k], other)
    BY <2>9
  <2>11. Good(y, {u}, Null) /\ y.Owner[u] \in {b, Null} /\ y.unhit = w.unhit
    BY <2>7
  <2> DEFINE kind == Parts[u][k]
  <2>14. kind \in Kinds /\ z \in Part(y, u, kind, other)
    BY <2>9, <2>10
  <2> HIDE DEF kind
  <2>12. Good(z, {u}, Null) /\ z.Owner[u] \in {y.Owner[u], Null} /\ z.unhit = y.unhit
    <3>1. Good(y, {u}, Null)
      BY <2>11
    <3>2. PartDone(z, y, u, y.NextBanger)
      BY <2>14, <3>1, PartFacts
    <3> QED BY <3>2 DEF PartDone
  <2>13. Fine(z)
    BY <2>11, <2>12
  <2> QED BY <2>4, <2>13
<1>8. PICK z \in after[m] : x = DetachMe(z, b)
  BY <1>2
<1>9. Good(z, {u}, Null) /\ z.Owner[u] \in {b, Null} /\ z.unhit = w.unhit
  <2>1. m \notin S
    BY <1>7
  <2>2. m \in Nat /\ m <= m
    BY <1>1
  <2>3. \A y \in after[m] : Fine(y)
    BY <2>1, <2>2
  <2> QED BY <1>8, <2>3
<1>10. /\ Good(x, {u}, Null)
       /\ \A t \in Inst : x.Owner[t] = IF z.Owner[t] = b THEN Null ELSE z.Owner[t]
       /\ x.unhit = w.unhit
  BY <1>4, <1>8, <1>9, DetachFacts DEF SameRest
<1>11. x.Owner[u] = Null
  BY <1>4, <1>9, <1>10
<1> QED BY <1>10, <1>11 DEF Good, Served

\* There are finitely many idle entities.
LEMMA IdleTypes ==
    ASSUME NEW w
    PROVE  /\ IsFiniteSet(Idle(w)) /\ Cardinality(Idle(w)) \in Nat
           /\ Cardinality(Idle(w)) > 0 => Idle(w) # {}
<1>1. MaxActive \in Int /\ 1 \in Int
  BY Ids
<1>2. IsFiniteSet(Entity)
  BY <1>1, FS_Interval DEF Entity
<1>3. Idle(w) \in SUBSET Entity
  BY DEF Idle
<1> QED BY <1>2, <1>3, FS_Subset, FS_CardinalityType, FS_EmptySet

\* A step that takes one idle entity leaves one less.
LEMMA IdleLess ==
    ASSUME NEW w, NEW x, NEW c, Idle(w) \ {c} \subseteq Idle(x)
    PROVE  Cardinality(Idle(x)) >= Cardinality(Idle(w)) - 1
<1> DEFINE S == Idle(w) \ {c}
           a == Cardinality(Idle(w))
           d == Cardinality(S)
           e == Cardinality(Idle(x))
<1>1. IsFiniteSet(Idle(w)) /\ IsFiniteSet(Idle(x)) /\ a \in Nat /\ e \in Nat
  BY IdleTypes
<1>2. d = a - 1 \/ d = a
  BY <1>1, FS_RemoveElement
<1>3. d <= e
  BY <1>1, FS_Subset
<1> HIDE DEF S, a, d, e
<1>4. e >= a - 1
  BY <1>1, <1>2, <1>3
<1> QED BY <1>4 DEF a, e

\* With an idle entity for each of its parts a prop keeps its own to the end, and
\* each part keeps the one it got.
LEMMA BreakKeeps ==
    ASSUME NEW w, NEW u \in Unhit, Good(w, {u}, Null), Kept(w, u),
           Cardinality(Idle(w)) >= Len(Parts[u]), NEW other, NEW x \in Break(w, u, other)
    PROVE  \A n \in 0..(Len(Parts[u]) - 1) : x.Owner[Nth(w.NextBanger, n)] # Null
<1> DEFINE m == Len(Parts[u])
           b == w.Owner[u]
           N == w.NextBanger
<1>1. m \in Nat /\ m <= MaxHit /\ MaxHit \in Nat /\ m = Len(Parts[u])
  BY BangersAssumption
<1>2. /\ b \in Entity /\ u \in Inst /\ u \notin Hit /\ N \in Hit /\ Hit \subseteq Inst
      /\ b = w.Owner[u] /\ N = w.NextBanger
  BY Ids DEF Good, World, Kept
<1>3. Cardinality(Idle(w)) >= m
  OBVIOUS
<1> HIDE DEF b, m, N
<1>4. PICK after : Parting(after, m, w, u, other) /\ \E z \in after[m] : x = DetachMe(z, b)
  BY <1>1, <1>2, BreakIs
<1> DEFINE Fine(z, n) ==
               /\ Good(z, {u}, Null) /\ Kept(z, u) /\ z.Owner[u] = b
               /\ z.NextBanger = Nth(N, n) /\ Cardinality(Idle(z)) >= m - n
               /\ \A j \in 0..(n - 1) : Kept(z, Nth(N, j))
           S == {n \in Nat : n <= m /\ ~ \A z \in after[n] : Fine(z, n)}
<1>5. S = {}
  <2>1. SUFFICES ASSUME S # {} PROVE FALSE
    OBVIOUS
  <2>2. PICK k \in S : \A n \in S : k <= n
    BY <2>1, LeastExists
  <2>3. k \in Nat /\ k <= m /\ ~ \A z \in after[k] : Fine(z, k)
    OBVIOUS
  <2>4. PICK z \in after[k] : ~Fine(z, k)
    BY <2>3
  <2>5. k # 0
    <3>1. SUFFICES ASSUME k = 0 PROVE FALSE
      OBVIOUS
    <3>2. z = w
      BY <1>4, <2>4, <3>1 DEF Parting
    <3>3. Nth(N, 0) = N
      BY <1>2, RoundFacts
    <3>4. 0..(k - 1) = {} /\ m - k = m
      BY <1>1, <3>1
    <3>5. Fine(w, k)
      BY <1>2, <1>3, <3>1, <3>3, <3>4
    <3> QED BY <2>4, <3>2, <3>5
  <2>6. /\ k - 1 \in Nat /\ k - 1 <= m /\ ~(k <= k - 1) /\ k \in 1..m
        /\ k - 1 \in 0..(MaxHit - 1) /\ (k - 1) + 1 = k
    BY <1>1, <2>3, <2>5
  <2>7. \A y \in after[k - 1] : Fine(y, k - 1)
    BY <2>2, <2>6
  <2>8. Parts[u][k] \in Kinds /\ \E y \in after[k - 1] : z \in Part(y, u, Parts[u][k], other)
    BY <1>4, <2>4, <2>6 DEF Parting
  <2> DEFINE kind == Parts[u][k]
  <2>9. PICK y \in after[k - 1] : z \in Part(y, u, kind, other)
    BY <2>8
  <2>10. kind \in Kinds
    BY <2>8
  <2> HIDE DEF kind
  <2>11. Fine(y, k - 1)
    BY <2>7
  <2> DEFINE h == Nth(N, k - 1)
  <2>12. /\ Good(y, {u}, Null) /\ Kept(y, u) /\ y.Owner[u] = b /\ y.NextBanger = h
         /\ Cardinality(Idle(y)) >= m - (k - 1)
         /\ \A j \in 0..((k - 1) - 1) : Kept(y, Nth(N, j))
    BY <2>11
  <2>13. Cardinality(Idle(y)) \in Nat /\ Idle(y) # {}
    <3>1. m - (k - 1) > 0
      BY <1>1, <2>3
    <3> QED BY <1>1, <2>3, <2>12, <3>1, IdleTypes
  <2>14. h \in Hit /\ After(h) = Nth(N, k)
    BY <1>1, <1>2, <2>6, RoundFacts
  <2> HIDE DEF h, Fine
  <2>15. /\ Good(z, {u}, Null) /\ z.NextBanger = After(h) /\ Kept(z, h)
         /\ \E c \in Entity : Idle(y) \ {c} \subseteq Idle(z)
         /\ \A v \in Inst \ {h} : Kept(y, v) => Kept(z, v) /\ z.Owner[v] = y.Owner[v]
    <3>1. Good(y, {u}, Null)
      BY <2>12
    <3>2. h = y.NextBanger
      BY <2>12
    <3>3. PartDone(z, y, u, h)
      BY <2>9, <2>10, <3>1, <3>2, PartFacts
    <3> QED BY <2>13, <3>3 DEF PartDone
  <2>16. Kept(z, u) /\ z.Owner[u] = b
    BY <1>2, <2>12, <2>14, <2>15
  <2>17. Cardinality(Idle(z)) >= m - k
    <3> DEFINE p == Cardinality(Idle(y))
               q == Cardinality(Idle(z))
    <3>1. p \in Nat /\ q \in Nat /\ q >= p - 1 /\ p >= m - (k - 1)
      BY <2>12, <2>13, <2>15, IdleTypes, IdleLess
    <3> HIDE DEF p, q
    <3>2. q >= m - k
      BY <1>1, <2>3, <3>1
    <3> QED BY <3>2 DEF q
  <2>18. ASSUME NEW j \in 0..(k - 1) PROVE Kept(z, Nth(N, j))
    <3>1. CASE j = k - 1
      BY <2>15, <3>1 DEF h
    <3>2. CASE j # k - 1
      <4>1. j \in 0..((k - 1) - 1) /\ j \in 0..(MaxHit - 1) /\ j \in 0..MaxHit
        BY <1>1, <2>3, <2>6, <3>2
      <4>2. Nth(N, j) \in Hit /\ Nth(N, j) # h
        BY <1>2, <2>6, <3>2, <4>1, RoundFacts DEF h
      <4> QED BY <1>2, <2>12, <2>15, <4>1, <4>2
    <3> QED BY <3>1, <3>2
  <2>19. Fine(z, k)
    BY <2>14, <2>15, <2>16, <2>17, <2>18 DEF Fine
  <2> QED BY <2>4, <2>19
<1>6. PICK z \in after[m] : x = DetachMe(z, b)
  BY <1>4
<1>7. Fine(z, m)
  <2>1. m \notin S
    BY <1>5
  <2>2. m \in Nat /\ m <= m
    BY <1>1
  <2> HIDE DEF Fine
  <2>3. \A y \in after[m] : Fine(y, m)
    BY <2>1, <2>2
  <2> QED BY <1>6, <2>3
<1>8. /\ Good(z, {u}, Null) /\ z.Owner[u] = b /\ \A j \in 0..(m - 1) : Kept(z, Nth(N, j))
  BY <1>7
<1>9. \A t \in Inst : x.Owner[t] = IF z.Owner[t] = b THEN Null ELSE z.Owner[t]
  BY <1>2, <1>6, <1>8, DetachFacts
<1>10. ASSUME NEW n \in 0..(m - 1) PROVE x.Owner[Nth(N, n)] # Null
  <2> DEFINE h == Nth(N, n)
  <2>1. n \in 0..MaxHit
    BY <1>1
  <2>2. h \in Hit
    BY <1>2, <2>1, RoundFacts
  <2>3. Kept(z, h)
    BY <1>8
  <2> HIDE DEF h
  <2>4. z.Owner[h] \in Entity /\ h # u /\ h \in Inst
    BY <1>2, <2>2, <2>3 DEF Kept
  <2>5. z.Target[b] = u /\ z.Target[z.Owner[h]] = h
    <3>1. \A d \in Entity, t \in Inst : z.Target[d] = t <=> z.Owner[t] = d
      BY <1>8 DEF Good, Pool
    <3> QED BY <1>2, <1>8, <2>4, <3>1
  <2>6. z.Owner[h] # b
    BY <2>4, <2>5
  <2>7. x.Owner[h] # Null
    BY <1>9, <2>4, <2>6, Ids
  <2> QED BY <2>7 DEF h
<1> QED BY <1>10 DEF m, N

\* A pool of which all entities are in use and none rests gives away the last one.
Crowded(w) == w.NumActive = MaxActive /\ w.resting = {}

LEMMA CrowdedAttach ==
    ASSUME NEW w, NEW X, Good(w, X, Null), Crowded(w), NEW t \in Inst, t \in Hit \cup X,
           w.Owner[t] = Null, NEW x \in AttachEntity(w, t)
    PROVE  /\ Crowded(x) /\ x.Active = w.Active /\ x.Owner[t] = w.Active[MaxActive]
           /\ \A v \in Inst \ {t} : x.Owner[v] \in {w.Owner[v], Null}
<1> DEFINE b == w.Active[MaxActive]
           y == ActiveDetach(w, b)
<1>1. x \in PoolAttach(w, t)
  BY DEF AttachEntity
<1>2. x.Owner[t] \in Entity /\ \A v \in Inst \ {t} : x.Owner[v] \in {w.Owner[v], Null}
  BY AttachFacts
<1>3. x # w /\ MaxActive \in Entity /\ MaxActive <= MaxActive
  BY <1>2, Ids DEF Entity
<1>4. b \in Entity /\ w.Target[b] # Null
  BY <1>3, Ids DEF Good, World, Pool, Crowded
<1>5. x = ActiveAttach(y, b, t)
  BY <1>1, <1>3, Ids DEF PoolAttach, Oldest, Crowded
<1>6. b = w.Active[MaxActive] /\ y = ActiveDetach(w, b)
  OBVIOUS
<1> HIDE DEF b, y
<1>7. /\ Good(y, X, b) /\ y.Active = w.Active /\ y.NumActive = w.NumActive
      /\ y.Owner[t] = Null /\ y.resting = {}
  BY <1>4, <1>6, ActiveDetachFacts DEF Crowded
<1>8. x.Owner[t] = b /\ x.resting = {}
  BY <1>4, <1>5, <1>7, ActiveAttachFacts
<1>9. x.Active = y.Active /\ x.NumActive = y.NumActive
  <2> DEFINE C == y.collider \ {t}
             O == [y.Owner EXCEPT ![t] = b]
             T == [y.Target EXCEPT ![b] = t]
             A == y.resting \ {b}
  <2>1. x = [y EXCEPT !.collider = C, !.Owner = O, !.Target = T, !.resting = A]
    BY <1>5 DEF ActiveAttach
  <2>2. y \in World
    BY <1>7 DEF Good
  <2> HIDE DEF C, O, T, A
  <2> QED BY <2>1, <2>2 DEF World
<1> QED BY <1>2, <1>6, <1>7, <1>8, <1>9 DEF Crowded

\* A hit banger that nobody serves is handed out without a change of the pool.
LEMMA CrowdedHit ==
    ASSUME NEW w, NEW X, Good(w, X, Null), NEW u \in Unhit, NEW kind \in Kinds,
           w.Owner[w.NextBanger] = Null, NEW x, x = NewHit(w, u, kind)
    PROVE  SamePool(x, w)
<1> DEFINE h == w.NextBanger
           r == w.ChainId[u]
           v == [w EXCEPT !.NextBanger = (h % MaxHit) + 1]
           z == GetBanger(w)
           y == Parent(z, h, r)
           K == [y.kind EXCEPT ![h] = kind]
<1>1. w \in World /\ h \in Hit /\ h \in Inst /\ h = w.NextBanger
  BY Ids DEF Good, World
<1>2. r \in Rooms
  BY Ids DEF Good, World, Chains
<1>3. z = (IF v.ChainId[h] = -1 THEN v ELSE Unparent(v, h)) /\ SamePool(v, w)
      /\ v.ChainId = w.ChainId /\ v.chained = w.chained
  BY <1>1 DEF GetBanger, SamePool, World
<1>4. Got(z, w, X, h)
  BY <1>1, GetBangerFacts
<1>5. x = [y EXCEPT !.kind = K] /\ y = Parent(z, h, r)
  BY DEF NewHit
<1> HIDE DEF h, r, z
<1>6. SamePool(z, w)
  <2>1. CASE v.ChainId[h] = -1
    BY <1>3, <2>1
  <2>2. CASE v.ChainId[h] # -1
    <3> DEFINE F == v.failed \/ h \notin v.chained
               D == v.chained \ {h}
               C == [v.ChainId EXCEPT ![h] = -1]
    <3>1. z = [v EXCEPT !.failed = F, !.chained = D, !.ChainId = C]
      BY <1>3, <2>2 DEF Unparent
    <3> HIDE DEF F, D, C
    <3>2. SamePool(z, v)
      BY <1>1, <3>1 DEF World, SamePool
    <3> QED BY <1>3, <3>2 DEF SamePool
  <2> QED BY <2>1, <2>2
<1> HIDE DEF v
<1>7. Good(y, X, Null) /\ SamePool(y, z)
  BY <1>1, <1>2, <1>4, <1>5, ParentFacts DEF Got
<1> HIDE DEF y, K
<1>8. SamePool(x, y)
  BY <1>5, <1>7 DEF Good, World, SamePool
<1> QED BY <1>6, <1>7, <1>8 DEF SamePool

\* So every part takes that one from the part before it, and loses it with Impact.
LEMMA BreakStarves ==
    ASSUME NEW w, NEW u \in Unhit, Good(w, {u}, Null), Crowded(w),
           w.Owner[u] = w.Active[MaxActive],
           \A n \in 0..(Len(Parts[u]) - 1) : w.Owner[Nth(w.NextBanger, n)] = Null,
           NEW other, NEW x \in Break(w, u, other)
    PROVE  \A n \in 0..(Len(Parts[u]) - 1) : x.Owner[Nth(w.NextBanger, n)] = Null
<1> DEFINE m == Len(Parts[u])
           b == w.Owner[u]
           N == w.NextBanger
<1>1. m \in Nat /\ m <= MaxHit /\ MaxHit \in Nat /\ m = Len(Parts[u])
  BY BangersAssumption
<1>2. /\ b \in Entity /\ u \in Inst /\ N \in Hit /\ Hit \subseteq Inst
      /\ b = w.Owner[u] /\ N = w.NextBanger /\ b = w.Active[MaxActive]
      /\ \A n \in 0..(m - 1) : w.Owner[Nth(N, n)] = Null
  BY Ids DEF Good, World, Entity
<1> HIDE DEF b, m, N
<1>4. PICK after : Parting(after, m, w, u, other) /\ \E z \in after[m] : x = DetachMe(z, b)
  BY <1>1, <1>2, BreakIs
<1> DEFINE Fine(z, n) ==
               /\ Good(z, {u}, Null) /\ Crowded(z) /\ z.Active = w.Active
               /\ z.NextBanger = Nth(N, n)
               /\ \A j \in 0..(m - 1) : z.Owner[Nth(N, j)] \in {b, Null}
               /\ \A j \in n..(m - 1) : z.Owner[Nth(N, j)] = Null
           S == {n \in Nat : n <= m /\ ~ \A z \in after[n] : Fine(z, n)}
<1>5. S = {}
  <2>1. SUFFICES ASSUME S # {} PROVE FALSE
    OBVIOUS
  <2>2. PICK k \in S : \A n \in S : k <= n
    BY <2>1, LeastExists
  <2>3. k \in Nat /\ k <= m /\ ~ \A z \in after[k] : Fine(z, k)
    OBVIOUS
  <2>4. PICK z \in after[k] : ~Fine(z, k)
    BY <2>3
  <2>5. k # 0
    <3>1. SUFFICES ASSUME k = 0 PROVE FALSE
      OBVIOUS
    <3>2. z = w
      BY <1>4, <2>4, <3>1 DEF Parting
    <3>3. Nth(N, 0) = N
      BY <1>2, RoundFacts
    <3>4. Fine(w, k)
      BY <1>2, <3>1, <3>3
    <3> QED BY <2>4, <3>2, <3>4
  <2>6. /\ k - 1 \in Nat /\ k - 1 <= m /\ ~(k <= k - 1) /\ k \in 1..m
        /\ k - 1 \in 0..(MaxHit - 1) /\ (k - 1) + 1 = k /\ k - 1 \in (k - 1)..(m - 1)
    BY <1>1, <2>3, <2>5
  <2>7. \A y \in after[k - 1] : Fine(y, k - 1)
    BY <2>2, <2>6
  <2>8. Parts[u][k] \in Kinds /\ \E y \in after[k - 1] : z \in Part(y, u, Parts[u][k], other)
    BY <1>4, <2>4, <2>6 DEF Parting
  <2> DEFINE kind == Parts[u][k]
  <2>9. PICK y \in after[k - 1] : z \in Part(y, u, kind, other)
    BY <2>8
  <2>10. kind \in Kinds
    BY <2>8
  <2> HIDE DEF kind
  <2>11. Fine(y, k - 1)
    BY <2>7
  <2> DEFINE h == Nth(N, k - 1)
  <2>12. /\ Good(y, {u}, Null) /\ Crowded(y) /\ y.Active = w.Active /\ y.NextBanger = h
         /\ y.Owner[h] = Null
         /\ \A j \in 0..(m - 1) : y.Owner[Nth(N, j)] \in {b, Null}
         /\ \A j \in (k - 1)..(m - 1) : y.Owner[Nth(N, j)] = Null
    BY <2>6, <2>11
  <2>14. h \in Hit /\ h \in Inst /\ After(h) = Nth(N, k)
    BY <1>1, <1>2, <2>6, RoundFacts
  <2> HIDE DEF h, Fine
  <2> DEFINE v == NewHit(y, u, kind)
  <2>15. PICK g \in AttachEntity(v, h) : z = HitMover(g, h, other)
    BY <2>9, <2>12 DEF Part
  <2>16. v = NewHit(y, u, kind) /\ y.Owner[y.NextBanger] = Null
    BY <2>12
  <2> HIDE DEF v
  <2>17. SamePool(v, y) /\ Good(v, {u}, Null) /\ Crowded(v) /\ v.Active = w.Active
    <3>1. Good(y, {u}, Null) /\ y.NextBanger = h
      BY <2>12
    <3>2. SamePool(v, y)
      BY <2>10, <2>16, <3>1, CrowdedHit
    <3>3. Good(v, {u}, Null)
      BY <2>10, <2>16, <3>1, NewHitFacts
    <3> QED BY <2>12, <3>2, <3>3 DEF SamePool, Crowded
  <2>18. v.Owner = y.Owner /\ v.Owner[h] = Null /\ h \in Hit \cup {u}
    BY <2>12, <2>14, <2>17 DEF SamePool
  <2>19. /\ Crowded(g) /\ g.Active = w.Active /\ g.Owner[h] = b
         /\ \A t \in Inst \ {h} : g.Owner[t] \in {y.Owner[t], Null}
    BY <1>2, <2>14, <2>15, <2>17, <2>18, CrowdedAttach
  <2>20. Good(g, {u}, Null)
    BY <2>14, <2>15, <2>17, <2>18, AttachFacts
  <2>21. SameBut(z, g)
    BY <2>14, <2>15, <2>20, HitMoverFacts
  <2>22. Good(z, {u}, Null) /\ z.NextBanger = Nth(N, k)
    <3>1. Good(y, {u}, Null) /\ h = y.NextBanger
      BY <2>12
    <3>2. PartDone(z, y, u, h)
      BY <2>9, <2>10, <3>1, PartFacts
    <3> QED BY <2>14, <3>2 DEF PartDone
  <2>23. Crowded(z) /\ z.Active = w.Active /\ z.Owner = g.Owner
    BY <2>19, <2>21 DEF SameBut, Crowded
  <2>24. ASSUME NEW j \in 0..(m - 1)
         PROVE  z.Owner[Nth(N, j)] \in {b, Null} /\ (j >= k => z.Owner[Nth(N, j)] = Null)
    <3>1. j \in 0..(MaxHit - 1) /\ j \in 0..MaxHit
      BY <1>1
    <3>2. Nth(N, j) \in Hit /\ (Nth(N, j) = h => j = k - 1)
      BY <1>2, <2>6, <3>1, RoundFacts DEF h
    <3>3. CASE Nth(N, j) = h
      BY <2>3, <2>6, <2>19, <2>23, <3>2, <3>3
    <3>4. CASE Nth(N, j) # h
      <4>1. z.Owner[Nth(N, j)] \in {y.Owner[Nth(N, j)], Null}
        BY <1>2, <2>19, <2>23, <3>2, <3>4
      <4>2. j >= k => j \in (k - 1)..(m - 1)
        BY <1>1, <2>3
      <4> QED BY <2>12, <4>1, <4>2
    <3> QED BY <3>3, <3>4
  <2>25. \A j \in k..(m - 1) : j \in 0..(m - 1) /\ j >= k
    BY <1>1, <2>3
  <2>26. Fine(z, k)
    BY <2>22, <2>23, <2>24, <2>25 DEF Fine
  <2> QED BY <2>4, <2>26
<1>6. PICK z \in after[m] : x = DetachMe(z, b)
  BY <1>4
<1>7. Fine(z, m)
  <2>1. m \notin S
    BY <1>5
  <2>2. m \in Nat /\ m <= m
    BY <1>1
  <2> HIDE DEF Fine
  <2>3. \A y \in after[m] : Fine(y, m)
    BY <2>1, <2>2
  <2> QED BY <1>6, <2>3
<1>8. Good(z, {u}, Null) /\ \A j \in 0..(m - 1) : z.Owner[Nth(N, j)] \in {b, Null}
  BY <1>7
<1>9. \A t \in Inst : x.Owner[t] = IF z.Owner[t] = b THEN Null ELSE z.Owner[t]
  BY <1>2, <1>6, <1>8, DetachFacts
<1>10. ASSUME NEW n \in 0..(m - 1) PROVE x.Owner[Nth(N, n)] = Null
  <2>1. n \in 0..MaxHit
    BY <1>1
  <2>2. Nth(N, n) \in Inst
    BY <1>2, <2>1, RoundFacts
  <2> QED BY <1>8, <1>9, <2>2
<1> QED BY <1>10 DEF m, N

\* How many bangers a prop of m parts becomes.
LEMMA OneOrMore == ASSUME NEW m \in Nat PROVE Max({1, m}) = IF m = 0 THEN 1 ELSE m
<1>1. CASE m = 0
  <2>1. \A k \in {1, m} : k = 1 \/ k = 0
    BY <1>1
  <2> QED BY <1>1, <2>1 DEF Max
<1>2. CASE m # 0
  <2>1. \A k \in {1, m} : (\A j \in {1, m} : j <= k) <=> k = m
    BY <1>2
  <2> QED BY <1>2, <2>1 DEF Max
<1> QED BY <1>1, <1>2

\* The bangers that become of u have entities in x: one for each part, or one.
PartsServed(x, w, u) ==
    \A n \in 0..(Max({1, Len(Parts[u])}) - 1) : x.Owner[Nth(w.NextBanger, n)] # Null

\* Or none of them has one.
PartsStarved(x, w, u) ==
    \A n \in 0..(Max({1, Len(Parts[u])}) - 1) : x.Owner[Nth(w.NextBanger, n)] = Null

\* A prop that is served is struck.  With enough idle entities every part of it, or
\* the one it becomes, keeps the entity it got.
LEMMA ImpactFacts ==
    ASSUME NEW w, NEW u \in Unhit, Good(w, {u}, Null), w.Owner[u] # Null,
           u \in w.chained, NEW other, NEW x \in Impact(w, u, other)
    PROVE  /\ Good(x, {}, Null) /\ x.unhit = w.unhit \ {u}
           /\ Kept(w, u) /\ Cardinality(Idle(w)) >= Len(Parts[u]) => PartsServed(x, w, u)
           /\ /\ Parts[u] # <<>> /\ Crowded(w) /\ w.Owner[u] = w.Active[MaxActive]
              /\ PartsStarved(w, w, u)
              => PartsStarved(x, w, u)
<1> DEFINE v == Unparent(w, u)
           y == [v EXCEPT !.failed = @ \/ w.Owner[u] = Null, !.unhit = @ \ {u},
                          !.ChainId[u] = w.ChainId[u]]
<1>1. w \in World /\ u \in Inst
  BY Ids DEF Good
<1>2. /\ v \in World /\ v.Active = w.Active /\ v.NumActive = w.NumActive
      /\ v.Target = w.Target /\ v.Owner = w.Owner /\ v.unhit = w.unhit
      /\ v.collider = w.collider /\ v.Movers = w.Movers
      /\ v.failed = (w.failed \/ u \notin w.chained) /\ v.chained = w.chained \ {u}
      /\ v.ChainId = [w.ChainId EXCEPT ![u] = -1]
      /\ v.resting = w.resting /\ v.NextBanger = w.NextBanger
  BY <1>1 DEF Unparent, World
<1> HIDE DEF v
<1> DEFINE F == v.failed \/ w.Owner[u] = Null
           U == v.unhit \ {u}
           C == [v.ChainId EXCEPT ![u] = w.ChainId[u]]
<1>3. y = [v EXCEPT !.failed = F, !.unhit = U, !.ChainId = C]
  OBVIOUS
<1>4. /\ F \in BOOLEAN /\ U \in SUBSET Unhit /\ C \in [Inst -> Rooms \cup {-1}]
      /\ U = w.unhit \ {u} /\ C = w.ChainId
      /\ F = (w.failed \/ u \notin w.chained \/ w.Owner[u] = Null)
  BY <1>1, <1>2 DEF World
<1> HIDE DEF F, U, C
<1>5. /\ y \in World /\ y.failed = F /\ y.unhit = U /\ y.ChainId = C
      /\ y.Active = w.Active /\ y.NumActive = w.NumActive
      /\ y.Target = w.Target /\ y.Owner = w.Owner /\ y.chained = w.chained \ {u}
      /\ y.collider = w.collider /\ y.Movers = w.Movers
      /\ y.resting = w.resting /\ y.NextBanger = w.NextBanger
  BY <1>2, <1>3, <1>4 DEF World
<1>6. x \in (IF Parts[u] = <<>> THEN {Become(y, u, other)} ELSE Break(y, u, other))
  BY Zenon DEF Impact, y, v
<1> HIDE DEF y
<1>7. Chains(y)
  BY <1>4, <1>5 DEF Good, Chains
<1>8. Good(y, {u}, Null)
  BY <1>4, <1>5, <1>7 DEF Good, Pool, Served, Settled, Driven
<1>9. CASE Parts[u] = <<>>
  <2>1. x = Become(y, u, other) /\ y.Owner[u] # Null /\ u \notin y.unhit
    BY <1>4, <1>5, <1>6, <1>9
  <2>2. Good(x, {}, Null) /\ x.unhit = y.unhit /\ x.Owner[y.NextBanger] # Null
    BY <1>8, <2>1, BecomeFacts
  <2>3. Len(Parts[u]) = 0
    BY <1>9
  <2>4. 0..(Max({1, Len(Parts[u])}) - 1) = {0}
    BY <2>3, OneOrMore
  <2>5. Nth(w.NextBanger, 0) = w.NextBanger
    <3>1. w.NextBanger \in Hit
      BY <1>1 DEF World
    <3> QED BY <3>1, RoundFacts
  <2> QED BY <1>4, <1>5, <1>9, <2>2, <2>4, <2>5 DEF PartsServed
<1>10. CASE Parts[u] # <<>>
  <2>1. x \in Break(y, u, other) /\ y.Owner[u] # Null
    BY <1>5, <1>6, <1>10
  <2>2. Good(x, {}, Null) /\ x.unhit = y.unhit
    BY <1>8, <2>1, BreakFacts
  <2>3. Max({1, Len(Parts[u])}) = Len(Parts[u])
    <3>1. Len(Parts[u]) \in Nat /\ Len(Parts[u]) # 0
      BY <1>10, BangersAssumption, EmptySeq
    <3> QED BY <3>1, OneOrMore
  <2>4. ASSUME Kept(w, u), Cardinality(Idle(w)) >= Len(Parts[u])
        PROVE  \A n \in 0..(Len(Parts[u]) - 1) : x.Owner[Nth(w.NextBanger, n)] # Null
    <3>1. Kept(y, u)
      BY <1>5, <2>4 DEF Kept
    <3>2. Idle(y) = Idle(w)
      BY <1>5 DEF Idle
    <3>3. Cardinality(Idle(y)) >= Len(Parts[u])
      BY <2>4, <3>2
    <3>4. \A n \in 0..(Len(Parts[u]) - 1) : x.Owner[Nth(y.NextBanger, n)] # Null
      BY <1>8, <2>1, <3>1, <3>3, BreakKeeps
    <3> QED BY <1>5, <3>4
  <2>5. ASSUME Crowded(w), w.Owner[u] = w.Active[MaxActive], PartsStarved(w, w, u)
        PROVE  PartsStarved(x, w, u)
    <3>1. Crowded(y) /\ y.Owner[u] = y.Active[MaxActive]
      BY <1>5, <2>5 DEF Crowded
    <3>2. \A n \in 0..(Len(Parts[u]) - 1) : y.Owner[Nth(y.NextBanger, n)] = Null
      BY <1>5, <2>3, <2>5 DEF PartsStarved
    <3>3. \A n \in 0..(Len(Parts[u]) - 1) : x.Owner[Nth(y.NextBanger, n)] = Null
      BY <1>8, <2>1, <3>1, <3>2, BreakStarves
    <3> QED BY <1>5, <2>3, <3>3 DEF PartsStarved
  <2> QED BY <1>4, <1>5, <2>2, <2>3, <2>4, <2>5 DEF PartsServed
<1> QED BY <1>9, <1>10

\* What is met has an entity then.
LEMMA MeetFacts ==
    ASSUME NEW X, Good(s, X, Null), NEW t \in Inst, t \in Hit \cup X,
           NEW x \in AttachEntity(s, t)
    PROVE  /\ Good(x, X, Null) /\ x.Owner[t] \in Entity /\ x.chained = s.chained
           /\ x.unhit = s.unhit /\ x.NextBanger = s.NextBanger
           /\ s.Owner[t] = Null =>
                  Kept(x, t) /\ Cardinality(Idle(x)) >= Cardinality(Idle(s)) - 1
<1>1. /\ Good(x, X, Null) /\ x.Owner[t] \in Entity /\ SameChains(x, s) /\ SameRest(x, s)
      /\ s.Owner[t] = Null => Taken(x, s, t)
  BY AttachFacts
<1>2. ASSUME s.Owner[t] = Null
      PROVE  Kept(x, t) /\ Cardinality(Idle(x)) >= Cardinality(Idle(s)) - 1
  <2>1. Kept(x, t) /\ Idle(s) \ {x.Owner[t]} \subseteq Idle(x)
    BY <1>1, <1>2, IdleTaken
  <2> QED BY <2>1, IdleLess
<1> QED BY <1>1, <1>2 DEF SameChains, SameRest

-----------------------------------------------------------------------------
(* Rooms, and the Reset of the pool *)

RoomRun(f, m, rs, r) ==
    f = [n \in 0..m |-> IF n = 0 THEN AddActiveRoom(rs, r)
                                 ELSE AddActiveRoom(f[n - 1], Near[r][n])]

\* There are such sets of rooms, since there is no least number without.
LEMMA RoomRuns == ASSUME NEW rs, NEW r, NEW m \in Nat PROVE \E f : RoomRun(f, m, rs, r)
<1> DEFINE S == {n \in Nat : ~ \E f : RoomRun(f, n, rs, r)}
<1>1. SUFFICES ASSUME S # {} PROVE FALSE
  OBVIOUS
<1>2. PICK k \in S : \A n \in S : k <= n
  BY <1>1, LeastExists
<1>3. k \in Nat /\ ~ \E f : RoomRun(f, k, rs, r)
  OBVIOUS
<1>4. CASE k = 0
  <2> DEFINE g == [n \in 0..0 |-> AddActiveRoom(rs, r)]
  <2>1. g = [n \in 0..0 |-> IF n = 0 THEN AddActiveRoom(rs, r)
                                     ELSE AddActiveRoom(g[n - 1], Near[r][n])]
    OBVIOUS
  <2>2. RoomRun(g, 0, rs, r)
    BY <2>1 DEF RoomRun
  <2> HIDE DEF g
  <2> QED BY <1>3, <1>4, <2>2
<1>5. CASE k # 0
  <2>1. k - 1 \in Nat /\ ~(k <= k - 1)
    BY <1>3, <1>5
  <2>2. PICK f : RoomRun(f, k - 1, rs, r)
    BY <1>2, <2>1
  <2> DEFINE g == [n \in 0..k |-> IF n = k THEN AddActiveRoom(f[k - 1], Near[r][k]) ELSE f[n]]
  <2>3. \A n \in 0..(k - 1) : f[n] = IF n = 0 THEN AddActiveRoom(rs, r)
                                              ELSE AddActiveRoom(f[n - 1], Near[r][n])
    <3>1. f = [n \in 0..(k - 1) |-> IF n = 0 THEN AddActiveRoom(rs, r)
                                             ELSE AddActiveRoom(f[n - 1], Near[r][n])]
      BY <2>2, Zenon DEF RoomRun
    <3> QED BY <3>1
  <2>4. ASSUME NEW n \in 0..k
        PROVE  g[n] = IF n = 0 THEN AddActiveRoom(rs, r)
                               ELSE AddActiveRoom(g[n - 1], Near[r][n])
    <3>1. CASE n = k
      <4>1. g[n] = AddActiveRoom(f[k - 1], Near[r][k])
        BY <3>1
      <4>2. g[k - 1] = f[k - 1]
        BY <2>1
      <4> QED BY <1>5, <3>1, <4>1, <4>2
    <3>2. CASE n # k
      <4>1. n \in 0..(k - 1) /\ g[n] = f[n]
        BY <1>3, <3>2
      <4>2. n # 0 => g[n - 1] = f[n - 1]
        BY <1>3, <3>2
      <4> QED BY <2>3, <4>1, <4>2
    <3> QED BY <3>1, <3>2
  <2>5. g = [n \in 0..k |-> g[n]]
    OBVIOUS
  <2> HIDE DEF g
  <2>6. [n \in 0..k |-> g[n]]
            = [n \in 0..k |-> IF n = 0 THEN AddActiveRoom(rs, r)
                                       ELSE AddActiveRoom(g[n - 1], Near[r][n])]
    BY <2>4
  <2>7. RoomRun(g, k, rs, r)
    BY <2>5, <2>6 DEF RoomRun
  <2> QED BY <1>3, <2>7
<1> QED BY <1>4, <1>5

\* The active rooms are rooms of the city.
LEMMA PermRoomsFacts ==
    ASSUME NEW rs, rs \subseteq Rooms, NEW r \in Rooms
    PROVE  PermRooms(rs, r) \subseteq Rooms
<1> DEFINE m == Len(Near[r])
           after == CHOOSE f : RoomRun(f, m, rs, r)
<1>1. m \in Nat /\ Near[r] \in Seq(Rooms)
  BY BangersAssumption
<1>2. PermRooms(rs, r) = after[m]
  BY Zenon DEF PermRooms, RoomRun
<1>3. RoomRun(after, m, rs, r)
  BY <1>1, RoomRuns
<1>4. \A n \in 1..m : Near[r][n] \in Rooms
  BY <1>1
<1> HIDE DEF after, m
<1>5. \A n \in 0..m : after[n] = IF n = 0 THEN AddActiveRoom(rs, r)
                                          ELSE AddActiveRoom(after[n - 1], Near[r][n])
  <2>1. after = [n \in 0..m |-> IF n = 0 THEN AddActiveRoom(rs, r)
                                         ELSE AddActiveRoom(after[n - 1], Near[r][n])]
    BY <1>3, Zenon DEF RoomRun
  <2> QED BY <2>1
<1> DEFINE S == {n \in Nat : n <= m /\ ~(after[n] \subseteq Rooms)}
<1>6. S = {}
  <2>1. SUFFICES ASSUME S # {} PROVE FALSE
    OBVIOUS
  <2>2. PICK k \in S : \A n \in S : k <= n
    BY <2>1, LeastExists
  <2>3. k \in Nat /\ k <= m /\ ~(after[k] \subseteq Rooms)
    OBVIOUS
  <2>4. CASE k = 0
    <3>1. after[k] = AddActiveRoom(rs, r)
      BY <1>1, <1>5, <2>4
    <3> QED BY <2>3, <3>1 DEF AddActiveRoom
  <2>5. CASE k # 0
    <3>1. k - 1 \in Nat /\ k - 1 <= m /\ ~(k <= k - 1) /\ k \in 1..m /\ k \in 0..m
      BY <1>1, <2>3, <2>5
    <3>2. after[k - 1] \subseteq Rooms
      BY <2>2, <3>1
    <3>3. after[k] = AddActiveRoom(after[k - 1], Near[r][k])
      BY <1>5, <2>5, <3>1
    <3>4. Near[r][k] \in Rooms
      BY <1>4, <3>1
    <3> QED BY <2>3, <3>2, <3>3, <3>4 DEF AddActiveRoom
  <2> QED BY <2>4, <2>5
<1>7. after[m] \subseteq Rooms
  <2>1. m \notin S
    BY <1>6
  <2>2. m \in Nat /\ m <= m
    BY <1>1
  <2> QED BY <2>1, <2>2
<1> QED BY <1>2, <1>7

\* The last entity in use is let go.
LEMMA ResetLastFacts ==
    ASSUME NEW w, Good(w, {}, Null), w.NumActive # 0, NEW x, x = ResetLast(w)
    PROVE  /\ Good(x, {}, Null) /\ x.NumActive = w.NumActive - 1
           /\ Len(x.Movers) = Len(w.Movers) /\ x.unhit = w.unhit
<1> DEFINE n == w.NumActive
           c == w.Active[n]
           y == ActiveDetach(w, c)
<1>1. n \in 0..MaxActive /\ w.Active \in [Entity -> Entity] /\ Pool(w, Null)
  BY DEF Good, World
<1>2. n \in Entity /\ n - 1 \in 0..MaxActive
  BY <1>1, PlaceRange
<1>3. c \in Entity /\ w.Target[c] # Null
  BY <1>1, <1>2, Ids DEF Pool
<1>4. /\ Good(y, {}, c) /\ y.Active = w.Active /\ y.NumActive = n
      /\ Len(y.Movers) = Len(w.Movers) /\ y.unhit = w.unhit
  <2>1. y = ActiveDetach(w, c)
    OBVIOUS
  <2> HIDE DEF y, c
  <2> QED BY <1>3, <2>1, ActiveDetachFacts DEF SameRest
<1>5. x = [y EXCEPT !.NumActive = n - 1]
  <2>1. x = [y EXCEPT !.NumActive = @ - 1]
    BY Zenon DEF ResetLast, y, c, n
  <2>2. y \in World
    BY <1>4 DEF Good
  <2> HIDE DEF y
  <2> QED BY <1>4, <2>1, <2>2 DEF World
<1>6. y \in World /\ c = y.Active[n]
  BY <1>4 DEF Good
<1> HIDE DEF y, c, n
<1>7. /\ x \in World /\ x.NumActive = n - 1 /\ x.Active = y.Active /\ x.Target = y.Target
      /\ x.Owner = y.Owner /\ x.Movers = y.Movers /\ x.collider = y.collider
      /\ SameChains(x, y) /\ SameRest(x, y)
  BY <1>2, <1>5, <1>6 DEF World, SameChains, SameRest
<1>8. Pool(x, Null)
  <2>1. Pool(y, c) /\ c # Null
    BY <1>3, <1>4, Ids DEF Good
  <2>2. y.Target[c] = Null
    BY <2>1 DEF Pool
  <2>3. \A q \in Entity : y.Active[q] = c <=> q = n
    BY <1>2, <1>6, <2>1 DEF Pool
  <2>4. \A q \in Entity : q <= n - 1 <=> q <= n /\ q # n
    BY <1>1, PlaceRange
  <2>5. \A q \in Entity : q <= n <=> y.Target[y.Active[q]] # Null \/ y.Active[q] = c
    BY <1>4, <2>1 DEF Pool
  <2>6. \A q \in Entity : y.Active[q] # Null
    BY <1>6, Ids DEF World
  <2>7. \A q \in Entity : q <= n - 1 <=> y.Target[y.Active[q]] # Null \/ y.Active[q] = Null
    BY <2>2, <2>3, <2>4, <2>5, <2>6
  <2> QED BY <1>7, <2>1, <2>7 DEF Pool
<1>9. Served(x, {}) /\ Chains(x) /\ Settled(x) /\ Driven(x)
  BY <1>4, <1>7 DEF Good, Served, Chains, Settled, Driven, SameChains, SameRest
<1>10. Good(x, {}, Null)
  BY <1>4, <1>7, <1>8, <1>9 DEF Good
<1> QED BY <1>4, <1>7, <1>10 DEF n, SameRest

ResetRun(f, m, w) == f = [n \in 0..m |-> IF n = 0 THEN w ELSE ResetLast(f[n - 1])]

\* There are such worlds, since there is no least number without.
LEMMA ResetRuns == ASSUME NEW w, NEW m \in Nat PROVE \E f : ResetRun(f, m, w)
<1> DEFINE S == {n \in Nat : ~ \E f : ResetRun(f, n, w)}
<1>1. SUFFICES ASSUME S # {} PROVE FALSE
  OBVIOUS
<1>2. PICK k \in S : \A n \in S : k <= n
  BY <1>1, LeastExists
<1>3. k \in Nat /\ ~ \E f : ResetRun(f, k, w)
  OBVIOUS
<1>4. CASE k = 0
  <2> DEFINE g == [n \in 0..0 |-> w]
  <2>1. g = [n \in 0..0 |-> IF n = 0 THEN w ELSE ResetLast(g[n - 1])]
    OBVIOUS
  <2>2. ResetRun(g, 0, w)
    BY <2>1 DEF ResetRun
  <2> HIDE DEF g
  <2> QED BY <1>3, <1>4, <2>2
<1>5. CASE k # 0
  <2>1. k - 1 \in Nat /\ ~(k <= k - 1)
    BY <1>3, <1>5
  <2>2. PICK f : ResetRun(f, k - 1, w)
    BY <1>2, <2>1
  <2> DEFINE g == [n \in 0..k |-> IF n = k THEN ResetLast(f[k - 1]) ELSE f[n]]
  <2>3. \A n \in 0..(k - 1) : f[n] = IF n = 0 THEN w ELSE ResetLast(f[n - 1])
    <3>1. f = [n \in 0..(k - 1) |-> IF n = 0 THEN w ELSE ResetLast(f[n - 1])]
      BY <2>2, Zenon DEF ResetRun
    <3> QED BY <3>1
  <2>4. ASSUME NEW n \in 0..k
        PROVE  g[n] = IF n = 0 THEN w ELSE ResetLast(g[n - 1])
    <3>1. CASE n = k
      <4>1. g[n] = ResetLast(f[k - 1])
        BY <3>1
      <4>2. g[k - 1] = f[k - 1]
        BY <2>1
      <4> QED BY <1>5, <3>1, <4>1, <4>2
    <3>2. CASE n # k
      <4>1. n \in 0..(k - 1) /\ g[n] = f[n]
        BY <1>3, <3>2
      <4>2. n # 0 => g[n - 1] = f[n - 1]
        BY <1>3, <3>2
      <4> QED BY <2>3, <4>1, <4>2
    <3> QED BY <3>1, <3>2
  <2>5. g = [n \in 0..k |-> g[n]]
    OBVIOUS
  <2> HIDE DEF g
  <2>6. [n \in 0..k |-> g[n]] = [n \in 0..k |-> IF n = 0 THEN w ELSE ResetLast(g[n - 1])]
    BY <2>4
  <2>7. ResetRun(g, k, w)
    BY <2>5, <2>6 DEF ResetRun
  <2> QED BY <1>3, <2>7
<1> QED BY <1>4, <1>5

\* After the Reset nobody is served.
LEMMA ResetFacts ==
    ASSUME NEW w, Good(w, {}, Null), NEW x, x = PoolReset(w)
    PROVE  /\ Good(x, {}, Null) /\ x.NumActive = 0 /\ Len(x.Movers) = Len(w.Movers)
           /\ x.unhit = w.unhit
<1> DEFINE m == w.NumActive
           after == CHOOSE f : ResetRun(f, m, w)
<1>1. m \in Nat
  BY PlaceRange DEF Good, World
<1>2. x = after[m]
  BY Zenon DEF PoolReset, ResetRun
<1>3. ResetRun(after, m, w)
  BY <1>1, ResetRuns
<1>4. m = w.NumActive
  OBVIOUS
<1> HIDE DEF after, m
<1>5. \A n \in 0..m : after[n] = IF n = 0 THEN w ELSE ResetLast(after[n - 1])
  <2>1. after = [n \in 0..m |-> IF n = 0 THEN w ELSE ResetLast(after[n - 1])]
    BY <1>3, Zenon DEF ResetRun
  <2> QED BY <2>1
<1> DEFINE Fine(n) == /\ Good(after[n], {}, Null) /\ after[n].NumActive = m - n
                      /\ Len(after[n].Movers) = Len(w.Movers) /\ after[n].unhit = w.unhit
           S == {n \in Nat : n <= m /\ ~Fine(n)}
<1>6. S = {}
  <2>1. SUFFICES ASSUME S # {} PROVE FALSE
    OBVIOUS
  <2>2. PICK k \in S : \A n \in S : k <= n
    BY <2>1, LeastExists
  <2>3. k \in Nat /\ k <= m /\ ~Fine(k)
    OBVIOUS
  <2>4. CASE k = 0
    <3>1. after[k] = w
      BY <1>1, <1>5, <2>4
    <3>2. m - 0 = m
      BY <1>1
    <3> QED BY <1>4, <2>3, <2>4, <3>1, <3>2
  <2>5. CASE k # 0
    <3>1. /\ k - 1 \in Nat /\ k - 1 <= m /\ ~(k <= k - 1) /\ k \in 0..m
          /\ m - (k - 1) # 0 /\ (m - (k - 1)) - 1 = m - k
      BY <1>1, <2>3, <2>5
    <3>2. Fine(k - 1)
      BY <2>2, <3>1
    <3>3. after[k] = ResetLast(after[k - 1])
      BY <1>5, <2>5, <3>1
    <3> DEFINE y == after[k - 1]
    <3>4. /\ Good(y, {}, Null) /\ y.NumActive = m - (k - 1)
          /\ Len(y.Movers) = Len(w.Movers) /\ y.unhit = w.unhit /\ after[k] = ResetLast(y)
      BY <3>2, <3>3
    <3> HIDE DEF y
    <3>5. /\ Good(after[k], {}, Null) /\ after[k].NumActive = y.NumActive - 1
          /\ Len(after[k].Movers) = Len(y.Movers) /\ after[k].unhit = y.unhit
      BY <3>1, <3>4, ResetLastFacts
    <3> QED BY <2>3, <3>1, <3>4, <3>5
  <2> QED BY <2>4, <2>5
<1>7. Fine(m)
  <2>1. m \notin S
    BY <1>6
  <2>2. m \in Nat /\ m <= m
    BY <1>1
  <2> QED BY <2>1, <2>2
<1>8. m - m = 0
  BY <1>1
<1> QED BY <1>2, <1>7, <1>8

-----------------------------------------------------------------------------
(* The frame *)

\* A banger that moved may be in another room, and its entity rests or not.
LEMMA MovedFacts ==
    ASSUME NEW w, Good(w, {}, Null), NEW b \in Entity, w.Target[b] # Null,
           NEW r \in Rooms \cup {-1}, NEW x \in Moved(w, b, r)
    PROVE  Good(x, {}, Null) /\ (Fresh(w) => Fresh(x)) /\ x.unhit = w.unhit
<1> DEFINE h == w.Target[b]
           y == ReparentObject(w, h, r)
<1>0. PICK A \in {w.resting \ {b}, w.resting \cup {b}} : x = [y EXCEPT !.resting = A]
  BY DEF Moved
<1>1. h \in Hit
  BY TargetFacts
<1>2. /\ Good(y, {}, Null) /\ (Fresh(w) => Fresh(y)) /\ SamePool(y, w) /\ SameRest(y, w)
  <2>1. y = ReparentObject(w, h, r)
    OBVIOUS
  <2> HIDE DEF y, h
  <2> QED BY <1>1, <2>1, ReparentFacts
<1>3. x = [y EXCEPT !.resting = A]
  BY <1>0
<1> HIDE DEF y
<1>4. y \in World /\ A \in SUBSET Entity
  BY <1>0, <1>2 DEF Good, World
<1>5. /\ x \in World /\ x.Active = y.Active /\ x.NumActive = y.NumActive
      /\ x.Target = y.Target /\ x.Owner = y.Owner /\ x.Movers = y.Movers
      /\ x.collider = y.collider /\ SameChains(x, y) /\ SameRest(x, y)
  BY <1>3, <1>4 DEF World, SameChains, SameRest
<1> QED BY <1>2, <1>5
        DEF Good, Pool, Served, Chains, Settled, Driven, Fresh, SamePool, SameChains, SameRest

\* One that is updated may also be let go after that.
LEMMA UpdatedFacts ==
    ASSUME NEW w, Good(w, {}, Null), NEW b \in Entity, w.Target[b] # Null,
           NEW x \in Updated(w, b)
    PROVE  Good(x, {}, Null) /\ (Fresh(w) => Fresh(x)) /\ x.unhit = w.unhit
<1>1. PICK r \in Rooms \cup {-1} :
          x \in Moved(w, b, r) \/ x = DetachMe(ReparentObject(w, w.Target[b], r), b)
  BY DEF Updated
<1>2. CASE x \in Moved(w, b, r)
  BY <1>2, MovedFacts
<1>3. CASE x = DetachMe(ReparentObject(w, w.Target[b], r), b)
  <2> DEFINE h == w.Target[b]
             y == ReparentObject(w, h, r)
  <2>1. h \in Hit /\ y = ReparentObject(w, h, r) /\ x = DetachMe(y, b)
    BY <1>3, TargetFacts
  <2> HIDE DEF y, h
  <2>2. Good(y, {}, Null) /\ (Fresh(w) => Fresh(y)) /\ SameRest(y, w)
    BY <2>1, ReparentFacts
  <2> QED BY <2>1, <2>2, DetachFacts DEF SameRest
<1> QED BY <1>1, <1>2, <1>3

\* The invariant holds at the start.
LEMMA BangersInit == ASSUME Init PROVE IInv
<1>1. MaxActive \in Nat \ {0} /\ 1 \in Hit /\ "temp" \in Kinds
  BY Ids DEF Hit, Kinds
<1>2. Home \in [Unhit -> Rooms]
  BY BangersAssumption
<1>3. /\ s.Active = [p \in Entity |-> p] /\ s.NumActive = 0
      /\ s.Target = [b \in Entity |-> Null] /\ s.resting = {}
      /\ s.Owner = [t \in Inst |-> Null]
      /\ s.ChainId = [t \in Inst |-> IF t \in Unhit THEN Home[t] ELSE -1]
      /\ s.chained = Unhit /\ s.collider = Hit \cup Unhit /\ s.unhit = Unhit
      /\ s.Movers = <<>> /\ s.failed = FALSE
  BY DEF Init
<1>4. s \in World
  <2>1. [p \in Entity |-> p] \in [Entity -> Entity] /\ 0 \in 0..MaxActive
    BY <1>1
  <2>2. [b \in Entity |-> Null] \in [Entity -> Inst \cup {Null}]
        /\ [t \in Inst |-> Null] \in [Inst -> Entity \cup {Null}]
    OBVIOUS
  <2>3. [t \in Inst |-> IF t \in Unhit THEN Home[t] ELSE -1] \in [Inst -> Rooms \cup {-1}]
    BY <1>2
  <2>4. {} \in SUBSET Entity /\ Unhit \in SUBSET Inst /\ Hit \cup Unhit \in SUBSET Inst
        /\ Unhit \in SUBSET Unhit
    BY Ids
  <2>5. [h \in Hit |-> "temp"] \in [Hit -> Kinds] /\ <<>> \in Seq(Mover) /\ FALSE \in BOOLEAN
    BY <1>1
  <2>6. s = [Active  |-> [p \in Entity |-> p], NumActive |-> 0,
             Target  |-> [b \in Entity |-> Null], resting |-> {},
             Owner   |-> [t \in Inst |-> Null],
             ChainId |-> [t \in Inst |-> IF t \in Unhit THEN Home[t] ELSE -1],
             chained |-> Unhit, collider |-> Hit \cup Unhit, unhit |-> Unhit,
             kind    |-> [h \in Hit |-> "temp"],
             NextBanger |-> 1, Movers |-> <<>>, failed |-> FALSE]
    BY Zenon DEF Init
  <2> DEFINE A == [p \in Entity |-> p]
             T == [b \in Entity |-> Null]
             O == [t \in Inst |-> Null]
             C == [t \in Inst |-> IF t \in Unhit THEN Home[t] ELSE -1]
             K == [h \in Hit |-> "temp"]
             D == Hit \cup Unhit
             M == <<>>
             E == {}
  <2>7. s = [Active |-> A, NumActive |-> 0, Target |-> T, resting |-> E, Owner |-> O,
             ChainId |-> C, chained |-> Unhit, collider |-> D, unhit |-> Unhit,
             kind |-> K, NextBanger |-> 1, Movers |-> M, failed |-> FALSE]
    BY <2>6
  <2>8. /\ A \in [Entity -> Entity] /\ T \in [Entity -> Inst \cup {Null}]
        /\ E \in SUBSET Entity /\ O \in [Inst -> Entity \cup {Null}]
        /\ C \in [Inst -> Rooms \cup {-1}] /\ D \in SUBSET Inst
        /\ K \in [Hit -> Kinds] /\ M \in Seq(Mover)
    BY <2>1, <2>2, <2>3, <2>4, <2>5
  <2> HIDE DEF A, T, O, C, K, D, M, E
  <2> QED BY <1>1, <2>1, <2>4, <2>5, <2>7, <2>8 DEF World
<1>5. Len(s.Movers) <= MaxMovers
  BY <1>3, Ids
<1>6. Pool(s, Null)
  <2>1. \A p \in Entity : ~(p <= 0)
    BY <1>1 DEF Entity
  <2> QED BY <1>3, <2>1, Ids DEF Pool
<1>7. Served(s, {}) /\ Settled(s) /\ Driven(s)
  BY <1>3 DEF Served, Settled, Driven
<1>8. Chains(s)
  <2>1. \A u \in Unhit : Home[u] # -1 /\ u \in Inst
    BY <1>2, Ids
  <2> QED BY <1>3, <2>1 DEF Chains
<1>9. FrameOK
  BY <1>1, <1>3 DEF Init, FrameOK
<1> QED BY <1>4, <1>5, <1>6, <1>7, <1>8, <1>9 DEF IInv, Good

\* Each action keeps the invariant; only a strike takes a prop out of unhit.
LEMMA CarDeclaresInv == ASSUME IInv, CarDeclares PROVE IInv' /\ s.unhit \subseteq s'.unhit
<1>1. /\ Good(s, {}, Null) /\ FrameOK /\ s.Movers = <<>> /\ phase' = "update" /\ i' = 1
      /\ MaxActive \in Nat \ {0}
  BY Ids DEF IInv, FrameOK, CarDeclares
<1>2. CASE UNCHANGED <<s, rooms>>
  BY <1>1, <1>2 DEF IInv, FrameOK, Fresh
<1>3. ASSUME NEW r \in Rooms, rooms' = PermRooms(rooms, r),
             s' = DeclaredMover([s EXCEPT !.ChainId[Car] = r, !.chained = @ \cup {Car}], Car)
      PROVE  IInv' /\ s.unhit \subseteq s'.unhit
  <2> DEFINE C == [s.ChainId EXCEPT ![Car] = r]
             D == s.chained \cup {Car}
             v == [s EXCEPT !.ChainId = C, !.chained = D]
  <2>1. s' = DeclaredMover(v, Car)
    BY <1>3
  <2>2. s \in World /\ Car \in Inst /\ Car \notin Unhit /\ r # -1
    BY <1>1, Ids DEF Good
  <2>3. /\ C \in [Inst -> Rooms \cup {-1}] /\ D \in SUBSET Inst
        /\ \A t \in Inst : C[t] = IF t = Car THEN r ELSE s.ChainId[t]
        /\ D = s.chained \cup {Car}
    BY <2>2 DEF World
  <2>4. v = [s EXCEPT !.ChainId = C, !.chained = D]
    OBVIOUS
  <2> HIDE DEF C, D, v
  <2>5. /\ v \in World /\ SamePool(v, s) /\ SameRest(v, s) /\ v.collider = s.collider
        /\ v.Movers = s.Movers /\ v.ChainId = C /\ v.chained = D /\ v.failed = s.failed
    BY <2>2, <2>3, <2>4 DEF World, SamePool, SameRest
  <2>6. Chains(v)
    BY <1>1, <2>2, <2>3, <2>5, Ids DEF Good, Chains, SameRest
  <2>7. Good(v, {}, Null) /\ Fresh(v)
    <3>1. Fresh(v)
      BY <1>1, <2>5 DEF Fresh
    <3> QED BY <1>1, <2>5, <2>6, <3>1, ChainsGood
  <2>8. Good(s', {}, Null) /\ Fresh(s') /\ s'.unhit = s.unhit
    BY <2>1, <2>5, <2>7, DeclaredFacts DEF SameBut, SameRest
  <2>9. rooms' \subseteq Rooms
    BY <1>1, <1>3, PermRoomsFacts DEF FrameOK
  <2> QED BY <1>1, <2>8, <2>9 DEF IInv, FrameOK, Fresh
<1> QED BY <1>2, <1>3 DEF CarDeclares

\* The entity the loop has come to serves somebody.
LEMMA HereFacts ==
    ASSUME IInv, i <= s.NumActive
    PROVE  /\ Here \in Entity /\ s.Target[Here] # Null /\ i + 1 \in 1..(MaxActive + 1)
           /\ Good(s, {}, Null)
<1>1. Good(s, {}, Null) /\ i \in 1..(MaxActive + 1) /\ s.NumActive \in 0..MaxActive
      /\ s.Active \in [Entity -> Entity]
  BY DEF IInv, FrameOK, Good, World
<1>2. i \in 1..s.NumActive /\ i + 1 \in 1..(MaxActive + 1)
  BY <1>1, Ids
<1>3. i \in Entity
  BY <1>1, <1>2, PlaceRange
<1>4. Here \in Entity /\ s.Target[Here] # Null
  BY <1>1, <1>3, Ids DEF Here, Good, Pool
<1> QED BY <1>1, <1>2, <1>4

\* A banger that the pool updates is let go or moves.
LEMMA UpdateOwnInv == ASSUME IInv, UpdateOwn PROVE IInv' /\ s.unhit \subseteq s'.unhit
<1>1. /\ Here \in Entity /\ s.Target[Here] # Null /\ i + 1 \in 1..(MaxActive + 1)
      /\ Good(s, {}, Null) /\ Fresh(s) /\ rooms \subseteq Rooms
  BY HereFacts DEF UpdateOwn, IInv, FrameOK
<1>2. Good(s', {}, Null) /\ Fresh(s') /\ s'.unhit = s.unhit
  <2>1. s' \in Updated(s, Here)
    BY DEF UpdateOwn
  <2> QED BY <1>1, <2>1, UpdatedFacts
<1>3. Fresh(s)'
  BY <1>2 DEF Fresh
<1> QED BY <1>1, <1>2, <1>3 DEF IInv, FrameOK, UpdateOwn

\* A permanent mover declares itself, or is let go outside of all rooms.
LEMMA UpdatePermInv == ASSUME IInv, UpdatePerm PROVE IInv' /\ s.unhit \subseteq s'.unhit
<1> DEFINE h == s.Target[Here]
<1>1. /\ Here \in Entity /\ s.Target[Here] # Null /\ i + 1 \in 1..(MaxActive + 1)
      /\ Good(s, {}, Null) /\ Fresh(s) /\ rooms \subseteq Rooms
  BY HereFacts DEF UpdatePerm, IInv, FrameOK
<1>2. h \in Hit /\ h \in Inst /\ s.Owner[h] = Here /\ Here # Null
  BY <1>1, TargetFacts, Ids
<1>3. Good(s', {}, Null) /\ Fresh(s') /\ rooms' \subseteq Rooms /\ s'.unhit = s.unhit
  <2>1. CASE s.ChainId[h] = -1
    <3>1. s' = HitDetach(s, h) /\ rooms' = rooms
      BY <2>1 DEF UpdatePerm
    <3> QED BY <1>1, <1>2, <3>1, HitDetachFacts
  <2>2. CASE s.ChainId[h] # -1
    <3>1. s' = DeclaredMover(s, h) /\ rooms' = PermRooms(rooms, s.ChainId[h])
      BY <2>2 DEF UpdatePerm
    <3>2. s.ChainId[h] \in Rooms
      BY <1>1, <1>2, <2>2 DEF Good, World
    <3>3. rooms' \subseteq Rooms
      BY <1>1, <3>1, <3>2, PermRoomsFacts
    <3>4. h \in Hit \cup {Car} /\ (h # Car => s.Owner[h] # Null)
      BY <1>2
    <3> HIDE DEF h
    <3> QED BY <1>1, <3>1, <3>3, <3>4, DeclaredFacts DEF SameBut
  <2> QED BY <2>1, <2>2
<1>4. Fresh(s)'
  BY <1>3 DEF Fresh
<1> QED BY <1>1, <1>3, <1>4 DEF IInv, FrameOK, UpdatePerm

\* A temporary one declares itself, or is let go outside the active rooms.
LEMMA UpdateTempInv == ASSUME IInv, UpdateTemp PROVE IInv' /\ s.unhit \subseteq s'.unhit
<1> DEFINE h == s.Target[Here]
<1>1. /\ Here \in Entity /\ s.Target[Here] # Null /\ i + 1 \in 1..(MaxActive + 1)
      /\ Good(s, {}, Null) /\ Fresh(s) /\ rooms \subseteq Rooms
  BY HereFacts DEF UpdateTemp, IInv, FrameOK
<1>2. h \in Hit /\ h \in Inst /\ s.Owner[h] = Here /\ Here # Null
  BY <1>1, TargetFacts, Ids
<1>3. Good(s', {}, Null) /\ Fresh(s') /\ s'.unhit = s.unhit
  <2>1. s' = DeclareTemp(s, h)
    BY DEF UpdateTemp
  <2>2. CASE s.ChainId[h] \in rooms
    <3>1. s' = DeclaredMover(s, h)
      BY <2>1, <2>2 DEF DeclareTemp
    <3>2. h \in Hit \cup {Car} /\ (h # Car => s.Owner[h] # Null)
      BY <1>2
    <3> HIDE DEF h
    <3> QED BY <1>1, <3>1, <3>2, DeclaredFacts DEF SameBut
  <2>3. CASE s.ChainId[h] \notin rooms
    <3>1. s' = HitDetach(s, h)
      BY <2>1, <2>3 DEF DeclareTemp
    <3> QED BY <1>1, <1>2, <3>1, HitDetachFacts
  <2> QED BY <2>2, <2>3
<1>4. Fresh(s)'
  BY <1>3 DEF Fresh
<1> QED BY <1>1, <1>3, <1>4 DEF IInv, FrameOK, UpdateTemp

\* The physics finds an entity that serves the mover's instance.
LEMMA MoverUpdateInv == ASSUME IInv, MoverUpdate PROVE IInv' /\ s.unhit \subseteq s'.unhit
<1>1. PICK k \in DOMAIN s.Movers :
          /\ s.Movers[k].on /\ s.Movers[k].inst # Car
          /\ s' \in Updated(s, s.Movers[k].ent)
  BY DEF MoverUpdate
<1> DEFINE b == s.Movers[k].ent
<1>2. Good(s, {}, Null) /\ s \in World
  BY DEF IInv, Good
<1>3. b # Null /\ s.Target[b] = s.Movers[k].inst
  BY <1>1, <1>2 DEF Good, Driven
<1>4. b \in Entity /\ s.Target[b] # Null
  BY <1>2, <1>3, MoverFacts, Ids
<1>5. s' \in Updated(s, b)
  BY <1>1
<1> HIDE DEF b
<1>6. Good(s', {}, Null) /\ s'.unhit = s.unhit
  BY <1>2, <1>4, <1>5, UpdatedFacts
<1> QED BY <1>6 DEF IInv, FrameOK, MoverUpdate

\* What collides is an instance.
LEMMA OtherFacts == ASSUME IInv, NEW other \in Others PROVE other \in Inst
  BY MoverFacts DEF IInv, Good, Others, Range

\* What is met has no entity yet, so that nothing else is about to lose its own.
LEMMA CollidesFacts ==
    ASSUME IInv, NEW t, NEW other, Collides(t, other)
    PROVE  other \in Inst /\ t \in s.chained /\ phase = "physics"
  BY OtherFacts DEF Collides

\* A prop that is met may be given an entity.
LEMMA GoodWider == ASSUME NEW w, NEW X, Good(w, {}, Null) PROVE Good(w, X, Null)
  BY DEF Good, Served

\* The premise of PartsKeepEntities, in the entities that are idle.
LEMMA IdleCount ==
    ASSUME NEW w, NEW X, Good(w, X, Null)
    PROVE  MaxActive - w.NumActive + Cardinality(InUse(w) \cap w.resting) <= Cardinality(Idle(w))
<1> DEFINE n == w.NumActive
           T == (n + 1)..MaxActive
           F == {d \in Entity : w.Target[d] = Null}
           U == InUse(w) \cap w.resting
           f == [p \in T |-> w.Active[p]]
<1>1. /\ n \in 0..MaxActive /\ w.Active \in [Entity -> Entity] /\ w.resting \subseteq Entity
      /\ Pool(w, Null) /\ MaxActive \in Nat \ {0}
  BY Ids DEF Good, World
<1>2. \A q \in Entity : q <= n <=> w.Target[w.Active[q]] # Null
  BY <1>1, Ids DEF Pool
<1>3. T \subseteq Entity /\ \A p \in T : ~(p <= n)
  BY <1>1 DEF Entity
<1>4. f \in Injection(T, F)
  <2>1. \A p \in T : f[p] \in F
    BY <1>1, <1>2, <1>3
  <2>2. \A p, q \in T : f[p] = f[q] => p = q
    BY <1>1, <1>3 DEF Pool
  <2> QED BY <2>1, <2>2 DEF Injection, IsInjective
<1>5. U \subseteq Entity /\ U \cap F = {} /\ U \cup F \subseteq Idle(w)
  <2>1. \A d \in InUse(w) : d \in Entity /\ w.Target[d] # Null
    <3>1. \A p \in 1..n : p \in Entity /\ p <= n
      BY <1>1, PlaceRange
    <3> QED BY <1>1, <1>2, <3>1 DEF InUse
  <2> QED BY <2>1 DEF Idle
<1>6. IsFiniteSet(Entity)
  BY <1>1, FS_Interval DEF Entity
<1>7. IsFiniteSet(U) /\ IsFiniteSet(F)
  BY <1>5, <1>6, FS_Subset
<1>8. Cardinality(T) = MaxActive - n
  <2>1. n + 1 \in Int /\ MaxActive \in Int
    BY <1>1
  <2>2. Cardinality(T) = IF n + 1 > MaxActive THEN 0 ELSE MaxActive - (n + 1) + 1
    BY <2>1, FS_Interval
  <2> QED BY <1>1, <2>2
<1>9. Cardinality(T) <= Cardinality(F)
  BY <1>4, <1>7, FS_Injection
<1>10. Cardinality(U \cup F) = Cardinality(U) + Cardinality(F)
  <2>1. Cardinality(U \cup F) = Cardinality(U) + Cardinality(F) - Cardinality(U \cap F)
    BY <1>7, FS_Union
  <2>2. Cardinality(U \cap F) = 0
    BY <1>5, FS_EmptySet
  <2>3. Cardinality(U) \in Nat /\ Cardinality(F) \in Nat
    BY <1>7, FS_CardinalityType
  <2> QED BY <2>1, <2>2, <2>3
<1>11. Cardinality(U \cup F) <= Cardinality(Idle(w))
  BY <1>5, IdleTypes, FS_Subset
<1> DEFINE a == Cardinality(U)
           b == Cardinality(F)
           c == Cardinality(Idle(w))
<1>12. a \in Nat /\ b \in Nat /\ c \in Nat /\ MaxActive - n <= b /\ a + b <= c /\ n \in Int
  BY <1>1, <1>7, <1>8, <1>9, <1>10, <1>11, FS_CardinalityType, IdleTypes
<1> HIDE DEF n, a, b, c
<1>13. MaxActive - n + a <= c
  BY <1>1, <1>12
<1> QED BY <1>13 DEF n, a, c

\* A strike: only the prop that is struck comes loose, and its parts keep what
\* they got, if there was enough.
LEMMA StrikeInv ==
    ASSUME IInv, NEW u \in Unhit, NEW other, Strike(u, other)
    PROVE  /\ IInv' /\ s.unhit \ {u} \subseteq s'.unhit
           /\ Cardinality(Idle(s)) > Len(Parts[u]) => PartsServed(s', s, u)
           /\ Parts[u] # <<>> /\ Crowded(s) /\ PartsStarved(s, s, u) => PartsStarved(s', s, u)
<1>1. Collides(u, other) /\ s' \in UNION {Impact(x, u, other) : x \in AttachEntity(s, u)}
      /\ UNCHANGED <<rooms, phase, i>>
  BY DEF Strike
<1>2. PICK x \in AttachEntity(s, u) : s' \in Impact(x, u, other)
  BY <1>1
<1>3. other \in Inst /\ u \in s.chained /\ phase = "physics" /\ u \in Inst /\ u \in Hit \cup {u}
  BY <1>1, CollidesFacts, Ids
<1>4. Good(s, {u}, Null)
  BY GoodWider DEF IInv
<1>5. /\ Good(x, {u}, Null) /\ x.Owner[u] \in Entity /\ x.chained = s.chained
      /\ x.unhit = s.unhit /\ x.NextBanger = s.NextBanger
      /\ Kept(x, u) /\ Cardinality(Idle(x)) >= Cardinality(Idle(s)) - 1
  <2>1. s.Owner[u] = Null
    BY <1>1 DEF Collides
  <2> QED BY <1>2, <1>3, <1>4, <2>1, MeetFacts
<1>6. x.Owner[u] # Null /\ u \in x.chained
  BY <1>3, <1>5, Ids
<1>7. /\ Good(s', {}, Null) /\ s'.unhit = x.unhit \ {u}
      /\ Kept(x, u) /\ Cardinality(Idle(x)) >= Len(Parts[u]) => PartsServed(s', x, u)
  BY <1>2, <1>5, <1>6, ImpactFacts
<1>8. Cardinality(Idle(s)) > Len(Parts[u]) => Cardinality(Idle(x)) >= Len(Parts[u])
  <2> DEFINE a == Cardinality(Idle(s))
             b == Cardinality(Idle(x))
             m == Len(Parts[u])
  <2>1. a \in Nat /\ b \in Nat /\ m \in Nat /\ b >= a - 1
    BY <1>5, IdleTypes, BangersAssumption
  <2> HIDE DEF a, b, m
  <2>2. a > m => b >= m
    BY <2>1
  <2> QED BY <2>2 DEF a, b, m
<1>9. IInv'
  BY <1>1, <1>3, <1>7 DEF IInv, FrameOK
<1>10. ASSUME Parts[u] # <<>>, Crowded(s), PartsStarved(s, s, u) PROVE PartsStarved(s', s, u)
  <2>1. /\ Crowded(x) /\ x.Owner[u] = x.Active[MaxActive]
        /\ \A v \in Inst \ {u} : x.Owner[v] \in {s.Owner[v], Null}
    <3>1. s.Owner[u] = Null
      BY <1>1 DEF Collides
    <3> QED BY <1>2, <1>3, <1>4, <1>10, <3>1, CrowdedAttach
  <2>2. ASSUME NEW n \in 0..(Max({1, Len(Parts[u])}) - 1)
        PROVE  x.Owner[Nth(s.NextBanger, n)] = Null
    <3>1. /\ s.NextBanger \in Hit /\ MaxHit \in Nat \ {0}
          /\ Len(Parts[u]) \in Nat /\ Len(Parts[u]) <= MaxHit
      BY <1>4, Ids, BangersAssumption DEF Good, World
    <3>2. n \in 0..MaxHit
      BY <3>1, OneOrMore
    <3>3. Nth(s.NextBanger, n) \in Inst \ {u}
      BY <3>1, <3>2, RoundFacts, Ids
    <3>4. s.Owner[Nth(s.NextBanger, n)] = Null
      BY <1>10 DEF PartsStarved
    <3> QED BY <2>1, <3>3, <3>4
  <2>3. PartsStarved(x, x, u)
    BY <1>5, <2>2 DEF PartsStarved
  <2>4. PartsStarved(s', x, u)
    BY <1>2, <1>5, <1>6, <1>10, <2>1, <2>3, ImpactFacts
  <2> QED BY <1>5, <2>4 DEF PartsStarved
<1> QED BY <1>5, <1>7, <1>8, <1>9, <1>10 DEF PartsServed

\* A prop that is only touched loses its entity again.
LEMMA TouchInv ==
    ASSUME IInv, NEW u \in Unhit, NEW other, Touch(u, other)
    PROVE  IInv' /\ s.unhit \subseteq s'.unhit
<1>1. Collides(u, other) /\ s' \in {DetachMe(x, x.Owner[u]) : x \in AttachEntity(s, u)}
      /\ UNCHANGED <<rooms, phase, i>>
  BY DEF Touch
<1>2. PICK x \in AttachEntity(s, u) : s' = DetachMe(x, x.Owner[u])
  BY <1>1
<1>3. other \in Inst /\ phase = "physics" /\ u \in Inst /\ u \in Hit \cup {u}
  BY <1>1, CollidesFacts, Ids
<1>4. Good(s, {u}, Null)
  BY GoodWider DEF IInv
<1>5. Good(x, {u}, Null) /\ x.Owner[u] \in Entity /\ x.unhit = s.unhit
  BY <1>2, <1>3, <1>4, MeetFacts
<1> DEFINE b == x.Owner[u]
<1>6. b \in Entity /\ b = x.Owner[u] /\ s' = DetachMe(x, b)
  BY <1>2, <1>5
<1> HIDE DEF b
<1>7. /\ Good(s', {u}, Null)
      /\ \A t \in Inst : s'.Owner[t] = IF x.Owner[t] = b THEN Null ELSE x.Owner[t]
      /\ s'.unhit = s.unhit
  BY <1>5, <1>6, DetachFacts DEF SameRest
<1>8. s'.Owner[u] = Null
  BY <1>3, <1>6, <1>7
<1>9. Good(s', {}, Null)
  BY <1>7, <1>8 DEF Good, Served
<1> QED BY <1>1, <1>3, <1>7, <1>9 DEF IInv, FrameOK

\* A hit banger is pushed.
LEMMA PushInv ==
    ASSUME IInv, NEW h \in Hit, NEW other, Push(h, other)
    PROVE  IInv' /\ s.unhit \subseteq s'.unhit
<1>1. /\ Collides(h, other) /\ UNCHANGED <<rooms, phase, i>>
      /\ s' \in {CollidedMover(x, other, h) : x \in AttachEntity(s, h)}
  BY DEF Push
<1>2. other \in Inst /\ phase = "physics" /\ h \in Inst /\ h \in Hit \cup {}
  BY <1>1, CollidesFacts, Ids
<1>3. PICK x \in AttachEntity(s, h) : s' = CollidedMover(x, other, h)
  BY <1>1
<1>4. Good(x, {}, Null) /\ x.unhit = s.unhit
  BY <1>2, MeetFacts DEF IInv
<1>5. Good(s', {}, Null) /\ s'.unhit = s.unhit
  BY <1>2, <1>3, <1>4, CollidedFacts DEF SameBut
<1> QED BY <1>1, <1>2, <1>5 DEF IInv, FrameOK

\* At the end of the frame there are no movers.
LEMMA FrameEndInv == ASSUME IInv, FrameEnd PROVE IInv' /\ s.unhit \subseteq s'.unhit
<1>1. Good(s, {}, Null) /\ s \in World /\ s' = [s EXCEPT !.Movers = <<>>]
  BY DEF IInv, Good, FrameEnd
<1>2. s' \in World /\ s'.Movers = <<>> /\ SameBut(s', s)
  <2>1. <<>> \in Seq(Mover)
    OBVIOUS
  <2> QED BY <1>1, <2>1, MoversSet
<1>3. Len(s'.Movers) <= MaxMovers /\ Driven(s')
  BY <1>2, Ids DEF Driven
<1>4. Good(s', {}, Null)
  BY <1>1, <1>2, <1>3, MoversGood
<1> QED BY <1>2, <1>4, Ids DEF IInv, FrameOK, FrameEnd, SameBut

\* After a Reset nobody serves and all props stand.
LEMMA RestartInv == ASSUME IInv, Restart PROVE IInv' /\ s.unhit \subseteq s'.unhit
<1> DEFINE y == PoolReset(s)
           F == y.failed \/ \E h \in Hit : s.ChainId[h] # -1 /\ h \notin s.chained
           C == [t \in Inst |-> IF t \in Unhit THEN y.ChainId[t] ELSE -1]
           E == (y.chained \cap Unhit) \cup (Unhit \ (s.unhit \cup Unchained))
           D == y.collider \cup (Unhit \ s.unhit)
<1>1. Good(s, {}, Null) /\ s.Movers = <<>> /\ phase = "cars"
  BY DEF IInv, FrameOK, Restart
<1>2. /\ Good(y, {}, Null) /\ y.NumActive = 0 /\ Len(y.Movers) = Len(s.Movers)
      /\ y.unhit = s.unhit
  <2>1. y = PoolReset(s)
    OBVIOUS
  <2> HIDE DEF y
  <2> QED BY <1>1, <2>1, ResetFacts
<1>3. s' = [y EXCEPT !.failed = F, !.ChainId = C, !.chained = E, !.unhit = Unhit,
                     !.collider = D, !.NextBanger = 1]
  BY DEF Restart
<1> HIDE DEF y
<1>4. /\ y \in World /\ D \in SUBSET Inst /\ E \in SUBSET Inst /\ Unhit \in SUBSET Unhit
      /\ 1 \in Hit
  BY <1>2, Ids DEF Good, World, Hit
<1>5. /\ C \in [Inst -> Rooms \cup {-1}] /\ \A u \in Unhit : u \in Inst /\ C[u] # -1
      /\ \A t \in Inst \ Unhit : C[t] = -1
  BY <1>2, <1>4, Ids DEF Good, World, Chains
<1>6. /\ D = y.collider \cup (Unhit \ y.unhit) /\ E \subseteq Unhit
      /\ \A u \in Unhit \ E : u \in Unchained
      /\ F \in BOOLEAN /\ ~F
  <2>1. y.unhit = s.unhit /\ Chains(y) /\ Chains(s) /\ y.chained \cap Unhit \subseteq Unhit
    BY <1>1, <1>2 DEF Good
  <2>2. ~F
    <3>1. ~y.failed
      BY <2>1 DEF Chains
    <3>2. \A h \in Hit : h \in s.chained \/ s.ChainId[h] = -1
      BY <2>1, Ids DEF Chains
    <3> QED BY <3>1, <3>2
  <2>3. \A u \in Unhit \ E : u \in Unchained
    BY <2>1, Ids DEF Chains
  <2> QED BY <2>1, <2>2, <2>3
<1> HIDE DEF C, D, E, F
<1>7. /\ s' \in World /\ s'.ChainId = C /\ s'.chained = E /\ s'.unhit = Unhit
      /\ s'.collider = D /\ s'.failed = F
      /\ SamePool(s', y) /\ s'.Movers = y.Movers
  BY <1>3, <1>4, <1>5, <1>6 DEF World, SamePool
<1>8. Chains(s')
  BY <1>5, <1>6, <1>7 DEF Chains
<1>9. Settled(s')
  <2>1. \A t \in Hit \cup y.unhit : y.Owner[t] = Null => t \in y.collider
    BY <1>2 DEF Good, Settled
  <2> QED BY <1>6, <1>7, <2>1 DEF Settled, SamePool
<1>10. Pool(s', Null) /\ Served(s', {}) /\ Driven(s')
  BY <1>2, <1>7 DEF Good, Pool, Served, Driven, SamePool
<1>11. s'.Movers = <<>>
  <2>1. s'.Movers \in Seq(Mover) /\ Len(s'.Movers) = 0
    BY <1>1, <1>2, <1>7 DEF World
  <2> QED BY <2>1
<1>12. Good(s', {}, Null)
  BY <1>2, <1>7, <1>8, <1>9, <1>10 DEF Good
<1>13. s.unhit \subseteq s'.unhit
  BY <1>1, <1>7 DEF Good, World
<1> QED BY <1>1, <1>11, <1>12, <1>13 DEF IInv, FrameOK, Restart

\* So does every step.
LEMMA BangersStep == ASSUME IInv, [Next]_vars PROVE IInv'
<1>1. CASE UpdateEnd
  BY <1>1 DEF UpdateEnd, IInv, FrameOK
<1>2. CASE UNCHANGED vars
  BY <1>2 DEF vars, IInv, FrameOK, Fresh
<1> QED
  BY <1>1, <1>2, CarDeclaresInv, UpdateOwnInv, UpdatePermInv, UpdateTempInv, MoverUpdateInv,
     StrikeInv, TouchInv, PushInv, FrameEndInv, RestartInv
     DEF Next, StrikeNext, TouchNext, PushNext

\* The inductive invariant holds in every state of every behaviour.
THEOREM BangersInvariant == Spec => []IInv
<1>1. Init => IInv
  BY BangersInit
<1>2. IInv /\ [Next]_vars => IInv'
  BY BangersStep
<1> QED BY <1>1, <1>2, PTL DEF Spec

\* However props are struck, evicted, broken and taken back by the ring, and
\* however many entities there are: Active stays a permutation with the entities in
\* use in front, and Owner and Target stay each other's inverse (active.cpp).
THEOREM PoolStaysConsistent == Spec => []PoolIsConsistent
<1>1. IInv => PoolIsConsistent
  <2> SUFFICES ASSUME IInv PROVE PoolIsConsistent
    OBVIOUS
  <2>1. s \in World /\ Len(s.Movers) <= MaxMovers /\ Pool(s, Null) /\ FrameOK
    BY DEF IInv, Good
  <2>2. BangersTypeOK
    BY <2>1 DEF World, Mover, BangersTypeOK, FrameOK
  <2>3. /\ s.NumActive \in 0..MaxActive /\ s.Active \in [Entity -> Entity]
        /\ \A p \in Entity : p <= s.NumActive <=> s.Target[s.Active[p]] # Null
        /\ \A b \in Entity : \E p \in Entity : s.Active[p] = b
    BY <2>1, Ids DEF World, Pool
  <2>4. \A p \in Entity : p \in 1..s.NumActive <=> p <= s.NumActive
    BY <2>3, PlaceRange
  <2>5. 1..s.NumActive \subseteq Entity
    BY <2>3, PlaceRange
  <2>6. InUse(s) = {b \in Entity : s.Target[b] # Null}
    BY <2>3, <2>4, <2>5 DEF InUse
  <2>7. {s.Active[p] : p \in Entity} = Entity
    BY <2>3
  <2>8. \A b \in Entity, t \in Inst : s.Target[b] = t <=> s.Owner[t] = b
    BY <2>1 DEF Pool
  <2> QED BY <2>2, <2>6, <2>7, <2>8 DEF PoolIsConsistent, PoolIsSound
<1> QED BY <1>1, BangersInvariant, PTL

\* No assertion of the chains or of Impact fails, what has a room's number is in
\* its chain unless it is a prop that was struck, and nothing that lies in a room is
\* left such that cars pass through it (instchn.cpp, banger.cpp).
THEOREM RoomsStaySound == Spec => []RoomsAreSound
<1>1. IInv => RoomsAreSound
  <2> SUFFICES ASSUME IInv PROVE RoomsAreSound
    OBVIOUS
  <2>1. Chains(s) /\ Settled(s) /\ s \in World
    BY DEF IInv, Good
  <2>2. ChainsAreSound
    BY <2>1 DEF Chains, ChainsAreSound
  <2>3. s.chained \subseteq Inst
    BY <2>1 DEF World
  <2>4. SettledCollide
    BY <2>1, <2>3, Ids DEF Chains, Settled, SettledCollide
  <2> QED BY <2>2, <2>4 DEF RoomsAreSound
<1> QED BY <1>1, BangersInvariant, PTL

\* Update asserts that it serves hit bangers only, and the physics updates the
\* entity of a mover without looking whether it still serves it (active.cpp, phys.cpp).
THEOREM MoversStayServed == Spec => []MoversAreServed
<1>1. IInv => MoversAreServed
  <2> SUFFICES ASSUME IInv PROVE MoversAreServed
    OBVIOUS
  <2>1. Good(s, {}, Null) /\ s \in World /\ Pool(s, Null) /\ Driven(s)
    BY DEF IInv, Good
  <2>2. ASSUME NEW b \in InUse(s) PROVE s.Target[b] \in Hit
    <3>1. /\ s.NumActive \in 0..MaxActive /\ s.Active \in [Entity -> Entity]
      BY <2>1 DEF World
    <3>2. PICK p \in 1..s.NumActive : s.Active[p] = b
      BY <2>2 DEF InUse
    <3>3. p \in Entity /\ p <= s.NumActive
      BY <3>1, <3>2, PlaceRange
    <3>4. b \in Entity /\ s.Target[b] # Null
      BY <2>1, <3>1, <3>2, <3>3, Ids DEF Pool
    <3> QED BY <2>1, <3>4, TargetFacts
  <2> QED BY <2>1, <2>2 DEF MoversAreServed, Driven
<1> QED BY <1>1, BangersInvariant, PTL

\* Nothing but a strike takes a prop out of its place.
LEMMA OnlyStruck ==
    ASSUME IInv, [Next]_vars, NEW u \in Unhit, u \in s.unhit, u \notin s'.unhit
    PROVE  \E other : Strike(u, other)
<1>1. ~UpdateEnd /\ ~UNCHANGED vars
  BY DEF UpdateEnd, vars
<1>2. /\ ~CarDeclares /\ ~UpdateOwn /\ ~UpdatePerm /\ ~UpdateTemp /\ ~MoverUpdate
      /\ ~FrameEnd /\ ~Restart
  BY CarDeclaresInv, UpdateOwnInv, UpdatePermInv, UpdateTempInv, MoverUpdateInv, FrameEndInv,
     RestartInv
<1>3. ~TouchNext /\ ~PushNext
  BY TouchInv, PushInv DEF TouchNext, PushNext
<1>4. StrikeNext
  BY <1>1, <1>2, <1>3 DEF Next
<1>5. PICK v \in Unhit, other \in Hit \cup {Car} : Strike(v, other)
  BY <1>4 DEF StrikeNext
<1>6. s.unhit \ {v} \subseteq s'.unhit
  BY <1>5, StrikeInv
<1>7. v = u
  BY <1>6
<1> QED BY <1>5, <1>7

\* However often the ring and the pool take entities away in the middle of an
\* Impact: if the pool has more entities that are free or rest than a struck prop has
\* parts, each of them has an entity when Impact is done (banger.cpp).
THEOREM PartsStayServed == Spec => PartsKeepEntities
<1>1. ASSUME IInv, [Next]_vars, NEW u \in Unhit, u \in s.unhit, u \notin s'.unhit,
             MaxActive - s.NumActive + Cardinality(InUse(s) \cap s.resting) > Len(Parts[u]),
             NEW h \in NewHits(u)
      PROVE  s'.Owner[h] # Null
  <2>1. PICK other : Strike(u, other)
    BY <1>1, OnlyStruck
  <2>2. Cardinality(Idle(s)) > Len(Parts[u])
    <3> DEFINE a == MaxActive - s.NumActive + Cardinality(InUse(s) \cap s.resting)
               b == Cardinality(Idle(s))
               m == Len(Parts[u])
    <3>1. a <= b /\ a > m
      BY <1>1, IdleCount DEF IInv
    <3>2. a \in Int /\ b \in Int /\ m \in Int
      <4>1. MaxActive \in Int /\ s.NumActive \in Int /\ s.resting \in SUBSET Entity
        BY <1>1, Ids DEF IInv, Good, World
      <4>2. IsFiniteSet(Entity)
        BY <4>1, FS_Interval DEF Entity
      <4>3. Cardinality(InUse(s) \cap s.resting) \in Nat
        BY <4>1, <4>2, FS_Subset, FS_CardinalityType
      <4> QED BY <4>1, <4>3, IdleTypes, BangersAssumption
    <3> HIDE DEF a, b, m
    <3>3. b > m
      BY <3>1, <3>2
    <3> QED BY <3>3 DEF b, m
  <2>3. PartsServed(s', s, u)
    BY <1>1, <2>1, <2>2, StrikeInv
  <2>4. PICK n \in 0..(Max({1, Len(Parts[u])}) - 1) : h = ((s.NextBanger + n - 1) % MaxHit) + 1
    BY <1>1 DEF NewHits
  <2> QED BY <2>3, <2>4 DEF PartsServed, Nth
<1>2. IInv /\ [Next]_vars =>
          [\A u \in Unhit :
               /\ Struck(u)
               /\ MaxActive - s.NumActive + Cardinality(InUse(s) \cap s.resting) > Len(Parts[u])
               => \A h \in NewHits(u) : s'.Owner[h] # Null]_vars
  BY <1>1 DEF Struck
<1> QED BY <1>2, BangersInvariant, PTL DEF Spec, PartsKeepEntities

\* And if all entities are in use and none rests, "the oldest" is the one that was
\* attached last: the prop and its parts take it from each other, Impact detaches it
\* at the end, and no part has an entity (active.cpp, banger.cpp).
THEOREM PartsAreLeftBehind == Spec => PartsStayBehind
<1>1. ASSUME IInv, [Next]_vars, NEW u \in Unhit, u \in s.unhit, u \notin s'.unhit,
             Parts[u] # <<>>, s.NumActive = MaxActive, s.resting = {},
             \A h \in NewHits(u) : s.Owner[h] = Null,
             NEW h \in NewHits(u)
      PROVE  s'.Owner[h] = Null
  <2>1. PICK other : Strike(u, other)
    BY <1>1, OnlyStruck
  <2>2. Crowded(s)
    BY <1>1 DEF Crowded
  <2>3. PartsStarved(s, s, u)
    BY <1>1 DEF PartsStarved, NewHits, Nth
  <2>4. PartsStarved(s', s, u)
    BY <1>1, <2>1, <2>2, <2>3, StrikeInv
  <2>5. PICK n \in 0..(Max({1, Len(Parts[u])}) - 1) : h = ((s.NextBanger + n - 1) % MaxHit) + 1
    BY <1>1 DEF NewHits
  <2> QED BY <2>4, <2>5 DEF PartsStarved, Nth
<1>2. IInv /\ [Next]_vars =>
          [\A u \in Unhit :
               /\ Struck(u) /\ Parts[u] # <<>>
               /\ s.NumActive = MaxActive /\ s.resting = {}
               /\ \A h \in NewHits(u) : s.Owner[h] = Null
               => \A h \in NewHits(u) : s'.Owner[h] = Null]_vars
  BY <1>1 DEF Struck
<1> QED BY <1>2, BangersInvariant, PTL DEF Spec, PartsStayBehind
=============================================================================
