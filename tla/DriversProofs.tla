--------------------------- MODULE DriversProofs ----------------------------
(***************************************************************************)
(* Theorems about Drivers and Menus, for every set of menus, every length  *)
(* of the list and any number of failing files.                            *)
(***************************************************************************)
EXTENDS Drivers, ListLemmas

File == PlayersDir..(MaxPlayers - 1)
Text == Seq(Entry) \cup Seq(Nat)
Job  == [op : {"open", "close"}, file : File, text : Text]

IsList(l) == l \in Seq(Entry) /\ Len(l) <= MaxPlayers

Types ==
    /\ IsList(list) /\ current \in Int /\ current >= -1
    /\ me = <<>> \/ \E e \in Entry : me = <<e>>
    /\ disk \in [File -> [there : BOOLEAN, text : Text]]
    /\ IsList(disk[PlayersDir].text)
    /\ todo \in Seq(Job) /\ faults \in Nat
    /\ unsaved \in BOOLEAN /\ hurt \in BOOLEAN

\* Of players.dir a handler only opens what it then writes, and writes the list
\* of the memory; a .sav is opened first and written last.
JobsInv ==
    \A k \in 1..Len(todo) :
        /\ todo[k] = Open(PlayersDir) =>
               k < Len(todo) /\ todo[k + 1] = Close(PlayersDir, list)
        /\ todo[k].op = "open" \/ todo[k].file # PlayersDir \/ todo[k] = Close(PlayersDir, list)
        /\ todo[k].op = "open" /\ todo[k].file # PlayersDir =>
               k = 1 /\ Len(todo) > 1 /\ todo[Len(todo)].file # PlayersDir
        /\ todo[k].op = "open" => todo[k] = Open(todo[k].file)

\* The list is on disk or about to be written, unless a save of it failed.
SavedInv ==
    /\ list # <<>> /\ ~unsaved =>
           \/ disk[PlayersDir].text = list
           \/ \E k \in 1..Len(todo) : todo[k] = Close(PlayersDir, list)
    /\ unsaved => hurt

Made(e) == e = DriverX \/ disk[e.file].there \/ faults > 0

\* Whoever is in a list has a .sav, or is about to get one first of all.
MadeInv ==
    /\ \A n \in DOMAIN disk[PlayersDir].text : Made(disk[PlayersDir].text[n])
    /\ \A n \in DOMAIN list :
           Made(list[n]) \/ (todo # <<>> /\ todo[1] = Open(list[n].file))

Fits(l) == \A n \in DOMAIN l : l[n] = DriverX \/ l[n].name = l[n].file + 1

FitsInv == Fits(list) /\ Fits(disk[PlayersDir].text)

IInv == Types /\ JobsInv /\ SavedInv /\ PickMatches /\ MadeInv /\ FitsInv
-----------------------------------------------------------------------------
(* The menus *)

MenusInv == OneMenuEnabled /\ None \notin Menus

LEMMA SwitchMenus == ASSUME MenusInv, NEW id, SwitchNow(id) PROVE MenusInv'
BY Zenon DEF MenusInv, OneMenuEnabled, SwitchNow, Entered, EnabledAfter

LEMMA MenusStep == ASSUME MenusInv, [Next]_vars PROVE MenusInv'
<1> USE DEF MenusInv, OneMenuEnabled
<1>1. CASE ShowMain
  BY <1>1, SwitchMenus DEF ShowMain
<1>2. CASE ForceCurrentFocus
  BY <1>2, SwitchMenus DEF ForceCurrentFocus
<1>3. CASE Restart
  BY <1>3 DEF Restart
<1>4. CASE PressMenu \/ NewPlayer \/ DeleteCB \/ StepPlayer(1) \/ StepPlayer(-1) \/ PressNav
  BY <1>4 DEF PressMenu, NewPlayer, DeleteCB, StepPlayer, PressNav, KeepMenu
<1>5. CASE FileStep \/ FileFault \/ UNCHANGED vars
  BY <1>5 DEF FileStep, FileFault, vars, menuVars
<1> QED BY <1>1, <1>2, <1>3, <1>4, <1>5 DEF Next

\* Whatever buttons are pressed, in any set of menus: the active menu is the
\* only one that is enabled.
THEOREM MenusAlone == Spec => []OneMenuEnabled
<1>1. Init => MenusInv
  BY MenusAssumption DEF Init, MenuInit, MenusInv, OneMenuEnabled
<1>2. MenusInv /\ [Next]_vars => MenusInv'
  BY MenusStep
<1>3. MenusInv => OneMenuEnabled
  BY DEF MenusInv
<1> QED BY <1>1, <1>2, <1>3, PTL DEF Spec
-----------------------------------------------------------------------------
(* What the handlers leave to do, and what is taken out of a list *)

LEMMA FileFacts == PlayersDir \in File /\ MaxPlayers \in Nat /\ MaxPlayers > 0
                   /\ DriverX \in Entry /\ <<>> \in Text /\ <<>> \in Seq(Entry)
BY DriversAssumption DEF PlayersDir, File, DriverX, Entry, Text

LEMMA SaveShape ==
    ASSUME NEW l, IsList(l)
    PROVE  SavePlayers(l) \in Seq(Job) /\ Len(SavePlayers(l)) = 2
           /\ SavePlayers(l)[1] = Open(PlayersDir) /\ SavePlayers(l)[2] = Close(PlayersDir, l)
<1>1. Open(PlayersDir) \in Job /\ Close(PlayersDir, l) \in Job
  BY FileFacts DEF Open, Close, Job, IsList, Text
<1> HIDE DEF Open, Close, Job
<1> QED BY <1>1 DEF SavePlayers

LEMMA OneUp == ASSUME NEW n \in Nat, NEW i \in 0..(n - 1) PROVE i + 1 \in 1..n /\ i \in Nat
OBVIOUS

LEMMA AddShape ==
    ASSUME NEW l, IsList(l), NEW e \in Entry
    PROVE  /\ AddFiles(e, l) \in Seq(Job) /\ Len(AddFiles(e, l)) = 4
           /\ AddFiles(e, l)[1] = Open(e.file) /\ AddFiles(e, l)[2] = Open(PlayersDir)
           /\ AddFiles(e, l)[3] = Close(PlayersDir, l)
           /\ AddFiles(e, l)[4] = Close(e.file, <<e.name>>)
<1> DEFINE a == <<Open(e.file)>>
           s == SavePlayers(l)
           b == <<Close(e.file, <<e.name>>)>>
<1>1. Open(e.file) \in Job /\ Close(e.file, <<e.name>>) \in Job
  BY FileFacts DEF Open, Close, Job, Text, Entry, File, PlayersDir
<1>2. a \in Seq(Job) /\ Len(a) = 1 /\ a[1] = Open(e.file)
  BY <1>1
<1>3. b \in Seq(Job) /\ Len(b) = 1 /\ b[1] = Close(e.file, <<e.name>>)
  BY <1>1
<1>4. s \in Seq(Job) /\ Len(s) = 2 /\ s[1] = Open(PlayersDir) /\ s[2] = Close(PlayersDir, l)
  BY SaveShape
<1> DEFINE f == a \o s
           r == f \o b
<1>5. f = a \o s /\ r = f \o b /\ AddFiles(e, l) = r
  BY DEF AddFiles
<1> HIDE DEF a, b, s, f, r
<1>6. f \in Seq(Job) /\ Len(f) = Len(a) + Len(s) /\ (\A i \in 1..Len(a) : f[i] = a[i])
      /\ (\A i \in 1..Len(s) : f[Len(a) + i] = s[i])
  <2>1. a \in Seq(Job) /\ s \in Seq(Job) /\ f = a \o s
    BY <1>2, <1>4, <1>5, Zenon
  <2> QED BY <2>1, Joined
<1>7. Len(f) = 3 /\ f[1] = a[1] /\ f[2] = s[1] /\ f[3] = s[2]
  BY <1>2, <1>4, <1>6
<1>8. r \in Seq(Job) /\ Len(r) = Len(f) + Len(b) /\ (\A i \in 1..Len(f) : r[i] = f[i])
      /\ (\A i \in 1..Len(b) : r[Len(f) + i] = b[i])
  <2>1. f \in Seq(Job) /\ b \in Seq(Job) /\ r = f \o b
    BY <1>3, <1>5, <1>6, Zenon
  <2> QED BY <2>1, Joined
<1>9. Len(r) = 4 /\ r[1] = f[1] /\ r[2] = f[2] /\ r[3] = f[3] /\ r[4] = b[1]
  BY <1>3, <1>7, <1>8
<1> QED BY <1>2, <1>3, <1>4, <1>5, <1>7, <1>8, <1>9

\* Removed takes out one entry, of the name it is given, and keeps the order.
LEMMA RemovedIs ==
    ASSUME NEW l, IsList(l), NEW k \in 1..Len(l)
    PROVE  \E n \in 1..Len(l) :
              /\ l[n].name = l[k].name
              /\ IsList(Removed(l, l[k].name)) /\ Len(Removed(l, l[k].name)) = Len(l) - 1
              /\ \A i \in 1..(Len(l) - 1) : Removed(l, l[k].name)[i] = l[Past(n, i)]
<1> DEFINE S == {i \in 1..Len(l) : l[i].name = l[k].name}
<1>1. k \in S /\ S \subseteq Nat /\ S # {}
  BY DEF IsList
<1> DEFINE n == Min(S)
<1>2. n \in 1..Len(l) /\ l[n].name = l[k].name
  BY <1>1, LeastExists
<1>3. Removed(l, l[k].name) = RemoveAt(l, n)
  BY <1>1 DEF Removed, RemoveFirstMatch, SelectInSeq
<1> HIDE DEF n
<1>4. /\ RemoveAt(l, n) \in Seq(Entry) /\ Len(RemoveAt(l, n)) = Len(l) - 1
      /\ \A i \in 1..(Len(l) - 1) : RemoveAt(l, n)[i] = l[Past(n, i)]
  BY <1>2, RemoveAtIs DEF IsList
<1>5. IsList(RemoveAt(l, n))
  BY <1>4, FileFacts DEF IsList
<1> QED BY <1>2, <1>3, <1>4, <1>5, Zenon

LEMMA RemovedFacts ==
    ASSUME NEW l, IsList(l), NEW k \in 1..Len(l)
    PROVE  /\ IsList(Removed(l, l[k].name)) /\ Len(Removed(l, l[k].name)) = Len(l) - 1
           /\ \A i \in 1..Len(Removed(l, l[k].name)) :
                  \E j \in 1..Len(l) : Removed(l, l[k].name)[i] = l[j]
<1>1. PICK n \in 1..Len(l) :
         /\ IsList(Removed(l, l[k].name)) /\ Len(Removed(l, l[k].name)) = Len(l) - 1
         /\ \A i \in 1..(Len(l) - 1) : Removed(l, l[k].name)[i] = l[Past(n, i)]
  BY RemovedIs
<1>2. ASSUME NEW i \in 1..(Len(l) - 1) PROVE Past(n, i) \in 1..Len(l)
  BY DEF Past, IsList
<1> QED BY <1>1, <1>2, Zenon
-----------------------------------------------------------------------------
(* Each action preserves the invariant *)

LEMMA Fields ==
    /\ \A f : Open(f).op = "open" /\ Open(f).file = f /\ Open(f).text = <<>>
    /\ \A f, t : Close(f, t).op = "close" /\ Close(f, t).file = f /\ Close(f, t).text = t
    /\ \A j \in Job : j.op \in {"open", "close"} /\ j.file \in File /\ j.text \in Text
BY DEF Open, Close, Job

files == <<list, current, me, disk, todo, unsaved, hurt, faults>>

LEMMA Frame == ASSUME IInv, UNCHANGED files PROVE IInv'
<1> USE DEF files
<1>1. Types'
  BY DEF IInv, Types, IsList
<1>2. JobsInv'
  BY DEF IInv, JobsInv
<1>3. SavedInv'
  BY DEF IInv, SavedInv
<1>4. PickMatches'
  BY DEF IInv, PickMatches
<1>5. MadeInv'
  BY DEF IInv, MadeInv, Made
<1>6. FitsInv'
  BY DEF IInv, FitsInv, Fits
<1> QED BY <1>1, <1>2, <1>3, <1>4, <1>5, <1>6 DEF IInv

LEMMA Empty ==
    IsList(<<>>) /\ Fits(<<>>) /\ <<>> \in Seq(Job) /\ Len(<<>>) = 0 /\ DOMAIN <<>> = {}
<1>1. <<>> \in Seq(Entry) /\ <<>> \in Seq(Job) /\ Len(<<>>) = 0
  OBVIOUS
<1>2. DOMAIN <<>> = {}
  OBVIOUS
<1> QED BY <1>1, <1>2, FileFacts DEF IsList, Fits

LEMMA InitStep == Init => IInv
<1> SUFFICES ASSUME Init PROVE IInv
  OBVIOUS
<1>1. disk = [f \in File |-> [there |-> FALSE, text |-> <<>>]]
  BY DEF Init, File
<1>2. disk \in [File -> [there : BOOLEAN, text : Text]] /\ disk[PlayersDir].text = <<>>
  BY <1>1, FileFacts
<1>3. Types
  <2>1. list = <<>> /\ todo = <<>> /\ current = -1 /\ me = <<>> /\ faults = 0
        /\ unsaved \in BOOLEAN /\ hurt \in BOOLEAN
    BY DEF Init
  <2> QED BY <1>2, <2>1, Empty DEF Types, IsList
<1>4. JobsInv
  BY Empty DEF Init, JobsInv
<1>5. SavedInv /\ PickMatches
  BY DEF Init, SavedInv, PickMatches
<1>6. MadeInv /\ FitsInv
  BY <1>2, Empty DEF Init, MadeInv, FitsInv
<1> QED BY <1>3, <1>4, <1>5, <1>6 DEF IInv

LEMMA RestartStep == ASSUME IInv, Restart PROVE IInv'
<1>1. list' = <<>> /\ todo' = <<>> /\ current' = -1 /\ me' = <<>> /\ ~unsaved' /\ ~hurt'
      /\ unsaved' \in BOOLEAN /\ hurt' \in BOOLEAN /\ UNCHANGED <<disk, faults>>
  BY DEF Restart
<1>2. Types'
  BY <1>1, Empty DEF IInv, Types, IsList
<1>3. JobsInv'
  BY <1>1, Empty DEF JobsInv
<1>4. SavedInv' /\ PickMatches'
  BY <1>1 DEF SavedInv, PickMatches
<1>5. MadeInv' /\ FitsInv'
  BY <1>1, Empty DEF IInv, MadeInv, Made, FitsInv, Fits
<1> QED BY <1>2, <1>3, <1>4, <1>5 DEF IInv

\* A list that is to be saved, and nothing else to do.
LEMMA Saving ==
    ASSUME IInv, todo' \in Seq(Job), Len(todo') = 2, UNCHANGED hurt, unsaved' => unsaved,
           todo'[1] = Open(PlayersDir), todo'[2] = Close(PlayersDir, list')
    PROVE  JobsInv' /\ SavedInv'
<1>1. JobsInv'
  <2> SUFFICES ASSUME NEW k \in 1..2
               PROVE  /\ todo'[k] = Open(PlayersDir) =>
                             k < 2 /\ todo'[k + 1] = Close(PlayersDir, list')
                      /\ \/ todo'[k].op = "open"
                         \/ todo'[k].file # PlayersDir
                         \/ todo'[k] = Close(PlayersDir, list')
                      /\ ~(todo'[k].op = "open" /\ todo'[k].file # PlayersDir)
                      /\ todo'[k].op = "open" => todo'[k] = Open(todo'[k].file)
    BY DEF JobsInv
  <2>1. k = 1 \/ k = 2
    OBVIOUS
  <2> QED BY <2>1, Fields
<1>2. SavedInv'
  BY DEF IInv, SavedInv
<1> QED BY <1>1, <1>2

LEMMA NewPlayerStep == ASSUME IInv, NewPlayer PROVE IInv'
<1> DEFINE e == NewEntry(list)
           l == Append(list, e)
<1>1. IsList(list) /\ Len(list) \in Nat /\ todo = <<>>
      /\ UNCHANGED <<current, me, disk, unsaved, hurt, faults>>
  BY DEF IInv, Types, IsList, NewPlayer, Button, KeepFiles
<1>2. CASE Len(list) >= MaxPlayers
  <2>1. UNCHANGED files
    BY <1>1, <1>2 DEF NewPlayer, files
  <2> QED BY <2>1, Frame
<1>3. CASE ~(Len(list) >= MaxPlayers)
  <2>1. e \in Entry /\ e.name = e.file + 1
    BY <1>1, <1>3, FileFacts DEF NewEntry, Entry
  <2> HIDE DEF e
  <2>2. IsList(l) /\ Len(l) = Len(list) + 1 /\ l # list
        /\ l[Len(list) + 1] = e /\ \A n \in 1..Len(list) : l[n] = list[n]
    BY <1>1, <1>3, <2>1, FileFacts DEF IsList
  <2> HIDE DEF l
  <2>3. list' = l /\ todo' = AddFiles(e, l)
    BY <1>3, <2>2 DEF NewPlayer, l, e
  <2>4. /\ todo' \in Seq(Job) /\ Len(todo') = 4
        /\ todo'[1] = Open(e.file) /\ todo'[2] = Open(PlayersDir)
        /\ todo'[3] = Close(PlayersDir, list') /\ todo'[4] = Close(e.file, <<e.name>>)
    BY <2>1, <2>2, <2>3, AddShape
  <2>5. e.file # PlayersDir
    BY <2>1, FileFacts DEF Entry, PlayersDir
  <2>6. Types'
    BY <1>1, <2>2, <2>3, <2>4 DEF IInv, Types, IsList
  <2>7. JobsInv'
    <3> SUFFICES ASSUME NEW k \in 1..4
                 PROVE  /\ todo'[k] = Open(PlayersDir) =>
                               k < 4 /\ todo'[k + 1] = Close(PlayersDir, list')
                        /\ \/ todo'[k].op = "open"
                           \/ todo'[k].file # PlayersDir
                           \/ todo'[k] = Close(PlayersDir, list')
                        /\ todo'[k].op = "open" /\ todo'[k].file # PlayersDir =>
                               k = 1 /\ todo'[4].file # PlayersDir
                        /\ todo'[k].op = "open" => todo'[k] = Open(todo'[k].file)
      BY <2>4 DEF JobsInv
    <3>1. k = 1 \/ k = 2 \/ k = 3 \/ k = 4
      OBVIOUS
    <3> QED BY <2>4, <2>5, <3>1, Fields
  <2>8. SavedInv'
    BY <1>1, <2>4 DEF IInv, SavedInv
  <2>9. PickMatches'
    BY <1>1, <2>2, <2>3 DEF IInv, Types, PickMatches
  <2>10. MadeInv'
    <3>1. ASSUME NEW n \in 1..Len(list')
          PROVE  Made(list[n])' \/ todo'[1] = Open(list'[n].file)
      <4>1. CASE n = Len(list) + 1
        BY <2>2, <2>3, <2>4, <4>1
      <4>2. CASE n # Len(list) + 1
        <5>1. n \in 1..Len(list) /\ list'[n] = list[n]
          BY <1>1, <2>2, <2>3, <4>2
        <5>2. Made(list[n])
          BY <1>1, <5>1 DEF IInv, MadeInv, IsList
        <5> QED BY <1>1, <5>1, <5>2 DEF Made
      <4> QED BY <4>1, <4>2
    <3>2. \A n \in DOMAIN disk'[PlayersDir].text : Made(disk[PlayersDir].text[n])'
      BY <1>1 DEF IInv, MadeInv, Made
    <3>3. todo' # <<>>
      BY <2>4
    <3>4. DOMAIN list' = 1..Len(list')
      BY <2>2, <2>3 DEF IsList
    <3> QED BY <3>1, <3>2, <3>3, <3>4 DEF MadeInv
  <2>11. FitsInv'
    <3>1. Fits(l)
      BY <1>1, <2>1, <2>2 DEF IInv, FitsInv, Fits, IsList
    <3> QED BY <1>1, <2>3, <3>1 DEF IInv, FitsInv, Fits
  <2> QED BY <2>6, <2>7, <2>8, <2>9, <2>10, <2>11 DEF IInv
<1> QED BY <1>2, <1>3

LEMMA DeleteCBStep == ASSUME IInv, DeleteCB PROVE IInv'
<1>1. /\ IsList(list) /\ Len(list) \in Nat /\ todo = <<>> /\ DOMAIN list = 1..Len(list)
      /\ UNCHANGED <<disk, unsaved, hurt, faults>>
  BY DEF IInv, Types, IsList, DeleteCB, Button, KeepFiles
<1>2. CASE ~(Len(list) > 1 /\ current \in 0..(Len(list) - 1))
  <2>1. UNCHANGED files
    BY <1>1, <1>2 DEF DeleteCB, files, memory
  <2> QED BY <2>1, Frame
<1>3. CASE Len(list) > 1 /\ current \in 0..(Len(list) - 1)
  <2> DEFINE l == Removed(list, list[current + 1].name)
  <2>1. /\ IsList(l) /\ Len(l) = Len(list) - 1
        /\ \A i \in 1..Len(l) : \E j \in 1..Len(list) : l[i] = list[j]
    <3> DEFINE k == current + 1
    <3>1. k \in 1..Len(list)
      BY <1>1, <1>3
    <3> HIDE DEF k
    <3> DEFINE r == Removed(list, list[k].name)
    <3>2. IsList(r) /\ Len(r) = Len(list) - 1
          /\ \A i \in 1..Len(r) : \E j \in 1..Len(list) : r[i] = list[j]
      <4>1. IsList(list)
        BY <1>1
      <4> QED BY <3>1, <4>1, RemovedFacts
    <3>3. l = r
      BY DEF k
    <3> HIDE DEF l, r
    <3> QED BY <3>2, <3>3, Zenon
  <2>2. list' = l /\ todo' = SavePlayers(l) /\ SetPlayerPick(l, Clamped(current, l))
    BY <1>3 DEF DeleteCB, RemoveFiles
  <2> HIDE DEF l
  <2>3. /\ todo' \in Seq(Job) /\ Len(todo') = 2
        /\ todo'[1] = Open(PlayersDir) /\ todo'[2] = Close(PlayersDir, list')
    BY <2>1, <2>2, SaveShape
  <2>4. current' \in 0..(Len(list') - 1) /\ me' = <<list'[current' + 1]>>
    <3>1. Clamped(current, l) \in 0..(Len(l) - 1)
      BY <1>1, <1>3, <2>1 DEF Clamped
    <3> QED BY <2>2, <3>1 DEF SetPlayerPick
  <2>5. IsList(list') /\ Len(list') \in Nat /\ DOMAIN list' = 1..Len(list')
    BY <2>1, <2>2 DEF IsList
  <2>6. list'[current' + 1] \in Entry
    <3>1. current' + 1 \in 1..Len(list')
      <4>1. current' \in 0..(Len(list') - 1)
        BY <2>4
      <4> QED BY <2>5, <4>1, OneUp
    <3> QED BY <2>5, <3>1 DEF IsList
  <2>7. Types'
    <3>1. current' \in Int /\ current' >= -1
      <4>1. current' \in 0..(Len(list') - 1)
        BY <2>4
      <4> QED BY <2>5, <4>1, OneUp
    <3>2. \E e \in Entry : me' = <<e>>
      BY <2>4, <2>6
    <3>3. todo' \in Seq(Job)
      BY <2>3
    <3> QED BY <1>1, <2>5, <3>1, <3>2, <3>3 DEF IInv, Types, IsList
  <2>8. JobsInv' /\ SavedInv'
    BY <1>1, <2>3, Saving
  <2>9. PickMatches'
    BY <2>4, <2>5 DEF PickMatches
  <2>10. \A i \in 1..Len(list') : \E j \in 1..Len(list) : list'[i] = list[j]
    BY <2>1, <2>2
  <2>11. MadeInv'
    <3>1. ASSUME NEW i \in 1..Len(list') PROVE Made(list[i])'
      <4>1. PICK j \in 1..Len(list) : list'[i] = list[j]
        BY <2>10
      <4>2. Made(list[j])
        BY <1>1 DEF IInv, MadeInv
      <4> QED BY <1>1, <4>1, <4>2 DEF Made
    <3>2. \A n \in DOMAIN disk'[PlayersDir].text : Made(disk[PlayersDir].text[n])'
      BY <1>1 DEF IInv, MadeInv, Made
    <3> QED BY <2>5, <3>1, <3>2 DEF MadeInv
  <2>12. FitsInv'
    BY <1>1, <2>5, <2>10 DEF IInv, FitsInv, Fits
  <2> QED BY <2>7, <2>8, <2>9, <2>11, <2>12 DEF IInv
<1> QED BY <1>2, <1>3

LEMMA StepPlayerStep == ASSUME IInv, NEW d \in {1, -1}, StepPlayer(d) PROVE IInv'
<1>1. /\ IsList(list) /\ Len(list) \in Nat /\ Len(list) > 1 /\ current \in Int
      /\ UNCHANGED <<list, todo, disk, unsaved, hurt, faults>>
      /\ SetPlayerPick(list, (current + d + Len(list)) % Len(list))
  BY DEF IInv, Types, IsList, StepPlayer, KeepFiles
<1>2. current' \in 0..(Len(list) - 1) /\ me' = <<list[current' + 1]>>
  <2>1. (current + d + Len(list)) % Len(list) \in 0..(Len(list) - 1)
    BY <1>1
  <2> QED BY <1>1, <2>1 DEF SetPlayerPick
<1>3. list[current' + 1] \in Entry
  <2>1. current' + 1 \in 1..Len(list)
    <3>1. current' \in 0..(Len(list) - 1) /\ Len(list) \in Nat
      BY <1>1, <1>2, Zenon
    <3> QED BY <3>1, OneUp
  <2> QED BY <1>1, <2>1 DEF IsList
<1>4. Types'
  BY <1>1, <1>2, <1>3 DEF IInv, Types, IsList
<1>5. JobsInv'
  BY <1>1 DEF IInv, JobsInv
<1>6. SavedInv'
  BY <1>1 DEF IInv, SavedInv
<1>7. PickMatches'
  BY <1>1, <1>2 DEF PickMatches
<1>8. MadeInv' /\ FitsInv'
  BY <1>1 DEF IInv, MadeInv, Made, FitsInv, Fits
<1> QED BY <1>4, <1>5, <1>6, <1>7, <1>8 DEF IInv

LEMMA ForceCurrentFocusStep == ASSUME IInv, ForceCurrentFocus PROVE IInv'
<1>1. todo = <<>> /\ UNCHANGED <<disk, hurt, faults>> /\ IsList(disk[PlayersDir].text)
  BY DEF ForceCurrentFocus, Button, IInv, Types
<1>2. CASE ~(Entered(next) /\ next = "driver")
  <2>1. UNCHANGED files
    BY <1>1, <1>2 DEF ForceCurrentFocus, files, memory
  <2> QED BY <2>1, Frame
<1>3. CASE Entered(next) /\ next = "driver"
  <2>1. LoadPlayers /\ SetPlayerPick(list', IF current < 0 THEN 0 ELSE current)
    BY <1>3 DEF ForceCurrentFocus, PreSetup
  <2> DEFINE text == disk[PlayersDir].text
  <2>2. /\ unsaved' = FALSE
        /\ text = <<>> => list' = <<DriverX>> /\ todo' = SavePlayers(list')
        /\ text # <<>> => list' = text /\ todo' = <<>>
    BY <2>1, Zenon DEF LoadPlayers
  <2>3. IsList(list') /\ list' # <<>> /\ Len(list') \in Nat /\ DOMAIN list' = 1..Len(list')
    <3>1. IsList(<<DriverX>>) /\ <<DriverX>> # <<>>
      BY FileFacts DEF IsList
    <3>2. IsList(list') /\ list' # <<>>
      BY <1>1, <2>2, <3>1, Zenon
    <3> QED BY <3>2 DEF IsList
  <2>4. current >= 0 /\ ~hurt => list' = list
    <3> SUFFICES ASSUME current >= 0, ~hurt PROVE list' = list
      OBVIOUS
    <3>1. current < Len(list) /\ current \in Int /\ IsList(list) /\ ~unsaved
      BY DEF IInv, Types, PickMatches, SavedInv
    <3>2. list # <<>>
      BY <3>1, Empty
    <3>3. ~ \E k \in 1..Len(todo) : todo[k] = Close(PlayersDir, list)
      BY <1>1, Empty
    <3>4. text = list
      BY <3>1, <3>2, <3>3 DEF IInv, SavedInv
    <3> QED BY <2>2, <3>2, <3>4, Zenon
  <2>5. current' = (IF current < 0 THEN 0 ELSE current) /\ current' \in Int /\ current' >= -1
    BY <2>1 DEF SetPlayerPick, IInv, Types
  <2>6. PickMatches'
    <3>1. ASSUME current' >= 0, ~hurt' PROVE current' \in 0..(Len(list') - 1)
      <4>1. CASE current < 0
        BY <2>3, <2>5, <4>1
      <4>2. CASE ~(current < 0)
        BY <1>1, <2>3, <2>4, <2>5, <3>1, <4>2 DEF IInv, PickMatches
      <4> QED BY <4>1, <4>2
    <3>2. current' \in 0..(Len(list') - 1) => me' = <<list'[current' + 1]>>
      BY <2>1 DEF SetPlayerPick
    <3>3. current' \in 0..(Len(list') - 1) => current' < Len(list')
      BY <2>3
    <3> QED BY <3>1, <3>2, <3>3 DEF PickMatches
  <2>7. me' = <<>> \/ \E e \in Entry : me' = <<e>>
    <3>1. CASE current' \in 0..(Len(list') - 1)
      <4>1. current' + 1 \in 1..Len(list')
        BY <2>3, <3>1, OneUp
      <4>2. list'[current' + 1] \in Entry /\ me' = <<list'[current' + 1]>>
        BY <2>1, <2>3, <3>1, <4>1 DEF SetPlayerPick, IsList
      <4> QED BY <4>2
    <3>2. CASE ~(current' \in 0..(Len(list') - 1))
      BY <2>1, <3>2 DEF SetPlayerPick, IInv, Types
    <3> QED BY <3>1, <3>2
  <2>8. \A n \in DOMAIN list' : Made(list[n])' /\ (list'[n] = DriverX \/ list'[n].name = list'[n].file + 1)
    <3>1. CASE text = <<>>
      <4>1. list' = <<DriverX>>
        BY <2>2, <3>1
      <4>2. \A n \in DOMAIN list' : list'[n] = DriverX
        BY <4>1
      <4> QED BY <4>2 DEF Made
    <3>2. CASE text # <<>>
      <4>1. list' = text
        BY <2>2, <3>2
      <4>2. \A n \in DOMAIN text :
                Made(text[n]) /\ (text[n] = DriverX \/ text[n].name = text[n].file + 1)
        BY DEF IInv, MadeInv, FitsInv, Fits
      <4> QED BY <1>1, <4>1, <4>2 DEF Made
    <3> QED BY <3>1, <3>2
  <2>9. MadeInv' /\ FitsInv'
    BY <1>1, <2>8 DEF IInv, MadeInv, Made, FitsInv, Fits
  <2>10. CASE text = <<>>
    <3>1. /\ todo' \in Seq(Job) /\ Len(todo') = 2 /\ todo'[1] = Open(PlayersDir)
          /\ todo'[2] = Close(PlayersDir, list')
      <4>1. todo' = SavePlayers(list')
        BY <2>2, <2>10
      <4> QED BY <2>3, <4>1, SaveShape
    <3>2. Types'
      BY <1>1, <2>2, <2>3, <2>5, <2>7, <3>1 DEF IInv, Types
    <3>3. JobsInv' /\ SavedInv'
      BY <1>1, <2>2, <3>1, Saving
    <3> QED BY <2>6, <2>9, <3>2, <3>3 DEF IInv
  <2>11. CASE text # <<>>
    <3>1. todo' = <<>> /\ todo' \in Seq(Job) /\ list' = disk'[PlayersDir].text
      <4>1. todo' = <<>> /\ list' = text
        BY <2>2, <2>11
      <4> QED BY <1>1, <4>1, Empty
    <3>2. Types'
      BY <1>1, <2>2, <2>3, <2>5, <2>7, <3>1 DEF IInv, Types
    <3>3. JobsInv' /\ SavedInv'
      BY <2>2, <3>1, Empty DEF JobsInv, SavedInv
    <3> QED BY <2>6, <2>9, <3>2, <3>3 DEF IInv
  <2> QED BY <2>10, <2>11
<1> QED BY <1>2, <1>3

\* What is left of the jobs is as good as before: a piece of the sequence that
\* starts after an opened file only if what belongs to it goes as well.
Shifted(d, n) ==
    /\ todo' \in Seq(Job) /\ Len(todo') = n /\ n + d <= Len(todo)
    /\ \A k \in 1..n : todo'[k] = todo[k + d]
    /\ \A k \in 1..n : todo[k + d] = Open(PlayersDir) => k < n

LEMMA ShiftedJobs ==
    ASSUME IInv, NEW d \in Nat, d > 0, NEW n \in Nat, Shifted(d, n), UNCHANGED list
    PROVE  JobsInv'
<1>1. Len(todo) \in Nat
  BY DEF IInv, Types
<1> SUFFICES ASSUME NEW k \in 1..n
             PROVE  /\ todo'[k] = Open(PlayersDir) =>
                           k < n /\ todo'[k + 1] = Close(PlayersDir, list)
                    /\ \/ todo'[k].op = "open"
                       \/ todo'[k].file # PlayersDir
                       \/ todo'[k] = Close(PlayersDir, list)
                    /\ ~(todo'[k].op = "open" /\ todo'[k].file # PlayersDir)
                    /\ todo'[k].op = "open" => todo'[k] = Open(todo'[k].file)
  BY DEF Shifted, JobsInv
<1> DEFINE m == k + d
<1>2. m \in 1..Len(todo) /\ m # 1 /\ todo'[k] = todo[m]
  BY <1>1 DEF Shifted
<1>3. /\ todo[m] = Open(PlayersDir) => todo[m + 1] = Close(PlayersDir, list)
      /\ todo[m].op = "open" \/ todo[m].file # PlayersDir \/ todo[m] = Close(PlayersDir, list)
      /\ todo[m].op = "open" /\ todo[m].file # PlayersDir => m = 1
      /\ todo[m].op = "open" => todo[m] = Open(todo[m].file)
  <2> HIDE DEF m
  <2> QED BY <1>2 DEF IInv, JobsInv
<1>4. todo[m] = Open(PlayersDir) => k < n /\ todo'[k + 1] = todo[m + 1]
  <2>1. SUFFICES ASSUME todo[m] = Open(PlayersDir) PROVE k < n /\ todo'[k + 1] = todo[m + 1]
    OBVIOUS
  <2>2. k < n
    BY <2>1 DEF Shifted
  <2>3. k + 1 \in 1..n /\ (k + 1) + d = m + 1
    BY <2>2
  <2>4. todo'[k + 1] = todo[(k + 1) + d]
    BY <2>3 DEF Shifted
  <2> QED BY <2>2, <2>3, <2>4
<1> HIDE DEF m
<1> QED BY <1>2, <1>3, <1>4

LEMMA FileStepStep == ASSUME IInv, FileStep PROVE IInv'
<1> DEFINE s == todo[1]
<1>1. /\ todo \in Seq(Job) /\ todo # <<>> /\ Len(todo) \in Nat /\ Len(todo) > 0 /\ Head(todo) = s
      /\ UNCHANGED <<list, current, me, hurt, faults>>
  BY DEF IInv, Types, FileStep, memory
<1>2. Shifted(1, Len(todo) - 1)
  <2>1. /\ todo' \in Seq(Job) /\ Len(todo') = Len(todo) - 1
        /\ \A k \in 1..(Len(todo) - 1) : todo'[k] = todo[k + 1]
    BY <1>1 DEF FileStep
  <2>2. \A k \in 1..(Len(todo) - 1) : todo[k + 1] = Open(PlayersDir) => k + 1 < Len(todo)
    BY <1>1 DEF IInv, JobsInv
  <2> QED BY <1>1, <2>1, <2>2 DEF Shifted
<1>3. JobsInv'
  BY <1>1, <1>2, ShiftedJobs
<1>4. s \in Job /\ s.file \in File /\ s.text \in Text
  BY <1>1, Fields
<1>5. disk' = [disk EXCEPT ![s.file] = [there |-> TRUE, text |-> s.text]]
      /\ unsaved' = (unsaved /\ ~(s.file = PlayersDir /\ s.op = "close"))
  BY <1>1, Zenon DEF FileStep
<1>6. /\ s.file # PlayersDir => disk'[PlayersDir] = disk[PlayersDir]
      /\ s.file = PlayersDir => disk'[PlayersDir].text = s.text
      /\ disk'[s.file].there
      /\ \A f \in File : disk[f].there => disk'[f].there
      /\ disk' \in [File -> [there : BOOLEAN, text : Text]]
  BY <1>4, <1>5, FileFacts DEF IInv, Types
<1>7. s = Open(PlayersDir) \/ s = Close(PlayersDir, list) \/ s.file # PlayersDir
  BY <1>1, <1>4, Fields DEF IInv, JobsInv
<1>8. \/ s = Close(PlayersDir, list) /\ disk'[PlayersDir].text = list
      \/ s = Open(PlayersDir) /\ disk'[PlayersDir].text = <<>>
      \/ s.file # PlayersDir /\ disk'[PlayersDir].text = disk[PlayersDir].text
  BY <1>6, <1>7, Fields
<1>9. Types'
  <2>1. IsList(disk'[PlayersDir].text) /\ IsList(list')
    BY <1>1, <1>8, Empty DEF IInv, Types
  <2>2. unsaved' \in BOOLEAN
    BY <1>5
  <2> QED BY <1>1, <1>2, <1>6, <2>1, <2>2 DEF IInv, Types, Shifted
<1>10. SavedInv'
  <2>1. CASE s = Close(PlayersDir, list)
    <3>1. disk'[PlayersDir].text = list'
      BY <1>1, <1>8, <2>1, Fields
    <3>2. ~unsaved'
      <4>1. s.file = PlayersDir /\ s.op = "close"
        BY <2>1, Fields
      <4> QED BY <1>5, <4>1, Zenon
    <3> QED BY <3>1, <3>2 DEF SavedInv
  <2>2. CASE s # Close(PlayersDir, list)
    <3>1. unsaved' = unsaved
      BY <1>5, <1>7, <2>2, Fields DEF IInv, Types
    <3>2. SUFFICES ASSUME list # <<>>, ~unsaved, disk'[PlayersDir].text # list
                   PROVE  \E k \in 1..Len(todo') : todo'[k] = Close(PlayersDir, list)
      BY <1>1, <3>1 DEF IInv, SavedInv
    <3>3. PICK k \in 1..Len(todo) : todo[k] = Close(PlayersDir, list)
      <4>1. CASE s = Open(PlayersDir)
        BY <1>1, <4>1 DEF IInv, JobsInv
      <4>2. CASE s # Open(PlayersDir)
        BY <1>8, <2>2, <3>2, <4>2 DEF IInv, SavedInv
      <4> QED BY <4>1, <4>2
    <3>4. k # 1
      BY <2>2, <3>3
    <3>5. k - 1 \in 1..(Len(todo) - 1) /\ (k - 1) + 1 = k
      BY <1>1, <3>4
    <3> QED BY <1>2, <3>3, <3>5 DEF Shifted
  <2> QED BY <2>1, <2>2
<1>11. PickMatches'
  BY <1>1 DEF IInv, PickMatches
<1>12. MadeInv' /\ FitsInv'
  <2>1. ASSUME NEW e \in Entry, Made(e) PROVE e = DriverX \/ disk'[e.file].there \/ faults' > 0
    <3>1. e.file \in File
      BY FileFacts DEF Entry, File, PlayersDir
    <3> QED BY <1>1, <1>6, <2>1, <3>1 DEF Made
  <2>2. ASSUME NEW n \in DOMAIN list
        PROVE  list[n] = DriverX \/ disk'[list[n].file].there \/ faults' > 0
    <3>1. list[n] \in Entry
      BY <2>2 DEF IInv, Types, IsList
    <3>2. CASE Made(list[n])
      BY <2>1, <3>1, <3>2
    <3>3. CASE s = Open(list[n].file)
      BY <1>6, <3>3, Fields
    <3> QED BY <1>1, <3>2, <3>3 DEF IInv, MadeInv
  <2>3. ASSUME NEW n \in DOMAIN disk'[PlayersDir].text, NEW e, e = disk'[PlayersDir].text[n]
        PROVE  /\ e = DriverX \/ disk'[e.file].there \/ faults' > 0
               /\ e = DriverX \/ e.name = e.file + 1
    <3>1. CASE disk'[PlayersDir].text = list
      BY <2>2, <2>3, <3>1 DEF IInv, FitsInv, Fits
    <3>2. CASE disk'[PlayersDir].text = <<>>
      BY <2>3, <3>2, Empty
    <3>3. CASE disk'[PlayersDir].text = disk[PlayersDir].text
      <4>1. e \in Entry /\ Made(e) /\ (e = DriverX \/ e.name = e.file + 1)
        BY <2>3, <3>3 DEF IInv, Types, IsList, MadeInv, FitsInv, Fits
      <4> QED BY <2>1, <4>1
    <3> QED BY <1>8, <3>1, <3>2, <3>3
  <2> QED BY <1>1, <2>2, <2>3 DEF IInv, MadeInv, Made, FitsInv, Fits
<1> QED BY <1>3, <1>9, <1>10, <1>11, <1>12 DEF IInv

LEMMA FileFaultStep == ASSUME IInv, FileFault PROVE IInv'
<1> DEFINE s == todo[1]
<1>1. /\ todo \in Seq(Job) /\ todo # <<>> /\ Len(todo) \in Nat /\ Len(todo) > 0 /\ Head(todo) = s
      /\ UNCHANGED <<list, current, me, disk>> /\ faults \in Nat /\ faults' = faults + 1
  BY DEF IInv, Types, FileFault, memory
<1>2. /\ \/ s.op = "close" /\ todo' = Tail(todo)
         \/ s.op = "open" /\ s.file = PlayersDir /\ todo' = Tail(Tail(todo))
         \/ s.op = "open" /\ s.file # PlayersDir /\ todo' = Front(Tail(todo))
      /\ unsaved' = (unsaved \/ s.file = PlayersDir)
      /\ hurt' = (hurt \/ s.file = PlayersDir)
  BY <1>1, Zenon DEF FileFault
<1>3. \A k \in 1..Len(todo) : todo[k] = Open(PlayersDir) => k < Len(todo)
  BY DEF IInv, JobsInv
<1>4. \E d \in {1, 2}, n \in {Len(todo) - 2, Len(todo) - 1} :
          Shifted(d, n) /\ (s.file # PlayersDir => d = 1 /\ (n = Len(todo) - 1 \/
                                                    todo[Len(todo)].file # PlayersDir))
  <2>1. CASE s.op = "close" /\ todo' = Tail(todo)
    <3>1. /\ todo' \in Seq(Job) /\ Len(todo') = Len(todo) - 1
          /\ \A k \in 1..(Len(todo) - 1) : todo'[k] = todo[k + 1]
      BY <1>1, <2>1
    <3>2. Shifted(1, Len(todo) - 1)
      BY <1>1, <1>3, <3>1 DEF Shifted
    <3> QED BY <3>2
  <2>2. CASE s.op = "open" /\ s.file = PlayersDir /\ todo' = Tail(Tail(todo))
    <3>1. Len(todo) > 1
      BY <1>1, <1>3, <2>2, Fields DEF IInv, JobsInv
    <3>2. /\ Tail(todo) \in Seq(Job) /\ Len(Tail(todo)) = Len(todo) - 1
          /\ \A k \in 1..(Len(todo) - 1) : Tail(todo)[k] = todo[k + 1]
      BY <1>1
    <3> DEFINE t == Tail(todo)
    <3>3. t \in Seq(Job) /\ Len(t) = Len(todo) - 1 /\ todo' = Tail(t)
          /\ \A k \in 1..(Len(todo) - 1) : t[k] = todo[k + 1]
      BY <2>2, <3>2
    <3> HIDE DEF t
    <3>4. /\ todo' \in Seq(Job) /\ Len(todo') = Len(todo) - 2
          /\ \A k \in 1..(Len(todo) - 2) : todo'[k] = t[k + 1]
      BY <1>1, <3>1, <3>3
    <3>5. \A k \in 1..(Len(todo) - 2) : todo'[k] = todo[k + 2]
      BY <1>1, <3>3, <3>4
    <3>6. Shifted(2, Len(todo) - 2)
      BY <1>1, <1>3, <3>1, <3>4, <3>5 DEF Shifted
    <3> QED BY <2>2, <3>6
  <2>3. CASE s.op = "open" /\ s.file # PlayersDir /\ todo' = Front(Tail(todo))
    <3>1. Len(todo) > 1 /\ todo[Len(todo)].file # PlayersDir
      BY <1>1, <2>3 DEF IInv, JobsInv
    <3>2. /\ Tail(todo) \in Seq(Job) /\ Len(Tail(todo)) = Len(todo) - 1
          /\ \A k \in 1..(Len(todo) - 1) : Tail(todo)[k] = todo[k + 1]
      BY <1>1
    <3> DEFINE t == Tail(todo)
    <3>3. t \in Seq(Job) /\ Len(t) = Len(todo) - 1 /\ todo' = Front(t)
          /\ \A k \in 1..(Len(todo) - 1) : t[k] = todo[k + 1]
      BY <2>3, <3>2
    <3> HIDE DEF t
    <3>4. /\ todo' \in Seq(Job) /\ Len(todo') = Len(todo) - 2
          /\ \A k \in 1..(Len(todo) - 2) : todo'[k] = t[k]
      <4>1. todo' = SubSeq(t, 1, Len(t) - 1)
        BY <3>3 DEF Front
      <4>2. \A k \in 1..(Len(todo) - 2) : t[k] \in Job
        BY <1>1, <3>3
      <4> QED BY <1>1, <3>1, <3>3, <4>1, <4>2, SubSeqProperties
    <3>5. ASSUME NEW k \in 1..(Len(todo) - 2) PROVE todo'[k] = todo[k + 1]
      <4>1. todo'[k] = t[k] /\ k \in 1..(Len(todo) - 1)
        BY <1>1, <3>4
      <4> QED BY <3>3, <4>1
    <3>6. ASSUME NEW k \in 1..(Len(todo) - 2), todo[k + 1] = Open(PlayersDir)
          PROVE  k < Len(todo) - 2
      <4>1. k + 1 \in 1..Len(todo) /\ todo[(k + 1) + 1] = Close(PlayersDir, list)
        BY <1>1, <3>6 DEF IInv, JobsInv
      <4>2. (k + 1) + 1 # Len(todo)
        BY <3>1, <4>1, Fields
      <4> QED BY <1>1, <4>2
    <3>7. Shifted(1, Len(todo) - 2)
      <4>1. todo' \in Seq(Job) /\ Len(todo') = Len(todo) - 2 /\ (Len(todo) - 2) + 1 <= Len(todo)
        BY <1>1, <3>4
      <4> QED BY <3>5, <3>6, <4>1, Zenon DEF Shifted
    <3> QED BY <3>1, <3>7
  <2> QED BY <1>2, <2>1, <2>2, <2>3
<1>5. PICK d \in {1, 2}, n \in {Len(todo) - 2, Len(todo) - 1} :
          Shifted(d, n) /\ (s.file # PlayersDir => d = 1 /\ (n = Len(todo) - 1 \/
                                                    todo[Len(todo)].file # PlayersDir))
  BY <1>4
<1>6. d \in Nat /\ d > 0 /\ n \in Nat /\ Len(todo') = n
  <2>1. n \in Int /\ Len(todo') = n /\ todo' \in Seq(Job)
    BY <1>1, <1>5 DEF Shifted
  <2> QED BY <1>5, <2>1
<1>7. JobsInv'
  BY <1>1, <1>5, <1>6, ShiftedJobs
<1>8. /\ unsaved' \in BOOLEAN /\ hurt' \in BOOLEAN /\ (unsaved' => hurt') /\ (hurt => hurt')
      /\ s.file = PlayersDir => unsaved'
      /\ s.file # PlayersDir => unsaved' = unsaved
  BY <1>2 DEF IInv, Types, SavedInv
<1>9. Types'
  BY <1>1, <1>5, <1>8 DEF IInv, Types, Shifted
<1>10. SavedInv'
  <2> SUFFICES ASSUME ~unsaved', list # <<>>, disk[PlayersDir].text # list
               PROVE  \E k \in 1..Len(todo') : todo'[k] = Close(PlayersDir, list)
    BY <1>1, <1>8 DEF SavedInv
  <2>1. s.file # PlayersDir /\ ~unsaved
    BY <1>8
  <2>2. PICK k \in 1..Len(todo) : todo[k] = Close(PlayersDir, list)
    BY <2>1 DEF IInv, SavedInv
  <2>3. k # 1 /\ (k = Len(todo) => n = Len(todo) - 1) /\ d = 1
    BY <1>5, <2>1, <2>2, Fields
  <2>4. k - 1 \in 1..n /\ (k - 1) + d = k
    BY <1>1, <1>5, <2>3
  <2> QED BY <1>5, <1>6, <2>2, <2>4 DEF Shifted
<1>11. PickMatches'
  BY <1>1, <1>8 DEF IInv, PickMatches
<1>12. MadeInv'
  <2>1. faults' > 0
    BY <1>1
  <2> QED BY <2>1 DEF MadeInv, Made
<1>13. FitsInv'
  BY <1>1 DEF IInv, FitsInv, Fits
<1> QED BY <1>7, <1>9, <1>10, <1>11, <1>12, <1>13 DEF IInv
-----------------------------------------------------------------------------
(* The theorems *)

LEMMA Step == ASSUME IInv, [Next]_vars PROVE IInv'
<1>1. CASE ShowMain \/ PressMenu \/ PressNav \/ UNCHANGED vars
  <2>1. UNCHANGED files
    BY <1>1 DEF ShowMain, PressMenu, PressNav, Button, KeepFiles, vars, memory, files
  <2> QED BY <2>1, Frame
<1>2. CASE NewPlayer
  BY <1>2, NewPlayerStep
<1>3. CASE DeleteCB
  BY <1>3, DeleteCBStep
<1>4. CASE StepPlayer(1) \/ StepPlayer(-1)
  BY <1>4, StepPlayerStep
<1>5. CASE ForceCurrentFocus
  BY <1>5, ForceCurrentFocusStep
<1>6. CASE FileStep
  BY <1>6, FileStepStep
<1>7. CASE FileFault
  BY <1>7, FileFaultStep
<1>8. CASE Restart
  BY <1>8, RestartStep
<1> QED BY <1>1, <1>2, <1>3, <1>4, <1>5, <1>6, <1>7, <1>8 DEF Next

LEMMA Invariant == Spec => []IInv
<1>1. IInv /\ [Next]_vars => IInv'
  BY Step
<1> QED BY <1>1, InitStep, PTL DEF Spec

\* However many drivers are added, deleted and picked, and wherever the program
\* ends or a file fails: players.dir holds the list whenever no handler runs and
\* the last save of it went well.
THEOREM DriversAreDurable == Spec => []Durable
<1>1. IInv => Durable
  BY Empty DEF IInv, SavedInv, Durable
<1> QED BY <1>1, Invariant, PTL

\* MMCURRPLAYER is the driver at current_player_, for any MAX_PLAYERS.
THEOREM PickIsInTheList == Spec => []PickMatches
<1>1. IInv => PickMatches
  BY DEF IInv
<1> QED BY <1>1, Invariant, PTL

\* No driver is in players.dir before its .sav was created.
THEOREM SavComesFirst == Spec => []SavBeforeList
<1>1. IInv => SavBeforeList
  BY DEF IInv, MadeInv, Made, SavBeforeList
<1> QED BY <1>1, Invariant, PTL

\* Names repeat and files repeat, always together.
THEOREM NamesAndFiles == Spec => []NamesGoWithFiles
<1>1. IInv => NamesGoWithFiles
  BY DEF IInv, FitsInv, Fits, NamesGoWithFiles
<1> QED BY <1>1, Invariant, PTL

\* Every entry of the list stands for a driver with a file of its name that was
\* made before players.dir could name it, wherever the program ends.
THEOREM EntriesStandForDrivers == Spec => []EntriesAreSound
BY SavComesFirst, NamesAndFiles, PTL DEF EntriesAreSound
-----------------------------------------------------------------------------
(* The way back *)

\* Until the front end is there no menu was entered.  After that every menu
\* that was, the main menu excepted, has a way back, and a set of menus that
\* PREV does not lead out of contains the main menu, if one of them is in it.
WayInv ==
    /\ active \in Menus \cup {None} /\ prev \in [Menus -> Menus \cup {None}]
    /\ next \in Asked
    /\ phase \in {"boot", "input", "nav", "update"} /\ (phase = "boot" <=> active = None)
    /\ phase = "boot" => next = None /\ \A m \in Menus : prev[m] = None
    /\ active # None => active = "main" \/ prev[active] # None
    /\ \A S \in SUBSET Menus, m \in Menus :
          NoWayOut(S) /\ m \in S /\ prev[m] # None => "main" \in S

\* Entering a menu gives it a way back to one that has one, or keeps it.
LEMMA SwitchWay ==
    ASSUME WayInv, NEW id, SwitchNow(id), active # None \/ id = "main"
    PROVE  /\ active' \in Menus \cup {None} /\ prev' \in [Menus -> Menus \cup {None}]
           /\ active # None => active' # None
           /\ active' # None => active' = "main" \/ prev'[active'] # None
           /\ \A S \in SUBSET Menus, m \in Menus :
                 NoWayOut(S)' /\ m \in S /\ prev'[m] # None => "main" \in S
<1>1. CASE ~Entered(id)
  BY <1>1 DEF SwitchNow, WayInv, NoWayOut
<1>2. CASE Entered(id)
  <2>1. /\ id \in Menus /\ active' = id /\ id # None
        /\ prev' = [prev EXCEPT ![id] = IF prev[id] = None THEN active ELSE prev[id]]
        /\ prev \in [Menus -> Menus \cup {None}] /\ active \in Menus \cup {None}
    BY <1>2, MenusAssumption DEF SwitchNow, Entered, Remembered, WayInv
  <2>2. prev' \in [Menus -> Menus \cup {None}]
        /\ (id = "main" \/ prev'[id] # None)
    BY <2>1
  <2>3. ASSUME NEW S \in SUBSET Menus, NEW m \in Menus, NoWayOut(S)', m \in S, prev'[m] # None
        PROVE  "main" \in S
    <3>1. NoWayOut(S)
      BY <2>1, <2>3 DEF NoWayOut
    <3>2. CASE prev[m] # None
      BY <2>3, <3>1, <3>2 DEF WayInv
    <3>3. CASE prev[m] = None
      <4>1. m = id /\ active \in Menus /\ active \in S
        BY <2>1, <2>3, <3>3 DEF NoWayOut
      <4>2. active = "main" \/ prev[active] # None
        BY <4>1, MenusAssumption DEF WayInv
      <4> QED BY <3>1, <4>1, <4>2 DEF WayInv
    <3> QED BY <3>2, <3>3
  <2> QED BY <2>1, <2>2, <2>3
<1> QED BY <1>1, <1>2

LEMMA WayStep == ASSUME WayInv, [Next]_vars PROVE WayInv'
<1>1. CASE ShowMain
  <2>1. SwitchNow("main") /\ phase = "boot" /\ phase' = "input" /\ next' = next
    BY <1>1 DEF ShowMain, Button
  <2>2. active = None /\ "main" \in Menus /\ None \notin Menus
    BY <2>1, MenusAssumption DEF WayInv
  <2>3. active' = "main"
    BY <2>1, <2>2 DEF SwitchNow, Entered
  <2> QED BY <2>1, <2>2, <2>3, SwitchWay DEF WayInv
<1>2. CASE ForceCurrentFocus
  <2>1. SwitchNow(next) /\ phase = "update" /\ phase' = "input" /\ next' = None
    BY <1>2 DEF ForceCurrentFocus, Button
  <2>2. active # None
    BY <2>1 DEF WayInv
  <2>3. None \in Asked
    BY DEF Asked
  <2> QED BY <2>1, <2>2, <2>3, SwitchWay DEF WayInv
<1>3. CASE Restart
  <2>1. None \in Asked
    BY DEF Asked
  <2> QED BY <1>3, <2>1 DEF Restart, WayInv
<1>4. CASE PressMenu \/ NewPlayer \/ DeleteCB \/ StepPlayer(1) \/ StepPlayer(-1) \/ PressNav
  <2>1. /\ active' = active /\ prev' = prev /\ phase # "boot" /\ phase' \in {"nav", "update"}
        /\ active \in Menus /\ prev[active] \in Menus \cup {None}
    BY <1>4 DEF PressMenu, NewPlayer, DeleteCB, StepPlayer, PressNav, KeepMenu, Button, WayInv
  <2>2. next' \in Asked
    <3>1. CASE PressMenu
      <4>1. next' \in Targets(active) \cup {next} /\ next \in Asked /\ "main" \in Menus
        BY <3>1, MenusAssumption DEF PressMenu, PressButton, WayInv
      <4>2. CASE active = "quit"
        <5>1. Targets(active) = {Back(active)} /\ Back(active) \in Menus
          BY <2>1, <4>1, <4>2 DEF Targets, Back
        <5> QED BY <4>1, <5>1 DEF Asked
      <4>3. CASE active # "quit"
        BY <2>1, <4>1, <4>3 DEF Targets, Asked
      <4> QED BY <4>2, <4>3
    <3>2. CASE PressNav
      BY <2>1, <3>2 DEF PressNav, PressNavBar, WayInv, Asked
    <3>3. CASE NewPlayer
      BY <2>1, <3>3 DEF NewPlayer, Asked
    <3>4. CASE DeleteCB \/ StepPlayer(1) \/ StepPlayer(-1)
      BY <3>4 DEF DeleteCB, StepPlayer, WayInv
    <3> QED BY <1>4, <3>1, <3>2, <3>3, <3>4
  <2> QED BY <2>1, <2>2 DEF WayInv, NoWayOut
<1>5. CASE FileStep \/ FileFault \/ UNCHANGED vars
  BY <1>5 DEF FileStep, FileFault, vars, menuVars, WayInv, NoWayOut
<1> QED BY <1>1, <1>2, <1>3, <1>4, <1>5 DEF Next

LEMMA WayBack == Spec => []WayInv
<1>1. Init => WayInv
  BY MenusAssumption DEF Init, MenuInit, WayInv, Asked
<1>2. WayInv /\ [Next]_vars => WayInv'
  BY WayStep
<1> QED BY <1>1, <1>2, PTL DEF Spec

\* From every menu, in any set of menus and after any walk through them, PREV
\* leads back to the main menu.
THEOREM EveryWayEndsInMain == Spec => []BackReachesMain
<1>1. WayInv => BackReachesMain
  <2> SUFFICES ASSUME WayInv, active # None,
                      NEW S \in SUBSET Menus, active \in S, NoWayOut(S)
               PROVE  "main" \in S
    BY MenusAssumption DEF BackReachesMain, Trail
  <2> QED BY DEF WayInv
<1> QED BY <1>1, WayBack, PTL
-----------------------------------------------------------------------------
(* Types *)

\* The bounds that the other invariant does not need.
BoundsInv ==
    /\ current < MaxPlayers /\ Len(todo) <= 4 /\ faults <= MaxFaults
    /\ \A f \in File : disk[f].there \/ disk[f].text = <<>>

LEMMA BoundsStep == ASSUME IInv, IInv', BoundsInv, [Next]_vars PROVE BoundsInv'
<1>1. /\ Types /\ Types' /\ Len(todo) \in Nat /\ MaxPlayers \in Nat /\ MaxPlayers > 0
      /\ Len(list) \in Nat /\ IsList(list) /\ current \in Int
  BY DriversAssumption DEF IInv, Types, IsList
<1>2. CASE ShowMain \/ PressMenu \/ PressNav \/ UNCHANGED vars
  BY <1>2 DEF ShowMain, PressMenu, PressNav, KeepFiles, vars, memory, BoundsInv
<1>3. CASE NewPlayer
  <2>1. /\ current' = current /\ faults' = faults /\ disk' = disk
        /\ \/ todo' = <<>>
           \/ Len(list) < MaxPlayers
              /\ todo' = AddFiles(NewEntry(list), Append(list, NewEntry(list)))
    BY <1>1, <1>3 DEF NewPlayer, KeepFiles
  <2>2. Len(list) < MaxPlayers => Len(AddFiles(NewEntry(list), Append(list, NewEntry(list)))) = 4
    <3> SUFFICES ASSUME Len(list) < MaxPlayers
                 PROVE  Len(AddFiles(NewEntry(list), Append(list, NewEntry(list)))) = 4
      OBVIOUS
    <3>1. NewEntry(list) \in Entry
      BY <1>1 DEF NewEntry, Entry
    <3>2. IsList(Append(list, NewEntry(list)))
      BY <1>1, <3>1 DEF IsList
    <3> QED BY <3>1, <3>2, AddShape
  <2>3. Len(todo') <= 4
    <3>1. CASE todo' = <<>>
      <4>1. Len(todo') = 0
        BY <3>1, Empty, Zenon
      <4> QED BY <4>1
    <3>2. CASE todo' # <<>>
      <4>1. Len(todo') = 4
        BY <2>1, <2>2, <3>2, Zenon
      <4> QED BY <4>1
    <3> QED BY <3>1, <3>2
  <2> QED BY <2>1, <2>3 DEF BoundsInv
<1>4. CASE DeleteCB
  <2>1. faults' = faults /\ disk' = disk
    BY <1>4 DEF DeleteCB, KeepFiles
  <2>2. CASE ~(Len(list) > 1 /\ current \in 0..(Len(list) - 1))
    BY <1>4, <2>1, <2>2 DEF DeleteCB, memory, BoundsInv
  <2>3. CASE Len(list) > 1 /\ current \in 0..(Len(list) - 1)
    <3>1. list' = Removed(list, list[current + 1].name) /\ todo' = SavePlayers(list')
          /\ current' = Clamped(current, list')
      BY <1>4, <2>3 DEF DeleteCB, RemoveFiles, SetPlayerPick
    <3>2. IsList(list') /\ Len(list') \in Nat
      BY <1>1 DEF Types, IsList
    <3>3. Len(todo') = 2
      BY <3>1, <3>2, SaveShape
    <3>4. current' < MaxPlayers
      BY <1>1, <3>1, <3>2 DEF Clamped, IsList, BoundsInv
    <3> QED BY <2>1, <3>3, <3>4 DEF BoundsInv
  <2> QED BY <2>2, <2>3
<1>5. ASSUME NEW d \in {1, -1}, StepPlayer(d) PROVE BoundsInv'
  <2>1. /\ current' = (current + d + Len(list)) % Len(list) /\ Len(list) > 0
        /\ UNCHANGED <<todo, disk, faults>>
    BY <1>1, <1>5 DEF StepPlayer, KeepFiles, SetPlayerPick
  <2>2. current' < Len(list) /\ current' \in Int
    BY <1>1, <2>1
  <2> QED BY <1>1, <2>1, <2>2 DEF BoundsInv, IsList
<1>6. CASE ForceCurrentFocus
  <2>1. faults' = faults /\ disk' = disk
    BY <1>6 DEF ForceCurrentFocus
  <2>2. CASE ~(Entered(next) /\ next = "driver")
    BY <1>6, <2>1, <2>2 DEF ForceCurrentFocus, memory, BoundsInv
  <2>3. CASE Entered(next) /\ next = "driver"
    <3>1. /\ current' = (IF current < 0 THEN 0 ELSE current)
          /\ todo' = <<>> \/ todo' = SavePlayers(list')
      BY <1>6, <2>3 DEF ForceCurrentFocus, PreSetup, LoadPlayers, SetPlayerPick
    <3>2. Len(todo') <= 4
      <4>1. CASE todo' = <<>>
        <5>1. Len(todo') = 0
          BY <4>1, Empty, Zenon
        <5> QED BY <5>1
      <4>2. CASE todo' = SavePlayers(list')
        <5>1. IsList(list')
          BY <1>1, Zenon DEF Types
        <5>2. Len(todo') = 2
          BY <4>2, <5>1, SaveShape, Zenon
        <5> QED BY <5>2
      <4> QED BY <3>1, <4>1, <4>2
    <3> QED BY <1>1, <2>1, <3>1, <3>2 DEF BoundsInv
  <2> QED BY <2>2, <2>3
<1>7. CASE FileStep
  <2>1. /\ UNCHANGED <<current, faults>> /\ todo # <<>> /\ todo' = Tail(todo)
        /\ \E j : disk' = [disk EXCEPT ![j.file] = [there |-> TRUE, text |-> j.text]]
    BY <1>7 DEF FileStep, memory
  <2>2. Len(todo') = Len(todo) - 1
    BY <1>1, <2>1 DEF Types
  <2>3. \A f \in File : disk'[f].there \/ disk'[f].text = <<>>
    <3>1. PICK j : disk' = [disk EXCEPT ![j.file] = [there |-> TRUE, text |-> j.text]]
      BY <2>1
    <3>2. disk \in [File -> [there : BOOLEAN, text : Text]]
      BY <1>1 DEF Types
    <3>3. \A f \in File : disk'[f] = disk[f] \/ disk'[f] = [there |-> TRUE, text |-> j.text]
      BY <3>1, <3>2
    <3> QED BY <3>3 DEF BoundsInv
  <2> QED BY <1>1, <2>1, <2>2, <2>3 DEF BoundsInv
<1>8. CASE FileFault
  <2>1. /\ UNCHANGED <<current, disk>> /\ faults' = faults + 1 /\ faults < MaxFaults
        /\ todo # <<>>
        /\ \/ todo' = Tail(todo) \/ todo' = Tail(Tail(todo)) \/ todo' = Front(Tail(todo))
    BY <1>8, Zenon DEF FileFault, memory
  <2>2. Len(todo') <= Len(todo)
    <3>1. PICK t : t = Tail(todo)
      OBVIOUS
    <3>2. t \in Seq(Job) /\ Len(t) = Len(todo) - 1 /\ Len(t) \in Nat
      BY <1>1, <2>1, <3>1 DEF Types
    <3>3. Len(Tail(t)) <= Len(todo)
      <4>1. CASE t = <<>>
        BY <1>1, <2>1, <3>1, <3>2, <4>1 DEF Types
      <4>2. CASE t # <<>>
        BY <1>1, <3>2, <4>2
      <4> QED BY <4>1, <4>2
    <3>4. Len(Front(t)) <= Len(todo)
      BY <1>1, <3>2 DEF Front
    <3>5. Len(t) <= Len(todo)
      BY <1>1, <3>2
    <3>6. todo' = t \/ todo' = Tail(t) \/ todo' = Front(t)
      BY <2>1, <3>1
    <3> QED BY <3>3, <3>4, <3>5, <3>6
  <2>3. faults' <= MaxFaults
    BY <1>1, <2>1, DriversAssumption DEF Types
  <2>4. Len(todo') <= 4
    BY <1>1, <2>2 DEF BoundsInv, Types
  <2> QED BY <2>1, <2>3, <2>4 DEF BoundsInv
<1>9. CASE Restart
  BY <1>1, <1>9, Empty DEF Restart, BoundsInv
<1> QED BY <1>2, <1>3, <1>4, <1>5, <1>6, <1>7, <1>8, <1>9 DEF Next

\* Every variable of Drivers and Menus keeps a value of its type: the list and
\* the one on disk within MAX_PLAYERS, every number within the list, and the
\* menu that is asked for one that some button leads to.
THEOREM DriversTypes == Spec => []DriversTypeOK
<1>1. Init => BoundsInv
  <2> SUFFICES ASSUME Init PROVE BoundsInv
    OBVIOUS
  <2>1. current = -1 /\ faults = 0 /\ Len(todo) = 0
    BY Empty, Zenon DEF Init
  <2>2. \A f \in File : disk[f].there \/ disk[f].text = <<>>
    BY DEF Init, File
  <2> QED BY <2>1, <2>2, DriversAssumption DEF BoundsInv
<1>2. IInv /\ IInv' /\ BoundsInv /\ [Next]_vars => BoundsInv'
  BY BoundsStep
<1>3. Spec => []BoundsInv
  BY <1>1, <1>2, Invariant, PTL DEF Spec
<1>4. IInv /\ BoundsInv /\ WayInv /\ OneMenuEnabled => DriversTypeOK
  <2> SUFFICES ASSUME IInv, BoundsInv, WayInv, OneMenuEnabled PROVE DriversTypeOK
    OBVIOUS
  <2>1. Types
    BY DEF IInv
  <2>2. MenuTypeOK
    BY MenusAssumption DEF WayInv, OneMenuEnabled, MenuTypeOK
  <2>3. ASSUME NEW l, IsList(l) PROVE l \in Lists
    <3>1. Len(l) \in 0..MaxPlayers /\ l \in [1..Len(l) -> Entry]
      BY <2>3, DriversAssumption DEF IsList
    <3> QED BY <3>1 DEF Lists
  <2>4. me = <<>> \/ (Len(me) = 1 /\ me[1] \in Entry)
    BY <2>1 DEF Types
  <2>5. \A f \in DOMAIN disk : disk[f].there \/ disk[f].text = <<>>
    BY <2>1 DEF Types, BoundsInv
  <2>6. current \in -1..(MaxPlayers - 1) /\ faults \in 0..MaxFaults /\ Len(todo) <= 4
    BY <2>1, DriversAssumption DEF Types, BoundsInv
  <2>7. phase \in {"boot", "input", "nav", "update"}
    BY DEF WayInv
  <2> QED BY <2>1, <2>2, <2>3, <2>4, <2>5, <2>6, <2>7 DEF Types, DriversTypeOK
<1> QED BY <1>3, <1>4, Invariant, WayBack, MenusAlone, PTL
-----------------------------------------------------------------------------
(* The driver that is deleted *)

\* Without the entry at n a list has every entry as often as before, but that one.
LEMMA CountWithout ==
    ASSUME NEW l, IsList(l), NEW n \in 1..Len(l), NEW r, IsList(r), Len(r) = Len(l) - 1,
           \A i \in 1..(Len(l) - 1) : r[i] = l[Past(n, i)], NEW e
    PROVE  Count(r, e) = Count(l, e) - (IF l[n] = e THEN 1 ELSE 0)
<1> DEFINE I == {i \in 1..(Len(l) - 1) : r[i] = e}
           J == {j \in 1..Len(l) : l[j] = e}
           f == [i \in I |-> Past(n, i)]
<1>1. Len(l) \in Nat /\ DOMAIN l = 1..Len(l) /\ DOMAIN r = 1..(Len(l) - 1)
  BY DEF IsList
<1>2. IsFiniteSet(1..(Len(l) - 1)) /\ IsFiniteSet(1..Len(l))
  BY <1>1, FS_Interval
<1>3. IsFiniteSet(I) /\ IsFiniteSet(J)
  BY <1>2, FS_Subset
<1>4. f \in Bijection(I, J \ {n})
  <2>1. ASSUME NEW i \in I PROVE Past(n, i) \in J \ {n}
    BY <1>1 DEF Past
  <2>2. ASSUME NEW i \in I, NEW j \in I, Past(n, i) = Past(n, j) PROVE i = j
    BY <1>1, <2>2 DEF Past
  <2>3. ASSUME NEW j \in J \ {n} PROVE \E i \in I : Past(n, i) = j
    <3>1. CASE j < n
      BY <1>1, <3>1 DEF Past
    <3>2. CASE j > n
      <4>1. j - 1 \in 1..(Len(l) - 1) /\ Past(n, j - 1) = j
        BY <1>1, <3>2 DEF Past
      <4> QED BY <4>1
    <3> QED BY <1>1, <3>1, <3>2
  <2> HIDE DEF I, J
  <2>4. f \in [I -> J \ {n}] /\ \A i \in I : f[i] = Past(n, i)
    BY <2>1
  <2> QED BY <2>2, <2>3, <2>4, Fun_IsBij
<1>5. Cardinality(J \ {n}) = Cardinality(I)
  BY <1>3, <1>4, FS_Bijection DEF ExistsBijection
<1>6. Cardinality(J \ {n}) = Cardinality(J) - (IF l[n] = e THEN 1 ELSE 0)
  <2>1. n \in J <=> l[n] = e
    OBVIOUS
  <2> HIDE DEF J
  <2>2. Cardinality(J \ {n}) = IF n \in J THEN Cardinality(J) - 1 ELSE Cardinality(J)
    BY <1>3, FS_RemoveElement
  <2>3. Cardinality(J) \in Nat
    BY <1>3, FS_CardinalityType
  <2> QED BY <2>1, <2>2, <2>3
<1> QED BY <1>1, <1>5, <1>6 DEF Count

\* Whatever names repeat, what DeleteCB takes out of the list is the driver that
\* is picked, once.
THEOREM DeleteTakesOne == Spec => DeleteTakesThePicked
<1> DEFINE Safe == DeleteCB /\ list' # list /\ ~hurt =>
                      \A e \in Entry : Count(list', e) = Count(list, e) - Count(me, e)
<1>1. ASSUME IInv PROVE Safe
  <2> SUFFICES ASSUME DeleteCB, list' # list, ~hurt, NEW e \in Entry
               PROVE  Count(list', e) = Count(list, e) - Count(me, e)
    OBVIOUS
  <2> DEFINE k == current + 1
  <2>1. /\ IsList(list) /\ k \in 1..Len(list) /\ list' = Removed(list, list[k].name)
        /\ me = <<list[k]>> /\ list[k] \in Entry
    <3>1. /\ IsList(list) /\ current \in 0..(Len(list) - 1)
          /\ list' = Removed(list, list[current + 1].name)
      BY <1>1 DEF DeleteCB, SetPlayerPick, memory, IInv, Types
    <3>2. k \in 1..Len(list) /\ list[k] \in Entry
      BY <3>1 DEF IsList
    <3>3. me = <<list[k]>>
      <4>1. PickMatches /\ current >= 0 /\ Len(list) \in Nat
        BY <1>1, <3>1 DEF IInv, IsList
      <4> QED BY <4>1 DEF PickMatches
    <3> QED BY <3>1, <3>2, <3>3
  <2> HIDE DEF k
  <2>2. PICK n \in 1..Len(list) :
           /\ list[n].name = list[k].name
           /\ IsList(list') /\ Len(list') = Len(list) - 1
           /\ \A i \in 1..(Len(list) - 1) : list'[i] = list[Past(n, i)]
    BY <2>1, RemovedIs, Zenon
  <2>3. list[n] = list[k]
    <3>1. list[n] \in Entry /\ list[k] \in Entry
      BY <2>1 DEF IsList
    <3>2. /\ list[n] = DriverX \/ list[n].name = list[n].file + 1
          /\ list[k] = DriverX \/ list[k].name = list[k].file + 1
      <4>1. n \in DOMAIN list /\ k \in DOMAIN list
        BY <2>1 DEF IsList
      <4>2. Fits(list)
        BY <1>1 DEF IInv, FitsInv
      <4> QED BY <4>1, <4>2 DEF Fits
    <3> QED BY <2>2, <3>1, <3>2, FileFacts DEF Entry, DriverX
  <2>4. Count(list', e) = Count(list, e) - (IF list[n] = e THEN 1 ELSE 0)
    <3>1. n \in 1..Len(list) /\ IsList(list) /\ IsList(list')
          /\ Len(list') = Len(list) - 1
          /\ \A i \in 1..(Len(list) - 1) : list'[i] = list[Past(n, i)]
      BY <2>1, <2>2
    <3> QED BY <3>1, CountWithout
  <2>5. Count(me, e) = IF list[k] = e THEN 1 ELSE 0
    <3>1. DOMAIN me = {1} /\ me[1] = list[k]
      BY <2>1
    <3>2. {i \in DOMAIN me : me[i] = e} = IF list[k] = e THEN {1} ELSE {}
      BY <3>1
    <3> QED BY <3>2, FS_Singleton, FS_EmptySet DEF Count
  <2> QED BY <2>3, <2>4, <2>5
<1>2. IInv => [Safe]_vars
  BY <1>1
<1> QED BY <1>2, Invariant, PTL DEF DeleteTakesThePicked
=============================================================================
