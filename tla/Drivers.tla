------------------------------ MODULE Drivers -------------------------------
(***************************************************************************)
(* The drivers of the front end (mmui/driver.cpp): a list in memory, its   *)
(* copy in players/players.dir, a players/<file>.sav for each driver that  *)
(* was added, and the driver that is picked, MMCURRPLAYER.  Opening a file *)
(* for writing empties it at once; what is written reaches it when the     *)
(* Stream is destroyed (see Streams).  The program may end between any two *)
(* of these, and a file may fail to open or to be written.                 *)
(* A driver's name is "Driver<n>" (0 for "DriverX"), its file "player<n>". *)
(***************************************************************************)
EXTENDS Menus, Integers, Sequences, SequencesExt

CONSTANTS MaxPlayers, \* MAX_PLAYERS
          MaxFaults   \* bound: how often a file cannot be opened or written

ASSUME DriversAssumption == MaxPlayers \in Nat \ {0} /\ MaxFaults \in Nat

PlayersDir == -1      \* players.dir; the number n >= 0 is player<n>.sav
Entry == [name : 0..MaxPlayers, file : 0..(MaxPlayers - 1)]
DriverX == [name |-> 0, file |-> 0]

VARIABLES phase,    \* where the frame is: "boot", "input", "nav", "update"
          list,     \* PlayerList
          current,  \* current_player_
          me,       \* MMCURRPLAYER: <<>>, or <<entry>> once one was picked
          disk,     \* each file: does it exist, and what is in it
          todo,     \* what the running handler still does to the files
          unsaved,  \* the last save of the list failed
          hurt,     \* a save of the list failed in this process
          faults    \* the faults so far

memory == <<list, current, me>>
vars == <<menuVars, phase, memory, disk, todo, unsaved, hurt, faults>>

Init == /\ MenuInit /\ phase = "boot"
        /\ list = <<>> /\ current = -1 /\ me = <<>>
        /\ disk = [f \in PlayersDir..(MaxPlayers - 1) |-> [there |-> FALSE, text |-> <<>>]]
        /\ todo = <<>> /\ unsaved = FALSE /\ hurt = FALSE /\ faults = 0
-----------------------------------------------------------------------------
Open(f)        == [op |-> "open", file |-> f, text |-> <<>>]
Close(f, text) == [op |-> "close", file |-> f, text |-> text]

SavePlayers(l) == <<Open(PlayersDir), Close(PlayersDir, l)>>

\* The .sav is created before the list is saved and written after it.
\* (Mutant: the list is saved first.)
AddFilesLater(e, l) == SavePlayers(l) \o <<Open(e.file), Close(e.file, <<e.name>>)>>
AddFiles(e, l) == <<Open(e.file)>> \o SavePlayers(l) \o <<Close(e.file, <<e.name>>)>>

\* NewPlayer and AddPlayer take both numbers from the length of the list.
\* (Mutant: the name follows the last driver's, the file does not.)
NewEntryNextName(l) == [name |-> Last(l).name + 1, file |-> Len(l)]
NewEntry(l) == [name |-> Len(l) + 1, file |-> Len(l)]

\* RemovePlayer takes out the first driver of the name.
\* (Mutants: the entries move up one place too late; and the list is not saved.)
RemovedAfter(l, name) ==
    LET named(e) == e.name = name
        found == SelectInSeq(l, named)
    IN  RemoveAt(l, IF found < Len(l) THEN found + 1 ELSE found)
Removed(l, name) ==
    LET named(e) == e.name = name IN RemoveFirstMatch(l, named)
RemoveFilesNot(l) == <<>>
RemoveFiles(l) == SavePlayers(l)

\* SetPlayerPick: an index outside the list leaves MMCURRPLAYER as it is.  No
\* .sav is ever read: Load looks for players/<file>/<file>.sav.
SetPlayerPick(l, i) ==
    /\ current' = i
    /\ me' = IF i \in 0..(Len(l) - 1) THEN <<l[i + 1]>> ELSE me

\* DeleteCB's clamp.  (Mutant: it is forgotten.)
ClampedNot(i, l) == i
Clamped(i, l) == IF i >= Len(l) THEN Len(l) - 1 ELSE i
-----------------------------------------------------------------------------
Button(state, following) ==
    phase = state /\ todo = <<>> /\ phase' = following
KeepFiles == UNCHANGED <<disk, unsaved, hurt, faults>>
KeepMenu  == UNCHANGED <<active, prev, enabled>>

\* ShowMain, when the front end has been loaded.
ShowMain ==
    /\ Button("boot", "input") /\ SwitchNow("main")
    /\ KeepFiles /\ UNCHANGED <<next, memory, todo>>

\* A button that only switches menus, or none.
PressMenu ==
    /\ Button("input", "nav") /\ PressButton
    /\ KeepMenu /\ KeepFiles /\ UNCHANGED <<memory, todo>>

\* NEW: NewPlayer, AddPlayer, and a switch to the menu that is active already.
NewPlayer ==
    /\ Button("input", "nav") /\ active = "driver"
    /\ next' = "driver"
    /\ LET e == NewEntry(list)
           l == IF Len(list) >= MaxPlayers THEN list ELSE Append(list, e)
       IN  /\ list' = l
           /\ todo' = IF l = list THEN <<>> ELSE AddFiles(e, l)
    /\ KeepMenu /\ KeepFiles /\ UNCHANGED <<current, me>>

DeleteCB ==
    /\ Button("input", "nav") /\ active = "driver"
    /\ IF Len(list) > 1 /\ current \in 0..(Len(list) - 1)
       THEN LET l == Removed(list, list[current + 1].name)
            IN  /\ list' = l /\ todo' = RemoveFiles(l)
                /\ SetPlayerPick(l, Clamped(current, l))
       ELSE UNCHANGED <<memory, todo>>
    /\ KeepMenu /\ KeepFiles /\ UNCHANGED next

\* IncPlayer and DecPlayer.  (The dropdown has a write to current_player_ of its
\* own, without a callback, in UITextDropdown::Action; the menu, which handles the
\* arrow keys itself and gives Action no mouse events, never gets there.)
StepPlayer(d) ==
    /\ Button("input", "nav") /\ active = "driver" /\ Len(list) > 1
    /\ SetPlayerPick(list, (current + d + Len(list)) % Len(list))
    /\ KeepMenu /\ KeepFiles /\ UNCHANGED <<next, list, todo>>

PressNav ==
    /\ Button("nav", "update") /\ PressNavBar
    /\ KeepMenu /\ KeepFiles /\ UNCHANGED <<memory, todo>>

\* A players.dir that is missing or empty makes LoadPlayers start, and save, a
\* list with DriverX alone.
LoadPlayers ==
    LET fresh == disk[PlayersDir].text = <<>>
        l     == IF fresh THEN <<DriverX>> ELSE disk[PlayersDir].text
    IN  /\ list' = l
        /\ todo' = IF fresh THEN SavePlayers(l) ELSE <<>>
        /\ unsaved' = FALSE

PreSetup == LoadPlayers /\ SetPlayerPick(list', IF current < 0 THEN 0 ELSE current)

\* MenuManager::Update, which makes the switch that was asked for.
ForceCurrentFocus ==
    /\ Button("update", "input") /\ SwitchNow(next) /\ next' = None
    /\ IF Entered(next) /\ next = "driver"
       THEN PreSetup
       ELSE UNCHANGED <<memory, todo, unsaved>>
    /\ UNCHANGED <<disk, hurt, faults>>

\* The next thing the handler does to a file: an fopen that empties it, or the
\* Stream's destructor, which flushes what was printed.
FileStep ==
    /\ todo # <<>> /\ todo' = Tail(todo)
    /\ LET s == Head(todo)
       IN  /\ disk' = [disk EXCEPT ![s.file] = [there |-> TRUE, text |-> s.text]]
           /\ unsaved' = (unsaved /\ ~(s.file = PlayersDir /\ s.op = "close"))
    /\ UNCHANGED <<menuVars, phase, memory, hurt, faults>>

\* The file cannot be opened, and is not written either: players.dir would be
\* next, a .sav the last; or the flush fails, and nobody is told.
FileFault ==
    /\ todo # <<>> /\ faults < MaxFaults /\ faults' = faults + 1
    /\ LET s == Head(todo)
       IN  /\ \/ s.op = "close" /\ todo' = Tail(todo)
              \/ s.op = "open" /\ s.file = PlayersDir /\ todo' = Tail(Tail(todo))
              \/ s.op = "open" /\ s.file # PlayersDir /\ todo' = Front(Tail(todo))
           /\ unsaved' = (unsaved \/ s.file = PlayersDir)
           /\ hurt' = (hurt \/ s.file = PlayersDir)
    /\ UNCHANGED <<menuVars, phase, memory, disk>>

\* The program ends, by the quit dialog or otherwise, and is started again.
Restart ==
    /\ phase # "boot" /\ phase' = "boot"
    /\ active' = None /\ next' = None /\ enabled' = {}
    /\ prev' = [m \in Menus |-> None]
    /\ list' = <<>> /\ current' = -1 /\ me' = <<>> /\ todo' = <<>>
    /\ unsaved' = FALSE /\ hurt' = FALSE
    /\ UNCHANGED <<disk, faults>>

Next ==
    \/ ShowMain
    \/ PressMenu
    \/ NewPlayer
    \/ DeleteCB
    \/ StepPlayer(1)
    \/ StepPlayer(-1)
    \/ PressNav
    \/ ForceCurrentFocus
    \/ FileStep
    \/ FileFault
    \/ Restart

Spec == Init /\ [][Next]_vars
-----------------------------------------------------------------------------
Lists == UNION {[1..n -> Entry] : n \in 0..MaxPlayers}

DriversTypeOK ==
    /\ MenuTypeOK
    /\ phase \in {"boot", "input", "nav", "update"}
    /\ list \in Lists /\ current \in -1..(MaxPlayers - 1)
    /\ me = <<>> \/ (Len(me) = 1 /\ me[1] \in Entry)
    /\ \A f \in DOMAIN disk : disk[f].there \/ disk[f].text = <<>>
    /\ disk[PlayersDir].text \in Lists
    /\ Len(todo) <= 4 /\ faults \in 0..MaxFaults
    /\ unsaved \in BOOLEAN /\ hurt \in BOOLEAN

\* Whenever no handler is running, players.dir holds the list of the memory, so
\* that a program that ends here loses no driver and brings none back; a save
\* that failed is made good by the next one.
Durable ==
    todo = <<>> /\ list # <<>> /\ ~unsaved => disk[PlayersDir].text = list

\* From the first time the driver menu was entered, whatever is added, deleted,
\* stepped through or loaded again, current_player_ lies in the list and
\* MMCURRPLAYER is the driver there, unless the list could not be saved.
PickMatches ==
    current >= 0 /\ ~hurt => /\ current < Len(list)
                             /\ me = <<list[current + 1]>>

\* players.dir never names a driver whose .sav was not at least created, even
\* when the program ends inside AddPlayer.
SavBeforeList ==
    \A i \in DOMAIN disk[PlayersDir].text :
        LET e == disk[PlayersDir].text[i]
        IN  e = DriverX \/ disk[e.file].there \/ faults > 0

\* Both numbers of a driver count the list, which shrinks: after a delete and an
\* add two drivers can have one name and one file.  But never one without the
\* other, on disk as in memory: drivers that share a file are equal.
NamesGoWithFiles ==
    \A l \in {list, disk[PlayersDir].text} : \A i \in DOMAIN l :
        l[i] = DriverX \/ l[i].name = l[i].file + 1

\* Every entry stands for a driver: with a file of its name that was made.
EntriesAreSound == SavBeforeList /\ NamesGoWithFiles

Count(l, e) == Cardinality({i \in DOMAIN l : l[i] = e})

\* RemovePlayer looks for a name, and names repeat: all the same DeleteCB takes
\* the driver out that was picked, and no other.
DeleteTakesThePicked ==
    [][DeleteCB /\ list' # list /\ ~hurt =>
           \A e \in Entry : Count(list', e) = Count(list, e) - Count(me, e)]_vars
=============================================================================
