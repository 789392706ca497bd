------------------------------- MODULE Menus --------------------------------
(***************************************************************************)
(* The front end's menus: MenuManager (mmwidget/manager.cpp) and the       *)
(* buttons mmInterface::Update dispatches (mmgame/interface.cpp).  A       *)
(* button asks for a switch, which is made in the manager's next Update.   *)
(* In one frame a button of the menu and one of the navigation bar can be  *)
(* pressed; the later request wins.  "audio" stands for the four option    *)
(* menus that only have a Done button, "race" and "net" for the ids the    *)
(* buttons ask for although no such menu is ever added.                    *)
(***************************************************************************)
EXTENDS FiniteSets

CONSTANT Menus   \* bound: those of "main", "driver", "options", "audio", "vehicle",
                 \* "showcase" and "quit" that are there; the others are not added
None == "none"

ASSUME MenusAssumption == "main" \in Menus /\ None \notin Menus

VARIABLES active,  \* active_menu_id_
          next,    \* next_active_menu_id_
          prev,    \* each menu's prev_menu_id_
          enabled  \* the menus that are enabled and whose nodes are updated

menuVars == <<active, next, prev, enabled>>

MenuInit == /\ active = None /\ next = None
            /\ prev = [m \in Menus |-> None]
            /\ enabled = {}

\* What the buttons of a menu ask for; No in the quit dialog goes back.
Links == [main |-> {"vehicle", "driver", "net", "options", "quit"},
          driver |-> {"race"}, options |-> {"audio"}, audio |-> {"options"},
          vehicle |-> {"main", "showcase"}, showcase |-> {"vehicle"}]
Back(m) == IF prev[m] = None THEN "main" ELSE prev[m]
Targets(m) == IF m = "quit" THEN {Back(m)} ELSE Links[m]
Asked == (UNION {Links[m] : m \in Menus \ {"quit"}}) \cup Menus
             \cup {"options", "quit", None}

\* Switch leaves the switch to the next Update, except the very first one.
PressButton  == next' \in Targets(active) \cup {next}
PressNavBar  == next' \in {next, "options", "quit"} \cup ({prev[active]} \ {None})

Entered(id) == id \in Menus /\ id # active

\* (Mutant: every entry overwrites the way back.)
RememberedLast(id) == active
Remembered(id) == IF prev[id] = None THEN active ELSE prev[id]

\* (Mutant: the menu that is left stays enabled.)
EnabledAfterToo(id) == enabled \cup {id}
EnabledAfter(id) == (enabled \ {active}) \cup {id}

SwitchNow(id) ==
    IF Entered(id)
    THEN /\ prev' = [prev EXCEPT ![id] = Remembered(id)]
         /\ enabled' = EnabledAfter(id)
         /\ active' = id
    ELSE UNCHANGED <<prev, enabled, active>>
-----------------------------------------------------------------------------
\* Whatever way the menus are walked, dialogs and repeated entries included,
\* the active menu is the only one that is enabled and updated.
OneMenuEnabled == enabled = {active} \ {None}

MenuTypeOK == /\ active \in Menus \cup {None}
              /\ next \in Asked
              /\ prev \in [Menus -> Menus \cup {None}]
              /\ enabled \subseteq Menus
              /\ OneMenuEnabled

\* The menus the navigation bar's PREV button leads to, again and again, from m:
\* those in every set that m is in and PREV does not lead out of.
NoWayOut(S) == \A m \in S : prev[m] \in S \cup {None}
Trail(m) == {x \in Menus : \A S \in SUBSET Menus : m \in S /\ NoWayOut(S) => x \in S}

\* Going in and out of menus in any order does not corrupt the way back: from
\* the active menu PREV, pressed often enough, always comes to the main menu.
BackReachesMain == active # None => "main" \in Trail(active)
=============================================================================
