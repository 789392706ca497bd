CONSTANTS
    Menus = {"main", "driver", "options", "audio", "quit"}
    MaxPlayers = 3
    MaxFaults = 1
SPECIFICATION Spec
INVARIANT DriversTypeOK
INVARIANT Durable
INVARIANT PickMatches
INVARIANT BackReachesMain
INVARIANT EntriesAreSound
PROPERTY DeleteTakesThePicked
