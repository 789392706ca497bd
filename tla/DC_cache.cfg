SPECIFICATION Spec
CONSTANTS
    Clients = {"road", "car", "skin"}
    NoClient = "none"
    SizeOf <- MCSizeOf
    HeapSize = 6
    MaxObjects = 3
    MaxObjectAge = 1
    WasteWidth = 64
    Textures = {"skin"}
    Main = Main
    Pager = Pager
    NoThread = NoThread
    MaxAge = 2
    MaxLocks = 1
    MaxWaste = 6
INVARIANT TypeOK
INVARIANT HeapIsTiled
INVARIANT DataIntact
INVARIANT SlotsMatch
INVARIANT LocksMatch
PROPERTY InUseStaysPut
