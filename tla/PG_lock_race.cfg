SPECIFICATION MCSpec
CONSTANTS
    Clients = {"road", "car"}
    NoClient = "none"
    SizeOf <- MCSizeOf
    HeapSize = 4
    MaxObjects = 2
    MaxObjectAge = 1
    WasteWidth = 64
    Textures = {"car"}
    Main = Main
    Pager = Pager
    NoThread = NoThread
    MaxAge = 2
    MaxLocks = 1
    MaxWaste = 4
    Other = "other"
    QueueMax = 1
INVARIANT LockHasHandle
