SPECIFICATION MCFairSpec
CONSTANTS
    Clients = {"road", "car", "skin"}
    NoClient = "none"
    SizeOf <- MCSizeOf
    HeapSize = 4
    MaxObjects = 2
    MaxObjectAge = 1
    WasteWidth = 64
    Textures = {"skin"}
    Main = Main
    Pager = Pager
    NoThread = NoThread
    MaxAge = 2
    MaxLocks = 1
    MaxWaste = 4
    Other = "other"
    QueueMax = 2
INVARIANT PagingTypeOK
INVARIANT ResidentMeansData
INVARIANT RequestedOnce
INVARIANT LocksLast
PROPERTY RequestsEnd
