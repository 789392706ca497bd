CONSTANTS
    MaxActive = 2
    MaxHit = 3
    MaxMovers = 8
    MaxRooms = 2
    Rooms = {1, 2}
    Near <- MCNear
    post = post
    sign = sign
    crate = crate
    Unhit = {post, sign, crate}
    Home <- MCHome
    Kind <- MCKind
    Parts <- MCParts
    Car = car
SPECIFICATION Spec
INVARIANT MoversAreServed
INVARIANT PoolIsConsistent
INVARIANT RoomsAreSound
PROPERTY PartsKeepEntities
 
PROPERTY TempsLeave
