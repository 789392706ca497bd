SPECIFICATION Spec
CONSTANTS
    Capacity <- MCCapacity
    Archive <- MCArchive
    HeaderSize = 2
    Offset <- MCOffset
    MemberSize <- MCMemberSize
    Byte = {1, 2, 3, 4, 5, 6}
    Sizes = {0, 1, 2, 3, 4}
    Pieces <- MCPieces
    NewLine = 2
    LineMax = 3
    MaxFile = 4
INVARIANT TypeOK
INVARIANT BuffersAreSound
PROPERTY ImplementsFile
