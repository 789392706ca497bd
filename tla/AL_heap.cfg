\* Without a free node that fits the program ends.
SPECIFICATION Spec
CONSTANTS
    HeapSize = 20
    SmallLimit = 4
    Sizes = {1, 2, 5}
    Aligns = {1, 4}
    NewAlign = 2
    MaxBlocks = 3
CHECK_DEADLOCK FALSE
INVARIANT BlocksAreSafe
INVARIANT FindsRoom
INVARIANT HeapIsSound
INVARIANT BooksMatch
PROPERTY BlocksStayPut
