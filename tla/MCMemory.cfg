CONSTANTS
    Blocks = 13
    Avail = {0, 1, 2, 4, 5, 6, 7, 8, 9, 10, 11, 12}
    MaxBlocks = 12
    KernelEnd = 2
    BootInfo = {9}
    WORD = 4
    LARGE = 2
    WRAP = 64
    MaxRun = 2
    PAGE = 8
    CodeLen = 3
    Segments <- MCSegments
    StackPages = 2
    MaxLen = 20
    HeapPages = 3
    Sizes = {1, 9}
SPECIFICATION HSpec
INVARIANTS NoDoubleAllocation BitmapExact NeverFalselyFull HeapBacked FramesPrivate BlocksSound UsageExact
PROPERTIES MemoryStays
