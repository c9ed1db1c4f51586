CONSTANTS
    Blocks = 8
    Avail = {0, 1, 2, 3, 4, 5, 6, 7}
    MaxBlocks = 8
    KernelEnd = 2
    BootInfo = {5}
    WORD = 4
    LARGE = 2
    WRAP = 64
    MaxRun = 2
SPECIFICATION Spec
INVARIANT AbortsWhenFull
