CONSTANTS
    Inode <- MCInode
    DirBlock <- MCDirBlock
    Indirect <- MCIndirect
    FileArg <- MCFileArg
    DirArg <- MCDirArg
    BootDevices <- MCBootDevices
    ImageBlocks = 14
    BLOCK = 2
    DIRECT = 2
    MaxProc = 5
    PROC_MAX_FD = 5
    PTY_MAX = 2
    DEVICE_MAX_COUNT = 8
    CATBUF = 3
SPECIFICATION Spec
INVARIANTS TerminalConnected CatExact ListingExact
CHECK_DEADLOCK FALSE
