CONSTANTS
    Key <- MCKey
    Output <- MCOutput
    MaxKeys = 4
    MaxEvents = 2
    PTY_BUF_CAP = 7
    PTY_LINE_CAP = 3
    TTYQ_LEN = 4
    SHELL_MAX_LINE = 3
    CHUNK = 4
    MAX_COL = 3
    MAX_LINE = 2
SPECIFICATION TSpec
INVARIANTS LinesFaithful SeenIsSent
PROPERTIES LinesRun
CHECK_DEADLOCK FALSE
