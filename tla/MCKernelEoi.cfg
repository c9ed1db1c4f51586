CONSTANTS
    Proc = {p1, p2}
    NONE = NONE
    MaxSleep = 1
    Out = {}
SPECIFICATION Spec
INVARIANTS TimerAcknowledged
CHECK_DEADLOCK FALSE
