CONSTANTS
    Proc = {p1, p2, p3, p4}
    NONE = NONE
    MaxSleep = 2
SPECIFICATION Spec
INVARIANTS OneRing
PROPERTIES ImplementsRoundRobin TurnsAdvance SleepersLast
CHECK_DEADLOCK FALSE
