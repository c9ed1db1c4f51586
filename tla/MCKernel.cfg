CONSTANTS
    Proc = {p1, p2, p3}
    NONE = NONE
    MaxSleep = 1
    Out = {o1, o2}
SPECIFICATION Spec
INVARIANTS RunQueueExact StdoutCounted WaitsParked
PROPERTIES WaitOutlivesChild EveryoneRuns WaitReturns
CHECK_DEADLOCK FALSE
