SPECIFICATION LiveSpec
CONSTANTS
    Callers = {c1}
    DegradedTTL = 1
    Timeout = 1
    BufSize = 1
    Instances <- MCInstances
CHECK_DEADLOCK FALSE
INVARIANTS QuiescentCoherent BoundedStaleness
PROPERTY PushClears
