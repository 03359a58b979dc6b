SPECIFICATION Spec
CONSTANTS
    Threads = {t1, t2}
    None = None
    Threshold = 1
    QueueSize = 2
    MaxEra = 3
    CommandsFail = FALSE
INVARIANTS ListsHoldTheirKind
CHECK_DEADLOCK FALSE
