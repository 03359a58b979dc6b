SPECIFICATION FairSpec
CONSTANTS
    Threads = {t1, t2}
    None = None
    Threshold = 1
    QueueSize = 2
    MaxEra = 3
    CommandsFail = TRUE
INVARIANTS ACompleteListSurvives AppendsReachNext
PROPERTIES HandedOverListsFrozen SamsaraEnds
CHECK_DEADLOCK FALSE
