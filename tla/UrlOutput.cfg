CONSTANTS
    Threads = {t1, t2}
    UrlLens = {1, 6, 9, 10}
    ReasonLens = {1, 2, 3}
    TimeLen = 2
    BufLen = 11
    Fds = {3, 4}
    MaxSamsaras = 1
SPECIFICATION Spec
INVARIANTS ListLineWhole FailLineAlone FdIsTheLists
CHECK_DEADLOCK FALSE
