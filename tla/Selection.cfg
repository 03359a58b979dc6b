CONSTANTS
    a1 = a1  a2 = a2  b1 = b1
    Urls <- MCUrls
    Writers = {w1}
    NoJob = NoJob
    NumDomains = 2
    DomainOf <- MCDomainOf
    Links <- MCLinks
    Seeds = {a1, a2}
    Input = {a2, b1}
    select_nums_per_time = 2
    priority_quota = 5
    cate_percent = 1
    item_percent = 1
    min_select_threshold = 2
    MinQuota = 1
    Slack = 0
    Reserve = 0
    MinRounds = 1
    MaxEdits = 1
SPECIFICATION FairSpec
INVARIANTS NumbersAddUp
PROPERTIES UnderWayOnce KnownWhileUnderWay NothingElseLost OldestFirst WithinQuota NoneWaitsForEver
CHECK_DEADLOCK FALSE
