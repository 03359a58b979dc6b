SPECIFICATION FairSpec
CONSTANTS
    Threads = {t1, t2, t3}
    Sites = {a, b}
    NoSite = NoSite
    Limits = {1, 2}
    Intervals = {1, 2}
    Horizon = 2
INVARIANTS TypeOK SlotsMatchCrawlers
PROPERTIES NeverOverLimit AdmissionsSpaced SiteReopens
