SPECIFICATION FairSpec
CONSTANTS
    a = a
    b = b
    o = o
    p = p
    q = q
    r = r
    x = x
    Threads = {t1, t2}
    Selector = sel
    Sites = {a}
    NoSite = NoSite
    Urls = {p}
    NoItem = NoItem
    SiteOf <- WebSiteOf
    Malformed = {r}
    Kind <- WebKind
    Normal <- WebNormal
    LinksOf <- WebLinksOf
    Seeds <- PageSeed
    Shielded = {}
    Outcomes = {"ERR"}
    NO_IP = NO_IP
    Resolver <- Flaky
    QueueSize = 4
    max_url_fail_count = 1
    max_url_redirect_count = 1
    max_dns_query_count = 1
    Limits = {1, 2}
    Intervals = {1}
    Horizon = 1
INVARIANTS CopiesHalve RoomSuffices
PROPERTIES CrawlDrains
