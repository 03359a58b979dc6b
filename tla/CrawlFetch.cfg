SPECIFICATION Spec
CONSTANTS
    a = a
    b = b
    o = o
    p = p
    q = q
    r = r
    x = x
    Threads = {t1, t2}
    Selector = sel
    Sites = {a, b}
    NoSite = NoSite
    Urls = {o, p, q, r, x}
    NoItem = NoItem
    SiteOf <- WebSiteOf
    Malformed = {r}
    Kind <- WebKind
    Normal <- WebNormal
    LinksOf <- WebLinksOf
    Seeds <- PagesSeed
    Shielded = {}
    Outcomes = {"OK", "404", "300"}
    NO_IP = NO_IP
    Resolver <- Reliable
    QueueSize = 1
    max_url_fail_count = 1
    max_url_redirect_count = 1
    max_dns_query_count = 1
    Limits = {1}
    Intervals = {1, 2}
    Horizon = 2
SYMMETRY ThreadSymmetry
INVARIANTS QueueBounded NothingVanishes FetchesItsSite
PROPERTIES Polite
