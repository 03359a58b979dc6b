SPECIFICATION FairSpec
CONSTANTS
    a = a
    b = b
    lit = lit
    Callers = {sel, t1}
    Selector = sel
    Sites = {a, b, lit}
    NoSite = NoSite
    NO_IP = NO_IP
    Name <- SiteName
    Literal <- SiteLiteral
    Zone <- SiteZone
    Ports = {1, 2}
    NoPort = 0
    NoCaller = NoCaller
    Attempts = 3
INVARIANTS SingletonQuery GivesUpOnlyAfterAttempts AddressOfTheSite
PROPERTIES CacheSpec SomeoneAnswered
