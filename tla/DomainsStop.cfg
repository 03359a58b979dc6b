SPECIFICATION FairSpec
CONSTANTS
    DomainNames = {d1, d2}
    NoFile = NoFile
    MaxTime = 2
    MaxDeaths = 0
INVARIANT StopListKept
