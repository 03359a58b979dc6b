SPECIFICATION FairSpec
CONSTANTS
    DomainNames = {d1, d2}
    NoFile = NoFile
    MaxTime = 2
    MaxDeaths = 1
INVARIANTS SeedsSurvive
PROPERTIES SeedsTaken LastStopListRead
