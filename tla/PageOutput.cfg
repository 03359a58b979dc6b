CONSTANTS
    Days = 2
    DayHours = 2
    HourMins = 4
    Intervals = {2, 3, 4}
    MaxGap = 4
    MaxReloads = 1
SPECIFICATION FairSpec
INVARIANTS FileOfTheInterval
PROPERTIES PagesResume
