CONSTANTS
    Domains = {"a", "b"}
    Patterns = {"p"}
    Gaps = {1}
    Reps = {1, 2}
    MaxLines = 10
    MaxSlips = 1
    MaxRules = 2
SPECIFICATION FairSpec
INVARIANTS ReadAsWritten TypedAsWritten
PROPERTIES LoadEnds
CHECK_DEADLOCK FALSE
