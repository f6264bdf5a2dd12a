CHECK_DEADLOCK FALSE
SPECIFICATION FairSpec
CONSTANTS
    Apps = {a, b}
    Namespaces = {n}
    None = None
    MaxUid = 2
    MaxGen = 1
    MaxFaults = 1
PROPERTY EveryoneIsApplied
