CHECK_DEADLOCK FALSE
SPECIFICATION FairSpec
CONSTANTS
    Apps = {a1, a2}
    Home <- MCHome
    Specs <- MCSpecs
    Contents = {v1, v2}
    m = m
    n = n
    s = s
    Targets = {m, n}
    Labels = {m, n}
    SecretNames = {s}
    NoRef = NoRef
    EmptyName = EmptyName
    Broken = Broken
    NoHash = NoHash
    None = None
    MaxEvents = 2
INVARIANTS
    NothingMissed
    GaugeCurrent
PROPERTIES
    AdmissionHolds
    DeletionsComplete
    EveryoneConverges
