CHECK_DEADLOCK FALSE
SPECIFICATION FairSpec
CONSTANTS
    Apps = {a1}
    Home <- MCHome
    Specs <- MCSpecs
    Contents = {v1}
    m = m
    n = n
    s = s
    Targets = {m, n}
    Labels = {m}
    SecretNames = {s}
    NoRef = NoRef
    EmptyName = EmptyName
    Broken = Broken
    NoHash = NoHash
    None = None
    MaxEvents = 2
PROPERTY DeletionAlwaysCompletes
