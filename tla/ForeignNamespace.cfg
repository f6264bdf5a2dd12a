CHECK_DEADLOCK FALSE
SPECIFICATION Spec
CONSTANTS
    Apps = {a}
    Namespaces = {n}
    None = None
    MaxUid = 1
    MaxGen = 1
    MaxFaults = 1
PROPERTY DeletesOnlyOwnNamespaces
