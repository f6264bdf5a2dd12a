CHECK_DEADLOCK FALSE
SPECIFICATION Spec
CONSTANTS
    Apps = {a, b}
    Namespaces = {m, n}
    None = None
    MaxUid = 1
    MaxGen = 2
    MaxFaults = 1
SYMMETRY Symmetry
INVARIANTS
    AppliedReleaseKept
PROPERTY
    DeletesForeignOnlyByReuse
