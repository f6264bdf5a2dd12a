CHECK_DEADLOCK FALSE
SPECIFICATION FairSpec
CONSTANTS
    Charts = {good, bad}
    BadCharts = {bad}
    Values = {v1}
    NoValues = NoValues
    Broken = Broken
    RefChoices = {TRUE, FALSE}
    MaxHistory = 3
    MaxUid = 1
    MaxGen = 2
    Disturbances = {"stale", "touch", "secret", "api", "helm", "drift"}
    MaxDisturbances = 1
INVARIANT ReadyRunsSpec
PROPERTIES
    EventuallyConverges
    BadReleaseSurfaces
    DeletionCompletes
    EditReinstalls
