CHECK_DEADLOCK FALSE
SPECIFICATION Spec
CONSTANTS
    Charts = {good, bad}
    BadCharts = {bad}
    Values = {v1, v2}
    NoValues = NoValues
    Broken = Broken
    RefChoices = {TRUE}
    MaxHistory = 3
    MaxUid = 1
    MaxGen = 1
    Disturbances = {"secret", "api"}
    MaxDisturbances = 3
INVARIANT ReadyRunsValues
