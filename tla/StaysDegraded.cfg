CHECK_DEADLOCK FALSE
SPECIFICATION Spec
CONSTANTS
    Charts = {good, bad}
    BadCharts = {bad}
    Values = {v1}
    NoValues = NoValues
    Broken = Broken
    RefChoices = {FALSE}
    MaxHistory = 3
    MaxUid = 1
    MaxGen = 2
    Disturbances = {}
    MaxDisturbances = 0
INVARIANT StaysDegraded
