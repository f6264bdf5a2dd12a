CHECK_DEADLOCK FALSE
SPECIFICATION Spec
CONSTANTS
    Charts = {good, bad}
    BadCharts = {bad}
    Values = {v1}
    NoValues = NoValues
    Broken = Broken
    RefChoices = {TRUE}
    MaxHistory = 3
    MaxUid = 2
    MaxGen = 3
    Disturbances = {"stale", "touch", "api", "helm", "crash", "secret", "drift"}
    MaxDisturbances = 2
INVARIANTS
    TypeOK
    FinalizerGuardsRelease
    NeverForgotten
    ReadyIsHonest
    AtMostOneRollback
    ReadyRunsSpec
    RollbackTargetKept
    HistoryBounded
    RollbackIsPossible
PROPERTIES
    ImplementsRollbackPolicy
    DeployedIsCounted
