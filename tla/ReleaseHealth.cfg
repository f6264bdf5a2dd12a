SPECIFICATION Spec
CONSTANT MaxDocs = 3
INVARIANTS
    TypeOK
    SteadyVerdictIsRule
PROPERTIES
    CurrentUnlessRegressed
    FailedIsWitnessed
