\* A chain of two segments and a local step, one of each hazard but two bad ends.
CONSTANTS
    Steps = {"a1", "a2", "s"}
    Specs <- ChainSpecs
    Plan <- ChainPlan
    MaxAuto <- OneRetry
    Earlier = {"a1", "s"}
    MaxCrashes = 1
    MaxAnswers = 1
    MaxBadEnds = 2
    MaxActs = 1
    MaxMishaps = 3
SPECIFICATION FairSpec
INVARIANTS
    TypeOK OneJobPerStep RetriesBudgeted DirectoryWhole CertifiedInstalled
PROPERTIES
    NothingForgotten
