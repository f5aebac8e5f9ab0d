CONSTANTS
    m1 = m1
    m2 = m2
    Masters = {m1}
    MaxRestarts = 1
    MaxDecisions = 1
    MaxYields = 1
    MaxDeaths = 1
    MaxStops = 1
    MaxNotes = 0
    MaxFaults = 1
    MaxCrashes = 1
    MaxMishaps = 2
SPECIFICATION Spec
INVARIANTS
    TypeOK
    SurrenderIsClean
    LeaseFollowsLife
PROPERTIES
    DrainWithholds
    CommitsAreLegal
VIEW WithoutHistory
