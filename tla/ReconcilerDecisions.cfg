CONSTANTS
    m1 = m1
    m2 = m2
    Masters = {m1}
    MaxRestarts = 1
    MaxDecisions = 2
    MaxYields = 1
    MaxDeaths = 3
    MaxStops = 0
    MaxNotes = 0
    MaxFaults = 0
    MaxCrashes = 0
    MaxMishaps = 3
SPECIFICATION Spec
INVARIANTS
    AcceptedAsRead
    RestartsBudgeted
