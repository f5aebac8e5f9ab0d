CONSTANTS
    m1 = m1
    m2 = m2
    Masters = {m1}
    MaxRestarts = 1
    MaxDecisions = 1
    MaxYields = 1
    MaxDeaths = 0
    MaxStops = 0
    MaxNotes = 0
    MaxFaults = 0
    MaxCrashes = 1
    MaxMishaps = 1
SPECIFICATION Spec
INVARIANTS
    RulingServed
