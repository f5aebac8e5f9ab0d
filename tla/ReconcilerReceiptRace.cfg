CONSTANTS
    m1 = m1
    m2 = m2
    Masters = {m1}
    MaxRestarts = 1
    MaxDecisions = 0
    MaxYields = 0
    MaxDeaths = 0
    MaxStops = 0
    MaxNotes = 0
    MaxFaults = 0
    MaxCrashes = 0
    MaxMishaps = 0
SPECIFICATION Spec
INVARIANTS
    ReceiptTakesPrecedence
