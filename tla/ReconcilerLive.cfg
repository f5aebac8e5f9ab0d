CONSTANTS
    m1 = m1
    m2 = m2
    Masters = {m1}
    MaxRestarts = 0
    MaxDecisions = 1
    MaxYields = 1
    MaxDeaths = 1
    MaxStops = 1
    MaxNotes = 1
    MaxFaults = 1
    MaxCrashes = 0
    MaxMishaps = 2
SPECIFICATION FairSpec
PROPERTIES
    ReceiptHandled
    RulingHeard
    DrainEnds
