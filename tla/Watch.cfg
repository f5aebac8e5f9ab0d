CONSTANTS
    t1 = t1
    None = None
    Tasks = {t1}
    Limit = 1
    MaxEvents = 2
    MaxPids = 1
    MaxDeaths = 1
    MaxStalls = 1
    MaxFaults = 1
SPECIFICATION FairSpec
INVARIANTS
    TypeOK
    NothingSkipped
PROPERTIES
    EveryHitHeard
