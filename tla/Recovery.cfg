CONSTANTS
    t1 = t1
    t2 = t2
    o1 = o1
    o2 = o2
    None = None
    TaskOrder <- MCTaskOrder
    Hosts = {"A", "B"}
    FirstHost = "A"
    Operators = {o1, o2}
    HostOf <- MCHostOf
    MaxWrites = 3
    MaxStops = 1
    MaxRecoveries = 2
    MaxCrashes = 2
    MaxReboots = 1
SPECIFICATION FairSpec
INVARIANTS
    TypeOK
    RecoveryInOrder
PROPERTIES
    ImplementsOneStepRecovery
    RecoveryCompletes
