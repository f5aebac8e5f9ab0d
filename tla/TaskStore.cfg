CONSTANTS
    p1 = p1
    p2 = p2
    t1 = t1
    t2 = t2
    w1 = w1
    None = None
    NoWorkspace = NoWorkspace
    Procs = {p1, p2}
    Reconcilers = {p1}
    Tasks = {t1, t2}
    WorkspaceOf <- SharedWorkspace
    MaxRev = 2
    MaxAborts = 1
    MaxHostLosses = 1
    MaxFaults = 1
SPECIFICATION FairSpec
INVARIANTS
    TypeOK
    AuditComplete
    AuditExact
    WorkspacesExclusive
    SurvivesHostLoss
    DispatchIsDurable
PROPERTIES
    ImplementsAtomicStore
    JournalFinished
