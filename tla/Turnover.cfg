\* One handoff and one stop, two tasks, commands of two releases, one death.
CONSTANTS
    t1 = t1
    t2 = t2
    Tasks = {t1, t2}
    Hosts = {"A", "B"}
    FirstHost = "A"
    Builds = {"r1", "r2"}
    FirstBuild = "r1"
    HandoffIds = {"h1"}
    StopIds = {"s1"}
    Policy = "compatible"
    MaxAttempts = 2
    MaxDecisions = 1
    MaxCrashes = 1
SPECIFICATION Spec
INVARIANTS
    TypeOK ReleaseIsQuiet ControlAudited
PROPERTIES
    HandoffHolds
SYMMETRY Symmetry
