\* There and back again: two handoffs under the pinned-host policy, no stop --drain.
CONSTANTS
    t1 = t1
    t2 = t2
    Tasks = {t1}
    Hosts = {"A", "B"}
    FirstHost = "A"
    Builds = {"r1"}
    FirstBuild = "r1"
    HandoffIds = {"h1", "h2"}
    StopIds = {}
    Policy = "pinned-host"
    MaxAttempts = 3
    MaxDecisions = 0
    MaxCrashes = 1
SPECIFICATION FairSpec
INVARIANTS
    EpochHasOneHost
PROPERTIES
    HandoffEnds
