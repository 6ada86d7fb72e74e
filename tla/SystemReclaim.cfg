\* One runner whose lease expires, and a target that answers differently each time.
CONSTANTS
    c1 = c1  c2 = c2
    Cases = {c1}
    Runners = {r1}
    Takes = {1, 2}
    Refused = {}
    TargetRaises = FALSE
    DiskRaises = FALSE
    Observed = {}
    MaxParents = 64
    None = None
    RunnerKey = k1
    Project = p1
    Script <- OneCase
    TurnCount <- OneLength
    LeaseTTL = 1
    Attempts = 1
    MaxLeases = 6
    MaxCrashes = 1
    MaxFaults = 0
    MaxTicks = 1
SPECIFICATION Spec
INVARIANTS ArtifactsMatchServer
