\* One runner, one case; the target and the local disk raise, calls are retried, leases expire.
CONSTANTS
    c1 = c1  c2 = c2
    Cases = {c1}
    Runners = {r1}
    Takes = {1}
    Refused = {}
    TargetRaises = TRUE
    DiskRaises = TRUE
    Observed <- Watched
    MaxParents = 2
    None = None
    RunnerKey = k1
    Project = p1
    Script <- OneCase
    TurnCount <- OneLength
    LeaseTTL = 1
    Attempts = 2
    MaxLeases = 6
    MaxCrashes = 1
    MaxFaults = 2
    MaxTicks = 1
SPECIFICATION Spec
INVARIANTS TypeOK CompletedRanToEnd CheckpointTrailsServer
