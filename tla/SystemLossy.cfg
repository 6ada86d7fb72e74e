\* Two runners, one case, kills, a lossy network and an expiring lease.
CONSTANTS
    c1 = c1  c2 = c2
    Cases = {c1}
    Runners = {r1, r2}
    Takes = {1, 2}
    Refused = {}
    TargetRaises = FALSE
    DiskRaises = FALSE
    Observed <- Watched
    MaxParents = 64
    None = None
    RunnerKey = k1
    Project = p1
    Script <- OneCase
    TurnCount <- OneLength
    LeaseTTL = 1
    Attempts = 1
    MaxLeases = 6
    MaxCrashes = 1
    MaxFaults = 1
    MaxTicks = 1
SYMMETRY Symmetry
SPECIFICATION Spec
INVARIANTS ConversationIntact TurnKeyFixesBody FirstLeaseEvidence NoFalseFailure LineageResolves LineageComplete
