\* One runner; the reply to its completion is lost on every attempt.
CONSTANTS
    c1 = c1  c2 = c2
    Cases = {c1}
    Runners = {r1}
    Takes = {1}
    Refused = {}
    TargetRaises = FALSE
    DiskRaises = FALSE
    Observed = {}
    MaxParents = 64
    None = None
    RunnerKey = k1
    Project = p1
    Script <- OneCase
    TurnCount <- OneLength
    LeaseTTL = 1
    Attempts = 2
    MaxLeases = 6
    MaxCrashes = 0
    MaxFaults = 2
    MaxTicks = 0
SPECIFICATION FairSpec
PROPERTIES CasesFinish
