\* One runner; the assignment of the first case is refused.
CONSTANTS
    c1 = c1  c2 = c2
    Cases = {c1, c2}
    Runners = {r1}
    Takes = {1}
    Refused = {c1}
    TargetRaises = FALSE
    DiskRaises = FALSE
    Observed = {}
    MaxParents = 64
    None = None
    RunnerKey = k1
    Project = p1
    Script <- TwoCases
    TurnCount <- ScriptLengths
    LeaseTTL = 1
    Attempts = 1
    MaxLeases = 6
    MaxCrashes = 0
    MaxFaults = 0
    MaxTicks = 0
SPECIFICATION FairSpec
PROPERTIES CasesFinish
