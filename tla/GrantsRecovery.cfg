\* One Run, its command repeated as a new or as the old runner through a kill and an expiring lease.
CONSTANTS
    a1 = a1  a2 = a2  c1 = c1  c2 = c2
    Cases = {c1, c2}
    Runners = {r1}
    Takes = {1}
    Refused = {}
    TargetRaises = FALSE
    DiskRaises = FALSE
    Observed = {}
    MaxParents = 64
    None = None
    Attempts = {a1}
    RunOf <- SharedRun
    ScriptOf <- SharedScript
    GrantIds = {1, 2, 3}
    RunnerIds = {w1, w2, w3, w4, w5}
    OwnId = own
    TurnCount <- ScriptLengths
    LeaseTTL = 1
    AdapterMayBeMissing = FALSE
    MaxLeases = 8
    MaxKills = 1
    MaxFaults = 0
    MaxTicks = 1
    MaxExpiries = 0
SPECIFICATION FairSpec
INVARIANTS GrantDiesWithCommand
PROPERTIES RunFinishes
