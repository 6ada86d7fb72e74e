\* Two Runs executed from one directory and its one checkpoint, with a kill, an expiring grant and a failing call of the control plane.
CONSTANTS
    a1 = a1  a2 = a2  c1 = c1  c2 = c2
    Cases = {c1, c2}
    Runners = {r1}
    Takes = {1}
    Refused = {}
    TargetRaises = FALSE
    DiskRaises = FALSE
    Observed = {}
    MaxParents = 64
    None = None
    Attempts = {a1, a2}
    RunOf <- TwoRuns
    ScriptOf <- TwoScripts
    GrantIds = {1}
    RunnerIds = {w1, w2, w3, w4, w5}
    OwnId = None
    TurnCount <- OneTurn
    LeaseTTL = 1
    AdapterMayBeMissing = TRUE
    MaxLeases = 8
    MaxKills = 1
    MaxFaults = 1
    MaxTicks = 0
    MaxExpiries = 1
SPECIFICATION Spec
INVARIANTS ResultsOfTheRun
