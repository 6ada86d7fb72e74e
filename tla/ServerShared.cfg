\* Two runners compete for the two cases of one project; a key of another project tries, too.
CONSTANTS
    c1 = c1  c2 = c2  k1 = k1  k2 = k2  p1 = p1  p2 = p2
    Cases = {c1, c2}
    Runners = {r1, r2}
    Keys = {k1, k2}
    Projects = {p1, p2}
    ProjectOf <- OneProject
    KeyProject <- TwoKeys
    TurnCount <- ScriptLengths
    IdemKeys = {i1, i2}
    Outputs = {o1}
    LeaseTTL = 1
    MaxLeases = 2
    MaxSequence = 1
    None = None
SYMMETRY Symmetry
SPECIFICATION Spec
INVARIANTS TypeOK LeaseDiscipline OneLeasePerRunner GaplessTurns TerminalMeansSealed
PROPERTIES TokensOnlyDegrade EvidenceUnderLease ProjectIsolation ImplementsLog
