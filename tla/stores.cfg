SPECIFICATION StoresSpec
CONSTANTS
    MaxModels = 1
    c1 = c1
    c2 = c2
    t1 = t1
    t2 = t2
    r1 = r1
    Chains = {c1, c2}
    Writers = {t1, t2}
    Readers = {r1}
    Inputs <- SomeInputs
    Contexts <- SomeContexts
    Limits = {9}
    MaxChains = 1
    MaxLines = 2
    FlushInterval = 2
    MaxHistory = 3
    MaxOutcomes = 3
    MaxCommits = 4
    MaxFaults = 1
    MaxCrashes = 1
SYMMETRY Symmetric
INVARIANTS
    TypeOK
    StatsAccountForPrefix
    LagBounded
    HistoryKept
    ViewFaithful
    StoresAgree
CHECK_DEADLOCK FALSE
