\* Every miss policy, application Sets and backend faults (the generator never fails here).
CONSTANTS
    c1 = c1
    c2 = c2
    c3 = c3
    NoEntry = NoEntry
    NoTime = NoTime
    Callers <- MCCallers2
    Policies <- MissPolicies
    TTL = 2
    Cooldown = 2
    CoopTimeout = 1
    StaleTTL = 4
    DefaultThresholdPct = 50
    CallThresholdPct = 0
    BetaPct = 100
    MaxTime = 4
    MaxCalls = 3
    BackendFaults = TRUE
    GenFaults = FALSE
    AllowAppSet = TRUE
SPECIFICATION Spec
SYMMETRY CallerSymmetry
INVARIANT TypeOK
INVARIANT LockExclusive
INVARIANT RefreshCooldownRespected
