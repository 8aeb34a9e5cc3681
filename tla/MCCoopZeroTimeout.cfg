\* CooperativeRefresh with cooperativeTimeout = 0 on a missing key.
CONSTANTS
    c1 = c1
    c2 = c2
    c3 = c3
    NoEntry = NoEntry
    NoTime = NoTime
    Callers <- MCCallers2
    Policies = {"CooperativeRefresh"}
    TTL = 2
    Cooldown = 0
    CoopTimeout = 0
    StaleTTL = 4
    DefaultThresholdPct = 50
    CallThresholdPct = 0
    BetaPct = 100
    MaxTime = 2
    MaxCalls = 2
    BackendFaults = FALSE
    GenFaults = FALSE
    AllowAppSet = FALSE
SPECIFICATION Spec
INVARIANT CoopZeroTimeoutFallsBack
