\* StaleWhileRevalidate on a fresh backend, with a stale window longer than
\* the run.
CONSTANTS
    c1 = c1
    c2 = c2
    c3 = c3
    NoEntry = NoEntry
    NoTime = NoTime
    Callers <- MCCallers2
    Policies = {"StaleWhileRevalidate"}
    TTL = 1
    Cooldown = 0
    CoopTimeout = 1
    StaleTTL = 10
    DefaultThresholdPct = 50
    CallThresholdPct = 0
    BetaPct = 100
    MaxTime = 3
    MaxCalls = 3
    BackendFaults = FALSE
    GenFaults = FALSE
    AllowAppSet = FALSE
SPECIFICATION Spec
INVARIANT StaleServedAfterExpiry
