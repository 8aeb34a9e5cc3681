\* The policies that write only under the key's lock (all but BestEffort),
\* no application Sets; generator failures and backend failures.
CONSTANTS
    c1 = c1
    c2 = c2
    c3 = c3
    NoEntry = NoEntry
    NoTime = NoTime
    Callers <- MCCallers2
    Policies <- LockingPolicies
    TTL = 2
    Cooldown = 1
    CoopTimeout = 1
    StaleTTL = 4
    DefaultThresholdPct = 50
    CallThresholdPct = 0
    BetaPct = 100
    MaxTime = 4
    MaxCalls = 3
    BackendFaults = FALSE
    GenFaults = TRUE
    AllowAppSet = FALSE
SPECIFICATION Spec
SYMMETRY CallerSymmetry
INVARIANT SyncWriteIntoAbsent
PROPERTY NoVersionRegression
