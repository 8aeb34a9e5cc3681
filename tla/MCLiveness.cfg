\* Liveness under the fairness of the Go scheduler: two callers, every
\* miss policy, backend and generator faults; two calls in all.
CONSTANTS
    c1 = c1
    c2 = c2
    c3 = c3
    NoEntry = NoEntry
    NoTime = NoTime
    Callers <- MCCallers2
    Policies <- MissPolicies
    TTL = 2
    Cooldown = 1
    CoopTimeout = 1
    StaleTTL = 4
    DefaultThresholdPct = 50
    CallThresholdPct = 0
    BetaPct = 100
    MaxTime = 3
    MaxCalls = 2
    BackendFaults = TRUE
    GenFaults = TRUE
    AllowAppSet = TRUE
SPECIFICATION LiveSpec
PROPERTY EveryTaskReturns
\* A state with no successor is a run that stops: with every goroutine
\* returned that is the end of a bounded run (Finished), and with one still
\* busy it violates EveryTaskReturns, which this run checks instead.
CHECK_DEADLOCK FALSE
