CONSTANTS
    Missing = Missing
    Junk = Junk
    EnvValues <- MCEnvValues
    DurationArgs <- MCDurationArgs
    FloatArgs <- MCFloatArgs
    MaxOptions = 2
    DotEnvFaults = TRUE
SPECIFICATION Spec
INVARIANT EnvLoadAllOrNothing
