\* One caller whose calls are not cut short: what holds between calls.
CONSTANTS
    Systems = {s1,s2}
    Clients = {c1}
    Main = main
    Starts = {0,1}
    Expectations = {2}
    ManualTargets = {}
    MayFail = FALSE
    MaxImpairments = 3
    MaxEpoch = 2
SPECIFICATION Spec
INVARIANTS OutOfServiceIsActive EveryImpairmentMeasured AdjacentWatch
PROPERTIES RestartKeepsStates
\* Nobody has to make another call: a server whose bounds are used up may rest.
CHECK_DEADLOCK FALSE
