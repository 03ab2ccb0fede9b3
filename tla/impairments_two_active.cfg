\* One caller, two impairments of one system.
CONSTANTS
    Systems = {s1}
    Clients = {c1}
    Main = main
    Starts = {0}
    Expectations = {2}
    ManualTargets = {}
    MayFail = FALSE
    MaxImpairments = 2
    MaxEpoch = 1
SPECIFICATION Spec
PROPERTIES ResolvedBeforeService
\* Nobody has to make another call: a server whose bounds are used up may rest.
CHECK_DEADLOCK FALSE
