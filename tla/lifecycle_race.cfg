CONSTANTS
    Clients = {c1,c2}
    MaxEvents = 6
    MaxTests = 2
    MaxEpoch = 1
    MayStepBack = FALSE
SPECIFICATION Spec
PROPERTIES StateChangesFollowGraph
