\* One call at a time, with crashes, abandoned calls and restarts, on a clock
\* that does not go back.
CONSTANTS
    Clients = {c1}
    MaxEvents = 8
    MaxTests = 1
    MaxEpoch = 1
    MayStepBack = FALSE
SPECIFICATION Spec
INVARIANTS StreamIsAPath StateFollowsStream
PROPERTIES StateChangesFollowGraph RestartUndoesOnlyPromotion
