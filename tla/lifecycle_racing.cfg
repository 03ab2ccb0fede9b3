\* Two callers racing, from creation and from an installed system: the gates,
\* and the order of the stages, even if the clock is set back.
CONSTANTS
    Clients = {c1, c2}
    MaxEvents = 6
    MaxTests = 1
    MaxEpoch = 1
    MayStepBack = TRUE
SPECIFICATION SpecRacing
SYMMETRY ClientSymmetry
CONSTRAINT Followed
INVARIANTS TypeOK DesignGate HydrostaticGate AcceptanceGate NoStageSkipped
