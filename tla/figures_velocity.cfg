\* Velocities judged by the rule.
CONSTANTS
    SprinklerFlow <- MCSprinklerFlow
    FrictionLoss <- MCFrictionLoss
    ElevationPressure <- MCElevationPressure
    Velocity <- MCVelocity
    Networks <- MCNetworks
    Supplies <- MCSupplies
    Pumps <- MCPumps
    Designs <- MCDesigns
    Classes = {"light", "extra2", "unknown"}
    Flows <- MCFlows
    NoPump = nopump
    Quarter = 1000
    None = none
    Garbage <- MCGarbage
    remoteMinPressure = 4
    maxPressure = 30
    velocityLimit = 2
    MaxEdits = 2
SPECIFICATION Spec
PROPERTIES PassedPipesAreSlow
\* Without an emitter in the network nothing but the supply and pump can be set.
CHECK_DEADLOCK FALSE
