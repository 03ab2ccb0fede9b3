\* Two callers racing, calls cut short, crashes also during the recovery.
CONSTANTS
    Clients = {c1,c2}
    Main = main
    None = none
    Rules = {r1,r2}
    Broken = {2}
    InitialSupply = 1
    MayFail = TRUE
    MaxEdits = 3
SPECIFICATION Spec
SYMMETRY Symmetry
INVARIANTS TypeOK ChecksFromOneRun ReportIsInOrder
PROPERTIES RestartConverges ImplementsDerivedRows ImplementsSystemMutex
