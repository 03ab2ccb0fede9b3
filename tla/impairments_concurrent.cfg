\* Two callers racing, calls cut short, crashes and restarts.
CONSTANTS
    Systems = {s1}
    Clients = {c1,c2}
    Main = main
    Starts = {0}
    Expectations = {2}
    ManualTargets = {"restored", "in_service"}
    MayFail = TRUE
    MaxImpairments = 2
    MaxEpoch = 2
SPECIFICATION Spec
SYMMETRY Symmetry
INVARIANTS TypeOK ImpairedHasMeasure
PROPERTIES PastDueRestoredAtStartup ImpairmentsAreKept
\* Nobody has to make another call: a server whose bounds are used up may rest.
CHECK_DEADLOCK FALSE
