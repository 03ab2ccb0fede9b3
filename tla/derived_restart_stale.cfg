\* One caller, crashes, and events that are listed out of the order of their writes.
CONSTANTS
    Clients = {c1}
    Main = main
    None = none
    Rules = {r1,r2}
    Broken = {2}
    InitialSupply = 1
    MayFail = TRUE
    MaxEdits = 3
SPECIFICATION Spec
PROPERTIES ServedResultIsCurrent
