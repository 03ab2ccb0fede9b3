\* Two callers who ask for two systems, any of them cancelled at any time.
CONSTANTS
    Callers = {c1,c2}
    Systems = {s1,s2}
    None = none
SPECIFICATION FairSpec
INVARIANTS TypeOK LocksInOrder
PROPERTIES ImplementsSystemMutex EveryCallReturns
