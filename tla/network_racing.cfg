\* Two callers: what CreatePipe lets through, and what BuildNetwork accepts of it.
CONSTANTS
    Clients = {c1,c2}
    Sources = {s1,s2}
    Emitters = {e1}
    Junctions = {j1}
    Drains = {}
    Foreign = {x1}
    None = none
    MaxPipes = 3
SPECIFICATION Spec
SYMMETRY Symmetry
INVARIANTS TypeOK ParentsOnlyByRacing BuiltIsTree TreesAreBuilt
           EachNodeAfterItsChildren
\* Callers may leave a network as it is.
CHECK_DEADLOCK FALSE
