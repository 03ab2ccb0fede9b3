---------------------------- MODULE SystemMutex ----------------------------
(***************************************************************************)
(* What the per-system mutex promises: at any moment at most one caller is *)
(* inside a calculation or a compliance run of a system, and calls of      *)
(* different systems do not exclude each other.                            *)
(***************************************************************************)
CONSTANTS Callers,   \* the goroutines that serve requests
          Systems    \* the systems they ask for

VARIABLE inside      \* who is inside a run, per system

Init == inside = [s \in Systems |-> {}]

Enter(c, s) ==
    /\ inside[s] = {}
    /\ inside' = [inside EXCEPT ![s] = {c}]

Leave(c, s) ==
    /\ inside[s] = {c}
    /\ inside' = [inside EXCEPT ![s] = {}]

Next == \E c \in Callers, s \in Systems : Enter(c, s) \/ Leave(c, s)

Spec == Init /\ [][Next]_inside
=============================================================================
