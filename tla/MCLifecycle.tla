---------------------------- MODULE MCLifecycle ----------------------------
(***************************************************************************)
(* LifecycleService on small instances: one client, or two of them racing. *)
(* The whole main line with two clients is too long a walk for TLC, so the *)
(* racing run starts at two points of it: a system just created, and one   *)
(* that a client calling alone has brought to installed.                   *)
(***************************************************************************)
EXTENDS LifecycleService, SequencesExt

\* The clients are interchangeable: no definition names one.
ClientSymmetry == Permutations(Clients)

\* The moves that brought the system to installed.
ToInstalled ==
    << [from |-> "designed",  to |-> "submitted", epoch |-> 0],
       [from |-> "submitted", to |-> "approved",  epoch |-> 0],
       [from |-> "approved",  to |-> "installed", epoch |-> 0] >>

\* A state that Init reaches with one client and without a tick of the clock.
InitInstalled ==
    /\ state = "installed"
    /\ events = ToInstalled
    /\ hydraulicResult = TRUE
    /\ tests = << >>
    /\ acceptance = "none"
    /\ clock = 0
    /\ req = [c \in Clients |-> Idle]
    /\ up = TRUE

SpecRacing == (Init \/ InitInstalled) /\ [][Next]_vars

\* What is followed on: an installed system to the end of the bounds, where
\* only what an idle server does is left, any other for its first events and
\* without the records of commissioning.
Followed ==
    /\ Len(events) = MaxEvents => \A c \in Clients : req[c] = Idle
    /\ \/ IsPrefix(ToInstalled, events)
       \/ Len(events) < Len(ToInstalled) /\ tests = << >> /\ acceptance = "none"
=============================================================================
