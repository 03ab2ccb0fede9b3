----------------------------- MODULE Lifecycle -----------------------------
(***************************************************************************)
(* The life-cycle graph of a fire-protection system: package lifecycle.    *)
(* The package is pure: it owns which moves are legal and nothing else;    *)
(* who may make a move, and when, is the service layer's business          *)
(* (module LifecycleService).                                              *)
(***************************************************************************)
EXTENDS Naturals

SystemStates == { "draft", "designed", "submitted", "approved", "installed",
                  "hydrostatic", "accepted", "in_service", "impaired", "restored" }

\* The adjacency matrix of the state machine.
legalTransitions(from) ==
    CASE from = "draft"       -> {"designed"}
      [] from = "designed"    -> {"submitted", "draft"}
      [] from = "submitted"   -> {"approved", "designed"}
      [] from = "approved"    -> {"installed", "submitted"}
      [] from = "installed"   -> {"hydrostatic", "approved"}
      [] from = "hydrostatic" -> {"accepted", "installed"}
      [] from = "accepted"    -> {"in_service", "hydrostatic"}
      [] from = "in_service"  -> {"impaired"}
      [] from = "impaired"    -> {"restored", "in_service"}
      [] from = "restored"    -> {"in_service"}

CanTransition(from, to) == to \in legalTransitions(from)

\* The position of a state in AllStates, which lists them in lifecycle order.
Rank(s) ==
    CASE s = "draft"       -> 1
      [] s = "designed"    -> 2
      [] s = "submitted"   -> 3
      [] s = "approved"    -> 4
      [] s = "installed"   -> 5
      [] s = "hydrostatic" -> 6
      [] s = "accepted"    -> 7
      [] s = "in_service"  -> 8
      [] s = "impaired"    -> 9
      [] s = "restored"    -> 10

\* The stages a system only ever reaches through a recorded transition:
\* every state except draft (where it is created) and designed (where a
\* calculation may put it without recording anything).
RecordedStages == SystemStates \ {"draft", "designed"}

\* The stages of the main line that lead up to state s.
StagesUpTo(s) == {k \in RecordedStages : Rank(k) <= Rank(s)}
=============================================================================
