-------------------------- MODULE LifecycleService --------------------------
(***************************************************************************)
(* The life cycle of one system as the server keeps it: the state column,  *)
(* the append-only stream of lifecycle events, the rows that gate a        *)
(* transition, the calls in flight and the restart recovery.               *)
(*                                                                         *)
(* The server runs every HTTP request on a goroutine of its own.  A        *)
(* service method is a sequence of database calls, each atomic by itself   *)
(* (one connection, and InTx for a group of writes), so a method is a      *)
(* sequence of actions here: one per database call whose place in the      *)
(* order can matter.  Transition takes no lock; Calculate holds the        *)
(* system's mutex from its first read to its last write.                   *)
(*                                                                         *)
(* A call that is refused changes no row, so its step would be a stutter   *)
(* and only its guard is written.  The calls that the impairment service   *)
(* and the startup auto-restore make to Transition are calls like any      *)
(* other here: a Client stands for a goroutine, whoever started it.        *)
(***************************************************************************)
EXTENDS Lifecycle, Sequences

CONSTANTS Clients,      \* the goroutines that may have a call in flight
          MaxEvents,    \* bound: lifecycle events recorded
          MaxTests,     \* bound: hydrostatic tests recorded
          MaxEpoch,     \* bound: the wall clock, in seconds from the start
          MayStepBack   \* whether the wall clock may be set back

ASSUME BoundsAssumption ==
    MaxEvents \in Nat /\ MaxTests \in Nat /\ MaxEpoch \in Nat

ASSUME StepBackAssumption == MayStepBack \in BOOLEAN

VARIABLES
    state,            \* systems.state
    events,           \* lifecycle_events, in the order of their rowids
    hydraulicResult,  \* whether hydraulic_results has a row for the system
    tests,            \* hydrostatic_tests.passed, in the order recorded
    acceptance,       \* the acceptance record's conclusion, or "none"
    clock,            \* the wall clock, in unix seconds
    req,              \* the call each client has in flight
    up                \* whether the server process is serving

rows == << events, hydraulicResult, tests, acceptance >>
vars == << state, events, hydraulicResult, tests, acceptance, clock, req, up >>

Event == [from : SystemStates, to : SystemStates, epoch : Nat]

(***************************************************************************)
(* A call in flight.  "check": Transition has read the system and found    *)
(* the move legal; "commit": its preconditions held and its event is       *)
(* stamped; "calculate": Calculate holds the lock and has read the system; *)
(* "promote": it has stored its rows and read the system in draft.  The    *)
(* field from is the state that was read, which the method goes on using.  *)
(***************************************************************************)
Phases == {"idle", "check", "commit", "calculate", "promote"}

Call == [phase : Phases, from : SystemStates, to : SystemStates, epoch : Nat]

Idle == [phase |-> "idle", from |-> "draft", to |-> "draft", epoch |-> 0]

Return(c) == req' = [req EXCEPT ![c] = Idle]

----------------------------------------------------------------------------
\* A project engineer has just created the system: CreateSystem stores it in draft.
Init ==
    /\ state = "draft"
    /\ events = << >>
    /\ hydraulicResult = FALSE
    /\ tests = << >>
    /\ acceptance = "none"
    /\ clock = 0
    /\ req = [c \in Clients |-> Idle]
    /\ up = TRUE

----------------------------------------------------------------------------
(* Transition *)

anyHydrostaticPassed == \E i \in DOMAIN tests : tests[i]

\* Mutant: the gate of accepted looks at whether there is a test, not at its verdict.
PreconditionsAnyTest(from, to) ==
    /\ to \in {"designed", "submitted"} => hydraulicResult
    /\ to = "accepted" => tests # << >>
    /\ to = "in_service" /\ from = "accepted" => acceptance = "pass"

\* Mutant: an acceptance record is not asked for.
PreconditionsNoAcceptance(from, to) ==
    /\ to \in {"designed", "submitted"} => hydraulicResult
    /\ to = "accepted" => anyHydrostaticPassed

\* The gates in front of designed, submitted, accepted and in_service.  The
\* last one applies only to the caller that read the system as accepted.
checkTransitionPreconditions(from, to) ==
    /\ to \in {"designed", "submitted"} => hydraulicResult
    /\ to = "accepted" => anyHydrostaticPassed
    /\ to = "in_service" /\ from = "accepted" => acceptance = "pass"

\* GetSystem and Validate: the state is read here, once, outside any transaction.
BeginTransition(c, to) ==
    /\ up
    /\ req[c].phase = "idle"
    /\ CanTransition(state, to)
    /\ req' = [req EXCEPT ![c] =
                 [phase |-> "check", from |-> state, to |-> to, epoch |-> 0]]
    /\ UNCHANGED << state, rows, clock, up >>

\* The preconditions hold, and the event is built with the time of this moment.
PassPreconditions(c) ==
    /\ req[c].phase = "check"
    /\ checkTransitionPreconditions(req[c].from, req[c].to)
    /\ req' = [req EXCEPT ![c].phase = "commit", ![c].epoch = clock]
    /\ UNCHANGED << state, rows, clock, up >>

\* Mutant: the state is written, and the event that should record it is not.
CommitWithoutEvent(c) ==
    /\ req[c].phase = "commit"
    /\ Len(events) < MaxEvents
    /\ state' = req[c].to
    /\ Return(c)
    /\ UNCHANGED << rows, clock, up >>

\* Mutant: the event is written, and the state column is left behind.
CommitEventOnly(c) ==
    /\ req[c].phase = "commit"
    /\ Len(events) < MaxEvents
    /\ events' = Append(events, [from  |-> req[c].from,
                                 to    |-> req[c].to,
                                 epoch |-> req[c].epoch])
    /\ Return(c)
    /\ UNCHANGED << state, hydraulicResult, tests, acceptance, clock, up >>

\* Event and state column in one transaction.  Nothing looks at the state
\* column again: the move is made from the state that was read at the start.
CommitTransition(c) ==
    /\ req[c].phase = "commit"
    /\ Len(events) < MaxEvents
    /\ events' = Append(events, [from  |-> req[c].from,
                                 to    |-> req[c].to,
                                 epoch |-> req[c].epoch])
    /\ state' = req[c].to
    /\ Return(c)
    /\ UNCHANGED << hydraulicResult, tests, acceptance, clock, up >>

----------------------------------------------------------------------------
(* Calculate *)

\* The per-system mutex: at most one Calculate is past its first statement.
LockFree == \A c \in Clients : req[c].phase \notin {"calculate", "promote"}

BeginCalculate(c) ==
    /\ up
    /\ req[c].phase = "idle"
    /\ LockFree
    /\ req' = [req EXCEPT ![c] =
                 [phase |-> "calculate", from |-> state, to |-> "designed", epoch |-> 0]]
    /\ UNCHANGED << state, rows, clock, up >>

\* Mutant: the derived rows are rolled back, the promotion goes ahead.
PersistNothing(c) ==
    /\ req[c].phase = "calculate"
    /\ req' = [req EXCEPT ![c] = IF req[c].from = "draft"
                                 THEN [req[c] EXCEPT !.phase = "promote"]
                                 ELSE Idle]
    /\ UNCHANGED << state, rows, clock, up >>

\* The network could be calculated: its result is stored, in one transaction.
\* Only a caller that read the system in draft has something left to do.
PersistDerived(c) ==
    /\ req[c].phase = "calculate"
    /\ hydraulicResult' = TRUE
    /\ req' = [req EXCEPT ![c] = IF req[c].from = "draft"
                                 THEN [req[c] EXCEPT !.phase = "promote"]
                                 ELSE Idle]
    /\ UNCHANGED << state, events, tests, acceptance, clock, up >>

\* Mutant: the promotion writes the stage after the one it should.
PromoteToSubmitted(c) ==
    /\ req[c].phase = "promote"
    /\ state' = "submitted"
    /\ Return(c)
    /\ UNCHANGED << rows, clock, up >>

\* The state column alone is written: no event records the promotion, and
\* the state it replaces is whatever the column holds by now.
PromoteToDesigned(c) ==
    /\ req[c].phase = "promote"
    /\ state' = "designed"
    /\ Return(c)
    /\ UNCHANGED << rows, clock, up >>

\* The call gives up between two of its steps: a precondition fails, the
\* network cannot be calculated, the caller hangs up (every database call
\* carries the request's context) or the database returns an error.
Abandon(c) ==
    /\ req[c].phase # "idle"
    /\ Return(c)
    /\ UNCHANGED << state, rows, clock, up >>

----------------------------------------------------------------------------
(* The records that gate a transition.  Neither method looks at the state. *)

RecordHydrostaticTest(leaked) ==
    /\ up
    /\ Len(tests) < MaxTests
    /\ tests' = Append(tests, ~leaked)
    /\ UNCHANGED << state, events, hydraulicResult, acceptance, clock, req, up >>

\* Mutant: the conclusion is stored without being checked.
RecordAnyConclusion(conclusion) ==
    /\ up
    /\ acceptance' \in {conclusion, "conditional"}
    /\ UNCHANGED << state, events, hydraulicResult, tests, clock, req, up >>

\* The record is unique per system: a later one replaces an earlier one.
RecordAcceptance(conclusion) ==
    /\ up
    /\ acceptance' = conclusion
    /\ UNCHANGED << state, events, hydraulicResult, tests, clock, req, up >>

----------------------------------------------------------------------------
(* Time, crash and restart *)

Tick ==
    /\ clock < MaxEpoch
    /\ clock' = clock + 1
    /\ UNCHANGED << state, rows, req, up >>

\* The wall clock is read anew each time and may have been set back: what is
\* written next sorts before events that were written earlier.
StepBack ==
    /\ MayStepBack
    /\ \E now \in 0..MaxEpoch : now < clock /\ clock' = now
    /\ UNCHANGED << state, rows, req, up >>

\* The process dies: the calls in flight are gone, the committed rows stay.
Crash ==
    /\ up
    /\ up' = FALSE
    /\ req' = [c \in Clients |-> Idle]
    /\ UNCHANGED << state, rows, clock >>

\* Mutant: the stream is read from its other end.
IsFirstEvent(i) ==
    \A j \in DOMAIN events :
        \/ events[i].epoch < events[j].epoch
        \/ events[i].epoch = events[j].epoch /\ i <= j

\* ORDER BY event_epoch, rowid puts event i last.
IsLastEvent(i) ==
    \A j \in DOMAIN events :
        \/ events[j].epoch < events[i].epoch
        \/ events[j].epoch = events[i].epoch /\ j <= i

\* A system in draft is skipped; any other has its result recomputed and
\* stored again, unless its network cannot be calculated.
ReconcileResult ==
    \E calculable \in BOOLEAN :
        hydraulicResult' = (hydraulicResult \/ (state # "draft" /\ calculable))

\* The last event, if there is one, decides what the state column holds.  A
\* database error is logged and leaves the state as it is.
CorrectStateFromEvents ==
    \/ UNCHANGED state
    \/ \E i \in DOMAIN events : IsLastEvent(i) /\ state' = events[i].to

\* ReconcileAll runs to its end before the server accepts a request.
Restart ==
    /\ ~up
    /\ up' = TRUE
    /\ ReconcileResult
    /\ CorrectStateFromEvents
    /\ UNCHANGED << events, tests, acceptance, clock, req >>

----------------------------------------------------------------------------
Next ==
    \/ \E c \in Clients :
          \/ \E to \in SystemStates : BeginTransition(c, to)
          \/ PassPreconditions(c)
          \/ CommitTransition(c)
          \/ BeginCalculate(c)
          \/ PersistDerived(c)
          \/ PromoteToDesigned(c)
          \/ Abandon(c)
    \/ \E leaked \in BOOLEAN : RecordHydrostaticTest(leaked)
    \/ \E conclusion \in {"pass", "fail"} : RecordAcceptance(conclusion)
    \/ Tick
    \/ StepBack
    \/ Crash
    \/ Restart

Spec == Init /\ [][Next]_vars

----------------------------------------------------------------------------
(* Properties of every interleaving, with any number of clients *)

\* Every variable holds a value of its type.
TypeOK ==
    /\ state \in SystemStates
    /\ events \in Seq(Event)
    /\ hydraulicResult \in BOOLEAN
    /\ tests \in Seq(BOOLEAN)
    /\ acceptance \in {"none", "pass", "fail"}
    /\ clock \in Nat
    /\ req \in [Clients -> Call]
    /\ up \in BOOLEAN

AcceptedStates == {"accepted", "in_service", "impaired", "restored"}
ServiceStates  == {"in_service", "impaired", "restored"}

\* Whatever the order of the calls, a system is past draft only if a
\* hydraulic result is stored for it: Calculate stores before it promotes, and
\* a restart never brings back a state without its result.
DesignGate == state # "draft" => hydraulicResult

\* A system that counts as accepted, in service or beyond has passed a
\* hydrostatic test, even if its move was made from a state since replaced.
HydrostaticGate == state \in AcceptedStates => anyHydrostaticPassed

\* A system that is or has been in service has an acceptance record.  (It may
\* by now say "fail": the record can be rewritten in any state.)
AcceptanceGate == state \in ServiceStates => acceptance # "none"

\* Stages recorded before position n of the stream.
RecordedBefore(k, n) == \E j \in DOMAIN events : j < n /\ events[j].to = k

\* No stage of the main line is skipped: each event follows a legal edge from
\* a stage all of whose predecessors the stream recorded earlier, and the
\* state column never stands beyond what is recorded.  Racing callers may make
\* the stream jump back, or repeat a move, but not forward past a gate.
NoStageSkipped ==
    /\ \A i \in DOMAIN events :
          /\ CanTransition(events[i].from, events[i].to)
          /\ \A k \in StagesUpTo(events[i].from) : RecordedBefore(k, i)
    /\ \A k \in StagesUpTo(state) : RecordedBefore(k, Len(events) + 1)

----------------------------------------------------------------------------
(* Properties of a server that is handed one call at a time *)

\* The state column moves along the edges of the graph only, over crashes,
\* abandoned calls and restarts too.  Two racing callers break it (the run
\* lifecycle_race), although lifecycle_service.go:16-20 validates each move.
StateChangesFollowGraph ==
    [][state' # state => CanTransition(state, state')]_vars

\* Each event starts where the one before it ended, except that a calculation
\* may have promoted a system from draft to designed in between.
StreamIsAPath ==
    \A i \in DOMAIN events :
        LET before == IF i = 1 THEN "draft" ELSE events[i - 1].to
        IN  \/ events[i].from = before
            \/ before = "draft" /\ events[i].from = "designed"

\* The state column says what the last event says, except for that promotion.
StateFollowsStream ==
    LET last == IF events = << >> THEN "draft" ELSE events[Len(events)].to
    IN  state = last \/ (last = "draft" /\ state = "designed")

\* A restart changes nothing of the state, unless it undoes that promotion.
RestartUndoesOnlyPromotion ==
    [][~up /\ up' => state' = state \/ (state = "designed" /\ state' = "draft")]_vars
=============================================================================
