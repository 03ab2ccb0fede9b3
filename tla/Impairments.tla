---------------------------- MODULE Impairments ----------------------------
(***************************************************************************)
(* Taking systems of one project out of service and back: the impairment   *)
(* records, their compensating measures, and the life-cycle moves that     *)
(* CreateImpairment, RestoreImpairment and the startup auto-restore make.  *)
(*                                                                         *)
(* None of the three runs in a transaction or under a lock: each is a      *)
(* sequence of database calls, and one action here is one such call.  The  *)
(* life cycle is cut down to the states a system in service can still      *)
(* reach, which the graph of module Lifecycle closes: in_service,          *)
(* impaired, restored.  Of the event stream, which LifecycleService has in *)
(* full, only the event that it lists last is kept: the recovery takes the *)
(* state of the system from it.                                            *)
(***************************************************************************)
EXTENDS Lifecycle, Sequences, FiniteSets

CONSTANTS Systems,          \* the systems of the project, all in service
          Clients,          \* the goroutines that serve requests
          Main,             \* the goroutine that recovers at startup
          Starts,           \* started_epoch as a caller may give it; 0: not given
          Expectations,     \* expected_restore_epoch as a caller may give it
          ManualTargets,    \* where callers may move a system by the life-cycle request
          MayFail,          \* whether calls are cut short and the process dies
          MaxImpairments,   \* bound: impairments registered
          MaxEpoch          \* bound: the wall clock, which starts at 1

ASSUME ThreadsAssumption == Main \notin Clients
ASSUME InputsAssumption ==
    /\ Starts \subseteq Nat
    /\ Expectations \subseteq Nat
    /\ ManualTargets \subseteq SystemStates
    /\ MayFail \in BOOLEAN
ASSUME BoundsAssumption == MaxImpairments \in Nat /\ MaxEpoch \in Nat

Threads == Clients \union {Main}

VARIABLES
    state,        \* systems.state, per system
    latest,       \* the event that its stream lists last, per system
    impairments,  \* the rows of impairments with their measures, as inserted
    clock,        \* the wall clock, in unix seconds
    server,       \* "up", "down", "recovering", or "failing": with errors
    recoveryNow,  \* the time the running recovery took for now
    pastDue,      \* the impairments it has still to restore
    req           \* the call each thread has in flight

vars == << state, latest, impairments, clock, server, recoveryNow, pastDue, req >>

\* Which kinds of measure a caller brings; only the fire watch counts for the
\* adjacent systems, so the patrol stands for the temporary pipe as well.
Kinds == {"patrol", "manual_fire_watch"}

ServiceStates == {"in_service", "impaired", "restored"}

Impairment == [system : Systems, started : Nat, expected : Nat,
               kinds : SUBSET Kinds, status : {"active", "restored"}]

(***************************************************************************)
(* A call in flight.  "compensate", "insert", "measures": the steps of     *)
(* CreateImpairment after its checks.  "mark": RestoreImpairment has found *)
(* the impairment active.  "read" and "write": the two steps of the        *)
(* Transition to Head(moves), which has read the system at the time since. *)
(***************************************************************************)
Idle == [phase |-> "idle"]

Call ==
    {Idle}
    \union [phase : {"compensate", "insert"}, system : Systems, kinds : SUBSET Kinds,
            started : Nat, expected : Nat, inService : BOOLEAN]
    \union [phase : {"measures"}, system : Systems, kinds : SUBSET Kinds,
            id : Nat, inService : BOOLEAN]
    \union [phase : {"mark"}, id : Nat]
    \union [phase : {"read"}, system : Systems, moves : Seq(SystemStates)]
    \union [phase : {"write"}, system : Systems, moves : Seq(SystemStates), since : Nat]

Return(t) == req' = [req EXCEPT ![t] = Idle]

\* The Transition calls a method still has to make, in order.
Moves(t, s, moves) ==
    req' = [req EXCEPT ![t] = IF moves = << >> THEN Idle
                              ELSE [phase |-> "read", system |-> s, moves |-> moves]]

Active(i) == impairments[i].status = "active"

Init ==
    /\ state = [s \in Systems |-> "in_service"]
    /\ latest = [s \in Systems |-> [to |-> "in_service", epoch |-> 1]]
    /\ impairments = << >>
    /\ clock = 1
    /\ server = "up"
    /\ recoveryNow = 0
    /\ pastDue = {}
    /\ req = [t \in Threads |-> Idle]

----------------------------------------------------------------------------
(* CreateImpairment *)

\* Calls that are still to insert their impairment.
Inserting == {c \in Clients : req[c].phase \in {"compensate", "insert"}}

\* The system is read and the request is checked; then a start that was not
\* given becomes now.
BeginCreate(c, s, kinds, started, expected) ==
    /\ server = "up"
    /\ req[c] = Idle
    /\ Len(impairments) + Cardinality(Inserting) < MaxImpairments
    /\ state[s] \in {"in_service", "impaired"}
    /\ kinds # {}
    /\ expected > started
    /\ req' = [req EXCEPT ![c] =
                 [phase     |-> "compensate",
                  system    |-> s,
                  kinds     |-> kinds,
                  started   |-> IF started = 0 THEN clock ELSE started,
                  expected  |-> expected,
                  inService |-> state[s] = "in_service"]]
    /\ UNCHANGED << state, latest, impairments, clock, server, recoveryNow, pastDue >>

\* Mutant: impairments of other systems are looked at only if they have no measures.
CompensatedIgnoringPatrols(s, kinds) ==
    \A i \in DOMAIN impairments :
        impairments[i].system # s /\ Active(i) =>
            "manual_fire_watch" \in kinds \/ impairments[i].kinds # {}

\* checkCrossSystemCompensation accepts: of this impairment and an active one
\* of another system, one has a manual fire watch.
Compensated(s, kinds) ==
    \A i \in DOMAIN impairments :
        impairments[i].system # s /\ Active(i) =>
            "manual_fire_watch" \in kinds \union impairments[i].kinds

CheckCompensation(c) ==
    /\ req[c].phase = "compensate"
    /\ IF Compensated(req[c].system, req[c].kinds)
       THEN req' = [req EXCEPT ![c].phase = "insert"]
       ELSE Return(c)
    /\ UNCHANGED << state, latest, impairments, clock, server, recoveryNow, pastDue >>

InsertImpairment(c) ==
    /\ req[c].phase = "insert"
    /\ impairments' = Append(impairments,
                             [system   |-> req[c].system,
                              started  |-> req[c].started,
                              expected |-> req[c].expected,
                              kinds    |-> {},
                              status   |-> "active"])
    /\ req' = [req EXCEPT ![c] =
                 [phase     |-> "measures",
                  system    |-> req[c].system,
                  id        |-> Len(impairments) + 1,
                  kinds     |-> req[c].kinds,
                  inService |-> req[c].inService]]
    /\ UNCHANGED << state, latest, clock, server, recoveryNow, pastDue >>

\* Mutant: the move is made first and the measures are left for later.
MoveBeforeMeasures(c) ==
    /\ req[c].phase = "measures"
    /\ Moves(c, req[c].system, << "impaired" >>)
    /\ UNCHANGED << state, latest, impairments, clock, server, recoveryNow, pastDue >>

\* Mutant: the last measure of the list is not inserted.
InsertAllButOneMeasure(c) ==
    /\ req[c].phase = "measures"
    /\ \E k \in req[c].kinds :
          IF req[c].kinds = {k}
          THEN /\ Moves(c, req[c].system,
                        IF req[c].inService THEN << "impaired" >> ELSE << >>)
               /\ UNCHANGED impairments
          ELSE /\ req' = [req EXCEPT ![c].kinds = @ \ {k}]
               /\ impairments' = [impairments EXCEPT ![req[c].id].kinds = @ \union {k}]
    /\ UNCHANGED << state, latest, clock, server, recoveryNow, pastDue >>

\* Mutant: a measure takes the place of the one before it.
ReplaceMeasure(c) ==
    /\ req[c].phase = "measures"
    /\ \E k \in req[c].kinds :
          /\ impairments' = [impairments EXCEPT ![req[c].id].kinds = {k}]
          /\ IF req[c].kinds = {k}
             THEN Moves(c, req[c].system,
                        IF req[c].inService THEN << "impaired" >> ELSE << >>)
             ELSE req' = [req EXCEPT ![c].kinds = @ \ {k}]
    /\ UNCHANGED << state, latest, clock, server, recoveryNow, pastDue >>

\* One measure is inserted.  After the last one the system is moved to
\* impaired, if this call read it in service.
InsertMeasure(c) ==
    /\ req[c].phase = "measures"
    /\ \E k \in req[c].kinds :
          /\ impairments' = [impairments EXCEPT ![req[c].id].kinds = @ \union {k}]
          /\ IF req[c].kinds = {k}
             THEN Moves(c, req[c].system,
                        IF req[c].inService THEN << "impaired" >> ELSE << >>)
             ELSE req' = [req EXCEPT ![c].kinds = @ \ {k}]
    /\ UNCHANGED << state, latest, clock, server, recoveryNow, pastDue >>

----------------------------------------------------------------------------
(* RestoreImpairment *)

\* An impairment already restored is refused.
BeginRestore(c, i) ==
    /\ server = "up"
    /\ req[c] = Idle
    /\ Active(i)
    /\ req' = [req EXCEPT ![c] = [phase |-> "mark", id |-> i]]
    /\ UNCHANGED << state, latest, impairments, clock, server, recoveryNow, pastDue >>

\* Mutant: the system is not moved on from restored.
MarkRestoredOneMove(c) ==
    /\ req[c].phase = "mark"
    /\ impairments' = [impairments EXCEPT ![req[c].id].status = "restored"]
    /\ Moves(c, impairments[req[c].id].system, << "restored" >>)
    /\ UNCHANGED << state, latest, clock, server, recoveryNow, pastDue >>

\* Mutant: the record takes the status that its system will have.
MarkInService(c) ==
    /\ req[c].phase = "mark"
    /\ impairments' = [impairments EXCEPT ![req[c].id].status = "in_service"]
    /\ Moves(c, impairments[req[c].id].system, << "restored", "in_service" >>)
    /\ UNCHANGED << state, latest, clock, server, recoveryNow, pastDue >>

\* The record is marked first; the two moves follow, whatever else is active.
MarkRestored(c) ==
    /\ req[c].phase = "mark"
    /\ impairments' = [impairments EXCEPT ![req[c].id].status = "restored"]
    /\ Moves(c, impairments[req[c].id].system, << "restored", "in_service" >>)
    /\ UNCHANGED << state, latest, clock, server, recoveryNow, pastDue >>

----------------------------------------------------------------------------
(* Transition, as the methods above and the life-cycle request call it *)

RequestMove(c, s, to) ==
    /\ server = "up"
    /\ req[c] = Idle
    /\ to \in ManualTargets
    /\ Moves(c, s, << to >>)
    /\ UNCHANGED << state, latest, impairments, clock, server, recoveryNow, pastDue >>

\* The system is read; a move its state does not allow ends the call, and
\* whatever the call has written by then stays.  No gate applies between
\* these states.
ReadSystem(t) ==
    /\ req[t].phase = "read"
    /\ LET s == req[t].system IN
       IF CanTransition(state[s], Head(req[t].moves))
       THEN req' = [req EXCEPT ![t] = [phase |-> "write",
                                       system |-> s,
                                       moves |-> req[t].moves,
                                       since |-> clock]]
       ELSE Return(t)
    /\ UNCHANGED << state, latest, impairments, clock, server, recoveryNow, pastDue >>

\* Mutant: of the events of one second the first is listed last.
AfterSecond(s, epoch) == epoch > latest[s].epoch

\* ORDER BY event_epoch, rowid: an event of the same second comes after.
After(s, epoch) == epoch >= latest[s].epoch

\* The event, stamped at some moment since the system was read, and the state
\* are written, from whatever the state is by now.
WriteSystem(t) ==
    /\ req[t].phase = "write"
    /\ LET s == req[t].system  to == Head(req[t].moves) IN
       /\ \E epoch \in req[t].since..clock :
             latest' = IF After(s, epoch)
                       THEN [latest EXCEPT ![s] = [to |-> to, epoch |-> epoch]]
                       ELSE latest
       /\ state' = [state EXCEPT ![s] = to]
       /\ Moves(t, s, Tail(req[t].moves))
    /\ UNCHANGED << impairments, clock, server, recoveryNow, pastDue >>

----------------------------------------------------------------------------
(* Failures, time and recovery *)

\* The caller hangs up, or the database refuses a call.
Abandon(c) ==
    /\ MayFail
    /\ req[c] # Idle
    /\ Return(c)
    /\ UNCHANGED << state, latest, impairments, clock, server, recoveryNow, pastDue >>

\* The process dies, while it serves or while it recovers.
Crash ==
    /\ MayFail
    /\ server # "down"
    /\ server' = "down"
    /\ pastDue' = {}
    /\ req' = [t \in Threads |-> Idle]
    /\ UNCHANGED << state, latest, impairments, clock, recoveryNow >>

Quiet == server = "up" /\ \A t \in Threads : req[t] = Idle

\* The process is told to stop, and Shutdown waits for the calls in flight.
Stop ==
    /\ Quiet
    /\ server' = "down"
    /\ UNCHANGED << state, latest, impairments, clock, recoveryNow, pastDue, req >>

Tick ==
    /\ clock < MaxEpoch
    /\ clock' = clock + 1
    /\ UNCHANGED << state, latest, impairments, server, recoveryNow, pastDue, req >>

\* The last event of each stream decides what the state column holds; a system
\* whose events cannot be read, or written to, keeps its state.
CorrectStatesFromEvents ==
    \E kept \in SUBSET Systems :
        /\ kept # {} => MayFail
        /\ state' = [s \in Systems |-> IF s \in kept THEN state[s] ELSE latest[s].to]

\* After the states, autoRestorePastDue lists the active impairments and takes
\* the time, once.
StartRecovery ==
    /\ server = "down"
    /\ server' = "recovering"
    /\ CorrectStatesFromEvents
    /\ recoveryNow' = clock
    /\ pastDue' = {i \in DOMAIN impairments :
                      Active(i) /\ impairments[i].expected <= clock}
    /\ UNCHANGED << latest, impairments, clock, req >>

Recovering == server \in {"recovering", "failing"}

\* Mutant: the loop leaves the records of systems that are not impaired alone.
RecoverImpairedOnly ==
    /\ Recovering
    /\ req[Main] = Idle
    /\ \E i \in pastDue :
          /\ pastDue' = pastDue \ {i}
          /\ LET s == impairments[i].system IN
             IF state[s] = "impaired"
             THEN /\ impairments' = [impairments EXCEPT ![i].status = "restored"]
                  /\ Moves(Main, s, << "restored", "in_service" >>)
             ELSE UNCHANGED << impairments, req >>
    /\ UNCHANGED << state, latest, clock, server, recoveryNow >>

\* The next record is marked restored, and its system moved if it is impaired.
RecoverImpairment ==
    /\ Recovering
    /\ req[Main] = Idle
    /\ \E i \in pastDue :
          /\ pastDue' = pastDue \ {i}
          /\ impairments' = [impairments EXCEPT ![i].status = "restored"]
          /\ LET s == impairments[i].system IN
             Moves(Main, s, IF state[s] = "impaired" THEN << "restored", "in_service" >>
                            ELSE << >>)
    /\ UNCHANGED << state, latest, clock, server, recoveryNow >>

\* The database refuses a call: a record is left as it is, or all that are
\* left.  The error is logged, and the recovery goes on to its end.
RecoveryFails ==
    /\ MayFail
    /\ Recovering
    /\ server' = "failing"
    /\ pastDue' \in SUBSET pastDue
    /\ Return(Main)
    /\ UNCHANGED << state, latest, impairments, clock, recoveryNow >>

\* The server listens only after the recovery has ended.
Serve ==
    /\ Recovering
    /\ req[Main] = Idle
    /\ pastDue = {}
    /\ server' = "up"
    /\ UNCHANGED << state, latest, impairments, clock, recoveryNow, pastDue, req >>

----------------------------------------------------------------------------
Begin(c) ==
    \/ \E s \in Systems, kinds \in SUBSET Kinds, started \in Starts, expected \in Expectations :
          BeginCreate(c, s, kinds, started, expected)
    \/ \E i \in DOMAIN impairments : BeginRestore(c, i)
    \/ \E s \in Systems, to \in SystemStates : RequestMove(c, s, to)

\* The next database call of the call in flight.
Proceed(t) ==
    \/ CheckCompensation(t)
    \/ InsertImpairment(t)
    \/ InsertMeasure(t)
    \/ MarkRestored(t)
    \/ ReadSystem(t)
    \/ WriteSystem(t)

Recovery == StartRecovery \/ RecoverImpairment \/ RecoveryFails \/ Serve

Next ==
    \/ \E c \in Clients : Begin(c) \/ Abandon(c)
    \/ \E t \in Threads : Proceed(t)
    \/ Recovery
    \/ Crash
    \/ Stop
    \/ Tick

Spec == Init /\ [][Next]_vars

----------------------------------------------------------------------------
(* Properties of every interleaving, with failures and restarts *)

\* Every variable holds a value of its type.
TypeOK ==
    /\ state \in [Systems -> ServiceStates]
    /\ latest \in [Systems -> [to : ServiceStates, epoch : Nat]]
    /\ impairments \in Seq(Impairment)
    /\ clock \in Nat
    /\ server \in {"up", "down", "recovering", "failing"}
    /\ recoveryNow \in Nat
    /\ pastDue \subseteq DOMAIN impairments
    /\ req \in [Threads -> Call]

\* A system stands impaired only if an impairment of it was registered together
\* with a compensating measure: the measures are written before the move.
\* (Unless a caller moves it there by the life-cycle request.)
ImpairedHasMeasure ==
    \A s \in Systems : state[s] \in {"impaired", "restored"} =>
        \E i \in DOMAIN impairments :
            impairments[i].system = s /\ impairments[i].kinds # {}

\* Whatever the last crash interrupted, no impairment that was due when the
\* recovery began is still active when the server begins to serve, unless the
\* database refused a call of the recovery.
PastDueRestoredAtStartup ==
    [][server = "recovering" /\ server' = "up" =>
          \A i \in DOMAIN impairments : Active(i) => impairments[i].expected > recoveryNow]_vars

\* An impairment is never reopened, and what was registered is never lost or
\* reassigned: its system, its dates and its measures stay.
ImpairmentsAreKept ==
    [][\A i \in DOMAIN impairments :
          /\ i \in DOMAIN impairments'
          /\ impairments'[i].system = impairments[i].system
          /\ impairments'[i].started = impairments[i].started
          /\ impairments'[i].expected = impairments[i].expected
          /\ impairments[i].kinds \subseteq impairments'[i].kinds
          /\ ~Active(i) => ~Active(i)']_vars

----------------------------------------------------------------------------
(* Properties of calls that are handled one at a time and run to their end *)

\* Between calls, and after a restart between calls, a system that is out of
\* service has an impairment that says so, and none is left halfway, in restored.
OutOfServiceIsActive ==
    Quiet => \A s \in Systems :
                /\ state[s] # "restored"
                /\ state[s] = "impaired" =>
                      \E i \in DOMAIN impairments : impairments[i].system = s /\ Active(i)

\* Between calls every registered impairment carries a measure.
EveryImpairmentMeasured ==
    Quiet => \A i \in DOMAIN impairments : impairments[i].kinds # {}

\* Of two adjacent systems that are both impaired, one has a manual fire watch.
AdjacentWatch ==
    Quiet => \A i, j \in DOMAIN impairments :
                Active(i) /\ Active(j) /\ impairments[i].system # impairments[j].system =>
                    "manual_fire_watch" \in impairments[i].kinds \union impairments[j].kinds

\* Stopping and starting the server between calls changes the state of no
\* system, however many moves were made within one second of the clock.
RestartKeepsStates ==
    [][server = "down" /\ server' # "down" => state' = state]_vars

----------------------------------------------------------------------------
(* What a comment promises and the code does not keep *)

\* lifecycle_service.go:16-18: an impairment must be resolved before a system
\* goes back in service.
ResolvedBeforeService ==
    [][\A s \in Systems :
          state[s] # "in_service" /\ state'[s] = "in_service" =>
              ~\E i \in DOMAIN impairments : impairments[i].system = s /\ Active(i)]_vars
=============================================================================
