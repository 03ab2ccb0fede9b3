---------------------------- MODULE DerivedData ----------------------------
(***************************************************************************)
(* The derived rows of one system and the inputs they are computed from:   *)
(* hydraulic result, supply comparison and compliance checks against the   *)
(* network, the remote node and the water supply.                          *)
(*                                                                         *)
(* An input is a version number, a derived row the versions it was         *)
(* computed from: what the numbers work out to is a function of those      *)
(* (modules of the calculation), whether they are the current ones is the  *)
(* matter here.  Calculate and RunCompliance hold the mutex of the system  *)
(* and read their inputs one query at a time; the requests that edit the   *)
(* inputs take no lock; ReconcileAll recomputes the rows at startup.       *)
(*                                                                         *)
(* A network is one version number: a reading torn between nodes and pipes *)
(* counts as one made when the pipes were read (module Network says why).  *)
(*                                                                         *)
(* The life cycle is cut down to the states in which the inputs may be     *)
(* edited and the first one in which they may not.  Of the event stream,   *)
(* which LifecycleService has in full, only where the event that it lists  *)
(* last led to is kept: the recovery takes the state from it.              *)
(***************************************************************************)
EXTENDS Lifecycle, FiniteSets

CONSTANTS Clients,         \* the goroutines that serve requests
          Main,            \* the goroutine that recovers at startup
          None,            \* stands for a row or a holder that is not there
          Rules,           \* the compliance rules, each with a row of its own
          Broken,          \* the versions of the network that are no tree yet; any
                           \* other is a tree with a pipe and an emitter in it
          InitialSupply,   \* 0: the system has no water supply; 1: it has one
          MayFail,         \* whether calls are cut short and the process dies
          MaxEdits         \* bound: edits of the inputs

ASSUME ThreadsAssumption == Main \notin Clients /\ None \notin Clients \union {Main}
ASSUME RulesAssumption == Rules # {} /\ IsFiniteSet(Rules)
ASSUME InputsAssumption ==
    /\ Broken \subseteq Nat
    /\ InitialSupply \in {0, 1}
    /\ MayFail \in BOOLEAN
ASSUME BoundsAssumption == MaxEdits \in Nat

Threads == Clients \union {Main}

VARIABLES
    state,       \* systems.state
    latest,      \* the state the event listed last led to, None without an event
    remote,      \* version of systems.remote_node_id, 0 while it is empty
    network,     \* version of the nodes and pipes
    supply,      \* version of the water supply with its points, 0 while there is none
    pump,        \* version of the fire pump, 0 while there is none
    result,      \* the versions hydraulic_results was computed from
    comparison,  \* the versions supply_comparisons was computed from
    checks,      \* per rule, what compliance_checks was computed from
    lock,        \* the thread that holds the system's mutex
    req,         \* the call each thread has in flight
    server       \* "up", "down", "recovering", or "failing": with an error

inputs  == << remote, network, supply, pump >>
derived == << result, comparison, checks >>
vars    == << state, latest, inputs, derived, lock, req, server >>

DesignStates == {"draft", "designed", "submitted"}

Result     == [remote : Nat, network : Nat]
Comparison == [remote : Nat, network : Nat, supply : Nat, pump : Nat, whole : BOOLEAN]

\* What a compliance run was given: the inputs and the derived rows it read.
\* The rules that count nodes and pipes get the rows as listed first, the
\* others the network as built from a second reading.
Basis == [listed : Nat, network : Nat, supply : Nat, pump : Nat, whole : BOOLEAN,
          result : Result \union {None}, comparison : Comparison \union {None}]

ASSUME NoneAssumption == None \notin Result \union Comparison \union Basis

(***************************************************************************)
(* A call in flight.  kind says which method it is, next the step it takes *)
(* next; the other fields hold what it has read.  A supply is whole if its *)
(* points were still there when they were read, after its row; pumped says *)
(* whether the system row named a pump.                                    *)
(***************************************************************************)
Idle == [kind |-> "none", next |-> "none"]

Calculation(next, st, r, pumped) ==
    [kind |-> "calculate", next |-> next, state |-> st, remote |-> r, pumped |-> pumped,
     network |-> 0, supply |-> 0, pump |-> 0, whole |-> TRUE]

Compliance(next, pumped, basis) ==
    [kind |-> "compliance", next |-> next, pumped |-> pumped, basis |-> basis, left |-> Rules]

NothingRead == [listed |-> 0, network |-> 0, supply |-> 0, pump |-> 0, whole |-> TRUE,
                result |-> None, comparison |-> None]

Report(next, r, c) == [kind |-> "report", next |-> next, result |-> r, comparison |-> c]

Edit(input) == [kind |-> "edit", next |-> input]

Move(to) == [kind |-> "transition", next |-> to]

Buildable(n) == n \notin Broken

Init ==
    /\ state = "draft"
    /\ latest = None
    /\ remote = 0
    /\ network = 1
    /\ supply = InitialSupply
    /\ pump = 0
    /\ result = None
    /\ comparison = None
    /\ checks = [r \in Rules |-> None]
    /\ lock = None
    /\ req = [t \in Threads |-> Idle]
    /\ server = "up"

Ready(c) == server = "up" /\ req[c] = Idle

Set(t, call) == req' = [req EXCEPT ![t] = call]

\* The call returns; the deferred Unlock runs if it holds the mutex.
Return(t) ==
    /\ Set(t, Idle)
    /\ lock' = IF lock = t THEN None ELSE lock

----------------------------------------------------------------------------
(* Editing the inputs *)

Editing == {c \in Clients : req[c].kind = "edit"}

EditsMade == remote + (network - 1) + (supply - InitialSupply) + pump

MayEdit == EditsMade + Cardinality(Editing) < MaxEdits

\* CreateNode, CreatePipe, CreateWaterSupply and CreateFirePump read the state first.
BeginEdit(c, input) ==
    /\ Ready(c)
    /\ MayEdit
    /\ state \in {"draft", "designed"}
    /\ Set(c, Edit(input))
    /\ UNCHANGED << state, latest, inputs, derived, lock, server >>

\* The write: nothing looks at the state again, and no derived row is touched.
WriteEdit(c) ==
    /\ req[c].kind = "edit"
    /\ network' = IF req[c].next = "network" THEN network + 1 ELSE network
    /\ supply'  = IF req[c].next = "supply" THEN supply + 1 ELSE supply
    /\ pump'    = IF req[c].next = "pump" THEN pump + 1 ELSE pump
    /\ Return(c)
    /\ UNCHANGED << state, latest, remote, derived, server >>

\* SetRemoteNode asks for a sprinkler of the system and for no state.
SetRemoteNode(c) ==
    /\ Ready(c)
    /\ MayEdit
    /\ remote' = remote + 1
    /\ UNCHANGED << state, latest, network, supply, pump, derived, lock, req, server >>

----------------------------------------------------------------------------
(* Calculate *)

\* Mutant: the mutex is not taken.
LockNothing(c) == UNCHANGED lock

Lock(c) == lock = None /\ lock' = c

\* The system row gives the remote node, which it must have, the state, and
\* whether there is a pump.
BeginCalculate(c) ==
    /\ Ready(c)
    /\ Lock(c)
    /\ IF remote # 0 THEN Set(c, Calculation("network", state, remote, pump # 0))
                     ELSE Set(c, [Idle EXCEPT !.next = "return"])
    /\ UNCHANGED << state, latest, inputs, derived, server >>

\* buildNetwork and Calc: an error ends the call.
CalculateNetwork(c) ==
    /\ req[c].kind = "calculate" /\ req[c].next = "network"
    /\ IF Buildable(network)
       THEN Set(c, [req[c] EXCEPT !.next = "supply", !.network = network])
       ELSE Set(c, [Idle EXCEPT !.next = "return"])
    /\ UNCHANGED << state, latest, inputs, derived, lock, server >>

\* GetWaterSupply reads the row of the supply ...
CalculateSupply(c) ==
    /\ req[c].kind = "calculate" /\ req[c].next = "supply"
    /\ Set(c, [req[c] EXCEPT !.next = "points", !.supply = supply])
    /\ UNCHANGED << state, latest, inputs, derived, lock, server >>

\* ... and then its points, which a new supply has deleted.
CalculatePoints(c) ==
    /\ req[c].kind = "calculate" /\ req[c].next = "points"
    /\ Set(c, [req[c] EXCEPT !.next = "pump", !.whole = (req[c].supply = supply)])
    /\ UNCHANGED << state, latest, inputs, derived, lock, server >>

\* The pump is read if the system row, read at the start, named one.
PumpRead(call) == IF call.pumped THEN pump ELSE 0

CalculatePump(c) ==
    /\ req[c].kind = "calculate" /\ req[c].next = "pump"
    /\ Set(c, [req[c] EXCEPT !.next = "persist", !.pump = PumpRead(req[c])])
    /\ UNCHANGED << state, latest, inputs, derived, lock, server >>

\* The rows of a calculation; without a supply the comparison says so.
ResultOf(call) == [remote |-> call.remote, network |-> call.network]

\* Mutant: the comparison does not say which supply it was made with.
ComparisonWithoutSupply(call) == [remote |-> call.remote, network |-> call.network]

ComparisonOf(call) ==
    [remote |-> call.remote, network |-> call.network,
     supply |-> call.supply, pump |-> call.pump, whole |-> call.whole]

\* Mutant: the comparison is left out of the transaction, and forgotten.
PersistResultOnly(c) ==
    /\ req[c].kind = "calculate" /\ req[c].next = "persist"
    /\ result' = ResultOf(req[c])
    /\ comparison' = IF comparison = None THEN ComparisonOf(req[c]) ELSE comparison
    /\ Set(c, [Idle EXCEPT !.next = IF req[c].state = "draft" THEN "promote" ELSE "return"])
    /\ UNCHANGED << state, latest, inputs, checks, lock, server >>

\* Result and comparison in one transaction.
PersistDerived(c) ==
    /\ req[c].kind = "calculate" /\ req[c].next = "persist"
    /\ result' = ResultOf(req[c])
    /\ comparison' = ComparisonOf(req[c])
    /\ Set(c, [Idle EXCEPT !.next = IF req[c].state = "draft" THEN "promote" ELSE "return"])
    /\ UNCHANGED << state, latest, inputs, checks, lock, server >>

\* The promotion records no event.
PromoteToDesigned(c) ==
    /\ req[c].next = "promote"
    /\ state' = "designed"
    /\ Set(c, [Idle EXCEPT !.next = "return"])
    /\ UNCHANGED << latest, inputs, derived, lock, server >>

End(c) ==
    /\ req[c].next = "return"
    /\ Return(c)
    /\ UNCHANGED << state, latest, inputs, derived, server >>

----------------------------------------------------------------------------
(* RunCompliance *)

BeginCompliance(c) ==
    /\ Ready(c)
    /\ Lock(c)
    /\ Set(c, Compliance("list", pump # 0, NothingRead))
    /\ UNCHANGED << state, latest, inputs, derived, server >>

\* The nodes and pipes that the rules count ...
ComplianceList(c) ==
    /\ req[c].kind = "compliance" /\ req[c].next = "list"
    /\ Set(c, [req[c] EXCEPT !.next = "network", !.basis.listed = network])
    /\ UNCHANGED << state, latest, inputs, derived, lock, server >>

\* ... and buildNetwork, which reads them again.
ComplianceNetwork(c) ==
    /\ req[c].kind = "compliance" /\ req[c].next = "network"
    /\ Set(c, [req[c] EXCEPT !.next = "supply", !.basis.network = network])
    /\ UNCHANGED << state, latest, inputs, derived, lock, server >>

ComplianceSupply(c) ==
    /\ req[c].kind = "compliance" /\ req[c].next = "supply"
    /\ Set(c, [req[c] EXCEPT !.next = "points", !.basis.supply = supply])
    /\ UNCHANGED << state, latest, inputs, derived, lock, server >>

CompliancePoints(c) ==
    /\ req[c].kind = "compliance" /\ req[c].next = "points"
    /\ Set(c, [req[c] EXCEPT !.next = "rows", !.basis.whole = (req[c].basis.supply = supply)])
    /\ UNCHANGED << state, latest, inputs, derived, lock, server >>

\* Pump, result and comparison; no one else writes the last two meanwhile.  With
\* a tree and no result the velocity rule dereferences the missing result: the
\* handler panics and nothing is written.
ComplianceRows(c) ==
    /\ req[c].kind = "compliance" /\ req[c].next = "rows"
    /\ IF Buildable(req[c].basis.network) /\ result = None
       THEN Set(c, [Idle EXCEPT !.next = "return"])
       ELSE Set(c, [req[c] EXCEPT !.next = "delete",
                                  !.basis.pump = PumpRead(req[c]),
                                  !.basis.result = result,
                                  !.basis.comparison = comparison])
    /\ UNCHANGED << state, latest, inputs, derived, lock, server >>

\* ReplaceComplianceChecks, outside any transaction: the old rows go first ...
DeleteChecks(t) ==
    /\ req[t].kind = "compliance" /\ req[t].next = "delete"
    /\ checks' = [r \in Rules |-> None]
    /\ Set(t, [req[t] EXCEPT !.next = "insert"])
    /\ UNCHANGED << state, latest, inputs, result, comparison, lock, server >>

\* Mutant: the last rule is left out.
InsertAllButOneCheck(t) ==
    /\ req[t].kind = "compliance" /\ req[t].next = "insert"
    /\ \E r \in req[t].left :
          IF req[t].left = {r}
          THEN Set(t, [req[t] EXCEPT !.left = {}, !.next = "return"]) /\ UNCHANGED checks
          ELSE /\ checks' = [checks EXCEPT ![r] = req[t].basis]
               /\ Set(t, [req[t] EXCEPT !.left = @ \ {r}])
    /\ UNCHANGED << state, latest, inputs, result, comparison, lock, server >>

\* ... and the new ones are inserted one by one.
InsertCheck(t) ==
    /\ req[t].kind = "compliance" /\ req[t].next = "insert"
    /\ \E r \in req[t].left :
          /\ checks' = [checks EXCEPT ![r] = req[t].basis]
          /\ Set(t, [req[t] EXCEPT !.left = @ \ {r},
                                   !.next = IF req[t].left = {r} THEN "return" ELSE "insert"])
    /\ UNCHANGED << state, latest, inputs, result, comparison, lock, server >>

----------------------------------------------------------------------------
(* FullReport, and the requests for one row, which take no lock *)

\* The result is read ...
BeginReport(c) ==
    /\ Ready(c)
    /\ Set(c, Report("comparison", result, None))
    /\ UNCHANGED << state, latest, inputs, derived, lock, server >>

\* ... and then the comparison.
ReportComparison(c) ==
    /\ req[c].kind = "report" /\ req[c].next = "comparison"
    /\ Set(c, Report("return", req[c].result, comparison))
    /\ UNCHANGED << state, latest, inputs, derived, lock, server >>

----------------------------------------------------------------------------
(* Transition, between the states kept here *)

\* The state is read and the move checked.  Designed and submitted ask for a
\* stored result, and not how old it is; results are never deleted, so that
\* the gate, a query of its own, is taken together with the read.
BeginTransition(c, to) ==
    /\ Ready(c)
    /\ CanTransition(state, to)
    /\ to # "draft" => result # None
    /\ Set(c, Move(to))
    /\ UNCHANGED << state, latest, inputs, derived, lock, server >>

\* State and event are written in one transaction, from whatever the state is
\* by now.  The event was stamped before: another one may be listed after it,
\* of a racing call or from before the clock was set back.
WriteTransition(c) ==
    /\ req[c].kind = "transition"
    /\ state' = req[c].next
    /\ latest' \in {req[c].next} \union ({latest} \ {None})
    /\ Return(c)
    /\ UNCHANGED << inputs, derived, server >>

----------------------------------------------------------------------------
(* Failure and recovery *)

Abandon(c) ==
    /\ MayFail
    /\ req[c] # Idle
    /\ Return(c)
    /\ UNCHANGED << state, latest, inputs, derived, server >>

Crash ==
    /\ MayFail
    /\ server # "down"
    /\ server' = "down"
    /\ lock' = None
    /\ req' = [t \in Threads |-> Idle]
    /\ UNCHANGED << state, latest, inputs, derived >>

\* Mutant: a system that has a result already is taken to be reconciled.
ReconcilableUnlessPresent == state # "draft" /\ remote # 0 /\ Buildable(network) /\ result = None

\* The systems that reconcileSystem recomputes.
Reconcilable == state # "draft" /\ remote # 0 /\ Buildable(network)

\* Nobody else writes while reconcileSystem reads.
Reconciliation ==
    [Calculation("reconcile", state, remote, pump # 0)
       EXCEPT !.network = network, !.supply = supply, !.pump = pump]

\* ReconcileAll goes over the systems first, past those whose column says draft.
Restart ==
    /\ server = "down"
    /\ server' = "recovering"
    /\ Set(Main, IF Reconcilable THEN Reconciliation ELSE Idle)
    /\ UNCHANGED << state, latest, inputs, derived, lock >>

\* Result and comparison in one transaction; without a supply the comparison
\* is not computed, and the stored one stays.
ReconcileRows ==
    /\ req[Main].next = "reconcile"
    /\ result' = ResultOf(req[Main])
    /\ comparison' = IF supply = 0 THEN comparison ELSE ComparisonOf(req[Main])
    /\ Set(Main, Compliance("delete", pump # 0,
                            [NothingRead EXCEPT
                               !.listed = network, !.network = network,
                               !.supply = supply, !.pump = pump,
                               !.result = ResultOf(req[Main]),
                               !.comparison = IF supply = 0 THEN None
                                              ELSE ComparisonOf(req[Main])]))
    /\ UNCHANGED << state, latest, inputs, checks, lock, server >>

\* An error of the recovery is logged: what is left of the reconciliation is
\* given up, what it has written stays, and main goes on.
RecoveryFails ==
    /\ MayFail
    /\ server = "recovering"
    /\ server' = "failing"
    /\ Set(Main, Idle)
    /\ UNCHANGED << state, latest, inputs, derived, lock >>

\* correctStatesFromEvents, after the reconciliation: the column follows the
\* event listed last, if there is one and no error keeps it from being read.
CorrectStatesFromEvents ==
    \/ state' = IF latest = None THEN state ELSE latest
    \/ server = "failing" /\ UNCHANGED state

\* Mutant: requests are served while the recovery goes on.
ServeAtOnce ==
    /\ server \in {"recovering", "failing"}
    /\ CorrectStatesFromEvents
    /\ server' = "up"
    /\ UNCHANGED << latest, inputs, derived, lock, req >>

Serve ==
    /\ server \in {"recovering", "failing"}
    /\ req[Main] = Idle
    /\ CorrectStatesFromEvents
    /\ server' = "up"
    /\ UNCHANGED << latest, inputs, derived, lock, req >>

----------------------------------------------------------------------------
Begin(c) ==
    \/ \E input \in {"network", "supply", "pump"} : BeginEdit(c, input)
    \/ SetRemoteNode(c)
    \/ BeginCalculate(c)
    \/ BeginCompliance(c)
    \/ BeginReport(c)
    \/ \E to \in DesignStates : BeginTransition(c, to)

Proceed(t) ==
    \/ WriteEdit(t)
    \/ CalculateNetwork(t)
    \/ CalculateSupply(t)
    \/ CalculatePoints(t)
    \/ CalculatePump(t)
    \/ PersistDerived(t)
    \/ PromoteToDesigned(t)
    \/ ComplianceList(t)
    \/ ComplianceNetwork(t)
    \/ ComplianceSupply(t)
    \/ CompliancePoints(t)
    \/ ComplianceRows(t)
    \/ DeleteChecks(t)
    \/ InsertCheck(t)
    \/ ReportComparison(t)
    \/ WriteTransition(t)
    \/ End(t)

Next ==
    \/ \E c \in Clients : Begin(c) \/ Abandon(c)
    \/ \E t \in Threads : Proceed(t)
    \/ Crash
    \/ Restart
    \/ ReconcileRows
    \/ RecoveryFails
    \/ Serve

Spec == Init /\ [][Next]_vars

----------------------------------------------------------------------------
(* Properties of every interleaving, with calls cut short, crashes and restarts *)

Call ==
    [kind : {"none"}, next : {"none", "promote", "return"}]
    \union [kind : {"calculate"},
            next : {"network", "supply", "points", "pump", "persist", "reconcile"},
            state : DesignStates, remote : Nat, pumped : BOOLEAN,
            network : Nat, supply : Nat, pump : Nat, whole : BOOLEAN]
    \union [kind : {"compliance"},
            next : {"list", "network", "supply", "points", "rows", "delete", "insert", "return"},
            pumped : BOOLEAN, basis : Basis, left : SUBSET Rules]
    \union [kind : {"report"}, next : {"comparison", "return"},
            result : Result \union {None}, comparison : Comparison \union {None}]
    \union [kind : {"edit"}, next : {"network", "supply", "pump"}]
    \union [kind : {"transition"}, next : DesignStates]

\* Every variable holds a value of its type.
TypeOK ==
    /\ state \in DesignStates
    /\ latest \in DesignStates \union {None}
    /\ remote \in Nat /\ network \in Nat /\ supply \in Nat /\ pump \in Nat
    /\ result \in Result \union {None}
    /\ comparison \in Comparison \union {None}
    /\ checks \in [Rules -> Basis \union {None}]
    /\ lock \in Clients \union {None}
    /\ req \in [Threads -> Call]
    /\ server \in {"up", "down", "recovering", "failing"}

\* A compliance run that comes to its end leaves a row for every rule, all of
\* them its own, whatever earlier runs left half written and whoever else asks
\* for a run meanwhile.
ChecksFromOneRun ==
    \A t \in Threads :
        req[t].kind = "compliance" /\ req[t].next = "return" =>
            \A r \in Rules : checks[r] = req[t].basis

\* A report reads the result and then the comparison without a lock, and a
\* calculation may come in between: the comparison it shows is never missing
\* beside a result, nor about an older network or remote node than the result.
ReportIsInOrder ==
    \A c \in Clients :
        req[c].kind = "report" /\ req[c].next = "return" /\ req[c].result # None =>
            /\ req[c].comparison # None
            /\ req[c].result.remote <= req[c].comparison.remote
            /\ req[c].result.network <= req[c].comparison.network

\* Every derived row is there and computed from the inputs as they are, and
\* the checks from the rows beside them.
AllRowsCurrent ==
    LET r == [remote |-> remote, network |-> network]
        c == [remote |-> remote, network |-> network,
              supply |-> supply, pump |-> pump, whole |-> TRUE]
    IN  /\ result = r
        /\ comparison = c
        /\ \A q \in Rules :
              checks[q] = [listed |-> network, network |-> network, supply |-> supply,
                           pump |-> pump, whole |-> TRUE, result |-> r, comparison |-> c]

\* After a recovery without an error, whatever was interrupted before it, the
\* derived rows of a system whose column was past draft when it began are
\* current, if they can be computed.
RestartConverges ==
    [][server = "recovering" /\ server' = "up"
         /\ state # "draft" /\ remote # 0 /\ Buildable(network) => AllRowsCurrent]_vars

(***************************************************************************)
(* The abstract specification.  The checks count when all of them are      *)
(* there and of one run.                                                   *)
(***************************************************************************)
Verdict ==
    LET some == CHOOSE r \in Rules : TRUE
    IN  IF \A r \in Rules : checks[r] = checks[some] THEN checks[some] ELSE None

Rows == INSTANCE DerivedRows WITH
    input   <- [remote |-> remote, network |-> network, supply |-> supply, pump |-> pump],
    verdict <- Verdict

\* Result and comparison are replaced together and never go back to an older
\* version of an input, though the edits race with the calculations; checks
\* that are all there judge the rows beside them, also when the network was
\* edited between the two readings of a run, and after any crash.
ImplementsDerivedRows == Rows!Spec

(***************************************************************************)
(* The second abstract specification: who writes derived rows goes alone.  *)
(* Clients owe that to the mutex, the recovery, which takes none, to the   *)
(* order of main: it begins after the last call has died and ends before   *)
(* the first is served.                                                    *)
(***************************************************************************)

\* A call that holds the mutex, or would if the recovery took it.
Holds(call) == call # Idle /\ call.kind \notin {"report", "edit", "transition"}

Mutex == INSTANCE SystemMutex WITH
    Callers <- Threads,
    Systems <- {"system"},
    inside  <- [s \in {"system"} |-> {t \in Threads : Holds(req[t])}]

\* Neither two runs nor a run and the recovery of one system ever overlap,
\* whatever is cut short, dies or starts again.
ImplementsSystemMutex == Mutex!Spec

----------------------------------------------------------------------------
(* What a comment promises and the code does not keep *)

\* reconcile_service.go:15-19: every derived table is recomputed from the
\* inputs, and the state corrected against the events.  A system that is past
\* draft when the server begins to serve has the result of its inputs.
ServedResultIsCurrent ==
    [][server = "recovering" /\ server' = "up"
         /\ state' # "draft" /\ remote # 0 /\ Buildable(network) =>
          result = [remote |-> remote, network |-> network]]_vars
=============================================================================
