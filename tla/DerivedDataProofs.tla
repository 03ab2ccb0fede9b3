------------------------- MODULE DerivedDataProofs -------------------------
(***************************************************************************)
(* What holds of DerivedData for any callers, any rules and any bounds.    *)
(***************************************************************************)
EXTENDS DerivedData, TLAPS

PlainCall == [kind : {"none"}, next : {"none", "promote", "return"}]

CalculateCall ==
    [kind : {"calculate"},
     next : {"network", "supply", "points", "pump", "persist", "reconcile"},
     state : DesignStates, remote : Nat, pumped : BOOLEAN,
     network : Nat, supply : Nat, pump : Nat, whole : BOOLEAN]

ComplianceCall ==
    [kind : {"compliance"},
     next : {"list", "network", "supply", "points", "rows", "delete", "insert", "return"},
     pumped : BOOLEAN, basis : Basis, left : SUBSET Rules]

ReportCall ==
    [kind : {"report"}, next : {"comparison", "return"},
     result : Result \union {None}, comparison : Comparison \union {None}]

EditCall == [kind : {"edit"}, next : {"network", "supply", "pump"}]

MoveCall == [kind : {"transition"}, next : DesignStates]

\* The calls that the recovery makes.
RecoveryCall(call) ==
    \/ call = Idle
    \/ call.kind = "calculate" /\ call.next = "reconcile"
    \/ call.kind = "compliance" /\ call.next \in {"delete", "insert", "return"}

\* A client has the mutex as long as its calculation or compliance run goes on;
\* the recovery, which has none, goes alone.
OneWriter ==
    /\ \A c \in Clients : (lock = c <=> Holds(req[c])) /\ req[c].next # "reconcile"
    /\ server # "up" => \A c \in Clients : req[c] = Idle
    /\ server # "recovering" => req[Main] = Idle
    /\ RecoveryCall(req[Main])

IInv == TypeOK /\ OneWriter

-----------------------------------------------------------------------------
(* Calls *)

LEMMA CallFields ==
    ASSUME NEW call \in Call
    PROVE  /\ call.kind \in {"none", "calculate", "compliance", "report", "edit", "transition"}
           /\ call.kind = "none" => call \in PlainCall
           /\ call.kind = "calculate" => call \in CalculateCall
           /\ call.kind = "compliance" => call \in ComplianceCall
           /\ call.kind = "report" => call \in ReportCall
           /\ call.kind = "edit" => call \in EditCall
           /\ call.kind = "transition" => call \in MoveCall
           /\ call.kind = "none" /\ call.next = "none" => call = Idle
           /\ call.next = "promote" => call.kind = "none"
  BY DEF Call, PlainCall, CalculateCall, ComplianceCall, ReportCall, EditCall, MoveCall,
         DesignStates, Idle

LEMMA CallsAreCalls ==
    /\ PlainCall \subseteq Call /\ CalculateCall \subseteq Call
    /\ ComplianceCall \subseteq Call /\ ReportCall \subseteq Call /\ EditCall \subseteq Call
    /\ MoveCall \subseteq Call
  BY DEF Call, PlainCall, CalculateCall, ComplianceCall, ReportCall, EditCall, MoveCall

LEMMA IdleIsCall == Idle \in Call /\ Idle.kind = "none" /\ Idle.next = "none" /\ ~Holds(Idle)
  BY DEF Call, Idle, Holds

\* A call that has only to promote the system, or to return.
LEMMA PlainCalls ==
    ASSUME NEW n \in {"promote", "return"}, NEW call, call = [Idle EXCEPT !.next = n]
    PROVE  /\ call \in Call /\ call.kind = "none" /\ call.next = n /\ Holds(call)
           /\ call # Idle
  BY DEF Call, Idle, Holds

\* A call that is not idle is one of some kind, or has still to return.
LEMMA BusyCalls ==
    ASSUME NEW call \in Call
    PROVE  /\ call.kind # "none" => call # Idle
           /\ call.kind \in {"calculate", "compliance"} => Holds(call)
           /\ call.kind \in {"report", "edit", "transition"} => ~Holds(call)
           /\ call.next \in {"promote", "return"} => call # Idle
  BY DEF Idle, Holds

LEMMA SetCall ==
    ASSUME req \in [Threads -> Call], NEW t \in Threads, NEW call \in Call, Set(t, call)
    PROVE  /\ req' \in [Threads -> Call]
           /\ req'[t] = call
           /\ \A u \in Threads \ {t} : req'[u] = req[u]
  BY DEF Set

\* A step of a call, before its last.
LEMMA CallGoesOn ==
    ASSUME IInv, NEW t \in Threads, NEW call \in Call, Set(t, call),
           UNCHANGED << lock, server >>,
           t \in Clients => server = "up" /\ call.next # "reconcile",
           t = Main => server = "recovering" /\ RecoveryCall(call),
           Holds(call) <=> Holds(req[t])
    PROVE  req' \in [Threads -> Call] /\ OneWriter'
  <1>1. /\ req' \in [Threads -> Call]
        /\ req'[t] = call
        /\ \A u \in Threads \ {t} : req'[u] = req[u]
    BY SetCall DEF IInv, TypeOK
  <1>2. \A c \in Clients : (lock' = c <=> Holds(req'[c])) /\ req'[c].next # "reconcile"
    BY <1>1 DEF IInv, OneWriter, Threads
  <1>3. QED
    BY <1>1, <1>2, ThreadsAssumption DEF IInv, OneWriter, Threads

\* The last step of a call.
LEMMA CallReturns ==
    ASSUME IInv, NEW t \in Threads, Return(t), UNCHANGED server
    PROVE  /\ req' \in [Threads -> Call]
           /\ req'[t] = Idle
           /\ \A u \in Threads \ {t} : req'[u] = req[u]
           /\ lock' \in Clients \union {None}
           /\ OneWriter'
  <1>1. /\ req' \in [Threads -> Call]
        /\ req'[t] = Idle
        /\ \A u \in Threads \ {t} : req'[u] = req[u]
    BY SetCall, IdleIsCall DEF Return, IInv, TypeOK
  <1>2. lock' = IF lock = t THEN None ELSE lock
    BY DEF Return
  <1>3. \A c \in Clients : (lock' = c <=> Holds(req'[c])) /\ req'[c].next # "reconcile"
    BY <1>1, <1>2, IdleIsCall, ThreadsAssumption DEF IInv, OneWriter, Threads
  <1>4. lock' \in Clients \union {None}
    BY <1>2 DEF IInv, TypeOK
  <1>5. QED
    BY <1>1, <1>3, <1>4, ThreadsAssumption DEF IInv, OneWriter, Threads, RecoveryCall

\* A client whose call goes on is served by a server that is up; the main
\* goroutine has calls while it recovers.
LEMMA WhoIsServed ==
    ASSUME IInv, NEW t \in Threads, req[t] # Idle
    PROVE  /\ t \in Clients => server = "up" /\ req[t].next # "reconcile"
           /\ t \notin Clients => t = Main /\ server = "recovering" /\ RecoveryCall(req[t])
  BY DEF IInv, OneWriter, Threads

\* Two calls do not hold the mutex, or do without it, at the same time.
LEMMA WritersAreAlone ==
    ASSUME IInv, NEW t \in Threads, NEW u \in Threads, Holds(req[t]), Holds(req[u])
    PROVE  t = u
  BY IdleIsCall, ThreadsAssumption DEF IInv, OneWriter, Threads

-----------------------------------------------------------------------------
(* What each step does *)

LEMMA MoveWrites ==
    ASSUME IInv, NEW t \in Threads, WriteTransition(t)
    PROVE  /\ UNCHANGED << inputs, derived, server >>
           /\ state' \in DesignStates /\ latest' \in DesignStates \union {None}
           /\ Return(t)
  <1>1. req[t].next \in DesignStates
    BY CallFields DEF WriteTransition, MoveCall, IInv, TypeOK
  <1>2. QED
    BY <1>1 DEF WriteTransition, IInv, TypeOK

\* A calculation reads the network, the supply, its points, the pump.
NextReading(a, b) ==
    /\ b.state = a.state /\ b.remote = a.remote /\ b.pumped = a.pumped
    /\ \/ /\ a.next = "network" /\ b.next = "supply"
          /\ b.network = network /\ b.supply = a.supply /\ b.pump = a.pump /\ b.whole = a.whole
       \/ /\ a.next = "supply" /\ b.next = "points"
          /\ b.network = a.network /\ b.supply = supply /\ b.pump = a.pump /\ b.whole = a.whole
       \/ /\ a.next = "points" /\ b.next = "pump"
          /\ b.network = a.network /\ b.supply = a.supply /\ b.pump = a.pump
          /\ b.whole => a.supply = supply
          /\ a.supply = supply => b.whole
       \/ /\ a.next = "pump" /\ b.next = "persist"
          /\ b.network = a.network /\ b.supply = a.supply /\ b.whole = a.whole
          /\ b.pump = PumpRead(a)

LEMMA CalculationReads ==
    ASSUME IInv, NEW t \in Threads,
           \/ CalculateNetwork(t) \/ CalculateSupply(t)
           \/ CalculatePoints(t) \/ CalculatePump(t)
    PROVE  /\ UNCHANGED << state, latest, inputs, derived, lock, server >>
           /\ req[t] \in CalculateCall
           /\ req[t].next # "reconcile"
           /\ \E call \in Call :
                 /\ Set(t, call)
                 /\ \/ call = [Idle EXCEPT !.next = "return"]
                    \/ call \in CalculateCall /\ NextReading(req[t], call)
  <1>1. req[t] \in CalculateCall
    BY CallFields DEF CalculateNetwork, CalculateSupply, CalculatePoints, CalculatePump,
                      IInv, TypeOK
  <1>2. remote \in Nat /\ network \in Nat /\ supply \in Nat /\ pump \in Nat
    BY DEF IInv, TypeOK
  <1>3. ASSUME NEW call \in CalculateCall, Set(t, call), NextReading(req[t], call)
        PROVE  \E other \in Call :
                 /\ Set(t, other)
                 /\ \/ other = [Idle EXCEPT !.next = "return"]
                    \/ other \in CalculateCall /\ NextReading(req[t], other)
    BY <1>3, CallsAreCalls
  <1>4. CASE CalculateNetwork(t) /\ ~Buildable(network)
    BY <1>1, <1>4, PlainCalls DEF CalculateNetwork
  <1>5. CASE CalculateNetwork(t) /\ Buildable(network)
    <2> DEFINE call == [req[t] EXCEPT !.next = "supply", !.network = network]
    <2>1. call \in CalculateCall /\ Set(t, call)
      BY <1>1, <1>2, <1>5 DEF CalculateCall, CalculateNetwork
    <2>2. NextReading(req[t], call)
      BY <1>1, <1>2, <1>5 DEF CalculateCall, CalculateNetwork, NextReading
    <2> HIDE DEF call
    <2>3. QED
      BY <1>1, <1>3, <1>5, <2>1, <2>2 DEF CalculateNetwork
  <1>6. CASE CalculateSupply(t)
    <2> DEFINE call == [req[t] EXCEPT !.next = "points", !.supply = supply]
    <2>1. call \in CalculateCall /\ Set(t, call)
      BY <1>1, <1>2, <1>6 DEF CalculateCall, CalculateSupply
    <2>2. NextReading(req[t], call)
      BY <1>1, <1>2, <1>6 DEF CalculateCall, CalculateSupply, NextReading
    <2> HIDE DEF call
    <2>3. QED
      BY <1>1, <1>3, <1>6, <2>1, <2>2 DEF CalculateSupply
  <1>7. CASE CalculatePoints(t)
    <2> DEFINE call == [req[t] EXCEPT !.next = "pump", !.whole = (req[t].supply = supply)]
    <2>1. call \in CalculateCall /\ Set(t, call)
      BY <1>1, <1>2, <1>7 DEF CalculateCall, CalculatePoints
    <2>2. NextReading(req[t], call)
      BY <1>1, <1>2, <1>7 DEF CalculateCall, CalculatePoints, NextReading
    <2> HIDE DEF call
    <2>3. QED
      BY <1>1, <1>3, <1>7, <2>1, <2>2 DEF CalculatePoints
  <1>8. CASE CalculatePump(t)
    <2> DEFINE call == [req[t] EXCEPT !.next = "persist", !.pump = PumpRead(req[t])]
    <2>1. call \in CalculateCall /\ Set(t, call)
      BY <1>1, <1>2, <1>8 DEF CalculateCall, CalculatePump, PumpRead
    <2>2. NextReading(req[t], call)
      BY <1>1, <1>2, <1>8 DEF CalculateCall, CalculatePump, NextReading
    <2> HIDE DEF call
    <2>3. QED
      BY <1>1, <1>3, <1>8, <2>1, <2>2 DEF CalculatePump
  <1>9. QED
    BY <1>4, <1>5, <1>6, <1>7, <1>8

\* A compliance run reads what it judges.
NextListing(a, b) ==
    /\ b.pumped = a.pumped /\ b.left = a.left
    /\ \/ /\ a.next = "list" /\ b.next = "network"
          /\ b.basis = [a.basis EXCEPT !.listed = network]
       \/ /\ a.next = "network" /\ b.next = "supply"
          /\ b.basis = [a.basis EXCEPT !.network = network]
       \/ /\ a.next = "supply" /\ b.next = "points"
          /\ b.basis = [a.basis EXCEPT !.supply = supply]
       \/ /\ a.next = "points" /\ b.next = "rows"
          /\ b.basis = [a.basis EXCEPT !.whole = (a.basis.supply = supply)]
       \/ /\ a.next = "rows" /\ b.next = "delete"
          /\ b.basis = [a.basis EXCEPT !.pump = PumpRead(a), !.result = result,
                                       !.comparison = comparison]

LEMMA ComplianceReads ==
    ASSUME IInv, NEW t \in Threads,
           \/ ComplianceList(t) \/ ComplianceNetwork(t) \/ ComplianceSupply(t)
           \/ CompliancePoints(t) \/ ComplianceRows(t)
    PROVE  /\ UNCHANGED << state, latest, inputs, derived, lock, server >>
           /\ req[t] \in ComplianceCall
           /\ \E call \in Call :
                 /\ Set(t, call)
                 /\ \/ call = [Idle EXCEPT !.next = "return"]
                    \/ call \in ComplianceCall /\ NextListing(req[t], call)
  <1>1. req[t] \in ComplianceCall
    BY CallFields DEF ComplianceList, ComplianceNetwork, ComplianceSupply, CompliancePoints,
                      ComplianceRows, IInv, TypeOK
  <1>2. /\ remote \in Nat /\ network \in Nat /\ supply \in Nat /\ pump \in Nat
        /\ result \in Result \union {None} /\ comparison \in Comparison \union {None}
    BY DEF IInv, TypeOK
  <1>3. ASSUME NEW call \in ComplianceCall, Set(t, call), NextListing(req[t], call)
        PROVE  \E other \in Call :
                 /\ Set(t, other)
                 /\ \/ other = [Idle EXCEPT !.next = "return"]
                    \/ other \in ComplianceCall /\ NextListing(req[t], other)
    BY <1>3, CallsAreCalls
  <1>4. CASE ComplianceRows(t) /\ Buildable(req[t].basis.network) /\ result = None
    BY <1>1, <1>4, PlainCalls DEF ComplianceRows
  <1>5. CASE ComplianceList(t)
    <2> DEFINE call == [req[t] EXCEPT !.next = "network", !.basis.listed = network]
    <2>1. call \in ComplianceCall /\ Set(t, call)
      BY <1>1, <1>2, <1>5 DEF ComplianceCall, Basis, ComplianceList
    <2>2. NextListing(req[t], call)
      BY <1>1, <1>2, <1>5 DEF ComplianceCall, Basis, ComplianceList, NextListing
    <2> HIDE DEF call
    <2>3. QED
      BY <1>1, <1>3, <1>5, <2>1, <2>2 DEF ComplianceList
  <1>6. CASE ComplianceNetwork(t)
    <2> DEFINE call == [req[t] EXCEPT !.next = "supply", !.basis.network = network]
    <2>1. call \in ComplianceCall /\ Set(t, call)
      BY <1>1, <1>2, <1>6 DEF ComplianceCall, Basis, ComplianceNetwork
    <2>2. NextListing(req[t], call)
      BY <1>1, <1>2, <1>6 DEF ComplianceCall, Basis, ComplianceNetwork, NextListing
    <2> HIDE DEF call
    <2>3. QED
      BY <1>1, <1>3, <1>6, <2>1, <2>2 DEF ComplianceNetwork
  <1>7. CASE ComplianceSupply(t)
    <2> DEFINE call == [req[t] EXCEPT !.next = "points", !.basis.supply = supply]
    <2>1. call \in ComplianceCall /\ Set(t, call)
      BY <1>1, <1>2, <1>7 DEF ComplianceCall, Basis, ComplianceSupply
    <2>2. NextListing(req[t], call)
      BY <1>1, <1>2, <1>7 DEF ComplianceCall, Basis, ComplianceSupply, NextListing
    <2> HIDE DEF call
    <2>3. QED
      BY <1>1, <1>3, <1>7, <2>1, <2>2 DEF ComplianceSupply
  <1>8. CASE CompliancePoints(t)
    <2> DEFINE call == [req[t] EXCEPT !.next = "rows",
                                      !.basis.whole = (req[t].basis.supply = supply)]
    <2>1. call \in ComplianceCall /\ Set(t, call)
      BY <1>1, <1>2, <1>8 DEF ComplianceCall, Basis, CompliancePoints
    <2>2. NextListing(req[t], call)
      BY <1>1, <1>2, <1>8 DEF ComplianceCall, Basis, CompliancePoints, NextListing
    <2> HIDE DEF call
    <2>3. QED
      BY <1>1, <1>3, <1>8, <2>1, <2>2 DEF CompliancePoints
  <1>9. CASE ComplianceRows(t) /\ ~(Buildable(req[t].basis.network) /\ result = None)
    <2> DEFINE call == [req[t] EXCEPT !.next = "delete",
                                      !.basis.pump = PumpRead(req[t]),
                                      !.basis.result = result,
                                      !.basis.comparison = comparison]
    <2>1. call \in ComplianceCall /\ Set(t, call)
      BY <1>1, <1>2, <1>9 DEF ComplianceCall, Basis, ComplianceRows, PumpRead
    <2>2. NextListing(req[t], call)
      BY <1>1, <1>2, <1>9 DEF ComplianceCall, Basis, ComplianceRows, NextListing
    <2> HIDE DEF call
    <2>3. QED
      BY <1>1, <1>3, <1>9, <2>1, <2>2 DEF ComplianceRows
  <1>10. QED
    BY <1>4, <1>5, <1>6, <1>7, <1>8, <1>9

\* The rows of a calculation, which holds the mutex, go in together.
LEMMA PersistWrites ==
    ASSUME IInv, NEW t \in Threads, PersistDerived(t)
    PROVE  /\ UNCHANGED << state, latest, inputs, checks, lock, server >>
           /\ req[t] \in CalculateCall /\ req[t].next = "persist"
           /\ result' = [remote |-> req[t].remote, network |-> req[t].network]
           /\ comparison' = [remote |-> req[t].remote, network |-> req[t].network,
                             supply |-> req[t].supply, pump |-> req[t].pump,
                             whole |-> req[t].whole]
           /\ \E n \in {"promote", "return"} : Set(t, [Idle EXCEPT !.next = n])
  <1>1. req[t] \in CalculateCall
    BY CallFields DEF PersistDerived, IInv, TypeOK
  <1>2. QED
    BY <1>1 DEF PersistDerived, ResultOf, ComparisonOf

LEMMA ChecksAreDeleted ==
    ASSUME IInv, NEW t \in Threads, DeleteChecks(t)
    PROVE  /\ UNCHANGED << state, latest, inputs, result, comparison, lock, server >>
           /\ req[t] \in ComplianceCall /\ req[t].next = "delete"
           /\ checks' = [r \in Rules |-> None]
           /\ \E call \in ComplianceCall :
                 /\ Set(t, call)
                 /\ call.next = "insert" /\ call.pumped = req[t].pumped
                 /\ call.basis = req[t].basis /\ call.left = req[t].left
  <1>1. req[t] \in ComplianceCall
    BY CallFields DEF DeleteChecks, IInv, TypeOK
  <1> DEFINE call == [req[t] EXCEPT !.next = "insert"]
  <1>2. /\ call \in ComplianceCall
        /\ call.next = "insert" /\ call.pumped = req[t].pumped
        /\ call.basis = req[t].basis /\ call.left = req[t].left
    BY <1>1 DEF ComplianceCall
  <1>3. Set(t, call)
    BY DEF DeleteChecks
  <1> HIDE DEF call
  <1>4. QED
    BY <1>1, <1>2, <1>3 DEF DeleteChecks

LEMMA CheckIsInserted ==
    ASSUME IInv, NEW t \in Threads, InsertCheck(t)
    PROVE  /\ UNCHANGED << state, latest, inputs, result, comparison, lock, server >>
           /\ req[t] \in ComplianceCall /\ req[t].next = "insert"
           /\ \E r \in req[t].left, call \in ComplianceCall :
                 /\ checks' = [checks EXCEPT ![r] = req[t].basis]
                 /\ Set(t, call)
                 /\ call.pumped = req[t].pumped /\ call.basis = req[t].basis
                 /\ call.left = req[t].left \ {r}
                 /\ call.next = IF req[t].left = {r} THEN "return" ELSE "insert"
  <1>1. req[t] \in ComplianceCall
    BY CallFields DEF InsertCheck, IInv, TypeOK
  <1>2. PICK r \in req[t].left :
           /\ checks' = [checks EXCEPT ![r] = req[t].basis]
           /\ Set(t, [req[t] EXCEPT !.left = @ \ {r},
                                    !.next = IF req[t].left = {r} THEN "return" ELSE "insert"])
    BY DEF InsertCheck
  <1> DEFINE call == [req[t] EXCEPT !.left = @ \ {r},
                                    !.next = IF req[t].left = {r} THEN "return" ELSE "insert"]
  <1>3. /\ call \in ComplianceCall
        /\ call.pumped = req[t].pumped /\ call.basis = req[t].basis
        /\ call.left = req[t].left \ {r}
        /\ call.next = IF req[t].left = {r} THEN "return" ELSE "insert"
    BY <1>1 DEF ComplianceCall
  <1> HIDE DEF call
  <1>4. QED
    BY <1>1, <1>2, <1>3 DEF InsertCheck, call

\* An edit that was begun is written: one input is a version higher.
LEMMA EditWrites ==
    ASSUME IInv, NEW t \in Threads, WriteEdit(t)
    PROVE  /\ UNCHANGED << state, latest, derived, server >>
           /\ req[t].kind = "edit"
           /\ \/ network' = network + 1 /\ UNCHANGED << remote, supply, pump >>
              \/ supply' = supply + 1 /\ UNCHANGED << remote, network, pump >>
              \/ pump' = pump + 1 /\ UNCHANGED << remote, network, supply >>
           /\ Return(t)
  <1>1. req[t] \in EditCall
    BY CallFields DEF WriteEdit, IInv, TypeOK
  <1>2. QED
    BY <1>1 DEF WriteEdit, EditCall

\* What the recovery is to recompute.
LEMMA RecoveryBegins ==
    ASSUME IInv, Restart
    PROVE  /\ UNCHANGED << state, latest, inputs, derived, lock >>
           /\ server' = "recovering"
           /\ \A u \in Threads \ {Main} : req'[u] = req[u]
           /\ req' \in [Threads -> Call]
           /\ \/ ~Reconcilable /\ req'[Main] = Idle
              \/ /\ req'[Main] \in CalculateCall /\ req'[Main].next = "reconcile"
                 /\ req'[Main].pumped <=> pump # 0
                 /\ req'[Main].remote = remote /\ req'[Main].network = network
                 /\ req'[Main].supply = supply /\ req'[Main].pump = pump
                 /\ req'[Main].whole = TRUE
  <1>1. Main \in Threads
    BY DEF Threads
  <1>2. CASE ~Reconcilable
    BY <1>1, <1>2, SetCall, IdleIsCall DEF Restart, IInv, TypeOK
  <1>3. CASE Reconcilable
    <2> DEFINE call == Reconciliation
    <2>1. /\ call \in CalculateCall /\ call.next = "reconcile"
          /\ call.pumped <=> pump # 0
          /\ call.remote = remote /\ call.network = network
          /\ call.supply = supply /\ call.pump = pump /\ call.whole = TRUE
      BY DEF Reconciliation, Calculation, CalculateCall, IInv, TypeOK
    <2>2. Set(Main, call)
      BY <1>3 DEF Restart
    <2> HIDE DEF call
    <2>3. /\ req'[Main] = call /\ req' \in [Threads -> Call]
          /\ \A u \in Threads \ {Main} : req'[u] = req[u]
      BY <1>1, <2>1, <2>2, SetCall, CallsAreCalls DEF IInv, TypeOK
    <2>4. QED
      BY <2>1, <2>3 DEF Restart
  <1>4. QED
    BY <1>2, <1>3

\* The rows are replaced, and the checks are to be.
LEMMA ReconciliationWrites ==
    ASSUME IInv, ReconcileRows
    PROVE  /\ UNCHANGED << state, latest, inputs, checks, lock, server >>
           /\ Main \in Threads
           /\ req[Main] \in CalculateCall /\ req[Main].next = "reconcile"
           /\ server = "recovering"
           /\ result' = [remote |-> req[Main].remote, network |-> req[Main].network]
           /\ supply = 0 => UNCHANGED comparison
           /\ supply # 0 =>
                 comparison' = [remote |-> req[Main].remote, network |-> req[Main].network,
                                supply |-> req[Main].supply, pump |-> req[Main].pump,
                                whole |-> req[Main].whole]
           /\ \E call \in ComplianceCall :
                 /\ Set(Main, call)
                 /\ call.next = "delete" /\ call.left = Rules
                 /\ call.pumped <=> pump # 0
                 /\ call.basis.listed = network /\ call.basis.network = network
                 /\ call.basis.supply = supply /\ call.basis.pump = pump
                 /\ call.basis.whole = TRUE
                 /\ call.basis.result = result'
                 /\ supply # 0 => call.basis.comparison = comparison'
  <1>1. Main \in Threads /\ req[Main] \in Call
    BY DEF Threads, IInv, TypeOK
  <1>2. req[Main] \in CalculateCall /\ req[Main].next = "reconcile" /\ server = "recovering"
    BY <1>1, CallFields, IdleIsCall DEF ReconcileRows, IInv, OneWriter, RecoveryCall,
       PlainCall, ComplianceCall, ReportCall, EditCall
  <1>3. /\ result' = ResultOf(req[Main]) /\ result' \in Result
        /\ ComparisonOf(req[Main]) \in Comparison
    BY <1>2 DEF ReconcileRows, ResultOf, ComparisonOf, CalculateCall, Result, Comparison
  <1> DEFINE basis == [NothingRead EXCEPT
                         !.listed = network, !.network = network,
                         !.supply = supply, !.pump = pump,
                         !.result = ResultOf(req[Main]),
                         !.comparison = IF supply = 0 THEN None
                                        ELSE ComparisonOf(req[Main])]
             call == Compliance("delete", pump # 0, basis)
  <1>4. /\ basis \in Basis
        /\ basis.listed = network /\ basis.network = network
        /\ basis.supply = supply /\ basis.pump = pump /\ basis.whole = TRUE
        /\ basis.result = ResultOf(req[Main])
        /\ supply # 0 => basis.comparison = ComparisonOf(req[Main])
    BY <1>3 DEF NothingRead, Basis, IInv, TypeOK
  <1> HIDE DEF basis
  <1>5. /\ call \in ComplianceCall
        /\ call.next = "delete" /\ call.left = Rules /\ call.basis = basis
        /\ call.pumped <=> pump # 0
    BY <1>4 DEF Compliance, ComplianceCall
  <1>6. Set(Main, call)
    BY DEF ReconcileRows, basis
  <1> HIDE DEF call
  <1>7. \E other \in ComplianceCall :
           /\ Set(Main, other)
           /\ other.next = "delete" /\ other.left = Rules
           /\ other.pumped <=> pump # 0
           /\ other.basis.listed = network /\ other.basis.network = network
           /\ other.basis.supply = supply /\ other.basis.pump = pump
           /\ other.basis.whole = TRUE
           /\ other.basis.result = result'
           /\ supply # 0 => other.basis.comparison = comparison'
    BY <1>3, <1>4, <1>5, <1>6 DEF ReconcileRows
  <1>8. QED
    BY <1>1, <1>2, <1>7 DEF ReconcileRows, ResultOf, ComparisonOf

-----------------------------------------------------------------------------
(* The inductive invariant *)

LEMMA IInvInit == Init => IInv
  <1> SUFFICES ASSUME Init
               PROVE  IInv
    OBVIOUS
  <1>1. TypeOK
    BY IdleIsCall, InputsAssumption DEF Init, TypeOK, DesignStates
  <1>2. OneWriter
    BY IdleIsCall, ThreadsAssumption DEF Init, OneWriter, Threads, RecoveryCall
  <1>3. QED
    BY <1>1, <1>2 DEF IInv

\* A step that leaves state, inputs and rows alone.
LEMMA NothingWritten ==
    ASSUME IInv, UNCHANGED << state, latest, inputs, derived, server >>,
           req' \in [Threads -> Call], lock' \in Clients \union {None}, OneWriter'
    PROVE  IInv'
  BY DEF IInv, TypeOK, inputs, derived

LEMMA BeginStep ==
    ASSUME IInv, NEW c \in Clients, Begin(c)
    PROVE  IInv'
  <1>1. c \in Threads /\ c # Main /\ server = "up" /\ req[c] = Idle
    BY ThreadsAssumption
    DEF Threads, Begin, BeginEdit, SetRemoteNode, BeginCalculate, BeginCompliance,
        BeginReport, BeginTransition, Ready
  <1>2. ASSUME NEW call \in Call, Set(c, call), ~Holds(call), call.next # "reconcile",
               UNCHANGED << state, latest, inputs, derived, lock, server >>
        PROVE  IInv'
    <2>1. req' \in [Threads -> Call] /\ OneWriter'
      BY <1>1, <1>2, IdleIsCall, CallGoesOn
    <2>2. QED
      BY <1>2, <2>1, NothingWritten DEF IInv, TypeOK
  <1>3. ASSUME NEW call \in Call, Set(c, call), Holds(call), call.next # "reconcile", Lock(c),
               UNCHANGED << state, latest, inputs, derived, server >>
        PROVE  IInv'
    <2>1. /\ req' \in [Threads -> Call]
          /\ req'[c] = call
          /\ \A u \in Threads \ {c} : req'[u] = req[u]
      BY <1>1, <1>3, SetCall DEF IInv, TypeOK
    <2>2. OneWriter'
      BY <1>1, <1>3, <2>1, ThreadsAssumption DEF IInv, OneWriter, Threads, Lock
    <2>3. QED
      BY <1>3, <2>1, <2>2, NothingWritten DEF Lock
  <1>4. ASSUME NEW input \in {"network", "supply", "pump"}, BeginEdit(c, input)
        PROVE  IInv'
    <2>1. Edit(input) \in Call /\ ~Holds(Edit(input)) /\ Edit(input).next # "reconcile"
      BY CallsAreCalls DEF Edit, EditCall, Holds
    <2>2. QED
      BY <1>2, <1>4, <2>1 DEF BeginEdit
  <1>5. CASE SetRemoteNode(c)
    <2>1. OneWriter'
      BY <1>5 DEF SetRemoteNode, IInv, OneWriter
    <2>2. QED
      BY <1>5, <2>1 DEF SetRemoteNode, IInv, TypeOK, derived
  <1>6. CASE BeginCalculate(c)
    <2>1. CASE remote # 0
      <3> DEFINE call == Calculation("network", state, remote, pump # 0)
      <3>1. call \in CalculateCall /\ call.next = "network" /\ call.kind = "calculate"
        BY DEF Calculation, CalculateCall, IInv, TypeOK
      <3>2. Set(c, call)
        BY <1>6, <2>1 DEF BeginCalculate
      <3> HIDE DEF call
      <3>3. QED
        BY <1>3, <1>6, <3>1, <3>2, CallsAreCalls, BusyCalls DEF BeginCalculate
    <2>2. CASE remote = 0
      BY <1>3, <1>6, <2>2, PlainCalls DEF BeginCalculate
    <2>3. QED
      BY <2>1, <2>2
  <1>7. CASE BeginCompliance(c)
    <2> DEFINE call == Compliance("list", pump # 0, NothingRead)
    <2>1. call \in ComplianceCall /\ call.next = "list" /\ call.kind = "compliance"
      BY DEF Compliance, ComplianceCall, NothingRead, Basis
    <2>2. Set(c, call)
      BY <1>7 DEF BeginCompliance
    <2> HIDE DEF call
    <2>3. QED
      BY <1>3, <1>7, <2>1, <2>2, CallsAreCalls, BusyCalls DEF BeginCompliance
  <1>8. CASE BeginReport(c)
    <2> DEFINE call == Report("comparison", result, None)
    <2>1. call \in ReportCall /\ call.next = "comparison" /\ call.kind = "report"
      BY DEF Report, ReportCall, IInv, TypeOK
    <2>2. Set(c, call)
      BY <1>8 DEF BeginReport
    <2> HIDE DEF call
    <2>3. QED
      BY <1>2, <1>8, <2>1, <2>2, CallsAreCalls, BusyCalls DEF BeginReport
  <1>9. ASSUME NEW to \in DesignStates, BeginTransition(c, to)
        PROVE  IInv'
    <2>1. Move(to) \in Call /\ ~Holds(Move(to)) /\ Move(to).next # "reconcile"
      BY CallsAreCalls DEF Move, MoveCall, DesignStates, Holds
    <2>2. QED
      BY <1>2, <1>9, <2>1 DEF BeginTransition
  <1>10. QED
    BY <1>4, <1>5, <1>6, <1>7, <1>8, <1>9 DEF Begin

LEMMA ProceedStep ==
    ASSUME IInv, NEW t \in Threads, Proceed(t)
    PROVE  IInv'
  <1>1. req[t] \in Call /\ remote \in Nat /\ network \in Nat /\ supply \in Nat /\ pump \in Nat
    BY DEF IInv, TypeOK
  <1>2. ASSUME NEW call \in Call, Set(t, call), req[t] # Idle, call.next # "reconcile",
               UNCHANGED << lock, server >>,
               Holds(call) <=> Holds(req[t]), t \notin Clients => RecoveryCall(call)
        PROVE  req' \in [Threads -> Call] /\ OneWriter'
    BY <1>2, WhoIsServed, ThreadsAssumption, CallGoesOn
  <1>3. CASE WriteEdit(t)
    <2>1. /\ req' \in [Threads -> Call]
          /\ lock' \in Clients \union {None}
          /\ OneWriter'
      BY <1>3, EditWrites, CallReturns
    <2>2. /\ UNCHANGED << state, latest, derived, server >>
          /\ remote' \in Nat /\ network' \in Nat /\ supply' \in Nat /\ pump' \in Nat
      BY <1>1, <1>3, EditWrites
    <2>3. QED
      BY <2>1, <2>2 DEF IInv, TypeOK, derived
  <1>4. CASE CalculateNetwork(t) \/ CalculateSupply(t) \/ CalculatePoints(t) \/ CalculatePump(t)
    <2>1. /\ UNCHANGED << state, latest, inputs, derived, lock, server >>
          /\ req[t] \in CalculateCall /\ req[t].next # "reconcile"
      BY <1>4, CalculationReads
    <2>2. PICK call \in Call :
             /\ Set(t, call)
             /\ \/ call = [Idle EXCEPT !.next = "return"]
                \/ call \in CalculateCall /\ NextReading(req[t], call)
      BY <1>4, CalculationReads
    <2>3. /\ req[t].kind = "calculate" /\ t \in Clients
          /\ Holds(req[t]) /\ req[t] # Idle
      BY <1>1, <2>1, BusyCalls, WhoIsServed DEF CalculateCall, RecoveryCall
    <2>4. Holds(call) /\ call.next # "reconcile"
      BY <2>2, PlainCalls, BusyCalls DEF CalculateCall, NextReading
    <2>5. req' \in [Threads -> Call] /\ OneWriter'
      BY <1>2, <2>1, <2>2, <2>3, <2>4
    <2>6. QED
      BY <2>1, <2>5, NothingWritten DEF IInv, TypeOK
  <1>5. CASE PersistDerived(t)
    <2>1. /\ UNCHANGED << state, latest, inputs, checks, lock, server >>
          /\ req[t] \in CalculateCall /\ req[t].next = "persist"
          /\ result' = [remote |-> req[t].remote, network |-> req[t].network]
          /\ comparison' = [remote |-> req[t].remote, network |-> req[t].network,
                            supply |-> req[t].supply, pump |-> req[t].pump,
                            whole |-> req[t].whole]
      BY <1>5, PersistWrites
    <2>2. PICK n \in {"promote", "return"} : Set(t, [Idle EXCEPT !.next = n])
      BY <1>5, PersistWrites
    <2>3. req[t].kind = "calculate" /\ t \in Clients /\ Holds(req[t]) /\ req[t] # Idle
      BY <1>1, <2>1, BusyCalls, WhoIsServed DEF CalculateCall, RecoveryCall
    <2>4. req' \in [Threads -> Call] /\ OneWriter'
      BY <1>2, <2>1, <2>2, <2>3, PlainCalls
    <2>5. result' \in Result /\ comparison' \in Comparison
      BY <2>1 DEF CalculateCall, Result, Comparison
    <2>6. QED
      BY <2>1, <2>4, <2>5 DEF IInv, TypeOK, inputs
  <1>6. CASE PromoteToDesigned(t)
    <2>1. Holds(req[t]) /\ req[t] # Idle /\ t \in Clients
      BY <1>1, <1>6, CallFields, BusyCalls, WhoIsServed
      DEF PromoteToDesigned, Holds, RecoveryCall
    <2>2. req' \in [Threads -> Call] /\ OneWriter'
      BY <1>2, <1>6, <2>1, PlainCalls DEF PromoteToDesigned
    <2>3. QED
      BY <1>6, <2>2 DEF PromoteToDesigned, IInv, TypeOK, DesignStates, inputs, derived
  <1>7. CASE \/ ComplianceList(t) \/ ComplianceNetwork(t) \/ ComplianceSupply(t)
             \/ CompliancePoints(t) \/ ComplianceRows(t)
    <2>1. /\ UNCHANGED << state, latest, inputs, derived, lock, server >>
          /\ req[t] \in ComplianceCall
      BY <1>7, ComplianceReads
    <2>2. PICK call \in Call :
             /\ Set(t, call)
             /\ \/ call = [Idle EXCEPT !.next = "return"]
                \/ call \in ComplianceCall /\ NextListing(req[t], call)
      BY <1>7, ComplianceReads
    <2>3. req[t].kind = "compliance" /\ Holds(req[t]) /\ req[t] # Idle
      BY <1>1, <2>1, BusyCalls DEF ComplianceCall
    <2>4. t \in Clients
      BY <1>7, <2>3, WhoIsServed
      DEF RecoveryCall, ComplianceList, ComplianceNetwork, ComplianceSupply, CompliancePoints,
          ComplianceRows
    <2>5. Holds(call) /\ call.next # "reconcile"
      BY <2>2, PlainCalls, BusyCalls DEF ComplianceCall
    <2>6. req' \in [Threads -> Call] /\ OneWriter'
      BY <1>2, <2>1, <2>2, <2>3, <2>4, <2>5
    <2>7. QED
      BY <2>1, <2>6, NothingWritten DEF IInv, TypeOK
  <1>8. CASE DeleteChecks(t)
    <2>1. /\ UNCHANGED << state, latest, inputs, result, comparison, lock, server >>
          /\ req[t] \in ComplianceCall
          /\ checks' = [r \in Rules |-> None]
      BY <1>8, ChecksAreDeleted
    <2>2. PICK call \in ComplianceCall : Set(t, call) /\ call.next = "insert"
      BY <1>8, ChecksAreDeleted
    <2>3. /\ req[t].kind = "compliance" /\ Holds(req[t]) /\ req[t] # Idle
          /\ call.kind = "compliance" /\ call \in Call /\ Holds(call)
      BY <1>1, <2>1, CallsAreCalls, BusyCalls DEF ComplianceCall
    <2>4. req' \in [Threads -> Call] /\ OneWriter'
      BY <1>2, <2>1, <2>2, <2>3 DEF RecoveryCall
    <2>5. QED
      BY <2>1, <2>4 DEF IInv, TypeOK, inputs
  <1>9. CASE InsertCheck(t)
    <2>1. /\ UNCHANGED << state, latest, inputs, result, comparison, lock, server >>
          /\ req[t] \in ComplianceCall
      BY <1>9, CheckIsInserted
    <2>2. PICK r \in req[t].left, call \in ComplianceCall :
             /\ checks' = [checks EXCEPT ![r] = req[t].basis]
             /\ Set(t, call)
             /\ call.next = IF req[t].left = {r} THEN "return" ELSE "insert"
      BY <1>9, CheckIsInserted
    <2>3. /\ req[t].kind = "compliance" /\ Holds(req[t]) /\ req[t] # Idle
          /\ call.kind = "compliance" /\ call \in Call /\ Holds(call)
      BY <1>1, <2>1, CallsAreCalls, BusyCalls DEF ComplianceCall
    <2>4. req' \in [Threads -> Call] /\ OneWriter'
      BY <1>2, <2>1, <2>2, <2>3 DEF RecoveryCall
    <2>5. checks' \in [Rules -> Basis \union {None}]
      BY <2>1, <2>2 DEF ComplianceCall, IInv, TypeOK
    <2>6. QED
      BY <2>1, <2>4, <2>5 DEF IInv, TypeOK, inputs
  <1>10. CASE ReportComparison(t)
    <2>1. req[t] \in ReportCall /\ req[t].kind = "report" /\ req[t] # Idle /\ ~Holds(req[t])
      BY <1>1, <1>10, CallFields, BusyCalls DEF ReportComparison
    <2>2. t \in Clients
      BY <2>1, WhoIsServed DEF RecoveryCall
    <2> DEFINE call == Report("return", req[t].result, comparison)
    <2>3. call \in ReportCall /\ call.kind = "report" /\ call.next = "return"
      BY <2>1 DEF Report, ReportCall, IInv, TypeOK
    <2>4. Set(t, call)
      BY <1>10 DEF ReportComparison
    <2> HIDE DEF call
    <2>5. req' \in [Threads -> Call] /\ OneWriter'
      BY <1>2, <1>10, <2>1, <2>2, <2>3, <2>4, CallsAreCalls, BusyCalls DEF ReportComparison
    <2>6. QED
      BY <1>10, <2>5, NothingWritten DEF ReportComparison, IInv, TypeOK
  <1>11. CASE End(t)
    <2>1. req' \in [Threads -> Call] /\ lock' \in Clients \union {None} /\ OneWriter'
      BY <1>11, CallReturns DEF End
    <2>2. QED
      BY <1>11, <2>1, NothingWritten DEF End
  <1>12. CASE WriteTransition(t)
    <2>1. /\ req' \in [Threads -> Call]
          /\ lock' \in Clients \union {None}
          /\ OneWriter'
      BY <1>12, MoveWrites, CallReturns
    <2>2. QED
      BY <1>12, <2>1, MoveWrites DEF IInv, TypeOK, inputs, derived
  <1>13. QED
    BY <1>3, <1>4, <1>5, <1>6, <1>7, <1>8, <1>9, <1>10, <1>11, <1>12 DEF Proceed

LEMMA ServerStep ==
    ASSUME IInv, Crash \/ Restart \/ ReconcileRows \/ RecoveryFails \/ Serve
    PROVE  IInv'
  <1>1. CASE Crash
    <2>1. OneWriter'
      BY <1>1, IdleIsCall, ThreadsAssumption DEF Crash, OneWriter, Threads, RecoveryCall
    <2>2. QED
      BY <1>1, <2>1, IdleIsCall DEF Crash, IInv, TypeOK, inputs, derived
  <1>2. CASE Restart
    <2>1. OneWriter'
      <3>1. RecoveryCall(req[Main])'
        BY <1>2, RecoveryBegins DEF RecoveryCall, CalculateCall
      <3>2. \A c \in Clients : req'[c] = req[c]
        BY <1>2, RecoveryBegins, ThreadsAssumption DEF Threads
      <3>3. lock' = lock /\ server = "down" /\ server' = "recovering"
        BY <1>2 DEF Restart
      <3>4. QED
        BY <3>1, <3>2, <3>3 DEF IInv, OneWriter
    <2>2. QED
      BY <1>2, <2>1, RecoveryBegins DEF IInv, TypeOK, inputs, derived
  <1>3. CASE ReconcileRows
    <2>1. /\ UNCHANGED << state, latest, inputs, checks, lock, server >>
          /\ Main \in Threads
          /\ req[Main] \in CalculateCall
          /\ server = "recovering"
          /\ result' = [remote |-> req[Main].remote, network |-> req[Main].network]
          /\ \/ UNCHANGED comparison
             \/ comparison' = [remote |-> req[Main].remote, network |-> req[Main].network,
                               supply |-> req[Main].supply, pump |-> req[Main].pump,
                               whole |-> req[Main].whole]
      BY <1>3, ReconciliationWrites
    <2>2. PICK call \in ComplianceCall : Set(Main, call) /\ call.next = "delete"
      BY <1>3, ReconciliationWrites
    <2>3. /\ call \in Call /\ Holds(call) /\ RecoveryCall(call)
          /\ Holds(req[Main])
      BY <2>1, <2>2, CallsAreCalls, BusyCalls DEF RecoveryCall, ComplianceCall, CalculateCall
    <2>4. req' \in [Threads -> Call] /\ OneWriter'
      BY <2>1, <2>2, <2>3, ThreadsAssumption, CallGoesOn
    <2>5. result' \in Result /\ (comparison' \in Comparison \/ UNCHANGED comparison)
      BY <2>1 DEF CalculateCall, Result, Comparison
    <2>6. QED
      BY <2>1, <2>4, <2>5 DEF IInv, TypeOK, inputs
  <1>4. CASE Serve
    <2>1. OneWriter'
      BY <1>4 DEF Serve, IInv, OneWriter
    <2>2. QED
      BY <1>4, <2>1 DEF Serve, CorrectStatesFromEvents, IInv, TypeOK, inputs, derived
  <1>5. CASE RecoveryFails
    <2>1. /\ req' \in [Threads -> Call]
          /\ req'[Main] = Idle
          /\ \A u \in Threads \ {Main} : req'[u] = req[u]
      BY <1>5, SetCall, IdleIsCall DEF RecoveryFails, Threads, IInv, TypeOK
    <2>2. OneWriter'
      BY <1>5, <2>1, ThreadsAssumption DEF RecoveryFails, IInv, OneWriter, RecoveryCall, Threads
    <2>3. QED
      BY <1>5, <2>1, <2>2 DEF RecoveryFails, IInv, TypeOK, inputs, derived
  <1>6. QED
    BY <1>1, <1>2, <1>3, <1>4, <1>5

LEMMA IInvStep == IInv /\ [Next]_vars => IInv'
  <1> SUFFICES ASSUME IInv, [Next]_vars
               PROVE  IInv'
    OBVIOUS
  <1>1. ASSUME NEW c \in Clients, Abandon(c)
        PROVE  IInv'
    <2>1. req' \in [Threads -> Call] /\ lock' \in Clients \union {None} /\ OneWriter'
      BY <1>1, CallReturns DEF Abandon, Threads
    <2>2. QED
      BY <1>1, <2>1, NothingWritten DEF Abandon
  <1>2. CASE UNCHANGED vars
    BY <1>2 DEF vars, inputs, derived, IInv, TypeOK, OneWriter
  <1>3. QED
    BY <1>1, <1>2, BeginStep, ProceedStep, ServerStep DEF Next

\* In every state a client has the mutex exactly as long as its calculation or
\* compliance run goes on, and the recovery goes alone.
THEOREM IInvHolds == Spec => []IInv
  <1>1. Init => IInv
    BY IInvInit
  <1>2. IInv /\ [Next]_vars => IInv'
    BY IInvStep
  <1>3. QED
    BY <1>1, <1>2, PTL DEF Spec

\* Every variable holds a value of its type, in particular: a row that is there
\* was computed from versions of the inputs, and the mutex is free or a client's.
THEOREM TypeCorrectness == Spec => []TypeOK
  <1>1. IInv => TypeOK
    BY DEF IInv
  <1>2. QED
    BY <1>1, IInvHolds, PTL

-----------------------------------------------------------------------------
(* The steps that write no input and no row *)

BegunCalculation(b) ==
    /\ b \in CalculateCall /\ b.next = "network"
    /\ b.remote = remote /\ b.network = 0 /\ b.supply = 0 /\ b.pump = 0 /\ b.whole = TRUE
    /\ b.pumped <=> pump # 0

BegunReconciliation(b) ==
    /\ b \in CalculateCall /\ b.next = "reconcile"
    /\ b.remote = remote /\ b.network = network /\ b.supply = supply /\ b.pump = pump
    /\ b.whole = TRUE
    /\ b.pumped <=> pump # 0

BegunCompliance(b) ==
    /\ b \in ComplianceCall /\ b.next = "list" /\ b.left = Rules /\ b.basis = NothingRead
    /\ b.pumped <=> pump # 0

BegunReport(b) ==
    b \in ReportCall /\ b.next = "comparison" /\ b.result = result

\* How a call, or the thread without one, goes on without writing any row; a
\* call that ends, or has only to return, has nothing more to say.
GoesOn(a, b) ==
    \/ b = a
    \/ b \in Call /\ b.kind \in {"none", "edit", "transition"}
    \/ BegunCalculation(b) \/ BegunReconciliation(b) \/ BegunCompliance(b) \/ BegunReport(b)
    \/ a \in CalculateCall /\ b \in CalculateCall /\ NextReading(a, b)
    \/ a \in ComplianceCall /\ b \in ComplianceCall /\ NextListing(a, b)
    \/ /\ a \in ReportCall /\ a.next = "comparison" /\ b \in ReportCall /\ b.next = "return"
       /\ b.result = a.result /\ b.comparison = comparison

NoWrite == UNCHANGED << inputs, derived >> /\ \A t \in Threads : GoesOn(req[t], req'[t])

LEMMA OneGoesOn ==
    ASSUME IInv, UNCHANGED << inputs, derived >>, NEW t \in Threads, NEW call \in Call,
           Set(t, call), GoesOn(req[t], call)
    PROVE  NoWrite
  <1>1. req'[t] = call /\ \A u \in Threads \ {t} : req'[u] = req[u]
    BY SetCall DEF IInv, TypeOK
  <1>2. ASSUME NEW u \in Threads
        PROVE  GoesOn(req[u], req'[u])
    <2>1. CASE u = t
      BY <1>1, <2>1
    <2>2. CASE u # t
      BY <1>1, <2>2 DEF GoesOn
    <2>3. QED
      BY <2>1, <2>2
  <1>3. QED
    BY <1>2 DEF NoWrite

LEMMA PlainGoesOn ==
    ASSUME IInv, UNCHANGED << inputs, derived >>, NEW t \in Threads, NEW call \in Call,
           Set(t, call), call.kind \in {"none", "edit", "transition"}
    PROVE  NoWrite
  BY OneGoesOn DEF GoesOn

LEMMA StepKinds ==
    ASSUME IInv, [Next]_vars
    PROVE  \/ NoWrite
           \/ \E t \in Threads : WriteEdit(t) \/ PersistDerived(t) \/ DeleteChecks(t) \/ InsertCheck(t)
           \/ \E c \in Clients : SetRemoteNode(c)
           \/ ReconcileRows
  <1>1. ASSUME UNCHANGED << inputs, derived, req >>
        PROVE  NoWrite
    BY <1>1 DEF NoWrite, GoesOn
  <1>2. ASSUME NEW t \in Threads, Return(t), UNCHANGED << inputs, derived >>
        PROVE  NoWrite
    BY <1>2, PlainGoesOn, IdleIsCall DEF Return
  <1>3. ASSUME NEW c \in Clients, Begin(c), ~SetRemoteNode(c)
        PROVE  NoWrite
    <2>1. c \in Threads
      BY DEF Threads
    <2>2. ASSUME NEW input \in {"network", "supply", "pump"}, BeginEdit(c, input)
          PROVE  NoWrite
      <3>1. Edit(input) \in Call /\ Edit(input).kind = "edit"
        BY CallsAreCalls DEF Edit, EditCall
      <3>2. QED
        BY <2>1, <2>2, <3>1, PlainGoesOn DEF BeginEdit
    <2>3. CASE BeginCalculate(c) /\ remote # 0
      <3> DEFINE call == Calculation("network", state, remote, pump # 0)
      <3>1. BegunCalculation(call) /\ Set(c, call)
        BY <2>3 DEF Calculation, CalculateCall, BegunCalculation, BeginCalculate, IInv, TypeOK
      <3> HIDE DEF call
      <3>2. call \in Call /\ GoesOn(req[c], call)
        BY <3>1, CallsAreCalls DEF BegunCalculation, GoesOn
      <3>3. QED
        BY <2>1, <2>3, <3>1, <3>2, OneGoesOn DEF BeginCalculate
    <2>4. CASE BeginCalculate(c) /\ remote = 0
      BY <2>1, <2>4, PlainCalls, PlainGoesOn DEF BeginCalculate
    <2>5. CASE BeginCompliance(c)
      <3> DEFINE call == Compliance("list", pump # 0, NothingRead)
      <3>1. BegunCompliance(call) /\ Set(c, call)
        BY <2>5 DEF Compliance, ComplianceCall, BegunCompliance, BeginCompliance, NothingRead, Basis
      <3> HIDE DEF call
      <3>2. call \in Call /\ GoesOn(req[c], call)
        BY <3>1, CallsAreCalls DEF BegunCompliance, GoesOn
      <3>3. QED
        BY <2>1, <2>5, <3>1, <3>2, OneGoesOn DEF BeginCompliance
    <2>6. CASE BeginReport(c)
      <3> DEFINE call == Report("comparison", result, None)
      <3>1. BegunReport(call) /\ Set(c, call)
        BY <2>6 DEF Report, ReportCall, BegunReport, BeginReport, IInv, TypeOK
      <3> HIDE DEF call
      <3>2. call \in Call /\ GoesOn(req[c], call)
        BY <3>1, CallsAreCalls DEF BegunReport, GoesOn
      <3>3. QED
        BY <2>1, <2>6, <3>1, <3>2, OneGoesOn DEF BeginReport
    <2>7. ASSUME NEW to \in DesignStates, BeginTransition(c, to)
          PROVE  NoWrite
      <3>1. Move(to) \in Call /\ Move(to).kind = "transition"
        BY CallsAreCalls DEF Move, MoveCall
      <3>2. QED
        BY <2>1, <2>7, <3>1, PlainGoesOn DEF BeginTransition
    <2>8. QED
      BY <1>3, <2>2, <2>3, <2>4, <2>5, <2>6, <2>7 DEF Begin
  <1>4. ASSUME NEW t \in Threads,
               \/ CalculateNetwork(t) \/ CalculateSupply(t)
               \/ CalculatePoints(t) \/ CalculatePump(t)
        PROVE  NoWrite
    <2>1. UNCHANGED << inputs, derived >> /\ req[t] \in CalculateCall
      BY <1>4, CalculationReads
    <2>2. PICK call \in Call :
             /\ Set(t, call)
             /\ \/ call = [Idle EXCEPT !.next = "return"]
                \/ call \in CalculateCall /\ NextReading(req[t], call)
      BY <1>4, CalculationReads
    <2>3. GoesOn(req[t], call)
      BY <2>1, <2>2, PlainCalls DEF GoesOn
    <2>4. QED
      BY <2>1, <2>2, <2>3, OneGoesOn
  <1>5. ASSUME NEW t \in Threads,
               \/ ComplianceList(t) \/ ComplianceNetwork(t) \/ ComplianceSupply(t)
               \/ CompliancePoints(t) \/ ComplianceRows(t)
        PROVE  NoWrite
    <2>1. UNCHANGED << inputs, derived >> /\ req[t] \in ComplianceCall
      BY <1>5, ComplianceReads
    <2>2. PICK call \in Call :
             /\ Set(t, call)
             /\ \/ call = [Idle EXCEPT !.next = "return"]
                \/ call \in ComplianceCall /\ NextListing(req[t], call)
      BY <1>5, ComplianceReads
    <2>3. GoesOn(req[t], call)
      BY <2>1, <2>2, PlainCalls DEF GoesOn
    <2>4. QED
      BY <2>1, <2>2, <2>3, OneGoesOn
  <1>6. ASSUME NEW t \in Threads, PromoteToDesigned(t)
        PROVE  NoWrite
    BY <1>6, PlainCalls, PlainGoesOn DEF PromoteToDesigned
  <1>7. ASSUME NEW t \in Threads, ReportComparison(t)
        PROVE  NoWrite
    <2>1. req[t] \in ReportCall /\ req[t].next = "comparison"
      BY <1>7, CallFields DEF ReportComparison, IInv, TypeOK
    <2> DEFINE call == Report("return", req[t].result, comparison)
    <2>2. /\ call \in ReportCall /\ call.next = "return" /\ call.result = req[t].result
          /\ call.comparison = comparison
      BY <2>1 DEF Report, ReportCall, IInv, TypeOK
    <2>3. Set(t, call)
      BY <1>7 DEF ReportComparison
    <2> HIDE DEF call
    <2>4. QED
      BY <1>7, <2>1, <2>2, <2>3, CallsAreCalls, OneGoesOn DEF GoesOn, ReportComparison
  <1>8. CASE Crash
    BY <1>8, IdleIsCall DEF Crash, NoWrite, GoesOn
  <1>9. CASE Restart
    <2>1. /\ UNCHANGED << inputs, derived >>
          /\ \A u \in Threads \ {Main} : req'[u] = req[u]
      BY <1>9, RecoveryBegins
    <2>2. req'[Main] = Idle \/ BegunReconciliation(req'[Main])
      BY <1>9, RecoveryBegins DEF BegunReconciliation
    <2>3. QED
      BY <2>1, <2>2, IdleIsCall DEF NoWrite, GoesOn
  <1>10. CASE Serve \/ UNCHANGED vars
    BY <1>1, <1>10 DEF Serve, vars
  <1>11. ASSUME NEW t \in Threads, WriteTransition(t)
         PROVE  NoWrite
    BY <1>2, <1>11, MoveWrites
  <1>12. CASE RecoveryFails
    BY <1>12, PlainGoesOn, IdleIsCall DEF RecoveryFails, Threads
  <1>13. QED
    BY <1>2, <1>3, <1>4, <1>5, <1>6, <1>7, <1>8, <1>9, <1>10, <1>11, <1>12
    DEF Next, Proceed, Abandon, End, Threads

-----------------------------------------------------------------------------
(* The checks of one run *)

\* What a compliance run has left of the checks: none before it inserts, and of
\* those it has inserted, its own.
ChecksOf(call) ==
    call.kind = "compliance" =>
        /\ call.next \notin {"insert", "return"} => call.left = Rules
        /\ call.next = "insert" =>
              /\ call.left # {}
              /\ \A r \in Rules : checks[r] = IF r \in call.left THEN None ELSE call.basis
        /\ call.next = "return" => \A r \in Rules : checks[r] = call.basis

ChecksInv == \A t \in Threads : ChecksOf(req[t])

\* No other call is a compliance run while one is.
LEMMA RunsAreAlone ==
    ASSUME IInv, NEW t \in Threads, Holds(req[t]), \A u \in Threads \ {t} : req'[u] = req[u],
           ChecksOf(req[t])'
    PROVE  ChecksInv'
  <1> SUFFICES ASSUME NEW u \in Threads \ {t}, req'[u].kind = "compliance"
               PROVE  FALSE
    BY DEF ChecksInv, ChecksOf
  <1>1. Holds(req[u])
    BY BusyCalls DEF IInv, TypeOK
  <1>2. QED
    BY <1>1, WritersAreAlone

LEMMA ChecksStep == IInv /\ ChecksInv /\ [Next]_vars => ChecksInv'
  <1> SUFFICES ASSUME IInv, ChecksInv, [Next]_vars
               PROVE  ChecksInv'
    OBVIOUS
  <1>1. CASE NoWrite
    <2> SUFFICES ASSUME NEW t \in Threads, req'[t].kind = "compliance"
                 PROVE  ChecksOf(req[t])'
      BY DEF ChecksInv, ChecksOf
    <2>1. checks' = checks /\ GoesOn(req[t], req'[t])
      BY <1>1 DEF NoWrite, derived
    <2>2. CASE req'[t] = req[t]
      BY <2>1, <2>2 DEF ChecksInv, ChecksOf
    <2>3. CASE BegunCompliance(req'[t])
      BY <2>3 DEF BegunCompliance, ChecksOf
    <2>4. CASE req[t] \in ComplianceCall /\ NextListing(req[t], req'[t])
      BY <2>4 DEF NextListing, ComplianceCall, ChecksInv, ChecksOf
    <2>5. QED
      BY <2>1, <2>2, <2>3, <2>4
      DEF GoesOn, BegunCalculation, BegunReconciliation, BegunReport, CalculateCall, ReportCall
  <1>2. ASSUME NEW t \in Threads, WriteEdit(t)
        PROVE  ChecksInv'
    BY <1>2, EditWrites, CallReturns, IdleIsCall DEF ChecksInv, ChecksOf, derived
  <1>3. ASSUME NEW c \in Clients, SetRemoteNode(c)
        PROVE  ChecksInv'
    BY <1>3 DEF SetRemoteNode, ChecksInv, ChecksOf, derived
  <1>4. ASSUME NEW t \in Threads, PersistDerived(t)
        PROVE  ChecksInv'
    <2>1. checks' = checks
      BY <1>4, PersistWrites
    <2>2. PICK n \in {"promote", "return"} : Set(t, [Idle EXCEPT !.next = n])
      BY <1>4, PersistWrites
    <2>3. req'[t].kind = "none" /\ \A u \in Threads \ {t} : req'[u] = req[u]
      BY <2>2, PlainCalls, SetCall DEF IInv, TypeOK
    <2>4. QED
      BY <2>1, <2>3 DEF ChecksInv, ChecksOf
  <1>5. ASSUME NEW t \in Threads, DeleteChecks(t)
        PROVE  ChecksInv'
    <2>1. /\ req[t] \in ComplianceCall /\ req[t].next = "delete"
          /\ checks' = [r \in Rules |-> None]
      BY <1>5, ChecksAreDeleted
    <2>2. PICK call \in ComplianceCall :
             Set(t, call) /\ call.next = "insert" /\ call.left = req[t].left
      BY <1>5, ChecksAreDeleted
    <2>3. req'[t] = call /\ \A u \in Threads \ {t} : req'[u] = req[u]
      BY <2>2, SetCall, CallsAreCalls DEF IInv, TypeOK
    <2>4. req[t].kind = "compliance" /\ Holds(req[t])
      BY <2>1, BusyCalls DEF ComplianceCall, IInv, TypeOK
    <2>5. ChecksOf(req[t])'
      BY <2>1, <2>2, <2>3, <2>4, RulesAssumption DEF ChecksInv, ChecksOf
    <2>6. QED
      BY <2>3, <2>4, <2>5, RunsAreAlone
  <1>6. ASSUME NEW t \in Threads, InsertCheck(t)
        PROVE  ChecksInv'
    <2>1. req[t] \in ComplianceCall /\ req[t].next = "insert" /\ req[t].kind = "compliance"
      BY <1>6, CheckIsInserted DEF ComplianceCall
    <2>2. PICK r \in req[t].left, call \in ComplianceCall :
             /\ checks' = [checks EXCEPT ![r] = req[t].basis]
             /\ Set(t, call)
             /\ call.basis = req[t].basis
             /\ call.left = req[t].left \ {r}
             /\ call.next = IF req[t].left = {r} THEN "return" ELSE "insert"
      BY <1>6, CheckIsInserted
    <2>3. req'[t] = call /\ \A u \in Threads \ {t} : req'[u] = req[u]
      BY <2>2, SetCall, CallsAreCalls DEF IInv, TypeOK
    <2>4. Holds(req[t])
      BY <2>1, BusyCalls DEF IInv, TypeOK
    <2>5. \A q \in Rules :
             checks'[q] = IF q \in call.left THEN None ELSE call.basis
      BY <2>1, <2>2 DEF ChecksInv, ChecksOf, IInv, TypeOK
    <2>6. ChecksOf(req[t])'
      <3>1. CASE req[t].left = {r}
        BY <2>2, <2>3, <2>5, <3>1 DEF ChecksOf
      <3>2. CASE req[t].left # {r}
        BY <2>2, <2>3, <2>5, <3>2 DEF ChecksOf
      <3>3. QED
        BY <3>1, <3>2
    <2>7. QED
      BY <2>3, <2>4, <2>6, RunsAreAlone
  <1>7. CASE ReconcileRows
    <2>1. checks' = checks /\ Main \in Threads
      BY <1>7, ReconciliationWrites
    <2>2. PICK call \in ComplianceCall :
             Set(Main, call) /\ call.next = "delete" /\ call.left = Rules
      BY <1>7, ReconciliationWrites
    <2>3. req'[Main] = call /\ \A u \in Threads \ {Main} : req'[u] = req[u]
      BY <2>1, <2>2, SetCall, CallsAreCalls DEF IInv, TypeOK
    <2>4. QED
      BY <2>1, <2>2, <2>3 DEF ChecksInv, ChecksOf
  <1>8. QED
    BY <1>1, <1>2, <1>3, <1>4, <1>5, <1>6, <1>7, StepKinds

LEMMA ChecksInvHolds == Spec => []ChecksInv
  <1>1. Init => ChecksInv
    BY IdleIsCall DEF Init, ChecksInv, ChecksOf
  <1>2. QED
    BY <1>1, ChecksStep, IInvHolds, PTL DEF Spec

\* A compliance run that comes to its end has left a row of its own for every
\* rule: the mutex keeps other runs away, the run deletes what earlier ones left
\* half written, and inserts one row per rule.
THEOREM ChecksFromOneRunHolds == Spec => []ChecksFromOneRun
  <1>1. ChecksInv => ChecksFromOneRun
    BY DEF ChecksInv, ChecksOf, ChecksFromOneRun
  <1>2. QED
    BY <1>1, ChecksInvHolds, PTL

-----------------------------------------------------------------------------
(* Versions: a system that has a water supply *)

\* Result and comparison are of one calculation, from versions that exist.
RowsInOrder ==
    /\ supply # 0
    /\ comparison = None => result = None
    /\ comparison # None =>
          /\ result = [remote |-> comparison.remote, network |-> comparison.network]
          /\ comparison.remote <= remote /\ comparison.network <= network
          /\ comparison.supply <= supply /\ comparison.pump <= pump

\* What a calculation has read by now is not older than what is stored, and not
\* newer than what there is; without a pump in the system row there was none.
CalculationInOrder(call) ==
    call.kind = "calculate" =>
        /\ call.remote <= remote /\ call.network <= network
        /\ call.supply <= supply /\ call.pump <= pump
        /\ call.next \in {"network", "supply"} \/ call.supply = supply => call.whole
        /\ call.next = "reconcile" =>
              /\ call.remote = remote /\ call.network = network
              /\ call.supply = supply /\ call.pump = pump /\ call.whole
        /\ comparison # None =>
              /\ comparison.remote <= call.remote
              /\ call.next # "network" => comparison.network <= call.network
              /\ call.next \notin {"network", "supply"} => comparison.supply <= call.supply
              /\ call.next \in {"persist", "reconcile"} => comparison.pump <= call.pump
              /\ ~call.pumped => comparison.pump = 0

\* The same of a compliance run, which judges the rows that are stored.
ComplianceInOrder(call) ==
    call.kind = "compliance" =>
        /\ call.basis.listed <= network /\ call.basis.network <= network
        /\ call.basis.supply <= supply /\ call.basis.pump <= pump
        /\ call.next \in {"list", "network", "supply"} \/ call.basis.supply = supply =>
              call.basis.whole
        /\ call.next \notin {"list", "network"} => call.basis.listed <= call.basis.network
        /\ call.next \in {"delete", "insert", "return"} =>
              call.basis.result = result /\ call.basis.comparison = comparison
        /\ comparison # None =>
              /\ call.next # "list" => comparison.network <= call.basis.listed
              /\ call.next \notin {"list", "network", "supply"} =>
                    comparison.supply <= call.basis.supply
              /\ call.next \in {"delete", "insert", "return"} =>
                    comparison.pump <= call.basis.pump
              /\ ~call.pumped => comparison.pump = 0

\* The result that a report has read has a comparison beside it or after it.
ReportInOrder(call) ==
    call.kind = "report" /\ call.result # None =>
        /\ call.next = "comparison" =>
              /\ comparison # None
              /\ call.result.remote <= comparison.remote
              /\ call.result.network <= comparison.network
        /\ call.next = "return" =>
              /\ call.comparison # None
              /\ call.result.remote <= call.comparison.remote
              /\ call.result.network <= call.comparison.network

CallInOrder(call) ==
    CalculationInOrder(call) /\ ComplianceInOrder(call) /\ ReportInOrder(call)

VersionsInv == RowsInOrder /\ \A t \in Threads : CallInOrder(req[t])

LEMMA PlainInOrder ==
    ASSUME NEW call, call.kind \in {"none", "edit", "transition"}
    PROVE  CallInOrder(call)
  BY DEF CallInOrder, CalculationInOrder, ComplianceInOrder, ReportInOrder

LEMMA RowsAreTyped ==
    ASSUME IInv
    PROVE  /\ remote \in Nat /\ network \in Nat /\ supply \in Nat /\ pump \in Nat
           /\ comparison # None =>
                 /\ comparison \in Comparison
                 /\ comparison.remote \in Nat /\ comparison.network \in Nat
                 /\ comparison.supply \in Nat /\ comparison.pump \in Nat
  BY DEF IInv, TypeOK, Comparison

\* A calculation reads on.
LEMMA ReadingInOrder ==
    ASSUME IInv, RowsInOrder, NEW a \in CalculateCall, NEW b \in CalculateCall,
           NextReading(a, b), CalculationInOrder(a)
    PROVE  CalculationInOrder(b)
  <1>1. /\ a.kind = "calculate" /\ b.kind = "calculate"
        /\ a.remote \in Nat /\ a.network \in Nat /\ a.supply \in Nat /\ a.pump \in Nat
        /\ b.remote = a.remote /\ b.pumped = a.pumped
        /\ b.next # "reconcile"
    BY DEF CalculateCall, NextReading
  <1>2. CASE a.next = "network"
    BY <1>1, <1>2, RowsAreTyped DEF NextReading, CalculationInOrder, RowsInOrder
  <1>3. CASE a.next = "supply"
    BY <1>1, <1>3, RowsAreTyped DEF NextReading, CalculationInOrder, RowsInOrder
  <1>4. CASE a.next = "points"
    BY <1>1, <1>4, RowsAreTyped DEF NextReading, CalculationInOrder, RowsInOrder
  <1>5. CASE a.next = "pump"
    BY <1>1, <1>5, RowsAreTyped DEF NextReading, CalculationInOrder, RowsInOrder, PumpRead
  <1>6. QED
    BY <1>2, <1>3, <1>4, <1>5 DEF NextReading

\* A compliance run reads on.
LEMMA ListingInOrder ==
    ASSUME IInv, RowsInOrder, NEW a \in ComplianceCall, NEW b \in ComplianceCall,
           NextListing(a, b), ComplianceInOrder(a)
    PROVE  ComplianceInOrder(b)
  <1>1. /\ a.kind = "compliance" /\ b.kind = "compliance"
        /\ a.basis \in Basis
        /\ a.basis.listed \in Nat /\ a.basis.network \in Nat
        /\ a.basis.supply \in Nat /\ a.basis.pump \in Nat
        /\ b.pumped = a.pumped
    BY DEF ComplianceCall, Basis, NextListing
  <1>2. CASE a.next = "list"
    <2>1. /\ b.next = "network" /\ b.basis.listed = network
          /\ b.basis.network = a.basis.network /\ b.basis.supply = a.basis.supply
          /\ b.basis.pump = a.basis.pump /\ b.basis.whole = a.basis.whole
      BY <1>1, <1>2 DEF NextListing, Basis
    <2>2. QED
      BY <1>1, <1>2, <2>1, RowsAreTyped DEF ComplianceInOrder, RowsInOrder
  <1>3. CASE a.next = "network"
    <2>1. /\ b.next = "supply" /\ b.basis.network = network
          /\ b.basis.listed = a.basis.listed /\ b.basis.supply = a.basis.supply
          /\ b.basis.pump = a.basis.pump /\ b.basis.whole = a.basis.whole
      BY <1>1, <1>3 DEF NextListing, Basis
    <2>2. QED
      BY <1>1, <1>3, <2>1, RowsAreTyped DEF ComplianceInOrder, RowsInOrder
  <1>4. CASE a.next = "supply"
    <2>1. /\ b.next = "points" /\ b.basis.supply = supply
          /\ b.basis.listed = a.basis.listed /\ b.basis.network = a.basis.network
          /\ b.basis.pump = a.basis.pump /\ b.basis.whole = a.basis.whole
      BY <1>1, <1>4 DEF NextListing, Basis
    <2>2. QED
      BY <1>1, <1>4, <2>1, RowsAreTyped DEF ComplianceInOrder, RowsInOrder
  <1>5. CASE a.next = "points"
    <2>1. /\ b.next = "rows" /\ b.basis.whole = (a.basis.supply = supply)
          /\ b.basis.listed = a.basis.listed /\ b.basis.network = a.basis.network
          /\ b.basis.pump = a.basis.pump /\ b.basis.supply = a.basis.supply
      BY <1>1, <1>5 DEF NextListing, Basis
    <2>2. QED
      BY <1>1, <1>5, <2>1, RowsAreTyped DEF ComplianceInOrder, RowsInOrder
  <1>6. CASE a.next = "rows"
    <2>1. /\ b.next = "delete" /\ b.basis.pump = PumpRead(a)
          /\ b.basis.result = result /\ b.basis.comparison = comparison
          /\ b.basis.listed = a.basis.listed /\ b.basis.network = a.basis.network
          /\ b.basis.whole = a.basis.whole /\ b.basis.supply = a.basis.supply
      BY <1>1, <1>6 DEF NextListing, Basis
    <2>2. QED
      BY <1>1, <1>6, <2>1, RowsAreTyped DEF ComplianceInOrder, RowsInOrder, PumpRead
  <1>7. QED
    BY <1>2, <1>3, <1>4, <1>5, <1>6 DEF NextListing

\* A step that writes nothing keeps every call in order.
LEMMA NoWriteInOrder ==
    ASSUME IInv, VersionsInv, NoWrite
    PROVE  VersionsInv'
  <1>1. UNCHANGED << remote, network, supply, pump, result, comparison, checks >>
    BY DEF NoWrite, inputs, derived
  <1>2. ASSUME NEW t \in Threads
        PROVE  CallInOrder(req'[t])
    <2>1. GoesOn(req[t], req'[t]) /\ CallInOrder(req[t]) /\ RowsInOrder
      BY DEF NoWrite, VersionsInv
    <2>2. CASE req'[t] = req[t]
      BY <2>1, <2>2
    <2>3. CASE req'[t].kind \in {"none", "edit", "transition"}
      BY <2>3, PlainInOrder
    <2>4. CASE BegunCalculation(req'[t]) \/ BegunReconciliation(req'[t])
      <3>1. CalculationInOrder(req'[t])
        BY <2>1, <2>4, RowsAreTyped
        DEF BegunCalculation, BegunReconciliation, CalculationInOrder, RowsInOrder
      <3>2. req'[t].kind = "calculate"
        BY <2>4 DEF BegunCalculation, BegunReconciliation, CalculateCall
      <3>3. QED
        BY <3>1, <3>2 DEF CallInOrder, ComplianceInOrder, ReportInOrder
    <2>5. CASE BegunCompliance(req'[t])
      <3>1. ComplianceInOrder(req'[t])
        BY <2>1, <2>5, RowsAreTyped
        DEF BegunCompliance, ComplianceInOrder, RowsInOrder, NothingRead
      <3>2. req'[t].kind = "compliance"
        BY <2>5 DEF BegunCompliance, ComplianceCall
      <3>3. QED
        BY <3>1, <3>2 DEF CallInOrder, CalculationInOrder, ReportInOrder
    <2>6. CASE BegunReport(req'[t])
      <3>1. ReportInOrder(req'[t])
        BY <2>1, <2>6, RowsAreTyped DEF BegunReport, ReportInOrder, RowsInOrder
      <3>2. req'[t].kind = "report"
        BY <2>6 DEF BegunReport, ReportCall
      <3>3. QED
        BY <3>1, <3>2 DEF CallInOrder, CalculationInOrder, ComplianceInOrder
    <2>7. CASE /\ req[t] \in CalculateCall /\ req'[t] \in CalculateCall
               /\ NextReading(req[t], req'[t])
      <3>1. CalculationInOrder(req'[t])
        BY <2>1, <2>7, ReadingInOrder DEF CallInOrder
      <3>2. req'[t].kind = "calculate"
        BY <2>7 DEF CalculateCall
      <3>3. QED
        BY <3>1, <3>2 DEF CallInOrder, ComplianceInOrder, ReportInOrder
    <2>8. CASE /\ req[t] \in ComplianceCall /\ req'[t] \in ComplianceCall
               /\ NextListing(req[t], req'[t])
      <3>1. ComplianceInOrder(req'[t])
        BY <2>1, <2>8, ListingInOrder DEF CallInOrder
      <3>2. req'[t].kind = "compliance"
        BY <2>8 DEF ComplianceCall
      <3>3. QED
        BY <3>1, <3>2 DEF CallInOrder, CalculationInOrder, ReportInOrder
    <2>9. CASE /\ req[t] \in ReportCall /\ req[t].next = "comparison"
               /\ req'[t] \in ReportCall /\ req'[t].next = "return"
               /\ req'[t].result = req[t].result /\ req'[t].comparison = comparison
      <3>1. ReportInOrder(req'[t])
        BY <2>1, <2>9 DEF ReportInOrder, CallInOrder, ReportCall
      <3>2. req'[t].kind = "report"
        BY <2>9 DEF ReportCall
      <3>3. QED
        BY <3>1, <3>2 DEF CallInOrder, CalculationInOrder, ComplianceInOrder
    <2>10. QED
      BY <2>1, <2>2, <2>3, <2>4, <2>5, <2>6, <2>7, <2>8, <2>9 DEF GoesOn
  <1>3. QED
    BY <1>1, <1>2
    DEF VersionsInv, RowsInOrder, CallInOrder, CalculationInOrder, ComplianceInOrder, ReportInOrder

\* An edit leaves behind only calls that were in order with the older versions.
LEMMA EditInOrder ==
    ASSUME IInv, VersionsInv, server = "up", UNCHANGED derived,
           remote' \in {remote, remote + 1}, network' \in {network, network + 1},
           supply' \in {supply, supply + 1}, pump' \in {pump, pump + 1},
           \A t \in Threads : req'[t] = req[t] \/ req'[t] = Idle
    PROVE  VersionsInv'
  <1>1. UNCHANGED << result, comparison, checks >>
    BY DEF derived
  <1>2. RowsInOrder'
    BY <1>1, RowsAreTyped DEF VersionsInv, RowsInOrder
  <1>3. ASSUME NEW t \in Threads, req'[t] = req[t]
        PROVE  CallInOrder(req[t])'
    <2>1. CallInOrder(req[t]) /\ req[t] \in Call
      BY DEF VersionsInv, IInv, TypeOK
    <2>2. req[t].next # "reconcile"
      BY <2>1, ThreadsAssumption, IdleIsCall DEF IInv, OneWriter, Threads
    <2>3. CalculationInOrder(req[t])'
      <3>1. CASE req[t].kind = "calculate"
        <4>1. req[t] \in CalculateCall
          BY <2>1, <3>1, CallFields
        <4>2. req[t].remote \in Nat /\ req[t].network \in Nat /\ req[t].supply \in Nat /\ req[t].pump \in Nat
          BY <4>1 DEF CalculateCall
        <4>3. req[t].supply = supply' => req[t].supply = supply
          BY <2>1, <3>1, <4>2, RowsAreTyped DEF CallInOrder, CalculationInOrder
        <4>4. QED
          BY <1>1, <1>3, <2>1, <2>2, <4>2, <4>3, RowsAreTyped DEF CallInOrder, CalculationInOrder
      <3>2. QED
        BY <1>3, <3>1 DEF CalculationInOrder
    <2>4. ComplianceInOrder(req[t])'
      <3>1. CASE req[t].kind = "compliance"
        <4>1. req[t] \in ComplianceCall
          BY <2>1, <3>1, CallFields
        <4>2. /\ req[t].basis.listed \in Nat /\ req[t].basis.network \in Nat
              /\ req[t].basis.supply \in Nat /\ req[t].basis.pump \in Nat
          BY <4>1 DEF ComplianceCall, Basis
        <4>3. req[t].basis.supply = supply' => req[t].basis.supply = supply
          BY <2>1, <3>1, <4>2, RowsAreTyped DEF CallInOrder, ComplianceInOrder
        <4>4. QED
          BY <1>1, <1>3, <2>1, <4>2, <4>3, RowsAreTyped DEF CallInOrder, ComplianceInOrder
      <3>2. QED
        BY <1>3, <3>1 DEF ComplianceInOrder
    <2>5. ReportInOrder(req[t])'
      BY <1>1, <1>3, <2>1 DEF CallInOrder, ReportInOrder
    <2>6. QED
      BY <2>3, <2>4, <2>5 DEF CallInOrder
  <1>4. ASSUME NEW t \in Threads, req'[t] = Idle
        PROVE  CallInOrder(req[t])'
    BY <1>4, IdleIsCall DEF CallInOrder, CalculationInOrder, ComplianceInOrder, ReportInOrder
  <1>5. QED
    BY <1>2, <1>3, <1>4 DEF VersionsInv

\* Rows that are stored are not older than those they replace.
RowsGrow ==
    comparison # None =>
        /\ comparison' # None
        /\ comparison.remote <= comparison'.remote /\ comparison.network <= comparison'.network
        /\ comparison.supply <= comparison'.supply /\ comparison.pump <= comparison'.pump

\* A calculation whose rows are stored: the other calls are reports and edits.
LEMMA StoreInOrder ==
    ASSUME IInv, VersionsInv, NEW t \in Threads, UNCHANGED << inputs, checks >>,
           req[t] \in CalculateCall, req[t].next \in {"persist", "reconcile"},
           result' = [remote |-> req[t].remote, network |-> req[t].network],
           comparison' = [remote |-> req[t].remote, network |-> req[t].network,
                          supply |-> req[t].supply, pump |-> req[t].pump,
                          whole |-> req[t].whole],
           \A u \in Threads \ {t} : req'[u] = req[u],
           CallInOrder(req[t])'
    PROVE  /\ VersionsInv'
           /\ RowsGrow
           /\ comparison' \in Comparison
           /\ comparison'.remote <= remote /\ comparison'.network <= network
           /\ comparison'.supply <= supply /\ comparison'.pump <= pump
           /\ comparison'.supply = supply => comparison'.whole
  <1>1. /\ req[t].kind = "calculate"
        /\ req[t].remote \in Nat /\ req[t].network \in Nat
        /\ req[t].supply \in Nat /\ req[t].pump \in Nat
        /\ CalculationInOrder(req[t])
    BY DEF CalculateCall, VersionsInv, CallInOrder
  <1>2. /\ comparison' \in Comparison
        /\ comparison'.remote = req[t].remote /\ comparison'.network = req[t].network
        /\ comparison'.supply = req[t].supply /\ comparison'.pump = req[t].pump
        /\ comparison'.whole = req[t].whole
    BY DEF Comparison, CalculateCall
  <1>3. comparison' # None
    BY <1>2, NoneAssumption
  <1>4. UNCHANGED << remote, network, supply, pump >>
    BY DEF inputs
  <1>5. RowsInOrder' /\ RowsGrow
    <2>1. RowsInOrder'
      BY <1>1, <1>2, <1>3, <1>4 DEF VersionsInv, RowsInOrder, CalculationInOrder
    <2>2. RowsGrow
      BY <1>1, <1>2, <1>3 DEF RowsGrow, CalculationInOrder
    <2>3. QED
      BY <2>1, <2>2
  <1>6. ASSUME NEW u \in Threads \ {t}
        PROVE  CallInOrder(req[u])'
    <2>1. Holds(req[t]) /\ req[u] \in Call /\ req[t] \in Call
      BY <1>1, BusyCalls DEF IInv, TypeOK
    <2>2. req[u].kind \notin {"calculate", "compliance"}
      BY <2>1, BusyCalls, WritersAreAlone
    <2>3. ReportInOrder(req[u])'
      <3>1. CASE req[u].kind = "report" /\ req[u].result # None
        <4>1. req[u] \in ReportCall /\ ReportInOrder(req[u])
          BY <2>1, <3>1, CallFields DEF VersionsInv, CallInOrder
        <4>2. req[u].result.remote \in Nat /\ req[u].result.network \in Nat
          BY <3>1, <4>1 DEF ReportCall, Result
        <4>3. QED
          BY <1>1, <1>2, <1>3, <1>5, <3>1, <4>1, <4>2, RowsAreTyped DEF ReportInOrder, RowsGrow
      <3>2. QED
        BY <3>1 DEF ReportInOrder
    <2>4. QED
      BY <2>2, <2>3 DEF CallInOrder, CalculationInOrder, ComplianceInOrder
  <1>7. VersionsInv'
    BY <1>5, <1>6 DEF VersionsInv
  <1>8. QED
    BY <1>1, <1>2, <1>5, <1>7 DEF CalculationInOrder

LEMMA PersistInOrder ==
    ASSUME IInv, VersionsInv, NEW t \in Threads, PersistDerived(t)
    PROVE  /\ VersionsInv'
           /\ RowsGrow
           /\ comparison' \in Comparison
           /\ comparison'.remote <= remote /\ comparison'.network <= network
           /\ comparison'.supply <= supply /\ comparison'.pump <= pump
           /\ comparison'.supply = supply => comparison'.whole
  <1>1. PICK n \in {"promote", "return"} : Set(t, [Idle EXCEPT !.next = n])
    BY PersistWrites
  <1>2. req'[t].kind = "none" /\ \A u \in Threads \ {t} : req'[u] = req[u]
    BY <1>1, PlainCalls, SetCall DEF IInv, TypeOK
  <1>3. CallInOrder(req[t])'
    BY <1>2 DEF CallInOrder, CalculationInOrder, ComplianceInOrder, ReportInOrder
  <1>4. QED
    BY <1>2, <1>3, PersistWrites, StoreInOrder

LEMMA ReconcileInOrder ==
    ASSUME IInv, VersionsInv, ReconcileRows
    PROVE  /\ VersionsInv'
           /\ RowsGrow
           /\ comparison' \in Comparison
           /\ comparison'.remote <= remote /\ comparison'.network <= network
           /\ comparison'.supply <= supply /\ comparison'.pump <= pump
           /\ comparison'.supply = supply => comparison'.whole
  <1>1. /\ UNCHANGED << state, latest, inputs, checks, lock, server >>
        /\ Main \in Threads /\ supply # 0
        /\ req[Main] \in CalculateCall /\ req[Main].next = "reconcile"
        /\ result' = [remote |-> req[Main].remote, network |-> req[Main].network]
        /\ comparison' = [remote |-> req[Main].remote, network |-> req[Main].network,
                          supply |-> req[Main].supply, pump |-> req[Main].pump,
                          whole |-> req[Main].whole]
    BY ReconciliationWrites DEF VersionsInv, RowsInOrder
  <1>2. PICK call \in ComplianceCall :
           /\ Set(Main, call)
           /\ call.next = "delete"
           /\ call.pumped <=> pump # 0
           /\ call.basis.listed = network /\ call.basis.network = network
           /\ call.basis.supply = supply /\ call.basis.pump = pump
           /\ call.basis.whole = TRUE
           /\ call.basis.result = result' /\ call.basis.comparison = comparison'
    BY <1>1, ReconciliationWrites
  <1>3. req'[Main] = call /\ \A u \in Threads \ {Main} : req'[u] = req[u]
    BY <1>1, <1>2, SetCall, CallsAreCalls DEF IInv, TypeOK
  <1>4. CallInOrder(req[Main])'
    <2>1. call.kind = "compliance"
      BY DEF ComplianceCall
    <2>2. /\ comparison'.network = network /\ comparison'.supply = supply
          /\ comparison'.pump = pump
      <3>1. CalculationInOrder(req[Main]) /\ req[Main].kind = "calculate"
        BY <1>1 DEF VersionsInv, CallInOrder, CalculateCall
      <3>2. QED
        BY <1>1, <3>1 DEF CalculationInOrder
    <2>3. UNCHANGED << remote, network, supply, pump >>
      BY <1>1 DEF inputs
    <2>4. ComplianceInOrder(req[Main])'
      BY <1>2, <1>3, <2>2, <2>3, RowsAreTyped DEF ComplianceInOrder
    <2>5. QED
      BY <1>3, <2>1, <2>4 DEF CallInOrder, CalculationInOrder, ReportInOrder
  <1>5. QED
    BY <1>1, <1>3, <1>4, StoreInOrder

\* The run that replaces the checks goes on; nothing that it judges changes.
LEMMA ReplacingInOrder ==
    ASSUME IInv, VersionsInv, NEW t \in Threads, DeleteChecks(t) \/ InsertCheck(t)
    PROVE  VersionsInv'
  <1>1. /\ UNCHANGED << remote, network, supply, pump, result, comparison >>
        /\ req[t] \in ComplianceCall /\ req[t].next \in {"delete", "insert"}
    BY ChecksAreDeleted, CheckIsInserted DEF inputs
  <1>2. PICK call \in ComplianceCall :
           /\ Set(t, call)
           /\ call.pumped = req[t].pumped /\ call.basis = req[t].basis
           /\ call.next \in {"insert", "return"}
    BY ChecksAreDeleted, CheckIsInserted
  <1>3. req'[t] = call /\ \A u \in Threads \ {t} : req'[u] = req[u]
    BY <1>2, SetCall, CallsAreCalls DEF IInv, TypeOK
  <1>4. CallInOrder(call)
    <2>1. call.kind = "compliance" /\ req[t].kind = "compliance" /\ ComplianceInOrder(req[t])
      BY <1>1 DEF ComplianceCall, VersionsInv, CallInOrder
    <2>2. ComplianceInOrder(call)
      BY <1>1, <1>2, <2>1 DEF ComplianceInOrder
    <2>3. QED
      BY <2>1, <2>2 DEF CallInOrder, CalculationInOrder, ReportInOrder
  <1>5. \A u \in Threads : CallInOrder(req'[u])
    BY <1>3, <1>4 DEF VersionsInv
  <1>6. QED
    BY <1>1, <1>5
    DEF VersionsInv, RowsInOrder, CallInOrder, CalculationInOrder, ComplianceInOrder, ReportInOrder

LEMMA EditsAreSteps ==
    ASSUME IInv, (\E t \in Threads : WriteEdit(t)) \/ (\E c \in Clients : SetRemoteNode(c))
    PROVE  /\ server = "up" /\ UNCHANGED derived
           /\ \/ remote' = remote + 1 /\ UNCHANGED << network, supply, pump >>
              \/ network' = network + 1 /\ UNCHANGED << remote, supply, pump >>
              \/ supply' = supply + 1 /\ UNCHANGED << remote, network, pump >>
              \/ pump' = pump + 1 /\ UNCHANGED << remote, network, supply >>
           /\ \A t \in Threads : req'[t] = req[t] \/ req'[t] = Idle
  <1>1. ASSUME NEW t \in Threads, WriteEdit(t)
        PROVE  /\ server = "up" /\ UNCHANGED derived
               /\ \A u \in Threads : req'[u] = req[u] \/ req'[u] = Idle
               /\ \/ network' = network + 1 /\ UNCHANGED << remote, supply, pump >>
                  \/ supply' = supply + 1 /\ UNCHANGED << remote, network, pump >>
                  \/ pump' = pump + 1 /\ UNCHANGED << remote, network, supply >>
    <2>1. req[t].kind = "edit" /\ UNCHANGED << derived, server >> /\ Return(t)
      BY <1>1, EditWrites
    <2>2. server = "up"
      BY <2>1, IdleIsCall, WhoIsServed DEF RecoveryCall
    <2>3. QED
      BY <1>1, <2>1, <2>2, EditWrites, CallReturns
  <1>2. ASSUME NEW c \in Clients, SetRemoteNode(c)
        PROVE  /\ server = "up" /\ UNCHANGED << derived, req >>
               /\ remote' = remote + 1 /\ UNCHANGED << network, supply, pump >>
    BY <1>2 DEF SetRemoteNode, Ready
  <1>3. QED
    BY <1>1, <1>2

LEMMA VersionsStep == IInv /\ VersionsInv /\ [Next]_vars => VersionsInv'
  <1> SUFFICES ASSUME IInv, VersionsInv, [Next]_vars
               PROVE  VersionsInv'
    OBVIOUS
  <1>1. CASE (\E t \in Threads : WriteEdit(t)) \/ (\E c \in Clients : SetRemoteNode(c))
    BY <1>1, EditsAreSteps, EditInOrder
  <1>2. QED
    BY <1>1, StepKinds, NoWriteInOrder, PersistInOrder, ReplacingInOrder, ReconcileInOrder

LEMMA VersionsInit ==
    ASSUME InitialSupply = 1
    PROVE  Init => VersionsInv
  BY IdleIsCall
  DEF Init, VersionsInv, RowsInOrder, CallInOrder, CalculationInOrder, ComplianceInOrder,
      ReportInOrder

\* Of a system with a water supply: a report shows no result without a
\* comparison beside it, and none that is newer than that, though it reads the
\* two one after the other and without the mutex: a calculation stores both at
\* once, and never from older versions than those stored.
THEOREM ReportIsInOrderHolds ==
    ASSUME InitialSupply = 1
    PROVE  Spec => []ReportIsInOrder
  <1>1. VersionsInv => ReportIsInOrder
    BY DEF VersionsInv, CallInOrder, ReportInOrder, ReportIsInOrder, Threads
  <1>2. QED
    BY <1>1, VersionsInit, VersionsStep, IInvHolds, PTL DEF Spec

-----------------------------------------------------------------------------
(* The recovery *)

CurrentResult == [remote |-> remote, network |-> network]

CurrentComparison ==
    [remote |-> remote, network |-> network, supply |-> supply, pump |-> pump, whole |-> TRUE]

CurrentBasis ==
    [listed |-> network, network |-> network, supply |-> supply, pump |-> pump, whole |-> TRUE,
     result |-> CurrentResult, comparison |-> CurrentComparison]

RowsAreCurrent == result = CurrentResult /\ comparison = CurrentComparison

\* How far the recovery has come: the rows are stored before the checks, and
\* the checks are all there before Main has nothing left to do.
RecoveryInv ==
    server = "recovering" =>
        /\ req[Main].kind = "compliance" => RowsAreCurrent /\ req[Main].basis = CurrentBasis
        /\ req[Main] = Idle /\ Reconcilable =>
              RowsAreCurrent /\ \A q \in Rules : checks[q] = CurrentBasis

\* While the server recovers only Main takes steps.
LEMMA RecoverySteps ==
    ASSUME IInv, [Next]_vars, server' = "recovering"
    PROVE  \/ Restart
           \/ /\ server = "recovering"
              /\ \/ DeleteChecks(Main) \/ InsertCheck(Main) \/ ReconcileRows
                 \/ End(Main) /\ req[Main].kind = "compliance"
                 \/ UNCHANGED vars
  <1>1. ASSUME NEW c \in Clients
        PROVE  ~Begin(c) /\ ~Abandon(c)
    BY <1>1 DEF Begin, BeginEdit, SetRemoteNode, BeginCalculate, BeginCompliance,
                BeginReport, BeginTransition, Ready, Abandon, IInv, OneWriter
  <1>2. ASSUME NEW t \in Threads, Proceed(t)
        PROVE  /\ t = Main /\ server = "recovering"
               /\ \/ DeleteChecks(Main) \/ InsertCheck(Main)
                  \/ End(Main) /\ req[Main].kind = "compliance"
    <2>1. server' = server /\ req[t] # Idle
      BY <1>2, IdleIsCall
      DEF Proceed, WriteEdit, CalculateNetwork, CalculateSupply, CalculatePoints, CalculatePump,
          PersistDerived, PromoteToDesigned, ComplianceList, ComplianceNetwork, ComplianceSupply,
          CompliancePoints, ComplianceRows, DeleteChecks, InsertCheck, ReportComparison,
          WriteTransition, End
    <2>2. t = Main /\ RecoveryCall(req[Main])
      BY <2>1, WhoIsServed
    <2>3. \/ req[Main].kind = "calculate" /\ req[Main].next = "reconcile"
          \/ req[Main].kind = "compliance" /\ req[Main].next \in {"delete", "insert", "return"}
      BY <2>1, <2>2 DEF RecoveryCall
    <2>4. QED
      BY <1>2, <2>1, <2>2, <2>3
      DEF Proceed, WriteEdit, CalculateNetwork, CalculateSupply, CalculatePoints, CalculatePump,
          PersistDerived, PromoteToDesigned, ComplianceList, ComplianceNetwork, ComplianceSupply,
          CompliancePoints, ComplianceRows, ReportComparison, WriteTransition, End
  <1>3. ReconcileRows => server = "recovering"
    BY ReconciliationWrites
  <1>4. QED
    BY <1>1, <1>2, <1>3 DEF Next, Crash, RecoveryFails, Serve, vars

\* The rows that the recovery stores are those of the inputs as they are.
LEMMA RecoveryStoresRows ==
    ASSUME IInv, VersionsInv, ReconcileRows
    PROVE  RowsAreCurrent' /\ req'[Main] \in ComplianceCall /\ req'[Main].basis = CurrentBasis'
  <1>1. /\ UNCHANGED << state, latest, inputs, checks, lock, server >>
        /\ Main \in Threads /\ supply # 0
        /\ req[Main] \in CalculateCall /\ req[Main].next = "reconcile"
        /\ result' = [remote |-> req[Main].remote, network |-> req[Main].network]
        /\ comparison' = [remote |-> req[Main].remote, network |-> req[Main].network,
                          supply |-> req[Main].supply, pump |-> req[Main].pump,
                          whole |-> req[Main].whole]
    BY ReconciliationWrites DEF VersionsInv, RowsInOrder
  <1>2. /\ req[Main].remote = remote /\ req[Main].network = network
        /\ req[Main].supply = supply /\ req[Main].pump = pump /\ req[Main].whole = TRUE
    BY <1>1 DEF VersionsInv, CallInOrder, CalculationInOrder, CalculateCall
  <1>3. UNCHANGED << remote, network, supply, pump >>
    BY <1>1 DEF inputs
  <1>4. RowsAreCurrent'
    BY <1>1, <1>2, <1>3 DEF RowsAreCurrent, CurrentResult, CurrentComparison
  <1>5. PICK call \in ComplianceCall :
           /\ Set(Main, call)
           /\ call.basis.listed = network /\ call.basis.network = network
           /\ call.basis.supply = supply /\ call.basis.pump = pump
           /\ call.basis.whole = TRUE
           /\ call.basis.result = result' /\ call.basis.comparison = comparison'
    BY <1>1, ReconciliationWrites
  <1>6. req'[Main] = call
    BY <1>1, <1>5, SetCall, CallsAreCalls DEF IInv, TypeOK
  <1>7. call.basis \in Basis
    BY DEF ComplianceCall
  <1>8. call.basis = [listed |-> network, network |-> network, supply |-> supply, pump |-> pump,
                      whole |-> TRUE, result |-> result', comparison |-> comparison']
    BY <1>5, <1>7 DEF Basis
  <1>9. QED
    BY <1>3, <1>4, <1>6, <1>8 DEF CurrentBasis, RowsAreCurrent

LEMMA RecoveryStep == IInv /\ ChecksInv /\ VersionsInv /\ RecoveryInv /\ [Next]_vars => RecoveryInv'
  <1> SUFFICES ASSUME IInv, ChecksInv, VersionsInv, RecoveryInv, [Next]_vars,
                      server' = "recovering"
               PROVE  RecoveryInv'
    BY DEF RecoveryInv
  <1>1. Main \in Threads
    BY DEF Threads
  <1>2. ASSUME server = "recovering", req[Main].kind = "compliance",
               UNCHANGED << state, latest, inputs, result, comparison >>
        PROVE  /\ UNCHANGED << CurrentBasis, Reconcilable >>
               /\ RowsAreCurrent' /\ req[Main].basis = CurrentBasis'
    BY <1>2 DEF inputs, CurrentBasis, Reconcilable, RowsAreCurrent, CurrentResult,
                CurrentComparison, RecoveryInv
  <1>3. CASE Restart
    <2>1. UNCHANGED Reconcilable
      BY <1>3, RecoveryBegins DEF inputs, Reconcilable
    <2>2. CASE ~Reconcilable /\ req'[Main] = Idle
      BY <2>1, <2>2, IdleIsCall DEF RecoveryInv
    <2>3. CASE req'[Main] \in CalculateCall
      <3>1. req'[Main].kind = "calculate"
        BY <2>3 DEF CalculateCall
      <3>2. QED
        BY <3>1, IdleIsCall DEF RecoveryInv
    <2>4. QED
      BY <1>3, <2>2, <2>3, RecoveryBegins
  <1>4. CASE server = "recovering" /\ DeleteChecks(Main)
    <2>1. UNCHANGED << state, latest, inputs, result, comparison >> /\ req[Main].kind = "compliance"
      BY <1>1, <1>4, ChecksAreDeleted DEF ComplianceCall
    <2>2. PICK call \in ComplianceCall : Set(Main, call) /\ call.basis = req[Main].basis
      BY <1>1, <1>4, ChecksAreDeleted
    <2>3. req'[Main] = call /\ call.kind = "compliance"
      BY <1>1, <2>2, SetCall, CallsAreCalls DEF IInv, TypeOK, ComplianceCall
    <2>4. QED
      BY <1>2, <1>4, <2>1, <2>2, <2>3, IdleIsCall DEF RecoveryInv
  <1>5. CASE server = "recovering" /\ InsertCheck(Main)
    <2>1. UNCHANGED << state, latest, inputs, result, comparison >> /\ req[Main].kind = "compliance"
      BY <1>1, <1>5, CheckIsInserted DEF ComplianceCall
    <2>2. PICK call \in ComplianceCall : Set(Main, call) /\ call.basis = req[Main].basis
      BY <1>1, <1>5, CheckIsInserted
    <2>3. req'[Main] = call /\ call.kind = "compliance"
      BY <1>1, <2>2, SetCall, CallsAreCalls DEF IInv, TypeOK, ComplianceCall
    <2>4. QED
      BY <1>2, <1>5, <2>1, <2>2, <2>3, IdleIsCall DEF RecoveryInv
  <1>6. CASE server = "recovering" /\ End(Main) /\ req[Main].kind = "compliance"
    <2>1. /\ UNCHANGED << state, latest, inputs, derived >>
          /\ req[Main].next = "return" /\ req'[Main] = Idle
      BY <1>1, <1>6, CallReturns DEF End
    <2>2. \A q \in Rules : checks'[q] = req[Main].basis
      BY <1>1, <1>6, <2>1 DEF ChecksInv, ChecksOf, derived
    <2>3. UNCHANGED << state, latest, inputs, result, comparison >>
      BY <2>1 DEF derived
    <2>4. RowsAreCurrent' /\ req[Main].basis = CurrentBasis'
      BY <1>2, <1>6, <2>3
    <2>5. QED
      BY <2>1, <2>2, <2>4, IdleIsCall DEF RecoveryInv
  <1>7. CASE server = "recovering" /\ ReconcileRows
    <2>1. RowsAreCurrent' /\ req'[Main].kind = "compliance" /\ req'[Main].basis = CurrentBasis'
      BY <1>7, RecoveryStoresRows DEF ComplianceCall
    <2>2. QED
      BY <2>1, IdleIsCall DEF RecoveryInv
  <1>8. CASE UNCHANGED vars
    BY <1>8 DEF vars, inputs, derived, RecoveryInv, RowsAreCurrent, CurrentResult,
                CurrentComparison, CurrentBasis, Reconcilable
  <1>9. QED
    BY <1>3, <1>4, <1>5, <1>6, <1>7, <1>8, RecoverySteps

LEMMA ServingFollowsServe ==
    ASSUME [Next]_vars, server = "recovering", server' = "up"
    PROVE  Serve
  BY DEF Next, Begin, BeginEdit, SetRemoteNode, BeginCalculate, BeginCompliance, BeginReport,
     BeginTransition, Abandon, Proceed, WriteEdit, CalculateNetwork, CalculateSupply,
     CalculatePoints, CalculatePump, PersistDerived, PromoteToDesigned, ComplianceList,
     ComplianceNetwork, ComplianceSupply, CompliancePoints, ComplianceRows, DeleteChecks,
     InsertCheck, ReportComparison, WriteTransition, End, Crash, Restart, ReconcileRows,
     RecoveryFails, vars

\* A system with a water supply: whatever a crash interrupted, after a recovery
\* without an error all derived rows of a system that it found past draft and
\* could calculate are there, are computed from the inputs as they are, and the
\* checks have judged the rows beside them.
THEOREM RestartConvergesHolds ==
    ASSUME InitialSupply = 1
    PROVE  Spec => RestartConverges
  <1> DEFINE Served == server = "recovering" /\ server' = "up"
                       /\ state # "draft" /\ remote # 0 /\ Buildable(network)
  <1>1. Init => RecoveryInv
    BY DEF Init, RecoveryInv
  <1>2. RecoveryInv /\ [Next]_vars => (Served => AllRowsCurrent)
    <2> SUFFICES ASSUME RecoveryInv, [Next]_vars, Served
                 PROVE  AllRowsCurrent
      OBVIOUS
    <2>1. Serve
      BY ServingFollowsServe
    <2>2. RowsAreCurrent /\ \A q \in Rules : checks[q] = CurrentBasis
      BY <2>1 DEF Serve, RecoveryInv, Reconcilable
    <2>3. QED
      BY <2>2 DEF AllRowsCurrent, RowsAreCurrent, CurrentResult, CurrentComparison, CurrentBasis
  <1>3. Spec => [](IInv /\ RecoveryInv)
    BY <1>1, VersionsInit, VersionsStep, ChecksInvHolds, RecoveryStep, IInvHolds, PTL DEF Spec
  <1>4. Spec => [][Served => AllRowsCurrent]_vars
    BY <1>2, <1>3, PTL DEF Spec
  <1>5. QED
    BY <1>4 DEF RestartConverges

-----------------------------------------------------------------------------
(* The rows as they are promised *)

Versions == [remote |-> remote, network |-> network, supply |-> supply, pump |-> pump]

LEMMA VerdictOfOneRun ==
    ASSUME NEW b, \A r \in Rules : checks[r] = b
    PROVE  Verdict = b
  BY RulesAssumption DEF Verdict

LEMMA VerdictIsMissing ==
    ASSUME NEW r \in Rules, checks[r] = None
    PROVE  Verdict = None
  BY RulesAssumption DEF Verdict

\* The four inputs as one function, and what an edit does to it.
LEMMA VersionsAreInputs ==
    ASSUME IInv
    PROVE  /\ Versions \in [Rows!Inputs -> Nat]
           /\ Versions["remote"] = remote /\ Versions["network"] = network
           /\ Versions["supply"] = supply /\ Versions["pump"] = pump
  BY RowsAreTyped DEF Versions, Rows!Inputs

LEMMA InitRefines ==
    ASSUME Init
    PROVE  Rows!Init
  <1>1. Verdict = None
    BY VerdictOfOneRun DEF Init
  <1>2. Versions \in [Rows!Inputs -> Nat]
    BY IInvInit, VersionsAreInputs
  <1>3. QED
    BY <1>1, <1>2 DEF Rows!Init, Init, Versions

LEMMA EditRefines ==
    ASSUME IInv, UNCHANGED derived,
           \/ remote' = remote + 1 /\ UNCHANGED << network, supply, pump >>
           \/ network' = network + 1 /\ UNCHANGED << remote, supply, pump >>
           \/ supply' = supply + 1 /\ UNCHANGED << remote, network, pump >>
           \/ pump' = pump + 1 /\ UNCHANGED << remote, network, supply >>
    PROVE  Rows!Edit
  <1>1. UNCHANGED << result, comparison, Verdict >>
    BY DEF derived, Verdict
  <1>2. \E i \in Rows!Inputs : Versions' = [Versions EXCEPT ![i] = @ + 1]
    <2>1. CASE remote' = remote + 1 /\ UNCHANGED << network, supply, pump >>
      <3>1. Versions' = [Versions EXCEPT !["remote"] = @ + 1]
        BY <2>1 DEF Versions
      <3>2. QED
        BY <3>1 DEF Rows!Inputs
    <2>2. CASE network' = network + 1 /\ UNCHANGED << remote, supply, pump >>
      <3>1. Versions' = [Versions EXCEPT !["network"] = @ + 1]
        BY <2>2 DEF Versions
      <3>2. QED
        BY <3>1 DEF Rows!Inputs
    <2>3. CASE supply' = supply + 1 /\ UNCHANGED << remote, network, pump >>
      <3>1. Versions' = [Versions EXCEPT !["supply"] = @ + 1]
        BY <2>3 DEF Versions
      <3>2. QED
        BY <3>1 DEF Rows!Inputs
    <2>4. CASE pump' = pump + 1 /\ UNCHANGED << remote, network, supply >>
      <3>1. Versions' = [Versions EXCEPT !["pump"] = @ + 1]
        BY <2>4 DEF Versions
      <3>2. QED
        BY <3>1 DEF Rows!Inputs
    <2>5. QED
      BY <2>1, <2>2, <2>3, <2>4
  <1>3. QED
    BY <1>1, <1>2 DEF Rows!Edit, Versions

\* A calculation, or the recovery, stores its rows.
LEMMA StoreRefines ==
    ASSUME IInv, UNCHANGED << inputs, checks >>, RowsGrow,
           comparison' \in Comparison,
           result' = [remote |-> comparison'.remote, network |-> comparison'.network],
           comparison'.remote <= remote, comparison'.network <= network,
           comparison'.supply <= supply, comparison'.pump <= pump,
           comparison'.supply = supply => comparison'.whole
    PROVE  Rows!Store
  <1>1. UNCHANGED << Versions, Verdict >>
    BY DEF inputs, Versions, Verdict
  <1>2. \A i \in Rows!Inputs :
           /\ comparison'[i] <= Versions[i]
           /\ comparison # None => comparison[i] <= comparison'[i]
    BY DEF Rows!Inputs, Versions, RowsGrow
  <1>3. comparison' \in Rows!Comparison /\ Versions.supply = supply
    BY DEF Rows!Comparison, Comparison, Versions
  <1>4. QED
    BY <1>1, <1>2, <1>3 DEF Rows!Store, Versions

\* A compliance run deletes the checks ...
LEMMA DeleteRefines ==
    ASSUME IInv, NEW t \in Threads, DeleteChecks(t)
    PROVE  Rows!Withdraw
  <1>1. /\ UNCHANGED << inputs, result, comparison >>
        /\ checks' = [r \in Rules |-> None]
    BY ChecksAreDeleted
  <1>2. (Verdict = None)'
    BY <1>1, RulesAssumption DEF Verdict
  <1>3. UNCHANGED Versions
    BY <1>1 DEF inputs, Versions
  <1>4. QED
    BY <1>1, <1>2, <1>3 DEF Rows!Withdraw, Versions

\* ... and judges anew when it inserts the last of them.
LEMMA InsertRefines ==
    ASSUME IInv, ChecksInv, VersionsInv, NEW t \in Threads, InsertCheck(t)
    PROVE  [Rows!Next]_(Rows!vars)
  <1>1. /\ UNCHANGED << inputs, result, comparison >>
        /\ req[t] \in ComplianceCall /\ req[t].next = "insert" /\ req[t].kind = "compliance"
    BY CheckIsInserted DEF ComplianceCall
  <1>2. PICK r \in req[t].left : checks' = [checks EXCEPT ![r] = req[t].basis]
    BY CheckIsInserted
  <1>3. \A q \in req[t].left : q \in Rules /\ checks[q] = None
    BY <1>1 DEF ComplianceCall, ChecksInv, ChecksOf
  <1>4. Verdict = None /\ r \in Rules
    BY <1>2, <1>3, VerdictIsMissing
  <1>5. UNCHANGED Versions
    BY <1>1 DEF inputs, Versions
  <1>6. CASE req[t].left # {r}
    <2>1. PICK q \in req[t].left : q # r
      BY <1>2, <1>6
    <2>2. q \in Rules /\ checks'[q] = None
      BY <1>2, <1>3, <2>1 DEF IInv, TypeOK
    <2>3. (Verdict = None)'
      BY <2>2, RulesAssumption DEF Verdict
    <2>4. QED
      BY <1>1, <1>4, <1>5, <2>3 DEF Rows!vars, Versions
  <1>7. CASE req[t].left = {r}
    <2> DEFINE basis == req[t].basis
    <2>1. \A q \in Rules : checks'[q] = basis
      BY <1>1, <1>2, <1>7 DEF ChecksInv, ChecksOf, IInv, TypeOK
    <2>2. Verdict' = basis
      BY <2>1, RulesAssumption DEF Verdict
    <2>3. basis \in Basis /\ basis # None
      BY <1>1, NoneAssumption DEF ComplianceCall
    <2>4. /\ basis.result = result /\ basis.comparison = comparison
          /\ basis.listed <= basis.network
          /\ basis.network <= network /\ basis.supply <= supply /\ basis.pump <= pump
          /\ basis.supply = supply => basis.whole
          /\ comparison # None =>
                /\ comparison.network <= basis.listed
                /\ comparison.supply <= basis.supply /\ comparison.pump <= basis.pump
      BY <1>1 DEF VersionsInv, CallInOrder, ComplianceInOrder
    <2> HIDE DEF basis
    <2>5. \A i \in Rows!Inputs \ {"remote"} : basis[i] <= Versions[i]
      BY <2>4 DEF Rows!Inputs, Versions
    <2>6. comparison # None => \A i \in {"supply", "pump"} : comparison[i] <= basis[i]
      BY <2>4
    <2>7. Versions.supply = supply
      BY DEF Versions
    <2>8. Rows!Judge
      BY <1>1, <1>4, <1>5, <2>2, <2>3, <2>4, <2>5, <2>6, <2>7 DEF Rows!Judge, Versions
    <2>9. QED
      BY <2>8 DEF Rows!Next
  <1>8. QED
    BY <1>6, <1>7

LEMMA StepRefines ==
    ASSUME IInv, ChecksInv, VersionsInv, [Next]_vars
    PROVE  [Rows!Next]_(Rows!vars)
  <1>1. CASE NoWrite
    BY <1>1 DEF NoWrite, inputs, derived, Verdict, Rows!vars
  <1>2. CASE (\E t \in Threads : WriteEdit(t)) \/ (\E c \in Clients : SetRemoteNode(c))
    BY <1>2, EditsAreSteps, EditRefines DEF Rows!Next
  <1>3. ASSUME NEW t \in Threads, PersistDerived(t)
        PROVE  Rows!Store
    <2>1. result' = [remote |-> comparison'.remote, network |-> comparison'.network]
      BY <1>3, PersistWrites
    <2>2. QED
      BY <1>3, <2>1, PersistWrites, PersistInOrder, StoreRefines
  <1>4. CASE ReconcileRows
    <2>1. supply # 0
      BY DEF VersionsInv, RowsInOrder
    <2>2. result' = [remote |-> comparison'.remote, network |-> comparison'.network]
      BY <1>4, <2>1, ReconciliationWrites
    <2>3. Rows!Store
      BY <1>4, <2>2, ReconciliationWrites, ReconcileInOrder, StoreRefines
    <2>4. QED
      BY <2>3 DEF Rows!Next
  <1>5. QED
    BY <1>1, <1>2, <1>3, <1>4, StepKinds, DeleteRefines, InsertRefines DEF Rows!Next

\* A system with a water supply keeps the promise of DerivedRows: result and
\* comparison are replaced together, from versions that existed and never by
\* those of an older version, and checks that are all there judge the rows
\* beside them, whatever edits race with the calculations and whatever is cut
\* short, crashes and recovers.
THEOREM ImplementsDerivedRowsHolds ==
    ASSUME InitialSupply = 1
    PROVE  Spec => ImplementsDerivedRows
  <1>1. Init => Rows!Init
    BY InitRefines
  <1>2. IInv /\ ChecksInv /\ VersionsInv /\ [Next]_vars => [Rows!Next]_(Rows!vars)
    BY StepRefines
  <1>3. Spec => []VersionsInv
    BY VersionsInit, VersionsStep, IInvHolds, PTL DEF Spec
  <1>4. Spec => Rows!Spec
    BY <1>1, <1>2, <1>3, IInvHolds, ChecksInvHolds, PTL DEF Spec, Rows!Spec
  <1>5. QED
    BY <1>4 DEF ImplementsDerivedRows

-----------------------------------------------------------------------------
(* The refinement of SystemMutex *)

Writers == {t \in Threads : Holds(req[t])}

Inside == [s \in {"system"} |-> Writers]

\* A step is one of one thread, or nobody is left.
LEMMA OneThreadMoves ==
    ASSUME IInv, [Next]_vars
    PROVE  \/ \E t \in Threads : \A u \in Threads \ {t} : req'[u] = req[u]
           \/ \A u \in Threads : req'[u] = Idle
  <1>1. req \in [Threads -> Call] /\ Main \in Threads /\ Clients \subseteq Threads
    BY DEF IInv, TypeOK, Threads
  <1>2. ASSUME NEW t \in Threads, NEW call, Set(t, call)
        PROVE  \A u \in Threads \ {t} : req'[u] = req[u]
    BY <1>1, <1>2 DEF Set
  <1>3. CASE Crash
    BY <1>3 DEF Crash
  <1>4. CASE UNCHANGED req
    BY <1>1, <1>4
  <1>5. CASE Restart \/ ReconcileRows \/ RecoveryFails
    BY <1>1, <1>2, <1>5 DEF Restart, ReconcileRows, RecoveryFails
  <1>6. ASSUME NEW c \in Clients, Begin(c) \/ Abandon(c)
        PROVE  UNCHANGED req \/ \A u \in Threads \ {c} : req'[u] = req[u]
    BY <1>1, <1>2, <1>6
    DEF Begin, Abandon, BeginEdit, SetRemoteNode, BeginCalculate, BeginCompliance, BeginReport,
        BeginTransition, Return
  <1>7. ASSUME NEW t \in Threads, Proceed(t)
        PROVE  \A u \in Threads \ {t} : req'[u] = req[u]
    BY <1>2, <1>7
    DEF Proceed, WriteEdit, CalculateNetwork, CalculateSupply, CalculatePoints, CalculatePump,
        PersistDerived, PromoteToDesigned, ComplianceList, ComplianceNetwork, ComplianceSupply,
        CompliancePoints, ComplianceRows, DeleteChecks, InsertCheck, ReportComparison,
        WriteTransition, End, Return
  <1>8. QED
    BY <1>1, <1>3, <1>4, <1>5, <1>6, <1>7 DEF Next, Serve, vars

\* Of a set with at most one element that changes in one element, one enters or
\* one leaves.
LEMMA EnterOrLeave ==
    ASSUME NEW S, NEW T, NEW t, S \ {t} = T \ {t},
           \A a, b \in S : a = b, \A a, b \in T : a = b
    PROVE  S = T \/ (S = {} /\ T = {t}) \/ (S = {t} /\ T = {})
  OBVIOUS

LEMMA MutexStep == IInv /\ IInv' /\ [Next]_vars => [Mutex!Next]_Inside
  <1> SUFFICES ASSUME IInv, IInv', [Next]_vars
               PROVE  Mutex!Next \/ UNCHANGED Inside
    OBVIOUS
  <1>1. \A t, u \in Writers : t = u
    BY WritersAreAlone DEF Writers
  <1>2. \A t, u \in Writers' : t = u
    BY IdleIsCall, ThreadsAssumption DEF Writers, IInv, OneWriter, Threads
  <1>3. ASSUME NEW t \in Threads, Writers = {}, Writers' = {t}
        PROVE  Mutex!Next
    <2>1. Mutex!Enter(t, "system")
      BY <1>3 DEF Mutex!Enter, Writers
    <2>2. QED
      BY <2>1 DEF Mutex!Next
  <1>4. ASSUME NEW t \in Threads, Writers = {t}, Writers' = {}
        PROVE  Mutex!Next
    <2>1. Mutex!Leave(t, "system")
      BY <1>4 DEF Mutex!Leave, Writers
    <2>2. QED
      BY <2>1 DEF Mutex!Next
  <1>5. CASE \E t \in Threads : \A u \in Threads \ {t} : req'[u] = req[u]
    <2>1. PICK t \in Threads : \A u \in Threads \ {t} : req'[u] = req[u]
      BY <1>5
    <2>2. Writers \ {t} = (Writers') \ {t}
      BY <2>1 DEF Writers
    <2>3. Writers = Writers' \/ (Writers = {} /\ Writers' = {t}) \/ (Writers = {t} /\ Writers' = {})
      BY <1>1, <1>2, <2>2, EnterOrLeave
    <2>4. QED
      BY <1>3, <1>4, <2>3 DEF Inside
  <1>6. CASE \A u \in Threads : req'[u] = Idle
    <2>1. Writers' = {}
      BY <1>6, IdleIsCall DEF Writers
    <2>2. Writers = {} \/ \E t \in Threads : Writers = {t}
      BY <1>1 DEF Writers
    <2>3. QED
      BY <1>4, <2>1, <2>2 DEF Inside
  <1>7. QED
    BY <1>5, <1>6, OneThreadMoves

\* For any callers, two runs of the system, or a run and the recovery, never
\* overlap, whatever is cut short, dies and starts again.
THEOREM ImplementsSystemMutexHolds == Spec => ImplementsSystemMutex
  <1>1. Init => Mutex!Init
    BY IdleIsCall DEF Init, Mutex!Init, Threads
  <1>2. IInv /\ IInv' /\ [Next]_vars => [Mutex!Next]_Inside
    BY MutexStep
  <1>3. Spec => Mutex!Spec
    BY <1>1, <1>2, IInvHolds, PTL DEF Spec, Mutex!Spec, Inside, Writers
  <1>4. QED
    BY <1>3 DEF ImplementsSystemMutex

=============================================================================
