--------------------------- MODULE LifecycleProofs ---------------------------
(***************************************************************************)
(* What holds of LifecycleService for every set of clients and every bound *)
(***************************************************************************)
EXTENDS LifecycleService, TLAPS

\* A legal move needs at most one stage more than the state it leaves: the one
\* it moves to.
LEMMA LegalMovesAdvanceByOne ==
    ASSUME NEW from \in SystemStates, NEW to \in SystemStates, CanTransition(from, to)
    PROVE  \A k \in StagesUpTo(to) : k = to \/ k \in StagesUpTo(from)
  BY SMTT(60) DEF CanTransition, legalTransitions, StagesUpTo, RecordedStages, Rank, SystemStates

-----------------------------------------------------------------------------
(* Type correctness *)

LEMMA IdleIsCall == Idle \in Call
  BY DEF Idle, Call, Phases, SystemStates

\* What a recorded event holds.
LEMMA EventsAreTyped ==
    ASSUME events \in Seq(Event)
    PROVE  \A i \in DOMAIN events : /\ events[i].from \in SystemStates
                                    /\ events[i].to \in SystemStates
  <1> SUFFICES ASSUME NEW i \in DOMAIN events
               PROVE  events[i].from \in SystemStates /\ events[i].to \in SystemStates
    OBVIOUS
  <1>1. events[i] \in Event
    OBVIOUS
  <1>2. QED
    BY <1>1 DEF Event

\* Appending keeps what a sequence holds.
LEMMA AppendKeeps ==
    ASSUME NEW S, NEW s \in Seq(S), NEW x \in S, NEW i \in DOMAIN s
    PROVE  i \in DOMAIN Append(s, x) /\ Append(s, x)[i] = s[i]
  OBVIOUS

LEMMA TypeInit == Init => TypeOK
  <1> SUFFICES ASSUME Init PROVE TypeOK
    OBVIOUS
  <1>1. req \in [Clients -> Call]
    BY IdleIsCall DEF Init
  <1>2. events \in Seq(Event) /\ tests \in Seq(BOOLEAN)
    BY DEF Init
  <1>3. QED
    BY <1>1, <1>2 DEF Init, TypeOK, SystemStates

LEMMA TypeStep == TypeOK /\ [Next]_vars => TypeOK'
  <1> SUFFICES ASSUME TypeOK, [Next]_vars
               PROVE  TypeOK'
    OBVIOUS
  <1> USE DEF TypeOK, rows
  <1>1. ASSUME NEW c \in Clients, NEW to \in SystemStates, BeginTransition(c, to)
        PROVE  TypeOK'
    BY <1>1 DEF BeginTransition, Call, Phases
  <1>2. ASSUME NEW c \in Clients, PassPreconditions(c)
        PROVE  TypeOK'
    BY <1>2 DEF PassPreconditions, Call, Phases
  <1>3. ASSUME NEW c \in Clients, CommitTransition(c)
        PROVE  TypeOK'
    <2>1. [from |-> req[c].from, to |-> req[c].to, epoch |-> req[c].epoch] \in Event
      BY DEF Call, Event
    <2>2. events' \in Seq(Event)
      BY <1>3, <2>1 DEF CommitTransition
    <2>3. state' \in SystemStates
      BY <1>3 DEF CommitTransition, Call
    <2>4. QED
      BY <1>3, <2>2, <2>3, IdleIsCall DEF CommitTransition, Return
  <1>4. ASSUME NEW c \in Clients, BeginCalculate(c)
        PROVE  TypeOK'
    BY <1>4 DEF BeginCalculate, Call, Phases, SystemStates
  <1>5. ASSUME NEW c \in Clients, PersistDerived(c)
        PROVE  TypeOK'
    <2>1. [req[c] EXCEPT !.phase = "promote"] \in Call
      BY DEF Call, Phases
    <2>2. QED
      BY <1>5, <2>1, IdleIsCall DEF PersistDerived
  <1>6. ASSUME NEW c \in Clients, PromoteToDesigned(c)
        PROVE  TypeOK'
    BY <1>6, IdleIsCall DEF PromoteToDesigned, Return, SystemStates
  <1>7. ASSUME NEW c \in Clients, Abandon(c)
        PROVE  TypeOK'
    BY <1>7, IdleIsCall DEF Abandon, Return
  <1>8. ASSUME NEW leaked \in BOOLEAN, RecordHydrostaticTest(leaked)
        PROVE  TypeOK'
    BY <1>8 DEF RecordHydrostaticTest
  <1>9. ASSUME NEW conclusion \in {"pass", "fail"}, RecordAcceptance(conclusion)
        PROVE  TypeOK'
    BY <1>9 DEF RecordAcceptance
  <1>10. CASE Tick
    BY <1>10 DEF Tick
  <1>11. CASE StepBack
    BY <1>11, BoundsAssumption DEF StepBack
  <1>12. CASE Crash
    BY <1>12, IdleIsCall DEF Crash
  <1>13. CASE Restart
    <2>1. state' \in SystemStates
      <3>1. \A i \in DOMAIN events : events[i].to \in SystemStates
        BY EventsAreTyped
      <3>2. QED
        BY <1>13, <3>1 DEF Restart, CorrectStateFromEvents
    <2>2. hydraulicResult' \in BOOLEAN
      BY <1>13 DEF Restart, ReconcileResult
    <2>3. QED
      BY <1>13, <2>1, <2>2 DEF Restart
  <1>14. CASE UNCHANGED vars
    BY <1>14 DEF vars
  <1>15. QED
    BY <1>1, <1>2, <1>3, <1>4, <1>5, <1>6, <1>7, <1>8, <1>9, <1>10, <1>11, <1>12, <1>13, <1>14
       DEF Next

\* Every variable keeps its type, for any number of clients and any bounds.
THEOREM TypeCorrectness == Spec => []TypeOK
  BY TypeInit, TypeStep, PTL DEF Spec

-----------------------------------------------------------------------------
(***************************************************************************)
(* The gates.  They are not inductive by themselves: a call in flight      *)
(* writes a state it chose from an older one, and a restart brings back    *)
(* any state the stream names.  So the invariant says of every state that  *)
(* may yet be written (read by a call, stamped on an event) what the gates *)
(* say of the state column: the rows that justify it are there, and so are *)
(* the events of the stages before it.  Neither is ever taken away.        *)
(***************************************************************************)

\* The rows that state s needs.
Evidence(s) ==
    /\ s # "draft" => hydraulicResult
    /\ s \in AcceptedStates => anyHydrostaticPassed
    /\ s \in ServiceStates => acceptance # "none"

\* The events that state s needs.
Reached(s) == \A k \in StagesUpTo(s) : RecordedBefore(k, Len(events) + 1)

CallsJustified ==
    \A c \in Clients :
        /\ req[c].phase \in {"check", "commit"} =>
              /\ CanTransition(req[c].from, req[c].to)
              /\ Evidence(req[c].from)
              /\ Reached(req[c].from)
        /\ req[c].phase = "commit" => Evidence(req[c].to)
        /\ req[c].phase = "promote" => hydraulicResult

EventsJustified ==
    \A i \in DOMAIN events :
        /\ CanTransition(events[i].from, events[i].to)
        /\ \A k \in StagesUpTo(events[i].from) : RecordedBefore(k, i)
        /\ Evidence(events[i].to)

IInv ==
    /\ Evidence(state)
    /\ Reached(state)
    /\ CallsJustified
    /\ EventsJustified

\* A stage that an event leads to is reached once the event is recorded.
LEMMA RecordedIsReached ==
    ASSUME TypeOK, EventsJustified, NEW i \in DOMAIN events
    PROVE  Reached(events[i].to)
  <1>1. i <= Len(events) /\ DOMAIN events = 1 .. Len(events) /\ Len(events) \in Nat
    BY DEF TypeOK
  <1>2. events[i].from \in SystemStates /\ events[i].to \in SystemStates
    BY EventsAreTyped DEF TypeOK
  <1> SUFFICES ASSUME NEW k \in StagesUpTo(events[i].to)
               PROVE  RecordedBefore(k, Len(events) + 1)
    BY DEF Reached
  <1>3. CASE k = events[i].to
    BY <1>1, <1>3 DEF RecordedBefore
  <1>4. CASE k \in StagesUpTo(events[i].from)
    <2>1. PICK j \in DOMAIN events : j < i /\ events[j].to = k
      BY <1>4 DEF EventsJustified, RecordedBefore
    <2>2. j \in Nat /\ i \in Nat /\ j < Len(events) + 1
      BY <1>1, <2>1
    <2>3. QED
      BY <2>1, <2>2 DEF RecordedBefore
  <1>5. QED
    BY <1>2, <1>3, <1>4, LegalMovesAdvanceByOne DEF EventsJustified

\* A step that leaves the stream alone and takes no evidence away keeps what
\* was justified justified.
LEMMA JustifiedLasts ==
    ASSUME EventsJustified,
           hydraulicResult => hydraulicResult',
           anyHydrostaticPassed => anyHydrostaticPassed',
           acceptance # "none" => acceptance' # "none",
           events' = events
    PROVE  /\ EventsJustified'
           /\ \A s : Evidence(s) => Evidence(s)'
           /\ \A s : Reached(s) => Reached(s)'
  <1>1. \A s : Evidence(s) => Evidence(s)'
    BY DEF Evidence
  <1>2. \A s : Reached(s) => Reached(s)'
    BY DEF Reached, RecordedBefore
  <1>3. ASSUME NEW i \in DOMAIN events
        PROVE  /\ CanTransition(events[i].from, events[i].to)
               /\ \A k \in StagesUpTo(events[i].from) : RecordedBefore(k, i)'
               /\ Evidence(events[i].to)'
    <2>1. \A k : RecordedBefore(k, i) => RecordedBefore(k, i)'
      BY DEF RecordedBefore
    <2>2. QED
      BY <1>1, <2>1 DEF EventsJustified
  <1>4. EventsJustified'
    BY <1>3 DEF EventsJustified
  <1>5. QED
    BY <1>1, <1>2, <1>4

LEMMA GatesInit == Init => IInv
  <1> SUFFICES ASSUME Init PROVE IInv
    OBVIOUS
  <1>1. StagesUpTo("draft") = {}
    BY DEF StagesUpTo, RecordedStages, SystemStates, Rank
  <1>2. Evidence(state) /\ Reached(state)
    BY <1>1 DEF Init, Evidence, Reached, AcceptedStates, ServiceStates
  <1>3. CallsJustified
    BY DEF Init, CallsJustified, Idle
  <1>4. EventsJustified
    BY DEF Init, EventsJustified
  <1>5. QED
    BY <1>2, <1>3, <1>4 DEF IInv

\* The preconditions turn the evidence for the state read into the evidence
\* for the state asked for.
LEMMA PreconditionsSuffice ==
    ASSUME NEW from \in SystemStates, NEW to \in SystemStates,
           CanTransition(from, to),
           Evidence(from),
           checkTransitionPreconditions(from, to)
    PROVE  Evidence(to)
  <1>1. to # "draft" => hydraulicResult
    BY DEF CanTransition, legalTransitions, SystemStates, Evidence, checkTransitionPreconditions
  <1>2. to \in AcceptedStates => anyHydrostaticPassed
    BY DEF CanTransition, legalTransitions, SystemStates, Evidence, checkTransitionPreconditions,
           AcceptedStates
  <1>3. to \in ServiceStates => acceptance # "none"
    BY DEF CanTransition, legalTransitions, SystemStates, Evidence, checkTransitionPreconditions,
           ServiceStates
  <1>4. QED
    BY <1>1, <1>2, <1>3 DEF Evidence

\* Committing a justified call: its event joins the justified ones.
LEMMA CommitJustified ==
    ASSUME TypeOK, IInv, NEW c \in Clients, CommitTransition(c)
    PROVE  IInv'
  \* e and n are constants: priming a formula leaves them as they are.
  <1>0. PICK e, n : /\ e = [from |-> req[c].from, to |-> req[c].to, epoch |-> req[c].epoch]
                    /\ n = Len(events) + 1
    OBVIOUS
  <1>1. /\ e.from \in SystemStates /\ e.to \in SystemStates
        /\ CanTransition(e.from, e.to)
        /\ Evidence(e.from) /\ Evidence(e.to) /\ Reached(e.from)
        /\ state' = e.to
    BY <1>0 DEF CommitTransition, IInv, CallsJustified, TypeOK, Call
  <1>2. /\ n \in Nat /\ Len(events) \in Nat
        /\ DOMAIN events = 1 .. Len(events)
        /\ DOMAIN events' = 1 .. n
        /\ events'[n] = e
        /\ \A i \in DOMAIN events : events'[i] = events[i]
        /\ Len(events') = n
        /\ n = Len(events) + 1
    BY <1>0 DEF CommitTransition, TypeOK, Call, Event
  <1>3. \A s : Evidence(s) => Evidence(s)'
    BY DEF CommitTransition, Evidence, anyHydrostaticPassed
  <1>4. \A k, m : RecordedBefore(k, m) => RecordedBefore(k, m)'
    <2> SUFFICES ASSUME NEW k, NEW m, NEW j \in DOMAIN events, j < m, events[j].to = k
                 PROVE  RecordedBefore(k, m)'
      BY DEF RecordedBefore
    <2>1. j \in DOMAIN events' /\ events'[j] = events[j]
      BY <1>2
    <2>2. QED
      BY <2>1 DEF RecordedBefore
  <1>5. \A k : RecordedBefore(k, n) => RecordedBefore(k, n + 1)'
    <2> SUFFICES ASSUME NEW k, NEW j \in DOMAIN events, j < n, events[j].to = k
                 PROVE  RecordedBefore(k, n + 1)'
      BY DEF RecordedBefore
    <2>1. j \in DOMAIN events' /\ events'[j] = events[j] /\ j < n + 1
      BY <1>2
    <2>2. QED
      BY <2>1 DEF RecordedBefore
  <1>6. \A s : Reached(s) => Reached(s)'
    BY <1>2, <1>5 DEF Reached
  <1>7. RecordedBefore(e.to, n + 1)'
    <2>1. n \in DOMAIN events' /\ n < n + 1 /\ events'[n].to = e.to
      BY <1>2
    <2>2. QED
      BY <2>1 DEF RecordedBefore
  <1>8. Reached(e.to)'
    <2> SUFFICES ASSUME NEW k \in StagesUpTo(e.to)
                 PROVE  RecordedBefore(k, n + 1)'
      BY <1>2 DEF Reached
    <2>1. CASE k = e.to
      BY <1>7, <2>1
    <2>2. CASE k \in StagesUpTo(e.from)
      BY <1>1, <1>2, <1>5, <2>2 DEF Reached
    <2>3. QED
      BY <1>1, <2>1, <2>2, LegalMovesAdvanceByOne
  <1>9. EventsJustified'
    <2> SUFFICES ASSUME NEW i \in DOMAIN events',
                        NEW from, NEW to, from = events'[i].from, to = events'[i].to
                 PROVE  /\ CanTransition(from, to)
                        /\ \A k \in StagesUpTo(from) : RecordedBefore(k, i)'
                        /\ Evidence(to)'
      BY DEF EventsJustified
    <2>1. CASE i \in DOMAIN events
      <3>1. from = events[i].from /\ to = events[i].to
        BY <1>2, <2>1
      <3>2. /\ CanTransition(from, to)
            /\ \A k \in StagesUpTo(from) : RecordedBefore(k, i)
            /\ Evidence(to)
        BY <2>1, <3>1 DEF IInv, EventsJustified
      <3>3. QED
        BY <1>3, <1>4, <3>2
    <2>2. CASE i = n
      <3>1. from = e.from /\ to = e.to
        BY <1>2, <2>2
      <3>2. \A k \in StagesUpTo(from) : RecordedBefore(k, n)
        BY <1>1, <1>2, <3>1 DEF Reached
      <3>3. QED
        BY <1>1, <1>3, <1>4, <2>2, <3>1, <3>2
    <2>3. QED
      BY <1>2, <2>1, <2>2
  <1>10. Evidence(state)' /\ Reached(state)'
    <2>1. Evidence(e.to)'
      BY <1>1, <1>3
    <2>2. QED
      BY <1>1, <1>8, <2>1 DEF Evidence, Reached
  <1>11. CallsJustified'
    <2> SUFFICES ASSUME NEW d \in Clients
                 PROVE  (/\ req[d].phase \in {"check", "commit"} =>
                               /\ CanTransition(req[d].from, req[d].to)
                               /\ Evidence(req[d].from)
                               /\ Reached(req[d].from)
                         /\ req[d].phase = "commit" => Evidence(req[d].to)
                         /\ req[d].phase = "promote" => hydraulicResult)'
      BY DEF CallsJustified
    <2>1. CASE d = c
      BY <2>1 DEF CommitTransition, Return, Idle, TypeOK
    <2>2. CASE d # c
      <3>1. req'[d] = req[d] /\ hydraulicResult' = hydraulicResult
        BY <2>2 DEF CommitTransition, Return, TypeOK
      <3>2. QED
        BY <1>3, <1>6, <3>1 DEF IInv, CallsJustified, Evidence, Reached
    <2>3. QED
      BY <2>1, <2>2
  <1>12. QED
    BY <1>9, <1>10, <1>11 DEF IInv

\* Any other step leaves the stream alone.
LEMMA GatesStep == TypeOK /\ IInv /\ [Next]_vars => IInv'
  <1> SUFFICES ASSUME TypeOK, IInv, [Next]_vars
               PROVE  IInv'
    OBVIOUS
  <1> DEFINE Justified(c) ==
               /\ req[c].phase \in {"check", "commit"} =>
                     /\ CanTransition(req[c].from, req[c].to)
                     /\ Evidence(req[c].from)
                     /\ Reached(req[c].from)
               /\ req[c].phase = "commit" => Evidence(req[c].to)
               /\ req[c].phase = "promote" => hydraulicResult
             Lasting ==
               /\ EventsJustified'
               /\ \A s : Evidence(s) => Evidence(s)'
               /\ \A s : Reached(s) => Reached(s)'
  <1>a. ASSUME Lasting, state' = state
        PROVE  Evidence(state)' /\ Reached(state)'
    <2>1. Evidence(state) /\ Reached(state)
      BY DEF IInv
    <2>2. QED
      BY <1>a, <2>1 DEF Evidence, Reached
  <1>b. ASSUME Lasting, NEW c \in Clients, req'[c] = req[c],
               hydraulicResult => hydraulicResult'
        PROVE  Justified(c)'
    <2>1. Justified(c)
      BY DEF IInv, CallsJustified
    <2>2. QED
      BY <1>b, <2>1 DEF Evidence, Reached
  <1>c. ASSUME NEW c \in Clients, req'[c] = Idle
        PROVE  Justified(c)'
    BY <1>c DEF Idle
  <1>d. ASSUME Lasting, state' = state, req' = req, hydraulicResult => hydraulicResult'
        PROVE  IInv'
    <2>1. CallsJustified'
      BY <1>b, <1>d DEF CallsJustified
    <2>2. QED
      BY <1>a, <1>d, <2>1 DEF IInv
  <1>e. ASSUME Lasting, NEW c \in Clients, NEW r, state' = state,
               req' = [req EXCEPT ![c] = r], hydraulicResult => hydraulicResult', Justified(c)'
        PROVE  IInv'
    <2>1. \A d \in Clients \ {c} : Justified(d)'
      <3>1. \A d \in Clients \ {c} : req'[d] = req[d]
        BY <1>e DEF TypeOK
      <3>2. QED
        BY <1>b, <1>e, <3>1
    <2>2. CallsJustified'
      BY <1>e, <2>1 DEF CallsJustified
    <2>3. QED
      BY <1>a, <1>e, <2>2 DEF IInv
  <1> HIDE DEF Lasting
  <1>1. ASSUME NEW c \in Clients, NEW to \in SystemStates, BeginTransition(c, to)
        PROVE  IInv'
    <2>1. Lasting
      BY <1>1, JustifiedLasts DEF BeginTransition, rows, anyHydrostaticPassed, IInv, Lasting
    <2>2. req'[c] = [phase |-> "check", from |-> state, to |-> to, epoch |-> 0]
      BY <1>1 DEF BeginTransition, TypeOK
    <2>3. PICK from : from = state
      OBVIOUS
    <2>4. CanTransition(from, to) /\ Evidence(from)' /\ Reached(from)'
      BY <1>1, <2>1, <2>3 DEF BeginTransition, IInv, Lasting
    <2>5. Justified(c)'
      BY <2>2, <2>3, <2>4 DEF Evidence, Reached
    <2>6. QED
      BY <1>1, <1>e, <2>1, <2>5 DEF BeginTransition, rows
  <1>2. ASSUME NEW c \in Clients, PassPreconditions(c)
        PROVE  IInv'
    <2>1. Lasting
      BY <1>2, JustifiedLasts DEF PassPreconditions, rows, anyHydrostaticPassed, IInv, Lasting
    <2>2. PICK from \in SystemStates, to \in SystemStates :
             from = req[c].from /\ to = req[c].to
      BY DEF TypeOK, Call
    <2>3. CanTransition(from, to) /\ Evidence(from) /\ Reached(from)
      BY <1>2, <2>2 DEF PassPreconditions, IInv, CallsJustified
    <2>4. Evidence(to)
      BY <1>2, <2>2, <2>3, PreconditionsSuffice DEF PassPreconditions
    <2>5. Evidence(from)' /\ Reached(from)' /\ Evidence(to)'
      BY <2>1, <2>3, <2>4 DEF Lasting
    <2>6. req'[c] = [req[c] EXCEPT !.phase = "commit", !.epoch = clock]
      BY <1>2 DEF PassPreconditions, TypeOK, Call
    <2>7. req'[c].from = from /\ req'[c].to = to /\ req'[c].phase = "commit"
      BY <2>2, <2>6 DEF TypeOK, Call
    <2>8. Justified(c)'
      BY <2>3, <2>5, <2>7 DEF Evidence, Reached
    <2>9. QED
      BY <1>2, <1>e, <2>1, <2>8 DEF PassPreconditions, rows
  <1>3. ASSUME NEW c \in Clients, CommitTransition(c)
        PROVE  IInv'
    BY <1>3, CommitJustified
  <1>4. ASSUME NEW c \in Clients, BeginCalculate(c)
        PROVE  IInv'
    <2>1. Lasting
      BY <1>4, JustifiedLasts DEF BeginCalculate, rows, anyHydrostaticPassed, IInv, Lasting
    <2>2. req'[c].phase = "calculate"
      BY <1>4 DEF BeginCalculate, TypeOK
    <2>3. Justified(c)'
      BY <2>2
    <2>4. QED
      BY <1>4, <1>e, <2>1, <2>3 DEF BeginCalculate, rows
  <1>5. ASSUME NEW c \in Clients, PersistDerived(c)
        PROVE  IInv'
    <2>1. Lasting
      BY <1>5, JustifiedLasts DEF PersistDerived, anyHydrostaticPassed, IInv, Lasting
    <2>2. req'[c].phase \in {"promote", "idle"} /\ hydraulicResult'
      BY <1>5 DEF PersistDerived, TypeOK, Call, Idle
    <2>3. Justified(c)'
      BY <2>2
    <2>4. QED
      BY <1>5, <1>e, <2>1, <2>2, <2>3 DEF PersistDerived
  <1>6. ASSUME NEW c \in Clients, PromoteToDesigned(c)
        PROVE  IInv'
    <2>1. Lasting
      BY <1>6, JustifiedLasts DEF PromoteToDesigned, rows, anyHydrostaticPassed, IInv, Lasting
    <2>2. hydraulicResult
      BY <1>6 DEF PromoteToDesigned, IInv, CallsJustified
    <2>3. StagesUpTo("designed") = {}
      BY DEF StagesUpTo, RecordedStages, SystemStates, Rank
    <2>4. Evidence(state)' /\ Reached(state)'
      BY <1>6, <2>2, <2>3
         DEF PromoteToDesigned, rows, Evidence, Reached, AcceptedStates, ServiceStates
    <2>5. \A d \in Clients : req'[d] = req[d] \/ req'[d] = Idle
      BY <1>6 DEF PromoteToDesigned, Return, TypeOK
    <2>6. hydraulicResult'
      BY <1>6, <2>2 DEF PromoteToDesigned, rows
    <2>7. CallsJustified'
      BY <1>b, <1>c, <2>1, <2>5, <2>6 DEF CallsJustified
    <2>8. QED
      BY <2>1, <2>4, <2>7 DEF IInv, Lasting
  <1>7. ASSUME NEW c \in Clients, Abandon(c)
        PROVE  IInv'
    <2>1. Lasting
      BY <1>7, JustifiedLasts DEF Abandon, rows, anyHydrostaticPassed, IInv, Lasting
    <2>2. req'[c] = Idle
      BY <1>7 DEF Abandon, Return, TypeOK
    <2>3. QED
      BY <1>7, <1>c, <1>e, <2>1, <2>2 DEF Abandon, Return, rows
  <1>8. ASSUME NEW leaked \in BOOLEAN, RecordHydrostaticTest(leaked)
        PROVE  IInv'
    <2>1. anyHydrostaticPassed => anyHydrostaticPassed'
      <3> SUFFICES ASSUME NEW i \in DOMAIN tests, tests[i]
                   PROVE  anyHydrostaticPassed'
        BY DEF anyHydrostaticPassed
      <3>1. i \in DOMAIN tests' /\ tests'[i] = tests[i]
        <4>1. tests' = Append(tests, ~leaked)
          BY <1>8 DEF RecordHydrostaticTest
        <4>2. tests \in Seq(BOOLEAN)
          BY DEF TypeOK
        <4>3. (~leaked) \in BOOLEAN
          OBVIOUS
        <4>4. QED
          BY <4>1, <4>2, <4>3, AppendKeeps
      <3>2. QED
        BY <3>1 DEF anyHydrostaticPassed
    <2>2. Lasting
      BY <1>8, <2>1, JustifiedLasts DEF RecordHydrostaticTest, IInv, Lasting
    <2>3. QED
      BY <1>8, <1>d, <2>2 DEF RecordHydrostaticTest
  <1>9. ASSUME NEW conclusion \in {"pass", "fail"}, RecordAcceptance(conclusion)
        PROVE  IInv'
    <2>1. Lasting
      BY <1>9, JustifiedLasts DEF RecordAcceptance, anyHydrostaticPassed, IInv, Lasting
    <2>2. QED
      BY <1>9, <1>d, <2>1 DEF RecordAcceptance
  <1>10. CASE Tick
    <2>1. Lasting
      BY <1>10, JustifiedLasts DEF Tick, rows, anyHydrostaticPassed, IInv, Lasting
    <2>2. QED
      BY <1>10, <1>d, <2>1 DEF Tick, rows
  <1>11. CASE StepBack
    <2>1. Lasting
      BY <1>11, JustifiedLasts DEF StepBack, rows, anyHydrostaticPassed, IInv, Lasting
    <2>2. QED
      BY <1>11, <1>d, <2>1 DEF StepBack, rows
  <1>12. CASE Crash
    <2>1. Lasting
      BY <1>12, JustifiedLasts DEF Crash, rows, anyHydrostaticPassed, IInv, Lasting
    <2>2. CallsJustified'
      BY <1>12, <1>c DEF Crash, CallsJustified
    <2>3. QED
      BY <1>12, <1>a, <2>1, <2>2 DEF Crash, IInv, Lasting
  <1>13. CASE Restart
    <2>1. Lasting
      BY <1>13, JustifiedLasts
         DEF Restart, ReconcileResult, anyHydrostaticPassed, IInv, Lasting
    <2>2. hydraulicResult => hydraulicResult'
      BY <1>13 DEF Restart, ReconcileResult
    <2>3. CallsJustified'
      BY <1>13, <1>b, <2>1, <2>2 DEF Restart, CallsJustified
    <2>4. CASE state' = state
      BY <1>a, <2>1, <2>3, <2>4 DEF IInv, Lasting
    <2>5. ASSUME NEW i \in DOMAIN events, state' = events[i].to
          PROVE  IInv'
      <3>1. PICK to : to = events[i].to
        OBVIOUS
      <3>2. Evidence(to) /\ Reached(to)
        BY <3>1, RecordedIsReached DEF IInv, EventsJustified
      <3>3. Evidence(to)' /\ Reached(to)'
        BY <2>1, <3>2 DEF Lasting
      <3>4. Evidence(state)' /\ Reached(state)'
        BY <2>5, <3>1, <3>3 DEF Evidence, Reached
      <3>5. QED
        BY <2>1, <2>3, <3>4 DEF IInv, Lasting
    <2>6. QED
      BY <1>13, <2>4, <2>5 DEF Restart, CorrectStateFromEvents
  <1>14. CASE UNCHANGED vars
    <2>1. Lasting
      BY <1>14, JustifiedLasts DEF vars, anyHydrostaticPassed, IInv, Lasting
    <2>2. QED
      BY <1>14, <1>d, <2>1 DEF vars
  <1>15. QED
    BY <1>1, <1>2, <1>3, <1>4, <1>5, <1>6, <1>7, <1>8, <1>9, <1>10, <1>11, <1>12, <1>13, <1>14
       DEF Next

LEMMA IInvHolds == Spec => []IInv
  BY TypeCorrectness, GatesInit, GatesStep, PTL DEF Spec

\* Past draft there is a stored hydraulic result, however many callers race.
THEOREM DesignGateHolds == Spec => []DesignGate
  <1>1. IInv => DesignGate
    BY DEF IInv, Evidence, DesignGate
  <1>2. QED
    BY <1>1, IInvHolds, PTL

\* No system counts as accepted without a passed hydrostatic test.
THEOREM HydrostaticGateHolds == Spec => []HydrostaticGate
  <1>1. IInv => HydrostaticGate
    BY DEF IInv, Evidence, HydrostaticGate
  <1>2. QED
    BY <1>1, IInvHolds, PTL

\* No system is in service, or has been, without an acceptance record.
THEOREM AcceptanceGateHolds == Spec => []AcceptanceGate
  <1>1. IInv => AcceptanceGate
    BY DEF IInv, Evidence, AcceptanceGate
  <1>2. QED
    BY <1>1, IInvHolds, PTL

\* Every event, and the state column, stands on a recorded path through all
\* the stages before it: races and restarts never carry a system past one.
THEOREM NoStageSkippedHolds == Spec => []NoStageSkipped
  <1>1. IInv => NoStageSkipped
    BY DEF IInv, EventsJustified, Reached, NoStageSkipped
  <1>2. QED
    BY <1>1, IInvHolds, PTL

-----------------------------------------------------------------------------
(***************************************************************************)
(* One call at a time, on a clock that is not set back.  What a call has   *)
(* read is still so when it writes, and the event that sorts last is the   *)
(* one appended last; the invariant says both.                             *)
(***************************************************************************)
OneCallAtATime == (\E c : Clients = {c}) /\ ~MayStepBack

LastStage == IF events = << >> THEN "draft" ELSE events[Len(events)].to

\* The events are stamped in the order of their rowids.
EventsInTime ==
    \A i \in DOMAIN events :
        /\ events[i].epoch <= clock
        /\ \A j \in DOMAIN events : i <= j => events[i].epoch <= events[j].epoch

CallsCurrent ==
    \A c \in Clients :
        /\ req[c].phase \in {"check", "commit", "calculate"} => req[c].from = state
        /\ req[c].phase = "promote" => state = "draft"
        /\ req[c].phase = "commit" =>
              req[c].epoch <= clock /\ \A i \in DOMAIN events : events[i].epoch <= req[c].epoch
        /\ ~up => req[c].phase = "idle"

FollowsStage(s, last) == s = last \/ (last = "draft" /\ s = "designed")

StreamInv == EventsInTime /\ CallsCurrent /\ StreamIsAPath /\ FollowsStage(state, LastStage)

\* ORDER BY event_epoch, rowid puts the event appended last at the end.
LEMMA LastEventIsNewest ==
    ASSUME TypeOK, EventsInTime, NEW i \in DOMAIN events, IsLastEvent(i)
    PROVE  events[i].to = LastStage
  <1>1. /\ Len(events) \in Nat /\ DOMAIN events = 1 .. Len(events)
        /\ \A j \in DOMAIN events : events[j].epoch \in Nat
    <2>1. \A j \in DOMAIN events : events[j] \in Event
      BY DEF TypeOK
    <2>2. QED
      BY <2>1 DEF TypeOK, Event
  <1>2. Len(events) \in DOMAIN events /\ i <= Len(events) /\ events # << >>
    BY <1>1
  <1>3. i = Len(events)
    BY <1>1, <1>2 DEF EventsInTime, IsLastEvent
  <1>4. QED
    BY <1>2, <1>3 DEF LastStage

LEMMA StreamInit == Init => StreamInv
  BY DEF Init, StreamInv, EventsInTime, CallsCurrent, StreamIsAPath, FollowsStage, LastStage, Idle

\* The event of a call joins the stream at its end.
LEMMA CommitExtendsStream ==
    ASSUME OneCallAtATime, TypeOK, StreamInv, NEW c \in Clients, CommitTransition(c)
    PROVE  StreamInv'
  <1>0. PICK e, n, last :
           /\ e = [from |-> req[c].from, to |-> req[c].to, epoch |-> req[c].epoch]
           /\ n = Len(events) + 1
           /\ last = LastStage
    OBVIOUS
  <1>1. /\ e \in Event
        /\ e.from = state /\ e.to = state' /\ e.epoch = req[c].epoch
        /\ req[c].phase = "commit"
    BY <1>0 DEF CommitTransition, TypeOK, Call, Event, StreamInv, CallsCurrent
  <1>2. /\ n \in Nat /\ Len(events) \in Nat
        /\ n = Len(events) + 1
        /\ DOMAIN events = 1 .. Len(events)
        /\ DOMAIN events' = 1 .. n
        /\ events'[n] = e
        /\ \A i \in DOMAIN events : events'[i] = events[i]
        /\ Len(events') = n
    BY <1>0, <1>1 DEF CommitTransition, TypeOK, Event
  <1>3. \A i \in DOMAIN events : events[i].epoch \in Nat
    <2>1. \A i \in DOMAIN events : events[i] \in Event
      BY DEF TypeOK
    <2>2. QED
      BY <2>1 DEF Event
  <1>4. EventsInTime'
    <2>1. clock' = clock /\ e.epoch <= clock /\ \A i \in DOMAIN events : events[i].epoch <= e.epoch
      BY <1>1 DEF CommitTransition, StreamInv, CallsCurrent
    <2>2. \A i \in DOMAIN events' : events'[i].epoch <= clock'
      BY <1>2, <2>1 DEF StreamInv, EventsInTime
    <2>3. ASSUME NEW i \in DOMAIN events', NEW j \in DOMAIN events', i <= j
          PROVE  events'[i].epoch <= events'[j].epoch
      <3>1. CASE j \in DOMAIN events
        BY <1>2, <2>3, <3>1 DEF StreamInv, EventsInTime
      <3>2. CASE j = n /\ i \in DOMAIN events
        BY <1>2, <2>1, <3>2
      <3>3. CASE j = n /\ i = n
        BY <1>1, <1>2, <3>3 DEF Event
      <3>4. QED
        BY <1>2, <2>3, <3>1, <3>2, <3>3
    <2>4. QED
      BY <2>2, <2>3 DEF EventsInTime
  <1>5. CallsCurrent'
    BY DEF CommitTransition, Return, Idle, TypeOK, OneCallAtATime, CallsCurrent
  <1>6. StreamIsAPath'
    <2> SUFFICES ASSUME NEW i \in DOMAIN events',
                        NEW before, before = IF i = 1 THEN "draft" ELSE events'[i - 1].to
                 PROVE  \/ events'[i].from = before
                        \/ before = "draft" /\ events'[i].from = "designed"
      BY DEF StreamIsAPath
    <2>1. CASE i \in DOMAIN events
      <3>1. events'[i] = events[i] /\ (i # 1 => events'[i - 1] = events[i - 1])
        BY <1>2, <2>1
      <3>2. before = IF i = 1 THEN "draft" ELSE events[i - 1].to
        BY <3>1
      <3>3. QED
        BY <2>1, <3>1, <3>2 DEF StreamInv, StreamIsAPath
    <2>2. CASE i = n
      <3>1. before = last
        <4>1. CASE n = 1
          BY <1>0, <1>2, <2>2, <4>1 DEF LastStage, TypeOK
        <4>2. CASE n # 1
          <5>1. n - 1 = Len(events) /\ n - 1 \in DOMAIN events /\ events # << >>
            BY <1>2, <4>2
          <5>2. QED
            BY <1>0, <1>2, <2>2, <4>2, <5>1 DEF LastStage
        <4>3. QED
          BY <4>1, <4>2
      <3>2. FollowsStage(e.from, last)
        BY <1>0, <1>1 DEF StreamInv
      <3>3. QED
        BY <1>2, <2>2, <3>1, <3>2 DEF FollowsStage
    <2>3. QED
      BY <1>2, <2>1, <2>2
  <1>7. FollowsStage(state, LastStage)'
    <2>1. events' # << >>
      BY <1>2
    <2>2. QED
      BY <1>1, <1>2, <2>1 DEF FollowsStage, LastStage
  <1>8. QED
    BY <1>4, <1>5, <1>6, <1>7 DEF StreamInv

LEMMA StreamStep == OneCallAtATime /\ TypeOK /\ StreamInv /\ [Next]_vars => StreamInv'
  <1> SUFFICES ASSUME OneCallAtATime, TypeOK, StreamInv, [Next]_vars
               PROVE  StreamInv'
    OBVIOUS
  <1>a. PICK c : Clients = {c}
    BY DEF OneCallAtATime
  <1>b. /\ clock \in Nat /\ req \in [Clients -> Call] /\ req[c] \in Call
        /\ \A i \in DOMAIN events : events[i].epoch \in Nat
    <2>1. \A i \in DOMAIN events : events[i] \in Event
      BY DEF TypeOK
    <2>2. QED
      BY <1>a, <2>1 DEF TypeOK, Event
  <1>c. /\ req[c].phase \in {"check", "commit", "calculate"} => req[c].from = state
        /\ req[c].phase = "promote" => state = "draft"
        /\ req[c].phase = "commit" =>
              req[c].epoch <= clock /\ \A i \in DOMAIN events : events[i].epoch <= req[c].epoch
        /\ ~up => req[c].phase = "idle"
        /\ EventsInTime
        /\ FollowsStage(state, LastStage)
    BY <1>a DEF StreamInv, CallsCurrent
  <1>d. ASSUME UNCHANGED << state, events >>, clock' \in {clock, clock + 1}, CallsCurrent'
        PROVE  StreamInv'
    <2>1. EventsInTime'
      BY <1>b, <1>d DEF StreamInv, EventsInTime
    <2>2. QED
      BY <1>d, <2>1 DEF StreamInv, StreamIsAPath, FollowsStage, LastStage
  <1>1. ASSUME NEW to \in SystemStates, BeginTransition(c, to)
        PROVE  StreamInv'
    <2>1. CallsCurrent'
      BY <1>1, <1>a, <1>b DEF BeginTransition, CallsCurrent
    <2>2. QED
      BY <1>1, <1>d, <2>1 DEF BeginTransition, rows
  <1>2. CASE PassPreconditions(c)
    <2>1. req'[c] = [req[c] EXCEPT !.phase = "commit", !.epoch = clock]
      BY <1>2, <1>a, <1>b DEF PassPreconditions, Call
    <2>2. req'[c].phase = "commit" /\ req'[c].from = req[c].from /\ req'[c].epoch = clock
      BY <1>b, <2>1 DEF Call
    <2>3. CallsCurrent'
      BY <1>2, <1>a, <1>b, <1>c, <2>2 DEF PassPreconditions, CallsCurrent, EventsInTime, rows
    <2>4. QED
      BY <1>2, <1>d, <2>3 DEF PassPreconditions, rows
  <1>3. CASE CommitTransition(c)
    BY <1>3, <1>a, CommitExtendsStream
  <1>4. CASE BeginCalculate(c)
    <2>1. CallsCurrent'
      BY <1>4, <1>a, <1>b DEF BeginCalculate, CallsCurrent
    <2>2. QED
      BY <1>4, <1>d, <2>1 DEF BeginCalculate, rows
  <1>5. CASE PersistDerived(c)
    <2>1. \/ req'[c].phase = "promote" /\ state = "draft"
          \/ req'[c].phase = "idle"
      BY <1>5, <1>a, <1>b, <1>c DEF PersistDerived, Call, Idle
    <2>2. CallsCurrent'
      BY <1>5, <1>a, <1>c, <2>1 DEF PersistDerived, CallsCurrent
    <2>3. QED
      BY <1>5, <1>d, <2>2 DEF PersistDerived
  <1>6. CASE PromoteToDesigned(c)
    <2>1. req'[c].phase = "idle" /\ events' = events /\ clock' = clock
      BY <1>6, <1>a, <1>b DEF PromoteToDesigned, Return, Idle, rows
    <2>2. CallsCurrent' /\ EventsInTime' /\ StreamIsAPath'
      BY <1>a, <2>1 DEF CallsCurrent, StreamInv, EventsInTime, StreamIsAPath
    <2>3. FollowsStage(state, LastStage)'
      BY <1>6, <1>c, <2>1 DEF PromoteToDesigned, FollowsStage, LastStage
    <2>4. QED
      BY <2>2, <2>3 DEF StreamInv
  <1>7. CASE Abandon(c) \/ Crash
    <2>1. req'[c].phase = "idle"
      BY <1>7, <1>a, <1>b DEF Abandon, Crash, Return, Idle
    <2>2. CallsCurrent'
      BY <1>a, <2>1 DEF CallsCurrent
    <2>3. QED
      BY <1>7, <1>d, <2>2 DEF Abandon, Crash, rows
  <1>8. CASE \/ \E leaked \in BOOLEAN : RecordHydrostaticTest(leaked)
             \/ \E conclusion \in {"pass", "fail"} : RecordAcceptance(conclusion)
             \/ Tick
    <2>1. UNCHANGED << state, events, req, up >> /\ clock' \in {clock, clock + 1}
      BY <1>8 DEF RecordHydrostaticTest, RecordAcceptance, Tick, rows
    <2>2. req[c].epoch \in Nat
      BY <1>b DEF Call
    <2>3. CallsCurrent'
      BY <1>a, <1>b, <1>c, <2>1, <2>2 DEF CallsCurrent
    <2>4. QED
      BY <1>d, <2>1, <2>3
  <1>9. CASE Restart
    <2>1. req'[c].phase = "idle" /\ events' = events /\ clock' = clock
      BY <1>9, <1>c DEF Restart
    <2>2. CallsCurrent' /\ EventsInTime' /\ StreamIsAPath'
      BY <1>a, <2>1 DEF CallsCurrent, StreamInv, EventsInTime, StreamIsAPath
    <2>3. state' = state \/ state' = LastStage
      BY <1>9, <1>c, LastEventIsNewest DEF Restart, CorrectStateFromEvents
    <2>4. FollowsStage(state, LastStage)'
      BY <1>c, <2>1, <2>3 DEF FollowsStage, LastStage
    <2>5. QED
      BY <2>2, <2>4 DEF StreamInv
  <1>10. CASE UNCHANGED vars
    <2>1. CallsCurrent'
      BY <1>10 DEF vars, StreamInv, CallsCurrent
    <2>2. QED
      BY <1>10, <1>d, <2>1 DEF vars
  <1>11. ~StepBack
    BY DEF StepBack, OneCallAtATime
  <1>12. QED
    BY <1>a, <1>1, <1>2, <1>3, <1>4, <1>5, <1>6, <1>7, <1>8, <1>9, <1>10, <1>11 DEF Next

LEMMA StreamInvHolds ==
    ASSUME OneCallAtATime
    PROVE  Spec => []StreamInv
  BY StreamInit, StreamStep, TypeCorrectness, PTL DEF Spec

\* One call at a time: each event starts where the one before it ended, or a
\* calculation had promoted the system in between.  A call is abandoned or the
\* server crashes wherever it likes.
THEOREM StreamIsAPathHolds ==
    ASSUME OneCallAtATime
    PROVE  Spec => []StreamIsAPath
  <1>1. StreamInv => StreamIsAPath
    BY DEF StreamInv
  <1>2. QED
    BY <1>1, StreamInvHolds, PTL

\* One call at a time: the state column is what the last event says, or the
\* promotion of a calculation that no event records.
THEOREM StateFollowsStreamHolds ==
    ASSUME OneCallAtATime
    PROVE  Spec => []StateFollowsStream
  <1>1. StreamInv => StateFollowsStream
    BY DEF StreamInv, FollowsStage, LastStage, StateFollowsStream
  <1>2. QED
    BY <1>1, StreamInvHolds, PTL

\* One call at a time: the state moves along legal edges only, restarts included.
THEOREM StateChangesFollowGraphHolds ==
    ASSUME OneCallAtATime
    PROVE  Spec => StateChangesFollowGraph
  <1>1. TypeOK /\ IInv /\ StreamInv /\ [Next]_vars => (state' # state => CanTransition(state, state'))
    <2> SUFFICES ASSUME TypeOK, IInv, StreamInv, [Next]_vars, state' # state
                 PROVE  CanTransition(state, state')
      OBVIOUS
    <2>1. ASSUME NEW c \in Clients, CommitTransition(c)
          PROVE  CanTransition(state, state')
      BY <2>1 DEF CommitTransition, StreamInv, CallsCurrent, IInv, CallsJustified
    <2>2. ASSUME NEW c \in Clients, PromoteToDesigned(c)
          PROVE  CanTransition(state, state')
      BY <2>2 DEF PromoteToDesigned, StreamInv, CallsCurrent, CanTransition, legalTransitions
    <2>3. CASE Restart
      <3>1. state' = LastStage
        BY <2>3, LastEventIsNewest DEF Restart, CorrectStateFromEvents, StreamInv
      <3>2. state = "designed" /\ state' = "draft"
        BY <3>1 DEF StreamInv, FollowsStage
      <3>3. QED
        BY <3>2 DEF CanTransition, legalTransitions
    <2>4. QED
      BY <2>1, <2>2, <2>3
      DEF Next, vars, BeginTransition, PassPreconditions, BeginCalculate, PersistDerived, Abandon,
          RecordHydrostaticTest, RecordAcceptance, Tick, StepBack, Crash
  <1>2. Spec => [](TypeOK /\ IInv /\ StreamInv)
    BY TypeCorrectness, IInvHolds, StreamInvHolds, PTL
  <1>3. Spec => [][state' # state => CanTransition(state, state')]_vars
    BY <1>1, <1>2, PTL DEF Spec
  <1>4. QED
    BY <1>3 DEF StateChangesFollowGraph

\* One call at a time: a restart undoes the promotion of a calculation, and no
\* other state, for the newest event says what every other state is.
THEOREM RestartUndoesOnlyPromotionHolds ==
    ASSUME OneCallAtATime
    PROVE  Spec => RestartUndoesOnlyPromotion
  <1>1. TypeOK /\ StreamInv /\ [Next]_vars =>
            (~up /\ up' => state' = state \/ (state = "designed" /\ state' = "draft"))
    <2> SUFFICES ASSUME TypeOK, StreamInv, [Next]_vars, ~up, up'
                 PROVE  state' = state \/ (state = "designed" /\ state' = "draft")
      OBVIOUS
    <2>1. Restart
      BY DEF Next, vars, BeginTransition, PassPreconditions, CommitTransition, BeginCalculate,
             PersistDerived, PromoteToDesigned, Abandon, RecordHydrostaticTest,
             RecordAcceptance, Tick, StepBack, Crash
    <2>2. state' = state \/ state' = LastStage
      BY <2>1, LastEventIsNewest DEF Restart, CorrectStateFromEvents, StreamInv
    <2>3. QED
      BY <2>2 DEF StreamInv, FollowsStage
  <1>2. Spec => [](TypeOK /\ StreamInv)
    BY TypeCorrectness, StreamInvHolds, PTL
  <1>3. Spec => [][~up /\ up' => state' = state \/ (state = "designed" /\ state' = "draft")]_vars
    BY <1>1, <1>2, PTL DEF Spec
  <1>4. QED
    BY <1>3 DEF RestartUndoesOnlyPromotion

=============================================================================
