------------------------- MODULE ImpairmentsProofs -------------------------
(***************************************************************************)
(* What holds of Impairments for any systems, any callers and any bounds.  *)
(***************************************************************************)
EXTENDS Impairments, SequenceTheorems, TLAPS

\* A method that moves a system has a move left to make, and read the system in
\* a state that allows it; a method that writes to an impairment has registered
\* or found it.
CallIsSound(call) ==
    /\ call.phase \in {"read", "write"} => call.moves # << >>
    /\ call.phase = "write" => Head(call.moves) \in ServiceStates
    /\ call.phase \in {"measures", "mark"} => call.id \in DOMAIN impairments
    /\ call.phase = "measures" => impairments[call.id].system = call.system

CallsAreSound == \A t \in Threads : CallIsSound(req[t])

\* Requests are served only by a server that is up, and the main goroutine has
\* calls in flight only while it recovers.
OneAtATime ==
    /\ server # "up" => \A c \in Clients : req[c] = Idle
    /\ ~Recovering => req[Main] = Idle
    /\ req[Main].phase \in {"idle", "read", "write"}

IInv == TypeOK /\ CallsAreSound /\ OneAtATime

\* What a step does to the rows: those there were are there, with their system,
\* their dates and their measures, and are not reopened.
RowsKept ==
    \A i \in DOMAIN impairments :
        /\ i \in DOMAIN impairments'
        /\ impairments'[i].system = impairments[i].system
        /\ impairments'[i].started = impairments[i].started
        /\ impairments'[i].expected = impairments[i].expected
        /\ impairments[i].kinds \subseteq impairments'[i].kinds
        /\ ~Active(i) => ~Active(i)'

-----------------------------------------------------------------------------
(* States, calls and rows *)

\* The states in service are closed under the graph.
LEMMA ServiceIsClosed ==
    ASSUME NEW from \in ServiceStates, NEW to, CanTransition(from, to)
    PROVE  to \in ServiceStates
  BY DEF ServiceStates, CanTransition, legalTransitions

LEMMA ServiceStatesAreStates == ServiceStates \subseteq SystemStates
  BY DEF ServiceStates, SystemStates

\* The fields that a call of each kind has.
LEMMA CallFields ==
    ASSUME NEW call \in Call
    PROVE  /\ call.phase \in {"idle", "compensate", "insert", "measures", "mark", "read", "write"}
           /\ call.phase = "idle" <=> call = Idle
           /\ call.phase \in {"compensate", "insert"} =>
                 /\ call \in [phase : {"compensate", "insert"}, system : Systems,
                              kinds : SUBSET Kinds, started : Nat, expected : Nat,
                              inService : BOOLEAN]
           /\ call.phase = "measures" =>
                 call \in [phase : {"measures"}, system : Systems, kinds : SUBSET Kinds,
                           id : Nat, inService : BOOLEAN]
           /\ call.phase = "mark" => call \in [phase : {"mark"}, id : Nat]
           /\ call.phase = "read" =>
                 call \in [phase : {"read"}, system : Systems, moves : Seq(SystemStates)]
           /\ call.phase = "write" =>
                 call \in [phase : {"write"}, system : Systems, moves : Seq(SystemStates),
                           since : Nat]
  BY DEF Call, Idle

LEMMA IdleIsCall == Idle \in Call /\ Idle.phase = "idle"
  BY DEF Call, Idle

\* A method ends, or goes on to its next Transition.
LEMMA MovesAreCalls ==
    ASSUME NEW t \in Threads, req \in [Threads -> Call],
           NEW s \in Systems, NEW moves \in Seq(SystemStates), Moves(t, s, moves)
    PROVE  /\ req' \in [Threads -> Call]
           /\ \A u \in Threads \ {t} : req'[u] = req[u]
           /\ moves = << >> => req'[t] = Idle
           /\ moves # << >> => req'[t] = [phase |-> "read", system |-> s, moves |-> moves]
  <1>1. [phase |-> "read", system |-> s, moves |-> moves] \in Call
    BY DEF Call
  <1>2. QED
    BY <1>1, IdleIsCall DEF Moves

LEMMA ReturnIsIdle ==
    ASSUME NEW t \in Threads, req \in [Threads -> Call], Return(t)
    PROVE  /\ req' \in [Threads -> Call]
           /\ req'[t] = Idle
           /\ \A u \in Threads \ {t} : req'[u] = req[u]
  BY IdleIsCall DEF Return

\* One row is replaced.
LEMMA RowReplaced ==
    ASSUME impairments \in Seq(Impairment), NEW i \in DOMAIN impairments, NEW row \in Impairment,
           impairments' = [impairments EXCEPT ![i] = row]
    PROVE  /\ impairments' \in Seq(Impairment)
           /\ DOMAIN impairments' = DOMAIN impairments
           /\ Len(impairments') = Len(impairments)
           /\ impairments'[i] = row
           /\ \A j \in DOMAIN impairments \ {i} : impairments'[j] = impairments[j]
  <1>1. i \in 1..Len(impairments)
    OBVIOUS
  <1>2. QED
    BY <1>1, ExceptSeq

LEMMA RowsAreTyped ==
    ASSUME impairments \in Seq(Impairment), NEW i \in DOMAIN impairments
    PROVE  /\ impairments[i] \in Impairment
           /\ impairments[i].system \in Systems
           /\ impairments[i].expected \in Nat
           /\ impairments[i].kinds \in SUBSET Kinds
           /\ impairments[i].status \in {"active", "restored"}
  <1>1. impairments[i] \in Impairment
    OBVIOUS
  <1>2. QED
    BY <1>1 DEF Impairment

\* A row gets one measure more.
LEMMA MeasureAdded ==
    ASSUME impairments \in Seq(Impairment), NEW i \in DOMAIN impairments, NEW k \in Kinds,
           impairments' = [impairments EXCEPT ![i].kinds = @ \union {k}]
    PROVE  /\ impairments' \in Seq(Impairment)
           /\ DOMAIN impairments' = DOMAIN impairments
           /\ Len(impairments') = Len(impairments)
           /\ impairments'[i] = [impairments[i] EXCEPT !.kinds = @ \union {k}]
           /\ impairments'[i].kinds = impairments[i].kinds \union {k}
           /\ \A j \in DOMAIN impairments :
                 /\ impairments'[j].system = impairments[j].system
                 /\ impairments'[j].started = impairments[j].started
                 /\ impairments'[j].expected = impairments[j].expected
                 /\ impairments'[j].status = impairments[j].status
                 /\ j # i => impairments'[j].kinds = impairments[j].kinds
           /\ RowsKept
  <1> DEFINE row == [impairments[i] EXCEPT !.kinds = @ \union {k}]
  <1>1. impairments[i] \in Impairment
    BY RowsAreTyped
  <1>2. /\ row \in Impairment
        /\ row.system = impairments[i].system
        /\ row.started = impairments[i].started
        /\ row.expected = impairments[i].expected
        /\ row.status = impairments[i].status
        /\ row.kinds = impairments[i].kinds \union {k}
    BY <1>1 DEF Impairment
  <1>3. impairments' = [impairments EXCEPT ![i] = row]
    OBVIOUS
  <1> HIDE DEF row
  <1>4. /\ impairments' \in Seq(Impairment)
        /\ DOMAIN impairments' = DOMAIN impairments
        /\ Len(impairments') = Len(impairments)
        /\ impairments'[i] = row
        /\ \A j \in DOMAIN impairments \ {i} : impairments'[j] = impairments[j]
    BY <1>2, <1>3, RowReplaced
  <1>5. QED
    BY <1>2, <1>4 DEF RowsKept, Active, row

\* A row is marked restored.
LEMMA RowRestored ==
    ASSUME impairments \in Seq(Impairment), NEW i \in DOMAIN impairments,
           impairments' = [impairments EXCEPT ![i].status = "restored"]
    PROVE  /\ impairments' \in Seq(Impairment)
           /\ DOMAIN impairments' = DOMAIN impairments
           /\ impairments'[i].status = "restored"
           /\ \A j \in DOMAIN impairments :
                 /\ impairments'[j].system = impairments[j].system
                 /\ impairments'[j].started = impairments[j].started
                 /\ impairments'[j].expected = impairments[j].expected
                 /\ impairments'[j].kinds = impairments[j].kinds
                 /\ j # i => impairments'[j].status = impairments[j].status
           /\ RowsKept
  <1> DEFINE row == [impairments[i] EXCEPT !.status = "restored"]
  <1>1. impairments[i] \in Impairment
    BY RowsAreTyped
  <1>2. /\ row \in Impairment
        /\ row.system = impairments[i].system
        /\ row.started = impairments[i].started
        /\ row.expected = impairments[i].expected
        /\ row.kinds = impairments[i].kinds
        /\ row.status = "restored"
    BY <1>1 DEF Impairment
  <1>3. impairments' = [impairments EXCEPT ![i] = row]
    OBVIOUS
  <1> HIDE DEF row
  <1>4. /\ impairments' \in Seq(Impairment)
        /\ DOMAIN impairments' = DOMAIN impairments
        /\ impairments'[i] = row
        /\ \A j \in DOMAIN impairments \ {i} : impairments'[j] = impairments[j]
    BY <1>2, <1>3, RowReplaced
  <1>5. QED
    BY <1>2, <1>4 DEF RowsKept, Active

\* A row is added.
LEMMA RowAdded ==
    ASSUME impairments \in Seq(Impairment), NEW row \in Impairment,
           impairments' = Append(impairments, row)
    PROVE  /\ impairments' \in Seq(Impairment)
           /\ DOMAIN impairments' = DOMAIN impairments \union {Len(impairments) + 1}
           /\ Len(impairments) + 1 \notin DOMAIN impairments
           /\ Len(impairments) + 1 \in Nat
           /\ impairments'[Len(impairments) + 1] = row
           /\ \A j \in DOMAIN impairments : impairments'[j] = impairments[j]
           /\ RowsKept
  <1>1. /\ impairments' \in Seq(Impairment)
        /\ DOMAIN impairments' = DOMAIN impairments \union {Len(impairments) + 1}
        /\ Len(impairments) + 1 \notin DOMAIN impairments
        /\ Len(impairments) + 1 \in Nat
        /\ impairments'[Len(impairments) + 1] = row
        /\ \A j \in DOMAIN impairments : impairments'[j] = impairments[j]
    OBVIOUS
  <1>2. QED
    BY <1>1 DEF RowsKept, Active

LEMMA RowsUnchanged == UNCHANGED impairments => RowsKept
  BY DEF RowsKept, Active

-----------------------------------------------------------------------------
(* The inductive invariant *)

LEMMA IInvInit == Init => IInv
  <1> SUFFICES ASSUME Init
               PROVE  IInv
    OBVIOUS
  <1>1. TypeOK
    BY IdleIsCall DEF Init, TypeOK, ServiceStates
  <1>2. CallsAreSound
    BY IdleIsCall DEF Init, CallsAreSound, CallIsSound
  <1>3. OneAtATime
    BY IdleIsCall DEF Init, OneAtATime, Threads
  <1>4. QED
    BY <1>1, <1>2, <1>3 DEF IInv

\* The moves that the methods make.
LEMMA MovesOfMethods ==
    /\ << "restored", "in_service" >> \in Seq(SystemStates)
    /\ << "impaired" >> \in Seq(SystemStates)
    /\ << >> \in Seq(SystemStates)
  BY DEF SystemStates

\* What a step of one call has to show: the calls of the other threads stay
\* what they were, for the rows they are about are kept.
LEMMA OneCallSteps ==
    ASSUME IInv, RowsKept, NEW t \in Threads, UNCHANGED server,
           req[t] # Idle \/ (t \in Clients /\ server = "up") \/ (t = Main /\ Recovering),
           \A u \in Threads \ {t} : req'[u] = req[u],
           CallIsSound(req[t])',
           t = Main => req'[t].phase \in {"idle", "read", "write"}
    PROVE  CallsAreSound' /\ OneAtATime'
  <1>1. ASSUME NEW u \in Threads \ {t}
        PROVE  CallIsSound(req[u])'
    BY <1>1 DEF IInv, CallsAreSound, CallIsSound, RowsKept
  <1>2. CallsAreSound'
    BY <1>1 DEF CallsAreSound
  <1>3. OneAtATime'
    BY ThreadsAssumption DEF IInv, OneAtATime, Threads, Recovering
  <1>4. QED
    BY <1>2, <1>3

\* A step that leaves the calls and the rows alone.
LEMMA NoCallSteps ==
    ASSUME IInv, UNCHANGED << impairments, req >>
    PROVE  RowsKept /\ CallsAreSound'
  BY RowsUnchanged DEF IInv, CallsAreSound, CallIsSound

\* A method that goes on to its next Transition, or ends.
LEMMA MovesAreSound ==
    ASSUME IInv, RowsKept, NEW t \in Threads, UNCHANGED server,
           req[t] # Idle \/ (t \in Clients /\ server = "up") \/ (t = Main /\ Recovering),
           NEW s \in Systems, NEW moves \in Seq(SystemStates), Moves(t, s, moves)
    PROVE  /\ req' \in [Threads -> Call]
           /\ CallsAreSound'
           /\ OneAtATime'
  <1>1. /\ req' \in [Threads -> Call]
        /\ \A u \in Threads \ {t} : req'[u] = req[u]
        /\ moves = << >> => req'[t] = Idle
        /\ moves # << >> => req'[t] = [phase |-> "read", system |-> s, moves |-> moves]
    BY MovesAreCalls DEF IInv, TypeOK
  <1>2. CallIsSound(req[t])'
    BY <1>1, IdleIsCall DEF CallIsSound
  <1>3. req'[t].phase \in {"idle", "read", "write"}
    BY <1>1, IdleIsCall
  <1>4. QED
    BY <1>1, <1>2, <1>3, OneCallSteps

\* A method that ends.
LEMMA ReturnIsSound ==
    ASSUME IInv, RowsKept, NEW t \in Threads, UNCHANGED server, req[t] # Idle, Return(t)
    PROVE  /\ req' \in [Threads -> Call]
           /\ CallsAreSound'
           /\ OneAtATime'
  <1>1. /\ req' \in [Threads -> Call]
        /\ req'[t] = Idle
        /\ \A u \in Threads \ {t} : req'[u] = req[u]
    BY ReturnIsIdle DEF IInv, TypeOK
  <1>2. CallIsSound(req[t])' /\ req'[t].phase \in {"idle", "read", "write"}
    BY <1>1, IdleIsCall DEF CallIsSound
  <1>3. QED
    BY <1>1, <1>2, OneCallSteps

LEMMA BeginCreateStep ==
    ASSUME IInv, NEW c \in Clients, NEW s \in Systems, NEW kinds \in SUBSET Kinds,
           NEW started \in Starts, NEW expected \in Expectations,
           BeginCreate(c, s, kinds, started, expected)
    PROVE  IInv' /\ RowsKept
  <1>1. RowsKept
    BY RowsUnchanged DEF BeginCreate
  <1> DEFINE call == [phase     |-> "compensate",
                      system    |-> s,
                      kinds     |-> kinds,
                      started   |-> IF started = 0 THEN clock ELSE started,
                      expected  |-> expected,
                      inService |-> state[s] = "in_service"]
  <1>2. call \in Call
    BY InputsAssumption DEF Call, IInv, TypeOK
  <1>3. call.phase = "compensate" /\ req' = [req EXCEPT ![c] = call]
    BY DEF BeginCreate
  <1> HIDE DEF call
  <1>4. c \in Threads /\ c # Main /\ server = "up" /\ UNCHANGED server
    BY ThreadsAssumption DEF Threads, BeginCreate
  <1>5. /\ req' \in [Threads -> Call]
        /\ req'[c] = call
        /\ \A u \in Threads \ {c} : req'[u] = req[u]
    BY <1>2, <1>3, <1>4 DEF IInv, TypeOK
  <1>6. CallsAreSound' /\ OneAtATime'
    <2>1. CallIsSound(req[c])'
      BY <1>3, <1>5 DEF CallIsSound
    <2>2. QED
      BY <2>1, <1>1, <1>4, <1>5, OneCallSteps
  <1>7. TypeOK'
    BY <1>5 DEF BeginCreate, IInv, TypeOK
  <1>8. QED
    BY <1>1, <1>6, <1>7 DEF IInv

LEMMA CheckCompensationStep ==
    ASSUME IInv, NEW t \in Threads, CheckCompensation(t)
    PROVE  IInv' /\ RowsKept
  <1>1. RowsKept
    BY RowsUnchanged DEF CheckCompensation
  <1>2. /\ req[t] \in [phase : {"compensate", "insert"}, system : Systems, kinds : SUBSET Kinds,
                        started : Nat, expected : Nat, inService : BOOLEAN]
        /\ req[t] # Idle
        /\ t # Main
    BY CallFields, IdleIsCall DEF CheckCompensation, IInv, TypeOK, OneAtATime
  <1>3. req' \in [Threads -> Call] /\ CallsAreSound' /\ OneAtATime'
    <2>1. CASE Return(t)
      BY <2>1, <1>1, <1>2, ReturnIsSound DEF CheckCompensation
    <2>2. CASE req' = [req EXCEPT ![t].phase = "insert"]
      <3> DEFINE call == [req[t] EXCEPT !.phase = "insert"]
      <3>1. call \in Call /\ call.phase = "insert"
        BY <1>2 DEF Call
      <3>2. req' = [req EXCEPT ![t] = call]
        BY <2>2
      <3> HIDE DEF call
      <3>3. /\ req' \in [Threads -> Call]
            /\ req'[t] = call
            /\ \A u \in Threads \ {t} : req'[u] = req[u]
        BY <3>1, <3>2 DEF IInv, TypeOK
      <3>4. CallIsSound(req[t])'
        BY <3>1, <3>3 DEF CallIsSound
      <3>5. QED
        BY <3>3, <3>4, <1>1, <1>2, OneCallSteps DEF CheckCompensation
    <2>3. QED
      BY <2>1, <2>2 DEF CheckCompensation
  <1>4. TypeOK'
    BY <1>3 DEF CheckCompensation, IInv, TypeOK
  <1>5. QED
    BY <1>1, <1>3, <1>4 DEF IInv

LEMMA InsertImpairmentStep ==
    ASSUME IInv, NEW t \in Threads, InsertImpairment(t)
    PROVE  IInv' /\ RowsKept
  <1> DEFINE id == Len(impairments) + 1
             row == [system   |-> req[t].system,
                     started  |-> req[t].started,
                     expected |-> req[t].expected,
                     kinds    |-> {},
                     status   |-> "active"]
             call == [phase     |-> "measures",
                      system    |-> req[t].system,
                      id        |-> id,
                      kinds     |-> req[t].kinds,
                      inService |-> req[t].inService]
  <1>1. /\ req[t] \in [phase : {"compensate", "insert"}, system : Systems, kinds : SUBSET Kinds,
                        started : Nat, expected : Nat, inService : BOOLEAN]
        /\ req[t] # Idle
        /\ t # Main
    BY CallFields, IdleIsCall DEF InsertImpairment, IInv, TypeOK, OneAtATime
  <1>2. row \in Impairment /\ row.system = req[t].system
    BY <1>1 DEF Impairment
  <1>3. impairments' = Append(impairments, row)
    BY DEF InsertImpairment
  <1> HIDE DEF row
  <1>4. /\ impairments' \in Seq(Impairment)
        /\ DOMAIN impairments' = DOMAIN impairments \union {id}
        /\ id \in Nat
        /\ impairments'[id] = row
        /\ RowsKept
    BY <1>2, <1>3, RowAdded DEF IInv, TypeOK
  <1>5. /\ call \in Call
        /\ call.phase = "measures" /\ call.id = id /\ call.system = req[t].system
    BY <1>1, <1>4 DEF Call
  <1>6. req' = [req EXCEPT ![t] = call]
    BY DEF InsertImpairment
  <1> HIDE DEF call, id
  <1>7. /\ req' \in [Threads -> Call]
        /\ req'[t] = call
        /\ \A u \in Threads \ {t} : req'[u] = req[u]
    BY <1>5, <1>6 DEF IInv, TypeOK
  <1>8. CallIsSound(req[t])'
    BY <1>2, <1>4, <1>5, <1>7 DEF CallIsSound
  <1>9. CallsAreSound' /\ OneAtATime'
    BY <1>1, <1>4, <1>7, <1>8, OneCallSteps DEF InsertImpairment
  <1>10. TypeOK'
    BY <1>4, <1>7 DEF InsertImpairment, IInv, TypeOK
  <1>11. QED
    BY <1>4, <1>9, <1>10 DEF IInv

\* What InsertMeasure reads and writes; its last step moves the system.
LEMMA InsertMeasureFacts ==
    ASSUME IInv, NEW t \in Threads, InsertMeasure(t)
    PROVE  /\ req[t] # Idle /\ t # Main /\ t \in Clients
           /\ req[t] \in [phase : {"measures"}, system : Systems, kinds : SUBSET Kinds,
                          id : Nat, inService : BOOLEAN]
           /\ req[t].id \in DOMAIN impairments
           /\ impairments[req[t].id].system = req[t].system
           /\ RowsKept
           /\ impairments' \in Seq(Impairment)
           /\ DOMAIN impairments' = DOMAIN impairments
           /\ \A j \in DOMAIN impairments :
                 /\ impairments'[j].system = impairments[j].system
                 /\ impairments'[j].expected = impairments[j].expected
                 /\ impairments'[j].status = impairments[j].status
                 /\ j # req[t].id => impairments'[j].kinds = impairments[j].kinds
           /\ \E k \in req[t].kinds :
                 /\ impairments'[req[t].id].kinds = impairments[req[t].id].kinds \union {k}
                 /\ \/ /\ req[t].kinds = {k}
                       /\ Moves(t, req[t].system,
                                IF req[t].inService THEN << "impaired" >> ELSE << >>)
                    \/ /\ req[t].kinds # {k}
                       /\ req' = [req EXCEPT ![t].kinds = @ \ {k}]
  <1>1. /\ req[t] # Idle /\ t # Main /\ t \in Clients
        /\ req[t] \in [phase : {"measures"}, system : Systems, kinds : SUBSET Kinds,
                       id : Nat, inService : BOOLEAN]
        /\ req[t].id \in DOMAIN impairments
        /\ impairments[req[t].id].system = req[t].system
    BY CallFields, IdleIsCall
    DEF InsertMeasure, IInv, TypeOK, OneAtATime, CallsAreSound, CallIsSound, Threads
  <1>2. PICK k \in req[t].kinds :
           /\ impairments' = [impairments EXCEPT ![req[t].id].kinds = @ \union {k}]
           /\ IF req[t].kinds = {k}
              THEN Moves(t, req[t].system,
                         IF req[t].inService THEN << "impaired" >> ELSE << >>)
              ELSE req' = [req EXCEPT ![t].kinds = @ \ {k}]
    BY DEF InsertMeasure
  <1>3. k \in Kinds
    BY <1>1
  <1>4. /\ impairments' \in Seq(Impairment)
        /\ DOMAIN impairments' = DOMAIN impairments
        /\ impairments'[req[t].id].kinds = impairments[req[t].id].kinds \union {k}
        /\ \A j \in DOMAIN impairments :
              /\ impairments'[j].system = impairments[j].system
              /\ impairments'[j].expected = impairments[j].expected
              /\ impairments'[j].status = impairments[j].status
              /\ j # req[t].id => impairments'[j].kinds = impairments[j].kinds
        /\ RowsKept
    BY <1>1, <1>2, <1>3, MeasureAdded DEF IInv, TypeOK
  <1>5. QED
    BY <1>1, <1>2, <1>4

\* A call that has measures left to insert.
LEMMA MeasureTaken ==
    ASSUME req \in [Threads -> Call], NEW t \in Threads, NEW k,
           req[t] \in [phase : {"measures"}, system : Systems, kinds : SUBSET Kinds,
                       id : Nat, inService : BOOLEAN],
           req' = [req EXCEPT ![t].kinds = @ \ {k}]
    PROVE  /\ req' \in [Threads -> Call]
           /\ req'[t].phase = "measures"
           /\ req'[t].system = req[t].system
           /\ req'[t].id = req[t].id
           /\ req'[t].kinds = req[t].kinds \ {k}
           /\ \A u \in Threads \ {t} : req'[u] = req[u]
  <1> DEFINE call == [req[t] EXCEPT !.kinds = @ \ {k}]
  <1>1. /\ call \in Call
        /\ call.phase = "measures"
        /\ call.system = req[t].system
        /\ call.id = req[t].id
        /\ call.kinds = req[t].kinds \ {k}
    BY DEF Call
  <1>2. req' = [req EXCEPT ![t] = call]
    OBVIOUS
  <1> HIDE DEF call
  <1>3. QED
    BY <1>1, <1>2

LEMMA InsertMeasureStep ==
    ASSUME IInv, NEW t \in Threads, InsertMeasure(t)
    PROVE  IInv' /\ RowsKept
  <1>1. /\ req[t] # Idle /\ t # Main
        /\ req[t] \in [phase : {"measures"}, system : Systems, kinds : SUBSET Kinds,
                       id : Nat, inService : BOOLEAN]
        /\ req[t].id \in DOMAIN impairments
        /\ impairments[req[t].id].system = req[t].system
        /\ RowsKept
        /\ impairments' \in Seq(Impairment)
    BY InsertMeasureFacts
  <1>2. PICK k \in req[t].kinds :
           \/ Moves(t, req[t].system, IF req[t].inService THEN << "impaired" >> ELSE << >>)
           \/ req' = [req EXCEPT ![t].kinds = @ \ {k}]
    BY InsertMeasureFacts
  <1>3. UNCHANGED server
    BY DEF InsertMeasure
  <1>4. req' \in [Threads -> Call] /\ CallsAreSound' /\ OneAtATime'
    <2>1. CASE Moves(t, req[t].system, IF req[t].inService THEN << "impaired" >> ELSE << >>)
      <3>1. (IF req[t].inService THEN << "impaired" >> ELSE << >>) \in Seq(SystemStates)
        BY MovesOfMethods
      <3>2. req[t].system \in Systems
        BY <1>1
      <3>3. QED
        BY <2>1, <3>1, <3>2, <1>1, <1>3, MovesAreSound
    <2>2. CASE req' = [req EXCEPT ![t].kinds = @ \ {k}]
      <3>1. /\ req' \in [Threads -> Call]
            /\ req'[t].phase = "measures"
            /\ req'[t].system = req[t].system
            /\ req'[t].id = req[t].id
            /\ \A u \in Threads \ {t} : req'[u] = req[u]
        BY <2>2, <1>1, MeasureTaken DEF IInv, TypeOK
      <3>2. CallIsSound(req[t])'
        BY <3>1, <1>1 DEF CallIsSound, RowsKept
      <3>3. QED
        BY <3>1, <3>2, <1>1, <1>3, OneCallSteps
    <2>3. QED
      BY <2>1, <2>2, <1>2
  <1>5. TypeOK'
    <2>1. pastDue \subseteq DOMAIN impairments'
      BY InsertMeasureFacts DEF IInv, TypeOK
    <2>2. QED
      BY <2>1, <1>1, <1>4 DEF InsertMeasure, IInv, TypeOK
  <1>6. QED
    BY <1>1, <1>4, <1>5 DEF IInv

LEMMA BeginRestoreStep ==
    ASSUME IInv, NEW c \in Clients, NEW i \in DOMAIN impairments, BeginRestore(c, i)
    PROVE  IInv' /\ RowsKept
  <1>1. RowsKept
    BY RowsUnchanged DEF BeginRestore
  <1> DEFINE call == [phase |-> "mark", id |-> i]
  <1>2. call \in Call /\ call.phase = "mark" /\ call.id = i
    BY DEF Call, IInv, TypeOK
  <1>3. req' = [req EXCEPT ![c] = call]
    BY DEF BeginRestore
  <1> HIDE DEF call
  <1>4. c \in Threads /\ c # Main /\ server = "up" /\ UNCHANGED << server, impairments >>
    BY ThreadsAssumption DEF Threads, BeginRestore
  <1>5. /\ req' \in [Threads -> Call]
        /\ req'[c] = call
        /\ \A u \in Threads \ {c} : req'[u] = req[u]
    BY <1>2, <1>3, <1>4 DEF IInv, TypeOK
  <1>6. CallIsSound(req[c])'
    BY <1>2, <1>4, <1>5 DEF CallIsSound
  <1>7. CallsAreSound' /\ OneAtATime'
    BY <1>6, <1>1, <1>4, <1>5, OneCallSteps
  <1>8. TypeOK'
    BY <1>5 DEF BeginRestore, IInv, TypeOK
  <1>9. QED
    BY <1>1, <1>7, <1>8 DEF IInv

\* What MarkRestored reads and writes.
LEMMA MarkRestoredFacts ==
    ASSUME IInv, NEW t \in Threads, MarkRestored(t)
    PROVE  /\ req[t] # Idle /\ t # Main /\ t \in Clients
           /\ req[t].id \in DOMAIN impairments
           /\ impairments[req[t].id].system \in Systems
           /\ impairments' \in Seq(Impairment)
           /\ DOMAIN impairments' = DOMAIN impairments
           /\ impairments'[req[t].id].status = "restored"
           /\ \A j \in DOMAIN impairments :
                 /\ impairments'[j].system = impairments[j].system
                 /\ impairments'[j].expected = impairments[j].expected
                 /\ impairments'[j].kinds = impairments[j].kinds
                 /\ j # req[t].id => impairments'[j].status = impairments[j].status
           /\ RowsKept
           /\ Moves(t, impairments[req[t].id].system, << "restored", "in_service" >>)
  <1>1. req[t] # Idle /\ t # Main /\ t \in Clients /\ req[t].id \in DOMAIN impairments
    BY CallFields, IdleIsCall
    DEF MarkRestored, IInv, TypeOK, OneAtATime, CallsAreSound, CallIsSound, Threads
  <1>2. impairments[req[t].id].system \in Systems
    BY <1>1, RowsAreTyped DEF IInv, TypeOK
  <1>3. impairments' = [impairments EXCEPT ![req[t].id].status = "restored"]
    BY DEF MarkRestored
  <1>4. /\ impairments' \in Seq(Impairment)
        /\ DOMAIN impairments' = DOMAIN impairments
        /\ impairments'[req[t].id].status = "restored"
        /\ \A j \in DOMAIN impairments :
              /\ impairments'[j].system = impairments[j].system
              /\ impairments'[j].expected = impairments[j].expected
              /\ impairments'[j].kinds = impairments[j].kinds
              /\ j # req[t].id => impairments'[j].status = impairments[j].status
        /\ RowsKept
    BY <1>1, <1>3, RowRestored DEF IInv, TypeOK
  <1>5. QED
    BY <1>1, <1>2, <1>4 DEF MarkRestored

LEMMA MarkRestoredStep ==
    ASSUME IInv, NEW t \in Threads, MarkRestored(t)
    PROVE  IInv' /\ RowsKept
  <1>1. /\ req[t] # Idle
        /\ impairments[req[t].id].system \in Systems
        /\ impairments' \in Seq(Impairment)
        /\ DOMAIN impairments' = DOMAIN impairments
        /\ RowsKept
        /\ Moves(t, impairments[req[t].id].system, << "restored", "in_service" >>)
    BY MarkRestoredFacts
  <1>2. UNCHANGED server
    BY DEF MarkRestored
  <1>3. req' \in [Threads -> Call] /\ CallsAreSound' /\ OneAtATime'
    BY <1>1, <1>2, MovesOfMethods, MovesAreSound
  <1>4. TypeOK'
    BY <1>1, <1>3 DEF MarkRestored, IInv, TypeOK
  <1>5. QED
    BY <1>1, <1>3, <1>4 DEF IInv

LEMMA RequestMoveStep ==
    ASSUME IInv, NEW c \in Clients, NEW s \in Systems, NEW to \in SystemStates,
           RequestMove(c, s, to)
    PROVE  IInv' /\ RowsKept
  <1>1. RowsKept
    BY RowsUnchanged DEF RequestMove
  <1>2. c \in Threads /\ << to >> \in Seq(SystemStates)
    BY DEF Threads
  <1>3. req' \in [Threads -> Call] /\ CallsAreSound' /\ OneAtATime'
    BY <1>1, <1>2, MovesAreSound DEF RequestMove
  <1>4. TypeOK'
    BY <1>3 DEF RequestMove, IInv, TypeOK
  <1>5. QED
    BY <1>1, <1>3, <1>4 DEF IInv

LEMMA ReadSystemStep ==
    ASSUME IInv, NEW t \in Threads, ReadSystem(t)
    PROVE  IInv' /\ RowsKept
  <1>1. RowsKept
    BY RowsUnchanged DEF ReadSystem
  <1>2. /\ req[t] \in [phase : {"read"}, system : Systems, moves : Seq(SystemStates)]
        /\ req[t] # Idle
        /\ req[t].moves # << >>
    BY CallFields, IdleIsCall DEF ReadSystem, IInv, TypeOK, CallsAreSound, CallIsSound
  <1>3. req' \in [Threads -> Call] /\ CallsAreSound' /\ OneAtATime'
    <2>1. CASE Return(t)
      BY <2>1, <1>1, <1>2, ReturnIsSound DEF ReadSystem
    <2>2. CASE /\ CanTransition(state[req[t].system], Head(req[t].moves))
               /\ req' = [req EXCEPT ![t] = [phase |-> "write",
                                             system |-> req[t].system,
                                             moves |-> req[t].moves,
                                             since |-> clock]]
      <3> DEFINE call == [phase |-> "write", system |-> req[t].system,
                          moves |-> req[t].moves, since |-> clock]
      <3>1. call \in Call /\ call.phase = "write" /\ call.moves = req[t].moves
        BY <1>2 DEF Call, IInv, TypeOK
      <3>2. req' = [req EXCEPT ![t] = call]
        BY <2>2
      <3> HIDE DEF call
      <3>3. /\ req' \in [Threads -> Call]
            /\ req'[t] = call
            /\ \A u \in Threads \ {t} : req'[u] = req[u]
        BY <3>1, <3>2 DEF IInv, TypeOK
      <3>4. Head(req[t].moves) \in ServiceStates
        BY <2>2, <1>2, ServiceIsClosed DEF IInv, TypeOK
      <3>5. CallIsSound(req[t])' /\ req'[t].phase = "write"
        BY <3>1, <3>3, <3>4, <1>2 DEF CallIsSound
      <3>6. QED
        BY <3>3, <3>5, <1>1, <1>2, OneCallSteps DEF ReadSystem
    <2>3. QED
      BY <2>1, <2>2 DEF ReadSystem
  <1>4. TypeOK'
    BY <1>3 DEF ReadSystem, IInv, TypeOK
  <1>5. QED
    BY <1>1, <1>3, <1>4 DEF IInv

\* What WriteSystem reads and writes.
LEMMA WriteSystemFacts ==
    ASSUME IInv, NEW t \in Threads, WriteSystem(t)
    PROVE  /\ req[t] \in [phase : {"write"}, system : Systems, moves : Seq(SystemStates),
                          since : Nat]
           /\ req[t] # Idle
           /\ req[t].system \in Systems
           /\ req[t].moves # << >>
           /\ Head(req[t].moves) \in ServiceStates
           /\ Tail(req[t].moves) \in Seq(SystemStates)
           /\ state' = [state EXCEPT ![req[t].system] = Head(req[t].moves)]
           /\ \E epoch \in req[t].since..clock :
                 latest' = IF After(req[t].system, epoch)
                           THEN [latest EXCEPT ![req[t].system] =
                                   [to |-> Head(req[t].moves), epoch |-> epoch]]
                           ELSE latest
           /\ Moves(t, req[t].system, Tail(req[t].moves))
  <1>1. /\ req[t] \in [phase : {"write"}, system : Systems, moves : Seq(SystemStates), since : Nat]
        /\ req[t] # Idle
        /\ req[t].moves # << >>
        /\ Head(req[t].moves) \in ServiceStates
    BY CallFields, IdleIsCall DEF WriteSystem, IInv, TypeOK, CallsAreSound, CallIsSound
  <1>2. req[t].system \in Systems /\ Tail(req[t].moves) \in Seq(SystemStates)
    BY <1>1
  <1>3. QED
    BY <1>1, <1>2 DEF WriteSystem

LEMMA WriteSystemStep ==
    ASSUME IInv, NEW t \in Threads, WriteSystem(t)
    PROVE  IInv' /\ RowsKept
  <1>1. RowsKept
    BY RowsUnchanged DEF WriteSystem
  <1> DEFINE s == req[t].system  to == Head(req[t].moves)
  <1>2. /\ req[t] # Idle /\ s \in Systems /\ to \in ServiceStates
        /\ req[t].since \in Nat
        /\ Tail(req[t].moves) \in Seq(SystemStates)
        /\ state' = [state EXCEPT ![s] = to]
        /\ Moves(t, s, Tail(req[t].moves))
    BY WriteSystemFacts
  <1>3. PICK epoch \in req[t].since..clock :
           latest' = IF After(s, epoch) THEN [latest EXCEPT ![s] = [to |-> to, epoch |-> epoch]]
                     ELSE latest
    BY WriteSystemFacts
  <1> HIDE DEF s, to
  <1>4. req' \in [Threads -> Call] /\ CallsAreSound' /\ OneAtATime'
    BY <1>1, <1>2, MovesAreSound DEF WriteSystem
  <1>5. epoch \in Nat
    BY <1>2 DEF IInv, TypeOK
  <1>6. TypeOK'
    <2>1. state' \in [Systems -> ServiceStates]
      BY <1>2 DEF IInv, TypeOK
    <2>2. latest' \in [Systems -> [to : ServiceStates, epoch : Nat]]
      <3>1. [to |-> to, epoch |-> epoch] \in [to : ServiceStates, epoch : Nat]
        BY <1>2, <1>5
      <3>2. QED
        BY <3>1, <1>3 DEF IInv, TypeOK
    <2>3. QED
      BY <2>1, <2>2, <1>4 DEF WriteSystem, IInv, TypeOK
  <1>7. QED
    BY <1>1, <1>4, <1>6 DEF IInv

LEMMA AbandonStep ==
    ASSUME IInv, NEW c \in Clients, Abandon(c)
    PROVE  IInv' /\ RowsKept
  <1>1. RowsKept
    BY RowsUnchanged DEF Abandon
  <1>2. req' \in [Threads -> Call] /\ CallsAreSound' /\ OneAtATime'
    BY <1>1, ReturnIsSound DEF Abandon, Threads
  <1>3. TypeOK'
    BY <1>2 DEF Abandon, IInv, TypeOK
  <1>4. QED
    BY <1>1, <1>2, <1>3 DEF IInv

LEMMA CrashStep ==
    ASSUME IInv, Crash
    PROVE  IInv' /\ RowsKept
  <1>1. RowsKept
    BY RowsUnchanged DEF Crash
  <1>2. TypeOK'
    BY IdleIsCall DEF Crash, IInv, TypeOK
  <1>3. CallsAreSound'
    BY IdleIsCall DEF Crash, CallsAreSound, CallIsSound
  <1>4. OneAtATime'
    BY IdleIsCall DEF Crash, OneAtATime, Threads
  <1>5. QED
    BY <1>1, <1>2, <1>3, <1>4 DEF IInv

\* Stop, Tick and Serve.
LEMMA ServerSteps ==
    ASSUME IInv, Stop \/ Tick \/ Serve
    PROVE  IInv' /\ RowsKept
  <1>1. RowsKept /\ CallsAreSound'
    BY NoCallSteps DEF Stop, Tick, Serve
  <1>2. TypeOK'
    BY DEF Stop, Tick, Serve, IInv, TypeOK
  <1>3. OneAtATime'
    BY DEF Stop, Tick, Serve, Quiet, IInv, OneAtATime, Threads, Recovering
  <1>4. QED
    BY <1>1, <1>2, <1>3 DEF IInv

LEMMA StartRecoveryStep ==
    ASSUME IInv, StartRecovery
    PROVE  IInv' /\ RowsKept
  <1>1. RowsKept /\ CallsAreSound'
    BY NoCallSteps DEF StartRecovery
  <1>2. TypeOK'
    <2>1. state' \in [Systems -> ServiceStates]
      BY DEF StartRecovery, CorrectStatesFromEvents, IInv, TypeOK
    <2>2. QED
      BY <2>1 DEF StartRecovery, IInv, TypeOK
  <1>3. OneAtATime'
    BY DEF StartRecovery, IInv, OneAtATime, Recovering
  <1>4. QED
    BY <1>1, <1>2, <1>3 DEF IInv

\* What RecoverImpairment reads and writes.
LEMMA RecoverImpairmentFacts ==
    ASSUME IInv, RecoverImpairment
    PROVE  \E i \in pastDue :
              /\ i \in DOMAIN impairments
              /\ pastDue' = pastDue \ {i}
              /\ impairments[i].system \in Systems
              /\ impairments' \in Seq(Impairment)
              /\ DOMAIN impairments' = DOMAIN impairments
              /\ impairments'[i].status = "restored"
              /\ \A j \in DOMAIN impairments :
                    /\ impairments'[j].system = impairments[j].system
                    /\ impairments'[j].expected = impairments[j].expected
                    /\ impairments'[j].kinds = impairments[j].kinds
                    /\ j # i => impairments'[j].status = impairments[j].status
              /\ RowsKept
              /\ Moves(Main, impairments[i].system,
                       IF state[impairments[i].system] = "impaired"
                       THEN << "restored", "in_service" >> ELSE << >>)
  <1>1. PICK i \in pastDue :
           /\ pastDue' = pastDue \ {i}
           /\ impairments' = [impairments EXCEPT ![i].status = "restored"]
           /\ Moves(Main, impairments[i].system,
                    IF state[impairments[i].system] = "impaired"
                    THEN << "restored", "in_service" >> ELSE << >>)
    BY DEF RecoverImpairment
  <1>2. i \in DOMAIN impairments
    BY DEF IInv, TypeOK
  <1>3. impairments[i].system \in Systems
    BY <1>2, RowsAreTyped DEF IInv, TypeOK
  <1>4. /\ impairments' \in Seq(Impairment)
        /\ DOMAIN impairments' = DOMAIN impairments
        /\ impairments'[i].status = "restored"
        /\ \A j \in DOMAIN impairments :
              /\ impairments'[j].system = impairments[j].system
              /\ impairments'[j].expected = impairments[j].expected
              /\ impairments'[j].kinds = impairments[j].kinds
              /\ j # i => impairments'[j].status = impairments[j].status
        /\ RowsKept
    BY <1>1, <1>2, RowRestored DEF IInv, TypeOK
  <1>5. QED
    BY <1>1, <1>2, <1>3, <1>4

LEMMA RecoverImpairmentStep ==
    ASSUME IInv, RecoverImpairment
    PROVE  IInv' /\ RowsKept
  <1>1. PICK i \in pastDue :
              /\ pastDue' = pastDue \ {i}
              /\ impairments[i].system \in Systems
              /\ impairments' \in Seq(Impairment)
              /\ DOMAIN impairments' = DOMAIN impairments
              /\ RowsKept
              /\ Moves(Main, impairments[i].system,
                       IF state[impairments[i].system] = "impaired"
                       THEN << "restored", "in_service" >> ELSE << >>)
    BY RecoverImpairmentFacts
  <1>2. Recovering /\ UNCHANGED server
    BY DEF RecoverImpairment
  <1>3. req' \in [Threads -> Call] /\ CallsAreSound' /\ OneAtATime'
    <2> DEFINE moves == IF state[impairments[i].system] = "impaired"
                        THEN << "restored", "in_service" >> ELSE << >>
    <2>1. moves \in Seq(SystemStates)
      BY MovesOfMethods
    <2>2. Moves(Main, impairments[i].system, moves)
      BY <1>1
    <2> HIDE DEF moves
    <2>3. Main \in Threads
      BY DEF Threads
    <2>4. QED
      BY <1>1, <1>2, <2>1, <2>2, <2>3, MovesAreSound
  <1>4. TypeOK'
    BY <1>1, <1>3 DEF RecoverImpairment, IInv, TypeOK
  <1>5. QED
    BY <1>1, <1>3, <1>4 DEF IInv

LEMMA RecoveryFailsStep ==
    ASSUME IInv, RecoveryFails
    PROVE  IInv' /\ RowsKept
  <1>1. RowsKept
    BY RowsUnchanged DEF RecoveryFails
  <1>2. Main \in Threads /\ Main \notin Clients
    BY ThreadsAssumption DEF Threads
  <1>3. /\ req' \in [Threads -> Call]
        /\ req'[Main] = Idle
        /\ \A u \in Threads \ {Main} : req'[u] = req[u]
    BY <1>2, ReturnIsIdle DEF RecoveryFails, IInv, TypeOK
  <1>4. TypeOK'
    BY <1>3 DEF RecoveryFails, IInv, TypeOK
  <1>5. CallsAreSound'
    BY <1>3, IdleIsCall DEF RecoveryFails, IInv, CallsAreSound, CallIsSound
  <1>6. OneAtATime'
    BY <1>2, <1>3, IdleIsCall DEF RecoveryFails, IInv, OneAtATime, Threads, Recovering
  <1>7. QED
    BY <1>1, <1>4, <1>5, <1>6 DEF IInv

\* Every step keeps the invariant and the rows.
LEMMA IInvStep == IInv /\ [Next]_vars => IInv' /\ RowsKept
  <1> SUFFICES ASSUME IInv, [Next]_vars
               PROVE  IInv' /\ RowsKept
    OBVIOUS
  <1>1. ASSUME NEW c \in Clients, Begin(c)
        PROVE  IInv' /\ RowsKept
    <2>1. ASSUME NEW s \in Systems, NEW kinds \in SUBSET Kinds, NEW started \in Starts,
                 NEW expected \in Expectations, BeginCreate(c, s, kinds, started, expected)
          PROVE  IInv' /\ RowsKept
      BY <2>1, BeginCreateStep
    <2>2. QED
      BY <1>1, <2>1, BeginRestoreStep, RequestMoveStep DEF Begin
  <1>2. ASSUME NEW t \in Threads, Proceed(t)
        PROVE  IInv' /\ RowsKept
    BY <1>2, CheckCompensationStep, InsertImpairmentStep, InsertMeasureStep, MarkRestoredStep,
       ReadSystemStep, WriteSystemStep DEF Proceed
  <1>3. ASSUME Recovery
        PROVE  IInv' /\ RowsKept
    BY <1>3, StartRecoveryStep, RecoverImpairmentStep, RecoveryFailsStep, ServerSteps DEF Recovery
  <1>4. ASSUME UNCHANGED vars
        PROVE  IInv' /\ RowsKept
    <2>1. RowsKept /\ CallsAreSound'
      BY <1>4, NoCallSteps DEF vars
    <2>2. TypeOK' /\ OneAtATime'
      BY <1>4 DEF vars, IInv, TypeOK, OneAtATime, Recovering
    <2>3. QED
      BY <2>1, <2>2 DEF IInv
  <1>5. QED
    BY <1>1, <1>2, <1>3, <1>4, AbandonStep, CrashStep, ServerSteps DEF Next

\* In every state a call that moves a system has a move left, a call that writes
\* to an impairment is about a row that is there, and no request is served
\* while the server is down or recovers.
THEOREM IInvHolds == Spec => []IInv
  <1>1. Init => IInv
    BY IInvInit
  <1>2. IInv /\ [Next]_vars => IInv'
    BY IInvStep
  <1>3. QED
    BY <1>1, <1>2, PTL DEF Spec

-----------------------------------------------------------------------------
(* The rows, whatever fails *)

\* Every variable holds a value of its type: no interleaving of the callers and
\* no restart takes a system out of the three states in service, and every id
\* that a recovery or a call holds is that of a row.
THEOREM TypeCorrectness == Spec => []TypeOK
  <1>1. IInv => TypeOK
    BY DEF IInv
  <1>2. QED
    BY <1>1, IInvHolds, PTL

\* CreateImpairment, RestoreImpairment and the auto-restore lose, reassign or
\* reopen no impairment and take no measure away, whoever races with them and
\* wherever they are cut short.
THEOREM ImpairmentsAreKeptHolds == Spec => ImpairmentsAreKept
  <1>1. IInv /\ [Next]_vars => RowsKept
    BY IInvStep
  <1>2. Spec => [][RowsKept]_vars
    BY <1>1, IInvHolds, PTL DEF Spec
  <1>3. QED
    BY <1>2 DEF ImpairmentsAreKept, RowsKept

-----------------------------------------------------------------------------
(* What the recovery has restored when the server begins to serve *)

\* The records that were due when the recovery began are listed until they are
\* restored, as long as no database call is refused.
DueAreListed ==
    server = "recovering" =>
        \A i \in DOMAIN impairments :
            Active(i) /\ impairments[i].expected <= recoveryNow => i \in pastDue

\* While the server recovers, only the recovery and the Transition it has called
\* go on.
LEMMA RecoveryGoesAlone ==
    ASSUME IInv, server # "up", NEW t \in Threads, Proceed(t)
    PROVE  t = Main /\ (ReadSystem(t) \/ WriteSystem(t))
  <1>1. req[t] # Idle
    BY IdleIsCall DEF Proceed, CheckCompensation, InsertImpairment, InsertMeasure,
                      MarkRestored, ReadSystem, WriteSystem
  <1>2. t = Main
    BY <1>1 DEF IInv, OneAtATime, Threads
  <1>3. QED
    BY <1>2 DEF IInv, OneAtATime, Proceed, CheckCompensation, InsertImpairment,
                InsertMeasure, MarkRestored

LEMMA DueStep == IInv /\ DueAreListed /\ [Next]_vars => DueAreListed'
  <1> SUFFICES ASSUME IInv, DueAreListed, [Next]_vars, server' = "recovering"
               PROVE  DueAreListed'
    BY DEF DueAreListed
  <1>1. ASSUME NEW c \in Clients, Begin(c) \/ Abandon(c)
        PROVE  DueAreListed'
    <2>1. \/ UNCHANGED server /\ req[c] # Idle
          \/ server = "up" /\ UNCHANGED server
      BY <1>1 DEF Begin, Abandon, BeginCreate, BeginRestore, RequestMove
    <2>2. QED
      BY <2>1 DEF IInv, OneAtATime
  <1>2. ASSUME NEW t \in Threads, Proceed(t)
        PROVE  DueAreListed'
    <2>1. UNCHANGED server
      BY <1>2 DEF Proceed, CheckCompensation, InsertImpairment, InsertMeasure, MarkRestored,
                  ReadSystem, WriteSystem
    <2>2. ReadSystem(t) \/ WriteSystem(t)
      BY <1>2, <2>1, RecoveryGoesAlone
    <2>3. QED
      BY <2>2 DEF ReadSystem, WriteSystem, DueAreListed, Active
  <1>3. CASE StartRecovery
    BY <1>3 DEF StartRecovery, DueAreListed, Active
  <1>4. CASE RecoverImpairment
    <2>1. PICK i \in pastDue :
             /\ i \in DOMAIN impairments
             /\ pastDue' = pastDue \ {i}
             /\ DOMAIN impairments' = DOMAIN impairments
             /\ impairments'[i].status = "restored"
             /\ \A j \in DOMAIN impairments :
                   /\ impairments'[j].expected = impairments[j].expected
                   /\ j # i => impairments'[j].status = impairments[j].status
      BY <1>4, RecoverImpairmentFacts
    <2>2. UNCHANGED << server, recoveryNow >>
      BY <1>4 DEF RecoverImpairment
    <2>3. QED
      BY <2>1, <2>2 DEF DueAreListed, Active
  <1>5. CASE RecoveryFails \/ Serve \/ Crash \/ Stop
    BY <1>5 DEF RecoveryFails, Serve, Crash, Stop
  <1>6. CASE Tick \/ UNCHANGED vars
    BY <1>6 DEF Tick, vars, DueAreListed, Active
  <1>7. QED
    BY <1>1, <1>2, <1>3, <1>4, <1>5, <1>6 DEF Next, Recovery

\* A server that begins to serve comes from Serve, which finds nothing listed.
LEMMA ServingFollowsServe ==
    ASSUME IInv, [Next]_vars, server = "recovering", server' = "up"
    PROVE  Serve
  BY DEF Next, vars, Begin, BeginCreate, BeginRestore, RequestMove, Abandon, Proceed,
         CheckCompensation, InsertImpairment, InsertMeasure, MarkRestored, ReadSystem,
         WriteSystem, Recovery, StartRecovery, RecoverImpairment, RecoveryFails, Crash,
         Stop, Tick

\* However the process died, the recovery leaves no impairment active that was
\* due when it began: autoRestorePastDue marks every one it listed, and nobody
\* registers or restores one meanwhile.
THEOREM PastDueRestoredAtStartupHolds == Spec => PastDueRestoredAtStartup
  <1> DEFINE Restored == \A i \in DOMAIN impairments :
                            Active(i) => impairments[i].expected > recoveryNow
  <1>1. Init => DueAreListed
    BY DEF Init, DueAreListed
  <1>2. IInv /\ DueAreListed /\ [Next]_vars =>
            (server = "recovering" /\ server' = "up" => Restored)
    <2> SUFFICES ASSUME IInv, DueAreListed, [Next]_vars, server = "recovering", server' = "up",
                        NEW i \in DOMAIN impairments, Active(i)
                 PROVE  impairments[i].expected > recoveryNow
      OBVIOUS
    <2>1. pastDue = {}
      BY ServingFollowsServe DEF Serve
    <2>2. impairments[i].expected \in Nat /\ recoveryNow \in Nat
      BY RowsAreTyped DEF IInv, TypeOK
    <2>3. QED
      BY <2>1, <2>2 DEF DueAreListed
  <1>3. Spec => [](IInv /\ DueAreListed)
    BY <1>1, DueStep, IInvHolds, PTL DEF Spec
  <1>4. Spec => [][server = "recovering" /\ server' = "up" => Restored]_vars
    BY <1>2, <1>3, PTL DEF Spec
  <1>5. QED
    BY <1>4 DEF PastDueRestoredAtStartup

-----------------------------------------------------------------------------
(* Measures are written before the move *)

HasMeasure(s) ==
    \E i \in DOMAIN impairments : impairments[i].system = s /\ impairments[i].kinds # {}

\* A method that will still move its system to impaired, or is past the check of
\* a move from there to restored.
Backed(call) ==
    call.phase \in {"read", "write"} =>
        \A k \in DOMAIN call.moves :
            \/ call.moves[k] = "impaired"
            \/ call.phase = "write" /\ k = 1 /\ call.moves[k] = "restored"
            => HasMeasure(call.system)

\* What the state column, the event stream and the calls in flight may say of a
\* system that no measure was registered for.
MeasuresComeFirst ==
    /\ \A s \in Systems : state[s] # "in_service" => HasMeasure(s)
    /\ \A s \in Systems : latest[s].to # "in_service" => HasMeasure(s)
    /\ \A t \in Threads : Backed(req[t])

LEMMA MeasuresStay ==
    ASSUME IInv, RowsKept, NEW s, HasMeasure(s)
    PROVE  HasMeasure(s)'
  BY DEF RowsKept, HasMeasure

\* A step that leaves the states and the events alone.
LEMMA CallStaysBacked ==
    ASSUME IInv, MeasuresComeFirst, RowsKept, UNCHANGED << state, latest >>,
           NEW t \in Threads, \A u \in Threads \ {t} : req'[u] = req[u],
           Backed(req[t])'
    PROVE  MeasuresComeFirst'
  <1>1. ASSUME NEW s \in Systems, state'[s] # "in_service" \/ latest'[s].to # "in_service"
        PROVE  HasMeasure(s)'
    BY <1>1, MeasuresStay DEF MeasuresComeFirst
  <1>2. ASSUME NEW u \in Threads \ {t}
        PROVE  Backed(req[u])'
    BY MeasuresStay DEF MeasuresComeFirst, Backed
  <1>3. QED
    BY <1>1, <1>2 DEF MeasuresComeFirst

\* The call that Moves leaves behind.
LEMMA MovesAreBacked ==
    ASSUME IInv, NEW t \in Threads, NEW s \in Systems, NEW moves \in Seq(SystemStates),
           Moves(t, s, moves),
           \A k \in DOMAIN moves : moves[k] = "impaired" => HasMeasure(s)'
    PROVE  /\ \A u \in Threads \ {t} : req'[u] = req[u]
           /\ Backed(req[t])'
  <1>1. /\ \A u \in Threads \ {t} : req'[u] = req[u]
        /\ moves = << >> => req'[t] = Idle
        /\ moves # << >> => req'[t] = [phase |-> "read", system |-> s, moves |-> moves]
    BY MovesAreCalls DEF IInv, TypeOK
  <1>2. QED
    BY <1>1, IdleIsCall DEF Backed

\* One step lemma for the calls, whatever the step was.
LEMMA MeasuresBegin ==
    ASSUME "impaired" \notin ManualTargets, IInv, MeasuresComeFirst, RowsKept,
           NEW c \in Clients, Begin(c)
    PROVE  MeasuresComeFirst'
  <1>0. c \in Threads
    BY DEF Threads
  <1>1. ASSUME NEW s \in Systems, NEW kinds \in SUBSET Kinds, NEW started \in Starts,
               NEW expected \in Expectations, BeginCreate(c, s, kinds, started, expected)
        PROVE  MeasuresComeFirst'
    <2>1. /\ req'[c].phase = "compensate"
          /\ \A u \in Threads \ {c} : req'[u] = req[u]
      BY <1>0, <1>1 DEF BeginCreate, IInv, TypeOK
    <2>2. QED
      BY <1>0, <1>1, <2>1, CallStaysBacked DEF BeginCreate, Backed
  <1>2. ASSUME NEW i \in DOMAIN impairments, BeginRestore(c, i)
        PROVE  MeasuresComeFirst'
    <2>1. /\ req'[c].phase = "mark"
          /\ \A u \in Threads \ {c} : req'[u] = req[u]
      BY <1>0, <1>2 DEF BeginRestore, IInv, TypeOK
    <2>2. QED
      BY <1>0, <1>2, <2>1, CallStaysBacked DEF BeginRestore, Backed
  <1>3. ASSUME NEW s \in Systems, NEW to \in SystemStates, RequestMove(c, s, to)
        PROVE  MeasuresComeFirst'
    <2>1. /\ << to >> \in Seq(SystemStates)
          /\ \A k \in DOMAIN << to >> : << to >>[k] # "impaired"
      BY <1>3 DEF RequestMove
    <2>2. /\ Backed(req[c])'
          /\ \A u \in Threads \ {c} : req'[u] = req[u]
      BY <1>0, <1>3, <2>1, MovesAreBacked DEF RequestMove
    <2>3. QED
      BY <1>0, <1>3, <2>2, CallStaysBacked DEF RequestMove
  <1>4. QED
    BY <1>1, <1>2, <1>3 DEF Begin

LEMMA HeadAndTail ==
    ASSUME NEW moves \in Seq(SystemStates), moves # << >>
    PROVE  /\ 1 \in DOMAIN moves /\ Head(moves) = moves[1]
           /\ \A k \in DOMAIN Tail(moves) :
                 k + 1 \in DOMAIN moves /\ Tail(moves)[k] = moves[k + 1]
  OBVIOUS

\* A system in service is not moved to restored.
LEMMA RestoredComesFromImpaired == ~CanTransition("in_service", "restored")
  BY DEF CanTransition, legalTransitions

LEMMA MeasuresRead ==
    ASSUME IInv, MeasuresComeFirst, RowsKept, NEW t \in Threads, ReadSystem(t)
    PROVE  MeasuresComeFirst'
  <1>1. /\ req[t] \in [phase : {"read"}, system : Systems, moves : Seq(SystemStates)]
        /\ req[t].moves # << >>
    BY CallFields DEF ReadSystem, IInv, TypeOK, CallsAreSound, CallIsSound
  <1>2. PICK s \in Systems : s = req[t].system
    BY <1>1
  <1>3. PICK moves \in Seq(SystemStates) : moves = req[t].moves
    BY <1>1
  <1>4. \A k \in DOMAIN moves : moves[k] = "impaired" => HasMeasure(s)
    BY <1>1, <1>2, <1>3 DEF MeasuresComeFirst, Backed
  <1>5. Backed(req[t])' /\ \A u \in Threads \ {t} : req'[u] = req[u]
    <2>1. CASE Return(t)
      BY <2>1, ReturnIsIdle, IdleIsCall DEF IInv, TypeOK, Backed
    <2>2. CASE /\ CanTransition(state[s], Head(moves))
               /\ req' = [req EXCEPT ![t] = [phase |-> "write",
                                             system |-> s,
                                             moves |-> moves,
                                             since |-> clock]]
      <3>1. /\ req'[t] = [phase |-> "write", system |-> s, moves |-> moves, since |-> clock]
            /\ \A u \in Threads \ {t} : req'[u] = req[u]
        BY <2>2 DEF IInv, TypeOK
      <3>2. Head(moves) = "restored" => HasMeasure(s)
        BY <2>2, RestoredComesFromImpaired DEF MeasuresComeFirst
      <3>3. \A k \in DOMAIN moves :
               (moves[k] = "impaired" \/ (k = 1 /\ moves[k] = "restored")) => HasMeasure(s)
        BY <3>2, <1>1, <1>3, <1>4, HeadAndTail
      <3>4. \A k \in DOMAIN moves :
               (moves[k] = "impaired" \/ (k = 1 /\ moves[k] = "restored")) => HasMeasure(s)'
        BY <3>3, MeasuresStay
      <3>5. QED
        BY <3>1, <3>4 DEF Backed
    <2>3. QED
      BY <2>1, <2>2, <1>2, <1>3 DEF ReadSystem
  <1>6. QED
    BY <1>5, CallStaysBacked DEF ReadSystem

LEMMA MeasuresWrite ==
    ASSUME IInv, MeasuresComeFirst, RowsKept, NEW t \in Threads, WriteSystem(t)
    PROVE  MeasuresComeFirst'
  <1>1. PICK s \in Systems, moves \in Seq(SystemStates) :
           s = req[t].system /\ moves = req[t].moves
    BY WriteSystemFacts
  <1>2. /\ req[t].phase = "write"
        /\ moves # << >>
        /\ Head(moves) \in ServiceStates
        /\ Tail(moves) \in Seq(SystemStates)
        /\ state' = [state EXCEPT ![s] = Head(moves)]
        /\ Moves(t, s, Tail(moves))
    BY <1>1, WriteSystemFacts
  <1>3. \/ latest' = latest
        \/ \E epoch : latest' = [latest EXCEPT ![s] = [to |-> Head(moves), epoch |-> epoch]]
    BY <1>1, WriteSystemFacts
  <1>4. \A k \in DOMAIN moves :
           (moves[k] = "impaired" \/ (k = 1 /\ moves[k] = "restored")) => HasMeasure(s)
    BY <1>1, <1>2 DEF MeasuresComeFirst, Backed
  <1>5. Head(moves) # "in_service" => HasMeasure(s)'
    <2>1. Head(moves) # "in_service" => HasMeasure(s)
      BY <1>2, <1>4, HeadAndTail DEF ServiceStates
    <2>2. QED
      BY <2>1, MeasuresStay
  <1>6. /\ \A u \in Threads \ {t} : req'[u] = req[u]
        /\ Backed(req[t])'
    <2>1. \A k \in DOMAIN Tail(moves) : Tail(moves)[k] = "impaired" => HasMeasure(s)
      BY <1>2, <1>4, HeadAndTail
    <2>2. \A k \in DOMAIN Tail(moves) : Tail(moves)[k] = "impaired" => HasMeasure(s)'
      BY <2>1, MeasuresStay
    <2>3. QED
      BY <1>2, <2>2, MovesAreBacked
  <1>7. \A u \in Systems : state'[u] # "in_service" => HasMeasure(u)'
    BY <1>2, <1>5, MeasuresStay DEF MeasuresComeFirst, IInv, TypeOK
  <1>8. \A u \in Systems : latest'[u].to # "in_service" => HasMeasure(u)'
    <2>1. \A u \in Systems : latest'[u] = latest[u] \/ (u = s /\ latest'[u].to = Head(moves))
      BY <1>3 DEF IInv, TypeOK
    <2>2. QED
      BY <2>1, <1>5, MeasuresStay DEF MeasuresComeFirst
  <1>9. ASSUME NEW u \in Threads \ {t}
        PROVE  Backed(req[u])'
    BY <1>6, MeasuresStay DEF MeasuresComeFirst, Backed
  <1>10. QED
    BY <1>6, <1>7, <1>8, <1>9 DEF MeasuresComeFirst

\* The other steps of a call move no system.
LEMMA MeasuresProceed ==
    ASSUME IInv, MeasuresComeFirst, RowsKept, NEW t \in Threads, Proceed(t)
    PROVE  MeasuresComeFirst'
  <1>1. CASE CheckCompensation(t)
    <2>1. req'[t] = Idle \/ req'[t].phase = "insert"
      BY <1>1, CallFields DEF CheckCompensation, Return, IInv, TypeOK
    <2>2. \A u \in Threads \ {t} : req'[u] = req[u]
      BY <1>1 DEF CheckCompensation, Return, IInv, TypeOK
    <2>3. QED
      BY <1>1, <2>1, <2>2, IdleIsCall, CallStaysBacked DEF CheckCompensation, Backed
  <1>2. CASE InsertImpairment(t)
    <2>1. req'[t].phase = "measures" /\ \A u \in Threads \ {t} : req'[u] = req[u]
      BY <1>2 DEF InsertImpairment, IInv, TypeOK
    <2>2. QED
      BY <1>2, <2>1, CallStaysBacked DEF InsertImpairment, Backed
  <1>3. CASE InsertMeasure(t)
    <2>1. /\ req[t] \in [phase : {"measures"}, system : Systems, kinds : SUBSET Kinds,
                         id : Nat, inService : BOOLEAN]
          /\ DOMAIN impairments' = DOMAIN impairments
      BY <1>3, InsertMeasureFacts
    <2>2. PICK id \in DOMAIN impairments, s \in Systems, moves \in Seq(SystemStates) :
             /\ id = req[t].id /\ s = req[t].system
             /\ moves = IF req[t].inService THEN << "impaired" >> ELSE << >>
      BY <1>3, MovesOfMethods, InsertMeasureFacts
    <2>3. PICK k \in req[t].kinds :
             /\ impairments'[id].kinds = impairments[id].kinds \union {k}
             /\ \/ Moves(t, s, moves)
                \/ req' = [req EXCEPT ![t].kinds = @ \ {k}]
      BY <1>3, <2>2, InsertMeasureFacts
    <2>4. impairments'[id].system = s
      BY <1>3, <2>2, InsertMeasureFacts
    <2>5. HasMeasure(s)'
      BY <2>1, <2>3, <2>4 DEF HasMeasure
    <2>6. Backed(req[t])' /\ \A u \in Threads \ {t} : req'[u] = req[u]
      <3>1. CASE Moves(t, s, moves)
        BY <3>1, <2>5, MovesAreBacked
      <3>2. CASE req' = [req EXCEPT ![t].kinds = @ \ {k}]
        BY <3>2, <2>1, MeasureTaken DEF Backed, IInv, TypeOK
      <3>3. QED
        BY <2>3, <3>1, <3>2
    <2>7. QED
      BY <1>3, <2>6, CallStaysBacked DEF InsertMeasure
  <1>4. CASE MarkRestored(t)
    <2>1. /\ impairments[req[t].id].system \in Systems
          /\ Moves(t, impairments[req[t].id].system, << "restored", "in_service" >>)
      BY <1>4, MarkRestoredFacts
    <2>2. \A k \in DOMAIN << "restored", "in_service" >> :
             << "restored", "in_service" >>[k] # "impaired"
      OBVIOUS
    <2>3. Backed(req[t])' /\ \A u \in Threads \ {t} : req'[u] = req[u]
      BY <2>1, <2>2, MovesOfMethods, MovesAreBacked
    <2>4. QED
      BY <1>4, <2>3, CallStaysBacked DEF MarkRestored
  <1>5. QED
    BY <1>1, <1>2, <1>3, <1>4, MeasuresRead, MeasuresWrite DEF Proceed

LEMMA MeasuresRecover ==
    ASSUME IInv, MeasuresComeFirst, RowsKept, RecoverImpairment
    PROVE  MeasuresComeFirst'
  <1>1. PICK i \in pastDue :
           /\ impairments[i].system \in Systems
           /\ Moves(Main, impairments[i].system,
                    IF state[impairments[i].system] = "impaired"
                    THEN << "restored", "in_service" >> ELSE << >>)
    BY RecoverImpairmentFacts
  <1> DEFINE moves == IF state[impairments[i].system] = "impaired"
                      THEN << "restored", "in_service" >> ELSE << >>
  <1>2. moves \in Seq(SystemStates) /\ \A k \in DOMAIN moves : moves[k] # "impaired"
    BY MovesOfMethods
  <1>3. Moves(Main, impairments[i].system, moves)
    BY <1>1
  <1> HIDE DEF moves
  <1>4. Main \in Threads
    BY DEF Threads
  <1>5. Backed(req[Main])' /\ \A u \in Threads \ {Main} : req'[u] = req[u]
    BY <1>1, <1>2, <1>3, <1>4, MovesAreBacked
  <1>6. QED
    BY <1>4, <1>5, CallStaysBacked DEF RecoverImpairment

LEMMA MeasuresStep ==
    ASSUME "impaired" \notin ManualTargets
    PROVE  IInv /\ MeasuresComeFirst /\ [Next]_vars => MeasuresComeFirst'
  <1> SUFFICES ASSUME IInv, MeasuresComeFirst, [Next]_vars
               PROVE  MeasuresComeFirst'
    OBVIOUS
  <1>1. RowsKept
    BY IInvStep
  <1>2. ASSUME NEW t \in Threads, Return(t), UNCHANGED << state, latest >>
        PROVE  MeasuresComeFirst'
    BY <1>1, <1>2, ReturnIsIdle, IdleIsCall, CallStaysBacked DEF IInv, TypeOK, Backed
  <1>3. ASSUME NEW c \in Clients, Abandon(c)
        PROVE  MeasuresComeFirst'
    BY <1>2, <1>3 DEF Abandon, Threads
  <1>4. CASE RecoveryFails
    BY <1>2, <1>4 DEF RecoveryFails, Threads
  <1>5. CASE Crash
    <2>1. \A t \in Threads : Backed(req[t])'
      BY <1>5, IdleIsCall DEF Crash, Backed
    <2>2. QED
      BY <1>1, <1>5, <2>1, MeasuresStay DEF Crash, MeasuresComeFirst
  <1>6. CASE StartRecovery
    <2>1. \A s \in Systems : state'[s] = state[s] \/ state'[s] = latest[s].to
      BY <1>6 DEF StartRecovery, CorrectStatesFromEvents
    <2>2. QED
      BY <1>1, <1>6, <2>1, MeasuresStay DEF StartRecovery, MeasuresComeFirst, Backed
  <1>7. CASE Stop \/ Tick \/ Serve \/ UNCHANGED vars
    BY <1>1, <1>7, MeasuresStay DEF Stop, Tick, Serve, vars, MeasuresComeFirst, Backed
  <1>8. QED
    BY <1>1, <1>3, <1>4, <1>5, <1>6, <1>7, MeasuresBegin, MeasuresProceed, MeasuresRecover
    DEF Next, Recovery

\* A system that stands impaired, or restored after that, has an impairment with
\* a measure: the row and its measure are written before the move, what the
\* recovery takes from the event stream was moved there the same way, and no
\* crash or race takes the measure back.  Callers of the life-cycle request may
\* make any move but the one to impaired.
THEOREM ImpairedHasMeasureHolds ==
    ASSUME "impaired" \notin ManualTargets
    PROVE  Spec => []ImpairedHasMeasure
  <1>1. Init => MeasuresComeFirst
    BY IdleIsCall DEF Init, MeasuresComeFirst, Backed
  <1>2. MeasuresComeFirst => ImpairedHasMeasure
    BY DEF MeasuresComeFirst, HasMeasure, ImpairedHasMeasure
  <1>3. IInv /\ MeasuresComeFirst /\ [Next]_vars => MeasuresComeFirst'
    BY MeasuresStep
  <1>4. QED
    BY <1>1, <1>2, <1>3, IInvHolds, PTL DEF Spec

-----------------------------------------------------------------------------
(* Calls that are not cut short: every measure is written *)

\* A row that has no measure yet has a call that is still writing them.
MeasuresUnderWay ==
    \A i \in DOMAIN impairments :
        \/ impairments[i].kinds # {}
        \/ \E c \in Clients : req[c].phase = "measures" /\ req[c].id = i

\* What the steps that register no impairment and write no measure have in
\* common.  (Without MayFail a call that writes measures is not cut short.)
LEMMA OtherSteps ==
    ASSUME ~MayFail, IInv, [Next]_vars
    PROVE  \/ \E t \in Threads : InsertImpairment(t) \/ InsertMeasure(t)
           \/ /\ DOMAIN impairments' = DOMAIN impairments
              /\ \A i \in DOMAIN impairments :
                    /\ impairments'[i].system = impairments[i].system
                    /\ impairments'[i].kinds = impairments[i].kinds
                    /\ impairments'[i].status = "active" => Active(i)
              /\ \A t \in Threads :
                    /\ req[t].phase = "measures" \/ req'[t].phase = "measures" => req'[t] = req[t]
                    /\ req'[t].phase = "insert" =>
                          \/ req'[t] = req[t]
                          \/ /\ Compensated(req'[t].system, req'[t].kinds)
                             /\ UNCHANGED impairments
  <1> DEFINE Same(t) == /\ req[t].phase = "measures" \/ req'[t].phase = "measures" => req'[t] = req[t]
                        /\ req'[t].phase = "insert" =>
                              \/ req'[t] = req[t]
                              \/ /\ Compensated(req'[t].system, req'[t].kinds)
                                 /\ UNCHANGED impairments
             Goal == /\ DOMAIN impairments' = DOMAIN impairments
                     /\ \A i \in DOMAIN impairments :
                           /\ impairments'[i].system = impairments[i].system
                           /\ impairments'[i].kinds = impairments[i].kinds
                           /\ impairments'[i].status = "active" => Active(i)
                     /\ \A t \in Threads : Same(t)
  <1>1. ASSUME UNCHANGED impairments, NEW t \in Threads, Same(t),
               \A u \in Threads \ {t} : req'[u] = req[u]
        PROVE  Goal
    BY <1>1 DEF Active
  <1>2. ASSUME NEW t \in Threads, NEW s \in Systems, NEW moves \in Seq(SystemStates),
               Moves(t, s, moves), req[t].phase # "measures"
        PROVE  Same(t) /\ \A u \in Threads \ {t} : req'[u] = req[u]
    <2>1. /\ \A u \in Threads \ {t} : req'[u] = req[u]
          /\ moves = << >> => req'[t] = Idle
          /\ moves # << >> => req'[t] = [phase |-> "read", system |-> s, moves |-> moves]
      BY <1>2, MovesAreCalls DEF IInv, TypeOK
    <2>2. req'[t].phase \in {"idle", "read"}
      BY <2>1, IdleIsCall
    <2>3. QED
      BY <1>2, <2>1, <2>2
  <1>3. ASSUME NEW c \in Clients, Begin(c)
        PROVE  Goal
    <2>1. c \in Threads /\ req[c] = Idle /\ UNCHANGED impairments
      BY <1>3 DEF Threads, Begin, BeginCreate, BeginRestore, RequestMove
    <2>2. req'[c].phase \in {"compensate", "mark", "read"} /\ \A u \in Threads \ {c} : req'[u] = req[u]
      BY <1>3, <2>1 DEF Begin, BeginCreate, BeginRestore, RequestMove, Moves, IInv, TypeOK
    <2>3. QED
      BY <1>1, <2>1, <2>2, IdleIsCall
  <1>4. ASSUME NEW t \in Threads, CheckCompensation(t)
        PROVE  Goal
    <2>1. req[t] \in [phase : {"compensate", "insert"}, system : Systems, kinds : SUBSET Kinds,
                      started : Nat, expected : Nat, inService : BOOLEAN]
      BY <1>4, CallFields DEF CheckCompensation, IInv, TypeOK
    <2>2. \A u \in Threads \ {t} : req'[u] = req[u]
      BY <1>4 DEF CheckCompensation, Return, IInv, TypeOK
    <2>3. Same(t)
      <3>1. CASE Return(t)
        <4>1. req'[t].phase = "idle"
          BY <3>1, ReturnIsIdle, IdleIsCall DEF IInv, TypeOK
        <4>2. QED
          BY <1>4, <4>1 DEF CheckCompensation
      <3>2. CASE /\ Compensated(req[t].system, req[t].kinds)
                 /\ req' = [req EXCEPT ![t].phase = "insert"]
        <4>1. /\ req'[t].phase = "insert"
              /\ req'[t].system = req[t].system
              /\ req'[t].kinds = req[t].kinds
          BY <3>2, <2>1 DEF IInv, TypeOK
        <4>2. QED
          BY <1>4, <3>2, <4>1 DEF CheckCompensation
      <3>3. QED
        BY <1>4, <3>1, <3>2 DEF CheckCompensation
    <2>4. QED
      BY <1>1, <1>4, <2>2, <2>3 DEF CheckCompensation
  <1>5. ASSUME NEW t \in Threads, MarkRestored(t)
        PROVE  Goal
    <2>1. /\ impairments[req[t].id].system \in Systems
          /\ DOMAIN impairments' = DOMAIN impairments
          /\ req[t].id \in DOMAIN impairments
          /\ impairments'[req[t].id].status = "restored"
          /\ \A j \in DOMAIN impairments :
                /\ impairments'[j].system = impairments[j].system
                /\ impairments'[j].kinds = impairments[j].kinds
                /\ j # req[t].id => impairments'[j].status = impairments[j].status
          /\ Moves(t, impairments[req[t].id].system, << "restored", "in_service" >>)
      BY <1>5, MarkRestoredFacts
    <2>2. Same(t) /\ \A u \in Threads \ {t} : req'[u] = req[u]
      BY <1>2, <1>5, <2>1, MovesOfMethods DEF MarkRestored
    <2>3. \A u \in Threads : Same(u)
      <3>1. ASSUME NEW u \in Threads \ {t}
            PROVE  Same(u)
        BY <2>2, <3>1
      <3>2. QED
        BY <2>2, <3>1
    <2>4. QED
      BY <2>1, <2>3 DEF Active
  <1>6. ASSUME NEW t \in Threads, ReadSystem(t)
        PROVE  Goal
    BY <1>1, <1>6, IdleIsCall DEF ReadSystem, Return, IInv, TypeOK
  <1>7. ASSUME NEW t \in Threads, WriteSystem(t)
        PROVE  Goal
    <2>1. /\ req[t].phase = "write" /\ req[t].system \in Systems
          /\ Tail(req[t].moves) \in Seq(SystemStates)
          /\ Moves(t, req[t].system, Tail(req[t].moves))
      BY <1>7, WriteSystemFacts
    <2>2. Same(t) /\ \A u \in Threads \ {t} : req'[u] = req[u]
      BY <1>2, <2>1
    <2>3. QED
      BY <1>1, <1>7, <2>2 DEF WriteSystem
  <1>8. CASE RecoverImpairment
    <2>1. PICK i \in pastDue :
             /\ i \in DOMAIN impairments
             /\ impairments[i].system \in Systems
             /\ DOMAIN impairments' = DOMAIN impairments
             /\ impairments'[i].status = "restored"
             /\ \A j \in DOMAIN impairments :
                   /\ impairments'[j].system = impairments[j].system
                   /\ impairments'[j].kinds = impairments[j].kinds
                   /\ j # i => impairments'[j].status = impairments[j].status
             /\ Moves(Main, impairments[i].system,
                      IF state[impairments[i].system] = "impaired"
                      THEN << "restored", "in_service" >> ELSE << >>)
      BY <1>8, RecoverImpairmentFacts
    <2> DEFINE moves == IF state[impairments[i].system] = "impaired"
                        THEN << "restored", "in_service" >> ELSE << >>
    <2>2. moves \in Seq(SystemStates) /\ Moves(Main, impairments[i].system, moves)
      BY <2>1, MovesOfMethods
    <2>3. Main \in Threads /\ req[Main].phase # "measures"
      BY <1>8, IdleIsCall DEF Threads, RecoverImpairment
    <2> HIDE DEF moves
    <2>4. Same(Main) /\ \A u \in Threads \ {Main} : req'[u] = req[u]
      BY <1>2, <2>1, <2>2, <2>3
    <2>5. \A u \in Threads : Same(u)
      <3>1. ASSUME NEW u \in Threads \ {Main}
            PROVE  Same(u)
        BY <2>4, <3>1
      <3>2. QED
        BY <2>4, <3>1
    <2>6. QED
      BY <2>1, <2>5 DEF Active
  <1>9. CASE StartRecovery \/ Serve \/ Stop \/ Tick \/ UNCHANGED vars
    BY <1>9 DEF StartRecovery, Serve, Stop, Tick, vars, Active
  <1>10. QED
    BY <1>3, <1>4, <1>5, <1>6, <1>7, <1>8, <1>9
    DEF Next, Proceed, Recovery, Abandon, RecoveryFails, Crash

LEMMA UnderWayStep ==
    ASSUME ~MayFail
    PROVE  IInv /\ MeasuresUnderWay /\ [Next]_vars => MeasuresUnderWay'
  <1> SUFFICES ASSUME IInv, MeasuresUnderWay, [Next]_vars
               PROVE  MeasuresUnderWay'
    OBVIOUS
  <1>1. ASSUME NEW t \in Threads, InsertImpairment(t)
        PROVE  MeasuresUnderWay'
    <2>1. t \in Clients
      BY <1>1 DEF InsertImpairment, Threads, IInv, OneAtATime
    <2>2. DOMAIN impairments' = DOMAIN impairments \union {Len(impairments) + 1}
      BY <1>1 DEF InsertImpairment, IInv, TypeOK
    <2>3. \A i \in DOMAIN impairments : impairments'[i] = impairments[i]
      BY <1>1 DEF InsertImpairment, IInv, TypeOK
    <2>4. /\ req'[t].phase = "measures" /\ req'[t].id = Len(impairments) + 1
          /\ \A u \in Threads \ {t} : req'[u] = req[u]
          /\ req[t].phase # "measures"
      BY <1>1 DEF InsertImpairment, IInv, TypeOK
    <2>5. QED
      BY <2>1, <2>2, <2>3, <2>4 DEF MeasuresUnderWay, Threads
  <1>2. ASSUME NEW t \in Threads, InsertMeasure(t)
        PROVE  MeasuresUnderWay'
    <2>1. /\ DOMAIN impairments' = DOMAIN impairments
          /\ \A j \in DOMAIN impairments :
                j # req[t].id => impairments'[j].kinds = impairments[j].kinds
          /\ \E k : impairments'[req[t].id].kinds = impairments[req[t].id].kinds \union {k}
      BY <1>2, InsertMeasureFacts
    <2>2. \A u \in Threads \ {t} : req'[u] = req[u]
      BY <1>2 DEF InsertMeasure, Moves, IInv, TypeOK
    <2>3. QED
      BY <2>1, <2>2 DEF MeasuresUnderWay, Threads
  <1>3. CASE ~\E t \in Threads : InsertImpairment(t) \/ InsertMeasure(t)
    BY <1>3, OtherSteps DEF MeasuresUnderWay, Threads
  <1>4. QED
    BY <1>1, <1>2, <1>3

\* Unless a call is cut short, every registered impairment carries a measure as
\* soon as no call is in flight, however many callers race.
THEOREM EveryImpairmentMeasuredHolds ==
    ASSUME ~MayFail
    PROVE  Spec => []EveryImpairmentMeasured
  <1>1. Init => MeasuresUnderWay
    BY DEF Init, MeasuresUnderWay
  <1>2. MeasuresUnderWay => EveryImpairmentMeasured
    BY IdleIsCall DEF MeasuresUnderWay, EveryImpairmentMeasured, Quiet, Threads
  <1>3. IInv /\ MeasuresUnderWay /\ [Next]_vars => MeasuresUnderWay'
    BY UnderWayStep
  <1>4. QED
    BY <1>1, <1>2, <1>3, IInvHolds, PTL DEF Spec

-----------------------------------------------------------------------------
(* One caller, whose calls are not cut short: the compensation check *)

\* The measures a row will have when the call that writes them is through.
Promised(c, i) ==
    impairments[i].kinds \union
        (IF req[c].phase = "measures" /\ req[c].id = i THEN req[c].kinds ELSE {})

\* Of two adjacent active rows, one has or will have the fire watch; and what
\* the check of the call in flight has found is still so.
WatchIsPromised(c) ==
    /\ \A i, j \in DOMAIN impairments :
          Active(i) /\ Active(j) /\ impairments[i].system # impairments[j].system =>
              "manual_fire_watch" \in Promised(c, i) \union Promised(c, j)
    /\ req[c].phase = "insert" => Compensated(req[c].system, req[c].kinds)

LEMMA WatchStep ==
    ASSUME NEW c, Clients = {c}, ~MayFail
    PROVE  IInv /\ WatchIsPromised(c) /\ [Next]_vars => WatchIsPromised(c)'
  <1> SUFFICES ASSUME IInv, WatchIsPromised(c), [Next]_vars
               PROVE  WatchIsPromised(c)'
    OBVIOUS
  <1>1. ASSUME NEW t \in Threads, InsertImpairment(t)
        PROVE  WatchIsPromised(c)'
    <2>1. t = c
      BY <1>1 DEF InsertImpairment, Threads, IInv, OneAtATime
    <2> PICK new : new = Len(impairments) + 1
      OBVIOUS
    <2>2. /\ DOMAIN impairments' = DOMAIN impairments \union {new}
          /\ new \notin DOMAIN impairments
          /\ \A i \in DOMAIN impairments : impairments'[i] = impairments[i]
          /\ impairments'[new].system = req[c].system
          /\ impairments'[new].kinds = {}
      BY <1>1, <2>1 DEF InsertImpairment, IInv, TypeOK
    <2>3. /\ req'[c].phase = "measures" /\ req'[c].id = new
          /\ req'[c].kinds = req[c].kinds
          /\ req[c].phase = "insert"
      BY <1>1, <2>1 DEF InsertImpairment, IInv, TypeOK
    <2>4. Promised(c, new)' = req[c].kinds
      BY <2>2, <2>3 DEF Promised
    <2>5. \A i \in DOMAIN impairments :
             /\ Promised(c, i) = impairments[i].kinds
             /\ Promised(c, i)' = impairments[i].kinds
      BY <2>2, <2>3 DEF Promised
    <2>6. \A i \in DOMAIN impairments :
             Active(i) /\ impairments[i].system # req[c].system =>
                 "manual_fire_watch" \in Promised(c, i)' \union Promised(c, new)'
      BY <2>3, <2>4, <2>5 DEF WatchIsPromised, Compensated
    <2>7. \A i \in DOMAIN impairments : Active(i)' <=> Active(i)
      BY <2>2 DEF Active
    <2>8. ASSUME NEW i \in DOMAIN impairments', NEW j \in DOMAIN impairments',
                 Active(i)', Active(j)', impairments'[i].system # impairments'[j].system
          PROVE  "manual_fire_watch" \in Promised(c, i)' \union Promised(c, j)'
      <3>1. CASE i # new /\ j # new
        BY <2>2, <2>5, <2>7, <2>8, <3>1 DEF WatchIsPromised
      <3>2. CASE i = new \/ j = new
        <4>1. i # j
          BY <2>8
        <4>2. CASE i = new
          BY <2>2, <2>6, <2>7, <2>8, <4>1, <4>2
        <4>3. CASE j = new
          BY <2>2, <2>6, <2>7, <2>8, <4>1, <4>3
        <4>4. QED
          BY <3>2, <4>2, <4>3
      <3>3. QED
        BY <3>1, <3>2
    <2>9. QED
      BY <2>3, <2>8 DEF WatchIsPromised
  <1>2. ASSUME NEW t \in Threads, InsertMeasure(t)
        PROVE  WatchIsPromised(c)'
    <2>1. t = c
      BY <1>2, InsertMeasureFacts
    <2>2. PICK id \in DOMAIN impairments : id = req[c].id
      BY <1>2, <2>1, InsertMeasureFacts
    <2>3. /\ req[c] \in [phase : {"measures"}, system : Systems, kinds : SUBSET Kinds,
                         id : Nat, inService : BOOLEAN]
          /\ DOMAIN impairments' = DOMAIN impairments
          /\ \A j \in DOMAIN impairments :
                /\ impairments'[j].system = impairments[j].system
                /\ impairments'[j].status = impairments[j].status
                /\ j # id => impairments'[j].kinds = impairments[j].kinds
      BY <1>2, <2>1, <2>2, InsertMeasureFacts
    <2>4. PICK k \in req[c].kinds :
             /\ impairments'[id].kinds = impairments[id].kinds \union {k}
             /\ \/ /\ req[c].kinds = {k}
                   /\ Moves(c, req[c].system,
                            IF req[c].inService THEN << "impaired" >> ELSE << >>)
                \/ /\ req[c].kinds # {k}
                   /\ req' = [req EXCEPT ![c].kinds = @ \ {k}]
      BY <1>2, <2>1, <2>2, InsertMeasureFacts
    <2>5. /\ req'[c].phase # "insert"
          /\ \/ req'[c].phase # "measures" /\ req[c].kinds = {k}
             \/ /\ req'[c].phase = "measures" /\ req'[c].id = id
                /\ req'[c].kinds = req[c].kinds \ {k}
      <3>1. CASE /\ req[c].kinds = {k}
                 /\ Moves(c, req[c].system,
                          IF req[c].inService THEN << "impaired" >> ELSE << >>)
        <4>1. req'[c] = Idle \/ req'[c].phase = "read"
          BY <2>1, <3>1 DEF Moves, IInv, TypeOK
        <4>2. QED
          BY <3>1, <4>1, IdleIsCall
      <3>2. CASE req' = [req EXCEPT ![c].kinds = @ \ {k}]
        BY <2>1, <2>2, <2>3, <3>2, MeasureTaken DEF IInv, TypeOK
      <3>3. QED
        BY <2>4, <3>1, <3>2
    <2>6. \A j \in DOMAIN impairments : Promised(c, j)' = Promised(c, j)
      BY <2>2, <2>3, <2>4, <2>5 DEF Promised
    <2>7. QED
      BY <2>3, <2>5, <2>6 DEF WatchIsPromised, Active
  <1>3. CASE ~\E t \in Threads : InsertImpairment(t) \/ InsertMeasure(t)
    <2>1. /\ DOMAIN impairments' = DOMAIN impairments
          /\ \A i \in DOMAIN impairments :
                /\ impairments'[i].system = impairments[i].system
                /\ impairments'[i].kinds = impairments[i].kinds
                /\ Active(i)' => Active(i)
      BY <1>3, OtherSteps DEF Active
    <2>2. /\ req[c].phase = "measures" \/ req'[c].phase = "measures" => req'[c] = req[c]
          /\ req'[c].phase = "insert" =>
                \/ req'[c] = req[c]
                \/ /\ Compensated(req'[c].system, req'[c].kinds)
                   /\ UNCHANGED impairments
      BY <1>3, OtherSteps DEF Threads
    <2>3. \A i \in DOMAIN impairments : Promised(c, i)' = Promised(c, i)
      BY <2>1, <2>2 DEF Promised
    <2>4. ASSUME req'[c].phase = "insert"
          PROVE  Compensated(req[c].system, req[c].kinds)'
      <3>1. Compensated(req'[c].system, req'[c].kinds)
        BY <2>2, <2>4 DEF WatchIsPromised
      <3>2. QED
        BY <2>1, <3>1 DEF Compensated
    <2>5. QED
      BY <2>1, <2>3, <2>4 DEF WatchIsPromised
  <1>4. QED
    BY <1>1, <1>2, <1>3

\* When one caller has requests handled one after the other, the cross-system
\* check of CreateImpairment keeps its promise: of two adjacent systems with
\* active impairments, one has a manual fire watch, and restoring, moving or
\* recovering in between changes nothing in that.
THEOREM AdjacentWatchHolds ==
    ASSUME NEW c, Clients = {c}, ~MayFail
    PROVE  Spec => []AdjacentWatch
  <1>1. Init => WatchIsPromised(c)
    BY IdleIsCall DEF Init, WatchIsPromised, Threads
  <1>2. WatchIsPromised(c) => AdjacentWatch
    BY IdleIsCall DEF WatchIsPromised, Promised, AdjacentWatch, Quiet, Threads
  <1>3. IInv /\ WatchIsPromised(c) /\ [Next]_vars => WatchIsPromised(c)'
    BY WatchStep
  <1>4. QED
    BY <1>1, <1>2, <1>3, IInvHolds, PTL DEF Spec

-----------------------------------------------------------------------------
(* One caller, whose calls are not cut short: states between the calls *)

ActiveIn(s) == \E i \in DOMAIN impairments : impairments[i].system = s /\ Active(i)

\* The thread's call is moving the system and has these moves left to make.
Heading(t, s, moves) ==
    req[t].phase \in {"read", "write"} /\ req[t].system = s /\ req[t].moves = moves

\* Nobody else has a call in flight.
Alone(t) == \A u \in Threads \ {t} : req[u] = Idle

\* What the call in flight, if there is one, still has to put right, and what
\* it may count on; and that the event stream agrees with the state.
ServiceIsKept(t) ==
    /\ req[t].phase \in {"read", "write"} =>
           req[t].moves \in {<< "impaired" >>, << "restored", "in_service" >>, << "in_service" >>}
    /\ req[t].phase = "measures" => Active(req[t].id)
    /\ req[t].phase = "write" =>
           latest[req[t].system].epoch <= req[t].since /\ req[t].since <= clock
    /\ \A s \in Systems :
          /\ state[s] = "restored" => Heading(t, s, << "in_service" >>)
          /\ state[s] = "impaired" =>
                ActiveIn(s) \/ Heading(t, s, << "restored", "in_service" >>)
          /\ Heading(t, s, << "impaired" >>) => ActiveIn(s)
          /\ latest[s].to = state[s]
          /\ latest[s].epoch <= clock

\* Between the calls it does not matter whose turn is next.
ServiceInv == \A t \in Threads : Alone(t) => ServiceIsKept(t)

LEMMA MovesDiffer ==
    /\ << "impaired" >> # << "restored", "in_service" >>
    /\ << "impaired" >> # << "in_service" >>
    /\ << "restored", "in_service" >> # << "in_service" >>
    /\ Head(<< "impaired" >>) = "impaired" /\ Tail(<< "impaired" >>) = << >>
    /\ Head(<< "in_service" >>) = "in_service" /\ Tail(<< "in_service" >>) = << >>
    /\ Head(<< "restored", "in_service" >>) = "restored"
    /\ Tail(<< "restored", "in_service" >>) = << "in_service" >>
    /\ << "in_service" >> # << >>
    /\ << "restored", "in_service" >> # << >>
    /\ << "impaired" >> # << >>
  OBVIOUS

\* With one caller there is one call in flight at a time.
LEMMA CallsAreAlone ==
    ASSUME NEW c, Clients = {c}, IInv, NEW t \in Threads,
           req[t] # Idle \/ (t \in Clients /\ server = "up") \/ (t = Main /\ Recovering)
    PROVE  Alone(t)
  BY ThreadsAssumption DEF IInv, OneAtATime, Alone, Threads, Recovering

\* After a step of one call it is enough to look at that call.
LEMMA ServiceOfOne ==
    ASSUME NEW t \in Threads, \A u \in Threads \ {t} : req'[u] = Idle, ServiceIsKept(t)'
    PROVE  ServiceInv'
  <1> SUFFICES ASSUME NEW u \in Threads, Alone(u)'
               PROVE  ServiceIsKept(u)'
    BY DEF ServiceInv
  <1>1. CASE u = t
    BY <1>1
  <1>2. CASE u # t
    <2>1. req'[t] = Idle /\ req'[u] = Idle
      BY <1>2 DEF Alone
    <2>2. QED
      BY <2>1 DEF ServiceIsKept, Heading
  <1>3. QED
    BY <1>1, <1>2

\* A step of a call that moves no system, before or after.
LEMMA NotMoving ==
    ASSUME NEW t \in Threads, ServiceIsKept(t), UNCHANGED << state, latest, clock >>,
           req[t].phase \notin {"read", "write"}, req'[t].phase \notin {"read", "write"},
           \A s \in Systems : ActiveIn(s) => ActiveIn(s)',
           req'[t].phase = "measures" => Active(req[t].id)'
    PROVE  ServiceIsKept(t)'
  BY DEF ServiceIsKept, Heading

\* One caller, whose calls are not cut short and who leaves the moves to the
\* impairment methods.
OneCaller(c) == Clients = {c} /\ ~MayFail /\ ManualTargets = {}

LEMMA ServiceBegin ==
    ASSUME NEW c, OneCaller(c), IInv, ServiceInv, Begin(c)
    PROVE  ServiceInv'
  <1>1. c \in Threads /\ c \in Clients /\ req[c] = Idle /\ server = "up"
    BY DEF OneCaller, Threads, Begin, BeginCreate, BeginRestore, RequestMove
  <1>2. Alone(c)
    BY <1>1, CallsAreAlone DEF OneCaller
  <1>3. /\ UNCHANGED << state, latest, clock, impairments >>
        /\ req'[c].phase \in {"compensate", "mark"}
        /\ \A u \in Threads \ {c} : req'[u] = req[u]
    BY <1>1 DEF OneCaller, Begin, BeginCreate, BeginRestore, RequestMove, IInv, TypeOK
  <1>4. ServiceIsKept(c)'
    <2>1. \A s \in Systems : ActiveIn(s) => ActiveIn(s)'
      BY <1>3 DEF ActiveIn, Active
    <2>2. QED
      BY <1>1, <1>2, <1>3, <2>1, IdleIsCall, NotMoving DEF ServiceInv
  <1>5. QED
    BY <1>1, <1>2, <1>3, <1>4, ServiceOfOne DEF Alone

\* Rows that stay active keep their systems covered.
LEMMA ActiveInStays ==
    ASSUME NEW s, \A i \in DOMAIN impairments :
               impairments[i].system = s =>
                   /\ i \in DOMAIN impairments'
                   /\ impairments'[i].system = impairments[i].system
                   /\ impairments'[i].status = impairments[i].status,
           ActiveIn(s)
    PROVE  ActiveIn(s)'
  BY DEF ActiveIn, Active

LEMMA ServiceCreate ==
    ASSUME NEW c, OneCaller(c), IInv, NEW t \in Threads, ServiceIsKept(t),
           CheckCompensation(t) \/ InsertImpairment(t) \/ InsertMeasure(t)
    PROVE  /\ ServiceIsKept(t)'
           /\ \A u \in Threads \ {t} : req'[u] = req[u]
  <1>1. CASE CheckCompensation(t)
    <2>1. \A s \in Systems : ActiveIn(s) => ActiveIn(s)'
      BY <1>1 DEF CheckCompensation, ActiveIn, Active
    <2>2. req'[t].phase \in {"idle", "insert"} /\ \A u \in Threads \ {t} : req'[u] = req[u]
      BY <1>1, CallFields, IdleIsCall DEF CheckCompensation, Return, IInv, TypeOK
    <2>3. QED
      BY <1>1, <2>1, <2>2, NotMoving DEF CheckCompensation
  <1>2. CASE InsertImpairment(t)
    <2>1. \A i \in DOMAIN impairments :
             i \in DOMAIN impairments' /\ impairments'[i] = impairments[i]
      BY <1>2 DEF InsertImpairment, IInv, TypeOK
    <2>2. \A s \in Systems : ActiveIn(s) => ActiveIn(s)'
      BY <2>1, ActiveInStays
    <2>3. /\ req'[t].phase = "measures" /\ req'[t].id = Len(impairments) + 1
          /\ \A u \in Threads \ {t} : req'[u] = req[u]
      BY <1>2 DEF InsertImpairment, IInv, TypeOK
    <2>4. Active(req[t].id)'
      BY <1>2, <2>3 DEF InsertImpairment, IInv, TypeOK, Active
    <2>5. QED
      BY <1>2, <2>2, <2>3, <2>4, NotMoving DEF InsertImpairment
  <1>3. CASE InsertMeasure(t)
    <2>1. PICK id \in DOMAIN impairments, s \in Systems :
             id = req[t].id /\ s = req[t].system
      BY <1>3, InsertMeasureFacts
    <2>2. /\ req[t] \in [phase : {"measures"}, system : Systems, kinds : SUBSET Kinds,
                         id : Nat, inService : BOOLEAN]
          /\ impairments[id].system = s
          /\ DOMAIN impairments' = DOMAIN impairments
          /\ \A j \in DOMAIN impairments :
                /\ impairments'[j].system = impairments[j].system
                /\ impairments'[j].status = impairments[j].status
      BY <1>3, <2>1, InsertMeasureFacts
    <2>3. \A u \in Systems : ActiveIn(u) => ActiveIn(u)'
      BY <2>2, ActiveInStays
    <2>4. Active(id) /\ Active(id)' /\ ActiveIn(s)'
      BY <1>3, <2>1, <2>2 DEF InsertMeasure, ServiceIsKept, Active, ActiveIn
    <2>5. PICK k \in req[t].kinds :
             \/ Moves(t, s, IF req[t].inService THEN << "impaired" >> ELSE << >>)
             \/ req' = [req EXCEPT ![t].kinds = @ \ {k}]
      BY <1>3, <2>1, InsertMeasureFacts
    <2>6. UNCHANGED << state, latest, clock >> /\ req[t].phase = "measures"
      BY <1>3 DEF InsertMeasure
    <2>7. CASE req' = [req EXCEPT ![t].kinds = @ \ {k}]
      <3>1. /\ req'[t].phase = "measures" /\ req'[t].id = id
            /\ \A u \in Threads \ {t} : req'[u] = req[u]
        BY <2>1, <2>2, <2>7, MeasureTaken DEF IInv, TypeOK
      <3>2. QED
        BY <2>3, <2>4, <2>6, <3>1, NotMoving
    <2>8. CASE Moves(t, s, << >>)
      <3>1. req'[t] = Idle /\ \A u \in Threads \ {t} : req'[u] = req[u]
        BY <2>8 DEF Moves, IInv, TypeOK
      <3>2. QED
        BY <2>3, <2>6, <3>1, IdleIsCall, NotMoving
    <2>9. CASE Moves(t, s, << "impaired" >>)
      <3>1. /\ req'[t].phase = "read" /\ req'[t].system = s /\ req'[t].moves = << "impaired" >>
            /\ \A u \in Threads \ {t} : req'[u] = req[u]
        BY <2>9, MovesDiffer DEF Moves, IInv, TypeOK
      <3>2. QED
        BY <2>3, <2>4, <2>6, <3>1, MovesDiffer DEF ServiceIsKept, Heading
    <2>10. QED
      BY <2>5, <2>7, <2>8, <2>9
  <1>4. QED
    BY <1>1, <1>2, <1>3

\* RestoreImpairment and the recovery mark a row and head for its system.
LEMMA ServiceRestore ==
    ASSUME IInv, NEW t \in Threads, ServiceIsKept(t), req[t].phase \notin {"read", "write"},
           NEW i \in DOMAIN impairments, NEW s \in Systems, s = impairments[i].system,
           NEW moves \in {<< "restored", "in_service" >>, << >>}, Moves(t, s, moves),
           state[s] = "impaired" => moves # << >>,
           UNCHANGED << state, latest, clock >>,
           DOMAIN impairments' = DOMAIN impairments,
           \A j \in DOMAIN impairments :
                 /\ impairments'[j].system = impairments[j].system
                 /\ j # i => impairments'[j].status = impairments[j].status
    PROVE  /\ ServiceIsKept(t)'
           /\ \A u \in Threads \ {t} : req'[u] = req[u]
  <1>1. \A u \in Systems \ {s} : ActiveIn(u) => ActiveIn(u)'
    BY ActiveInStays
  <1>2. /\ \A u \in Threads \ {t} : req'[u] = req[u]
        /\ moves = << >> => req'[t].phase = "idle"
        /\ moves # << >> => /\ req'[t].phase = "read"
                            /\ req'[t].system = s
                            /\ req'[t].moves = moves
    BY IdleIsCall DEF Moves, IInv, TypeOK
  <1>3. QED
    BY <1>1, <1>2, MovesDiffer DEF ServiceIsKept, Heading

LEMMA ServiceRead ==
    ASSUME IInv, NEW t \in Threads, ServiceIsKept(t), ReadSystem(t)
    PROVE  /\ ServiceIsKept(t)'
           /\ \A u \in Threads \ {t} : req'[u] = req[u]
  <1>1. /\ req[t] \in [phase : {"read"}, system : Systems, moves : Seq(SystemStates)]
        /\ UNCHANGED << state, latest, clock, impairments >>
        /\ req[t].phase = "read"
    BY CallFields DEF ReadSystem, IInv, TypeOK
  <1>2. \A u \in Systems : ActiveIn(u)' <=> ActiveIn(u)
    BY <1>1 DEF ActiveIn, Active
  <1>3. PICK s \in Systems, moves \in Seq(SystemStates) :
           s = req[t].system /\ moves = req[t].moves
    BY <1>1
  <1>4. CASE ~CanTransition(state[s], Head(moves)) /\ Return(t)
    <2>1. req'[t].phase = "idle" /\ \A u \in Threads \ {t} : req'[u] = req[u]
      BY <1>4, ReturnIsIdle, IdleIsCall DEF IInv, TypeOK
    <2>2. CanTransition("restored", "in_service") /\ CanTransition("impaired", "restored")
      BY DEF CanTransition, legalTransitions
    <2>3. /\ moves = << "in_service" >> => state[s] # "restored"
          /\ moves = << "restored", "in_service" >> => state[s] # "impaired"
      BY <1>4, <2>2, MovesDiffer
    <2>4. QED
      BY <1>1, <1>2, <1>3, <2>1, <2>3 DEF ServiceIsKept, Heading
  <1>5. CASE req' = [req EXCEPT ![t] = [phase |-> "write", system |-> s,
                                        moves |-> moves, since |-> clock]]
    <2>1. /\ req'[t] = [phase |-> "write", system |-> s, moves |-> moves, since |-> clock]
          /\ \A u \in Threads \ {t} : req'[u] = req[u]
      BY <1>5 DEF IInv, TypeOK
    <2>2. clock \in Nat /\ latest[s].epoch <= clock
      BY DEF IInv, TypeOK, ServiceIsKept
    <2>3. QED
      BY <1>1, <1>2, <1>3, <2>1, <2>2 DEF ServiceIsKept, Heading
  <1>6. QED
    BY <1>3, <1>4, <1>5 DEF ReadSystem

LEMMA ServiceWrite ==
    ASSUME IInv, NEW t \in Threads, ServiceIsKept(t), WriteSystem(t)
    PROVE  /\ ServiceIsKept(t)'
           /\ \A u \in Threads \ {t} : req'[u] = req[u]
  <1>1. PICK s \in Systems, moves \in Seq(SystemStates), since \in Nat :
           s = req[t].system /\ moves = req[t].moves /\ since = req[t].since
    BY WriteSystemFacts
  <1>2. /\ req[t].phase = "write"
        /\ moves \in {<< "impaired" >>, << "restored", "in_service" >>, << "in_service" >>}
        /\ latest[s].epoch <= since /\ since <= clock
    BY <1>1 DEF ServiceIsKept, WriteSystem
  <1>3. PICK epoch \in since..clock :
           latest' = IF After(s, epoch)
                     THEN [latest EXCEPT ![s] = [to |-> Head(moves), epoch |-> epoch]]
                     ELSE latest
    BY <1>1, WriteSystemFacts
  <1>4. epoch \in Nat /\ epoch <= clock /\ After(s, epoch)
    BY <1>2, <1>3 DEF After, IInv, TypeOK
  <1>5. /\ latest' = [latest EXCEPT ![s] = [to |-> Head(moves), epoch |-> epoch]]
        /\ state' = [state EXCEPT ![s] = Head(moves)]
        /\ UNCHANGED << impairments, clock >>
        /\ Moves(t, s, Tail(moves))
    BY <1>1, <1>3, <1>4 DEF WriteSystem
  <1>6. \A u \in Systems : /\ latest'[u].to = state'[u]
                           /\ latest'[u].epoch <= clock'
                           /\ u # s => state'[u] = state[u]
                           /\ u = s => state'[u] = Head(moves)
    BY <1>4, <1>5 DEF ServiceIsKept, IInv, TypeOK
  <1>7. \A u \in Systems : ActiveIn(u)' <=> ActiveIn(u)
    BY <1>5 DEF ActiveIn, Active
  <1>8. /\ \A u \in Threads \ {t} : req'[u] = req[u]
        /\ Tail(moves) = << >> => req'[t].phase = "idle"
        /\ Tail(moves) # << >> => /\ req'[t].phase = "read"
                                  /\ req'[t].system = s
                                  /\ req'[t].moves = Tail(moves)
    BY <1>5, IdleIsCall DEF Moves, IInv, TypeOK
  <1>9. \A u \in Systems :
           /\ state[u] = "restored" => u = s
           /\ state[u] = "impaired" /\ u # s => ActiveIn(u)
           /\ u = s /\ moves = << "impaired" >> => ActiveIn(u)
    BY <1>1, <1>2 DEF ServiceIsKept, Heading
  <1>10. CASE moves = << "impaired" >>
    BY <1>6, <1>7, <1>8, <1>9, <1>10, MovesDiffer DEF ServiceIsKept, Heading
  <1>11. CASE moves = << "restored", "in_service" >>
    BY <1>6, <1>7, <1>8, <1>9, <1>11, MovesDiffer DEF ServiceIsKept, Heading
  <1>12. CASE moves = << "in_service" >>
    BY <1>6, <1>7, <1>8, <1>9, <1>12, MovesDiffer DEF ServiceIsKept, Heading
  <1>13. QED
    BY <1>2, <1>10, <1>11, <1>12, <1>8

\* With the states in step with the events, a start changes no state.
LEMMA StartChangesNothing ==
    ASSUME ~MayFail, IInv, NEW t, ServiceIsKept(t), StartRecovery
    PROVE  UNCHANGED state
  BY DEF ServiceIsKept, StartRecovery, CorrectStatesFromEvents, IInv, TypeOK

LEMMA ServiceStep ==
    ASSUME NEW c, OneCaller(c)
    PROVE  IInv /\ ServiceInv /\ [Next]_vars => ServiceInv'
  <1> SUFFICES ASSUME IInv, ServiceInv, [Next]_vars
               PROVE  ServiceInv'
    OBVIOUS
  <1>1. ASSUME NEW t \in Threads, Proceed(t)
        PROVE  ServiceInv'
    <2>1. req[t] # Idle
      BY <1>1, IdleIsCall DEF Proceed, CheckCompensation, InsertImpairment, InsertMeasure,
                              MarkRestored, ReadSystem, WriteSystem
    <2>2. Alone(t) /\ ServiceIsKept(t)
      BY <2>1, CallsAreAlone DEF OneCaller, ServiceInv
    <2>3. ASSUME MarkRestored(t)
          PROVE  ServiceIsKept(t)' /\ \A u \in Threads \ {t} : req'[u] = req[u]
      <3>1. PICK i \in DOMAIN impairments, s \in Systems :
               i = req[t].id /\ s = impairments[i].system
        BY <2>3, MarkRestoredFacts
      <3>2. /\ DOMAIN impairments' = DOMAIN impairments
            /\ \A j \in DOMAIN impairments :
                  /\ impairments'[j].system = impairments[j].system
                  /\ j # i => impairments'[j].status = impairments[j].status
            /\ Moves(t, s, << "restored", "in_service" >>)
        BY <2>3, <3>1, MarkRestoredFacts
      <3>3. QED
        BY <2>2, <2>3, <3>1, <3>2, MovesDiffer, ServiceRestore DEF MarkRestored
    <2>4. ServiceIsKept(t)' /\ \A u \in Threads \ {t} : req'[u] = req[u]
      BY <1>1, <2>2, <2>3, ServiceCreate, ServiceRead, ServiceWrite DEF Proceed
    <2>5. QED
      BY <2>2, <2>4, ServiceOfOne DEF Alone
  <1>2. CASE RecoverImpairment
    <2>1. Main \in Threads /\ req[Main] = Idle /\ Recovering
      BY <1>2 DEF Threads, RecoverImpairment
    <2>2. Alone(Main) /\ ServiceIsKept(Main)
      BY <2>1, CallsAreAlone DEF OneCaller, ServiceInv
    <2>3. PICK i \in pastDue :
             /\ i \in DOMAIN impairments
             /\ impairments[i].system \in Systems
             /\ DOMAIN impairments' = DOMAIN impairments
             /\ \A j \in DOMAIN impairments :
                   /\ impairments'[j].system = impairments[j].system
                   /\ j # i => impairments'[j].status = impairments[j].status
             /\ Moves(Main, impairments[i].system,
                      IF state[impairments[i].system] = "impaired"
                      THEN << "restored", "in_service" >> ELSE << >>)
      BY <1>2, RecoverImpairmentFacts
    <2>4. PICK s \in Systems : s = impairments[i].system
      BY <2>3
    <2>5. PICK moves \in {<< "restored", "in_service" >>, << >>} :
             /\ Moves(Main, s, moves)
             /\ state[s] = "impaired" => moves # << >>
      BY <2>3, <2>4, MovesDiffer
    <2>6. UNCHANGED << state, latest, clock >>
      BY <1>2 DEF RecoverImpairment
    <2>7. ServiceIsKept(Main)' /\ \A u \in Threads \ {Main} : req'[u] = req[u]
      BY <2>1, <2>2, <2>3, <2>4, <2>5, <2>6, IdleIsCall, ServiceRestore
    <2>8. QED
      BY <2>1, <2>2, <2>7, ServiceOfOne DEF Alone
  <1>3. CASE StartRecovery
    <2>1. Alone(Main) /\ ServiceIsKept(Main) /\ Main \in Threads
      BY <1>3 DEF StartRecovery, IInv, OneAtATime, Threads, Alone, ServiceInv
    <2>2. UNCHANGED << state, latest, clock, impairments, req >>
      BY <1>3, <2>1, StartChangesNothing DEF OneCaller, StartRecovery
    <2>3. QED
      BY <2>2 DEF ServiceInv, Alone, ServiceIsKept, Heading, ActiveIn, Active
  <1>4. CASE Tick
    <2>1. \A n \in Nat : n <= clock => n <= clock'
      BY <1>4 DEF Tick, IInv, TypeOK
    <2>2. \A s \in Systems : latest[s].epoch \in Nat
      BY DEF IInv, TypeOK
    <2>3. \A t \in Threads : req[t].phase = "write" => req[t].since \in Nat
      BY CallFields DEF IInv, TypeOK
    <2>4. QED
      BY <1>4, <2>1, <2>2, <2>3
      DEF Tick, ServiceInv, Alone, ServiceIsKept, Heading, ActiveIn, Active
  <1>5. CASE Serve \/ Stop \/ UNCHANGED vars
    BY <1>5 DEF Serve, Stop, vars, ServiceInv, Alone, ServiceIsKept, Heading, ActiveIn, Active
  <1>6. QED
    BY <1>1, <1>2, <1>3, <1>4, <1>5, ServiceBegin
    DEF OneCaller, Next, Recovery, Abandon, RecoveryFails, Crash

\* When one caller has requests handled one after the other and none is cut
\* short, a system that is out of service between them has an active impairment,
\* and none is left halfway, in restored: RestoreImpairment and the recovery
\* mark the record before they move the system, and always make both moves.
THEOREM OutOfServiceIsActiveHolds ==
    ASSUME NEW c, OneCaller(c)
    PROVE  Spec => []OutOfServiceIsActive
  <1>1. Init => ServiceInv
    BY IdleIsCall DEF Init, ServiceInv, ServiceIsKept, Heading
  <1>2. ServiceInv => OutOfServiceIsActive
    <2> SUFFICES ASSUME ServiceInv, Quiet
                 PROVE  \A s \in Systems : /\ state[s] # "restored"
                                           /\ state[s] = "impaired" => ActiveIn(s)
      BY DEF OutOfServiceIsActive, ActiveIn
    <2>1. ServiceIsKept(Main) /\ req[Main] = Idle
      BY DEF ServiceInv, Quiet, Threads, Alone
    <2>2. QED
      BY <2>1, IdleIsCall DEF ServiceIsKept, Heading
  <1>3. IInv /\ ServiceInv /\ [Next]_vars => ServiceInv'
    BY ServiceStep
  <1>4. QED
    BY <1>1, <1>2, <1>3, IInvHolds, PTL DEF Spec

\* With one caller whose calls run to their end, the event that a stream lists
\* last is the one written last, even within one second: a restart between
\* calls takes every system to the state it had.
THEOREM RestartKeepsStatesHolds ==
    ASSUME NEW c, OneCaller(c)
    PROVE  Spec => RestartKeepsStates
  <1>1. Init => ServiceInv
    BY IdleIsCall DEF Init, ServiceInv, ServiceIsKept, Heading
  <1>2. IInv /\ ServiceInv /\ [Next]_vars => ServiceInv'
    BY ServiceStep
  <1>3. IInv /\ ServiceInv /\ [Next]_vars =>
            (server = "down" /\ server' # "down" => state' = state)
    <2> SUFFICES ASSUME IInv, ServiceInv, [Next]_vars, server = "down", server' # "down"
                 PROVE  state' = state
      OBVIOUS
    <2>1. StartRecovery
      BY DEF Next, vars, Begin, BeginCreate, BeginRestore, RequestMove, Abandon, Proceed,
             CheckCompensation, InsertImpairment, InsertMeasure, MarkRestored, ReadSystem,
             WriteSystem, Recovery, RecoverImpairment, RecoveryFails, Recovering, Serve,
             Crash, Stop, Tick
    <2>2. Alone(Main) /\ ServiceIsKept(Main)
      BY DEF IInv, OneAtATime, Threads, Alone, ServiceInv
    <2>3. QED
      BY <2>1, <2>2, StartChangesNothing DEF OneCaller
  <1>4. Spec => []ServiceInv
    BY <1>1, <1>2, IInvHolds, PTL DEF Spec
  <1>5. Spec => [][server = "down" /\ server' # "down" => state' = state]_vars
    BY <1>3, <1>4, IInvHolds, PTL DEF Spec
  <1>6. QED
    BY <1>5 DEF RestartKeepsStates

=============================================================================
