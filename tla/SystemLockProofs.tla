-------------------------- MODULE SystemLockProofs --------------------------
(***************************************************************************)
(* What holds of the locks for any number of callers and systems: every    *)
(* variable has its type, the locks are taken in an order that lets no     *)
(* circle of waiting callers arise, and the mutexes that systemLock hands  *)
(* out implement one mutex per system.                                     *)
(***************************************************************************)
EXTENDS SystemLock, SequenceTheorems, TLAPS

\* The lock of the map is held from LockMap to UnlockMap.
MapLocked ==
    \A c \in Callers : mapLock = c <=> req[c].step \in {"lookup", "insert", "unmap"}

\* The connection is held by a statement and by a transaction.
Connected ==
    \A c \in Callers : conn = c <=> req[c].step \in {"statement", "commit"}

Holding(c) ==
    /\ req[c].step \in {"connect", "statement", "commit", "unlock"}
    /\ req[c].method # "edit"

\* Whoever has looked its mutex up has the one the map holds, and it inserts
\* one only where there is none; an edit looks none up.
MutexFound ==
    \A c \in Callers : req[c] \in InFlight =>
        /\ req[c].step \in {"map", "lookup", "insert", "unmap", "mutex"} =>
              req[c].method # "edit"
        /\ req[c].step = "insert" => mutexOf[req[c].system] = None
        /\ req[c].step \in {"unmap", "mutex"} \/ Holding(c) =>
              /\ req[c].mine = mutexOf[req[c].system]
              /\ req[c].mine # None

\* A mutex is held by those who run, and each of them holds the one it found.
MutexHeld ==
    \A c \in Callers, m \in DOMAIN holder :
        holder[m] = c <=> Holding(c) /\ req[c].mine = m

\* A call that is not over has a database call left to make.
PlanLeft ==
    \A c \in Callers : req[c] \in InFlight /\ req[c].step # "unlock" => req[c].plan # << >>

IInv == TypeOK /\ MapLocked /\ Connected /\ MutexFound /\ MutexHeld /\ PlanLeft

-----------------------------------------------------------------------------
(* The calls in flight *)

LEMMA PlanIsTyped ==
    \A method \in DOMAIN Plan : Plan[method] \in Seq({"query", "tx"}) /\ Plan[method] # << >>
  <1>1. << "query", "tx", "query" >> \in Seq({"query", "tx"})
    OBVIOUS
  <1>2. << "query", "query" >> \in Seq({"query", "tx"})
    OBVIOUS
  <1>3. << "query", "tx" >> \in Seq({"query", "tx"})
    OBVIOUS
  <1>4. DOMAIN Plan = {"calculate", "compliance", "edit"}
    BY DEF Plan
  <1>5. /\ Plan["calculate"] = << "query", "tx", "query" >>
        /\ Plan["compliance"] = << "query", "query" >>
        /\ Plan["edit"] = << "query", "tx" >>
    BY DEF Plan
  <1>6. /\ << "query", "tx", "query" >> # << >>
        /\ << "query", "query" >> # << >>
        /\ << "query", "tx" >> # << >>
    OBVIOUS
  <1>7. QED
    BY <1>1, <1>2, <1>3, <1>4, <1>5, <1>6

LEMMA IdleIsNoStep == Idle \in Call /\ Idle \notin InFlight /\ Idle.step \notin Steps
  BY DEF Idle, Call, InFlight, Steps

\* A call that is at some step is in flight, with all its fields.
LEMMA StepsAreInFlight ==
    ASSUME TypeOK, NEW c \in Callers
    PROVE  (req[c].step # "idle") <=> req[c] \in InFlight
  BY DEF TypeOK, Call, Idle, InFlight, Steps

\* Only one caller's call changes.
LEMMA GotoKeepsOthers ==
    ASSUME TypeOK, NEW c \in Callers, NEW step \in Steps, req[c] \in InFlight, Goto(c, step)
    PROVE  /\ req' \in [Callers -> Call]
           /\ req'[c] \in InFlight
           /\ req'[c].step = step
           /\ req'[c].method = req[c].method
           /\ req'[c].system = req[c].system
           /\ req'[c].mine = req[c].mine
           /\ req'[c].plan = req[c].plan
           /\ \A d \in Callers \ {c} : req'[d] = req[d]
  BY DEF Goto, TypeOK, Call, InFlight

-----------------------------------------------------------------------------
(* The inductive invariant *)

LEMMA IInvInit == Init => IInv
  <1> SUFFICES ASSUME Init
               PROVE  IInv
    OBVIOUS
  <1>1. \A c \in Callers : req[c] = Idle /\ req[c] \notin InFlight /\ ~Holding(c)
    BY IdleIsNoStep DEF Init, Holding, Idle
  <1>2. TypeOK
    BY IdleIsNoStep DEF Init, TypeOK, Idle, Steps
  <1>3. MapLocked /\ Connected
    BY NoneAssumption DEF Init, MapLocked, Connected, Idle
  <1>4. MutexFound /\ MutexHeld /\ PlanLeft
    BY <1>1 DEF Init, MutexFound, MutexHeld, PlanLeft
  <1>5. QED
    BY <1>2, <1>3, <1>4 DEF IInv

LEMMA BeginStep ==
    ASSUME IInv, NEW c \in Callers, NEW method \in DOMAIN Plan, NEW s \in Systems,
           Begin(c, method, s)
    PROVE  IInv'
  <1> DEFINE call == [step   |-> IF method = "edit" THEN "connect" ELSE "map",
                      method |-> method, system |-> s,
                      mine   |-> None, plan |-> Plan[method]]
  <1>1. call \in InFlight /\ call \in Call
    BY PlanIsTyped DEF InFlight, Call, Steps
  <1>2. /\ req' = [req EXCEPT ![c] = call]
        /\ req \in [Callers -> Call]
        /\ req'[c] = call
        /\ \A d \in Callers \ {c} : req'[d] = req[d]
    BY DEF Begin, IInv, TypeOK
  <1>3. req[c].step = "idle"
    BY DEF Begin, Idle
  <1>4. UNCHANGED << mapLock, mutexOf, holder, conn >>
    BY DEF Begin
  <1> HIDE DEF call
  <1>5. /\ call.step = IF method = "edit" THEN "connect" ELSE "map"
        /\ call.method = method
        /\ call.mine = None
        /\ call.plan # << >>
    BY PlanIsTyped DEF call
  <1>6. TypeOK'
    BY <1>1, <1>2, <1>4, <1>5 DEF IInv, TypeOK
  <1>7. MapLocked' /\ Connected'
    BY <1>2, <1>3, <1>4, <1>5 DEF IInv, MapLocked, Connected
  <1>8. MutexFound'
    BY <1>2, <1>4, <1>5 DEF IInv, MutexFound, Holding
  <1>9. MutexHeld'
    BY <1>2, <1>3, <1>4, <1>5 DEF IInv, MutexHeld, Holding
  <1>10. PlanLeft'
    BY <1>2, <1>5 DEF IInv, PlanLeft
  <1>11. QED
    BY <1>6, <1>7, <1>8, <1>9, <1>10 DEF IInv

LEMMA LockMapStep == ASSUME IInv, NEW c \in Callers, LockMap(c) PROVE IInv'
  <1>1. req[c].step = "map" /\ req[c] \in InFlight
    BY StepsAreInFlight DEF LockMap, IInv
  <1>2. /\ req' \in [Callers -> Call]
        /\ req'[c] \in InFlight
        /\ req'[c].step = "lookup"
        /\ req'[c].method = req[c].method
        /\ req'[c].system = req[c].system
        /\ req'[c].mine = req[c].mine
        /\ req'[c].plan = req[c].plan
        /\ \A d \in Callers \ {c} : req'[d] = req[d]
    BY <1>1, GotoKeepsOthers DEF LockMap, IInv, Steps
  <1>3. mapLock = None /\ mapLock' = c /\ UNCHANGED << mutexOf, holder, conn >>
    BY DEF LockMap
  <1>4. TypeOK'
    BY <1>1, <1>2, <1>3 DEF IInv, TypeOK, InFlight
  <1>5. MapLocked'
    BY <1>1, <1>2, <1>3, NoneAssumption DEF IInv, MapLocked
  <1>6. Connected' /\ MutexHeld'
    BY <1>1, <1>2, <1>3 DEF IInv, Connected, MutexHeld, Holding
  <1>7. MutexFound' /\ PlanLeft'
    BY <1>1, <1>2, <1>3 DEF IInv, MutexFound, Holding, PlanLeft
  <1>8. QED
    BY <1>4, <1>5, <1>6, <1>7 DEF IInv

LEMMA LookUpStep == ASSUME IInv, NEW c \in Callers, LookUp(c) PROVE IInv'
  <1> DEFINE found == mutexOf[req[c].system]
             next  == IF found = None THEN "insert" ELSE "unmap"
  <1>1. req[c].step = "lookup" /\ req[c] \in InFlight
    BY StepsAreInFlight DEF LookUp, IInv
  <1>2. found \in DOMAIN holder \union {None} /\ DOMAIN holder \subseteq Nat
    BY <1>1 DEF IInv, TypeOK, InFlight
  <1>3. /\ req' \in [Callers -> Call]
        /\ req'[c] \in InFlight
        /\ req'[c].step = next
        /\ req'[c].method = req[c].method
        /\ req'[c].system = req[c].system
        /\ req'[c].mine = found
        /\ req'[c].plan = req[c].plan
        /\ \A d \in Callers \ {c} : req'[d] = req[d]
    BY <1>1, <1>2 DEF LookUp, IInv, TypeOK, Call, InFlight, Steps
  <1>4. UNCHANGED << mapLock, mutexOf, holder, conn >>
    BY DEF LookUp
  <1>5. TypeOK'
    BY <1>1, <1>2, <1>3, <1>4 DEF IInv, TypeOK
  <1>6. MapLocked' /\ Connected' /\ MutexHeld' /\ PlanLeft'
    BY <1>1, <1>3, <1>4 DEF IInv, MapLocked, Connected, MutexHeld, Holding, PlanLeft
  <1>7. MutexFound'
    BY <1>1, <1>3, <1>4 DEF IInv, MutexFound, Holding
  <1>8. QED
    BY <1>5, <1>6, <1>7 DEF IInv

LEMMA InsertMutexStep == ASSUME IInv, NEW c \in Callers, InsertMutex(c) PROVE IInv'
  <1> DEFINE new == Len(holder) + 1
             s   == req[c].system
  <1>1. req[c].step = "insert" /\ req[c] \in InFlight /\ mapLock = c
    BY StepsAreInFlight DEF InsertMutex, IInv, MapLocked
  <1>2. s \in Systems /\ mutexOf[s] = None
    BY <1>1 DEF IInv, MutexFound, InFlight
  <1>3. /\ new \in Nat
        /\ holder' \in Seq(Callers \union {None})
        /\ DOMAIN holder' = DOMAIN holder \union {new}
        /\ new \notin DOMAIN holder
        /\ holder'[new] = None
        /\ \A m \in DOMAIN holder : holder'[m] = holder[m]
    BY DEF InsertMutex, IInv, TypeOK
  <1>4. /\ req' \in [Callers -> Call]
        /\ req'[c] \in InFlight
        /\ req'[c].step = "unmap"
        /\ req'[c].method = req[c].method
        /\ req'[c].system = s
        /\ req'[c].mine = new
        /\ req'[c].plan = req[c].plan
        /\ \A d \in Callers \ {c} : req'[d] = req[d]
    BY <1>1, <1>3 DEF InsertMutex, IInv, TypeOK, Call, InFlight, Steps
  <1>5. /\ UNCHANGED << mapLock, conn >>
        /\ mutexOf' = [mutexOf EXCEPT ![s] = new]
        /\ mutexOf \in [Systems -> DOMAIN holder \union {None}]
    BY DEF InsertMutex, IInv, TypeOK
  <1> HIDE DEF new, s
  <1>6. mutexOf' \in [Systems -> DOMAIN holder' \union {None}]
    BY <1>3, <1>5
  <1>7. TypeOK'
    BY <1>3, <1>4, <1>5, <1>6 DEF IInv, TypeOK
  <1>8. MapLocked' /\ Connected' /\ PlanLeft'
    BY <1>1, <1>4, <1>5 DEF IInv, MapLocked, Connected, PlanLeft
  <1>9. MutexHeld'
    <2>1. \A d \in Callers : Holding(d) => req[d].mine \in DOMAIN holder /\ req[d] \in InFlight
      BY StepsAreInFlight DEF Holding, IInv, TypeOK, MutexFound, Steps
    <2>2. \A d \in Callers : Holding(d)' <=> Holding(d)
      BY <1>1, <1>4 DEF Holding
    <2>3. ASSUME NEW d \in Callers, NEW m \in DOMAIN holder
          PROVE  holder'[m] = d <=> Holding(d)' /\ req'[d].mine = m
      BY <1>1, <1>3, <1>4, <2>2 DEF IInv, MutexHeld, Holding
    <2>4. ASSUME NEW d \in Callers
          PROVE  holder'[new] = d <=> Holding(d)' /\ req'[d].mine = new
      BY <1>1, <1>3, <1>4, <2>1, <2>2, NoneAssumption DEF Holding
    <2>5. QED
      BY <1>3, <2>3, <2>4 DEF MutexHeld
  <1>10. MutexFound'
    <2>1. ASSUME NEW d \in Callers \ {c}, req[d] \in InFlight
          PROVE  /\ req[d].step # "insert"
                 /\ req[d].step \in {"unmap", "mutex"} \/ Holding(d) => req[d].system # s
      BY <1>1, <1>2, <2>1 DEF IInv, MapLocked, MutexFound
    <2>2. new # None
      BY <1>3, NoneAssumption
    <2>3. QED
      BY <1>1, <1>2, <1>4, <1>5, <2>1, <2>2 DEF IInv, MutexFound, Holding, InFlight
  <1>11. QED
    BY <1>7, <1>8, <1>9, <1>10 DEF IInv

LEMMA UnlockMapStep == ASSUME IInv, NEW c \in Callers, UnlockMap(c) PROVE IInv'
  <1>1. req[c].step = "unmap" /\ req[c] \in InFlight
    BY StepsAreInFlight DEF UnlockMap, IInv
  <1>2. /\ req' \in [Callers -> Call]
        /\ req'[c] \in InFlight
        /\ req'[c].step = "mutex"
        /\ req'[c].method = req[c].method
        /\ req'[c].system = req[c].system
        /\ req'[c].mine = req[c].mine
        /\ req'[c].plan = req[c].plan
        /\ \A d \in Callers \ {c} : req'[d] = req[d]
    BY <1>1, GotoKeepsOthers DEF UnlockMap, IInv, Steps
  <1>3. mapLock = c /\ mapLock' = None /\ UNCHANGED << mutexOf, holder, conn >>
    BY <1>1 DEF UnlockMap, IInv, MapLocked
  <1>4. TypeOK'
    BY <1>1, <1>2, <1>3 DEF IInv, TypeOK, Steps
  <1>5. MapLocked'
    BY <1>1, <1>2, <1>3, NoneAssumption DEF IInv, MapLocked
  <1>6. Connected' /\ MutexHeld'
    BY <1>1, <1>2, <1>3 DEF IInv, Connected, MutexHeld, Holding
  <1>7. MutexFound' /\ PlanLeft'
    BY <1>1, <1>2, <1>3 DEF IInv, MutexFound, Holding, PlanLeft
  <1>8. QED
    BY <1>4, <1>5, <1>6, <1>7 DEF IInv

LEMMA LockMutexStep == ASSUME IInv, NEW c \in Callers, LockMutex(c) PROVE IInv'
  <1>1. req[c].step = "mutex" /\ req[c] \in InFlight
    BY StepsAreInFlight DEF LockMutex, IInv
  <1>2. /\ req' \in [Callers -> Call]
        /\ req'[c] \in InFlight
        /\ req'[c].step = "connect"
        /\ req'[c].method = req[c].method
        /\ req'[c].system = req[c].system
        /\ req'[c].mine = req[c].mine
        /\ req'[c].plan = req[c].plan
        /\ \A d \in Callers \ {c} : req'[d] = req[d]
    BY <1>1, GotoKeepsOthers DEF LockMutex, IInv, Steps
  <1>3. /\ req[c].mine \in DOMAIN holder
        /\ req[c].method # "edit"
    BY <1>1 DEF IInv, TypeOK, MutexFound, Steps
  <1>4. /\ holder[req[c].mine] = None
        /\ holder' = [holder EXCEPT ![req[c].mine] = c]
        /\ UNCHANGED << mapLock, mutexOf, conn >>
    BY DEF LockMutex
  <1>5. /\ holder' \in Seq(Callers \union {None})
        /\ DOMAIN holder' = DOMAIN holder
        /\ holder'[req[c].mine] = c
        /\ \A m \in DOMAIN holder \ {req[c].mine} : holder'[m] = holder[m]
    BY <1>3, <1>4 DEF IInv, TypeOK
  <1>6. TypeOK'
    BY <1>1, <1>2, <1>4, <1>5 DEF IInv, TypeOK, Steps
  <1>7. MapLocked' /\ Connected' /\ PlanLeft'
    BY <1>1, <1>2, <1>4 DEF IInv, MapLocked, Connected, PlanLeft
  <1>8. MutexFound'
    BY <1>1, <1>2, <1>4 DEF IInv, MutexFound, Holding
  <1>9. MutexHeld'
    <2>1. Holding(c)' /\ ~Holding(c)
      BY <1>1, <1>2, <1>3 DEF Holding
    <2>2. \A d \in Callers \ {c} : Holding(d)' <=> Holding(d)
      BY <1>2 DEF Holding
    <2>3. \A d \in Callers \ {c} : ~(Holding(d) /\ req[d].mine = req[c].mine)
      BY <1>3, <1>4, NoneAssumption DEF IInv, MutexHeld
    <2>4. QED
      BY <1>2, <1>3, <1>5, <2>1, <2>2, <2>3 DEF IInv, MutexHeld
  <1>10. QED
    BY <1>6, <1>7, <1>8, <1>9 DEF IInv

LEMMA ConnectStep == ASSUME IInv, NEW c \in Callers, Connect(c) PROVE IInv'
  <1>1. req[c].step = "connect" /\ req[c] \in InFlight
    BY StepsAreInFlight DEF Connect, IInv
  <1>2. /\ req' \in [Callers -> Call]
        /\ req'[c] \in InFlight
        /\ req'[c].step = "statement"
        /\ req'[c].method = req[c].method
        /\ req'[c].system = req[c].system
        /\ req'[c].mine = req[c].mine
        /\ req'[c].plan = req[c].plan
        /\ \A d \in Callers \ {c} : req'[d] = req[d]
    BY <1>1, GotoKeepsOthers DEF Connect, IInv, Steps
  <1>3. conn = None /\ conn' = c /\ UNCHANGED << mapLock, mutexOf, holder >>
    BY DEF Connect
  <1>4. TypeOK'
    BY <1>1, <1>2, <1>3 DEF IInv, TypeOK, Steps
  <1>5. Connected'
    BY <1>1, <1>2, <1>3, NoneAssumption DEF IInv, Connected
  <1>6. MapLocked' /\ MutexHeld'
    BY <1>1, <1>2, <1>3 DEF IInv, MapLocked, MutexHeld, Holding
  <1>7. MutexFound' /\ PlanLeft'
    BY <1>1, <1>2, <1>3 DEF IInv, MutexFound, Holding, PlanLeft
  <1>8. QED
    BY <1>4, <1>5, <1>6, <1>7 DEF IInv

LEMMA DisconnectStep ==
    ASSUME IInv, NEW c \in Callers, req[c].step \in {"statement", "commit"}, Disconnect(c)
    PROVE  IInv'
  <1> DEFINE rest == Tail(req[c].plan)
             next == IF Len(req[c].plan) = 1 THEN "unlock" ELSE "connect"
  <1>1. req[c] \in InFlight /\ conn = c
    BY StepsAreInFlight DEF IInv, Connected
  <1>2. /\ rest \in Seq({"query", "tx"})
        /\ next = "unlock" \/ rest # << >>
    <2>1. req[c].plan \in Seq({"query", "tx"}) /\ req[c].plan # << >>
      BY <1>1 DEF IInv, PlanLeft, InFlight
    <2>2. Len(rest) = Len(req[c].plan) - 1 /\ rest \in Seq({"query", "tx"})
      BY <2>1, HeadTailProperties
    <2>3. Len(req[c].plan) # 1 => rest # << >>
      <3>1. Len(<< >>) = 0
        OBVIOUS
      <3>2. Len(req[c].plan) \in Nat
        BY <2>1
      <3>3. Len(req[c].plan) # 1 => Len(rest) # 0
        BY <2>2, <3>2
      <3>4. QED
        BY <3>1, <3>3
    <2>4. QED
      BY <2>2, <2>3
  <1>3. /\ req' \in [Callers -> Call]
        /\ req'[c] \in InFlight
        /\ req'[c].step = next
        /\ req'[c].method = req[c].method
        /\ req'[c].system = req[c].system
        /\ req'[c].mine = req[c].mine
        /\ req'[c].plan = rest
        /\ \A d \in Callers \ {c} : req'[d] = req[d]
    BY <1>1, <1>2 DEF Disconnect, IInv, TypeOK, Call, InFlight, Steps
  <1>4. conn' = None /\ UNCHANGED << mapLock, mutexOf, holder >>
    BY DEF Disconnect
  <1>5. next \in {"unlock", "connect"}
    OBVIOUS
  <1> HIDE DEF rest, next
  <1>6. TypeOK'
    BY <1>1, <1>3, <1>4, <1>5 DEF IInv, TypeOK, Steps
  <1>7. Connected'
    BY <1>1, <1>3, <1>4, <1>5, NoneAssumption DEF IInv, Connected
  <1>8. MapLocked' /\ MutexHeld'
    BY <1>3, <1>4, <1>5 DEF IInv, MapLocked, MutexHeld, Holding
  <1>9. MutexFound'
    BY <1>1, <1>3, <1>4, <1>5 DEF IInv, MutexFound, Holding
  <1>10. PlanLeft'
    BY <1>2, <1>3 DEF IInv, PlanLeft
  <1>11. QED
    BY <1>6, <1>7, <1>8, <1>9, <1>10 DEF IInv

LEMMA StatementStep == ASSUME IInv, NEW c \in Callers, Statement(c) PROVE IInv'
  <1>a. CASE Head(req[c].plan) = "query"
    BY <1>a, DisconnectStep DEF Statement
  <1>b. CASE Head(req[c].plan) # "query"
    <2>1. req[c].step = "statement" /\ req[c] \in InFlight
      BY StepsAreInFlight DEF Statement, IInv
    <2>2. /\ req' \in [Callers -> Call]
          /\ req'[c] \in InFlight
          /\ req'[c].step = "commit"
          /\ req'[c].method = req[c].method
          /\ req'[c].system = req[c].system
          /\ req'[c].mine = req[c].mine
          /\ req'[c].plan = req[c].plan
          /\ \A d \in Callers \ {c} : req'[d] = req[d]
      BY <1>b, <2>1, GotoKeepsOthers DEF Statement, IInv, Steps
    <2>3. UNCHANGED << mapLock, mutexOf, holder, conn >>
      BY <1>b DEF Statement
    <2>4. TypeOK'
      BY <2>1, <2>2, <2>3 DEF IInv, TypeOK, Steps
    <2>5. MapLocked' /\ Connected' /\ MutexHeld'
      BY <2>1, <2>2, <2>3 DEF IInv, MapLocked, Connected, MutexHeld, Holding
    <2>6. MutexFound' /\ PlanLeft'
      BY <2>1, <2>2, <2>3 DEF IInv, MutexFound, Holding, PlanLeft
    <2>7. QED
      BY <2>4, <2>5, <2>6 DEF IInv
  <1>c. QED
    BY <1>a, <1>b

LEMMA GiveUpStep == ASSUME IInv, NEW c \in Callers, GiveUp(c) PROVE IInv'
  <1>1. req[c].step \in {"connect", "statement", "commit"} /\ req[c] \in InFlight
    BY StepsAreInFlight DEF GiveUp, IInv
  <1>2. /\ req' \in [Callers -> Call]
        /\ req'[c] \in InFlight
        /\ req'[c].step = "unlock"
        /\ req'[c].method = req[c].method
        /\ req'[c].system = req[c].system
        /\ req'[c].mine = req[c].mine
        /\ req'[c].plan = req[c].plan
        /\ \A d \in Callers \ {c} : req'[d] = req[d]
    BY <1>1, GotoKeepsOthers DEF GiveUp, IInv, Steps
  <1>3. /\ conn' = IF conn = c THEN None ELSE conn
        /\ UNCHANGED << mapLock, mutexOf, holder >>
    BY DEF GiveUp
  <1>4. TypeOK'
    BY <1>1, <1>2, <1>3 DEF IInv, TypeOK, Steps
  <1>5. Connected'
    BY <1>1, <1>2, <1>3, NoneAssumption DEF IInv, Connected
  <1>6. MapLocked' /\ MutexHeld'
    BY <1>1, <1>2, <1>3 DEF IInv, MapLocked, MutexHeld, Holding
  <1>7. MutexFound' /\ PlanLeft'
    BY <1>1, <1>2, <1>3 DEF IInv, MutexFound, Holding, PlanLeft
  <1>8. QED
    BY <1>4, <1>5, <1>6, <1>7 DEF IInv

LEMMA UnlockStep == ASSUME IInv, NEW c \in Callers, Unlock(c) PROVE IInv'
  <1>1. req[c].step = "unlock"
    BY DEF Unlock
  <1>2. /\ req' \in [Callers -> Call]
        /\ req'[c] = Idle
        /\ \A d \in Callers \ {c} : req'[d] = req[d]
    BY IdleIsNoStep DEF Unlock, IInv, TypeOK
  <1>3. /\ holder' = [m \in DOMAIN holder |-> IF holder[m] = c THEN None ELSE holder[m]]
        /\ UNCHANGED << mapLock, mutexOf, conn >>
    BY DEF Unlock
  <1>4. holder' \in Seq(Callers \union {None}) /\ DOMAIN holder' = DOMAIN holder
    <2>1. DOMAIN holder = 1..Len(holder) /\ Len(holder) \in Nat
      BY DEF IInv, TypeOK
    <2>2. holder' \in [1..Len(holder) -> Callers \union {None}]
      BY <1>3, <2>1 DEF IInv, TypeOK
    <2>3. QED
      BY <2>1, <2>2, SeqDef
  <1>5. TypeOK'
    BY <1>2, <1>3, <1>4, IdleIsNoStep DEF IInv, TypeOK
  <1>6. MapLocked' /\ Connected'
    BY <1>1, <1>2, <1>3 DEF IInv, MapLocked, Connected, Idle
  <1>7. MutexFound' /\ PlanLeft'
    BY <1>2, <1>3, IdleIsNoStep DEF IInv, MutexFound, Holding, PlanLeft
  <1>8. MutexHeld'
    BY <1>1, <1>2, <1>3, <1>4, NoneAssumption DEF IInv, MutexHeld, Holding, Idle
  <1>9. QED
    BY <1>5, <1>6, <1>7, <1>8 DEF IInv

LEMMA IInvStep == IInv /\ [Next]_vars => IInv'
  <1> SUFFICES ASSUME IInv, [Next]_vars
               PROVE  IInv'
    OBVIOUS
  <1>1. CASE UNCHANGED vars
    BY <1>1 DEF vars, IInv, TypeOK, MapLocked, Connected, MutexFound, MutexHeld, Holding, PlanLeft
  <1>2. ASSUME NEW c \in Callers, Proceed(c)
        PROVE  IInv'
    <2>1. Commit(c) => IInv'
      BY DisconnectStep DEF Commit
    <2>2. QED
      BY <1>2, <2>1, LookUpStep, InsertMutexStep, UnlockMapStep, StatementStep, UnlockStep
         DEF Proceed
  <1>3. QED
    BY <1>1, <1>2, BeginStep, LockMapStep, LockMutexStep, ConnectStep, GiveUpStep DEF Next

LEMMA IInvHolds == Spec => []IInv
  BY IInvInit, IInvStep, PTL DEF Spec

-----------------------------------------------------------------------------
(* The theorems *)

\* Every variable always holds a value of its type, and what the map and the
\* calls refer to are mutexes that were made.
THEOREM TypeCorrectness == Spec => []TypeOK
  <1>1. IInv => TypeOK
    BY DEF IInv
  <1>2. QED
    BY <1>1, IInvHolds, PTL

\* However many callers ask for however many systems, nobody waits while it
\* holds the lock of the map or the connection, and nobody waits for the map
\* or for a mutex while it holds one.
THEOREM LocksInOrderHolds == Spec => []LocksInOrder
  <1>1. IInv => LocksInOrder
    <2> SUFFICES ASSUME IInv, NEW c \in Callers
                 PROVE  /\ Waits(c) => c \notin {mapLock, conn}
                        /\ req[c].step \in {"map", "mutex"} =>
                              \A m \in DOMAIN holder : holder[m] # c
      BY DEF LocksInOrder
    <2>1. Waits(c) => c \notin {mapLock, conn}
      BY DEF Waits, IInv, MapLocked, Connected
    <2>2. req[c].step \in {"map", "mutex"} => \A m \in DOMAIN holder : holder[m] # c
      BY DEF IInv, MutexHeld, Holding
    <2>3. QED
      BY <2>1, <2>2
  <1>2. QED
    BY <1>1, IInvHolds, PTL

-----------------------------------------------------------------------------
(* One mutex per system *)

\* The caller that runs in a system holds the mutex that the map has for it.
LEMMA RunnerHolds ==
    ASSUME IInv, NEW c \in Callers, NEW s \in Systems, Running(c, s)
    PROVE  /\ Holding(c) /\ req[c] \in InFlight
           /\ mutexOf[s] \in DOMAIN holder
           /\ req[c].mine = mutexOf[s]
           /\ holder[mutexOf[s]] = c
  <1>1. Holding(c) /\ req[c] \in InFlight /\ req[c].system = s
    BY StepsAreInFlight DEF Running, Holding, IInv
  <1>2. req[c].mine = mutexOf[s] /\ req[c].mine # None
    BY <1>1 DEF IInv, MutexFound
  <1>3. mutexOf[s] \in DOMAIN holder
    BY <1>2 DEF IInv, TypeOK
  <1>4. QED
    BY <1>1, <1>2, <1>3 DEF IInv, MutexHeld

Inside == [s \in Systems |-> {c \in Callers : Running(c, s)}]

\* A call that keeps its system and method and does not pass LockMutex or Unlock
\* leaves everybody where they are.
LEMMA InsideUnchanged ==
    ASSUME NEW c \in Callers,
           \A d \in Callers \ {c} : req'[d] = req[d],
           \A s \in Systems : Running(c, s)' <=> Running(c, s)
    PROVE  UNCHANGED Inside
  <1>1. \A d \in Callers, s \in Systems : Running(d, s)' <=> Running(d, s)
    BY DEF Running
  <1>2. QED
    BY <1>1 DEF Inside

LEMMA MutexInit == Init => Mutex!Init
  <1> SUFFICES ASSUME Init
               PROVE  Inside = [s \in Systems |-> {}]
    BY DEF Mutex!Init, Inside
  <1>1. \A c \in Callers, s \in Systems : ~Running(c, s)
    BY DEF Init, Running, Idle
  <1>2. QED
    BY <1>1 DEF Inside

LEMMA LockMutexEnters ==
    ASSUME IInv, NEW c \in Callers, LockMutex(c)
    PROVE  \E s \in Systems : Inside[s] = {} /\ Inside' = [Inside EXCEPT ![s] = {c}]
  <1> DEFINE s == req[c].system
  <1>1. req[c].step = "mutex" /\ req[c] \in InFlight
    BY StepsAreInFlight DEF LockMutex, IInv
  <1>2. /\ s \in Systems
        /\ req[c].method # "edit"
        /\ req[c].mine = mutexOf[s]
        /\ holder[mutexOf[s]] = None
    BY <1>1 DEF IInv, MutexFound, InFlight, LockMutex
  <1>3. \A d \in Callers : ~Running(d, s)
    BY <1>2, RunnerHolds, NoneAssumption
  <1>4. /\ req'[c].step = "connect"
        /\ req'[c].method = req[c].method
        /\ req'[c].system = s
        /\ \A d \in Callers \ {c} : req'[d] = req[d]
    BY <1>1, GotoKeepsOthers DEF LockMutex, IInv, Steps
  <1>5. \A t \in Systems : ~Running(c, t) /\ (Running(c, t)' <=> t = s)
    BY <1>1, <1>2, <1>4 DEF Running
  <1>6. \A d \in Callers \ {c}, t \in Systems : Running(d, t)' <=> Running(d, t)
    BY <1>4 DEF Running
  <1> HIDE DEF s
  <1>7. Inside[s] = {} /\ Inside' = [Inside EXCEPT ![s] = {c}]
    BY <1>2, <1>3, <1>5, <1>6 DEF Inside
  <1>8. QED
    BY <1>2, <1>7

LEMMA UnlockLeaves ==
    ASSUME IInv, NEW c \in Callers, Unlock(c)
    PROVE  \/ UNCHANGED Inside
           \/ \E s \in Systems : Inside[s] = {c} /\ Inside' = [Inside EXCEPT ![s] = {}]
  <1> DEFINE s == req[c].system
  <1>1. req[c].step = "unlock" /\ req[c] \in InFlight /\ s \in Systems
    BY StepsAreInFlight DEF Unlock, IInv, InFlight
  <1>2. req'[c] = Idle /\ \A d \in Callers \ {c} : req'[d] = req[d]
    BY DEF Unlock, IInv, TypeOK
  <1>3. \A t \in Systems : ~Running(c, t)'
    BY <1>2 DEF Running, Idle
  <1>4. \A t \in Systems : Running(c, t) <=> req[c].method # "edit" /\ t = s
    BY <1>1 DEF Running
  <1>5. CASE req[c].method = "edit"
    BY <1>2, <1>3, <1>4, <1>5, InsideUnchanged
  <1>6. CASE req[c].method # "edit"
    <2>1. Running(c, s)
      BY <1>1, <1>4, <1>6
    <2>2. \A d \in Callers \ {c} : ~Running(d, s)
      BY <1>1, <2>1, RunnerHolds
    <2>3. \A d \in Callers \ {c}, t \in Systems : Running(d, t)' <=> Running(d, t)
      BY <1>2 DEF Running
    <2> HIDE DEF s
    <2>4. Inside[s] = {c} /\ Inside' = [Inside EXCEPT ![s] = {}]
      BY <1>1, <1>3, <1>4, <2>1, <2>2, <2>3 DEF Inside
    <2>5. QED
      BY <1>1, <2>4
  <1>7. QED
    BY <1>5, <1>6

\* Everything else leaves everybody where they are.
LEMMA OthersStutter ==
    ASSUME IInv, NEW c \in Callers,
           \/ \E method \in DOMAIN Plan, s \in Systems : Begin(c, method, s)
           \/ LockMap(c) \/ LookUp(c) \/ InsertMutex(c) \/ UnlockMap(c)
           \/ Connect(c) \/ Statement(c) \/ Commit(c) \/ GiveUp(c)
    PROVE  UNCHANGED Inside
  <1>1. \A d \in Callers \ {c} : req'[d] = req[d]
    BY DEF IInv, TypeOK, Begin, LockMap, LookUp, InsertMutex, UnlockMap, Connect, Statement,
           Disconnect, Commit, GiveUp, Goto
  <1>2. req \in [Callers -> Call]
    BY DEF IInv, TypeOK
  <1>3. \A s \in Systems : Running(c, s)' <=> Running(c, s)
    <2>1. CASE \E method \in DOMAIN Plan, s \in Systems : Begin(c, method, s)
      BY <1>2, <2>1 DEF Begin, Running, Idle
    <2>2. CASE LockMap(c) \/ UnlockMap(c) \/ Connect(c) \/ GiveUp(c)
      <3>1. req[c] \in InFlight
        BY <2>2, StepsAreInFlight DEF LockMap, UnlockMap, Connect, GiveUp, IInv
      <3>2. QED
        BY <1>2, <2>2, <3>1
           DEF LockMap, UnlockMap, Connect, GiveUp, Goto, Running, InFlight
    <2>3. CASE LookUp(c) \/ InsertMutex(c)
      <3>1. req[c] \in InFlight
        BY <2>3, StepsAreInFlight DEF LookUp, InsertMutex, IInv
      <3>2. QED
        BY <1>2, <2>3, <3>1 DEF LookUp, InsertMutex, Running, InFlight
    <2>4. CASE Statement(c) \/ Commit(c)
      <3>1. req[c] \in InFlight
        BY <2>4, StepsAreInFlight DEF Statement, Commit, IInv
      <3>2. QED
        BY <1>2, <2>4, <3>1
           DEF Statement, Commit, Disconnect, Goto, Running, InFlight
    <2>5. QED
      BY <2>1, <2>2, <2>3, <2>4
  <1>4. QED
    BY <1>1, <1>3, InsideUnchanged

LEMMA MutexStep == IInv /\ [Next]_vars => [Mutex!Next]_Inside
  <1> SUFFICES ASSUME IInv, [Next]_vars
               PROVE  Mutex!Next \/ UNCHANGED Inside
    OBVIOUS
  <1>1. CASE UNCHANGED vars
    BY <1>1 DEF vars, Inside, Running
  <1>2. ASSUME NEW c \in Callers, LockMutex(c)
        PROVE  Mutex!Next
    BY <1>2, LockMutexEnters DEF Mutex!Next, Mutex!Enter, Inside
  <1>3. ASSUME NEW c \in Callers, Unlock(c)
        PROVE  Mutex!Next \/ UNCHANGED Inside
    BY <1>3, UnlockLeaves DEF Mutex!Next, Mutex!Leave, Inside
  <1>4. QED
    BY <1>1, <1>2, <1>3, OthersStutter DEF Next, Proceed

\* For any callers and systems, and though a caller may find the map without
\* the mutex it wants, two runs of one system never overlap.
THEOREM SystemMutexImplemented == Spec => ImplementsSystemMutex
  <1>1. Init => Mutex!Init
    BY MutexInit
  <1>2. IInv /\ [Next]_vars => [Mutex!Next]_Inside
    BY MutexStep
  <1>3. QED
    BY <1>1, <1>2, IInvHolds, PTL DEF Spec, ImplementsSystemMutex, Mutex!Spec, Inside

=============================================================================
