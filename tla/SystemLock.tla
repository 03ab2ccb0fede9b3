----------------------------- MODULE SystemLock -----------------------------
(***************************************************************************)
(* The locks that a request meets: the mutex of its system, which          *)
(* systemLock looks up in a map with a lock of its own and makes if it is  *)
(* not there, and the single connection of the database pool, which a      *)
(* query holds for one statement and a transaction from BEGIN to COMMIT.   *)
(*                                                                         *)
(* Calculate and RunCompliance take the mutex and keep it over all their   *)
(* database calls; every other method goes to the database at once.  A     *)
(* caller whose context is cancelled gives up waiting for the connection   *)
(* or rolls back, but cannot give up waiting for a mutex.  What the calls  *)
(* read and write is the matter of the other modules.                      *)
(***************************************************************************)
EXTENDS Naturals, Sequences

CONSTANTS Callers,    \* the goroutines that serve requests
          Systems,    \* the systems they ask for
          None        \* no holder, or no mutex yet

ASSUME NoneAssumption == None \notin Callers /\ None \notin Nat

VARIABLES
    mapLock,    \* who holds the lock of the map of mutexes
    mutexOf,    \* the map: per system the mutex made for it
    holder,     \* per mutex, in the order they were made, who holds it
    conn,       \* who holds the connection
    req         \* the call each caller has in flight

vars == << mapLock, mutexOf, holder, conn, req >>

(***************************************************************************)
(* The database calls of a method, in order: a query is one statement, a   *)
(* transaction ("tx") a statement and a commit.  Calculate reads, stores   *)
(* its rows and promotes; RunCompliance reads and rewrites the checks; an  *)
(* edit or a transition reads and writes.                                  *)
(***************************************************************************)
Plan == [calculate  |-> << "query", "tx", "query" >>,
         compliance |-> << "query", "query" >>,
         edit       |-> << "query", "tx" >>]

Steps == {"map", "lookup", "insert", "unmap", "mutex", "connect", "statement", "commit", "unlock"}

Idle == [step |-> "idle"]

\* mine is the mutex that systemLock returned.
InFlight == [step : Steps, method : DOMAIN Plan, system : Systems,
             mine : Nat \union {None}, plan : Seq({"query", "tx"})]

Call == {Idle} \union InFlight

Goto(c, step) == req' = [req EXCEPT ![c].step = step]

Init ==
    /\ mapLock = None
    /\ mutexOf = [s \in Systems |-> None]
    /\ holder = << >>
    /\ conn = None
    /\ req = [c \in Callers |-> Idle]

Begin(c, method, s) ==
    /\ req[c] = Idle
    /\ req' = [req EXCEPT ![c] = [step   |-> IF method = "edit" THEN "connect" ELSE "map",
                                  method |-> method, system |-> s,
                                  mine   |-> None, plan |-> Plan[method]]]
    /\ UNCHANGED << mapLock, mutexOf, holder, conn >>

----------------------------------------------------------------------------
(* systemLock *)

\* Mutant: the map is read and written without its lock.
LockNoMap(c) ==
    /\ req[c].step = "map"
    /\ Goto(c, "lookup")
    /\ UNCHANGED << mapLock, mutexOf, holder, conn >>

LockMap(c) ==
    /\ req[c].step = "map"
    /\ mapLock = None
    /\ mapLock' = c
    /\ Goto(c, "lookup")
    /\ UNCHANGED << mutexOf, holder, conn >>

LookUp(c) ==
    /\ req[c].step = "lookup"
    /\ LET found == mutexOf[req[c].system]
       IN  req' = [req EXCEPT ![c].step = IF found = None THEN "insert" ELSE "unmap",
                              ![c].mine = found]
    /\ UNCHANGED << mapLock, mutexOf, holder, conn >>

\* Mutant: the map gets an entry for a mutex that was not made.
InsertUnmade(c) ==
    /\ req[c].step = "insert"
    /\ mutexOf' = [mutexOf EXCEPT ![req[c].system] = Len(holder) + 1]
    /\ req' = [req EXCEPT ![c].step = "unmap", ![c].mine = Len(holder) + 1]
    /\ UNCHANGED << mapLock, holder, conn >>

\* A new mutex, held by no one.
InsertMutex(c) ==
    /\ req[c].step = "insert"
    /\ holder' = Append(holder, None)
    /\ mutexOf' = [mutexOf EXCEPT ![req[c].system] = Len(holder) + 1]
    /\ req' = [req EXCEPT ![c].step = "unmap", ![c].mine = Len(holder) + 1]
    /\ UNCHANGED << mapLock, conn >>

\* Mutant: the lock of the map is kept until the mutex is held.
UnlockMapLater(c) ==
    /\ req[c].step = "unmap"
    /\ IF holder[req[c].mine] = None
       THEN mapLock' = None ELSE UNCHANGED mapLock
    /\ Goto(c, "mutex")
    /\ UNCHANGED << mutexOf, holder, conn >>

\* The deferred Unlock of systemLock.
UnlockMap(c) ==
    /\ req[c].step = "unmap"
    /\ mapLock' = None
    /\ Goto(c, "mutex")
    /\ UNCHANGED << mutexOf, holder, conn >>

\* The method locks the mutex it was given.
LockMutex(c) ==
    /\ req[c].step = "mutex"
    /\ holder[req[c].mine] = None
    /\ holder' = [holder EXCEPT ![req[c].mine] = c]
    /\ Goto(c, "connect")
    /\ UNCHANGED << mapLock, mutexOf, conn >>

----------------------------------------------------------------------------
(* The connection *)

\* A query, or BEGIN, waits until the pool hands over its only connection.
Connect(c) ==
    /\ req[c].step = "connect"
    /\ conn = None
    /\ conn' = c
    /\ Goto(c, "statement")
    /\ UNCHANGED << mapLock, mutexOf, holder >>

\* The database call has ended: the next one, or the end of the method.
Disconnect(c) ==
    /\ conn' = None
    /\ req' = [req EXCEPT ![c].plan = Tail(@),
                          ![c].step = IF Len(req[c].plan) = 1 THEN "unlock" ELSE "connect"]
    /\ UNCHANGED << mapLock, mutexOf, holder >>

\* Mutant: a statement of a transaction is given to the pool.
StatementOnPool(c) ==
    /\ req[c].step = "statement"
    /\ IF Head(req[c].plan) = "query"
       THEN Disconnect(c)
       ELSE /\ conn = None
            /\ Goto(c, "commit")
            /\ UNCHANGED << mapLock, mutexOf, holder, conn >>

\* A query is over with its rows; a statement of a transaction is run on the
\* connection that the transaction holds.
Statement(c) ==
    /\ req[c].step = "statement"
    /\ IF Head(req[c].plan) = "query"
       THEN Disconnect(c)
       ELSE /\ Goto(c, "commit")
            /\ UNCHANGED << mapLock, mutexOf, holder, conn >>

Commit(c) ==
    /\ req[c].step = "commit"
    /\ Disconnect(c)

\* The context is cancelled, a statement fails or the handler panics: a
\* transaction is rolled back, and the deferred Unlock comes next.
GiveUp(c) ==
    /\ req[c].step \in {"connect", "statement", "commit"}
    /\ conn' = IF conn = c THEN None ELSE conn
    /\ Goto(c, "unlock")
    /\ UNCHANGED << mapLock, mutexOf, holder >>

\* The method returns.
Unlock(c) ==
    /\ req[c].step = "unlock"
    /\ holder' = [m \in DOMAIN holder |-> IF holder[m] = c THEN None ELSE holder[m]]
    /\ req' = [req EXCEPT ![c] = Idle]
    /\ UNCHANGED << mapLock, mutexOf, conn >>

----------------------------------------------------------------------------
Proceed(c) ==
    \/ LookUp(c)
    \/ InsertMutex(c)
    \/ UnlockMap(c)
    \/ Statement(c)
    \/ Commit(c)
    \/ Unlock(c)

Next ==
    \E c \in Callers :
        \/ \E method \in DOMAIN Plan, s \in Systems : Begin(c, method, s)
        \/ LockMap(c)
        \/ LockMutex(c)
        \/ Connect(c)
        \/ Proceed(c)
        \/ GiveUp(c)

Spec == Init /\ [][Next]_vars

(***************************************************************************)
(* A goroutine that waits for nothing goes on.  One that waits is not      *)
(* passed over for ever: a mutex that someone has waited for longer than a *)
(* millisecond is handed over in the order of waiting, and the pool hands  *)
(* a connection that becomes free to one of those who wait, at random.     *)
(***************************************************************************)
FairSpec ==
    /\ Spec
    /\ \A c \in Callers : /\ WF_vars(Proceed(c))
                          /\ SF_vars(LockMap(c))
                          /\ SF_vars(LockMutex(c))
                          /\ SF_vars(Connect(c))

----------------------------------------------------------------------------
(* Properties *)

\* Every variable holds a value of its type, and what the map and the calls
\* refer to are mutexes that were made.
TypeOK ==
    /\ mapLock \in Callers \union {None}
    /\ holder \in Seq(Callers \union {None})
    /\ mutexOf \in [Systems -> DOMAIN holder \union {None}]
    /\ conn \in Callers \union {None}
    /\ req \in [Callers -> Call]
    /\ \A c \in Callers :
          req[c].step \in Steps /\ req[c].mine # None => req[c].mine \in DOMAIN holder

Waits(c) == req[c].step \in {"map", "mutex", "connect"}

\* Nobody waits while holding the lock of the map or the connection, and whoever
\* holds a mutex waits for the connection only: no circle of callers can wait
\* for each other, and a run that waits for its system keeps nobody from
\* looking up the mutex of another one.
LocksInOrder ==
    \A c \in Callers :
        /\ Waits(c) => c \notin {mapLock, conn}
        /\ req[c].step \in {"map", "mutex"} => \A m \in DOMAIN holder : holder[m] # c

\* Every call returns, whoever else calls and whatever is cancelled: nobody is
\* kept waiting for the map, for the mutex of a system or for the connection.
\* (db.go:58-61 warns of the statement that would wait for its own transaction.)
EveryCallReturns == \A c \in Callers : req[c] # Idle ~> req[c] = Idle

\* The caller is between the Lock of the mutex and its deferred Unlock.
Running(c, s) ==
    /\ req[c].step \in {"connect", "statement", "commit", "unlock"}
    /\ req[c].method # "edit"
    /\ req[c].system = s

Mutex == INSTANCE SystemMutex WITH
    inside <- [s \in Systems |-> {c \in Callers : Running(c, s)}]

\* Two runs of one system never overlap, though each looks its mutex up in the
\* map and either may find it missing there.
ImplementsSystemMutex == Mutex!Spec
=============================================================================
