# Verification of the fire-sprinkler hydraulics server

The repository is a Go server (`src/main.go`, `src/internal/...`) that keeps fire-sprinkler
systems in SQLite: their piping network and water supply, the hydraulic calculation and
compliance checks derived from them, and their life cycle from design through acceptance,
service, impairment and restoration. This directory holds TLA+ models of it, the TLC
configurations that check them on small instances, and TLAPS proofs.

## 1. The system

| component | state it keeps | operations | what is hard about it |
|---|---|---|---|
| life-cycle graph (`lifecycle`) | none | `CanTransition`, `Validate` | – |
| life-cycle service (`service/lifecycle_service.go`, `test_service.go`) | `systems.state`, `lifecycle_events`, tests, acceptance record | `Transition`, `RecordHydrostaticTest`, `RecordAcceptance` | state read before the transaction that writes it; gates read rows others change |
| calculation (`service/calculate_service.go`) | `hydraulic_results`, `supply_comparisons`, `compliance_checks`, the promotion to designed | `Calculate`, `RunCompliance` | a mutex that the edits of the inputs do not take; checks rewritten outside a transaction |
| impairments (`service/impairment_service.go`) | `impairments`, measures, moves of the system | `CreateImpairment`, `RestoreImpairment` | five or more database calls without transaction or lock |
| restart recovery (`service/reconcile_service.go`, `main.go`) | all derived rows, the state column, past-due impairments | `ReconcileAll` | must repair whatever a crash left |
| network editing (`service/network_service.go`) | nodes, pipes, the remote node | `CreateNode`, `CreatePipe`, `SetRemoteNode` | check, then insert; nothing can be deleted |
| hydraulics (`hydraulics`) | none | `BuildNetwork`, `Calc` | recursion without a cycle guard |
| water supply (`watersupply`, `service/supply_service.go`) | supply, curve points, pump | edits, `Compare` | interpolation at the ends of a curve |
| compliance rules (`compliance`) | none | ten rules | inputs that may be missing |
| projects and hazard classes (`service.go`, `hazard`) | projects, systems | `CreateProject`, `CreateSystem` | – |
| locks (`service.go`, `store/db.go`) | a map of mutexes with its lock, one mutex per system, the pool of one connection | `systemLock`, `InTx`, one function per statement | four kinds of waiting in one call; a mutex is made when first asked for |
| clock (`clock`) | the wall clock | `Epoch` | may be set back; many events fall into one second |
| HTTP layer, ids, self-check, web page | – | – | requests run concurrently, every database call carries the request's context |

How they interact. Every HTTP request runs on a goroutine of its own and calls one service
method; a method is a sequence of database calls. The pool has one connection and every
explicit transaction is `BEGIN IMMEDIATE`, so a database call, or an `InTx` block, is
atomic, and between two of them any other request may run; a method that needs several rows
may read them from different moments. The only locks are one mutex per system, taken by
`Calculate` and `RunCompliance` alone and found in a map that has a lock of its own. A request whose client hangs up has
its context cancelled, and the next database call of its method fails: a method can end
after any of its calls. When the process dies the committed rows stay; when it is told to
stop it waits for the calls in flight. `ReconcileAll` runs to its end before the server
listens again; its errors are logged, and the server serves what they left.

What makes each component correct, and what can go wrong, is listed line by line under
`hazards` in `PROJECT.json`.

## 2. The modules

| module | models | state | one action is |
|---|---|---|---|
| `Lifecycle` | the graph and the order of the stages | none | – |
| `LifecycleService` | one system: `Transition` with its gates, `Calculate` as far as it promotes, tests, acceptance, crash, `ReconcileAll` | state column, event stream, gating rows, clock, calls in flight | one database call or transaction |
| `Impairments` | the systems of one project in service: `CreateImpairment`, `RestoreImpairment`, stop, crash and the recovery | state and last event per system, impairment rows, recovery | one database call |
| `DerivedRows` | abstract: what the server promises of the derived rows of a system | inputs, result, comparison, the verdict of the checks | one change of them |
| `DerivedData` | one system: inputs as version numbers, derived rows as the versions they were computed from; implements `DerivedRows` and `SystemMutex` | inputs, derived rows, mutex, calls, server | one database call or transaction |
| `SystemMutex` | abstract: at most one run per system at a time | who is inside a run | enter, leave |
| `SystemLock` | the map of mutexes, the mutexes and the single connection; implements `SystemMutex` | who holds what, calls | one lock, unlock or statement |
| `Network` | the rows of nodes and pipes, and `BuildNetwork` with its traversals as operators | nodes, first source, pipes, calls | one database call |
| `RootedTree` | what a tree is, for `Network` and `Figures` alike | none | – |
| `Hydraulics` | `Calc`: flows and pressures over a tree, `MaxPressure`, `MaxVelocity`, as operators | none | – |
| `WaterSupply` | the curves of supply and pump and `Compare`, as operators | none | – |
| `Compliance` | the ten rules, as operators over the rows a run has read | none | – |
| `Hazard` | the table of hazard classes and the validation of a design against it | none | – |
| `Figures` | composes the four: one project with one system, created, whose supply, pump and remote node are edited, calculated and judged | inputs, result, comparison, verdicts | one service method |
| `MC...` | instances for TLC: symmetry, initial states in the middle of the life cycle | | |
| `LifecycleProofs`, `ImpairmentsProofs`, `DerivedDataProofs`, `NetworkProofs`, `SystemLockProofs`, `FiguresProofs` | theorems about the module they are named for | | |
| `PostOrderProofs` | theorems about the order of `Network` and about what `Calc` is given | | |
| `Induction` | lemmas on data defined by recursion, which `NetworkProofs`, `PostOrderProofs` and `FiguresProofs` use | | |

Correspondence to the code. `PROJECT.json` maps each definition to its lines. In
every module a call in flight is a record in `req`: which step comes next, and the values
the method has read and goes on using. An action named `Begin...` is the first step of a
method, with its early returns as guards; a refused call changes no row and is not written
out. `Abandon` is the early return on an error or a cancelled context after any step,
`Crash` the death of the process.

* `LifecycleService`: `BeginTransition` is `GetSystem` with `Validate`;
  `PassPreconditions` is `checkTransitionPreconditions` with the stamping of the event;
  `CommitTransition` is the transaction. The gates are read in one step, because a row that
  gates a move is never taken back except an acceptance record, which is read last.
  `BeginCalculate`, `PersistDerived` and `PromoteToDesigned` are `Calculate`; the mutex is
  `LockFree`. `StepBack` sets the clock to any earlier second. `Restart` is `ReconcileAll` in one step: nothing else runs meanwhile, and a
  crash inside it is a crash after it, since its state writes are repeated by the next one. A
  system whose events it cannot read keeps its state.
* `Impairments`: `CheckCompensation`, `InsertImpairment`, `InsertMeasure` and the moves are
  the calls of `CreateImpairment` in order; `MarkRestored` and two moves those of
  `RestoreImpairment`; `StartRecovery`, `RecoverImpairment` and `Serve` the auto-restore. A
  move is `ReadSystem` followed by `WriteSystem`. The kinds `patrol` and `temporary_pipe`
  are one, since only the manual fire watch is ever asked for. Of the event stream, which
  `LifecycleService` has in full, `latest` keeps the event that is listed last: `After` is the
  order of the query, `CorrectStatesFromEvents` what the recovery does with it. `Stop` is the
  graceful shutdown; `RecoveryFails` an error that the recovery logs, after which the server
  is `failing` instead of `recovering` but comes up all the same.
* `DerivedData`: `Return` gives the mutex back, as the deferred `Unlock` does also on a
  panic. A compliance run over a network that can be built, without a stored result, panics
  in the velocity rule before anything is written: `ComplianceRows` ends the call. `GetWaterSupply` is two queries, of the row and
  of its points: a supply that was replaced in between is read without points, not `whole`.
  Whether there is a pump is read with the system row (`pumped`), the pump later. A compliance
  run reads the network twice (`listed`, `network`). `BeginReport` and `ReportComparison` are
  the two queries of `FullReport` between which a calculation can show. `BeginTransition` and
  `WriteTransition` are `Transition` between draft, designed and submitted; of the event stream
  only where its last event led to is kept (`latest`). Which event is listed last after a move is
  either the new one or the one that was last before: a racing call may have been stamped later, or
  the clock set back. That is more than the clock allows, so what holds here holds of the code.
  `Restart` decides by the state column whether to recompute, `Serve` ends the recovery with
  `CorrectStatesFromEvents`; `RecoveryFails` is an error that is logged, after which the server
  comes up with what has been written.
* `DerivedRows`: `Rows` in `DerivedData` gives the mapping: the checks count as a verdict when
  all of them are there and of one run. `Store` allows any versions that existed and are no
  older than those stored, `Judge` only a verdict about the rows that are stored. `Mutex` is the
  other mapping: inside is who writes derived rows, the recovery included, which takes no mutex.
* `SystemLock`: `LockMap` to `UnlockMap` are `systemLock`, `LockMutex` and `Unlock` the two
  lines at the head of `Calculate` and `RunCompliance`. `Plan` keeps of a method only which of
  its database calls are single statements and which are transactions; repeated calls of one
  kind are one. `GiveUp` is a cancelled context, an error or a panic. The mutexes are numbered
  in the order they are made. A caller waiting for a mutex cannot give up.
* `Network`: `ListPipes` and `InsertPipe` are the two halves of `CreatePipe`; the foreign
  keys accept any existing node, `Foreign` are the nodes of other systems. Nodes of type
  source and base are `Sources`, of type sprinkler and standpipe `Emitters`. The caller's
  `seq` matters only for which source is listed first, which is what `first` records.
  `ListNodes` and `ListPipesToBuild` are the two queries of `buildNetwork`, between which
  rows may be added; `Reading` is what the traversals are given.
  `Visited`, `PostOrder`, `Upstream`, `WalkEnd` are `dfs`, `postOrder`, `upstreamPipe` and the loop of
  `computeSourceRequiredPressure`; the traversals are cut off after as many levels
  as there are nodes, so that a walk without end shows as one that ends in the wrong place.
  `PutBelow` is the loop of `postOrder` over the pipes of a node.
* `Hydraulics`: the formulas of physics (discharge, friction, height of a column, velocity)
  are constants, so that a run may use small whole numbers; `Calc` only adds what they come
  to. A network is a tree given by the node above each node, since that is what
  `BuildNetwork` accepts (`Network`); of drains that no pipe leads to, which only R-drain-test counts,
  `looseDrain` says whether there are any. `Calc` sums the flows in one pass along the
  order of `postOrder`, which is `FlowsAlong`; `FlowsAt` sums them level by level, which is what
  the pass comes to (`PassIsRecursion` in `MCFigures`, evaluated by every run of it, and a theorem).
* `WaterSupply`: the code divides in float64 and rounds once; here the quotient is exact and
  rounded alike. A curve gives a set of outcomes: `sort.Slice` may leave points of equal flow
  in either order, and the slope between them is NaN or an infinity, which the build
  converts to some `int64` (`Garbage`). Results have the width of `int64` (`Int64`, four times
  `Quarter`): a float out of range is converted like an infinity (`Converted`), and the sum of
  supply and pump and the surplus wrap around (`Wrap`). What callers give and `Calc` finds is
  bounded by a quarter of that (`Figure`, `WithinBound`). Products in the rules are not wrapped.
* `Compliance`: `in` is `compliance.Input`; only the verdicts are kept. `Checkable` is false
  where a rule dereferences a result that is not stored.
* `Figures`: each method is one step, because its database calls and the life-cycle check are
  the matter of `DerivedData`. `Calculate` refuses a network that is no tree, `RunCompliance`
  judges it. What a network may be is `NetworksAssumption`; its conjunct about trees is what
  `CalcGetsTree`, a part of `BuiltIsTree`, says of the networks `BuildNetwork` returns.

## 3. The runs

Passing runs:

| run | question | instance |
|---|---|---|
| `lifecycle_racing` | Do the gates of designed, accepted and in_service hold, and is no stage skipped, in any race, crash or restart, also if the clock is set back? | 2 clients; a new system for 3 events, an installed one for 3 more; 1 test |
| `lifecycle_single` | Do state column, stream and graph agree when calls come one at a time? | 1 client, 8 events |
| `impairments_concurrent` | What survives races, cut-off calls, crashes: measures before the move, nothing lost, nothing past due when serving starts | 1 system, 2 clients, 2 impairments |
| `impairments_sequential` | What holds between undisturbed calls on adjacent systems; does stopping and starting the server keep their states? | 2 systems, 1 client, 3 impairments |
| `derived_rows` | Are derived rows stored together, from inputs never older than before, judged by the checks of one run; is a report in order; does a restart make all rows of a system past draft current, whatever was interrupted, and do runs and recovery exclude each other? | 2 clients, 2 rules, 3 edits, failures anywhere, also in the recovery |
| `system_lock` | Do runs of one system exclude each other; does nobody wait in a circle or for ever, whoever is cancelled? | 2 callers, 2 systems |
| `network_racing` | Does only a race give a node a second parent; is what `BuildNetwork` accepts a tree that the traversals cover once and leave, the one `Figures` starts from, and is every tree accepted? | 2 clients, 4 nodes and a foreign one, 3 pipes |
| `figures_adequacy` | Do flows, pressures, curves and rules fit each other: no flow lost, the remote node left with its pressure, the measured points honoured, an adequate supply enough for the remote node? | 48 networks (every tree shape of four nodes with the inner node `a` a junction, rising or falling, with a loose drain or without), and one that is no tree; 4 supplies, 3 pumps, 2 hazard classes, 2 edits |

The violation runs show that the code does not do what a comment or an error text says of it;
they are the entries under `findings`:

* `lifecycle_race`: two racing `Transition` calls write a state the graph does not reach.
* `impairments_two_active`: restoring one of two impairments puts the system in service
  while the other is active.
* `derived_restart_stale`: the recovery passes over a system whose column says draft, and then
  takes its state from the event listed last, here submitted: it comes up past draft beside a
  result older than its inputs. It takes a column and a last event that differ, by two racing
  moves or by a clock that was set back.
* `figures_velocity`: the velocity rule passes a pipe in which the water is too fast.
  `MaxVelocity` goes over `Network.Pipes`, which `BuildNetwork` leaves empty.

The models also admit the following, where a comment or an error text says otherwise. No
property claims the contrary, and no property of a passing run depends on it:

| the code | against |
|---|---|
| `Calculate` promotes without an event, so that a restart after an earlier return to draft undoes the promotion (`calculate_service.go:135`) | `main.go:56-58` "converges to the same state" |
| submitting asks for a result, however old, and for no checks (`lifecycle_service.go:76`) | `lifecycle_service.go:63` "requires compliance to have been run", `reconcile_store.go:53-54` |
| a failed test after a passed one does not prevent acceptance (`lifecycle_service.go:84`) | `test_service.go:14-15` "a failed test prevents acceptance" |
| two callers impair adjacent systems, neither with a watch (`impairment_service.go:56`) | `impairment_service.go:52-55` "must not both lose active protection" |
| a crash after the record is marked restored leaves the system impaired, or restored (`impairment_service.go:127`) | `reconcile_service.go:18-19` "converges to the same state" |
| of two racing moves the one written last need not be listed last, and a restart sets the state of the other (`lifecycle_service.go:40`) | `main.go:56-58` "converges to the same state" |
| an edit that read the state before the submission writes after it (`network_service.go:23`) | `network_service.go:24` "cannot edit network in state" |
| `CreatePipe` accepts a pipe that closes a cycle, from a node to itself or into the source; nothing deletes it, and the network can never be calculated again (`network_service.go:65`) | `network_service.go:51` "does not form a cycle" |
| of two supply points of equal flow the curve has no value; where the build converts it to the least `int64`, the surplus wraps around and the supply is judged adequate (`watersupply.go:159`) | `compliance.go:24` "supply available ≥ required at base" |
| a sprinkler with another below it delivers its own discharge only (`hydraulics.go:297`) | `hydraulics.go:254-255` "sum of all sprinkler flows in its downstream subtree" |
| a start of 0 becomes now after it was compared (`impairment_service.go:29`) | `impairment_service.go:30` "expected restore must be after start" |
| the life-cycle request moves a system to impaired without a measure (`lifecycle_service.go:97`) | `lifecycle_service.go:67` |
| the checks are rewritten row by row, outside a transaction (`calculate_service.go:207`) | `db.go:5` |
| a supply that is replaced while it is read is calculated with, without any points (`supply_store.go:60`) | `supply_store.go:46` "with all its curve points" |
| an error in the recovery is logged and the server serves (`reconcile_service.go:44-50`) | `reconcile_service.go:18-20` "converges to the same state" |
| without a water supply a restart keeps the comparison of an older result (`reconcile_service.go:101`) | `reconcile_service.go:15-17` "recomputes every derived table" |
| two callers give a node two upstream pipes; a pipe may lead to another system (`network_service.go:53-61`) | `network_service.go:50-52` |
| the rule of spare heads compares the number required with itself and cannot fail (`compliance.go:203`) | `compliance.go:21` |
| the rule of pump overspeed does not look at the rated figures (`compliance.go:296-301`) | `compliance.go:25` "& rated ≥ needs" |
| a design density above that of the class is accepted and the lower one stored (`service.go:142`) | `hazard.go:57` "may override the density upward" |
| `BuildNetwork` accepts a second source and a ring of drains (`hydraulics.go:148`, `:199`) | `hydraulics.go:133-134`, `:165-166` |

Bounds and why they are enough. Two clients show every race between two methods; the
methods keep no state that a third could tell apart. The whole main line with two racing
clients is too long a walk, so `lifecycle_racing` follows a new system over three events,
which surround designed and leave room to go back, and an installed one (a state that a
lone client reaches) over three more, to in_service; what lies beyond is covered by the
proofs, which know no bound. Eight events let a single caller walk the main line with a move
back. Three edits are a remote node, without which nothing
is calculated, and two of a network that can no longer be built and one that came after it, or of a
supply or pump that is replaced while a run is reading. Four nodes and three
pipes hold every tree on them and every cycle that fits, and a second source is one of the
nodes. Two callers and two systems show every pair of calls that meet at a lock; for more,
the proof of `SystemLockProofs` knows no bound, and its inductive invariant was also checked
with three callers. For the figures, four nodes make a branch, a chain
and a fork below a junction, and an emitter above another; the supplies have no point, two
stored out of order, two of equal flow, and a static pressure of 0; `Quarter` is 1000 in the runs,
far above every figure that is not garbage; and the pumps one that
falls beyond its rated point, one whose two points coincide, and one over the rating; two
edits give a supply and a pump, or replace one of them between a calculation and the run
that judges it. `SmallerDemandIsMet` is about pumps that do not fall below 0 at 150% of the
rated flow: the code holds the boost at 0 only from that flow on, so one that falls further,
which `CreateFirePump` accepts, would give less just before it than after. Clock bounds are one or two seconds: the code only
compares times. Symmetry is used for clients, systems and nodes in safety runs only, never
with liveness. Every bound is a constant named `Max...`. `CHECK_DEADLOCK FALSE` is set where
nobody has to make another call, so that a server whose bounds are used up may rest.

Every property of a passing run has a mutant in `PROJECT.json`: a plausible slip in one
definition (an `...Unless...`, `...AllButOne...`, `...Locked` variant beside the original)
under which TLC finds the property violated.

Fairness. `FairSpec` in `SystemLock` asks weak fairness of the steps that wait for nothing, since
the Go scheduler runs every goroutine again and a database call returns, and strong fairness of
the three that wait (`LockMap`, `LockMutex`, `Connect`): a `sync.Mutex` hands itself to the longest
waiter once that has waited a millisecond, and `database/sql` gives a connection that becomes
free to one of the waiting requests, picked at random. No fairness is asked of the callers, of
cancellation or of the clock.

## 4. The proofs

The theorems hold for every value of the constants that meets the assumptions named in the
modules, which TLC evaluates on every run. Where a theorem has a hypothesis of its own, it
says so in an `ASSUME`; the hypotheses and what happens without them are listed below. Every
inductive invariant was also checked by TLC, on the run of the module it is about. The step theorem
of each has one step, or one lemma, per action of `Next`.

`LifecycleProofs` proves, for every set of clients and every bound, that `LifecycleService`
always satisfies `TypeOK`, `DesignGate`, `HydrostaticGate`, `AcceptanceGate` and
`NoStageSkipped`. None of the four is inductive: a call in flight carries a state that was
read some time ago, and the commit trusts it; and `Restart` brings back a state from the
stream that another caller may have written over. The strengthening `IInv` says that

* whatever evidence a state stands for (a result, a passed test, an acceptance record) is
  there for the current state (`Evidence`),
* every stage up to the current state is recorded in the stream (`Reached`),
* every call in flight is justified by the rows: the state it read was reached, with its
  evidence, and once past its preconditions so is the state it will write (`CallsJustified`),
* every event is justified by the events before it (`EventsJustified`), which is what a
  restart needs.

The argument rests on `LegalMovesAdvanceByOne` (a legal move needs at most one stage more
than the state it leaves) and `JustifiedLasts` (evidence and recorded stages are never taken
back; this is why the racing commits do no harm to the gates although they break the graph).
With one call at a time it also proves `StreamIsAPath`, `StateFollowsStream`,
`StateChangesFollowGraph` and `RestartUndoesOnlyPromotion`. What they need, `StreamInv`, is that
the state a call has read is still the current one (`CallsCurrent`) and that events are stamped
in the order in which they are inserted (`EventsInTime`), so that the query of the last event
finds the one that was written last.

`ImpairmentsProofs` has an invariant for each question, over a common `IInv` (a call that moves
a system has a move left, one that writes to an impairment is about a row that is there, and
no request is served while the server is down or recovers):

* `ImpairmentsAreKept` for any callers, crashes and cut-off calls, from `IInv` alone.
* `PastDueRestoredAtStartup` likewise; `DueAreListed` says that what was due when the recovery
  began stays on its list until it is restored.
* `ImpairedHasMeasure`: `MeasuresComeFirst` says the same of the last event of each stream, from
  which a recovery takes the state back, and of the calls about to move a system.
* `EveryImpairmentMeasured`: a row without measures has a call that is still writing them
  (`MeasuresUnderWay`), also if it is restored in between.
* `AdjacentWatch`: the watch that is promised counts with those that are written, and what the
  check of the call in flight found still holds (`WatchIsPromised`).
* `OutOfServiceIsActive` and `RestartKeepsStates`: `ServiceInv` says what the one call in flight
  still has to put right, and that the stream agrees with the state column.

`DerivedDataProofs` proves `TypeOK`, `ChecksFromOneRun`, `ReportIsInOrder`, `RestartConverges` and
that `DerivedData` implements `DerivedRows`, for any callers and bounds. `IInv` (`OneWriter`) says
that a client has the mutex exactly as long as its calculation or compliance run goes on, and
that the recovery goes alone. On it rest `ChecksInv` (what a run has left of the checks), and
`VersionsInv`: result and comparison are of one calculation and of versions that exist, and what
a call has read so far is neither older than what is stored nor newer than what there is, for
each input from the step that reads it. The refinement is the hard part: that rows are never
replaced by older ones holds because reads are in the order of the method and only the holder
of the mutex stores, and that a complete set of checks judges the rows beside it because they
are deleted and inserted within the same mutex. `NoWrite` and `GoesOn` classify the twenty odd
steps that write no row, so that each invariant need look at them only once. `RecoveryInv` says
how far the recovery has come. That `DerivedData` implements `SystemMutex` too follows from
`OneWriter`, since a step is one of a single thread (`OneThreadMoves`): `SystemLock` and
`DerivedData` implement the same specification, one by the mutexes and the map, the other with
`Lock` in their place and the recovery, which takes no mutex, beside it.

`NetworkProofs` proves `TypeOK` for every caller, and `ParentsOnlyByRacing` for any finite set
of callers: the pipes that lead to a node and the callers about to add one are together never
more than the callers there are (`ClaimsBounded`), because a claim is made only where there
is no pipe yet and an insert trades the claim for the pipe. For a lone caller this is
`SingleParent`, what the comment of `CreatePipe` promises. `TreeBelowSource` and
`WalkEndsAtSource`, two of the three parts of `BuiltIsTree`, and `TreesAreBuilt` are about whatever rows callers have left; of the behaviour they need only
`SourceInv`, that the source is among the nodes. What `AssertTree` checks is local (degrees,
and a set that is reached); that this makes a tree is proved over the levels of `Visited`: a level
that adds nothing is the last, so as many levels as nodes are enough; each node but the source
that is reached has just one pipe, so that there are as many pipes as nodes less one; and a
walk up from a reached node comes to the source in as many steps as its level. For `TreesAreBuilt`,
pipes and nodes are counted: as many pipes as nodes to be reached leave none that has two.

`PostOrderProofs` goes on from there to `EachNodeAfterItsChildren` and to `CalcGetsTree`, the
third part of `BuiltIsTree`, for any network that was built. The loop of `postOrder` is taken
one pipe at a time (`LoopSteps`), the recursion one level at a time (`RecSteps`). The distance of
each node from the source and the part of the tree that hangs on it (`PartsExist`) say what the
call for a node has to put out: its part, no node twice, each behind what its pipes lead to
(`Orders`). The parts of two pipes of a node have nothing in common, so that joining orders of
them gives one (`OrdersJoin`, `LoopOrders`). `RecOrders` is an induction over the levels; that
the recursion ends is that no distance reaches the number of nodes. The same distances make the
nodes a tree in the sense of `IsTree`, which discharges the conjunct of `NetworksAssumption` on
which `FiguresProofs` rests; that nodes and pipes have figures of the right type is left to the
assumption.

`SystemLockProofs` proves, for any callers and systems, `TypeOK`, `LocksInOrder` and that
`SystemLock` implements `SystemMutex` (initial states map to initial states, every step to a
step or a stutter). That two runs of a system exclude each other is not inductive: it depends
on both having found the same mutex in the map. The strengthening `IInv` says that whoever is
between `LockMap` and `UnlockMap` holds the lock of the map (`MapLocked`), whoever has a
statement running holds the connection (`Connected`), the mutex a call was given is the one
the map has for its system (`MutexFound`), whoever runs holds it and holds nothing else
(`MutexHeld`), and a call that is not at its end has a database call left (`PlanLeft`). `MutexFound`
rests on `MapLocked`: while one caller is about to insert a mutex, no other can have found the
entry missing as well.

`FiguresProofs` proves all properties of `figures_adequacy`, for any networks, curves, pumps and
designs. `IInv` adds to `TypeOK` that a comparison is the one of its result (`Consistent`), since a
compliance run judges rows that were stored earlier, and that a stored pump gives something
(`Delivers`). The rest is about the operators of a calculation:

* `FlowsSettle`: at the depth where `FlowsAt` stops, one level more changes no flow, because at
  each level at least one node of a tree settles. With sums over the nodes (`SumOfSums`: a forest
  summed node by node is summed once), the flow at the source is that of all emitters
  (`SourceGetsAll`), which is `BaseFlowIsAllEmitters`.
* `AnyOrderGivesTheFlows`: along any order of the nodes in which each comes behind its children,
  and over a map that is filled already, as in the second pass of `Calc`, the single pass leaves
  the flows of `FlowsAt`. With `EachNodeAfterItsChildren` this is why the pass and the order
  together compute what the theorems say of flows.
* `PressureMirrorsDrops`: level by level the way down takes off what the walk up has added, hence
  `RemoteKeepsItsPressure`.
* `SortingExists`, `OneSorting` and `LineThroughPoints`: however points are stored, sorted they
  make one falling polygon through all of them, hence `CurveThroughPoints`.
* `LineFalls`, `ResidualFalls`, `BoostFalls`: an exact quotient rounded half away from zero
  preserves the order, so that supply and pump fall, also across the corners of the curve, hence
  `SmallerDemandIsMet`.
* `ComparisonAddsUp`: what is at least as much as a pressure that is not negative, less that pressure,
  does not wrap around, and a surplus that wraps has already said why (`Widths`, `WrapIsInt64`), hence `DeficitIsExplained` and `AdequateReachesRemote`. Both leave out
  the wrapped cases where they would fail: a required, or an available, pressure below 0
  (the table of section 3).

`Induction` makes this possible. The library states induction with a predicate for a parameter,
which the provers do not instantiate; here it is stated with a set (`Induct`, `InductSubsets`) and
derived from the well-foundedness of `<`. `Recursion` shows that a recursion over the natural
numbers has a solution, without which nothing could be said of a recursive definition;
`FoldExists` gives a fold over a finite set its steps, and hence the loops of `postOrder` and `Calc`
theirs, which are folds over the positions of a sequence; `SumExists` to `SumOfSums` say that
`SumFunction` is a sum, in any order and over any part.

Hypotheses, beside those on the constants:

| hypothesis | of | why |
|---|---|---|
| `OneCallAtATime` (one client, and the clock is not set back) | the four of `lifecycle_single` | `lifecycle_race` shows two callers leaving the graph; an event that is stamped before an older one is not found as the last |
| `"impaired" \notin ManualTargets` | `ImpairedHasMeasure` | the life-cycle request moves to impaired without a measure (table in section 3) |
| `~MayFail` | `EveryImpairmentMeasured` | a call cut short between row and measures leaves a row without them |
| one client, `~MayFail` | `AdjacentWatch` | two callers pass the check at once |
| one client, `~MayFail`, no manual moves | `OutOfServiceIsActive`, `RestartKeepsStates` | `impairments_two_active`; two racing moves are listed in another order than they are written; a call cut short leaves the state halfway |
| `InitialSupply = 1` | `ReportIsInOrder`, `RestartConverges`, `ImplementsDerivedRows` | without a supply the recovery keeps an old comparison |
| `WidthAssumption` and `Figure` (what callers give is within a quarter of `int64`), `WithinBound` | `FiguresProofs` | larger figures wrap around everywhere; no caller has a reason to give them |
| `WholePhysics` (formulas of physics give whole numbers) | `FiguresProofs` | the model's unit of measure; the code rounds the figures it stores |
| a finite set of callers; one caller | `ParentsOnlyByRacing`; `SingleParent` | there are as many parents as there are racing callers |

The runs that check these properties meet the same hypotheses.

Only model-checked: liveness under fairness (`EveryCallReturns`),
which the prover does not do. Every other property of a passing run is a theorem.
The findings are counterexamples, not theorems.

## 5. Not modelled, and the plan

Not modelled: the web page, the self-check, JSON decoding and error codes, random ids (taken
to be distinct), inspection records (written and listed, read by nothing), the formulas in
floating point, the clock of the tests. A database that refuses one read and accepts the next
write is left out too: `reconcileSystem` and `RunCompliance` throw the error of some reads
away and go on without the row. The clock goes back only in `LifecycleService`, and by its effect on
the order of the events in `DerivedData`.
`DerivedRows` is implemented by a system with a water supply; without one a restart keeps an
old comparison, which the table above lists.

Left for later:

1. The conjuncts of `NetworksAssumption` about single nodes and pipes (sizes, elevations, factors)
   from `CreateNode` and `CreatePipe`: `Network` leaves these data out.
2. `SystemLock` and `DerivedData` in one module. Each implements `SystemMutex`; a composition would
   take a run of `DerivedData` to the database calls that `Plan` counts.

## 6. Running

    tlc -config lifecycle_single.cfg MCLifecycle.tla
    tlapm LifecycleProofs.tla

`PROJECT.json` lists the run of every configuration and what TLC must answer.
