------------------------------ MODULE Figures ------------------------------
(***************************************************************************)
(* What the numbers of one system come to: its design, network, supply and *)
(* pump, the result and comparison Calculate stores, and the verdicts of   *)
(* RunCompliance.  Composes Hydraulics, WaterSupply, Compliance, Hazard.   *)
(*                                                                         *)
(* Each service method is one step: how their database calls interleave,   *)
(* and the life-cycle check of the edits, are in module DerivedData.  The  *)
(* network is one that callers have built before (module Network).         *)
(***************************************************************************)
EXTENDS Compliance, Hazard, RootedTree

CONSTANTS Networks,    \* the networks the system may have
          Supplies,    \* supplies a caller may give, as [static, points]
          Pumps,       \* pumps a caller may give
          Designs,     \* designs a caller may ask for, as [density, area, coverage]
          Classes,     \* hazard classes a caller may give, known or not
          Flows,       \* the flows at which the curves are compared
          MaxEdits     \* bound: supplies and pumps given

ASSUME InputsAssumption == Flows \subseteq Nat \cap Figure /\ 0 \in Flows /\ MaxEdits \in Nat

\* Below the source every node has one above it; what BuildNetwork accepts is a
\* tree (CalcGetsTree of module Network).  All figures are whole numbers.
ASSUME NetworksAssumption ==
    \A w \in Networks :
        /\ w.tree \in BOOLEAN /\ w.looseDrain \in BOOLEAN
        /\ IsFiniteSet(NodesOf(w))
        /\ w.source \in NodesOf(w)
        /\ PipesOf(w) = NodesOf(w) \ {w.source}
        /\ w.up \in [PipesOf(w) -> NodesOf(w)]
        /\ w.tree => IsTree(NodesOf(w), w.source, w.up)
        /\ w.size \in [PipesOf(w) -> Int]
        /\ w.elevation \in [NodesOf(w) -> Int]
        /\ w.k \in [NodesOf(w) -> Int]
        /\ w.minPressure \in [NodesOf(w) -> Int]
ASSUME RowsAssumption ==
    /\ \A s \in Supplies : s.static \in Figure /\ s.points \in Seq([flow : Figure, pressure : Figure])
    /\ Pumps \subseteq [churn : Figure, ratedFlow : Figure, ratedHead : Figure,
                       extraFlow : Figure, extraHead : Figure]
    /\ \A d \in Designs : d.density \in Int /\ d.coverage \in Int

VARIABLES
    class,        \* projects.hazard_class, or None
    system,       \* systems, as its design, or None
    net,          \* the network
    remote,       \* systems.remote_node_id, or None
    supply,       \* water_supplies with its points, or None
    pump,         \* fire_pumps, or NoPump
    result,       \* hydraulic_results, or None
    comparison,   \* supply_comparisons, or None
    checks,       \* compliance_checks, or None
    edits         \* supplies and pumps given so far

vars == << class, system, net, remote, supply, pump, result, comparison, checks, edits >>

Init ==
    /\ class = None
    /\ system = None
    /\ net \in Networks
    /\ remote = None
    /\ supply = None
    /\ pump = NoPump
    /\ result = None
    /\ comparison = None
    /\ checks = None
    /\ edits = 0

CreateProject(c) ==
    /\ class = None
    /\ c \in DOMAIN table
    /\ class' = c
    /\ UNCHANGED << system, net, remote, supply, pump, result, comparison, checks, edits >>

\* The design is checked against the table, and then the table's is stored.
CreateSystem(d) ==
    /\ class # None
    /\ system = None
    /\ d.coverage > 0
    /\ Validate(class, d.density, d.area, Params0(class))
    /\ system' = [designArea |-> table[class].area, designDensity |-> table[class].density,
                  perHeadCoverage |-> d.coverage]
    /\ UNCHANGED << class, net, remote, supply, pump, result, comparison, checks, edits >>

SetRemoteNode(n) ==
    /\ system # None
    /\ Emits(net, n)
    /\ remote' = n
    /\ UNCHANGED << class, system, net, supply, pump, result, comparison, checks, edits >>

\* A new supply takes the place of the old one and its points.
CreateWaterSupply(s) ==
    /\ system # None
    /\ edits < MaxEdits
    /\ s.static > 0
    /\ supply' = s
    /\ edits' = edits + 1
    /\ UNCHANGED << class, system, net, remote, pump, result, comparison, checks >>

\* Mutant: the pump is stored whatever its churn pressure.
CreateAnyFirePump(p) ==
    /\ system # None
    /\ edits < MaxEdits
    /\ p.churn > 0 /\ p.ratedFlow > 0 /\ p.ratedHead > 0
    /\ pump' = p
    /\ edits' = edits + 1
    /\ UNCHANGED << class, system, net, remote, supply, result, comparison, checks >>

\* The point at 150% is taken as it is given.
CreateFirePump(p) ==
    /\ system # None
    /\ edits < MaxEdits
    /\ p.churn > 0 /\ p.ratedFlow > 0 /\ p.ratedHead > 0
    /\ p.churn <= maxPressure
    /\ pump' = p
    /\ edits' = edits + 1
    /\ UNCHANGED << class, system, net, remote, supply, result, comparison, checks >>

\* The pressure the remote node starts at.
remoteStartPressure ==
    IF net.minPressure[remote] > 0 THEN net.minPressure[remote] ELSE remoteMinPressure

\* Mutant: without a supply the comparison is left as it is made, false and zero.
CompareOrNothing(res) ==
    IF supply = None
    THEN {[flow |-> res.baseFlow, available |-> 0, required |-> res.baseRequired,
           surplus |-> -res.baseRequired, needsPump |-> FALSE, pumpAdded |-> FALSE]}
    ELSE Compare(supply, pump, res.baseFlow, res.baseRequired)

\* Without a supply the comparison only says what is required.
CompareOrRequire(res) ==
    IF supply = None
    THEN {[flow |-> res.baseFlow, available |-> 0, required |-> res.baseRequired,
           surplus |-> -res.baseRequired, needsPump |-> TRUE, pumpAdded |-> FALSE]}
    ELSE Compare(supply, pump, res.baseFlow, res.baseRequired)

\* Bound: the figures of a result are far from the ends of int64.
WithinBound(res) ==
    /\ res.baseRequired \in Figure /\ res.baseFlow \in Figure
    /\ \A n \in NodesOf(net) : res.pressure[n] \in Figure /\ res.flow[n] \in Figure

Calculate ==
    /\ remote # None
    /\ net.tree
    /\ result' = Calc(net, remote, remoteStartPressure)
    /\ WithinBound(result')
    /\ comparison' \in CompareOrRequire(result')
    /\ UNCHANGED << class, system, net, remote, supply, pump, checks, edits >>

Input == [system |-> system, net |-> net, pump |-> pump, result |-> result, comparison |-> comparison]

\* A panic in a rule stores nothing.
RunCompliance ==
    /\ system # None
    /\ Checkable(Input)
    /\ checks' = Check(Input)
    /\ UNCHANGED << class, system, net, remote, supply, pump, result, comparison, edits >>

Next ==
    \/ \E c \in Classes : CreateProject(c)
    \/ \E d \in Designs : CreateSystem(d)
    \/ \E n \in NodesOf(net) : SetRemoteNode(n)
    \/ \E s \in Supplies : CreateWaterSupply(s)
    \/ \E p \in Pumps : CreateFirePump(p)
    \/ Calculate
    \/ RunCompliance

Spec == Init /\ [][Next]_vars

----------------------------------------------------------------------------
(* Properties *)

\* Every row is there or not, and holds whole numbers; a stored pump keeps to
\* the rating that was asked of it.
TypeOK ==
    /\ class \in AllClasses \union {None}
    /\ system # None => system.perHeadCoverage \in Nat \ {0} /\ system.designDensity \in Nat
    /\ net \in Networks
    /\ remote \in NodesOf(net) \union {None}
    /\ supply \in Supplies \union {None}
    /\ pump \in {p \in Pumps : p.churn <= maxPressure} \union {NoPump}
    /\ result # None => result.pressure \in [NodesOf(net) -> Figure]
    /\ comparison # None => comparison.available \in Int64 /\ comparison.surplus \in Int64
    /\ checks # None => checks \in [Rules -> BOOLEAN]
    /\ edits \in Nat

\* The table of a result is consistent: carried up to the source and back down
\* over the same pipes, the pressure of the remote node is the one it started
\* from, whatever the other branches, and emitters above it, do to the flows.
RemoteKeepsItsPressure ==
    [][result' # result => result'.remotePressure = remoteStartPressure]_vars

\* An emitter that feeds another one.
EmitterAbove(n) == \E m \in PipesOf(net) : net.up[m] = n /\ Emits(net, n)

\* What the source delivers is what all emitters discharge: no branch is lost
\* or counted twice, although flows are summed at every node on the way.
\* (An emitter with a node below it keeps that branch's flow to itself.)
BaseFlowIsAllEmitters ==
    result # None /\ (\A n \in NodesOf(net) : ~EmitterAbove(n)) =>
        result.baseFlow = SumFunction(result.flow)

\* Supply points in the order of a falling curve, and a pump that falls too,
\* but not below 0 before its last point (from there on it is held at 0).
FallingSupply ==
    /\ supply # None
    /\ \A i \in DOMAIN supply.points :
          /\ supply.points[i].flow > 0
          /\ supply.points[i].pressure \in 0 .. supply.static
          /\ \A j \in DOMAIN supply.points :
                supply.points[i].flow <= supply.points[j].flow /\ i # j =>
                    /\ supply.points[i].flow # supply.points[j].flow
                    /\ supply.points[i].pressure >= supply.points[j].pressure
FallingPump ==
    pump # NoPump =>
        /\ pump.ratedFlow < pump.extraFlow
        /\ pump.churn >= pump.ratedHead /\ pump.ratedHead >= pump.extraHead
        /\ pump.extraHead >= 0

\* A measured supply is honoured: the curve gives each measured point back,
\* whatever the order they were stored in, and the static pressure at rest.
CurveThroughPoints ==
    FallingSupply =>
        /\ residualAt(supply, 0) = {supply.static}
        /\ \A i \in DOMAIN supply.points :
              residualAt(supply, supply.points[i].flow) = {supply.points[i].pressure}

\* A supply that is enough at some flow is enough at any smaller one, although
\* the pump may cut in between the two: a smaller demand never fails a system.
SmallerDemandIsMet ==
    FallingSupply /\ FallingPump =>
        \A q, r \in Flows, need \in 1 .. maxPressure :
            r <= q /\ (\E c \in Compare(supply, pump, q, need) : c.surplus >= 0) =>
                \A c \in Compare(supply, pump, r, need) : c.surplus >= 0

\* A comparison that falls short says why: a pump is needed, or the one there
\* is too small.  The third explanation of R-supply-adequacy is never given,
\* whatever a curve without slope is converted to, as long as pressure is required.
DeficitIsExplained ==
    comparison # None /\ comparison.required >= 0 /\ comparison.surplus < 0 =>
        comparison.needsPump \/ comparison.pumpAdded

\* End to end over network, curves and rules: with the supply judged adequate,
\* what it delivers at the base still leaves the remote node of the result its
\* minimum pressure, after every drop on the way.  (Not if that is negative, as
\* where a curve has no value: the surplus of the least int64 wraps around.)
AdequateReachesRemote ==
    [][/\ checks' # checks /\ checks'.supply_adequacy /\ checks'.remote_pressure
       /\ comparison.available >= 0
       => comparison.available - (result.pressure[net.source] - result.remotePressure)
             >= remoteMinPressure]_vars

----------------------------------------------------------------------------
(* What a comment promises and the code does not keep *)

\* compliance.go:20: pipe velocity at most 6.1 m/s.
PassedPipesAreSlow ==
    [][checks' # checks /\ checks'.velocity =>
          \A n \in PipesOf(net) :
              Velocity(net.size[n], subtreeEmitterFlows(net, result)[n]) <= velocityLimit]_vars
=============================================================================
