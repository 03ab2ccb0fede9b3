----------------------------- MODULE Compliance -----------------------------
(***************************************************************************)
(* The ten rules of package compliance, over the inputs and the derived    *)
(* rows a run has read: in is a record of the system, the network, the     *)
(* pump, the result and the comparison, the last three possibly missing.   *)
(***************************************************************************)
EXTENDS Hydraulics, WaterSupply

CONSTANTS None,               \* a row that is not there
          remoteMinPressure,  \* at the most unfavourable sprinkler
          maxPressure,        \* rating of the components
          velocityLimit       \* in any pipe

ASSUME LimitsAssumption ==
    /\ remoteMinPressure \in Nat \ {0} /\ maxPressure \in Nat \cap Figure /\ velocityLimit \in Nat

checkRemotePressure(in) ==
    in.result # None /\ in.result.remotePressure >= remoteMinPressure

checkDensity(in) ==
    /\ in.result # None
    /\ in.system.perHeadCoverage > 0
    /\ (in.result.remoteFlow * 100) \div in.system.perHeadCoverage >= in.system.designDensity

\* The emitters' flows of a result, at each node summed over all that lies below.
subtreeEmitterFlows(net, res) ==
    LET sum[d \in Nat] ==
            [n \in NodesOf(net) |->
                res.flow[n]
                + IF d = 0 THEN 0 ELSE SumFunction([m \in ChildrenOf(net, n) |-> sum[d - 1][m]])]
    IN  sum[Depth(net)]

\* The pipes in Network.Pipes, which BuildNetwork leaves empty.
ListedPipes(net) == {}

\* With a network that was built, the result is taken to be there.
checkVelocity(in) ==
    /\ in.net.tree /\ PipesOf(in.net) # {}
    /\ MaxVelocity(in.net, ListedPipes(in.net), subtreeEmitterFlows(in.net, in.result))
         <= velocityLimit

checkMaxPressure(in) == in.result # None /\ MaxPressure(in.result) <= maxPressure

spareHeadsRequired(heads) ==
    CASE heads < 300                  -> 6
      [] heads >= 300 /\ heads < 1000 -> 12
      [] heads >= 1000                -> 24

\* No count of spare heads is stored: the number required is compared with itself.
checkSpareHeads(in) ==
    LET heads == Cardinality({n \in NodesOf(in.net) : Emits(in.net, n)})
    IN  heads = 0 \/ spareHeadsRequired(heads) >= 6

\* Also of a drain that no pipe leads to.
checkDrainTest(in) ==
    in.net.looseDrain \/ \E n \in NodesOf(in.net) : in.net.type[n] = "drain"

\* Mutant: a pump is taken to be enough.
SupplyOrPump(in) == in.comparison # None /\ (in.comparison.surplus >= 0 \/ in.comparison.pumpAdded)

checkSupplyAdequacy(in) == in.comparison # None /\ in.comparison.surplus >= 0

checkPumpOverspeed(in) == in.pump = NoPump \/ in.pump.churn <= maxPressure

\* The verdict of every rule.  R-velocity dereferences the result of a network
\* that was built: Checkable says that it does not panic.
Checkable(in) == in.net.tree /\ PipesOf(in.net) # {} => in.result # None

Check(in) ==
    [remote_pressure |-> checkRemotePressure(in),
     density         |-> checkDensity(in),
     velocity        |-> checkVelocity(in),
     max_pressure    |-> checkMaxPressure(in),
     spare_heads     |-> checkSpareHeads(in),
     drain_test      |-> checkDrainTest(in),
     supply_adequacy |-> checkSupplyAdequacy(in),
     tree_integrity  |-> in.net.tree,
     pump_overspeed  |-> checkPumpOverspeed(in),
     single_design   |-> in.result # None]

Rules == {"remote_pressure", "density", "velocity", "max_pressure", "spare_heads", "drain_test",
          "supply_adequacy", "tree_integrity", "pump_overspeed", "single_design"}
=============================================================================
