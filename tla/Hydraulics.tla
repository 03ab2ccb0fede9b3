----------------------------- MODULE Hydraulics -----------------------------
(***************************************************************************)
(* Calc of package hydraulics: flows and pressures of a network that has   *)
(* been built (module Network says what that is: a tree).  The formulas    *)
(* of physics are constants: what discharge, friction and height come to   *)
(* is rounded to whole numbers by each of them, and Calc only adds these.  *)
(*                                                                         *)
(* A network is a record: its source, the type, elevation, k-factor and    *)
(* own minimum pressure of each node, and, of each node but the source,    *)
(* the node above it (up) and the size of the pipe in between.  tree says  *)
(* whether BuildNetwork accepts the rows, and looseDrain whether there is  *)
(* a drain that no pipe leads to: Calc never comes to it.                  *)
(***************************************************************************)
EXTENDS Integers, FiniteSets, Functions, FiniteSetsExt, SequencesExt

CONSTANTS SprinklerFlow(_, _),   \* discharge, by k-factor and pressure
          FrictionLoss(_, _),    \* pressure loss, by pipe size and flow
          ElevationPressure(_),  \* pressure of a column of water, by its height
          Velocity(_, _)         \* by pipe size and flow

NodesOf(net) == DOMAIN net.type
PipesOf(net) == DOMAIN net.up      \* a pipe goes by the node below it

Emits(net, n) == net.type[n] \in {"sprinkler", "standpipe"}

\* Mutant: a pipe takes the place of the one before it from the same node.
LastChildOf(net, n) ==
    LET below == {m \in PipesOf(net) : net.up[m] = n}
    IN  IF below = {} THEN {} ELSE {CHOOSE m \in below : TRUE}

ChildrenOf(net, n) == {m \in PipesOf(net) : net.up[m] = n}

Depth(net) == Cardinality(NodesOf(net))

(***************************************************************************)
(* The flow at each node: of an emitter, its own discharge and nothing     *)
(* else; of any other node, the sum over the nodes below it.  The pass in  *)
(* post-order is a recursion over the tree, as deep as it has nodes.       *)
(***************************************************************************)
FlowsAt(net, pressures) ==
    LET flow[d \in Nat] ==
            [n \in NodesOf(net) |->
                IF Emits(net, n) THEN SprinklerFlow(net.k[n], pressures[n])
                ELSE IF d = 0 THEN 0
                ELSE SumFunction([m \in ChildrenOf(net, n) |-> flow[d - 1][m]])]
    IN  flow[Depth(net)]

\* The pass itself, along some order of the nodes: each flow is made of those
\* that are in the map when its turn comes, at first the ones of from.
FlowsAlong(net, order, pressures, from) ==
    FoldLeft(LAMBDA flows, n :
                 [flows EXCEPT ![n] =
                     IF Emits(net, n) THEN SprinklerFlow(net.k[n], pressures[n])
                     ELSE SumFunction([m \in ChildrenOf(net, n) |-> flows[m]])],
             from, order)

\* What postOrder gives (EachNodeAfterItsChildren of module Network): every node,
\* behind those below it.
ChildrenFirst(net, order) ==
    /\ order \in Seq(NodesOf(net))
    /\ NodesOf(net) \subseteq ToSet(order)
    /\ \A i \in DOMAIN order : \A m \in ChildrenOf(net, order[i]) :
          \E j \in 1 .. i - 1 : order[j] = m

\* What the pipe into n and the climb to n take from the pressure above it.
DropInto(net, flows, n) ==
    FrictionLoss(net.size[n], flows[n])
    + ElevationPressure(net.elevation[n] - net.elevation[net.up[n]])

\* Mutant: the climb is left out on the way up.
SourceRequiredFlat(net, remote, start, flows) ==
    LET req[d \in Nat] ==
            [n \in NodesOf(net) |->
                IF n = net.source \/ d = 0 THEN 0
                ELSE FrictionLoss(net.size[n], flows[n]) + req[d - 1][net.up[n]]]
    IN  start + req[Depth(net)][remote]

\* The pressure the source needs for the remote node to have start: the walk
\* from the remote node up to the source adds every drop.
computeSourceRequiredPressure(net, remote, start, flows) ==
    LET drops[d \in Nat] ==
            [n \in NodesOf(net) |->
                IF n = net.source \/ d = 0 THEN 0
                ELSE DropInto(net, flows, n) + drops[d - 1][net.up[n]]]
    IN  start + drops[Depth(net)][remote]

\* From the source down every drop is taken off again, on all branches.
propagatePressure(net, required, flows) ==
    LET pressure[d \in Nat] ==
            [n \in NodesOf(net) |->
                IF n = net.source \/ d = 0 THEN required
                ELSE pressure[d - 1][net.up[n]] - DropInto(net, flows, n)]
    IN  pressure[Depth(net)]

\* First all emitters discharge at the start pressure; the pressures that
\* follow give the flows of the result, and are not corrected for these.
Calc(net, remote, start) ==
    LET estimate  == FlowsAt(net, [n \in NodesOf(net) |-> start])
        required  == computeSourceRequiredPressure(net, remote, start, estimate)
        pressures == propagatePressure(net, required, estimate)
        flows     == FlowsAt(net, pressures)
    IN  [baseRequired   |-> required,
         remotePressure |-> pressures[remote],
         remoteFlow     |-> flows[remote],
         baseFlow       |-> flows[net.source],
         pressure       |-> pressures,
         flow           |-> [n \in NodesOf(net) |-> IF Emits(net, n) THEN flows[n] ELSE 0]]

\* The highest pressure in the table of a result.
MaxPressure(res) == Max({0} \union {res.pressure[n] : n \in DOMAIN res.pressure})

\* The highest velocity in the pipes that the network lists.
MaxVelocity(net, pipes, flows) ==
    Max({0} \union {Velocity(net.size[n], flows[n]) : n \in pipes})
=============================================================================
