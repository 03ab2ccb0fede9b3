--------------------------- MODULE FiguresProofs ---------------------------
(***************************************************************************)
(* Theorems about module Figures, for all networks, supplies, pumps and    *)
(* designs.  Of the formulas of physics they ask only that they give whole *)
(* numbers.                                                                *)
(***************************************************************************)
EXTENDS Figures, Induction

\* Discharge, friction and height are rounded to whole numbers.
WholePhysics ==
    /\ \A k, p \in Int : SprinklerFlow(k, p) \in Int
    /\ \A s, q \in Int : FrictionLoss(s, q) \in Int
    /\ \A h \in Int : ElevationPressure(h) \in Int

-----------------------------------------------------------------------------
(* Flows and pressures of one network *)

\* One level of the recursion of the flows, and what it comes to at all levels.
Gather(w, p, v) ==
    [n \in NodesOf(w) |->
        IF Emits(w, n) THEN SprinklerFlow(w.k[n], p[n])
        ELSE SumFunction([m \in ChildrenOf(w, n) |-> v[m]])]
FlowsBy(f, w, p) ==
    /\ f \in [Nat -> [NodesOf(w) -> Int]]
    /\ \A d \in Nat : f[d + 1] = Gather(w, p, f[d])
    /\ FlowsAt(w, p) = f[Depth(w)]

\* Gathering whole numbers gives whole numbers, whatever the shape of the network.
LEMMA GatherIsWhole ==
    ASSUME NEW w \in Networks, NEW p \in [NodesOf(w) -> Int], WholePhysics,
           NEW v \in [NodesOf(w) -> Int]
    PROVE  Gather(w, p, v) \in [NodesOf(w) -> Int]
  <1> SUFFICES ASSUME NEW n \in NodesOf(w)
               PROVE  /\ SprinklerFlow(w.k[n], p[n]) \in Int
                      /\ SumFunction([m \in ChildrenOf(w, n) |-> v[m]]) \in Int
    BY DEF Gather
  <1>1. SprinklerFlow(w.k[n], p[n]) \in Int
    BY NetworksAssumption DEF WholePhysics
  <1>2. ChildrenOf(w, n) \subseteq NodesOf(w) /\ IsFiniteSet(ChildrenOf(w, n))
    BY NetworksAssumption, FS_Subset DEF ChildrenOf
  <1>3. [m \in ChildrenOf(w, n) |-> v[m]] \in [ChildrenOf(w, n) -> Int]
    BY <1>2
  <1>4. QED
    BY <1>1, <1>2, <1>3, SumIsWhole

\* The recursion of FlowsAt has a solution, and all its levels are whole numbers.
LEMMA FlowsExist ==
    ASSUME NEW w \in Networks, NEW p \in [NodesOf(w) -> Int], WholePhysics
    PROVE  \E f : FlowsBy(f, w, p)
  <1> DEFINE N == NodesOf(w)
             T == [N -> Int]
             own(n) == SprinklerFlow(w.k[n], p[n])
             base == [n \in N |-> IF Emits(w, n) THEN own(n) ELSE 0]
             after(g) == [n \in N |-> IF Emits(w, n) THEN own(n)
                                      ELSE SumFunction([m \in ChildrenOf(w, n) |-> g[m]])]
             step == [d \in Nat |-> [g \in T |-> after(g)]]
             Equation(g) ==
                g = [d \in Nat |->
                        [n \in N |-> IF Emits(w, n) THEN own(n)
                                     ELSE IF d = 0 THEN 0
                                     ELSE SumFunction([m \in ChildrenOf(w, n) |-> g[d - 1][m]])]]
             flow == CHOOSE g : Equation(g)
  <1>1. \A n \in N : own(n) \in Int
    BY NetworksAssumption DEF WholePhysics
  <1>2. \A g : after(g) = Gather(w, p, g)
    BY DEF Gather
  <1>3. \A g \in T : after(g) \in T
    <2> HIDE DEF after
    <2>1. QED
      BY <1>2, GatherIsWhole
  <1>4. base \in T
    BY <1>1
  <1>5. PICK h : Follows(h, T, base, step)
    <2>1. step \in Steps(T)
      <3> HIDE DEF T, after
      <3>1. QED
        BY <1>3 DEF Steps
    <2> HIDE DEF T, base, step
    <2>2. QED
      BY <1>4, <2>1, Recursion
  <1>6. Equation(h)
    <2>1. h[0] = base /\ \A d \in Nat : h[d + 1] = after(h[d])
      <3> HIDE DEF T, base, after
      <3>1. QED
        BY <1>5 DEF Follows
    <2>2. ASSUME NEW d \in Nat
          PROVE  h[d] = [n \in N |-> IF Emits(w, n) THEN own(n)
                                     ELSE IF d = 0 THEN 0
                                     ELSE SumFunction([m \in ChildrenOf(w, n) |-> h[d - 1][m]])]
      <3>1. CASE d = 0
        BY <2>1, <3>1
      <3>2. CASE d # 0
        <4>1. d - 1 \in Nat /\ (d - 1) + 1 = d
          BY <3>2
        <4>2. h[d] = after(h[d - 1])
          BY <2>1, <4>1
        <4>3. QED
          BY <3>2, <4>2
      <3>3. QED
        BY <3>1, <3>2
    <2>3. h \in [Nat -> T]
      BY <1>5 DEF Follows
    <2>4. QED
      BY <2>2, <2>3
  <1>7. Equation(flow)
    <2> HIDE DEF Equation
    <2>1. QED
      BY <1>6
  <1>8. FlowsAt(w, p) = flow[Depth(w)]
    BY DEF FlowsAt
  <1> HIDE DEF flow
  <1>9. ASSUME NEW d \in Nat
        PROVE  flow[d + 1] = after(flow[d])
    <2>1. d + 1 \in Nat /\ d + 1 # 0 /\ (d + 1) - 1 = d
      OBVIOUS
    <2>2. flow[d + 1] = [n \in N |-> IF Emits(w, n) THEN own(n)
                                     ELSE IF d + 1 = 0 THEN 0
                                     ELSE SumFunction([m \in ChildrenOf(w, n) |-> flow[(d + 1) - 1][m]])]
      BY <1>7, <2>1
    <2>3. QED
      BY <2>1, <2>2
  <1> DEFINE Typed == {d \in Nat : flow[d] \in T}
  <1>10. 0 \in Typed
    BY <1>1, <1>7
  <1>11. ASSUME NEW d \in Nat, d \in Typed
         PROVE  d + 1 \in Typed
    <2>1. flow[d] \in T /\ flow[d + 1] = after(flow[d])
      BY <1>9, <1>11
    <2> HIDE DEF T, after
    <2>2. QED
      BY <1>3, <2>1
  <1>12. Nat \subseteq Typed
    <2> HIDE DEF Typed
    <2>1. QED
      BY <1>10, <1>11, Induct
  <1>13. flow \in [Nat -> T]
    <2>1. flow = [d \in Nat |-> flow[d]]
      BY <1>7
    <2> HIDE DEF T, Equation
    <2>2. QED
      BY <1>12, <2>1
  <1> HIDE DEF T, after, Equation
  <1>14. FlowsBy(flow, w, p)
    BY <1>2, <1>8, <1>9, <1>13 DEF FlowsBy, T
  <1>15. QED
    BY <1>14

\* The flow at every node is a whole number.
LEMMA FlowsAreWhole ==
    ASSUME NEW w \in Networks, NEW p \in [NodesOf(w) -> Int], WholePhysics
    PROVE  FlowsAt(w, p) \in [NodesOf(w) -> Int]
  <1>1. PICK f : FlowsBy(f, w, p)
    BY FlowsExist
  <1>2. Depth(w) \in Nat
    BY NetworksAssumption, FS_CardinalityType DEF Depth
  <1>3. QED
    BY <1>1, <1>2 DEF FlowsBy

\* In a tree the recursion has settled at the depth at which FlowsAt stops: one
\* level more would change no flow.  (At each level at least one node settles,
\* a lowest one of those that have not: nothing below it changes any more.)
LEMMA FlowsSettle ==
    ASSUME NEW w \in Networks, w.tree, NEW p \in [NodesOf(w) -> Int], WholePhysics
    PROVE  FlowsAt(w, p) = Gather(w, p, FlowsAt(w, p))
  <1> DEFINE N == NodesOf(w)
             D == Depth(w)
  <1>1. PICK f : FlowsBy(f, w, p)
    BY FlowsExist
  <1>2. IsFiniteSet(N) /\ D = Cardinality(N) /\ D \in Nat
    BY NetworksAssumption, FS_CardinalityType DEF Depth
  <1> DEFINE Settled(d) == {n \in N : \A e \in Nat : d <= e => f[e + 1][n] = f[e][n]}
  <1>3. \A d \in Nat : IsFiniteSet(Settled(d)) /\ Cardinality(Settled(d)) \in Nat
    <2> SUFFICES ASSUME NEW d \in Nat
                 PROVE  IsFiniteSet(Settled(d)) /\ Cardinality(Settled(d)) \in Nat
      OBVIOUS
    <2>1. Settled(d) \subseteq N
      OBVIOUS
    <2> HIDE DEF Settled
    <2>2. QED
      BY <1>2, <2>1, FS_Subset, FS_CardinalityType
  <1> DEFINE U == {d \in Nat : Settled(d) = N \/ Cardinality(Settled(d)) >= d}
  <1>4. 0 \in U
    <2> HIDE DEF Settled
    <2>1. QED
      BY <1>3
  <1>5. ASSUME NEW d \in Nat, d \in U
        PROVE  d + 1 \in U
    <2>1. Settled(d) \subseteq Settled(d + 1) /\ Settled(d + 1) \subseteq N
      OBVIOUS
    <2>2. CASE Settled(d) = N
      <3> HIDE DEF Settled
      <3>1. QED
        BY <2>1, <2>2
    <2>3. CASE Settled(d) # N
      <3>1. PICK n \in N \ Settled(d) : ChildrenOf(w, n) \intersect (N \ Settled(d)) = {}
        <4> DEFINE B == N \ Settled(d)
        <4>1. B \in SUBSET N /\ B # {}
          BY <2>3
        <4> HIDE DEF B
        <4>2. IsTree(N, w.source, w.up) /\ PipesOf(w) = N \ {w.source}
          BY NetworksAssumption
        <4>3. PICK n \in B : \A m \in B \ {w.source} : w.up[m] # n
          BY <4>1, <4>2 DEF IsTree
        <4>4. ChildrenOf(w, n) \intersect B = {}
          BY <4>2, <4>3 DEF ChildrenOf
        <4>5. QED
          BY <4>4 DEF B
      <3>2. ChildrenOf(w, n) \subseteq Settled(d)
        <4>1. ChildrenOf(w, n) \subseteq N
          BY NetworksAssumption DEF ChildrenOf
        <4> HIDE DEF Settled
        <4>2. QED
          BY <3>1, <4>1
      <3>3. ASSUME NEW e \in Nat, d + 1 <= e
            PROVE  f[e + 1][n] = f[e][n]
        <4>1. e - 1 \in Nat /\ (e - 1) + 1 = e /\ d <= e - 1
          BY <3>3
        <4>2. \A m \in ChildrenOf(w, n) : f[e][m] = f[e - 1][m]
          BY <3>2, <4>1
        <4>3. [m \in ChildrenOf(w, n) |-> f[e][m]] = [m \in ChildrenOf(w, n) |-> f[e - 1][m]]
          BY <4>2
        <4>4. f[e + 1] = Gather(w, p, f[e]) /\ f[e] = Gather(w, p, f[e - 1])
          BY <1>1, <4>1 DEF FlowsBy
        <4>5. Gather(w, p, f[e])[n] = Gather(w, p, f[e - 1])[n]
          BY <4>3 DEF Gather
        <4>6. QED
          BY <4>4, <4>5
      <3>4. n \in Settled(d + 1)
        BY <3>3
      <3> DEFINE more == Settled(d) \union {n}
      <3>5. Cardinality(more) = Cardinality(Settled(d)) + 1
        <4> HIDE DEF Settled
        <4>1. QED
          BY <1>3, <3>1, FS_AddElement
      <3>6. more \subseteq Settled(d + 1)
        BY <2>1, <3>4
      <3> HIDE DEF Settled, more
      <3>7. Cardinality(more) <= Cardinality(Settled(d + 1))
        BY <1>3, <3>6, FS_Subset
      <3>8. Cardinality(Settled(d)) >= d
        BY <1>5, <2>3
      <3>9. Cardinality(more) \in Nat /\ Cardinality(Settled(d)) \in Nat
              /\ Cardinality(Settled(d + 1)) \in Nat
        BY <1>3, <3>5
      <3>10. QED
        BY <3>5, <3>7, <3>8, <3>9
    <2>4. QED
      BY <2>2, <2>3
  <1>6. Settled(D) = N
    <2>1. Nat \subseteq U
      <3> HIDE DEF U
      <3>1. QED
        BY <1>4, <1>5, Induct
    <2>2. Settled(D) \subseteq N
      OBVIOUS
    <2> HIDE DEF Settled
    <2>3. Settled(D) = N \/ Cardinality(Settled(D)) >= Cardinality(N)
      BY <1>2, <2>1
    <2>4. Cardinality(Settled(D)) <= Cardinality(N)
      BY <1>2, <2>2, FS_Subset
    <2>5. Cardinality(Settled(D)) = Cardinality(N) => Settled(D) = N
      BY <1>2, <2>2, FS_Subset
    <2>6. Cardinality(Settled(D)) \in Nat /\ Cardinality(N) \in Nat
      BY <1>2, <1>3
    <2>7. QED
      BY <2>3, <2>4, <2>5, <2>6
  <1>7. \A n \in N : f[D + 1][n] = f[D][n]
    BY <1>2, <1>6
  <1>8. f[D + 1] = f[D]
    <2>1. f[D + 1] \in [N -> Int] /\ f[D] \in [N -> Int]
      BY <1>1, <1>2 DEF FlowsBy
    <2> HIDE DEF D, N
    <2>2. QED
      BY <1>7, <2>1
  <1>9. QED
    BY <1>1, <1>2, <1>8 DEF FlowsBy

\* The map of the flows when the pass has come to the k-th node of the order.
PassOver(out, w, order, p, from) ==
    /\ out \in [0 .. Len(order) -> [NodesOf(w) -> Int]]
    /\ out[0] = from
    /\ \A k \in 0 .. Len(order) - 1 :
          out[k + 1] = [out[k] EXCEPT ![order[k + 1]] = Gather(w, p, out[k])[order[k + 1]]]
    /\ FlowsAlong(w, order, p, from) = out[Len(order)]

\* The pass sets one flow after the other, from the first node of the order.
LEMMA PassSteps ==
    ASSUME NEW w \in Networks, NEW p \in [NodesOf(w) -> Int], WholePhysics,
           NEW order \in Seq(NodesOf(w)), NEW from \in [NodesOf(w) -> Int]
    PROVE  \E out : PassOver(out, w, order, p, from)
  <1> DEFINE D == DOMAIN order
             V == [NodesOf(w) -> Int]
             Set(n, v) ==
                [v EXCEPT ![n] = IF Emits(w, n) THEN SprinklerFlow(w.k[n], p[n])
                                 ELSE SumFunction([m \in ChildrenOf(w, n) |-> v[m]])]
             Step(i, v) == Set(order[i], v)
             op == [i \in D |-> [v \in V |-> Step(i, v)]]
             pick == [s \in SUBSET D |-> Max(s)]
             Equation(f) == f = [s \in SUBSET D |-> IF s = {} THEN from
                                                    ELSE Step(Max(s), f[s \ {Max(s)}])]
             iter == CHOOSE f : Equation(f)
             out == [k \in 0 .. Len(order) |-> iter[1 .. k]]
  <1>1. D = 1 .. Len(order) /\ Len(order) \in Nat /\ IsFiniteSet(D)
    <2>1. D = 1 .. Len(order) /\ Len(order) \in Nat
      OBVIOUS
    <2>2. QED
      BY <2>1, FS_Interval
  <1>2. \A s \in SUBSET D : s # {} => Max(s) \in s
    BY <1>1, GreatestNumber
  <1>3. \A i \in D, v \in V :
           /\ Step(i, v) = [v EXCEPT ![order[i]] = Gather(w, p, v)[order[i]]]
           /\ Step(i, v) \in V
    <2> SUFFICES ASSUME NEW i \in D, NEW v \in V
                 PROVE  /\ Step(i, v) = [v EXCEPT ![order[i]] = Gather(w, p, v)[order[i]]]
                        /\ Step(i, v) \in V
      OBVIOUS
    <2>1. order[i] \in NodesOf(w)
      OBVIOUS
    <2>2. Gather(w, p, v) \in V
      BY GatherIsWhole
    <2>3. Step(i, v) = [v EXCEPT ![order[i]] = Gather(w, p, v)[order[i]]]
      BY <2>1 DEF Gather
    <2> HIDE DEF Step
    <2>4. QED
      BY <2>1, <2>2, <2>3
  <1>4. FlowsAlong(w, order, p, from) = iter[D]
    BY DEF FlowsAlong, FoldLeft, MapThenFoldSet
  <1> HIDE DEF Step
  <1>5. PICK fold \in [SUBSET D -> V] : FoldsUp(fold, D, from, op, pick)
    <2>1. /\ from \in V /\ op \in [D -> [V -> V]]
          /\ \A s \in SUBSET D : s # {} => pick[s] \in s
      <3> HIDE DEF D, V
      <3>1. op \in [D -> [V -> V]] /\ \A s \in SUBSET D : s # {} => pick[s] \in s
        BY <1>2, <1>3
      <3>2. QED
        BY <3>1 DEF V
    <2>2. IsFiniteSet(D)
      BY <1>1
    <2> HIDE DEF op, pick, D, V
    <2>3. QED
      BY <2>1, <2>2, FoldExists, Zenon
  <1>6. Equation(fold)
    <2> HIDE DEF D, V
    <2>1. fold = [s \in SUBSET D |-> IF s = {} THEN from ELSE op[pick[s]][fold[s \ {pick[s]}]]]
      BY <1>5 DEF FoldsUp
    <2>2. ASSUME NEW s \in SUBSET D, s # {}
          PROVE  op[pick[s]][fold[s \ {pick[s]}]] = Step(Max(s), fold[s \ {Max(s)}])
      <3>1. pick[s] = Max(s) /\ Max(s) \in D /\ fold[s \ {Max(s)}] \in V
        BY <1>2, <2>2
      <3>2. QED
        BY <3>1
    <2> HIDE DEF op, pick
    <2>3. QED
      BY <2>1, <2>2
  <1>7. Equation(iter)
    <2> HIDE DEF Equation
    <2>1. QED
      BY <1>6
  <1> HIDE DEF iter, V
  <1>8. iter[1 .. 0] = from
    <2>1. 1 .. 0 = {}
      OBVIOUS
    <2>2. iter[{}] = from
      BY <1>7
    <2>3. QED
      BY <2>1, <2>2
  <1>9. ASSUME NEW k \in 0 .. Len(order) - 1
        PROVE  iter[1 .. (k + 1)] = Step(k + 1, iter[1 .. k])
    <2> DEFINE s == 1 .. (k + 1)
    <2>1. s \in SUBSET D /\ s # {} /\ k \in Nat
      <3>1. k \in Nat /\ k + 1 <= Len(order)
        BY <1>1
      <3>2. s \subseteq 1 .. Len(order) /\ s # {}
        <4>1. Len(order) \in Nat /\ 1 \in s
          BY <1>1, <3>1
        <4>2. \A x \in s : x \in 1 .. Len(order)
          BY <3>1, <4>1
        <4>3. QED
          BY <4>1, <4>2
      <3>3. QED
        BY <1>1, <3>1, <3>2
    <2>2. Max(s) = k + 1 /\ s \ {Max(s)} = 1 .. k
      <3>1. Max(s) = k + 1 /\ s \ {k + 1} = 1 .. k
        BY <2>1, LastOfFirst
      <3> HIDE DEF s
      <3>2. QED
        BY <3>1
    <2> HIDE DEF s
    <2>3. iter[s] = Step(Max(s), iter[s \ {Max(s)}])
      BY <1>7, <2>1
    <2>4. QED
      BY <2>2, <2>3 DEF s
  <1>10. \A k \in 0 .. Len(order) : iter[1 .. k] \in V
    <2> DEFINE U == {k \in Nat : k <= Len(order) => iter[1 .. k] \in V}
    <2>1. 0 \in U
      BY <1>8 DEF V
    <2>2. ASSUME NEW k \in Nat, k \in U
          PROVE  k + 1 \in U
      <3> SUFFICES ASSUME k + 1 <= Len(order)
                   PROVE  iter[1 .. (k + 1)] \in V
        OBVIOUS
      <3>1. k \in 0 .. Len(order) - 1 /\ k + 1 \in D /\ iter[1 .. k] \in V
        BY <1>1, <2>2
      <3>2. Step(k + 1, iter[1 .. k]) \in V
        BY <1>3, <3>1
      <3>3. QED
        BY <1>9, <3>1, <3>2
    <2>3. Nat \subseteq U
      <3> HIDE DEF U
      <3>1. QED
        BY <2>1, <2>2, Induct
    <2>4. QED
      BY <1>1, <2>3
  <1>11. PassOver(out, w, order, p, from)
    <2>1. out \in [0 .. Len(order) -> V]
      BY <1>10
    <2>2. out[0] = from
      <3>1. 0 \in 0 .. Len(order)
        BY <1>1
      <3>2. QED
        BY <1>8, <3>1
    <2>3. FlowsAlong(w, order, p, from) = out[Len(order)]
      BY <1>1, <1>4
    <2>4. ASSUME NEW k \in 0 .. Len(order) - 1
          PROVE  out[k + 1] = [out[k] EXCEPT ![order[k + 1]] = Gather(w, p, out[k])[order[k + 1]]]
      <3>1. k \in 0 .. Len(order) /\ k + 1 \in 0 .. Len(order) /\ k + 1 \in D
        BY <1>1
      <3>2. out[k + 1] = Step(k + 1, out[k]) /\ out[k] \in V
        BY <1>9, <2>1, <3>1
      <3> HIDE DEF out
      <3>3. QED
        BY <1>3, <3>1, <3>2
    <2> HIDE DEF out
    <2>5. QED
      BY <2>1, <2>2, <2>3, <2>4 DEF PassOver, V
  <1>12. QED
    BY <1>11

\* In whatever order the nodes are passed, as long as every node comes behind
\* those below it, and whatever the map held before, the pass ends with the flows
\* of FlowsAt: of an emitter its own discharge, of any other node the sum over
\* the nodes below it.  Both passes of Calc are along such an order.
THEOREM AnyOrderGivesTheFlows ==
    ASSUME NEW w \in Networks, w.tree, NEW p \in [NodesOf(w) -> Int], WholePhysics,
           NEW order, ChildrenFirst(w, order), NEW from \in [NodesOf(w) -> Int]
    PROVE  FlowsAlong(w, order, p, from) = FlowsAt(w, p)
  <1> DEFINE N == NodesOf(w)
             L == Len(order)
             flows == FlowsAt(w, p)
  <1>1. /\ order \in Seq(N) /\ L \in Nat /\ DOMAIN order = 1 .. L
        /\ \A n \in N : \E i \in 1 .. L : order[i] = n
        /\ \A i \in 1 .. L : \A m \in ChildrenOf(w, order[i]) : \E j \in 1 .. i - 1 : order[j] = m
    <2>1. order \in Seq(N) /\ L \in Nat /\ DOMAIN order = 1 .. L
      BY DEF ChildrenFirst
    <2>2. QED
      BY <2>1 DEF ChildrenFirst, ToSet
  <1>2. PICK out : PassOver(out, w, order, p, from)
    BY <1>1, PassSteps
  <1>3. /\ out \in [0 .. L -> [N -> Int]]
        /\ \A k \in 0 .. L - 1 :
              out[k + 1] = [out[k] EXCEPT ![order[k + 1]] = Gather(w, p, out[k])[order[k + 1]]]
        /\ FlowsAlong(w, order, p, from) = out[L]
    BY <1>2 DEF PassOver
  <1>4. flows \in [N -> Int] /\ flows = Gather(w, p, flows)
    BY FlowsAreWhole, FlowsSettle
  <1>5. \A n \in N : ChildrenOf(w, n) \subseteq N
    BY NetworksAssumption DEF ChildrenOf
  <1> HIDE DEF flows, L, N
  <1> DEFINE Right(k) == \A i \in 1 .. k : out[k][order[i]] = flows[order[i]]
             U == {k \in Nat : k <= L => Right(k)}
  <1>6. 0 \in U
    OBVIOUS
  <1>7. ASSUME NEW k \in Nat, k \in U
        PROVE  k + 1 \in U
    <2> SUFFICES ASSUME k + 1 <= L, NEW i \in 1 .. (k + 1)
                 PROVE  out[k + 1][order[i]] = flows[order[i]]
      OBVIOUS
    <2> DEFINE n == order[k + 1]
    <2>1. /\ k \in 0 .. L - 1 /\ k \in 0 .. L /\ k + 1 \in 1 .. L
          /\ out[k] \in [N -> Int] /\ n \in N
      <3>1. k \in 0 .. L - 1 /\ k \in 0 .. L /\ k + 1 \in 1 .. L
        BY <1>1
      <3>2. QED
        BY <1>1, <1>3, <3>1
    <2>2. Right(k)
      BY <1>1, <1>7
    <2>3. \A m \in ChildrenOf(w, n) : out[k][m] = flows[m]
      <3> SUFFICES ASSUME NEW m \in ChildrenOf(w, n)
                   PROVE  out[k][m] = flows[m]
        OBVIOUS
      <3>1. PICK j \in 1 .. (k + 1) - 1 : order[j] = m
        BY <1>1, <2>1
      <3>2. j \in 1 .. k
        OBVIOUS
      <3>3. QED
        BY <2>2, <3>1, <3>2
    <2>4. [m \in ChildrenOf(w, n) |-> out[k][m]] = [m \in ChildrenOf(w, n) |-> flows[m]]
      BY <2>3
    <2>5. Gather(w, p, out[k])[n] = Gather(w, p, flows)[n]
      BY <2>1, <2>4 DEF Gather, N
    <2> HIDE DEF n
    <2>6. out[k + 1] = [out[k] EXCEPT ![n] = flows[n]]
      BY <1>3, <1>4, <2>1, <2>5 DEF n
    <2>7. CASE order[i] = n
      BY <2>1, <2>6, <2>7
    <2>8. CASE order[i] # n
      <3>1. i \in 1 .. k
        BY <2>8 DEF n
      <3>2. order[i] \in N
        BY <1>1, <2>1
      <3>3. out[k + 1][order[i]] = out[k][order[i]]
        BY <2>1, <2>6, <2>8, <3>2
      <3>4. QED
        BY <2>2, <3>1, <3>3
    <2>9. QED
      BY <2>7, <2>8
  <1>8. Nat \subseteq U
    <2> HIDE DEF U
    <2>1. QED
      BY <1>6, <1>7, Induct
  <1>9. \A n \in N : out[L][n] = flows[n]
    <2>1. Right(L)
      BY <1>1, <1>8
    <2>2. QED
      BY <1>1, <2>1
  <1>10. out[L] = flows
    <2>1. out[L] \in [N -> Int]
      BY <1>1, <1>3
    <2>2. QED
      BY <1>4, <1>9, <2>1
  <1>11. QED
    BY <1>3, <1>10 DEF flows

\* With no emitter above a node, the source of a tree gets what all emitters
\* discharge: the flow at each node is its own discharge and the flows right
\* below it, and summed over all nodes every flow but that of the source occurs
\* once on either side.
LEMMA SourceGetsAll ==
    ASSUME NEW w \in Networks, w.tree, NEW p \in [NodesOf(w) -> Int], WholePhysics,
           \A n \in NodesOf(w) : Emits(w, n) => ChildrenOf(w, n) = {}
    PROVE  FlowsAt(w, p)[w.source]
             = SumFunction([n \in NodesOf(w) |-> IF Emits(w, n) THEN FlowsAt(w, p)[n] ELSE 0])
  <1> DEFINE N == NodesOf(w)
             P == PipesOf(w)
             flows == FlowsAt(w, p)
             own == [n \in N |-> IF Emits(w, n) THEN flows[n] ELSE 0]
             below == [n \in N |-> SumUnder(w.up, flows, n)]
  <1>1. /\ IsFiniteSet(N) /\ w.source \in N /\ P = N \ {w.source}
        /\ P \in SUBSET N /\ w.up \in [P -> N]
    BY NetworksAssumption
  <1>2. flows \in [N -> Int]
    BY FlowsAreWhole
  <1>3. flows = Gather(w, p, flows)
    BY FlowsSettle
  <1> HIDE DEF flows
  <1>4. \A n \in N : Under(w.up, n) = ChildrenOf(w, n)
    BY DEF Under, ChildrenOf, PipesOf
  <1> HIDE DEF N, P
  <1>5. PICK t : Sums(t, flows, N) /\ SumFunction(flows) = t[N]
    BY <1>1, <1>2, SumsExist
  <1>6. /\ below \in [N -> Int]
        /\ SumFunction(below) = SumFunction([m \in P |-> flows[m]])
    BY <1>1, <1>2, SumOfSums
  <1>7. SumFunction([m \in P |-> flows[m]]) = t[P]
    BY <1>1, <1>2, <1>5, SumOfPart
  <1>8. own \in [N -> Int]
    BY <1>2
  <1>9. \A n \in N : flows[n] = own[n] + below[n]
    <2> SUFFICES ASSUME NEW n \in N
                 PROVE  flows[n] = own[n] + below[n]
      OBVIOUS
    <2>1. CASE Emits(w, n)
      <3>1. Under(w.up, n) = {}
        BY <1>4, <2>1 DEF N
      <3>2. SumFunction([m \in Under(w.up, n) |-> flows[m]]) = t[{}]
        <4> DEFINE part == Under(w.up, n)
        <4>1. part \in SUBSET N
          BY <3>1
        <4> HIDE DEF part
        <4>2. SumFunction([m \in part |-> flows[m]]) = t[part]
          BY <1>1, <1>2, <1>5, <4>1, SumOfPart
        <4>3. QED
          BY <3>1, <4>2 DEF part
      <3>3. below[n] = 0
        BY <1>5, <3>2 DEF Sums, SumUnder
      <3>4. own[n] = flows[n] /\ flows[n] \in Int
        BY <1>2, <2>1
      <3>5. QED
        BY <3>3, <3>4
    <2>2. CASE ~Emits(w, n)
      <3>1. Gather(w, p, flows)[n] = SumFunction([m \in ChildrenOf(w, n) |-> flows[m]])
        BY <2>2 DEF Gather, N
      <3>2. below[n] = SumFunction([m \in ChildrenOf(w, n) |-> flows[m]])
        BY <1>4 DEF SumUnder
      <3>3. own[n] = 0 /\ below[n] \in Int
        BY <1>6, <2>2
      <3>4. QED
        BY <1>3, <3>1, <3>2, <3>3
    <2>3. QED
      BY <2>1, <2>2
  <1> HIDE DEF own, below
  <1>10. SumFunction(flows) = SumFunction(own) + SumFunction(below)
    BY <1>1, <1>2, <1>6, <1>8, <1>9, SumOfBoth
  <1>11. t[N] = flows[w.source] + t[P]
    BY <1>1, <1>5 DEF Sums
  <1>12. /\ t[P] \in Int /\ flows[w.source] \in Int
         /\ SumFunction(own) \in Int
    BY <1>1, <1>2, <1>5, <1>8, SumIsWhole DEF Sums
  <1>13. flows[w.source] = SumFunction(own)
    <2>1. SumFunction(below) = t[P]
      BY <1>6, <1>7
    <2>2. flows[w.source] + t[P] = SumFunction(own) + t[P]
      BY <1>5, <1>10, <1>11, <2>1
    <2>3. QED
      BY <1>12, <2>2
  <1>14. QED
    BY <1>13 DEF own, flows, N

\* What a pipe takes off the pressure is a whole number.
LEMMA DropIsWhole ==
    ASSUME NEW w \in Networks, NEW flows \in [NodesOf(w) -> Int], WholePhysics,
           NEW n \in NodesOf(w), n # w.source
    PROVE  DropInto(w, flows, n) \in Int /\ w.up[n] \in NodesOf(w)
  <1>1. n \in PipesOf(w) /\ w.up[n] \in NodesOf(w)
    BY NetworksAssumption
  <1>2. /\ w.size[n] \in Int /\ flows[n] \in Int
        /\ w.elevation[n] \in Int /\ w.elevation[w.up[n]] \in Int
    BY <1>1, NetworksAssumption
  <1>3. FrictionLoss(w.size[n], flows[n]) \in Int
    BY <1>2 DEF WholePhysics
  <1>4. ElevationPressure(w.elevation[n] - w.elevation[w.up[n]]) \in Int
    <2>1. w.elevation[n] - w.elevation[w.up[n]] \in Int
      BY <1>2
    <2>2. QED
      BY <2>1 DEF WholePhysics
  <1>5. QED
    BY <1>1, <1>3, <1>4 DEF DropInto

\* The recursion of the walk up to the source, and that of the way back down.
DropsEquation(g, w, flows) ==
    g = [d \in Nat |->
            [n \in NodesOf(w) |->
                IF n = w.source \/ d = 0 THEN 0
                ELSE DropInto(w, flows, n) + g[d - 1][w.up[n]]]]
PressureEquation(g, w, required, flows) ==
    g = [d \in Nat |->
            [n \in NodesOf(w) |->
                IF n = w.source \/ d = 0 THEN required
                ELSE g[d - 1][w.up[n]] - DropInto(w, flows, n)]]

\* One level of either.
Climb(w, flows, v) ==
    [n \in NodesOf(w) |-> IF n = w.source THEN 0 ELSE DropInto(w, flows, n) + v[w.up[n]]]
Descend(w, required, flows, v) ==
    [n \in NodesOf(w) |-> IF n = w.source THEN required ELSE v[w.up[n]] - DropInto(w, flows, n)]
Level(w, x) == [n \in NodesOf(w) |-> x]

\* What a solution of the first equation says, level by level.
LEMMA DropsByLevel ==
    ASSUME NEW w, NEW flows, NEW g, DropsEquation(g, w, flows)
    PROVE  g[0] = Level(w, 0) /\ \A d \in Nat : g[d + 1] = Climb(w, flows, g[d])
  <1>1. g[0] = Level(w, 0)
    BY DEF DropsEquation, Level
  <1>2. ASSUME NEW d \in Nat
        PROVE  g[d + 1] = Climb(w, flows, g[d])
    <2>1. d + 1 \in Nat /\ d + 1 # 0 /\ (d + 1) - 1 = d
      OBVIOUS
    <2>2. g[d + 1] = [n \in NodesOf(w) |->
                 IF n = w.source \/ d + 1 = 0 THEN 0
                 ELSE DropInto(w, flows, n) + g[(d + 1) - 1][w.up[n]]]
      BY <2>1 DEF DropsEquation
    <2>3. QED
      BY <2>1, <2>2 DEF Climb
  <1>3. QED
    BY <1>1, <1>2

\* What a solution of the second one says.
LEMMA PressureByLevel ==
    ASSUME NEW w, NEW flows, NEW required, NEW g, PressureEquation(g, w, required, flows)
    PROVE  g[0] = Level(w, required) /\ \A d \in Nat : g[d + 1] = Descend(w, required, flows, g[d])
  <1>1. g[0] = Level(w, required)
    BY DEF PressureEquation, Level
  <1>2. ASSUME NEW d \in Nat
        PROVE  g[d + 1] = Descend(w, required, flows, g[d])
    <2>1. d + 1 \in Nat /\ d + 1 # 0 /\ (d + 1) - 1 = d
      OBVIOUS
    <2>2. g[d + 1] = [n \in NodesOf(w) |->
                 IF n = w.source \/ d + 1 = 0 THEN required
                 ELSE g[(d + 1) - 1][w.up[n]] - DropInto(w, flows, n)]
      BY <2>1 DEF PressureEquation
    <2>3. QED
      BY <2>1, <2>2 DEF Descend
  <1>3. QED
    BY <1>1, <1>2

\* The walk up adds whole numbers, however long it is.
LEMMA DropsAreWhole ==
    ASSUME NEW w \in Networks, NEW flows \in [NodesOf(w) -> Int], WholePhysics,
           NEW g, DropsEquation(g, w, flows)
    PROVE  \A d \in Nat : g[d] \in [NodesOf(w) -> Int]
  <1> DEFINE Typed == {d \in Nat : g[d] \in [NodesOf(w) -> Int]}
  <1>1. 0 \in Typed
    <2>1. g[0] = Level(w, 0)
      BY DropsByLevel
    <2>2. QED
      BY <2>1 DEF Level
  <1>2. ASSUME NEW d \in Nat, d \in Typed
        PROVE  d + 1 \in Typed
    <2>1. g[d + 1] = Climb(w, flows, g[d])
      BY DropsByLevel
    <2>2. \A n \in NodesOf(w) :
              n # w.source => DropInto(w, flows, n) \in Int /\ w.up[n] \in NodesOf(w)
      BY DropIsWhole
    <2>3. QED
      BY <1>2, <2>1, <2>2 DEF Climb
  <1>3. Nat \subseteq Typed
    <2> HIDE DEF Typed
    <2>1. QED
      BY <1>1, <1>2, Induct
  <1>4. QED
    BY <1>3

\* There is such a walk.
LEMMA DropsExist ==
    ASSUME NEW w \in Networks, NEW flows \in [NodesOf(w) -> Int], WholePhysics
    PROVE  \E g : DropsEquation(g, w, flows)
  <1> DEFINE N == NodesOf(w)
             T == [N -> Int]
             drop(n) == DropInto(w, flows, n)
             base == [n \in N |-> 0]
             after(g) == [n \in N |-> IF n = w.source THEN 0 ELSE drop(n) + g[w.up[n]]]
             step == [d \in Nat |-> [g \in T |-> after(g)]]
  <1>1. \A n \in N : n # w.source => drop(n) \in Int /\ w.up[n] \in N
    BY DropIsWhole
  <1> HIDE DEF N, drop
  <1>2. \A g \in T : after(g) \in T
    BY <1>1
  <1>3. PICK h : Follows(h, T, base, step)
    <2>1. step \in Steps(T)
      <3> HIDE DEF T, after
      <3>1. QED
        BY <1>2 DEF Steps
    <2>2. base \in T
      OBVIOUS
    <2> HIDE DEF T, base, step
    <2>3. QED
      BY <2>1, <2>2, Recursion
  <1>4. h[0] = base /\ \A d \in Nat : h[d + 1] = after(h[d])
    <2> HIDE DEF T, base, after
    <2>1. QED
      BY <1>3 DEF Follows
  <1>5. h \in [Nat -> T]
    BY <1>3 DEF Follows
  <1>6. ASSUME NEW d \in Nat
        PROVE  h[d] = [n \in N |-> IF n = w.source \/ d = 0 THEN 0
                                   ELSE drop(n) + h[d - 1][w.up[n]]]
    <2>1. CASE d = 0
      BY <1>4, <2>1
    <2>2. CASE d # 0
      <3>1. d - 1 \in Nat /\ (d - 1) + 1 = d
        BY <2>2
      <3>2. h[d] = after(h[d - 1])
        BY <1>4, <3>1
      <3>3. QED
        BY <2>2, <3>2
    <2>3. QED
      BY <2>1, <2>2
  <1>7. QED
    BY <1>5, <1>6 DEF DropsEquation, N, drop

\* The way down takes off again what the walk up has added, at every node.
LEMMA PressureMirrorsDrops ==
    ASSUME NEW w \in Networks, NEW flows \in [NodesOf(w) -> Int], NEW required \in Int, WholePhysics,
           NEW g, DropsEquation(g, w, flows), NEW h, PressureEquation(h, w, required, flows)
    PROVE  \A d \in Nat : h[d] = [n \in NodesOf(w) |-> required - g[d][n]]
  <1> DEFINE Same == {d \in Nat : h[d] = [n \in NodesOf(w) |-> required - g[d][n]]}
  <1>1. 0 \in Same
    <2>1. g[0] = Level(w, 0) /\ h[0] = Level(w, required)
      BY DropsByLevel, PressureByLevel
    <2>2. QED
      BY <2>1 DEF Level
  <1>2. ASSUME NEW d \in Nat, d \in Same
        PROVE  d + 1 \in Same
    <2>1. g[d + 1] = Climb(w, flows, g[d]) /\ h[d + 1] = Descend(w, required, flows, h[d])
      BY DropsByLevel, PressureByLevel
    <2>2. \A n \in NodesOf(w) :
              n # w.source => DropInto(w, flows, n) \in Int /\ w.up[n] \in NodesOf(w)
      BY DropIsWhole
    <2>3. g[d] \in [NodesOf(w) -> Int]
      BY DropsAreWhole
    <2>4. \A n \in NodesOf(w) : n # w.source =>
              h[d][w.up[n]] - DropInto(w, flows, n)
                = required - (DropInto(w, flows, n) + g[d][w.up[n]])
      BY <1>2, <2>2, <2>3
    <2>5. \A n \in NodesOf(w) : h[d + 1][n] = required - g[d + 1][n]
      BY <2>1, <2>4 DEF Climb, Descend
    <2>6. h[d + 1] = [n \in NodesOf(w) |-> required - g[d + 1][n]]
      BY <2>1, <2>5 DEF Descend
    <2>7. QED
      BY <2>6
  <1>3. Nat \subseteq Same
    <2> HIDE DEF Same
    <2>1. QED
      BY <1>1, <1>2, Induct
  <1>4. QED
    BY <1>3

\* There is such a way down.
LEMMA PressureExists ==
    ASSUME NEW w \in Networks, NEW flows \in [NodesOf(w) -> Int], NEW required \in Int, WholePhysics
    PROVE  \E h : PressureEquation(h, w, required, flows)
  <1>1. PICK g : DropsEquation(g, w, flows)
    BY DropsExist
  <1> DEFINE h == [d \in Nat |-> [n \in NodesOf(w) |-> required - g[d][n]]]
  <1>2. ASSUME NEW d \in Nat
        PROVE  h[d] = [n \in NodesOf(w) |->
                          IF n = w.source \/ d = 0 THEN required
                          ELSE h[d - 1][w.up[n]] - DropInto(w, flows, n)]
    <2>1. CASE d = 0
      <3>1. g[0] = Level(w, 0)
        BY <1>1, DropsByLevel
      <3>2. QED
        BY <2>1, <3>1 DEF Level
    <2>2. CASE d # 0
      <3>1. d - 1 \in Nat /\ (d - 1) + 1 = d
        BY <2>2
      <3>2. g[d] = Climb(w, flows, g[d - 1])
        BY <1>1, <3>1, DropsByLevel
      <3>3. \A n \in NodesOf(w) :
                n # w.source => DropInto(w, flows, n) \in Int /\ w.up[n] \in NodesOf(w)
        BY DropIsWhole
      <3>4. g[d - 1] \in [NodesOf(w) -> Int]
        BY <1>1, <3>1, DropsAreWhole
      <3>5. h[d - 1] = [n \in NodesOf(w) |-> required - g[d - 1][n]]
        BY <3>1
      <3>6. h[d] = [n \in NodesOf(w) |-> required - g[d][n]]
        OBVIOUS
      <3> HIDE DEF h
      <3>7. \A n \in NodesOf(w) : n # w.source =>
                required - (DropInto(w, flows, n) + g[d - 1][w.up[n]])
                  = h[d - 1][w.up[n]] - DropInto(w, flows, n)
        BY <3>3, <3>4, <3>5
      <3>8. QED
        BY <2>2, <3>2, <3>6, <3>7 DEF Climb
    <2>3. QED
      BY <2>1, <2>2
  <1>3. PressureEquation(h, w, required, flows)
    BY <1>2 DEF PressureEquation
  <1>4. QED
    BY <1>3

\* A result of Calc: whole numbers, the source at the pressure that is required
\* of it, and the remote node left with the pressure it started from.
LEMMA CalcIsConsistent ==
    ASSUME NEW w \in Networks, NEW far \in NodesOf(w), NEW start \in Int, WholePhysics
    PROVE  LET res == Calc(w, far, start) IN
           /\ res.pressure \in [NodesOf(w) -> Int]
           /\ res.baseRequired \in Int
           /\ res.baseFlow \in Int
           /\ res.pressure[w.source] = res.baseRequired
           /\ res.remotePressure = start
           /\ res.remotePressure = res.pressure[far]
  <1> DEFINE N == NodesOf(w)
             D == Depth(w)
             estimate == FlowsAt(w, [n \in N |-> start])
             drops == CHOOSE g : DropsEquation(g, w, estimate)
             required == computeSourceRequiredPressure(w, far, start, estimate)
             pressure == CHOOSE h : PressureEquation(h, w, required, estimate)
             pressures == propagatePressure(w, required, estimate)
  <1>1. D \in Nat /\ w.source \in N
    BY NetworksAssumption, FS_CardinalityType DEF Depth
  <1>2. estimate \in [N -> Int]
    <2>1. [n \in N |-> start] \in [N -> Int]
      OBVIOUS
    <2>2. QED
      BY <2>1, FlowsAreWhole
  <1> HIDE DEF estimate
  <1>3. DropsEquation(drops, w, estimate)
    BY <1>2, DropsExist
  <1>4. required = start + drops[D][far]
    BY DEF computeSourceRequiredPressure, DropsEquation
  <1> HIDE DEF drops, D, required
  <1>5. drops[D] \in [N -> Int]
    BY <1>1, <1>2, <1>3, DropsAreWhole
  <1>6. required \in Int
    BY <1>4, <1>5
  <1>7. PressureEquation(pressure, w, required, estimate)
    BY <1>2, <1>6, PressureExists
  <1>8. pressures = pressure[D]
    BY DEF propagatePressure, PressureEquation, D
  <1> HIDE DEF pressure, pressures
  <1>9. pressures = [n \in N |-> required - drops[D][n]]
    BY <1>1, <1>2, <1>3, <1>6, <1>7, <1>8, PressureMirrorsDrops
  <1>10. drops[D][w.source] = 0
    <2>1. CASE D = 0
      <3>1. drops[0] = Level(w, 0)
        BY <1>3, DropsByLevel
      <3>2. QED
        BY <1>1, <2>1, <3>1 DEF Level
    <2>2. CASE D # 0
      <3>1. D - 1 \in Nat /\ (D - 1) + 1 = D
        BY <1>1, <2>2
      <3>2. drops[D] = Climb(w, estimate, drops[D - 1])
        BY <1>3, <3>1, DropsByLevel
      <3>3. QED
        BY <1>1, <3>2 DEF Climb
    <2>3. QED
      BY <2>1, <2>2
  <1>11. /\ pressures \in [N -> Int]
         /\ pressures[w.source] = required
         /\ pressures[far] = start
    BY <1>1, <1>4, <1>5, <1>6, <1>9, <1>10
  <1>12. /\ Calc(w, far, start).pressure = pressures
         /\ Calc(w, far, start).baseRequired = required
         /\ Calc(w, far, start).remotePressure = pressures[far]
         /\ Calc(w, far, start).baseFlow = FlowsAt(w, pressures)[w.source]
    BY DEF Calc, pressures, required, estimate
  <1>13. FlowsAt(w, pressures) \in [N -> Int]
    BY <1>11, FlowsAreWhole
  <1>14. QED
    BY <1>1, <1>6, <1>11, <1>12, <1>13

-----------------------------------------------------------------------------
(* The curves of supply and pump *)

Point == [flow : Int, pressure : Int]

\* A line through two points of different flow has whole values.
LEMMA LineIsWhole ==
    ASSUME NEW p \in Point, NEW c \in Point, c.flow # p.flow, NEW q \in Int
    PROVE  Line(p, c, q) \in Int
  <1>1. \A a \in Int, b \in Int : b > 0 => RoundHalfUp(a, b) \in Int
    <2> SUFFICES ASSUME NEW a \in Int, NEW b \in Int, b > 0
                 PROVE  RoundHalfUp(a, b) \in Int
      OBVIOUS
    <2>1. 2 * a + b \in Int /\ b - 2 * a \in Int /\ 2 * b \in Nat \ {0}
      OBVIOUS
    <2>2. (2 * a + b) \div (2 * b) \in Int /\ (b - 2 * a) \div (2 * b) \in Int
      BY <2>1
    <2>3. QED
      BY <2>2 DEF RoundHalfUp
  <1> DEFINE dq == c.flow - p.flow
             up == p.pressure * dq + (q - p.flow) * (c.pressure - p.pressure)
  <1>2. dq \in Int /\ up \in Int /\ -up \in Int /\ -dq \in Int /\ dq # 0
    <2>1. /\ p.flow \in Int /\ p.pressure \in Int
          /\ c.flow \in Int /\ c.pressure \in Int
      BY DEF Point
    <2>2. dq \in Int /\ dq # 0 /\ q - p.flow \in Int /\ c.pressure - p.pressure \in Int
      BY <2>1
    <2>3. p.pressure * dq \in Int /\ (q - p.flow) * (c.pressure - p.pressure) \in Int
      BY <2>1, <2>2
    <2>4. up \in Int
      BY <2>3
    <2> HIDE DEF dq, up
    <2>5. QED
      BY <2>2, <2>4
  <1>3. Line(p, c, q) = IF dq > 0 THEN RoundHalfUp(up, dq) ELSE RoundHalfUp(-up, -dq)
    BY DEF Line
  <1> HIDE DEF dq, up
  <1>4. CASE dq > 0
    BY <1>1, <1>2, <1>3, <1>4
  <1>5. CASE ~(dq > 0)
    <2>1. -dq > 0
      BY <1>2, <1>5
    <2>2. QED
      BY <1>1, <1>2, <1>3, <1>5, <2>1
  <1>6. QED
    BY <1>4, <1>5

\* The points in the order of a permutation are points again, as many of them.
LEMMA SortedArePoints ==
    ASSUME NEW points \in Seq(Point), NEW pts \in sortedPoints(points)
    PROVE  /\ Len(pts) = Len(points) /\ Len(pts) \in Nat
           /\ \A i \in 1 .. Len(pts) : pts[i] \in Point
  <1>1. PICK o \in [DOMAIN points -> DOMAIN points] : pts = [i \in DOMAIN points |-> points[o[i]]]
    BY DEF sortedPoints
  <1>2. DOMAIN points = 1 .. Len(points) /\ Len(points) \in Nat
    OBVIOUS
  <1>3. pts \in Seq(Point) /\ DOMAIN pts = 1 .. Len(points)
    BY <1>1, <1>2
  <1>4. QED
    BY <1>2, <1>3

Pump == [churn : Int, ratedFlow : Int, ratedHead : Int, extraFlow : Int, extraHead : Int]

\* Whatever is converted, an int64 comes out, and an int64 is what it was.
LEMMA ConvertedIsInt64 ==
    ASSUME NEW S
    PROVE  Converted(S) \subseteq Int64 /\ (S \subseteq Int64 => Converted(S) = S)
  BY WidthAssumption DEF Converted

\* Int64 is a set of integers, around those of the figures.
LEMMA Widths ==
    /\ Quarter \in Nat \ {0}
    /\ \A x : x \in Int64 <=> x \in Int /\ -2 * Quarter <= x /\ x <= 2 * Quarter - 1
    /\ \A x : x \in Figure <=> x \in Int /\ -Quarter <= x /\ x <= Quarter - 1
  BY WidthAssumption DEF Int64, Figure

\* Sums and differences of int64 are int64 again, and exact if they are in range.
LEMMA WrapIsInt64 ==
    ASSUME NEW x \in Int, -4 * Quarter <= x, x <= 4 * Quarter - 1
    PROVE  Wrap(x) \in Int64 /\ (x \in Int64 => Wrap(x) = x)
  <1>1. CASE x \in Int64
    BY <1>1, Widths DEF Wrap
  <1>2. CASE x > 2 * Quarter - 1
    <2>1. Wrap(x) = x - 4 * Quarter /\ x \notin Int64
      BY <1>2, Widths DEF Wrap
    <2>2. QED
      BY <1>2, <2>1, Widths
  <1>3. CASE x < -2 * Quarter
    <2>1. Wrap(x) = x + 4 * Quarter /\ x \notin Int64
      BY <1>3, Widths DEF Wrap
    <2>2. QED
      BY <1>3, <2>1, Widths
  <1>4. QED
    BY <1>1, <1>2, <1>3, Widths

\* A comparison adds up, as far as int64 reaches, and if it falls short of a
\* pressure that is required it says why.
LEMMA ComparisonAddsUp ==
    ASSUME NEW s, NEW p, NEW q \in Int, NEW required \in Figure,
           NEW c \in Compare(s, p, q, required)
    PROVE  /\ c.available \in Int64
           /\ c.required = required
           /\ c.surplus = Wrap(c.available - required)
           /\ required >= 0 /\ c.surplus < 0 => c.needsPump \/ c.pumpAdded
  <1>1. PICK residual \in residualAt(s, q), boost \in IF p = NoPump THEN {0} ELSE pumpBoostAt(p, q) :
            c = Comparison(Available(residual, boost, p, q, required), q, required)
    BY DEF Compare
  <1>2. residual \in Int64 /\ boost \in Int64
    <2>1. residual \in Int64
      BY <1>1, ConvertedIsInt64 DEF residualAt
    <2>2. p # NoPump => boost \in Int64
      BY <1>1, ConvertedIsInt64 DEF pumpBoostAt
    <2>3. p = NoPump => boost \in Int64
      BY <1>1, Widths
    <2>4. QED
      BY <2>1, <2>2, <2>3
  <1>3. Wrap(residual + boost) \in Int64
    BY <1>2, Widths, WrapIsInt64
  <1>4. c.required = required /\ c.surplus = Wrap(c.available - required)
    BY <1>1 DEF Comparison
  <1>5. CASE residual >= required /\ (q > 0 \/ p = NoPump)
    <2>1. c.available = residual
      BY <1>1, <1>5 DEF Comparison, Available
    <2>2. required >= 0 => Wrap(residual - required) \in Nat
      BY <1>2, <1>5, Widths, WrapIsInt64
    <2>3. QED
      BY <1>2, <1>4, <2>1, <2>2, Widths
  <1>6. CASE ~ (residual >= required /\ (q > 0 \/ p = NoPump))
    <2>1. c.available = IF p # NoPump THEN Wrap(residual + boost) ELSE residual
      BY <1>1, <1>6 DEF Comparison, Available
    <2>2. c.needsPump = (residual < required) /\ c.pumpAdded = (p # NoPump)
      BY <1>1, <1>6 DEF Comparison, Available
    <2>3. residual < required \/ p # NoPump
      BY <1>2, <1>6, Widths
    <2>4. QED
      BY <1>2, <1>3, <1>4, <2>1, <2>2, <2>3
  <1>7. QED
    BY <1>5, <1>6

-----------------------------------------------------------------------------
(***************************************************************************)
(* The rows of a system.  That a deficit is explained, and what an         *)
(* adequate supply means for the remote node, are facts about a result and *)
(* the comparison beside it: the invariant says that the two are of one    *)
(* calculation, whatever is edited after it.                               *)
(***************************************************************************)

\* A comparison is about the result beside it.
Consistent ==
    comparison # None =>
        /\ result.baseRequired \in Figure
        /\ result.remotePressure \in Int
        /\ result.pressure[net.source] = result.baseRequired
        /\ comparison.available \in Int64
        /\ comparison.required = result.baseRequired
        /\ comparison.surplus = Wrap(comparison.available - result.baseRequired)
        /\ comparison.required >= 0 /\ comparison.surplus < 0 =>
              comparison.needsPump \/ comparison.pumpAdded

\* A stored pump has been found to deliver something.
Delivers == pump # NoPump => pump.churn > 0 /\ pump.ratedFlow > 0

IInv == TypeOK /\ Consistent /\ Delivers

\* At first there are no rows.
LEMMA InitIInv == Init => IInv
  BY InputsAssumption DEF Init, IInv, TypeOK, Consistent, Delivers

\* A calculation stores whole numbers, and a comparison about its result.
LEMMA CalculateIInv ==
    ASSUME WholePhysics
    PROVE  IInv /\ Calculate => IInv' /\ result'.remotePressure = remoteStartPressure
  <1> SUFFICES ASSUME IInv, Calculate
               PROVE  IInv' /\ result'.remotePressure = remoteStartPressure
    OBVIOUS
  <1> TypeOK /\ Delivers
    BY DEF IInv
  <1>1. net \in Networks /\ remote \in NodesOf(net) /\ remoteStartPressure \in Int
    <2>1. net \in Networks /\ remote \in NodesOf(net)
      BY DEF TypeOK, Calculate
    <2>2. net.minPressure[remote] \in Int
      BY <2>1, NetworksAssumption
    <2>3. QED
      BY <2>1, <2>2, LimitsAssumption DEF remoteStartPressure
  <1>2. /\ result'.pressure \in [NodesOf(net) -> Figure]
        /\ result'.baseRequired \in Figure
        /\ result'.baseFlow \in Int
        /\ result'.remotePressure \in Int
        /\ result'.pressure[net.source] = result'.baseRequired
        /\ result'.remotePressure = remoteStartPressure
    <2>1. result' = Calc(net, remote, remoteStartPressure)
      BY DEF Calculate
    <2>2. /\ result'.pressure \in [NodesOf(net) -> Int]
          /\ result'.baseFlow \in Int
          /\ result'.pressure[net.source] = result'.baseRequired
          /\ result'.remotePressure = remoteStartPressure
      BY <1>1, <2>1, CalcIsConsistent
    <2>3. /\ result'.baseRequired \in Figure
          /\ \A n \in NodesOf(net) : result'.pressure[n] \in Figure
      BY DEF Calculate, WithinBound
    <2>4. QED
      BY <1>1, <2>2, <2>3
  <1>3. /\ comparison'.available \in Int64
        /\ comparison'.required = result'.baseRequired
        /\ comparison'.surplus = Wrap(comparison'.available - result'.baseRequired)
        /\ comparison'.required >= 0 /\ comparison'.surplus < 0 =>
              comparison'.needsPump \/ comparison'.pumpAdded
    <2>1. comparison' \in CompareOrRequire(result')
      BY DEF Calculate
    <2>2. CASE supply = None
      <3>1. comparison' = [flow |-> result'.baseFlow, available |-> 0,
                           required |-> result'.baseRequired,
                           surplus |-> -result'.baseRequired, needsPump |-> TRUE,
                           pumpAdded |-> FALSE]
        BY <2>1, <2>2 DEF CompareOrRequire
      <3>2. /\ comparison'.available = 0 /\ comparison'.surplus = -result'.baseRequired
            /\ comparison'.required = result'.baseRequired /\ comparison'.needsPump
        BY <3>1
      <3>3. Wrap(0 - result'.baseRequired) = -result'.baseRequired /\ 0 \in Int64
        BY <1>2, Widths, WrapIsInt64
      <3>4. QED
        BY <3>2, <3>3
    <2>3. CASE supply # None
      <3>1. comparison' \in Compare(supply, pump, result'.baseFlow, result'.baseRequired)
        BY <2>1, <2>3 DEF CompareOrRequire
      <3>2. QED
        BY <1>2, <3>1, ComparisonAddsUp
    <2>4. QED
      BY <2>2, <2>3
  <1>4. UNCHANGED << class, system, net, remote, supply, pump, checks, edits >>
    BY DEF Calculate
  <1>5. TypeOK'
    <2>1. (comparison # None => comparison.available \in Int64 /\ comparison.surplus \in Int64)'
      BY <1>2, <1>3, Widths, WrapIsInt64
    <2>2. QED
      BY <1>2, <1>4, <2>1 DEF TypeOK
  <1>6. Consistent'
    BY <1>1, <1>2, <1>3, <1>4 DEF Consistent
  <1>7. Delivers'
    BY <1>4 DEF Delivers
  <1>8. QED
    BY <1>2, <1>5, <1>6, <1>7 DEF IInv

\* Verdicts as a record are a function on the rules.
Verdicts(S) ==
    [remote_pressure : S, density : S, velocity : S, max_pressure : S,
     spare_heads : S, drain_test : S, supply_adequacy : S, tree_integrity : S,
     pump_overspeed : S, single_design : S]

\* The record has one field per rule.
LEMMA VerdictsAreAFunction ==
    ASSUME NEW S, NEW v \in Verdicts(S)
    PROVE  v \in [Rules -> S]
  BY DEF Verdicts, Rules

\* A compliance run stores a verdict of every rule.
LEMMA RunComplianceIInv == IInv /\ RunCompliance => IInv'
  <1> SUFFICES ASSUME IInv, RunCompliance
               PROVE  IInv'
    OBVIOUS
  <1>1. net.tree \in BOOLEAN
    BY NetworksAssumption DEF IInv, TypeOK
  <1>2. Check(Input) \in [Rules -> BOOLEAN]
    <2> DEFINE in == Input
    <2>1. in.net = net
      BY DEF Input
    <2> HIDE DEF in
    <2>2. /\ checkRemotePressure(in) \in BOOLEAN /\ checkDensity(in) \in BOOLEAN
          /\ checkVelocity(in) \in BOOLEAN /\ checkMaxPressure(in) \in BOOLEAN
      BY DEF checkRemotePressure, checkDensity, checkVelocity, checkMaxPressure
    <2>3. /\ checkSpareHeads(in) \in BOOLEAN /\ checkDrainTest(in) \in BOOLEAN
          /\ checkSupplyAdequacy(in) \in BOOLEAN /\ checkPumpOverspeed(in) \in BOOLEAN
      BY DEF checkSpareHeads, checkDrainTest, checkSupplyAdequacy, checkPumpOverspeed
    <2>4. in.net.tree \in BOOLEAN /\ (in.result # None) \in BOOLEAN
      BY <1>1, <2>1
    <2>5. Check(in) \in [Rules -> BOOLEAN]
      <3>1. Check(in) \in Verdicts(BOOLEAN)
        BY <2>2, <2>3, <2>4 DEF Check, Verdicts
      <3>2. QED
        BY <3>1, VerdictsAreAFunction
    <2>6. QED
      BY <2>5 DEF in
  <1>3. QED
    BY <1>2 DEF RunCompliance, IInv, TypeOK, Consistent, Delivers

\* The edits write what they have checked, and no result.
LEMMA EditIInv ==
    ASSUME IInv, Next, ~Calculate, ~RunCompliance
    PROVE  IInv'
  <1>1. CASE \E c \in Classes : CreateProject(c)
    BY <1>1 DEF CreateProject, IInv, TypeOK, Consistent, Delivers, table
  <1>2. CASE \E d \in Designs : CreateSystem(d)
    <2>1. PICK d \in Designs : CreateSystem(d)
      BY <1>2
    <2>2. class \in AllClasses
      BY <2>1 DEF CreateSystem, IInv, TypeOK
    <2>3. table[class].density \in Nat
      BY <2>2 DEF table, AllClasses
    <2>4. system'.perHeadCoverage \in Nat \ {0} /\ system'.designDensity \in Nat
      BY <2>1, <2>3, RowsAssumption DEF CreateSystem
    <2>5. QED
      BY <2>1, <2>4 DEF CreateSystem, IInv, TypeOK, Consistent, Delivers
  <1>3. CASE \E n \in NodesOf(net) : SetRemoteNode(n)
    BY <1>3 DEF SetRemoteNode, IInv, TypeOK, Consistent, Delivers
  <1>4. CASE \E s \in Supplies : CreateWaterSupply(s)
    BY <1>4 DEF CreateWaterSupply, IInv, TypeOK, Consistent, Delivers
  <1>5. CASE \E p \in Pumps : CreateFirePump(p)
    BY <1>5 DEF CreateFirePump, IInv, TypeOK, Consistent, Delivers
  <1>6. QED
    BY <1>1, <1>2, <1>3, <1>4, <1>5 DEF Next

\* No step breaks the invariant.
LEMMA NextIInv ==
    ASSUME WholePhysics
    PROVE  IInv /\ [Next]_vars => IInv'
  <1> SUFFICES ASSUME IInv, [Next]_vars
               PROVE  IInv'
    OBVIOUS
  <1>1. CASE Calculate
    BY <1>1, CalculateIInv DEF IInv
  <1>2. CASE RunCompliance
    BY <1>2, RunComplianceIInv
  <1>3. CASE Next /\ ~Calculate /\ ~RunCompliance
    BY <1>3, EditIInv
  <1>4. CASE UNCHANGED vars
    BY <1>4 DEF vars, IInv, TypeOK, Consistent, Delivers
  <1>5. QED
    BY <1>1, <1>2, <1>3, <1>4

\* The inductive invariant, from which the other theorems follow.
THEOREM IInvHolds ==
    ASSUME WholePhysics
    PROVE  Spec => []IInv
  <1>1. Init => IInv
    BY InitIInv
  <1>2. IInv /\ [Next]_vars => IInv'
    BY NextIInv
  <1>3. QED
    BY <1>1, <1>2, PTL DEF Spec

\* Rows hold figures within their widths and a stored pump keeps to the rating,
\* for any networks, supplies, pumps and designs.
THEOREM TypeCorrectness ==
    ASSUME WholePhysics
    PROVE  Spec => []TypeOK
  <1>1. IInv => TypeOK
    BY DEF IInv
  <1>2. QED
    BY <1>1, IInvHolds, PTL

\* A comparison that falls short of a pressure that is required gives one of the
\* first two explanations of checkSupplyAdequacy, for every curve: also where the
\* value converted is not a number and int64 wraps around.
THEOREM DeficitIsExplainedHolds ==
    ASSUME WholePhysics
    PROVE  Spec => []DeficitIsExplained
  <1>1. IInv => DeficitIsExplained
    BY DEF IInv, Consistent, DeficitIsExplained
  <1>2. QED
    BY <1>1, IInvHolds, PTL

\* Calculate leaves the remote node with the pressure it started from: what
\* computeSourceRequiredPressure adds on the way up, propagatePressure takes off
\* on the way down, for every network, whatever the formulas give.
THEOREM RemoteKeepsItsPressureHolds ==
    ASSUME WholePhysics
    PROVE  Spec => RemoteKeepsItsPressure
  <1>1. IInv /\ [Next]_vars => (result' # result => result'.remotePressure = remoteStartPressure)
    <2> SUFFICES ASSUME IInv, [Next]_vars, result' # result
                 PROVE  result'.remotePressure = remoteStartPressure
      OBVIOUS
    <2>1. Calculate
      BY DEF Next, vars, CreateProject, CreateSystem, SetRemoteNode, CreateWaterSupply,
         CreateFirePump, RunCompliance
    <2>2. QED
      BY <2>1, CalculateIInv DEF IInv
  <1>2. QED
    BY <1>1, IInvHolds, PTL DEF Spec, RemoteKeepsItsPressure

\* What a calculation stores as the flow at the source is what all emitters of the
\* result discharge, if none is above another node.
LEMMA CalculateGetsAll ==
    ASSUME WholePhysics, IInv, Calculate, \A n \in NodesOf(net) : ~EmitterAbove(n)
    PROVE  result'.baseFlow = SumFunction(result'.flow)
  <1> DEFINE start == remoteStartPressure
             estimate == FlowsAt(net, [n \in NodesOf(net) |-> start])
             required == computeSourceRequiredPressure(net, remote, start, estimate)
             p == propagatePressure(net, required, estimate)
             res == Calc(net, remote, start)
  <1>1. net \in Networks /\ net.tree /\ result' = res
    BY DEF Calculate, IInv, TypeOK
  <1>2. /\ res.pressure = p
        /\ res.baseFlow = FlowsAt(net, p)[net.source]
        /\ res.flow = [n \in NodesOf(net) |-> IF Emits(net, n) THEN FlowsAt(net, p)[n] ELSE 0]
    BY DEF Calc
  <1>3. p \in [NodesOf(net) -> Int]
    <2>1. remote \in NodesOf(net)
      BY DEF IInv, TypeOK, Calculate
    <2>2. net.minPressure[remote] \in Int
      BY <1>1, <2>1, NetworksAssumption
    <2>3. start \in Int
      BY <2>2, LimitsAssumption DEF remoteStartPressure
    <2> HIDE DEF start, p
    <2>4. res.pressure \in [NodesOf(net) -> Int]
      BY <1>1, <2>1, <2>3, CalcIsConsistent
    <2>5. QED
      BY <1>2, <2>4
  <1>4. \A n \in NodesOf(net) : Emits(net, n) => ChildrenOf(net, n) = {}
    BY DEF EmitterAbove, ChildrenOf
  <1> HIDE DEF p, res
  <1>5. QED
    BY <1>1, <1>2, <1>3, <1>4, SourceGetsAll

\* What the source delivers is what all emitters discharge, whatever the shape of
\* the tree: no branch is lost or counted twice.
THEOREM BaseFlowIsAllEmittersHolds ==
    ASSUME WholePhysics
    PROVE  Spec => []BaseFlowIsAllEmitters
  <1>1. Init => BaseFlowIsAllEmitters
    BY DEF Init, BaseFlowIsAllEmitters
  <1>2. IInv /\ BaseFlowIsAllEmitters /\ [Next]_vars => BaseFlowIsAllEmitters'
    <2> SUFFICES ASSUME IInv, BaseFlowIsAllEmitters, [Next]_vars
                 PROVE  BaseFlowIsAllEmitters'
      OBVIOUS
    <2>1. net' = net
      BY DEF Next, vars, CreateProject, CreateSystem, SetRemoteNode, CreateWaterSupply,
         CreateFirePump, Calculate, RunCompliance
    <2>2. (\A n \in NodesOf(net) : ~EmitterAbove(n))' <=> \A n \in NodesOf(net) : ~EmitterAbove(n)
      BY <2>1 DEF EmitterAbove
    <2>3. CASE Calculate
      BY <2>2, <2>3, CalculateGetsAll DEF BaseFlowIsAllEmitters
    <2>4. CASE ~Calculate
      <3>1. result' = result
        BY <2>4 DEF Next, vars, CreateProject, CreateSystem, SetRemoteNode, CreateWaterSupply,
           CreateFirePump, RunCompliance
      <3>2. QED
        BY <2>2, <3>1 DEF BaseFlowIsAllEmitters
    <2>5. QED
      BY <2>3, <2>4
  <1>3. QED
    BY <1>1, <1>2, IInvHolds, PTL DEF Spec

\* What the rules of supply and remote pressure together promise: a supply that
\* is judged adequate, with a pressure that is not negative, leaves the remote
\* node its minimum, after every drop.
THEOREM AdequateReachesRemoteHolds ==
    ASSUME WholePhysics
    PROVE  Spec => AdequateReachesRemote
  <1>1. IInv /\ [Next]_vars =>
          (/\ checks' # checks /\ checks'.supply_adequacy /\ checks'.remote_pressure
           /\ comparison.available >= 0
           => comparison.available - (result.pressure[net.source] - result.remotePressure)
                 >= remoteMinPressure)
    <2> SUFFICES ASSUME IInv, [Next]_vars, checks' # checks,
                        checks'.supply_adequacy, checks'.remote_pressure,
                        comparison.available >= 0
                 PROVE  comparison.available - (result.pressure[net.source] - result.remotePressure)
                           >= remoteMinPressure
      OBVIOUS
    <2>1. RunCompliance
      BY DEF Next, vars, CreateProject, CreateSystem, SetRemoteNode, CreateWaterSupply,
         CreateFirePump, Calculate
    <2>2. checks' = Check(Input)
      BY <2>1 DEF RunCompliance
    <2>3. checkSupplyAdequacy(Input) /\ checkRemotePressure(Input)
      BY <2>2 DEF Check
    <2>4. /\ comparison # None /\ comparison.surplus >= 0
          /\ result.remotePressure >= remoteMinPressure
      BY <2>3 DEF checkSupplyAdequacy, checkRemotePressure, Input
    <2>5. /\ result.baseRequired \in Figure
          /\ result.remotePressure \in Int
          /\ result.pressure[net.source] = result.baseRequired
          /\ comparison.available \in Int64
          /\ comparison.surplus = Wrap(comparison.available - result.baseRequired)
      BY <2>4 DEF IInv, Consistent
    <2>6. comparison.available >= result.baseRequired
      <3> DEFINE difference == comparison.available - result.baseRequired
      <3>1. /\ difference \in Int /\ -2 * Quarter <= difference
            /\ difference <= 4 * Quarter - 1
        BY <2>5, Widths
      <3>2. difference > 2 * Quarter - 1 => Wrap(difference) = difference - 4 * Quarter
        BY <3>1, Widths DEF Wrap
      <3> HIDE DEF difference
      <3>3. difference \in Int64
        BY <2>4, <2>5, <3>1, <3>2, Widths DEF difference
      <3>4. Wrap(difference) = difference
        BY <3>3, Widths DEF Wrap
      <3>5. QED
        BY <2>4, <2>5, <3>1, <3>4, Widths DEF difference
    <2>7. QED
      BY <2>4, <2>5, <2>6, LimitsAssumption, Widths
  <1>2. QED
    BY <1>1, IInvHolds, PTL DEF Spec, AdequateReachesRemote

-----------------------------------------------------------------------------
(* A falling supply is given back by its curve *)

\* A quotient and a remainder are what they look like.
LEMMA QuotientIsUnique ==
    ASSUME NEW y \in Int, y > 0, NEW k \in Int, NEW r \in Int, 0 <= r, r < y
    PROVE  (y * k + r) \div y = k
  <1> DEFINE m == (y * k + r) \div y
  <1>1. y * k \in Int /\ y * k + r \in Int /\ m \in Int
    OBVIOUS
  <1>2. PICK t \in Int : y * k + r = y * m + t /\ 0 <= t /\ t < y
    BY <1>1
  <1> HIDE DEF m
  <1>3. \A a, b \in Int : a < b => y * a + y <= y * b
    <2> SUFFICES ASSUME NEW a \in Int, NEW b \in Int, a < b
                 PROVE  y * a + y <= y * b
      OBVIOUS
    <2>1. y * (b - a - 1) >= 0
      OBVIOUS
    <2>2. y * (b - a - 1) = y * b - y * a - y /\ y * a \in Int /\ y * b \in Int
      OBVIOUS
    <2>3. QED
      BY <2>1, <2>2
  <1>4. ~ (k < m) /\ ~ (m < k)
    BY <1>1, <1>2, <1>3
  <1>5. QED
    BY <1>1, <1>4 DEF m

\* Rounding gives a whole quotient back.
LEMMA RoundExact ==
    ASSUME NEW a \in Int, NEW b \in Int, b > 0
    PROVE  RoundHalfUp(a * b, b) = a
  <1>1. a * b \in Int /\ 2 * b \in Int /\ 2 * b > 0 /\ -a \in Int
    OBVIOUS
  <1>2. ((2 * b) * a + b) \div (2 * b) = a
    BY <1>1, QuotientIsUnique
  <1>3. ((2 * b) * (-a) + b) \div (2 * b) = -a
    BY <1>1, QuotientIsUnique
  <1>4. 2 * (a * b) + b = (2 * b) * a + b /\ b - 2 * (a * b) = (2 * b) * (-a) + b
    OBVIOUS
  <1>5. QED
    BY <1>1, <1>2, <1>3, <1>4 DEF RoundHalfUp

\* A rising line goes through its two points.
LEMMA LineThroughPoints ==
    ASSUME NEW p \in Point, NEW c \in Point, p.flow < c.flow
    PROVE  Line(p, c, p.flow) = p.pressure /\ Line(p, c, c.flow) = c.pressure
  <1> DEFINE dq == c.flow - p.flow
             rise == c.pressure - p.pressure
  <1>1. /\ p.flow \in Int /\ p.pressure \in Int /\ c.flow \in Int /\ c.pressure \in Int
        /\ dq \in Int /\ dq > 0 /\ rise \in Int
    BY DEF Point
  <1>2. /\ Line(p, c, p.flow) = RoundHalfUp(p.pressure * dq + (p.flow - p.flow) * rise, dq)
        /\ Line(p, c, c.flow) = RoundHalfUp(p.pressure * dq + dq * rise, dq)
    BY <1>1 DEF Line
  <1>3. p.pressure * dq + (p.flow - p.flow) * rise = p.pressure * dq
    <2> HIDE DEF dq, rise
    <2>1. p.flow - p.flow = 0 /\ 0 * rise = 0 /\ p.pressure * dq \in Int
      BY <1>1
    <2>2. QED
      BY <2>1
  <1>4. p.pressure * dq + dq * rise = c.pressure * dq
    <2>1. c.pressure = p.pressure + rise
      BY <1>1
    <2> HIDE DEF dq, rise
    <2>2. (p.pressure + rise) * dq = p.pressure * dq + dq * rise
      BY <1>1
    <2>3. QED
      BY <2>1, <2>2
  <1> HIDE DEF dq, rise
  <1>5. QED
    BY <1>1, <1>2, <1>3, <1>4, RoundExact

\* FallingSupply, of any supply.
Falling(s) ==
    \A i \in DOMAIN s.points :
        /\ s.points[i].flow > 0
        /\ s.points[i].pressure \in 0 .. s.static
        /\ \A j \in DOMAIN s.points :
              s.points[i].flow <= s.points[j].flow /\ i # j =>
                  /\ s.points[i].flow # s.points[j].flow
                  /\ s.points[i].pressure >= s.points[j].pressure

\* What makes a permutation a sorting of the points.
Sorts(o, points) ==
    LET D == DOMAIN points
    IN  /\ o \in [D -> D]
        /\ \A i, j \in D : o[i] = o[j] => i = j
        /\ \A i \in D \ {1} : points[o[i - 1]].flow <= points[o[i]].flow

\* Points of different flow can be sorted: each goes to the place that the
\* number of points of smaller flow gives it.
LEMMA SortingExists ==
    ASSUME NEW s, s.points \in Seq(Point), Falling(s)
    PROVE  \E o : Sorts(o, s.points)
  <1> DEFINE P == s.points
             D == DOMAIN P
             below(i) == {j \in D : P[j].flow < P[i].flow}
             rank == [i \in D |-> Cardinality(below(i)) + 1]
  <1>1. /\ D = 1 .. Len(P) /\ Len(P) \in Nat
        /\ \A i \in D : P[i].flow \in Int
        /\ \A i, j \in D : i # j => P[i].flow # P[j].flow
    <2>1. D = 1 .. Len(P) /\ Len(P) \in Nat /\ \A i \in D : P[i].flow \in Int
      <3>1. D = 1 .. Len(P) /\ Len(P) \in Nat /\ \A i \in D : P[i] \in Point
        OBVIOUS
      <3>2. QED
        BY <3>1 DEF Point
    <2>2. \A i, j \in D : P[i].flow <= P[j].flow /\ i # j => P[i].flow # P[j].flow
      BY DEF Falling
    <2>3. QED
      BY <2>1, <2>2
  <1> HIDE DEF P, D
  <1>2. IsFiniteSet(D) /\ Cardinality(D) = Len(P)
    <2>1. \A m \in Nat : IsFiniteSet(1 .. m) /\ Cardinality(1 .. m) = m
      BY FS_Interval
    <2>2. QED
      BY <1>1, <2>1
  <1>3. \A i \in D : below(i) \subseteq D \ {i} /\ IsFiniteSet(below(i))
    BY <1>1, <1>2, FS_Subset
  <1>4. \A i \in D : Cardinality(below(i)) \in 0 .. Len(P) - 1
    <2> SUFFICES ASSUME NEW i \in D
                 PROVE  Cardinality(below(i)) \in 0 .. Len(P) - 1
      OBVIOUS
    <2>1. IsFiniteSet(D \ {i}) /\ Cardinality(D \ {i}) = Len(P) - 1
      BY <1>2, FS_RemoveElement
    <2>2. Cardinality(below(i)) \in Nat
      BY <1>3, FS_CardinalityType
    <2>3. Cardinality(below(i)) <= Cardinality(D \ {i})
      BY <1>3, <2>1, FS_Subset
    <2>4. QED
      BY <1>1, <2>1, <2>2, <2>3
  <1>5. ASSUME NEW i \in D, NEW j \in D, P[i].flow < P[j].flow
        PROVE  Cardinality(below(i)) < Cardinality(below(j))
    <2>1. below(i) \subseteq below(j) /\ i \in below(j) /\ i \notin below(i)
      BY <1>1, <1>5
    <2>2. Cardinality(below(i)) <= Cardinality(below(j))
            /\ (Cardinality(below(i)) = Cardinality(below(j)) => below(i) = below(j))
      BY <1>3, <2>1, FS_Subset
    <2>3. below(i) # below(j)
      BY <2>1
    <2>4. QED
      BY <1>4, <2>2, <2>3
  <1>6. rank \in [D -> D]
    BY <1>1, <1>4
  <1>7. \A i, j \in D : rank[i] < rank[j] <=> P[i].flow < P[j].flow
    <2> SUFFICES ASSUME NEW i \in D, NEW j \in D
                 PROVE  rank[i] < rank[j] <=> P[i].flow < P[j].flow
      OBVIOUS
    <2>1. /\ Cardinality(below(i)) \in Int /\ rank[i] = Cardinality(below(i)) + 1
          /\ Cardinality(below(j)) \in Int /\ rank[j] = Cardinality(below(j)) + 1
      BY <1>4
    <2> HIDE DEF rank, below
    <2>2. CASE i = j
      BY <1>1, <2>1, <2>2
    <2>3. CASE P[i].flow < P[j].flow
      BY <1>5, <2>1, <2>3
    <2>4. CASE P[j].flow < P[i].flow
      BY <1>1, <1>5, <2>1, <2>4
    <2>5. QED
      BY <1>1, <2>2, <2>3, <2>4
  <1> HIDE DEF below, rank
  <1>8. rank \in Injection(D, D)
    <2>1. \A i, j \in D : rank[i] = rank[j] => i = j
      BY <1>1, <1>6, <1>7
    <2>2. QED
      BY <1>6, <2>1 DEF Injection, IsInjective
  <1>9. rank \in Surjection(D, D)
    BY <1>2, <1>8, FS_Injection
  <1> DEFINE o == [i \in D |-> CHOOSE k \in D : rank[k] = i]
  <1>10. \A i \in D : o[i] \in D /\ rank[o[i]] = i
    BY <1>9 DEF Surjection
  <1>11. o \in [D -> D]
    BY <1>10
  <1> HIDE DEF o
  <1>12. \A i, j \in D : o[i] = o[j] => i = j
    BY <1>10
  <1>13. \A i \in D \ {1} : P[o[i - 1]].flow <= P[o[i]].flow
    <2> SUFFICES ASSUME NEW i \in D, i # 1
                 PROVE  P[o[i - 1]].flow <= P[o[i]].flow
      OBVIOUS
    <2>1. i - 1 \in D /\ i - 1 < i
      BY <1>1
    <2>2. rank[o[i - 1]] < rank[o[i]]
      BY <1>10, <2>1
    <2>3. P[o[i - 1]].flow < P[o[i]].flow
      BY <1>7, <1>10, <2>1, <2>2
    <2>4. QED
      BY <1>1, <1>10, <2>1, <2>3
  <1>14. QED
    BY <1>11, <1>12, <1>13 DEF Sorts, P, D

\* The points in any such order are all of them, in order of flow.
LEMMA SortedInOrder ==
    ASSUME NEW s, s.points \in Seq(Point), Falling(s), NEW pts \in sortedPoints(s.points)
    PROVE  /\ Len(pts) = Len(s.points) /\ Len(pts) \in Nat
           /\ \A i \in 1 .. Len(pts) : pts[i] \in Point /\ pts[i].flow > 0 /\ pts[i].pressure >= 0
           /\ \A i, j \in 1 .. Len(pts) : i < j => pts[i].flow < pts[j].flow
           /\ \A k \in DOMAIN s.points : \E j \in 1 .. Len(pts) : pts[j] = s.points[k]
           /\ \A i \in 1 .. Len(pts) : \E k \in DOMAIN s.points : pts[i] = s.points[k]
           /\ \A i \in 1 .. Len(pts) : pts[i].pressure <= s.static
           /\ \A i, j \in 1 .. Len(pts) : i < j => pts[j].pressure <= pts[i].pressure
  <1> DEFINE P == s.points
             D == DOMAIN P
             n == Len(pts)
  <1>1. PICK o : Sorts(o, P) /\ pts = [i \in D |-> P[o[i]]]
    BY DEF sortedPoints, Sorts
  <1>2. D = 1 .. n /\ n = Len(P) /\ n \in Nat
    BY SortedArePoints
  <1>3. /\ \A i \in D : P[i] \in Point /\ P[i].flow \in Int /\ P[i].flow > 0 /\ P[i].pressure >= 0
        /\ \A i, j \in D : i # j => P[i].flow # P[j].flow
    <2>1. \A i \in D : P[i] \in Point /\ P[i].flow \in Int /\ P[i].pressure \in Int
      <3>1. \A i \in D : P[i] \in Point
        OBVIOUS
      <3>2. QED
        BY <3>1 DEF Point
    <2>2. \A i \in D : P[i].flow > 0 /\ P[i].pressure \in 0 .. s.static
      BY DEF Falling
    <2>3. \A i, j \in D : P[i].flow <= P[j].flow /\ i # j => P[i].flow # P[j].flow
      BY DEF Falling
    <2>4. QED
      BY <2>1, <2>2, <2>3
  <1> HIDE DEF P, D, n
  <1>4. /\ o \in [D -> D]
        /\ \A i, j \in D : o[i] = o[j] => i = j
        /\ \A i \in D \ {1} : P[o[i - 1]].flow <= P[o[i]].flow
    BY <1>1 DEF Sorts, D
  <1>5. \A i \in D : pts[i] = P[o[i]] /\ o[i] \in D
    BY <1>1, <1>4
  <1>6. ASSUME NEW i \in D, i # 1
        PROVE  i - 1 \in D /\ pts[i - 1].flow < pts[i].flow
    <2>1. i - 1 \in D /\ i - 1 # i
      BY <1>2, <1>6
    <2>2. o[i - 1] # o[i]
      BY <1>4, <2>1
    <2>3. P[o[i - 1]].flow <= P[o[i]].flow
      BY <1>4, <1>6
    <2>4. QED
      BY <1>3, <1>5, <2>1, <2>2, <2>3
  <1>7. \A i, j \in D : i < j => pts[i].flow < pts[j].flow
    <2> DEFINE Far == {d \in Nat : \A i \in D : i + d + 1 \in D => pts[i].flow < pts[i + d + 1].flow}
    <2>1. \A i \in D : pts[i].flow \in Int
      BY <1>3, <1>5
    <2>2. 0 \in Far
      <3> SUFFICES ASSUME NEW i \in D, i + 0 + 1 \in D
                   PROVE  pts[i].flow < pts[i + 0 + 1].flow
        OBVIOUS
      <3>1. i + 0 + 1 # 1 /\ (i + 0 + 1) - 1 = i
        BY <1>2
      <3>2. QED
        BY <1>6, <3>1
    <2>3. ASSUME NEW d \in Nat, d \in Far
          PROVE  d + 1 \in Far
      <3> SUFFICES ASSUME NEW i \in D, i + (d + 1) + 1 \in D
                   PROVE  pts[i].flow < pts[i + (d + 1) + 1].flow
        OBVIOUS
      <3>1. i + d + 1 \in D /\ (i + (d + 1) + 1) - 1 = i + d + 1 /\ i + (d + 1) + 1 # 1
        BY <1>2
      <3>2. pts[i].flow < pts[i + d + 1].flow
        BY <2>3, <3>1
      <3>3. pts[i + d + 1].flow < pts[i + (d + 1) + 1].flow
        BY <1>6, <3>1
      <3>4. QED
        BY <2>1, <3>1, <3>2, <3>3
    <2>4. Nat \subseteq Far
      <3> HIDE DEF Far
      <3>1. QED
        BY <2>2, <2>3, Induct
    <2>5. QED
      <3> SUFFICES ASSUME NEW i \in D, NEW j \in D, i < j
                   PROVE  pts[i].flow < pts[j].flow
        OBVIOUS
      <3>1. j - i - 1 \in Nat /\ i + (j - i - 1) + 1 = j
        BY <1>2
      <3>2. j - i - 1 \in Far
        BY <2>4, <3>1
      <3>3. QED
        BY <3>1, <3>2
  <1>8. \A k \in D : \E j \in D : pts[j] = P[k]
    <2>1. IsFiniteSet(D)
      BY <1>2, FS_Interval
    <2>2. o \in Injection(D, D)
      BY <1>4 DEF Injection, IsInjective
    <2>3. o \in Surjection(D, D)
      BY <2>1, <2>2, FS_Injection
    <2>4. QED
      BY <1>5, <2>3 DEF Surjection
  <1>9. \A i, j \in D : i < j => pts[j].pressure <= pts[i].pressure
    <2> SUFFICES ASSUME NEW i \in D, NEW j \in D, i < j
                 PROVE  pts[j].pressure <= pts[i].pressure
      OBVIOUS
    <2>1. pts[i].flow < pts[j].flow /\ pts[i].flow \in Int /\ pts[j].flow \in Int
      BY <1>3, <1>5, <1>7
    <2>2. o[i] \in D /\ o[j] \in D /\ P[o[i]].flow <= P[o[j]].flow /\ o[i] # o[j]
      BY <1>5, <2>1
    <2>3. P[o[i]].pressure >= P[o[j]].pressure
      BY <2>2 DEF Falling, P, D
    <2>4. P[o[i]].pressure \in Int /\ P[o[j]].pressure \in Int
      BY <1>3, <2>2 DEF Point
    <2>5. QED
      BY <1>5, <2>3, <2>4
  <1>10. \A i \in D : pts[i].pressure <= s.static
    <2>1. \A i \in D : P[i].pressure \in 0 .. s.static
      BY DEF Falling, P, D
    <2>2. QED
      BY <1>5, <2>1
  <1>11. QED
    BY <1>2, <1>3, <1>5, <1>7, <1>8, <1>9, <1>10 DEF P, D, n

\* A sequence over a set is one over any larger set.
LEMMA WiderSequence ==
    ASSUME NEW F, NEW G, F \subseteq G, NEW P \in Seq(F)
    PROVE  P \in Seq(G) /\ \A i \in DOMAIN P : P[i] \in F
  OBVIOUS

\* What a caller may give are points and pumps of whole figures.
LEMMA GivenFigures ==
    /\ \A s \in Supplies : /\ s.static \in Figure /\ s.static \in Int
                          /\ s.points \in Seq(Point)
                          /\ \A i \in DOMAIN s.points : s.points[i].pressure \in Figure
    /\ \A p \in Pumps : p \in Pump /\ p.churn \in Figure
  <1>1. ASSUME NEW s \in Supplies
        PROVE  /\ s.static \in Figure /\ s.static \in Int
               /\ s.points \in Seq(Point)
               /\ \A i \in DOMAIN s.points : s.points[i].pressure \in Figure
    <2>1. s.static \in Figure /\ s.points \in Seq([flow : Figure, pressure : Figure])
      BY RowsAssumption
    <2>2. [flow : Figure, pressure : Figure] \subseteq Point
      BY Widths DEF Point
    <2>3. /\ s.points \in Seq(Point)
          /\ \A i \in DOMAIN s.points : s.points[i] \in [flow : Figure, pressure : Figure]
      BY <2>1, <2>2, WiderSequence
    <2>4. QED
      BY <2>1, <2>3, Widths
  <1>2. ASSUME NEW p \in Pumps
        PROVE  p \in Pump /\ p.churn \in Figure
    BY RowsAssumption, Widths DEF Pump
  <1>3. QED
    BY <1>1, <1>2

\* A measured flow of a falling supply, and rest, give back what was measured,
\* in whatever order the points are sorted.
LEMMA ResidualAtPoints ==
    ASSUME NEW s, s.static \in Int, s.points \in Seq(Point), Falling(s),
           NEW pts \in sortedPoints(s.points)
    PROVE  /\ ResidualOf(s.static, pts, 0) = {s.static}
           /\ \A k \in DOMAIN s.points :
                 ResidualOf(s.static, pts, s.points[k].flow) = {s.points[k].pressure}
  <1> DEFINE n == Len(pts)
             origin == [flow |-> 0, pressure |-> s.static]
  <1>1. /\ n \in Nat
        /\ \A i \in 1 .. n : /\ pts[i] \in Point /\ pts[i].flow > 0 /\ pts[i].pressure >= 0
                             /\ pts[i].flow \in Int /\ pts[i].pressure \in Int
        /\ \A i, j \in 1 .. n : i < j => pts[i].flow < pts[j].flow
        /\ \A k \in DOMAIN s.points : \E j \in 1 .. n : pts[j] = s.points[k]
    BY SortedInOrder DEF Point
  <1>2. origin \in Point /\ origin.flow = 0 /\ origin.pressure = s.static
    BY DEF Point
  <1> HIDE DEF n, origin
  <1>3. n > 0 => /\ Line(origin, pts[1], 0) = s.static
                 /\ Line(origin, pts[1], pts[1].flow) = pts[1].pressure
    <2> SUFFICES ASSUME n > 0
                 PROVE  /\ Line(origin, pts[1], 0) = s.static
                        /\ Line(origin, pts[1], pts[1].flow) = pts[1].pressure
      OBVIOUS
    <2>1. pts[1] \in Point /\ origin.flow < pts[1].flow
      BY <1>1, <1>2
    <2>2. /\ Line(origin, pts[1], origin.flow) = origin.pressure
          /\ Line(origin, pts[1], pts[1].flow) = pts[1].pressure
      BY <1>2, <2>1, LineThroughPoints
    <2>3. QED
      BY <1>2, <2>2
  <1>4. ResidualOf(s.static, pts, 0) = {s.static}
    <2>1. CASE n = 0
      BY <2>1 DEF ResidualOf, n
    <2>2. CASE n > 0
      <3>1. pts[1].flow > 0 /\ pts[1].flow \in Int
        BY <1>1, <2>2
      <3>2. ResidualOf(s.static, pts, 0) =
              {IF pts[1].flow > 0 THEN Line(origin, pts[1], 0) ELSE s.static}
        BY <1>1, <2>2, <3>1 DEF ResidualOf, n, origin
      <3>3. QED
        BY <1>3, <2>2, <3>1, <3>2
    <2>3. QED
      BY <1>1, <2>1, <2>2
  <1>5. ASSUME NEW j \in 1 .. n
        PROVE  ResidualOf(s.static, pts, pts[j].flow) = {pts[j].pressure}
    <2> DEFINE q == pts[j].flow
    <2>1. n > 0 /\ q \in Int /\ q > 0 /\ pts[1].flow \in Int /\ pts[1].flow > 0
      BY <1>1, <1>5
    <2>2. CASE j = 1
      <3>1. ResidualOf(s.static, pts, q) =
              {IF pts[1].flow > 0 THEN Line(origin, pts[1], q) ELSE s.static}
        BY <1>1, <2>1, <2>2 DEF ResidualOf, n, origin
      <3>2. QED
        BY <1>3, <2>1, <2>2, <3>1
    <2>3. CASE j > 1
      <3>1. /\ n > 1 /\ j - 1 \in 1 .. n /\ pts[j - 1] \in Point /\ pts[j] \in Point
            /\ pts[1].flow < q /\ pts[j - 1].flow < pts[j].flow
        BY <1>1, <2>3
      <3>2. Line(pts[j - 1], pts[j], q) = pts[j].pressure
        BY <3>1, LineThroughPoints
      <3>3. CASE j = n
        <4>1. ResidualOf(s.static, pts, q) = Beyond(pts[n - 1], pts[n], q)
          BY <1>1, <2>1, <3>1, <3>3 DEF ResidualOf, n
        <4>2. pts[n].flow # pts[n - 1].flow
          BY <1>1, <3>1, <3>3
        <4>3. pts[n].pressure >= 0 /\ pts[n].pressure \in Int
          BY <1>1, <3>3
        <4>4. Beyond(pts[n - 1], pts[n], q) = {NonNegative(Line(pts[n - 1], pts[n], q))}
          BY <4>2 DEF Beyond
        <4>5. NonNegative(pts[n].pressure) = pts[n].pressure
          BY <4>3 DEF NonNegative
        <4>6. QED
          BY <3>2, <3>3, <4>1, <4>4, <4>5
      <3>4. CASE j # n
        <4>1. j < n /\ pts[n].flow \in Int /\ q < pts[n].flow
          BY <1>1, <3>4
        <4>2. ResidualOf(s.static, pts, q) =
                {Line(pts[i - 1], pts[i], q) :
                    i \in {m \in 2 .. n : pts[m - 1].flow < q /\ q <= pts[m].flow}}
          <5>1. ASSUME NEW x \in Int, pts[1].flow < x, x < pts[n].flow
                PROVE  ResidualOf(s.static, pts, x) =
                         {Line(pts[i - 1], pts[i], x) :
                             i \in {m \in 2 .. n : pts[m - 1].flow < x /\ x <= pts[m].flow}}
            BY <1>1, <2>1, <3>1, <4>1, <5>1 DEF ResidualOf, n
          <5> HIDE DEF q
          <5>2. QED
            BY <2>1, <3>1, <4>1, <5>1
        <4>3. {m \in 2 .. n : pts[m - 1].flow < q /\ q <= pts[m].flow} = {j}
          <5>1. j \in 2 .. n /\ pts[j - 1].flow < q /\ q <= pts[j].flow
            BY <1>1, <2>3, <3>1
          <5>2. ASSUME NEW m \in 2 .. n, pts[m - 1].flow < q, q <= pts[m].flow
                PROVE  m = j
            <6>1. m \in 1 .. n /\ m - 1 \in 1 .. n /\ pts[m].flow \in Int /\ pts[m - 1].flow \in Int
              BY <1>1
            <6>2. ~ (m < j)
              BY <1>1, <5>2, <6>1
            <6>3. ~ (j < m)
              <7> SUFFICES ASSUME j < m
                           PROVE  FALSE
                OBVIOUS
              <7>1. j = m - 1 \/ j < m - 1
                BY <6>1
              <7>2. q <= pts[m - 1].flow
                BY <1>1, <2>1, <6>1, <7>1
              <7>3. QED
                BY <2>1, <5>2, <6>1, <7>2
            <6>4. QED
              BY <6>1, <6>2, <6>3
          <5>3. QED
            BY <5>1, <5>2
        <4>4. QED
          BY <3>2, <4>2, <4>3
      <3>5. QED
        BY <3>3, <3>4
    <2>4. QED
      BY <2>2, <2>3
  <1>6. QED
    BY <1>1, <1>4, <1>5

\* The supply curve honours what was measured: for any falling supply it gives
\* back each measured point, whatever the order they are stored in, and the
\* static pressure at rest.
THEOREM CurveThroughPointsHolds ==
    ASSUME WholePhysics
    PROVE  Spec => []CurveThroughPoints
  <1>1. TypeOK => CurveThroughPoints
    <2> SUFFICES ASSUME TypeOK, FallingSupply
                 PROVE  /\ residualAt(supply, 0) = {supply.static}
                        /\ \A k \in DOMAIN supply.points :
                              residualAt(supply, supply.points[k].flow) = {supply.points[k].pressure}
      BY DEF CurveThroughPoints
    <2>1. supply.static \in Int /\ supply.points \in Seq(Point) /\ Falling(supply)
      <3>1. supply \in Supplies /\ Falling(supply)
        BY DEF TypeOK, FallingSupply, Falling
      <3>2. QED
        BY <3>1, GivenFigures
    <2>2. \A pts \in sortedPoints(supply.points) :
              /\ ResidualOf(supply.static, pts, 0) = {supply.static}
              /\ \A k \in DOMAIN supply.points :
                    ResidualOf(supply.static, pts, supply.points[k].flow) = {supply.points[k].pressure}
      BY <2>1, ResidualAtPoints
    <2>3. PICK pts : pts \in sortedPoints(supply.points)
      <3>1. PICK o : Sorts(o, supply.points)
        BY <2>1, SortingExists
      <3>2. [i \in DOMAIN supply.points |-> supply.points[o[i]]] \in sortedPoints(supply.points)
        BY <3>1 DEF Sorts, sortedPoints
      <3>3. QED
        BY <3>2
    <2> DEFINE curve(q) == UNION {ResidualOf(supply.static, o, q) : o \in sortedPoints(supply.points)}
    <2>4. /\ curve(0) = {supply.static}
          /\ \A k \in DOMAIN supply.points :
                curve(supply.points[k].flow) = {supply.points[k].pressure}
      BY <2>2, <2>3
    <2>5. \A q : residualAt(supply, q) = Converted(curve(q))
      BY DEF residualAt
    <2> HIDE DEF curve
    <2>6. /\ supply.static \in Int64
          /\ \A k \in DOMAIN supply.points : supply.points[k].pressure \in Int64
      <3>1. supply \in Supplies /\ Figure \subseteq Int64
        BY Widths DEF TypeOK, FallingSupply
      <3>2. QED
        BY <3>1, GivenFigures
    <2>7. Converted({supply.static}) = {supply.static}
      BY <2>6, ConvertedIsInt64
    <2>8. \A k \in DOMAIN supply.points :
              Converted({supply.points[k].pressure}) = {supply.points[k].pressure}
      BY <2>6, ConvertedIsInt64
    <2>9. QED
      BY <2>4, <2>5, <2>7, <2>8
  <1>2. QED
    BY <1>1, TypeCorrectness, PTL

-----------------------------------------------------------------------------
(* A falling supply with a falling pump meets every smaller demand *)

\* Quotients keep the order of what is divided.
LEMMA QuotientGrows ==
    ASSUME NEW x \in Int, NEW z \in Int, x <= z, NEW y \in Int, y > 0
    PROVE  x \div y <= z \div y
  <1> DEFINE m == x \div y
             k == z \div y
  <1>1. /\ m \in Int /\ \E t \in Int : x = y * m + t /\ 0 <= t /\ t < y
        /\ k \in Int /\ \E t \in Int : z = y * k + t /\ 0 <= t /\ t < y
    OBVIOUS
  <1> HIDE DEF m, k
  <1>2. y * m \in Int /\ y * k \in Int
    BY <1>1
  <1>3. k < m => y * k + y <= y * m
    <2> SUFFICES ASSUME k < m
                 PROVE  y * k + y <= y * m
      OBVIOUS
    <2>1. y * (m - k - 1) >= 0
      BY <1>1
    <2>2. y * (m - k - 1) = y * m - y * k - y
      BY <1>1
    <2>3. QED
      BY <1>2, <2>1, <2>2
  <1>4. ~ (k < m)
    BY <1>1, <1>2, <1>3
  <1>5. QED
    BY <1>1, <1>4 DEF m, k

\* Rounding keeps it too.
LEMMA RoundGrows ==
    ASSUME NEW a \in Int, NEW c \in Int, a <= c, NEW b \in Int, b > 0
    PROVE  RoundHalfUp(a, b) <= RoundHalfUp(c, b)
  <1> DEFINE y == 2 * b
  <1>1. /\ y \in Int /\ y > 0
        /\ 2 * a + b \in Int /\ 2 * c + b \in Int /\ 2 * a + b <= 2 * c + b
        /\ b - 2 * a \in Int /\ b - 2 * c \in Int /\ b - 2 * c <= b - 2 * a
    OBVIOUS
  <1>2. /\ RoundHalfUp(a, b) = IF a >= 0 THEN (2 * a + b) \div y ELSE -((b - 2 * a) \div y)
        /\ RoundHalfUp(c, b) = IF c >= 0 THEN (2 * c + b) \div y ELSE -((b - 2 * c) \div y)
    BY DEF RoundHalfUp
  <1> HIDE DEF y
  <1>3. /\ (2 * a + b) \div y <= (2 * c + b) \div y
        /\ (b - 2 * c) \div y <= (b - 2 * a) \div y
        /\ (2 * a + b) \div y \in Int /\ (2 * c + b) \div y \in Int
        /\ (b - 2 * c) \div y \in Int /\ (b - 2 * a) \div y \in Int
    BY <1>1, QuotientGrows
  <1>4. 0 \div y = 0
    <2>1. (y * 0 + 0) \div y = 0
      BY <1>1, QuotientIsUnique
    <2>2. y * 0 + 0 = 0
      BY <1>1
    <2>3. QED
      BY <2>1, <2>2
  <1>5. c >= 0 => (2 * c + b) \div y >= 0
    <2>1. c >= 0 => 0 <= 2 * c + b
      OBVIOUS
    <2>2. QED
      BY <1>1, <1>4, <2>1, QuotientGrows
  <1>6. a < 0 => (b - 2 * a) \div y >= 0
    <2>1. a < 0 => 0 <= b - 2 * a
      OBVIOUS
    <2>2. QED
      BY <1>1, <1>4, <2>1, QuotientGrows
  <1>7. QED
    BY <1>2, <1>3, <1>5, <1>6

\* A line that falls falls everywhere, between its points and beyond them.
LEMMA LineFalls ==
    ASSUME NEW p \in Point, NEW c \in Point, p.flow < c.flow, c.pressure <= p.pressure,
           NEW q \in Int, NEW r \in Int, r <= q
    PROVE  Line(p, c, q) <= Line(p, c, r) /\ Line(p, c, q) \in Int /\ Line(p, c, r) \in Int
  <1> DEFINE dq == c.flow - p.flow
             rise == c.pressure - p.pressure
             up(x) == p.pressure * dq + (x - p.flow) * rise
  <1>1. /\ p.flow \in Int /\ p.pressure \in Int /\ c.flow \in Int /\ c.pressure \in Int
        /\ dq \in Int /\ dq > 0 /\ rise \in Int /\ rise <= 0
    BY DEF Point
  <1>2. Line(p, c, q) = RoundHalfUp(up(q), dq) /\ Line(p, c, r) = RoundHalfUp(up(r), dq)
    BY <1>1 DEF Line
  <1> HIDE DEF dq, rise
  <1>3. up(q) \in Int /\ up(r) \in Int
    BY <1>1
  <1>4. up(q) <= up(r)
    <2>1. (q - r) * rise <= 0
      BY <1>1
    <2>2. (q - r) * rise = (q - p.flow) * rise - (r - p.flow) * rise
      BY <1>1
    <2>3. (q - p.flow) * rise \in Int /\ (r - p.flow) * rise \in Int /\ p.pressure * dq \in Int
      BY <1>1
    <2>4. QED
      BY <2>1, <2>2, <2>3
  <1> HIDE DEF up
  <1>5. Line(p, c, q) <= Line(p, c, r)
    BY <1>1, <1>2, <1>3, <1>4, RoundGrows
  <1>6. c.flow # p.flow
    BY <1>1
  <1>7. Line(p, c, q) \in Int /\ Line(p, c, r) \in Int
    BY <1>6, LineIsWhole
  <1>8. QED
    BY <1>5, <1>7

\* Where the curve of a supply bends: the static pressure at rest, then the
\* sorted points.
Corner(s, pts, i) == IF i = 0 THEN [flow |-> 0, pressure |-> s.static] ELSE pts[i]

\* Along the sorted points flows rise and pressures fall, the static pressure first.
LEMMA CornersFall ==
    ASSUME NEW s, s.static \in Int, s.points \in Seq(Point), Falling(s),
           NEW pts \in sortedPoints(s.points)
    PROVE  /\ Len(pts) \in Nat
           /\ \A i \in 0 .. Len(pts) : /\ Corner(s, pts, i) \in Point
                                       /\ Corner(s, pts, i).flow \in Nat
                                       /\ Corner(s, pts, i).pressure \in Int
           /\ \A i \in 1 .. Len(pts) : Corner(s, pts, i).pressure >= 0 /\ Corner(s, pts, i) = pts[i]
           /\ Corner(s, pts, 0).flow = 0
           /\ \A i, j \in 0 .. Len(pts) : i < j =>
                 /\ Corner(s, pts, i).flow < Corner(s, pts, j).flow
                 /\ Corner(s, pts, j).pressure <= Corner(s, pts, i).pressure
  <1> DEFINE n == Len(pts)
             E(i) == Corner(s, pts, i)
  <1>1. /\ n \in Nat
        /\ \A i \in 1 .. n : pts[i] \in Point /\ pts[i].flow > 0 /\ pts[i].pressure >= 0
        /\ \A i, j \in 1 .. n : i < j => pts[i].flow < pts[j].flow
        /\ \A i \in 1 .. n : pts[i].pressure <= s.static
        /\ \A i, j \in 1 .. n : i < j => pts[j].pressure <= pts[i].pressure
    BY SortedInOrder
  <1>2. E(0) \in Point /\ E(0).flow = 0 /\ E(0).pressure = s.static
    BY DEF Corner, Point
  <1>3. \A i \in 1 .. n : E(i) = pts[i]
    BY DEF Corner
  <1> HIDE DEF n, E
  <1>4. \A i \in 0 .. n : i = 0 \/ i \in 1 .. n
    BY <1>1
  <1>5. \A i \in 0 .. n : E(i) \in Point /\ E(i).flow \in Nat /\ E(i).pressure \in Int
    <2> SUFFICES ASSUME NEW i \in 0 .. n
                 PROVE  E(i) \in Point /\ E(i).flow \in Nat /\ E(i).pressure \in Int
      OBVIOUS
    <2>1. CASE i = 0
      BY <1>2, <2>1
    <2>2. CASE i \in 1 .. n
      BY <1>1, <1>3, <2>2 DEF Point
    <2>3. QED
      BY <1>4, <2>1, <2>2
  <1>6. ASSUME NEW i \in 0 .. n, NEW j \in 0 .. n, i < j
        PROVE  E(i).flow < E(j).flow /\ E(j).pressure <= E(i).pressure
    <2>1. j \in 1 .. n
      BY <1>1, <1>6
    <2>2. CASE i = 0
      BY <1>1, <1>2, <1>3, <2>1, <2>2
    <2>3. CASE i \in 1 .. n
      BY <1>1, <1>3, <1>6, <2>1, <2>3
    <2>4. QED
      BY <1>4, <2>2, <2>3
  <1>7. QED
    BY <1>1, <1>2, <1>3, <1>5, <1>6 DEF n, E

\* A falling supply can be sorted in one way only: where two orders first
\* differ, each would have the smaller flow.
LEMMA OneSorting ==
    ASSUME NEW s, s.points \in Seq(Point), Falling(s),
           NEW a \in sortedPoints(s.points), NEW b \in sortedPoints(s.points)
    PROVE  a = b
  <1> DEFINE n == Len(s.points)
             Differ == {i \in 1 .. n : a[i] # b[i]}
             Smaller(x, y, k) == x[k].flow < y[k].flow
  <1>1. n \in Nat
    OBVIOUS
  <1>2. \A x \in {a, b} :
          /\ Len(x) = n
          /\ \A i \in 1 .. n : x[i] \in Point
          /\ \A i, j \in 1 .. n : i < j => x[i].flow < x[j].flow
          /\ \A i \in DOMAIN s.points : \E j \in 1 .. n : x[j] = s.points[i]
          /\ \A i \in 1 .. n : \E j \in DOMAIN s.points : x[i] = s.points[j]
    <2> SUFFICES ASSUME NEW x \in sortedPoints(s.points)
                 PROVE  /\ Len(x) = n
                        /\ \A i \in 1 .. n : x[i] \in Point
                        /\ \A i, j \in 1 .. n : i < j => x[i].flow < x[j].flow
                        /\ \A i \in DOMAIN s.points : \E j \in 1 .. n : x[j] = s.points[i]
                        /\ \A i \in 1 .. n : \E j \in DOMAIN s.points : x[i] = s.points[j]
      OBVIOUS
    <2>1. QED
      BY SortedInOrder
  <1>3. a \in Seq(Point) /\ b \in Seq(Point)
    <2> SUFFICES ASSUME NEW x \in sortedPoints(s.points)
                 PROVE  x \in Seq(Point)
      OBVIOUS
    <2>1. PICK o \in [DOMAIN s.points -> DOMAIN s.points] :
              x = [i \in DOMAIN s.points |-> s.points[o[i]]]
      BY DEF sortedPoints
    <2>2. DOMAIN s.points = 1 .. n /\ \A i \in 1 .. n : s.points[o[i]] \in Point
      BY <2>1
    <2>3. QED
      BY <1>1, <2>1, <2>2
  <1> HIDE DEF n
  <1>4. ASSUME NEW x \in {a, b}, NEW y \in {a, b}, NEW k \in 1 .. n, x[k] # y[k],
               \A j \in 1 .. n : j < k => x[j] = y[j]
        PROVE  y[k].flow < x[k].flow
    <2>1. PICK j \in 1 .. n : y[j] = x[k]
      <3>1. PICK m \in DOMAIN s.points : x[k] = s.points[m]
        BY <1>2
      <3>2. \E j \in 1 .. n : y[j] = s.points[m]
        BY <1>2
      <3>3. QED
        BY <3>1, <3>2
    <2>2. ~ (j < k)
      <3> SUFFICES ASSUME j < k
                   PROVE  FALSE
        OBVIOUS
      <3>1. x[j] = x[k] /\ x[j].flow < x[k].flow /\ x[k].flow \in Int
        BY <1>2, <1>4, <2>1 DEF Point
      <3>2. QED
        BY <3>1
    <2>3. j # k
      BY <1>4, <2>1
    <2>4. k < j
      BY <1>1, <2>2, <2>3
    <2>5. QED
      BY <1>2, <2>1, <2>4
  <1>5. Differ = {}
    <2> SUFFICES ASSUME Differ # {}
                 PROVE  FALSE
      OBVIOUS
    <2>1. Differ \subseteq Nat
      BY <1>1
    <2>2. PICK k \in Differ : \A j \in Differ : k <= j
      BY <2>1, LeastNumber
    <2>3. k \in 1 .. n /\ a[k] # b[k] /\ \A j \in 1 .. n : j < k => a[j] = b[j]
      BY <1>1, <2>2
    <2>4. b[k].flow < a[k].flow /\ a[k].flow < b[k].flow
      BY <1>4, <2>3
    <2>5. a[k].flow \in Int /\ b[k].flow \in Int
      BY <1>2, <2>3 DEF Point
    <2>6. QED
      BY <2>4, <2>5
  <1>6. Len(a) = n /\ Len(b) = n /\ \A i \in 1 .. n : a[i] = b[i]
    BY <1>2, <1>5
  <1>7. QED
    BY <1>3, <1>6

\* The line from one corner to the next.
Segment(s, pts, i, q) == Line(Corner(s, pts, i - 1), Corner(s, pts, i), q)

\* Between two corners the curve is their line, and stays between their pressures.
LEMMA BetweenCorners ==
    ASSUME NEW s, s.static \in Int, s.points \in Seq(Point), Falling(s),
           NEW pts \in sortedPoints(s.points),
           NEW i \in 1 .. Len(pts), NEW q \in Nat,
           i = 1 \/ Corner(s, pts, i - 1).flow < q,
           q <= Corner(s, pts, i).flow
    PROVE  /\ ResidualOf(s.static, pts, q) = {Segment(s, pts, i, q)}
           /\ Segment(s, pts, i, q) \in Int
           /\ Corner(s, pts, i).pressure <= Segment(s, pts, i, q)
           /\ Segment(s, pts, i, q) <= Corner(s, pts, i - 1).pressure
  <1> DEFINE n == Len(pts)
             E(k) == Corner(s, pts, k)
             value == Line(E(i - 1), E(i), q)
  <1>1. /\ n \in Nat
        /\ \A k \in 0 .. n : E(k) \in Point /\ E(k).flow \in Nat /\ E(k).pressure \in Int
        /\ \A k \in 1 .. n : E(k).pressure >= 0 /\ E(k) = pts[k]
        /\ E(0) = [flow |-> 0, pressure |-> s.static] /\ E(0).flow = 0
        /\ \A k, m \in 0 .. n : k < m => E(k).flow < E(m).flow /\ E(m).pressure <= E(k).pressure
    BY CornersFall DEF Corner
  <1> HIDE DEF n, E
  <1>2. n > 0 /\ i \in 1 .. n /\ i \in 0 .. n /\ i - 1 \in 0 .. n
    BY <1>1 DEF n
  <1>3. E(i - 1).flow <= q /\ q <= E(i).flow
    <2>1. i = 1 \/ E(i - 1).flow < q
      BY DEF E
    <2>2. i = 1 => E(i - 1).flow = 0
      BY <1>1
    <2>3. E(i - 1).flow \in Int
      BY <1>1, <1>2
    <2>4. q <= E(i).flow
      BY DEF E
    <2>5. QED
      BY <2>1, <2>2, <2>3, <2>4
  <1>4. value \in Int /\ E(i).pressure <= value /\ value <= E(i - 1).pressure
    <2>1. /\ E(i - 1) \in Point /\ E(i) \in Point /\ E(i - 1).flow < E(i).flow
          /\ E(i).pressure <= E(i - 1).pressure
          /\ E(i - 1).flow \in Int /\ E(i).flow \in Int
      BY <1>1, <1>2
    <2>2. /\ Line(E(i - 1), E(i), E(i - 1).flow) = E(i - 1).pressure
          /\ Line(E(i - 1), E(i), E(i).flow) = E(i).pressure
      BY <2>1, LineThroughPoints
    <2>3. /\ Line(E(i - 1), E(i), E(i).flow) <= value
          /\ value <= Line(E(i - 1), E(i), E(i - 1).flow)
          /\ value \in Int
      BY <1>3, <2>1, LineFalls
    <2>4. QED
      BY <2>2, <2>3
  <1>5. ResidualOf(s.static, pts, q) = {value}
    <2>1. pts[1] = E(1) /\ pts[n] = E(n) /\ E(1).flow \in Int /\ E(n).flow \in Int /\ E(1).flow > 0
      <3>1. 1 \in 1 .. n /\ n \in 1 .. n /\ 0 \in 0 .. n /\ 1 \in 0 .. n /\ n \in 0 .. n
        BY <1>1, <1>2
      <3>2. QED
        BY <1>1, <3>1
    <2>2. CASE i = 1
      <3>1. ResidualOf(s.static, pts, q) =
              {IF pts[1].flow > 0 THEN Line(E(0), pts[1], q) ELSE s.static}
        BY <1>1, <1>2, <1>3, <2>1, <2>2 DEF ResidualOf, n
      <3>2. QED
        BY <2>1, <2>2, <3>1
    <2>3. CASE i > 1
      <3>1. /\ n > 1 /\ pts[i - 1] = E(i - 1) /\ pts[i] = E(i) /\ E(i - 1).flow < q
            /\ E(1).flow < q
        <4>1. /\ n > 1 /\ i - 1 \in 1 .. n
              /\ E(i - 1).flow \in Int /\ (i - 1 = 1 \/ E(1).flow < E(i - 1).flow)
          BY <1>1, <1>2, <2>3
        <4>2. E(i - 1).flow < q
          BY <2>3 DEF E
        <4>3. QED
          BY <1>1, <1>2, <2>1, <4>1, <4>2
      <3>2. CASE q = E(n).flow
        <4>1. i = n
          <5>1. i < n => E(i).flow < E(n).flow
            BY <1>1, <1>2
          <5>2. QED
            BY <1>1, <1>2, <1>3, <2>1, <3>2, <5>1
        <4>2. ResidualOf(s.static, pts, q) = Beyond(pts[n - 1], pts[n], q)
          BY <1>1, <2>1, <3>1, <3>2 DEF ResidualOf, n
        <4>3. pts[n].flow # pts[n - 1].flow
          BY <1>3, <2>1, <3>1, <4>1
        <4>4. Beyond(pts[n - 1], pts[n], q) = {NonNegative(Line(pts[n - 1], pts[n], q))}
          BY <4>3 DEF Beyond
        <4>5. value >= 0
          BY <1>1, <1>2, <1>4
        <4>6. NonNegative(value) = value
          BY <1>4, <4>5 DEF NonNegative
        <4>7. QED
          BY <2>1, <3>1, <4>1, <4>2, <4>4, <4>6
      <3>3. CASE q # E(n).flow
        <4>1. q < E(n).flow
          <5>1. i = n \/ E(i).flow < E(n).flow
            BY <1>1, <1>2
          <5>2. E(i).flow \in Int
            BY <1>1, <1>2
          <5>3. QED
            BY <1>3, <2>1, <3>3, <5>1, <5>2
        <4>2. ResidualOf(s.static, pts, q) =
                {Line(pts[k - 1], pts[k], q) :
                    k \in {m \in 2 .. n : pts[m - 1].flow < q /\ q <= pts[m].flow}}
          BY <1>1, <2>1, <3>1, <4>1 DEF ResidualOf, n
        <4>3. {m \in 2 .. n : pts[m - 1].flow < q /\ q <= pts[m].flow} = {i}
          <5>1. i \in 2 .. n /\ pts[i - 1].flow < q /\ q <= pts[i].flow
            BY <1>2, <1>3, <2>3, <3>1
          <5>2. ASSUME NEW m \in 2 .. n, pts[m - 1].flow < q, q <= pts[m].flow
                PROVE  m = i
            <6>1. /\ m \in 0 .. n /\ m - 1 \in 0 .. n
                  /\ pts[m] = E(m) /\ pts[m - 1] = E(m - 1)
                  /\ E(m).flow \in Int /\ E(m - 1).flow \in Int
              BY <1>1
            <6>2. ~ (m < i)
              <7> SUFFICES ASSUME m < i
                           PROVE  FALSE
                OBVIOUS
              <7>1. m = i - 1 \/ E(m).flow < E(i - 1).flow
                BY <1>1, <1>2, <6>1
              <7>2. QED
                BY <1>1, <1>2, <3>1, <5>2, <6>1, <7>1
            <6>3. ~ (i < m)
              <7> SUFFICES ASSUME i < m
                           PROVE  FALSE
                OBVIOUS
              <7>1. i = m - 1 \/ E(i).flow < E(m - 1).flow
                BY <1>1, <1>2, <6>1
              <7>2. QED
                BY <1>1, <1>2, <1>3, <5>2, <6>1, <7>1
            <6>4. QED
              BY <1>2, <6>1, <6>2, <6>3
          <5>3. QED
            BY <5>1, <5>2
        <4>4. QED
          BY <3>1, <4>2, <4>3
      <3>4. QED
        BY <3>2, <3>3
    <2>4. QED
      BY <1>2, <2>2, <2>3
  <1>6. QED
    BY <1>4, <1>5 DEF E, Segment

\* Past the last corner the curve is at or below it, and falls.
LEMMA PastCorners ==
    ASSUME NEW s, s.static \in Int, s.points \in Seq(Point), Falling(s),
           NEW pts \in sortedPoints(s.points), Len(pts) > 0,
           NEW q \in Nat, NEW r \in Nat, r <= q, Corner(s, pts, Len(pts)).flow < r
    PROVE  \E a, b \in Int :
              /\ ResidualOf(s.static, pts, q) = {a} /\ ResidualOf(s.static, pts, r) = {b}
              /\ 0 <= a /\ a <= b /\ b <= Corner(s, pts, Len(pts)).pressure
  <1> DEFINE n == Len(pts)
             last == pts[n]
             prev == pts[n - 1]
  <1>1. /\ n \in Nat /\ n > 0 /\ n \in 1 .. n /\ 1 \in 1 .. n /\ (n > 1 => n - 1 \in 1 .. n)
        /\ \A k \in 1 .. n : pts[k] \in Point
        /\ \A k \in 1 .. n : pts[k].flow \in Int /\ pts[k].pressure \in Int /\ pts[k].pressure >= 0
        /\ \A k, m \in 1 .. n : k < m => /\ pts[k].flow < pts[m].flow
                                         /\ pts[m].pressure <= pts[k].pressure
    <2>1. n \in Nat
      BY SortedArePoints
    <2>2. /\ \A k \in 1 .. n : pts[k] \in Point /\ pts[k].pressure >= 0
          /\ \A k, m \in 1 .. n : k < m => /\ pts[k].flow < pts[m].flow
                                           /\ pts[m].pressure <= pts[k].pressure
      BY SortedInOrder
    <2>3. QED
      BY <2>1, <2>2 DEF Point
  <1>2. Corner(s, pts, n) = last
    BY <1>1 DEF Corner
  <1>3. /\ last \in Point /\ last.flow \in Int /\ last.pressure \in Int /\ last.pressure >= 0
        /\ last.flow < r /\ pts[1].flow \in Int /\ pts[1].flow <= last.flow
    BY <1>1, <1>2
  <1>4. CASE n = 1
    <2>1. \A x \in Nat : x > pts[1].flow =>
              ResidualOf(s.static, pts, x) = {NonNegative(pts[1].pressure)}
      BY <1>1, <1>4 DEF ResidualOf
    <2>2. NonNegative(pts[1].pressure) = last.pressure
      BY <1>3, <1>4 DEF NonNegative
    <2>3. q > pts[1].flow /\ r > pts[1].flow
      BY <1>3
    <2>4. QED
      BY <1>2, <1>3, <2>1, <2>2, <2>3
  <1>5. CASE n > 1
    <2>1. prev \in Point /\ prev.flow < last.flow /\ last.pressure <= prev.pressure /\ prev.flow \in Int
      BY <1>1, <1>5
    <2>2. \A x \in Nat : x > last.flow =>
              ResidualOf(s.static, pts, x) = {NonNegative(Line(prev, last, x))}
      <3> SUFFICES ASSUME NEW x \in Nat, x > last.flow
                   PROVE  ResidualOf(s.static, pts, x) = {NonNegative(Line(prev, last, x))}
        OBVIOUS
      <3>1. x > pts[1].flow /\ x >= pts[n].flow
        BY <1>3
      <3>2. ResidualOf(s.static, pts, x) = Beyond(prev, last, x)
        BY <1>1, <1>3, <1>5, <3>1 DEF ResidualOf
      <3>3. last.flow # prev.flow
        BY <1>3, <2>1
      <3>4. QED
        BY <3>2, <3>3 DEF Beyond
    <2>3. Line(prev, last, last.flow) = last.pressure
      BY <1>3, <2>1, LineThroughPoints
    <2>4. /\ Line(prev, last, q) <= Line(prev, last, r)
          /\ Line(prev, last, q) \in Int /\ Line(prev, last, r) \in Int
      BY <1>3, <2>1, LineFalls
    <2>5. Line(prev, last, r) <= Line(prev, last, last.flow)
      <3>1. last.flow <= r
        BY <1>3
      <3>2. QED
        BY <1>3, <2>1, <3>1, LineFalls
    <2> DEFINE a == NonNegative(Line(prev, last, q))
               b == NonNegative(Line(prev, last, r))
    <2>6. a \in Int /\ b \in Int /\ 0 <= a /\ a <= b /\ b <= last.pressure
      BY <1>3, <2>3, <2>4, <2>5 DEF NonNegative
    <2>7. ResidualOf(s.static, pts, q) = {a} /\ ResidualOf(s.static, pts, r) = {b}
      BY <1>3, <2>2
    <2> HIDE DEF a, b
    <2>8. QED
      BY <1>2, <2>6, <2>7
  <1>6. n = 1 \/ n > 1
    <2> HIDE DEF n
    <2>1. QED
      BY <1>1
  <1>7. QED
    BY <1>4, <1>5, <1>6

\* Two outcomes in F that are certain, the first no larger than the second.
AtMost(S, T, F) == \E a, b \in F : S = {a} /\ T = {b} /\ a <= b

\* A falling supply leaves less at every larger flow, and never more than at rest.
LEMMA ResidualFalls ==
    ASSUME NEW s, s.static \in Figure, s.points \in Seq(Point), Falling(s),
           NEW q \in Nat, NEW r \in Nat, r <= q
    PROVE  AtMost(residualAt(s, q), residualAt(s, r), Figure)
  <1> DEFINE curve(x) == UNION {ResidualOf(s.static, o, x) : o \in sortedPoints(s.points)}
             Bounded == {x \in Int : x = s.static \/ (0 <= x /\ x <= s.static)}
  <1> s.static \in Int
    BY Widths
  <1> SUFFICES \E a, b \in Bounded : curve(q) = {a} /\ curve(r) = {b} /\ a <= b
    <2>1. Bounded \subseteq Figure /\ Figure \subseteq Int64
      BY Widths
    <2>2. \A x : residualAt(s, x) = Converted(curve(x))
      BY DEF residualAt
    <2> HIDE DEF curve, Bounded
    <2>3. \A v \in Bounded : Converted({v}) = {v}
      BY <2>1, ConvertedIsInt64
    <2>4. QED
      BY <2>1, <2>2, <2>3 DEF AtMost
  <1>1. PICK pts : pts \in sortedPoints(s.points)
    <2>1. PICK o : Sorts(o, s.points)
      BY SortingExists
    <2>2. [i \in DOMAIN s.points |-> s.points[o[i]]] \in sortedPoints(s.points)
      BY <2>1 DEF Sorts, sortedPoints
    <2>3. QED
      BY <2>2
  <1>2. \A x \in Nat : curve(x) = ResidualOf(s.static, pts, x)
    <2>1. \A o \in sortedPoints(s.points) : o = pts
      BY <1>1, OneSorting
    <2>2. QED
      BY <1>1, <2>1
  <1> DEFINE n == Len(pts)
             E(k) == Corner(s, pts, k)
             value(k, x) == Segment(s, pts, k, x)
             On(k, x) == (k = 1 \/ E(k - 1).flow < x) /\ x <= E(k).flow
             R(x) == ResidualOf(s.static, pts, x)
  <1>3. /\ n \in Nat
        /\ \A k \in 0 .. n : E(k) \in Point /\ E(k).flow \in Nat /\ E(k).pressure \in Int
        /\ E(0).flow = 0 /\ E(0).pressure = s.static
        /\ \A k \in 1 .. n : E(k).pressure >= 0
        /\ \A k, m \in 0 .. n : k < m => E(k).flow < E(m).flow /\ E(m).pressure <= E(k).pressure
    BY <1>1, CornersFall DEF Corner
  <1>4. \A k \in 1 .. n, x \in Nat : On(k, x) =>
            /\ R(x) = {value(k, x)} /\ value(k, x) \in Bounded
            /\ E(k).pressure <= value(k, x) /\ value(k, x) <= E(k - 1).pressure
    <2> SUFFICES ASSUME NEW k \in 1 .. n, NEW x \in Nat, On(k, x)
                 PROVE  /\ R(x) = {value(k, x)} /\ value(k, x) \in Bounded
                        /\ E(k).pressure <= value(k, x) /\ value(k, x) <= E(k - 1).pressure
      OBVIOUS
    <2>0. s.static \in Int
      OBVIOUS
    <2>1. /\ R(x) = {value(k, x)} /\ value(k, x) \in Int
          /\ E(k).pressure <= value(k, x) /\ value(k, x) <= E(k - 1).pressure
      BY <1>1, <2>0, BetweenCorners, ZenonT(60)
    <2>2. E(k - 1).pressure <= s.static /\ E(k).pressure >= 0
      <3> HIDE DEF E
      <3>1. k - 1 = 0 \/ 0 < k - 1
        BY <1>3
      <3>2. k \in 1 .. n /\ 0 \in 0 .. n /\ k - 1 \in 0 .. n
        BY <1>3
      <3>3. QED
        BY <1>3, <3>1, <3>2
    <2>3. E(k - 1).pressure \in Int /\ E(k).pressure \in Int
      BY <1>3
    <2> HIDE DEF E, value, R, On
    <2>4. QED
      BY <2>1, <2>2, <2>3
  <1>5. n > 0 /\ E(n).flow < r => \E a, b \in Bounded : R(q) = {a} /\ R(r) = {b} /\ a <= b
    <2> SUFFICES ASSUME n > 0, E(n).flow < r
                 PROVE  \E a, b \in Bounded : R(q) = {a} /\ R(r) = {b} /\ a <= b
      OBVIOUS
    <2>0. s.static \in Int
      OBVIOUS
    <2>1. \E a, b \in Int : /\ R(q) = {a} /\ R(r) = {b}
                            /\ 0 <= a /\ a <= b /\ b <= E(n).pressure
      BY <1>1, <2>0, PastCorners, ZenonT(60)
    <2>2. E(n).pressure \in Int /\ E(n).pressure <= s.static
      BY <1>3
    <2> HIDE DEF R, E, n
    <2>3. QED
      BY <2>1, <2>2
  <1>6. \A x \in Nat : n > 0 /\ E(n).flow < x =>
            \E a \in Bounded : R(x) = {a} /\ a <= E(n).pressure
    <2> SUFFICES ASSUME NEW x \in Nat, n > 0, E(n).flow < x
                 PROVE  \E a \in Bounded : R(x) = {a} /\ a <= E(n).pressure
      OBVIOUS
    <2>0. s.static \in Int
      OBVIOUS
    <2>1. x <= x
      OBVIOUS
    <2>2. \E a, b \in Int : /\ R(x) = {a} /\ R(x) = {b}
                            /\ 0 <= a /\ a <= b /\ b <= E(n).pressure
      BY <1>1, <2>0, <2>1, PastCorners, ZenonT(60)
    <2>3. E(n).pressure \in Int /\ E(n).pressure <= s.static
      BY <1>3
    <2> HIDE DEF R, E, n
    <2>4. QED
      BY <2>2, <2>3
  <1>7. n = 0 => R(q) = {s.static} /\ R(r) = {s.static}
    BY DEF ResidualOf
  <1> HIDE DEF n, E, value, R, curve
  <1>8. ASSUME n > 0, NEW x \in Nat, x <= E(n).flow
        PROVE  \E k \in 1 .. n : On(k, x)
    <2> DEFINE T == {k \in 1 .. n : x <= E(k).flow}
    <2>1. n \in T /\ T \subseteq Nat
      BY <1>3, <1>8
    <2>2. PICK k \in T : \A m \in T : k <= m
      BY <2>1, LeastNumber
    <2>3. k = 1 \/ E(k - 1).flow < x
      <3>1. k - 1 \in 1 .. n => ~ (x <= E(k - 1).flow)
        BY <2>2
      <3>2. k = 1 \/ k - 1 \in 1 .. n
        BY <1>3, <2>2
      <3>3. E(k - 1).flow \in Int
        BY <1>3, <2>2
      <3>4. QED
        BY <3>1, <3>2, <3>3
    <2>4. QED
      BY <2>2, <2>3
  <1>9. CASE n = 0
    BY <1>2, <1>7, <1>9 DEF R
  <1>10. CASE n > 0 /\ E(n).flow < r
    BY <1>2, <1>5, <1>10 DEF R
  <1>11. CASE n > 0 /\ r <= E(n).flow
    <2>1. PICK j \in 1 .. n : On(j, r)
      BY <1>8, <1>11
    <2>2. /\ R(r) = {value(j, r)} /\ value(j, r) \in Bounded
          /\ E(j).pressure <= value(j, r)
      BY <1>4, <2>1
    <2>3. /\ j \in 0 .. n /\ j - 1 \in 0 .. n /\ n \in 0 .. n
          /\ E(j) \in Point /\ E(j - 1) \in Point
          /\ E(j - 1).flow < E(j).flow /\ E(j).pressure <= E(j - 1).pressure
          /\ E(j).pressure \in Int /\ E(n).pressure \in Int /\ E(j).flow \in Int
      BY <1>3, <1>11
    <2>4. CASE E(n).flow < q
      <3>1. PICK a \in Bounded : R(q) = {a} /\ a <= E(n).pressure
        BY <1>6, <1>11, <2>4
      <3>2. j = n \/ E(n).pressure <= E(j).pressure
        BY <1>3, <2>3
      <3>3. a <= value(j, r)
        BY <2>2, <2>3, <3>1, <3>2
      <3>4. QED
        BY <1>2, <2>2, <3>1, <3>3 DEF R
    <2>5. CASE q <= E(n).flow
      <3>1. PICK i \in 1 .. n : On(i, q)
        BY <1>8, <1>11, <2>5
      <3>2. /\ R(q) = {value(i, q)} /\ value(i, q) \in Bounded
            /\ value(i, q) <= E(i - 1).pressure
        BY <1>4, <3>1
      <3>3. i \in 0 .. n /\ i - 1 \in 0 .. n /\ E(i).flow \in Int /\ E(i - 1).pressure \in Int
        BY <1>3
      <3>4. ~ (i < j)
        <4> SUFFICES ASSUME i < j
                     PROVE  FALSE
          OBVIOUS
        <4>1. E(j - 1).flow < r
          BY <2>1, <3>3
        <4>2. i = j - 1 \/ E(i).flow < E(j - 1).flow
          BY <1>3, <2>3, <3>3
        <4>3. E(j - 1).flow \in Int
          BY <1>3, <2>3
        <4>4. QED
          BY <3>1, <3>3, <4>1, <4>2, <4>3
      <3>5. CASE i = j
        <4>1. Line(E(j - 1), E(j), q) <= Line(E(j - 1), E(j), r)
          BY <2>3, LineFalls
        <4>2. value(i, q) <= value(j, r)
          BY <3>5, <4>1 DEF value, Segment, E
        <4>3. QED
          BY <1>2, <2>2, <3>2, <4>2 DEF R
      <3>6. CASE j < i
        <4>1. j = i - 1 \/ E(i - 1).pressure <= E(j).pressure
          BY <1>3, <2>3, <3>3, <3>6
        <4>2. value(i, q) <= value(j, r)
          BY <2>2, <2>3, <3>2, <3>3, <4>1
        <4>3. QED
          BY <1>2, <2>2, <3>2, <4>2 DEF R
      <3>7. i < j \/ i = j \/ j < i
        <4>1. i \in Int /\ j \in Int
          OBVIOUS
        <4>2. QED
          BY <4>1
      <3>8. QED
        BY <3>4, <3>5, <3>6, <3>7, Zenon
    <2>6. E(n).flow \in Int
      BY <1>3
    <2>7. QED
      BY <2>4, <2>5, <2>6
  <1>12. n > 0 => E(n).flow \in Int
    BY <1>3
  <1>13. QED
    BY <1>3, <1>9, <1>10, <1>11, <1>12

\* FallingPump, of any pump.
Drops(p) ==
    /\ p.ratedFlow < p.extraFlow
    /\ p.churn >= p.ratedHead /\ p.ratedHead >= p.extraHead
    /\ p.extraHead >= 0

\* A falling pump adds less at every larger flow, and its churn pressure at rest.
LEMMA BoostFalls ==
    ASSUME NEW p \in Pump, Drops(p), p.ratedFlow > 0, p.churn \in Figure,
           NEW q \in Nat, NEW r \in Nat, r <= q
    PROVE  /\ AtMost(pumpBoostAt(p, q), pumpBoostAt(p, r), 0 .. Quarter - 1)
           /\ r = 0 => pumpBoostAt(p, r) = {p.churn}
  <1> DEFINE rated == [flow |-> p.ratedFlow, pressure |-> p.ratedHead]
             extra == [flow |-> p.extraFlow, pressure |-> p.extraHead]
             churn == [flow |-> 0, pressure |-> p.churn]
             first(x) == Line(churn, rated, x)
             second(x) == Line(rated, extra, x)
  <1>1. rated \in Point /\ extra \in Point /\ churn \in Point
    BY DEF Pump, Point
  <1>2. /\ rated.flow = p.ratedFlow /\ extra.flow = p.extraFlow /\ churn.flow = 0
        /\ rated.pressure = p.ratedHead /\ extra.pressure = p.extraHead /\ churn.pressure = p.churn
        /\ p.ratedFlow \in Int /\ p.extraFlow \in Int /\ p.churn \in Int
        /\ p.ratedHead \in Int /\ p.extraHead \in Int
    BY DEF Pump
  <1>3. \A x \in Nat : BoostOf(p, x) =
            IF x = 0 THEN {p.churn}
            ELSE IF x >= p.extraFlow THEN Beyond(rated, extra, x)
            ELSE IF x <= p.ratedFlow THEN {first(x)} ELSE {second(x)}
    BY <1>2 DEF BoostOf
  <1> HIDE DEF rated, extra, churn
  <1>4. /\ first(0) = p.churn /\ first(p.ratedFlow) = p.ratedHead
        /\ second(p.ratedFlow) = p.ratedHead /\ second(p.extraFlow) = p.extraHead
    <2>1. churn.flow < rated.flow /\ rated.flow < extra.flow
      BY <1>2 DEF Drops
    <2>2. /\ first(churn.flow) = churn.pressure /\ first(rated.flow) = rated.pressure
          /\ second(rated.flow) = rated.pressure /\ second(extra.flow) = extra.pressure
      BY <1>1, <2>1, LineThroughPoints
    <2>3. QED
      BY <1>2, <2>2
  <1>5. \A x, y \in Int : x <= y => /\ first(y) <= first(x) /\ second(y) <= second(x)
                                    /\ first(x) \in Int /\ second(x) \in Int
    <2> SUFFICES ASSUME NEW x \in Int, NEW y \in Int, x <= y
                 PROVE  /\ first(y) <= first(x) /\ second(y) <= second(x)
                        /\ first(x) \in Int /\ second(x) \in Int
      OBVIOUS
    <2>1. churn.flow < rated.flow /\ rated.pressure <= churn.pressure
      BY <1>2 DEF Drops
    <2>2. rated.flow < extra.flow /\ extra.pressure <= rated.pressure
      BY <1>2 DEF Drops
    <2>3. first(y) <= first(x) /\ first(x) \in Int
      BY <1>1, <2>1, LineFalls
    <2>4. second(y) <= second(x) /\ second(x) \in Int
      BY <1>1, <2>2, LineFalls
    <2>5. QED
      BY <2>3, <2>4
  <1>6. \A x \in Nat : Beyond(rated, extra, x) = {NonNegative(second(x))}
    <2>1. extra.flow # rated.flow
      BY <1>2 DEF Drops
    <2>2. QED
      BY <2>1 DEF Beyond
  <1> HIDE DEF first, second
  <1> DEFINE boost(x) == IF x = 0 THEN p.churn
                         ELSE IF x >= p.extraFlow THEN NonNegative(second(x))
                         ELSE IF x <= p.ratedFlow THEN first(x) ELSE second(x)
  <1>7. \A x \in Nat : BoostOf(p, x) = {boost(x)}
    BY <1>3, <1>6
  <1>8. \A x \in Nat :
            /\ boost(x) \in Int
            /\ x = 0 => boost(x) = p.churn
            /\ x <= p.ratedFlow => boost(x) = first(x)
            /\ x > p.ratedFlow /\ x < p.extraFlow => boost(x) = second(x)
            /\ x >= p.extraFlow => boost(x) = NonNegative(second(x))
    <2> SUFFICES ASSUME NEW x \in Nat
                 PROVE  /\ boost(x) \in Int
                        /\ x = 0 => boost(x) = p.churn
                        /\ x <= p.ratedFlow => boost(x) = first(x)
                        /\ x > p.ratedFlow /\ x < p.extraFlow => boost(x) = second(x)
                        /\ x >= p.extraFlow => boost(x) = NonNegative(second(x))
      OBVIOUS
    <2>1. first(x) \in Int /\ second(x) \in Int
      BY <1>5
    <2>2. p.ratedFlow > 0 /\ p.ratedFlow < p.extraFlow
      BY DEF Drops
    <2>3. QED
      BY <1>2, <1>4, <2>1, <2>2 DEF NonNegative
  <1> HIDE DEF boost
  <1>9. boost(q) <= boost(r)
    <2>1. /\ q \in Int /\ r \in Int /\ boost(q) \in Int /\ boost(r) \in Int
          /\ first(q) \in Int /\ first(r) \in Int /\ second(q) \in Int /\ second(r) \in Int
          /\ first(q) <= first(r) /\ second(q) <= second(r)
      BY <1>5, <1>8
    <2>2. p.ratedFlow < p.extraFlow /\ p.ratedHead >= p.extraHead /\ p.extraHead >= 0
      BY DEF Drops
    <2>3. CASE q <= p.ratedFlow
      BY <1>2, <1>8, <2>1, <2>3
    <2>4. CASE p.ratedFlow < q /\ q < p.extraFlow
      <3>1. second(q) <= p.ratedHead
        BY <1>2, <1>4, <1>5, <2>1, <2>4
      <3>2. boost(q) = second(q)
        BY <1>8, <2>4
      <3>3. CASE r <= p.ratedFlow
        <4>1. boost(r) = first(r) /\ p.ratedHead <= first(r)
          BY <1>2, <1>4, <1>5, <1>8, <2>1, <3>3
        <4>2. QED
          BY <1>2, <2>1, <3>1, <3>2, <4>1
      <3>4. CASE p.ratedFlow < r
        <4>1. boost(r) = second(r)
          BY <1>2, <1>8, <2>1, <2>4, <3>4
        <4>2. QED
          BY <2>1, <3>2, <4>1
      <3>5. QED
        BY <1>2, <2>1, <3>3, <3>4
    <2>5. CASE p.extraFlow <= q
      <3>1. second(q) <= p.extraHead
        BY <1>2, <1>4, <1>5, <2>1, <2>5
      <3>2. boost(q) = NonNegative(second(q)) /\ boost(q) <= p.extraHead
        BY <1>2, <1>8, <2>1, <2>2, <2>5, <3>1 DEF NonNegative
      <3>3. CASE r <= p.ratedFlow
        <4>1. boost(r) = first(r) /\ p.ratedHead <= first(r)
          BY <1>2, <1>4, <1>5, <1>8, <2>1, <3>3
        <4>2. QED
          BY <1>2, <2>1, <2>2, <3>2, <4>1
      <3>4. CASE p.ratedFlow < r /\ r < p.extraFlow
        <4>1. boost(r) = second(r)
          BY <1>8, <3>4
        <4>2. r <= p.extraFlow
          BY <1>2, <2>1, <3>4
        <4>3. second(p.extraFlow) <= second(r)
          BY <1>2, <1>5, <2>1, <4>2
        <4>4. QED
          BY <1>2, <1>4, <2>1, <3>2, <4>1, <4>3
      <3>5. CASE p.extraFlow <= r
        <4>1. boost(r) = NonNegative(second(r))
          BY <1>8, <2>1, <3>5
        <4>2. QED
          BY <2>1, <3>2, <4>1 DEF NonNegative
      <3>6. QED
        BY <1>2, <2>1, <3>3, <3>4, <3>5
    <2>6. QED
      BY <1>2, <2>1, <2>3, <2>4, <2>5
  <1>10. \A x \in Nat : boost(x) \in 0 .. Quarter - 1
    <2> SUFFICES ASSUME NEW x \in Nat
                 PROVE  boost(x) \in 0 .. Quarter - 1
      OBVIOUS
    <2>1. /\ p.ratedFlow \in Nat /\ p.extraFlow \in Nat /\ p.ratedFlow < p.extraFlow
          /\ p.churn >= p.ratedHead /\ p.ratedHead >= p.extraHead /\ p.extraHead >= 0
          /\ p.churn <= Quarter - 1 /\ Quarter \in Nat
      BY <1>2, Widths DEF Drops
    <2>2. first(x) \in Int /\ second(x) \in Int
      BY <1>5
    <2>3. CASE x <= p.ratedFlow
      <3>1. first(x) <= first(0) /\ first(p.ratedFlow) <= first(x)
        BY <1>5, <2>1, <2>3
      <3>2. QED
        BY <1>2, <1>4, <1>8, <2>1, <2>2, <2>3, <3>1
    <2>4. CASE p.ratedFlow < x /\ x < p.extraFlow
      <3>1. second(x) <= second(p.ratedFlow) /\ second(p.extraFlow) <= second(x)
        BY <1>5, <2>1, <2>4
      <3>2. QED
        BY <1>2, <1>4, <1>8, <2>1, <2>2, <2>4, <3>1
    <2>5. CASE p.extraFlow <= x
      <3>1. second(x) <= second(p.extraFlow)
        BY <1>5, <2>1, <2>5
      <3>2. boost(x) = NonNegative(second(x))
        BY <1>8, <2>5
      <3>3. QED
        BY <1>2, <1>4, <2>1, <2>2, <3>1, <3>2 DEF NonNegative
    <2>6. QED
      BY <2>1, <2>3, <2>4, <2>5
  <1>11. QED
    <2>1. boost(q) \in 0 .. Quarter - 1 /\ boost(r) \in 0 .. Quarter - 1
      BY <1>10
    <2>2. r = 0 => boost(r) = p.churn
      BY <1>8
    <2>3. \A x \in Nat : pumpBoostAt(p, x) = {boost(x)}
      <3> SUFFICES ASSUME NEW x \in Nat
                   PROVE  pumpBoostAt(p, x) = {boost(x)}
        OBVIOUS
      <3>1. boost(x) \in Int64
        BY <1>10, Widths
      <3>2. Converted({boost(x)}) = {boost(x)}
        BY <3>1, ConvertedIsInt64
      <3>3. QED
        BY <1>7, <3>2 DEF pumpBoostAt
    <2>4. QED
      BY <1>9, <2>1, <2>2, <2>3 DEF AtMost

\* What is enough at a flow is enough at a smaller one.  Where the pump is
\* left out at the smaller flow the supply is enough alone; where it is not,
\* supply and pump both give at least as much as at the larger flow.
LEMMA SmallerIsMet ==
    ASSUME NEW s, s.static \in Figure, s.points \in Seq(Point), Falling(s),
           NEW p, \/ p = NoPump
                  \/ /\ p \in Pump /\ Drops(p) /\ p.ratedFlow > 0
                     /\ p.churn > 0 /\ p.churn \in Figure,
           NEW q \in Nat, NEW r \in Nat, r <= q, NEW need \in Figure, need > 0,
           NEW d \in Compare(s, p, q, need), d.surplus >= 0,
           NEW c \in Compare(s, p, r, need)
    PROVE  c.surplus >= 0
  <1> DEFINE added(x) == IF p = NoPump THEN {0} ELSE pumpBoostAt(p, x)
             total(res, b, x) == IF res >= need /\ x > 0 THEN res
                                 ELSE IF p # NoPump THEN Wrap(res + b) ELSE res
  <1>1. PICK a1, b1 \in Figure : residualAt(s, q) = {a1} /\ residualAt(s, r) = {b1} /\ a1 <= b1
    <2>1. AtMost(residualAt(s, q), residualAt(s, r), Figure)
      BY ResidualFalls
    <2>2. QED
      BY <2>1 DEF AtMost
  <1>2. PICK a2, b2 \in 0 .. Quarter - 1 :
            /\ added(q) = {a2} /\ added(r) = {b2} /\ a2 <= b2
            /\ r = 0 /\ p # NoPump => b2 > 0
    <2>1. CASE p = NoPump
      <3>1. 0 \in 0 .. Quarter - 1
        BY Widths
      <3>2. added(q) = {0} /\ added(r) = {0}
        BY <2>1
      <3> HIDE DEF added
      <3>3. QED
        BY <2>1, <3>1, <3>2
    <2>2. CASE p # NoPump
      <3>1. p \in Pump /\ Drops(p) /\ p.ratedFlow > 0 /\ p.churn > 0 /\ p.churn \in Figure
        BY <2>2
      <3>2. PICK a2, b2 \in 0 .. Quarter - 1 :
                /\ pumpBoostAt(p, q) = {a2} /\ pumpBoostAt(p, r) = {b2}
                /\ a2 <= b2 /\ (r = 0 => b2 = p.churn)
        <4>1. /\ AtMost(pumpBoostAt(p, q), pumpBoostAt(p, r), 0 .. Quarter - 1)
              /\ r = 0 => pumpBoostAt(p, r) = {p.churn}
          BY <3>1, BoostFalls
        <4>2. QED
          BY <4>1 DEF AtMost
      <3>3. added(q) = {a2} /\ added(r) = {b2}
        BY <2>2, <3>2
      <3> HIDE DEF added
      <3>4. QED
        BY <3>1, <3>2, <3>3
    <2>3. QED
      BY <2>1, <2>2
  <1>3. \A x \in Nat : \A e \in Compare(s, p, x, need) :
            \E res \in residualAt(s, x), b \in added(x) : e.surplus = Wrap(total(res, b, x) - need)
    <2> SUFFICES ASSUME NEW x \in Nat, NEW e \in Compare(s, p, x, need)
                 PROVE  \E res \in residualAt(s, x), b \in added(x) :
                            e.surplus = Wrap(total(res, b, x) - need)
      OBVIOUS
    <2>1. PICK res \in residualAt(s, x), b \in added(x) :
              e = Comparison(Available(res, b, p, x, need), x, need)
      BY DEF Compare
    <2>2. e.surplus = Wrap(total(res, b, x) - need)
      BY <2>1 DEF Comparison, Available
    <2> HIDE DEF total, added
    <2>3. QED
      BY <2>1, <2>2
  <1> q \in Nat /\ r \in Nat
    OBVIOUS
  <1>4. d.surplus = Wrap(total(a1, a2, q) - need)
    <2> HIDE DEF total, added
    <2>1. residualAt(s, q) = {a1} /\ added(q) = {a2}
      BY <1>1, <1>2
    <2>2. QED
      BY <1>3, <2>1
  <1>5. c.surplus = Wrap(total(b1, b2, r) - need)
    <2> HIDE DEF total, added
    <2>1. residualAt(s, r) = {b1} /\ added(r) = {b2}
      BY <1>1, <1>2
    <2>2. QED
      BY <1>3, <2>1
  <1> HIDE DEF added
  <1>6. \A x \in Figure, y \in 0 .. Quarter - 1 :
            /\ Wrap(x + y) = x + y
            /\ \A t \in {x, x + y} : Wrap(t - need) = t - need
    <2> SUFFICES ASSUME NEW x \in Figure, NEW y \in 0 .. Quarter - 1, NEW t \in {x, x + y}
                 PROVE  Wrap(x + y) = x + y /\ Wrap(t - need) = t - need
      OBVIOUS
    <2>1. /\ x \in Int /\ -Quarter <= x /\ x <= Quarter - 1 /\ Quarter \in Nat
          /\ need \in Int /\ 0 < need /\ need <= Quarter - 1
          /\ y \in Int /\ 0 <= y /\ y <= Quarter - 1
      BY Widths
    <2>2. t \in Int /\ -Quarter <= t /\ t <= 2 * Quarter - 2
      BY <2>1
    <2>3. ASSUME NEW z \in Int, -2 * Quarter <= z, z <= 2 * Quarter - 1
          PROVE  Wrap(z) = z
      <3>1. z \in Int64
        BY <2>3, Widths
      <3>2. -4 * Quarter <= z /\ z <= 4 * Quarter - 1
        BY <2>1, <2>3
      <3>3. QED
        BY <3>1, <3>2, WrapIsInt64
    <2>4. /\ x + y \in Int /\ -2 * Quarter <= x + y /\ x + y <= 2 * Quarter - 1
          /\ t - need \in Int /\ -2 * Quarter <= t - need /\ t - need <= 2 * Quarter - 1
      BY <2>1, <2>2
    <2>5. QED
      BY <2>3, <2>4
  <1>7. /\ d.surplus = (IF a1 >= need /\ q > 0 THEN a1
                        ELSE IF p # NoPump THEN a1 + a2 ELSE a1) - need
        /\ c.surplus = (IF b1 >= need /\ r > 0 THEN b1
                        ELSE IF p # NoPump THEN b1 + b2 ELSE b1) - need
    <2>1. /\ Wrap(a1 + a2) = a1 + a2 /\ \A t \in {a1, a1 + a2} : Wrap(t - need) = t - need
          /\ Wrap(b1 + b2) = b1 + b2 /\ \A t \in {b1, b1 + b2} : Wrap(t - need) = t - need
      BY <1>1, <1>2, <1>6
    <2>2. /\ total(a1, a2, q) = IF a1 >= need /\ q > 0 THEN a1
                               ELSE IF p # NoPump THEN a1 + a2 ELSE a1
          /\ total(b1, b2, r) = IF b1 >= need /\ r > 0 THEN b1
                               ELSE IF p # NoPump THEN b1 + b2 ELSE b1
      BY <2>1
    <2>3. total(a1, a2, q) \in {a1, a1 + a2} /\ total(b1, b2, r) \in {b1, b1 + b2}
      BY <2>2
    <2> HIDE DEF total
    <2>4. /\ Wrap(total(a1, a2, q) - need) = total(a1, a2, q) - need
          /\ Wrap(total(b1, b2, r) - need) = total(b1, b2, r) - need
      BY <2>1, <2>3
    <2>5. QED
      BY <1>4, <1>5, <2>2, <2>4
  <1>8. /\ a1 \in Int /\ b1 \in Int /\ a1 <= b1 /\ need \in Int
        /\ a2 \in Int /\ b2 \in Int /\ a2 <= b2 /\ 0 <= b2
        /\ r = 0 /\ p # NoPump => b2 > 0
    BY <1>1, <1>2, Widths
  <1>9. QED
    BY <1>7, <1>8

\* A smaller demand never fails a system: with a supply and a pump that fall,
\* what is enough at some flow is enough at any smaller one, although the code
\* leaves the pump out wherever the supply is enough alone.
THEOREM SmallerDemandIsMetHolds ==
    ASSUME WholePhysics
    PROVE  Spec => []SmallerDemandIsMet
  <1>1. IInv => SmallerDemandIsMet
    <2> SUFFICES ASSUME IInv, FallingSupply, FallingPump,
                        NEW q \in Flows, NEW r \in Flows, NEW need \in 1 .. maxPressure,
                        r <= q,
                        NEW d \in Compare(supply, pump, q, need), d.surplus >= 0,
                        NEW c \in Compare(supply, pump, r, need)
                 PROVE  c.surplus >= 0
      BY DEF SmallerDemandIsMet
    <2>1. supply.static \in Figure /\ supply.points \in Seq(Point) /\ Falling(supply)
      <3>1. supply \in Supplies /\ Falling(supply)
        BY DEF IInv, TypeOK, FallingSupply, Falling
      <3>2. QED
        BY <3>1, GivenFigures
    <2>2. \/ pump = NoPump
          \/ /\ pump \in Pump /\ Drops(pump) /\ pump.ratedFlow > 0
             /\ pump.churn > 0 /\ pump.churn \in Figure
      <3>1. pump # NoPump => pump \in Pumps /\ pump.ratedFlow > 0 /\ pump.churn > 0
        BY DEF IInv, TypeOK, Delivers
      <3>2. pump # NoPump => Drops(pump)
        BY DEF FallingPump, Drops
      <3>3. QED
        BY <3>1, <3>2, GivenFigures
    <2>3. q \in Nat /\ r \in Nat /\ need \in Figure /\ need > 0
      BY InputsAssumption, LimitsAssumption, Widths
    <2>4. QED
      BY <2>1, <2>2, <2>3, SmallerIsMet, ZenonT(60)
  <1>2. QED
    BY <1>1, IInvHolds, PTL

=============================================================================
