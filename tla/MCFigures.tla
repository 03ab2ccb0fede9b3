----------------------------- MODULE MCFigures -----------------------------
(***************************************************************************)
(* Figures on small instances: every tree of four nodes, with each choice  *)
(* of what stands at three of them, flat or rising, and one network that   *)
(* is not a tree; formulas of physics with the shape of the real ones.     *)
(***************************************************************************)
EXTENDS Figures

SquareRoot(x) == CHOOSE r \in 0 .. x : r * r <= x /\ (r + 1) * (r + 1) > x

MCSprinklerFlow(k, p)    == IF k <= 0 \/ p <= 0 THEN 0 ELSE k * SquareRoot(p)
MCFrictionLoss(size, q)  == IF size <= 0 \/ q <= 0 THEN 0 ELSE (q * q) \div (2 * size)
MCElevationPressure(dh)  == 2 * dh
MCVelocity(size, q)      == IF size <= 0 \/ q <= 0 THEN 0 ELSE q \div size

N == {"source", "a", "b", "c"}
Tree(up, b, c, rise) ==
    [tree        |-> TRUE,
     source      |-> "source",
     type        |-> [n \in N |-> CASE n = "source" -> "source" [] n = "a" -> "junction"
                                    [] n = "b" -> b [] n = "c" -> c],
     elevation   |-> [n \in N |-> CASE n = "c" -> 2 * rise [] n = "b" -> rise [] OTHER -> 0],
     k           |-> [n \in N |-> IF n = "b" THEN 2 ELSE 1],
     minPressure |-> [n \in N |-> IF n = "b" THEN 9 ELSE 0],
     up          |-> up,
     size        |-> [n \in N \ {"source"} |-> IF n = "c" THEN 1 ELSE 2],
     looseDrain  |-> rise > 0]

Trees ==
    {Tree([n \in N \ {"source"} |-> CASE n = "a" -> "source" [] n = "b" -> ub [] n = "c" -> uc],
          b, c, rise) :
        ub \in {"source", "a"}, uc \in {"source", "a", "b"},
        b \in {"junction", "sprinkler"}, c \in {"sprinkler", "drain"}, rise \in {-1, 1}}

MCNetworks == Trees \union
    {[Tree([n \in N \ {"source"} |-> "a"], "sprinkler", "drain", 1) EXCEPT !.tree = FALSE]}

\* Along each order that postOrder may give, whatever the flows were before, the
\* pass comes to what the recursion comes to.
ASSUME PassIsRecursion ==
    \A w \in Trees : \A order \in [1 .. Cardinality(N) -> N] : ChildrenFirst(w, order) =>
        \A p \in {4, 9}, q \in {0, 5} :
            FlowsAlong(w, order, [n \in N |-> p], [n \in N |-> q]) = FlowsAt(w, [n \in N |-> p])

Point(q, p) == [flow |-> q, pressure |-> p]
MCSupplies == {[static |-> 9, points |-> << >>],
               [static |-> 20, points |-> << Point(6, 5), Point(2, 17) >>],
               [static |-> 20, points |-> << Point(2, 17), Point(4, 12), Point(4, 9) >>],
               [static |-> 0, points |-> << Point(2, 1) >>]}

Pump(churn, extraFlow, extraHead) ==
    [churn |-> churn, ratedFlow |-> 4, ratedHead |-> 9, extraFlow |-> extraFlow, extraHead |-> extraHead]
MCPumps == {Pump(12, 6, 6), Pump(12, 4, 9), Pump(31, 6, 6)}
MCFlows == 0 .. 8

\* With a coverage of 10, a remote flow of 3 is enough for light hazard only.
MCDesigns == {[density |-> q, area |-> a, coverage |-> c] :
                 q \in {20, 95}, a \in {13900, 23200}, c \in {0, 10}}

\* amd64 converts NaN and an infinity to the least int64; arm64 converts NaN to
\* 0, or 1 where it is rounded, and an infinity to the end it is nearest to.
MCGarbage == {-2 * Quarter, 0, 1, 2 * Quarter - 1}
=============================================================================
