----------------------------- MODULE RootedTree -----------------------------
(* What a network is, once it has been built: for Network and for Figures.  *)
EXTENDS Integers, FiniteSets

\* The nodes N, of which each but the root has one above it, as a tree: among any
\* of them there is a lowest one, above none of the others.
IsTree(N, root, up) ==
    /\ IsFiniteSet(N)
    /\ root \in N
    /\ up \in [N \ {root} -> N]
    /\ \A S \in SUBSET N : S # {} =>
          \E n \in S : \A m \in S \ {root} : up[m] # n
=============================================================================
