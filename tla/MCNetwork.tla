----------------------------- MODULE MCNetwork -----------------------------
(* Network on small instances: a handful of nodes, one or two callers. *)
EXTENDS Network, TLC

\* Nodes of one type are interchangeable, and so are the clients.
Symmetry == Permutations(Clients) \union Permutations(Sources) \union Permutations(Emitters)
            \union Permutations(Junctions) \union Permutations(Drains)
=============================================================================
