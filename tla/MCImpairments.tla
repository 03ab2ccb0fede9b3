--------------------------- MODULE MCImpairments ---------------------------
(* Impairments on small instances: one or two systems, one or two callers. *)
EXTENDS Impairments, TLC

\* Systems and clients are interchangeable: no definition names one.
Symmetry == Permutations(Systems) \union Permutations(Clients)
=============================================================================
