--------------------------- MODULE MCDerivedData ---------------------------
(* DerivedData on small instances: one caller, or two of them racing. *)
EXTENDS DerivedData, TLC

\* Clients and rules are interchangeable: no definition names one.
Symmetry == Permutations(Clients) \union Permutations(Rules)
=============================================================================
