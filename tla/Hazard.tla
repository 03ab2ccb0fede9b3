------------------------------- MODULE Hazard -------------------------------
(***************************************************************************)
(* The table of package hazard: the design parameters that the hazard      *)
(* class of a project asks of its systems.                                 *)
(***************************************************************************)
EXTENDS Integers

AllClasses == {"light", "ordinary1", "ordinary2", "extra1", "extra2", "storage"}

\* Density in mm/min, area in dm2, pressure at the remote sprinkler in mbar.
table ==
    [c \in AllClasses |->
        [density   |-> CASE c = "light" -> 21 [] c = "ordinary1" -> 43 [] c = "ordinary2" -> 52
                         [] c = "extra1" -> 75 [] c = "extra2" -> 95 [] c = "storage" -> 80,
         area      |-> IF c \in {"light", "ordinary1", "ordinary2"} THEN 13900 ELSE 23200,
         remoteMin |-> 500]]

Params0(c) == IF c \in DOMAIN table THEN table[c].remoteMin ELSE 0

Validate(c, density, area, pressure) ==
    /\ c \in DOMAIN table
    /\ density >= table[c].density
    /\ area = table[c].area
    /\ pressure >= table[c].remoteMin
=============================================================================
