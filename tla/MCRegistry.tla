----------------------------- MODULE MCRegistry ------------------------------
(***************************************************************************)
(* Small instances of Registry.  Two keys collide, and a third one shares  *)
(* their bucket until the table is enlarged.                               *)
(***************************************************************************)
EXTENDS Registry, TLC

CONSTANTS k1, k2, k3

MCKey == {k1, k2, k3}
MCHash == [k \in MCKey |-> IF k = k3 THEN 12 ELSE 7]

\* Packages and atoms are interchangeable.
Symmetry == Permutations(Package) \cup Permutations(Atom)
==============================================================================
