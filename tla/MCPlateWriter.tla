--------------------------- MODULE MCPlateWriter ---------------------------
(* Instances of PlateWriter for TLC.                                       *)
EXTENDS PlateWriter, TLC

CONSTANTS p1, p2, d1, d2

\* Plates and dishes are interchangeable.
Symmetry == Permutations({p1, p2}) \cup Permutations({d1, d2})
=============================================================================
