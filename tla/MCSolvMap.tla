------------------------------ MODULE MCSolvMap ------------------------------
(***************************************************************************)
(* Model-checking instance of SolvMap: three maps, ids at both ends of     *)
(* each byte and just outside the range (-1 and the first id past the      *)
(* bytes).  Sizes are given per run: one pool generation (every map of    *)
(* one size), a size that is not a multiple of 8, or two generations.      *)
(***************************************************************************)
EXTENDS SolvMap, TLC

CONSTANTS m1, m2, m3

MCMaps == {m1, m2, m3}

\* -1, the first and last id of each of two bytes, and 16
MCIds == {-1, 0, 7, 8, 15, 16}

\* the maps are interchangeable objects
Symmetry == Permutations(MCMaps)

=============================================================================
