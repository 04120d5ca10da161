------------------------------- MODULE MCAtlas ------------------------------
(* Instances of AtlasTransaction, with its invariant, for TLC. *)
EXTENDS AtlasCustody, TLC
AppSymmetry == Permutations(Apps)
=============================================================================
