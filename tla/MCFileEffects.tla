---------------------------- MODULE MCFileEffects ----------------------------
(* Small instance of FileEffects. *)
EXTENDS FileEffects, TLC

CONSTANTS o1, o2, o3, w1, x1, c1, c2, c3

MCSymmetry == Permutations({o1, o2, o3}) \cup Permutations({c1, c2, c3})
=============================================================================
