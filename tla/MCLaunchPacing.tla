---------------------------- MODULE MCLaunchPacing ----------------------------
(* Small instances of LaunchPacing. *)
EXTENDS LaunchPacing, TLC

CONSTANTS l1, l2, l3

MCSymmetry == Permutations(Launches)
=============================================================================
