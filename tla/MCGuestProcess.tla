---------------------------- MODULE MCGuestProcess ----------------------------
(* A small instance of GuestProcess: a leader and a descendant, behind the fence *)
(* for a shell command and for a bundle whose result exceeds its limit.          *)
EXTENDS GuestProcess

CONSTANTS p1, p2

MCInit == Init /\ (kind = "shell" \/ frame # 1 => fenced)

\* A snapshot is taken of bundles only: both kinds wait for the same deadline.
MCNext == Next /\ (kind = "shell" => UNCHANGED pauses)

MCSpec == MCInit /\ [][MCNext]_vars /\ Fairness
=============================================================================
