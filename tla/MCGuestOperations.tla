------------------------- MODULE MCGuestOperations -------------------------
(***************************************************************************)
(* Three small instances of GuestOperations in one run: two operations     *)
(* that compete for the slot, the bytes and the tombstones, called one RPC *)
(* at a time, while the guest may restart; one operation whose             *)
(* acknowledgement meets crashes and failed writes; and one operation with *)
(* racing RPCs that disagree on its digest, in a guest that stays up.      *)
(***************************************************************************)
EXTENDS GuestOperations

CONSTANTS o1, o2, d1, d2, r1, c1, c2

VARIABLE instance

Failed(restarts, crashes, io) ==
    failures = [restarts |-> restarts, crashes |-> crashes, io |-> io]

MCInit ==
    /\ Started
    /\ \/ instance = "operations" /\ Failed(0, MaxCrashes, MaxIoErrors)
       \/ instance = "failures" /\ Failed(0, 0, 0)
       \/ instance = "callers" /\ Failed(MaxRestarts, MaxCrashes, MaxIoErrors - 1)

\* The calls that an instance is about.
Concerned(c) ==
    CASE instance = "operations" -> c = c1 /\ call'[c].digest # d2
      [] instance = "failures" -> c = c1 /\ call'[c].op # o2
      [] instance = "callers" -> call'[c].op # o2 /\ (c = c2 => call'[c].digest # d2)

MCNext ==
    /\ Next
    /\ \A c \in Callers : call'[c] = call[c] \/ Concerned(c)
    /\ instance = "callers" => UNCHANGED shutdown
    /\ UNCHANGED instance

MCSpec == MCInit /\ [][MCNext]_<<vars, instance>> /\ Fairness
=============================================================================
