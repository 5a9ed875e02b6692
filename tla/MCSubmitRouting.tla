--------------------------- MODULE MCSubmitRouting ---------------------------
(* A small instance of SubmitRouting: two operations with one binding that needs *)
(* the session's secrets.                                                        *)
EXTENDS SubmitRouting

Common == [o \in Ops |-> "b"]

\* Two faults and one capability, or one fault and two capabilities.
MCInit ==
    /\ Started
    /\ \/ issued = 1 /\ faults = 0
       \/ issued = 0 /\ faults = 1

MCSpec == MCInit /\ [][Next]_vars /\ Fairness
=============================================================================
