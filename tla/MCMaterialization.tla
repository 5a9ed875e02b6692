-------------------------- MODULE MCMaterialization --------------------------
(* A small instance of Materialization for TLC. *)
EXTENDS MaterializationInvariant, TLC

CONSTANTS root, extra, p1, p2, i1, i2, g1

MCDefault == {root}
MCKeys == {root, extra}

\* The run begins one lease after the start of time: either nothing happened
\* before, or the owner of a reservation crashed at its start and the lease
\* has just run out.  Both are states of Spec.
Orphan == [state |-> "materializing", id |-> i1, gen |-> i1, attempt |-> i1,
           attemptExpires |-> AttemptMs, start |-> 0, seal |-> 0]
MCInit ==
    /\ clock = LeaseMs
    /\ \/ row = [k \in Keys |-> NoRow] /\ reserved = 0 /\ faults = 0
       \/ row = [[k \in Keys |-> NoRow] EXCEPT ![root] = Orphan] /\ reserved = Mib /\ faults = 1
    /\ vm = [i \in Ids |-> NoVm]
    /\ late = {}
    /\ caller = [c \in Callers |-> Idle]

MCSpec == MCInit /\ [][Next]_vars /\ Fairness
=============================================================================
