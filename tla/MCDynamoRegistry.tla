--------------------------- MODULE MCDynamoRegistry ---------------------------
(* Small instances of DynamoRegistry: the requests that one default target can   *)
(* meet, and those of a second one that competes for the memory of the plane.    *)
EXTENDS DynamoRegistry

MCGenOf == [i \in Ids |-> IF i = "i2" THEN "g2" ELSE IF i = "j1" THEN "h1" ELSE "g1"]

Ask(op, key, id, attempt, now, fenced, disp) ==
    [op |-> op, key |-> key, spec |-> "s", id |-> id, gen |-> MCGenOf[id], attempt |-> attempt,
     now |-> now, fenced |-> fenced, replace |-> op = "acquire" /\ ~fenced, disp |-> disp]

First == Ask("acquire", "k", "i1", "i1", 0, FALSE, "lost")
Recovery == Ask("acquire", "k", "i1", "a1", 1, TRUE, "lost")
Rival == Ask("acquire", "k", "i1", "a2", 2, TRUE, "lost")
Later == Ask("acquire", "k", "i2", "i2", 4, FALSE, "lost")
Latest == Ask("acquire", "k", "a1", "a3", 5, FALSE, "lost")
Other == Ask("acquire", "l", "j1", "j1", 0, FALSE, "lost")
OtherSpec == [Later EXCEPT !.spec = "t", !.attempt = "a4"]

Leases == {First, Recovery, Rival, Later, Other, OtherSpec,
           Ask("expire", "k", "i1", "i1", 0, FALSE, "lost"),
           Ask("install", "k", "i1", "i1", 0, FALSE, "lost")}
Closes == {First, Later, Latest,
           Ask("install", "k", "i1", "i1", 0, FALSE, "lost"),
           Ask("close", "k", "i1", "i1", 0, FALSE, "lost"),
           Ask("close", "k", "i1", "i1", 0, FALSE, "terminated"),
           Ask("purge", "k", "i1", "i1", 0, FALSE, "lost")}
Either == Leases \cup Closes

\* A behaviour makes the requests of one of the two sets: the others count as made.
MCInit ==
    /\ row = [k \in Keys |-> NoRow] /\ reserved = 0
    /\ asked = [c \in Calls |-> NoRequest]
    /\ answer = [c \in Calls |-> Plain("none")]
    /\ local = [c \in Calls |-> Idle]
    /\ used \in {Either \ Leases, Either \ Closes}

MCSpec == MCInit /\ [][Next]_vars
=============================================================================
