------------------------- MODULE MCSessionPreparation -------------------------
(* A small instance of SessionPreparation: a bundle cache with room for two of  *)
(* three bundles, and fetch authorities wider than the bundle.                   *)
EXTENDS SessionPreparation, TLC

CONSTANTS b1, b2, b3, c1, c2

Sizes == b1 :> 1 @@ b2 :> 1 @@ b3 :> 2
Authorities == b1 :> 1 @@ b2 :> 2 @@ b3 :> 2

Request(s, r, seal, digest, need, supplied, meta) ==
    [session |-> s, root |-> r, seal |-> seal, digest |-> digest,
     need |-> need, supplied |-> supplied, meta |-> meta]

\* Two sessions of one root compete for room; the first is also sent without an authority for b1,
\* under another seal, and by another root.  The bindings of the second are resolved late.
MCRequests == {
    Request("s1", "r1", "A", "p1", {b1, b2}, {b1, b2}, 1),
    Request("s1", "r1", "A", "p1", {b1, b2}, {b2}, 2),
    Request("s1", "r1", "B", "p9", {b1}, {b1}, 1),
    Request("s1", "r2", "A", "p4", {}, {}, 1),
    Request("s2", "r1", "A", "p2", {b3}, {b3}, 2)}
MCResolved == {r \in MCRequests : r.session = "s1"}

\* The second caller makes the plain requests only.
Usual == {r \in MCRequests : r.seal = "A" /\ r.root = "r1" /\ r.supplied = r.need}
MCNext == Next /\ call'[c2].req \in Usual \cup {None}

MCSpec == Init /\ [][MCNext]_vars /\ Fairness
=============================================================================
