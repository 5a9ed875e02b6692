---------------------------- MODULE MCGuestInstall ----------------------------
(* A small instance of GuestInstall: one digest with two descriptors, three        *)
(* binding_refs of which two hash to one uid, and three secret sets of a session.  *)
EXTENDS GuestInstall, TLC

Payload(t, g) == [target |-> t, generation |-> g, root |-> "r1", current |-> TRUE]
TwoPayloads == {Payload("vm1", "g1"), Payload("vm1", "g2")}

Bundle(d, env) == [digest |-> d, env |-> env]
Plain == Bundle("d1", {"A"})
TwoDescriptors == {Plain, Bundle("d1", {})}

Seal(ref, session) == [ref |-> ref, root |-> "r1", session |-> session, bundle |-> Plain]
Seals == {Seal("b1", "s1"), Seal("b1", "s2"), Seal("b2", "s1"), Seal("b3", "s1")}
Colliding == [r \in Refs |-> IF r = "b3" THEN 2 ELSE 1]

Set(session, g, declared, v) ==
    [session |-> session, generation |-> g, declared |-> declared, value |-> v, fits |-> TRUE]
SecretVariants == {Set("s1", "g1", {"A"}, "v1"), Set("s1", "g1", {"A"}, "v2"), Set("s1", "g1", {}, "v1")}

Symmetry == Permutations(Callers)
=============================================================================
