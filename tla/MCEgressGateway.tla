--------------------------- MODULE MCEgressGateway ---------------------------
(* A small instance of EgressGateway: two capabilities of different roots, one    *)
(* with a host rule and one with address rules, and a denied name and address.   *)
EXTENDS EgressGateway

MCRootOf == [k \in Caps |-> IF k = "k1" THEN "r1" ELSE "r2"]
MCExpiresOf == [k \in Caps |-> IF k = "k1" THEN 3 ELSE 2]
MCHostRules == [k \in Caps |-> IF k = "k1" THEN {"host", "bad"} ELSE {}]
MCCidrRules == [k \in Caps |-> IF k = "k1" THEN {} ELSE {"ip1", "ip3"}]
=============================================================================
