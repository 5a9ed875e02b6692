---------------------------- MODULE EgressGateway ----------------------------
(***************************************************************************)
(* The egress gateway (hand-egress-gateway: proxy.rs, policy.rs,           *)
(* capability.rs and tls.rs): the life of a CONNECT from the accepted      *)
(* socket to the end of its tunnel, for several connections at once.  A    *)
(* connection holds a setup slot until it has a tunnel slot, a permit of   *)
(* its root from authentication on, and shares the byte budget of its      *)
(* tunnel between two copy loops.  Every wait has a timer of its own: the  *)
(* setup deadline, the idle bound of each direction and the expiry of the  *)
(* capability.  Names, addresses and tokens are members of small sets; a   *)
(* port is part of its name or address.                                    *)
(***************************************************************************)
EXTENDS Integers, Sequences, FiniteSets

CONSTANTS
    Conns,        \* client connections
    Caps,         \* verified capabilities
    RootOf, ExpiresOf,   \* [Caps -> root, expiry]
    HostRules, CidrRules, \* [Caps -> names, addresses] the capability grants
    Names, Addrs, \* what a CONNECT may name and DNS may answer
    Denied,       \* names and addresses that are permanently denied
    MaxConnections, MaxPerRoot, MaxPendingSetups, \* admission bounds
    MaxRelayBytes, MaxChunk,                      \* byte budget, largest read
    SetupTimeout, IdleTimeout,
    MaxTime, MaxArrival, \* bounds: the clock, and the time by which every client has connected
    None

\* What any deployment has: natural bounds, and finitely many connections.
Parameters ==
    /\ IsFiniteSet(Conns) /\ ExpiresOf \in [Caps -> Nat]
    /\ {MaxConnections, MaxPerRoot, MaxPendingSetups, MaxRelayBytes, MaxChunk} \subseteq Nat
    /\ {SetupTimeout, IdleTimeout, MaxTime} \subseteq Nat

ASSUME GatewayAssumption == Parameters

Dirs == {"up", "down"}
Roots == {RootOf[k] : k \in Caps}

VARIABLES
    now,
    conn,    \* [Conns -> [at, cap, name, addr, sni, accepted]]
    setups,  \* free setup slots
    tunnels, \* free tunnel slots
    waiting, \* connections queued for a tunnel slot, first in first out
    active,  \* [Roots -> permits in use]
    budget,  \* [Conns -> bytes the tunnel may still carry]
    flow,    \* [Conns -> [Dirs -> [at, chunk, since]]]: the two copy loops
    carried  \* ghost: [Conns -> bytes written to either side]

vars == <<now, conn, setups, tunnels, waiting, active, budget, flow, carried>>
slots == <<setups, tunnels, waiting, active>>
stream == <<budget, flow, carried>>

Free == [at |-> "none", cap |-> None, name |-> None, addr |-> None, sni |-> FALSE, accepted |-> 0]
Reading(t) == [at |-> "read", chunk |-> 0, since |-> t]

Init ==
    /\ now = 0
    /\ conn = [c \in Conns |-> Free]
    /\ setups = MaxPendingSetups /\ tunnels = MaxConnections /\ waiting = <<>>
    /\ active = [r \in Roots |-> 0]
    /\ budget = [c \in Conns |-> MaxRelayBytes]
    /\ flow = [c \in Conns |-> [d \in Dirs |-> Reading(0)]]
    /\ carried = [c \in Conns |-> 0]

At(c) == conn[c].at
Root(c) == RootOf[conn[c].cap]
InSetup == {"header", "resolve", "queue"}
Rooted == {"resolve", "queue", "dial", "hello", "relay"}
Tunnelled == {"dial", "hello", "relay"}

\* The byte budget and the copy loops of a tunnel.
Forget(c) ==
    /\ budget' = [budget EXCEPT ![c] = MaxRelayBytes] /\ carried' = [carried EXCEPT ![c] = 0]
    /\ flow' = [flow EXCEPT ![c] = [d \in Dirs |-> Reading(0)]]

\* A dropped wait for a tunnel slot leaves the queue; the others keep their order.
Leave(queue, c) ==
    LET i == CHOOSE i \in 1..Len(queue) : queue[i] = c
    IN  SubSeq(queue, 1, i - 1) \o SubSeq(queue, i + 1, Len(queue))

\* Mutant: a connection that ends before its hello keeps the permit of its root.
Close_KeepsRoot(c) ==
    /\ conn' = [conn EXCEPT ![c] = [Free EXCEPT !.at = "closed"]] /\ Forget(c)
    /\ setups' = IF At(c) \in InSetup THEN setups + 1 ELSE setups
    /\ tunnels' = IF At(c) \in Tunnelled THEN tunnels + 1 ELSE tunnels
    /\ waiting' = IF At(c) = "queue" THEN Leave(waiting, c) ELSE waiting
    /\ active' = IF At(c) \in {"hello", "relay"} THEN [active EXCEPT ![Root(c)] = @ - 1] ELSE active

\* However a connection ends, its permits and its budget are dropped with it.
Close(c) ==
    /\ conn' = [conn EXCEPT ![c] = [Free EXCEPT !.at = "closed"]] /\ Forget(c)
    /\ setups' = IF At(c) \in InSetup THEN setups + 1 ELSE setups
    /\ tunnels' = IF At(c) \in Tunnelled THEN tunnels + 1 ELSE tunnels
    /\ waiting' = IF At(c) = "queue" THEN Leave(waiting, c) ELSE waiting
    /\ active' = IF At(c) \in Rooted THEN [active EXCEPT ![Root(c)] = @ - 1] ELSE active

-----------------------------------------------------------------------------
(* Setup *)

\* serve_proxy takes a setup slot before it accepts the next connection.
Accept(c) ==
    /\ At(c) = "none" /\ setups > 0
    /\ setups' = setups - 1
    /\ conn' = [conn EXCEPT ![c].at = "header", ![c].accepted = now]
    /\ UNCHANGED <<now, tunnels, waiting, active, stream>>

\* verify_token: only a capability that has not expired is accepted.
Verified(k) == ExpiresOf[k] > now

\* The header is complete: the capability is verified and a permit of its root taken.
Connect(c) ==
    /\ At(c) = "header"
    /\ \E k \in Caps, n \in Names \cup Addrs :
          IF Verified(k) /\ active[RootOf[k]] < MaxPerRoot
          THEN /\ conn' = [conn EXCEPT ![c].at = "resolve", ![c].cap = k, ![c].name = n]
               /\ active' = [active EXCEPT ![RootOf[k]] = @ + 1]
               /\ UNCHANGED <<setups, tunnels, waiting, stream>>
          ELSE Close(c)
    /\ UNCHANGED now

\* The client sends something else, or its socket breaks before the tunnel relays.
Malformed(c) ==
    /\ At(c) \in {"header", "hello"}
    /\ Close(c) /\ UNCHANGED now

\* Mutant: only the requested name is looked up among the denied ones.
Authorize_NameOnly(k, n, aliases, addrs) ==
    LET hostRule == n \in HostRules[k]
        cidrRule == addrs \subseteq CidrRules[k]
    IN IF n \notin Denied /\ addrs # {} /\ (hostRule \/ cidrRule)
       THEN {[addr |-> a, sni |-> hostRule] : a \in {CHOOSE a \in addrs : TRUE}}
       ELSE {}

\* authorize: a literal address needs a CIDR rule.  For a name every alias and every answer is
\* checked against the permanent denials, and either the name has a rule or all its addresses do.
Authorize(k, n, aliases, addrs) ==
    LET hostRule == n \in HostRules[k]
        cidrRule == addrs \subseteq CidrRules[k]
    IN IF ({n} \cup aliases \cup addrs) \cap Denied = {} /\ addrs # {} /\ (hostRule \/ cidrRule)
       THEN {[addr |-> a, sni |-> hostRule] : a \in {CHOOSE a \in addrs : TRUE}}
       ELSE {}

\* The name is resolved once; the address that was checked is the one that will be dialled.
Resolve(c) ==
    /\ At(c) = "resolve"
    /\ \E aliases \in SUBSET Names, addrs \in SUBSET Addrs :
          /\ conn[c].name \in Addrs => aliases = {} /\ addrs = {conn[c].name}
          /\ LET target == Authorize(conn[c].cap, conn[c].name, aliases, addrs) IN
             IF target = {} THEN Close(c)
             ELSE /\ \E t \in target :
                        conn' = [conn EXCEPT ![c].at = "queue", ![c].addr = t.addr, ![c].sni = t.sni]
                  /\ waiting' = Append(waiting, c)
                  /\ UNCHANGED <<setups, tunnels, active, stream>>
    /\ UNCHANGED now

\* The setup slot becomes a tunnel slot before the upstream is dialled.
Admit(c) ==
    /\ At(c) = "queue" /\ tunnels > 0 /\ Head(waiting) = c
    /\ tunnels' = tunnels - 1 /\ setups' = setups + 1 /\ waiting' = Tail(waiting)
    /\ conn' = [conn EXCEPT ![c].at = "dial"]
    /\ UNCHANGED <<now, active, stream>>

\* The relay starts after sent bytes of the client were forwarded, unless its capability expired.
StartRelay(c, sent) ==
    IF Verified(conn[c].cap)
    THEN /\ conn' = [conn EXCEPT ![c].at = "relay"]
         /\ budget' = [budget EXCEPT ![c] = @ - sent] /\ carried' = [carried EXCEPT ![c] = @ + sent]
         /\ flow' = [flow EXCEPT ![c] = [d \in Dirs |-> Reading(now)]]
         /\ UNCHANGED slots
    ELSE Close(c)

\* The upstream answers, the client is told, and a host grant waits for its ClientHello.
Dial(c) ==
    /\ At(c) = "dial"
    /\ \/ /\ conn[c].sni
          /\ conn' = [conn EXCEPT ![c].at = "hello"] /\ UNCHANGED <<slots, stream>>
       \/ ~conn[c].sni /\ StartRelay(c, 0)
       \/ Close(c)
    /\ UNCHANGED now

\* The ClientHello names the requested host and fits the budget: it is forwarded.
Hello(c) ==
    /\ At(c) = "hello"
    /\ \E n \in 1..MaxChunk : IF n <= budget[c] THEN StartRelay(c, n) ELSE Close(c)
    /\ UNCHANGED now

-----------------------------------------------------------------------------
(* Relay *)

\* copy_with_idle: what was read is taken from the shared budget before it is written.
Read(c, d) ==
    /\ At(c) = "relay" /\ flow[c][d].at = "read"
    /\ \E n \in 1..MaxChunk :
          IF n <= budget[c]
          THEN /\ budget' = [budget EXCEPT ![c] = @ - n]
               /\ flow' = [flow EXCEPT ![c][d] = [at |-> "write", chunk |-> n, since |-> now]]
               /\ UNCHANGED <<conn, slots, carried>>
          ELSE Close(c)
    /\ UNCHANGED now

Write(c, d) ==
    /\ At(c) = "relay" /\ flow[c][d].at = "write"
    /\ carried' = [carried EXCEPT ![c] = @ + flow[c][d].chunk]
    /\ flow' = [flow EXCEPT ![c][d] = Reading(now)]
    /\ UNCHANGED <<now, conn, slots, budget>>

\* The end of one direction is passed on; the tunnel ends with the second.
Eof(c, d) ==
    /\ At(c) = "relay" /\ flow[c][d].at = "read"
    /\ IF \A e \in Dirs \ {d} : flow[c][e].at = "done" THEN Close(c)
       ELSE flow' = [flow EXCEPT ![c][d].at = "done"] /\ UNCHANGED <<conn, slots, budget, carried>>
    /\ UNCHANGED now

\* A socket of the tunnel fails.
Broken(c) ==
    /\ At(c) = "relay"
    /\ Close(c) /\ UNCHANGED now

-----------------------------------------------------------------------------
(* Timers *)

\* Mutant: the setup deadline does not run while a connection is queued.
Due_Unqueued(c) ==
    \/ At(c) \in {"header", "resolve", "dial", "hello"} /\ now >= conn[c].accepted + SetupTimeout
    \/ At(c) = "relay" /\ now >= ExpiresOf[conn[c].cap]
    \/ At(c) = "relay" /\ \E d \in Dirs : flow[c][d].at # "done" /\ now >= flow[c][d].since + IdleTimeout

\* A timer of the connection has run out: the setup deadline, the capability or an idle direction.
Due(c) ==
    \/ At(c) \in {"header", "resolve", "queue", "dial", "hello"} /\ now >= conn[c].accepted + SetupTimeout
    \/ At(c) = "relay" /\ now >= ExpiresOf[conn[c].cap]
    \/ At(c) = "relay" /\ \E d \in Dirs : flow[c][d].at # "done" /\ now >= flow[c][d].since + IdleTimeout

TimedOut(c) ==
    /\ Due(c) /\ Close(c)
    /\ UNCHANGED now

\* The clock passes neither a timer that is due nor a client that connected and can be accepted.
Tick ==
    /\ now < MaxTime
    /\ \A c \in Conns : ~Due(c) /\ ~(At(c) = "none" /\ setups > 0 /\ now >= MaxArrival)
    /\ now' = now + 1
    /\ UNCHANGED <<conn, slots, stream>>

-----------------------------------------------------------------------------
Next ==
    \/ Tick
    \/ \E c \in Conns :
          \/ Accept(c) \/ Connect(c) \/ Malformed(c) \/ Resolve(c) \/ Admit(c) \/ Dial(c) \/ Hello(c)
          \/ Broken(c) \/ TimedOut(c)
          \/ \E d \in Dirs : Read(c, d) \/ Write(c, d) \/ Eof(c, d)

Spec == Init /\ [][Next]_vars

\* Time passes, a timer that is due fires, and the accept loop and the admission queue run on;
\* clients and upstreams may stall at any point.
FairSpec ==
    /\ Spec /\ WF_vars(Tick)
    /\ \A c \in Conns : WF_vars(TimedOut(c)) /\ WF_vars(Admit(c)) /\ WF_vars(Accept(c))

-----------------------------------------------------------------------------
(* Properties *)

\* TypeOK: what every variable holds.
TypeOK ==
    /\ now \in 0..MaxTime
    /\ \A c \in Conns : At(c) \in {"none", "closed"} \cup InSetup \cup Tunnelled
    /\ setups \in 0..MaxPendingSetups /\ tunnels \in 0..MaxConnections
    /\ active \in [Roots -> 0..MaxPerRoot]
    /\ budget \in [Conns -> 0..MaxRelayBytes]
    /\ {waiting[i] : i \in 1..Len(waiting)} = {c \in Conns : At(c) = "queue"}

\* PermitsExact: on every path of setup, relay, refusal and timeout the free setup slots, the free
\* tunnel slots and the permits of every root account for exactly the connections that hold them,
\* so nothing leaks and no bound is passed (serve_proxy, connect_setup, RootQuotas).
PermitsExact ==
    /\ setups + Cardinality({c \in Conns : At(c) \in InSetup}) = MaxPendingSetups
    /\ tunnels + Cardinality({c \in Conns : At(c) \in Tunnelled}) = MaxConnections
    /\ \A r \in Roots : /\ active[r] = Cardinality({c \in Conns : At(c) \in Rooted /\ Root(c) = r})
                        /\ active[r] <= MaxPerRoot

\* BudgetShared: the hello and both directions of a tunnel together never carry more than the
\* relay bound, however their reads and writes interleave (ByteBudget::consume).
BudgetShared ==
    \A c \in Conns :
        carried[c] + budget[c] + (IF flow[c]["up"].at = "write" THEN flow[c]["up"].chunk ELSE 0)
                   + (IF flow[c]["down"].at = "write" THEN flow[c]["down"].chunk ELSE 0) = MaxRelayBytes

\* DialsOnlyGranted: what is dialled is granted by the capability and not denied, whatever DNS
\* answered (authorize, checked_ipv4_answers).
DialsOnlyGranted ==
    \A c \in Conns : At(c) \in Tunnelled =>
        /\ conn[c].addr \notin Denied /\ conn[c].name \notin Denied
        /\ \/ conn[c].sni /\ conn[c].name \in HostRules[conn[c].cap]
           \/ conn[c].addr \in CidrRules[conn[c].cap]

\* SetupIsBounded: a connection holds its setup slot no longer than the setup timeout, in whatever
\* step it stalls (the deadline that handle computes once and passes to every wait).
SetupIsBounded ==
    \A c \in Conns : At(c) \in InSetup => now <= conn[c].accepted + SetupTimeout

\* RelayEndsWithCapability: no tunnel relays beyond the expiry of its capability, however busy.
RelayEndsWithCapability ==
    \A c \in Conns : At(c) = "relay" => now <= ExpiresOf[conn[c].cap]

\* EveryClientServed: although clients and upstreams may stall for ever, every connection that
\* waits is accepted and every accepted one ends.
EveryClientServed == \A c \in Conns : <>(At(c) = "closed")

\* LimitsHold: the bounds of the gateway on connections, roots, setup time and bytes hold together,
\* and every variable has its type.
LimitsHold == TypeOK /\ PermitsExact /\ SetupIsBounded /\ BudgetShared

\* WithinGrant: a tunnel goes only where its capability lets it go, and only as long (authorize and
\* the expiry that tunnel passes to the relay).
WithinGrant == DialsOnlyGranted /\ RelayEndsWithCapability
=============================================================================
