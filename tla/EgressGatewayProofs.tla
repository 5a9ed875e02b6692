------------------------ MODULE EgressGatewayProofs ------------------------
(* Proofs about EgressGateway for every set of connections and every bound. *)
EXTENDS EgressGateway, FiniteSetTheorems, TLAPS

Places == {"none", "closed", "header", "resolve", "queue", "dial", "hello", "relay"}
ConnState == [at : Places, cap : Caps \cup {None}, name : Names \cup Addrs \cup {None},
              addr : Addrs \cup {None}, sni : BOOLEAN, accepted : Nat]
Copy == [at : {"read", "write", "done"}, chunk : Nat, since : Nat]
Granted == {"queue", "dial", "hello", "relay"}

\* What every variable holds.
Shapes ==
    /\ now \in 0..MaxTime /\ conn \in [Conns -> ConnState]
    /\ \A c \in Conns : At(c) \in Rooted => conn[c].cap \in Caps
    /\ setups \in Nat /\ tunnels \in Nat /\ active \in [Roots -> Int]
    /\ budget \in [Conns -> Nat] /\ carried \in [Conns -> Nat]
    /\ flow \in [Conns -> [Dirs -> Copy]]

\* The queue has every waiting connection once.
Queued ==
    /\ waiting \in Seq(Conns)
    /\ \A i, j \in 1..Len(waiting) : waiting[i] = waiting[j] => i = j
    /\ \A c \in Conns : At(c) = "queue" <=> \E i \in 1..Len(waiting) : waiting[i] = c

\* A write is pending only while its tunnel relays, and the budget adds up.
Bytes(f) == IF f.at = "write" THEN f.chunk ELSE 0
Budgeted ==
    \A c \in Conns :
        /\ At(c) # "relay" => flow[c]["up"].at = "read" /\ flow[c]["down"].at = "read"
        /\ carried[c] + budget[c] + Bytes(flow[c]["up"]) + Bytes(flow[c]["down"]) = MaxRelayBytes

\* What was authorized when the name was resolved is what is dialled.
Authorized ==
    \A c \in Conns : At(c) \in Granted =>
        /\ conn[c].addr \notin Denied /\ conn[c].name \notin Denied
        /\ \/ conn[c].sni /\ conn[c].name \in HostRules[conn[c].cap]
           \/ conn[c].addr \in CidrRules[conn[c].cap]

Timely == SetupIsBounded /\ RelayEndsWithCapability

GatewayInv == Shapes /\ Queued /\ PermitsExact /\ Budgeted /\ Authorized /\ Timely

-----------------------------------------------------------------------------
(* The steps, with what they do to the connection they are about *)

\* Connection c becomes x, the others stay as they are.
Becomes(c, x) ==
    /\ x \in ConnState /\ conn' \in [Conns -> ConnState]
    /\ conn'[c] = x /\ \A d \in Conns \ {c} : conn'[d] = conn[d]

Closed == [Free EXCEPT !.at = "closed"]

\* A connection that was accepted ends.
Ends(c) == At(c) \in Places \ {"none", "closed"} /\ Close(c) /\ UNCHANGED now

\* Connect, when the capability is accepted and its root has a permit left.
Authenticated(c, k, n) ==
    /\ At(c) = "header" /\ active[RootOf[k]] < MaxPerRoot
    /\ conn' = [conn EXCEPT ![c].at = "resolve", ![c].cap = k, ![c].name = n]
    /\ active' = [active EXCEPT ![RootOf[k]] = @ + 1]
    /\ UNCHANGED <<now, setups, tunnels, waiting, stream>>

\* Resolve, when the address a may be dialled.
Resolved(c, a, sni) ==
    /\ At(c) = "resolve" /\ a \in Addrs /\ sni \in BOOLEAN
    /\ a \notin Denied /\ conn[c].name \notin Denied
    /\ \/ sni /\ conn[c].name \in HostRules[conn[c].cap]
       \/ a \in CidrRules[conn[c].cap]
    /\ conn' = [conn EXCEPT ![c].at = "queue", ![c].addr = a, ![c].sni = sni]
    /\ waiting' = Append(waiting, c)
    /\ UNCHANGED <<now, setups, tunnels, active, stream>>

\* Dial, when a ClientHello is awaited.
AwaitsHello(c) ==
    /\ At(c) = "dial" /\ conn' = [conn EXCEPT ![c].at = "hello"]
    /\ UNCHANGED <<now, slots, stream>>

\* Dial or Hello, when the relay starts.
Relays(c, sent) ==
    /\ At(c) \in {"dial", "hello"} /\ sent \in Nat /\ sent <= budget[c]
    /\ Verified(conn[c].cap)
    /\ conn' = [conn EXCEPT ![c].at = "relay"]
    /\ budget' = [budget EXCEPT ![c] = @ - sent] /\ carried' = [carried EXCEPT ![c] = @ + sent]
    /\ flow' = [flow EXCEPT ![c] = [d \in Dirs |-> Reading(now)]]
    /\ UNCHANGED <<now, slots>>

\* Read, Write and Eof, when the tunnel goes on: direction d of c becomes f.
Copies(c, d, f) ==
    /\ At(c) = "relay" /\ f \in Copy
    /\ flow' = [flow EXCEPT ![c][d] = f]
    /\ budget' \in [Conns -> Nat] /\ carried' \in [Conns -> Nat]
    /\ \A e \in Conns \ {c} : budget'[e] = budget[e] /\ carried'[e] = carried[e]
    /\ carried'[c] + budget'[c] + Bytes(f) = carried[c] + budget[c] + Bytes(flow[c][d])
    /\ UNCHANGED <<now, conn, slots>>

\* Every step of the gateway is one of these.
Step(c) ==
    \/ Ends(c) \/ Accept(c) \/ Admit(c) \/ AwaitsHello(c)
    \/ \E k \in Caps, n \in Names \cup Addrs : Authenticated(c, k, n)
    \/ \E a \in Addrs, sni \in BOOLEAN : Resolved(c, a, sni)
    \/ \E sent \in Nat : Relays(c, sent)
    \/ \E d \in Dirs, f \in Copy : Copies(c, d, f)

\* Every step of Next is a tick or one of these.
LEMMA Steps ==
  ASSUME GatewayInv, Next
  PROVE  Tick \/ \E c \in Conns : Step(c)
  <1>. SUFFICES ASSUME ~Tick
                PROVE  \E c \in Conns : Step(c)
    OBVIOUS
  <1>1. PICK c \in Conns :
          \/ Accept(c) \/ Connect(c) \/ Malformed(c) \/ Resolve(c) \/ Admit(c) \/ Dial(c) \/ Hello(c)
          \/ Broken(c) \/ TimedOut(c)
          \/ \E d \in Dirs : Read(c, d) \/ Write(c, d) \/ Eof(c, d)
    BY Zenon DEF Next
  <1>. SUFFICES Step(c)
    OBVIOUS
  <1>2. Shapes /\ Budgeted
    BY Zenon DEF GatewayInv
  <1>3. At(c) \in Places
    BY <1>2, Zenon DEF Shapes, ConnState, At
  <1>4. ASSUME At(c) \notin {"none", "closed"}, Close(c), UNCHANGED now
        PROVE  Step(c)
    BY <1>3, <1>4, Zenon DEF Ends, Step
  <1>5. CASE Accept(c) \/ Admit(c)
    BY <1>5, Zenon DEF Step
  <1>6. CASE Connect(c)
    <2>1. PICK k \in Caps, n \in Names \cup Addrs :
             IF Verified(k) /\ active[RootOf[k]] < MaxPerRoot
             THEN /\ conn' = [conn EXCEPT ![c].at = "resolve", ![c].cap = k, ![c].name = n]
                  /\ active' = [active EXCEPT ![RootOf[k]] = @ + 1]
                  /\ UNCHANGED <<setups, tunnels, waiting, stream>>
             ELSE Close(c)
      BY <1>6, Zenon DEF Connect
    <2>2. At(c) = "header" /\ UNCHANGED now
      BY <1>6, Zenon DEF Connect
    <2>3. CASE Verified(k) /\ active[RootOf[k]] < MaxPerRoot
      <3>1. Authenticated(c, k, n)
        BY <2>1, <2>2, <2>3, Zenon DEF Authenticated
      <3>. QED  BY <3>1, Zenon DEF Step
    <2>4. CASE Close(c)
      BY <1>4, <2>2, <2>4, Zenon
    <2>. QED  BY <2>1, <2>3, <2>4, Zenon
  <1>7. CASE Malformed(c) \/ Broken(c)
    <2>1. At(c) \in {"header", "hello", "relay"} /\ Close(c) /\ UNCHANGED now
      BY <1>7, Zenon DEF Malformed, Broken
    <2>. QED  BY <1>4, <2>1, Zenon
  <1>8. CASE TimedOut(c)
    <2>1. At(c) \in {"header", "resolve", "queue", "dial", "hello", "relay"}
      BY <1>8, Zenon DEF TimedOut, Due
    <2>2. Close(c) /\ UNCHANGED now
      BY <1>8, Zenon DEF TimedOut
    <2>. QED  BY <1>4, <2>1, <2>2, Zenon
  <1>9. CASE Resolve(c)
    <2>1. PICK aliases \in SUBSET Names, addrs \in SUBSET Addrs :
             LET target == Authorize(conn[c].cap, conn[c].name, aliases, addrs) IN
             IF target = {} THEN Close(c)
             ELSE /\ \E t \in target :
                        conn' = [conn EXCEPT ![c].at = "queue", ![c].addr = t.addr, ![c].sni = t.sni]
                  /\ waiting' = Append(waiting, c)
                  /\ UNCHANGED <<setups, tunnels, active, stream>>
      BY <1>9, Zenon DEF Resolve
    <2>2. At(c) = "resolve" /\ UNCHANGED now
      BY <1>9, Zenon DEF Resolve
    <2>. DEFINE k == conn[c].cap
                n == conn[c].name
                target == Authorize(k, n, aliases, addrs)
    <2>3. CASE Close(c)
      BY <1>4, <2>2, <2>3, Zenon
    <2>4. CASE target # {}
      <3>1. PICK t \in target :
              conn' = [conn EXCEPT ![c].at = "queue", ![c].addr = t.addr, ![c].sni = t.sni]
        BY <2>1, <2>4, Zenon
      <3>2. waiting' = Append(waiting, c) /\ UNCHANGED <<setups, tunnels, active, stream>>
        BY <2>1, <2>4, Zenon
      <3>3. /\ ({n} \cup aliases \cup addrs) \cap Denied = {} /\ addrs # {}
            /\ n \in HostRules[k] \/ addrs \subseteq CidrRules[k]
            /\ t \in {[addr |-> a, sni |-> n \in HostRules[k]] : a \in {CHOOSE a \in addrs : TRUE}}
        BY <3>1, Zenon DEF Authorize
      <3>4. t = [addr |-> (CHOOSE a \in addrs : TRUE), sni |-> n \in HostRules[k]]
        BY <3>3, Zenon
      <3>5. (CHOOSE a \in addrs : TRUE) \in addrs
        BY <3>3, Zenon
      <3>6. t.addr \in addrs /\ t.sni = (n \in HostRules[k])
        BY <3>4, <3>5, Zenon
      <3>7. t.addr \in Addrs /\ t.addr \notin Denied /\ n \notin Denied /\ t.sni \in BOOLEAN
        <4>1. CASE n \in HostRules[k]
          BY <3>3, <3>6, <4>1, Zenon
        <4>2. CASE n \notin HostRules[k]
          BY <3>3, <3>6, <4>2
        <4>. QED  BY <4>1, <4>2, Zenon
      <3>8. (t.sni /\ n \in HostRules[k]) \/ t.addr \in CidrRules[k]
        BY <3>3, <3>6, Zenon
      <3>9. Resolved(c, t.addr, t.sni)
        BY <2>2, <3>1, <3>2, <3>7, <3>8, Zenon DEF Resolved
      <3>. QED  BY <3>7, <3>9, Zenon DEF Step
    <2>. QED  BY <2>1, <2>3, <2>4, Zenon
  <1>10. ASSUME At(c) \in {"dial", "hello"}, NEW sent \in Nat, sent <= budget[c],
                StartRelay(c, sent), UNCHANGED now
         PROVE  Step(c)
    <2>1. CASE Verified(conn[c].cap)
      <3>1. Relays(c, sent)
        BY <1>10, <2>1, Zenon DEF StartRelay, Relays
      <3>. QED  BY <3>1, Zenon DEF Step
    <2>2. CASE Close(c)
      BY <1>4, <1>10, <2>2, Zenon
    <2>. QED  BY <1>10, <2>1, <2>2, Zenon DEF StartRelay
  <1>11. budget[c] \in Nat /\ flow[c] \in [Dirs -> Copy] /\ carried[c] \in Nat
    BY <1>2, Zenon DEF Shapes
  <1>12. CASE Dial(c)
    <2>1. At(c) = "dial" /\ UNCHANGED now
      BY <1>12, Zenon DEF Dial
    <2>2. CASE conn' = [conn EXCEPT ![c].at = "hello"] /\ UNCHANGED <<slots, stream>>
      BY <2>1, <2>2, Zenon DEF AwaitsHello, Step
    <2>3. CASE StartRelay(c, 0)
      BY <1>10, <1>11, <2>1, <2>3
    <2>4. CASE Close(c)
      BY <1>4, <2>1, <2>4, Zenon
    <2>. QED  BY <1>12, <2>2, <2>3, <2>4, Zenon DEF Dial
  <1>13. CASE Hello(c)
    <2>1. PICK n \in 1..MaxChunk : IF n <= budget[c] THEN StartRelay(c, n) ELSE Close(c)
      BY <1>13, Zenon DEF Hello
    <2>2. At(c) = "hello" /\ UNCHANGED now
      BY <1>13, Zenon DEF Hello
    <2>3. CASE n <= budget[c]
      BY <1>10, <2>1, <2>2, <2>3
    <2>4. CASE Close(c)
      BY <1>4, <2>2, <2>4, Zenon
    <2>. QED  BY <2>1, <2>3, <2>4, Zenon
  <1>14. CASE \E d \in Dirs : Read(c, d) \/ Write(c, d) \/ Eof(c, d)
    <2>1. PICK d \in Dirs : Read(c, d) \/ Write(c, d) \/ Eof(c, d)
      BY <1>14, Zenon
    <2>2. At(c) = "relay" /\ UNCHANGED now /\ flow[c][d] \in Copy
      BY <1>11, <2>1, Zenon DEF Read, Write, Eof
    <2>3. CASE Close(c)
      BY <1>4, <2>2, <2>3, Zenon
    <2>4. CASE Read(c, d) /\ ~Close(c)
      <3>1. PICK n \in 1..MaxChunk :
              /\ n <= budget[c] /\ budget' = [budget EXCEPT ![c] = @ - n]
              /\ flow' = [flow EXCEPT ![c][d] = [at |-> "write", chunk |-> n, since |-> now]]
              /\ UNCHANGED <<conn, slots, carried>>
        BY <2>4, Zenon DEF Read
      <3>. DEFINE f == [at |-> "write", chunk |-> n, since |-> now]
      <3>2. f \in Copy /\ Bytes(f) = n /\ Bytes(flow[c][d]) = 0
        BY <1>2, <2>4 DEF Copy, Bytes, Read, Shapes
      <3>3. /\ budget' \in [Conns -> Nat] /\ carried' \in [Conns -> Nat]
            /\ \A e \in Conns \ {c} : budget'[e] = budget[e] /\ carried'[e] = carried[e]
            /\ carried'[c] = carried[c] /\ budget'[c] = budget[c] - n
        BY <1>2, <3>1 DEF Shapes
      <3>4. carried'[c] + budget'[c] + Bytes(f) = carried[c] + budget[c] + Bytes(flow[c][d])
        BY <1>11, <3>2, <3>3
      <3>5. Copies(c, d, f)
        BY <2>2, <3>1, <3>2, <3>3, <3>4, Zenon DEF Copies
      <3>. QED  BY <3>2, <3>5, Zenon DEF Step
    <2>5. CASE Write(c, d)
      <3>. DEFINE f == Reading(now)
      <3>1. /\ f \in Copy /\ Bytes(f) = 0
            /\ Bytes(flow[c][d]) = flow[c][d].chunk /\ flow[c][d].chunk \in Nat
        BY <1>2, <2>2, <2>5 DEF Copy, Bytes, Write, Shapes, Reading
      <3>2. /\ budget' \in [Conns -> Nat] /\ carried' \in [Conns -> Nat]
            /\ \A e \in Conns \ {c} : budget'[e] = budget[e] /\ carried'[e] = carried[e]
            /\ carried'[c] = carried[c] + flow[c][d].chunk /\ budget'[c] = budget[c]
        BY <1>2, <2>5, <3>1 DEF Shapes, Write
      <3>3. carried'[c] + budget'[c] + Bytes(f) = carried[c] + budget[c] + Bytes(flow[c][d])
        BY <1>11, <3>1, <3>2
      <3>4. Copies(c, d, f)
        BY <2>2, <2>5, <3>1, <3>2, <3>3, Zenon DEF Copies, Write
      <3>. QED  BY <3>1, <3>4, Zenon DEF Step
    <2>6. CASE Eof(c, d) /\ ~Close(c)
      <3>. DEFINE f == [flow[c][d] EXCEPT !.at = "done"]
      <3>1. /\ flow' = [flow EXCEPT ![c][d].at = "done"] /\ flow[c][d].at = "read"
            /\ UNCHANGED <<conn, slots, budget, carried>>
        BY <2>6, Zenon DEF Eof
      <3>2. f \in Copy /\ Bytes(f) = 0 /\ Bytes(flow[c][d]) = 0
        BY <2>2, <3>1, Zenon DEF Copy, Bytes
      <3>3. flow' = [flow EXCEPT ![c][d] = f]
        BY <3>1, Zenon
      <3>4. Copies(c, d, f)
        BY <1>2, <2>2, <3>1, <3>2, <3>3, Zenon DEF Copies, Shapes
      <3>. QED  BY <3>2, <3>4, Zenon DEF Step
    <2>. QED  BY <2>1, <2>3, <2>4, <2>5, <2>6, Zenon
  <1>. QED
    BY <1>1, <1>5, <1>6, <1>7, <1>8, <1>9, <1>12, <1>13, <1>14, Zenon

-----------------------------------------------------------------------------
(* Shapes *)

\* What the steps make of the connection they are about.
LEMMA Becoming ==
  ASSUME Shapes, NEW c \in Conns
  PROVE  /\ Ends(c) => Becomes(c, Closed)
         /\ Accept(c) => Becomes(c, [conn[c] EXCEPT !.at = "header", !.accepted = now])
         /\ \A k \in Caps, n \in Names \cup Addrs : Authenticated(c, k, n) =>
               Becomes(c, [conn[c] EXCEPT !.at = "resolve", !.cap = k, !.name = n])
         /\ \A a \in Addrs, sni \in BOOLEAN : Resolved(c, a, sni) =>
               Becomes(c, [conn[c] EXCEPT !.at = "queue", !.addr = a, !.sni = sni])
         /\ Admit(c) => Becomes(c, [conn[c] EXCEPT !.at = "dial"])
         /\ AwaitsHello(c) => Becomes(c, [conn[c] EXCEPT !.at = "hello"])
         /\ \A sent \in Nat : Relays(c, sent) => Becomes(c, [conn[c] EXCEPT !.at = "relay"])
  <1>1. conn \in [Conns -> ConnState] /\ conn[c] \in ConnState /\ now \in Nat
    BY DEF Shapes
  <1>2. ASSUME NEW x \in ConnState, conn' = [conn EXCEPT ![c] = x]
        PROVE  Becomes(c, x)
    BY <1>1, <1>2, Zenon DEF Becomes
  <1>3. Ends(c) => Becomes(c, Closed)
    <2>1. Closed \in ConnState
      BY Zenon DEF Closed, Free, ConnState, Places
    <2>. QED  BY <1>2, <2>1, Zenon DEF Ends, Close, Closed
  <1>4. Accept(c) => Becomes(c, [conn[c] EXCEPT !.at = "header", !.accepted = now])
    <2>. DEFINE x == [conn[c] EXCEPT !.at = "header", !.accepted = now]
    <2>1. x \in ConnState
      BY <1>1, Zenon DEF ConnState, Places
    <2>2. Accept(c) => conn' = [conn EXCEPT ![c] = x]
      BY <1>1, Zenon DEF Accept, ConnState
    <2>. QED  BY <1>2, <2>1, <2>2, Zenon
  <1>5. ASSUME NEW k \in Caps, NEW n \in Names \cup Addrs, Authenticated(c, k, n)
        PROVE  Becomes(c, [conn[c] EXCEPT !.at = "resolve", !.cap = k, !.name = n])
    <2>. DEFINE x == [conn[c] EXCEPT !.at = "resolve", !.cap = k, !.name = n]
    <2>1. x \in ConnState
      BY <1>1, Zenon DEF ConnState, Places
    <2>2. conn' = [conn EXCEPT ![c] = x]
      BY <1>1, <1>5, Zenon DEF Authenticated, ConnState
    <2>. QED  BY <1>2, <2>1, <2>2, Zenon
  <1>6. ASSUME NEW a \in Addrs, NEW sni \in BOOLEAN, Resolved(c, a, sni)
        PROVE  Becomes(c, [conn[c] EXCEPT !.at = "queue", !.addr = a, !.sni = sni])
    <2>. DEFINE x == [conn[c] EXCEPT !.at = "queue", !.addr = a, !.sni = sni]
    <2>1. x \in ConnState
      BY <1>1, Zenon DEF ConnState, Places
    <2>2. conn' = [conn EXCEPT ![c] = x]
      BY <1>1, <1>6, Zenon DEF Resolved, ConnState
    <2>. QED  BY <1>2, <2>1, <2>2, Zenon
  <1>7. ASSUME NEW p \in Places, conn' = [conn EXCEPT ![c].at = p]
        PROVE  Becomes(c, [conn[c] EXCEPT !.at = p])
    <2>1. [conn[c] EXCEPT !.at = p] \in ConnState
      BY <1>1, Zenon DEF ConnState
    <2>. QED  BY <1>2, <1>7, <2>1, Zenon
  <1>8. {"dial", "hello", "relay"} \subseteq Places
    BY Zenon DEF Places
  <1>. QED
    BY <1>3, <1>4, <1>5, <1>6, <1>7, <1>8, Zenon DEF Admit, AwaitsHello, Relays

\* Every variable keeps its shape.
LEMMA ShapesKeep ==
  ASSUME GatewayInv, NEW c \in Conns, Step(c)
  PROVE  Shapes'
  <1>1. Shapes /\ Queued
    BY Zenon DEF GatewayInv
  <1>2. /\ now \in 0..MaxTime /\ now \in Nat /\ conn[c] \in ConnState
        /\ conn \in [Conns -> ConnState] /\ setups \in Nat /\ tunnels \in Nat
        /\ active \in [Roots -> Int] /\ budget \in [Conns -> Nat] /\ carried \in [Conns -> Nat]
        /\ flow \in [Conns -> [Dirs -> Copy]]
        /\ \A d \in Conns : conn[d].at \in Rooted => conn[d].cap \in Caps
    BY <1>1 DEF Shapes, At
  <1>3. ASSUME NEW x, Becomes(c, x), x.at \in Rooted => x.cap \in Caps, UNCHANGED now,
               setups' \in Nat, tunnels' \in Nat, active' \in [Roots -> Int],
               budget' \in [Conns -> Nat], carried' \in [Conns -> Nat],
               flow' \in [Conns -> [Dirs -> Copy]]
        PROVE  Shapes'
    <2>1. \A d \in Conns : conn'[d].at \in Rooted => conn'[d].cap \in Caps
      BY <1>2, <1>3, Zenon DEF Becomes
    <2>. QED  BY <1>2, <1>3, <2>1, Zenon DEF Shapes, At, Becomes
  <1>4. \A t \in Nat : [d \in Dirs |-> Reading(t)] \in [Dirs -> Copy]
    BY Zenon DEF Reading, Copy
  <1>5. CASE Ends(c)
    <2>1. Becomes(c, Closed) /\ Closed.at \notin Rooted
      BY <1>1, <1>5, Becoming, Zenon DEF Closed, Free, Rooted
    <2>2. setups' \in Nat /\ tunnels' \in Nat /\ UNCHANGED now
      BY <1>2, <1>5 DEF Ends, Close
    <2>3. active' \in [Roots -> Int]
      <3>1. At(c) \in Rooted => Root(c) \in Roots
        BY <1>2, Zenon DEF At, Root, Roots
      <3>. QED  BY <1>2, <1>5, <3>1 DEF Ends, Close
    <2>4. /\ budget' \in [Conns -> Nat] /\ carried' \in [Conns -> Nat]
          /\ flow' \in [Conns -> [Dirs -> Copy]]
      BY <1>2, <1>4, <1>5, GatewayAssumption, Zenon DEF Ends, Close, Forget, Parameters
    <2>. QED  BY <1>3, <2>1, <2>2, <2>3, <2>4, Zenon
  <1>6. CASE Accept(c)
    <2>. DEFINE x == [conn[c] EXCEPT !.at = "header", !.accepted = now]
    <2>1. Becomes(c, x) /\ x.at \notin Rooted
      BY <1>1, <1>2, <1>6, Becoming, Zenon DEF Rooted, ConnState
    <2>2. setups' \in Nat /\ UNCHANGED <<now, tunnels, active, budget, carried, flow>>
      BY <1>2, <1>6 DEF Accept, stream
    <2>. QED  BY <1>2, <1>3, <2>1, <2>2, Zenon
  <1>7. CASE Admit(c)
    <2>. DEFINE x == [conn[c] EXCEPT !.at = "dial"]
    <2>1. Becomes(c, x) /\ x.cap \in Caps
      BY <1>1, <1>2, <1>7, Becoming, Zenon DEF Rooted, ConnState, Admit, At
    <2>2. setups' \in Nat /\ tunnels' \in Nat /\ UNCHANGED <<now, active, budget, carried, flow>>
      BY <1>2, <1>7 DEF Admit, stream
    <2>. QED  BY <1>2, <1>3, <2>1, <2>2, Zenon
  <1>8. CASE AwaitsHello(c)
    <2>. DEFINE x == [conn[c] EXCEPT !.at = "hello"]
    <2>1. Becomes(c, x) /\ x.cap \in Caps
      BY <1>1, <1>2, <1>8, Becoming, Zenon DEF Rooted, ConnState, AwaitsHello, At
    <2>2. UNCHANGED <<now, setups, tunnels, active, budget, carried, flow>>
      BY <1>8, Zenon DEF AwaitsHello, slots, stream
    <2>. QED  BY <1>2, <1>3, <2>1, <2>2, Zenon
  <1>9. ASSUME NEW k \in Caps, NEW n \in Names \cup Addrs, Authenticated(c, k, n)
        PROVE  Shapes'
    <2>. DEFINE x == [conn[c] EXCEPT !.at = "resolve", !.cap = k, !.name = n]
    <2>1. Becomes(c, x) /\ x.cap \in Caps
      BY <1>1, <1>2, <1>9, Becoming, Zenon DEF ConnState
    <2>2. RootOf[k] \in Roots
      BY Zenon DEF Roots
    <2>3. active' \in [Roots -> Int] /\ UNCHANGED <<now, setups, tunnels, budget, carried, flow>>
      BY <1>2, <1>9, <2>2 DEF Authenticated, stream
    <2>. QED  BY <1>2, <1>3, <2>1, <2>3, Zenon
  <1>10. ASSUME NEW a \in Addrs, NEW sni \in BOOLEAN, Resolved(c, a, sni)
         PROVE  Shapes'
    <2>. DEFINE x == [conn[c] EXCEPT !.at = "queue", !.addr = a, !.sni = sni]
    <2>1. Becomes(c, x) /\ x.cap \in Caps
      BY <1>1, <1>2, <1>10, Becoming, Zenon DEF Rooted, ConnState, Resolved, At
    <2>2. UNCHANGED <<now, setups, tunnels, active, budget, carried, flow>>
      BY <1>10, Zenon DEF Resolved, stream
    <2>. QED  BY <1>2, <1>3, <2>1, <2>2, Zenon
  <1>11. ASSUME NEW sent \in Nat, Relays(c, sent)
         PROVE  Shapes'
    <2>. DEFINE x == [conn[c] EXCEPT !.at = "relay"]
    <2>1. Becomes(c, x) /\ x.cap \in Caps
      BY <1>1, <1>2, <1>11, Becoming, Zenon DEF Rooted, ConnState, Relays, At
    <2>2. budget' \in [Conns -> Nat] /\ carried' \in [Conns -> Nat]
      BY <1>2, <1>11 DEF Relays
    <2>3. flow' \in [Conns -> [Dirs -> Copy]] /\ UNCHANGED <<now, setups, tunnels, active>>
      BY <1>2, <1>4, <1>11, Zenon DEF Relays, slots
    <2>. QED  BY <1>2, <1>3, <2>1, <2>2, <2>3, Zenon
  <1>12. ASSUME NEW d \in Dirs, NEW f \in Copy, Copies(c, d, f)
         PROVE  Shapes'
    <2>1. flow' \in [Conns -> [Dirs -> Copy]]
      BY <1>2, <1>12, Zenon DEF Copies
    <2>2. /\ budget' \in [Conns -> Nat] /\ carried' \in [Conns -> Nat]
          /\ UNCHANGED <<now, conn, setups, tunnels, active>>
      BY <1>12, Zenon DEF Copies, slots
    <2>. QED  BY <1>1, <2>1, <2>2, Zenon DEF Shapes, At
  <1>. QED
    BY <1>5, <1>6, <1>7, <1>8, <1>9, <1>10, <1>11, <1>12, Zenon DEF Step

-----------------------------------------------------------------------------
(* Permits *)

Within(P) == {d \in Conns : conn[d].at \in P}
Holders(r) == {d \in Conns : conn[d].at \in Rooted /\ RootOf[conn[d].cap] = r}
One(b) == IF b THEN 1 ELSE 0

\* Sets of connections that differ at most in c.
LEMMA Counting ==
  ASSUME NEW A \in SUBSET Conns, NEW B \in SUBSET Conns, NEW c \in Conns,
         \A d \in Conns \ {c} : d \in A <=> d \in B
  PROVE  /\ Cardinality(A) \in Nat /\ Cardinality(B) \in Nat
         /\ Cardinality(B) = Cardinality(A) + One(c \in B) - One(c \in A)
  <1>1. IsFiniteSet(A) /\ IsFiniteSet(B)
    BY GatewayAssumption, FS_Subset, Zenon DEF Parameters
  <1>2. Cardinality(A) \in Nat /\ Cardinality(B) \in Nat
    BY <1>1, FS_CardinalityType, Zenon
  <1>3. CASE c \in A <=> c \in B
    <2>1. A = B
      BY <1>3
    <2>. QED  BY <1>2, <2>1 DEF One
  <1>4. CASE c \notin A /\ c \in B
    <2>1. B = A \cup {c}
      BY <1>4, Zenon
    <2>2. Cardinality(B) = Cardinality(A) + 1
      BY <1>1, <1>4, <2>1, FS_AddElement, Zenon
    <2>. QED  BY <1>2, <1>4, <2>2 DEF One
  <1>5. CASE c \in A /\ c \notin B
    <2>1. A = B \cup {c}
      BY <1>5, Zenon
    <2>2. Cardinality(A) = Cardinality(B) + 1
      BY <1>1, <1>5, <2>1, FS_AddElement, Zenon
    <2>. QED  BY <1>2, <1>5, <2>2 DEF One
  <1>. QED  BY <1>3, <1>4, <1>5, Zenon

\* What the sets of holders lose and gain when a connection becomes x.
LEMMA Recounting ==
  ASSUME Shapes, NEW c \in Conns, NEW x, Becomes(c, x)
  PROVE  /\ \A P : /\ Cardinality(Within(P)) \in Nat /\ Cardinality(Within(P)') \in Nat
                   /\ Cardinality(Within(P)')
                        = Cardinality(Within(P)) + One(x.at \in P) - One(At(c) \in P)
         /\ \A r : /\ Cardinality(Holders(r)) \in Nat /\ Cardinality(Holders(r)') \in Nat
                   /\ Cardinality(Holders(r)') = Cardinality(Holders(r))
                        + One(x.at \in Rooted /\ RootOf[x.cap] = r)
                        - One(At(c) \in Rooted /\ Root(c) = r)
  <1>1. conn'[c] = x /\ \A d \in Conns \ {c} : conn'[d] = conn[d]
    BY Zenon DEF Becomes
  <1>2. ASSUME NEW P
        PROVE  /\ Cardinality(Within(P)) \in Nat /\ Cardinality(Within(P)') \in Nat
               /\ Cardinality(Within(P)')
                    = Cardinality(Within(P)) + One(x.at \in P) - One(At(c) \in P)
    <2>. DEFINE A == Within(P)
                B == {d \in Conns : conn'[d].at \in P}
    <2>1. /\ A \in SUBSET Conns /\ B \in SUBSET Conns
          /\ \A d \in Conns \ {c} : d \in A <=> d \in B
      BY <1>1, Zenon DEF Within
    <2>2. (c \in A <=> At(c) \in P) /\ (c \in B <=> x.at \in P)
      BY <1>1, Zenon DEF Within, At
    <2>3. One(c \in A) = One(At(c) \in P) /\ One(c \in B) = One(x.at \in P)
      BY <2>2, Zenon DEF One
    <2>4. /\ Cardinality(A) \in Nat /\ Cardinality(B) \in Nat
          /\ Cardinality(B) = Cardinality(A) + One(c \in B) - One(c \in A)
      <3>. HIDE DEF A, B
      <3>. QED  BY <2>1, Counting, Zenon
    <2>5. Within(P)' = B
      BY Zenon DEF Within
    <2>. QED  BY <2>3, <2>4, <2>5, Zenon
  <1>3. ASSUME NEW r
        PROVE  /\ Cardinality(Holders(r)) \in Nat /\ Cardinality(Holders(r)') \in Nat
               /\ Cardinality(Holders(r)') = Cardinality(Holders(r))
                    + One(x.at \in Rooted /\ RootOf[x.cap] = r)
                    - One(At(c) \in Rooted /\ Root(c) = r)
    <2>. DEFINE A == Holders(r)
                B == {d \in Conns : conn'[d].at \in Rooted /\ RootOf[conn'[d].cap] = r}
    <2>1. /\ A \in SUBSET Conns /\ B \in SUBSET Conns
          /\ \A d \in Conns \ {c} : d \in A <=> d \in B
      BY <1>1, Zenon DEF Holders
    <2>2. /\ c \in A <=> At(c) \in Rooted /\ Root(c) = r
          /\ c \in B <=> x.at \in Rooted /\ RootOf[x.cap] = r
      BY <1>1, Zenon DEF Holders, At, Root
    <2>3. /\ One(c \in A) = One(At(c) \in Rooted /\ Root(c) = r)
          /\ One(c \in B) = One(x.at \in Rooted /\ RootOf[x.cap] = r)
      BY <2>2, Zenon DEF One
    <2>4. /\ Cardinality(A) \in Nat /\ Cardinality(B) \in Nat
          /\ Cardinality(B) = Cardinality(A) + One(c \in B) - One(c \in A)
      <3>. HIDE DEF A, B
      <3>. QED  BY <2>1, Counting, Zenon
    <2>5. Holders(r)' = B
      BY Zenon DEF Holders
    <2>. QED  BY <2>3, <2>4, <2>5, Zenon
  <1>. QED  BY <1>2, <1>3, Zenon

\* Slots and permits stay exact: each step gives back what the connection no longer holds.
LEMMA PermitsKeep ==
  ASSUME GatewayInv, NEW c \in Conns, Step(c)
  PROVE  PermitsExact'
  <1>1. Shapes /\ PermitsExact
    BY Zenon DEF GatewayInv
  <1>. DEFINE S == Cardinality(Within(InSetup))
              T == Cardinality(Within(Tunnelled))
              H(r) == Cardinality(Holders(r))
  <1>2. /\ setups + S = MaxPendingSetups /\ tunnels + T = MaxConnections
        /\ \A r \in Roots : active[r] = H(r) /\ active[r] <= MaxPerRoot
    BY <1>1, Zenon DEF PermitsExact, Within, Holders, At, Root
  <1>3. /\ conn[c] \in ConnState /\ setups \in Nat /\ tunnels \in Nat /\ active \in [Roots -> Int]
        /\ At(c) \in Rooted => conn[c].cap \in Caps /\ Root(c) \in Roots
        /\ {MaxPendingSetups, MaxConnections, MaxPerRoot} \subseteq Nat
    BY <1>1, GatewayAssumption, Zenon DEF Shapes, Parameters, Root, Roots
  <1>4. ASSUME setups' + S' = MaxPendingSetups, tunnels' + T' = MaxConnections,
               \A r \in Roots : active'[r] = H(r)' /\ active'[r] <= MaxPerRoot
        PROVE  PermitsExact'
    BY <1>4, Zenon DEF PermitsExact, Within, Holders, At, Root
  <1>5. ASSUME NEW x, Becomes(c, x)
        PROVE  /\ S \in Nat /\ T \in Nat
               /\ S' = S + One(x.at \in InSetup) - One(At(c) \in InSetup)
               /\ T' = T + One(x.at \in Tunnelled) - One(At(c) \in Tunnelled)
               /\ \A r \in Roots : H(r) \in Nat /\ H(r)' \in Nat /\
                     H(r)' = H(r) + One(x.at \in Rooted /\ RootOf[x.cap] = r)
                                  - One(At(c) \in Rooted /\ Root(c) = r)
    <2>1. /\ S \in Nat /\ S' = S + One(x.at \in InSetup) - One(At(c) \in InSetup)
          /\ T \in Nat /\ T' = T + One(x.at \in Tunnelled) - One(At(c) \in Tunnelled)
      BY <1>1, <1>5, Recounting, ZenonT(60)
    <2>2. ASSUME NEW r \in Roots
          PROVE  /\ H(r) \in Nat /\ H(r)' \in Nat
                 /\ H(r)' = H(r) + One(x.at \in Rooted /\ RootOf[x.cap] = r)
                                  - One(At(c) \in Rooted /\ Root(c) = r)
      BY <1>1, <1>5, Recounting, Zenon
    <2>. QED  BY <2>1, <2>2, Zenon
  <1>. HIDE DEF S, T, H
  \* The connection keeps its root, and setup and tunnel slots change with its place.
  <1>6. ASSUME NEW x, Becomes(c, x), x.cap = conn[c].cap, x.at \in Rooted <=> At(c) \in Rooted,
               UNCHANGED active,
               setups' = setups - One(x.at \in InSetup) + One(At(c) \in InSetup),
               tunnels' = tunnels - One(x.at \in Tunnelled) + One(At(c) \in Tunnelled)
        PROVE  PermitsExact'
    <2>1. \A r \in Roots : One(x.at \in Rooted /\ RootOf[x.cap] = r)
                           = One(At(c) \in Rooted /\ Root(c) = r)
      BY <1>6, Zenon DEF Root
    <2>2. \A r \in Roots : H(r)' = H(r)
      BY <1>5, <1>6, <2>1 DEF One
    <2>3. setups' + S' = MaxPendingSetups /\ tunnels' + T' = MaxConnections
      BY <1>2, <1>3, <1>5, <1>6 DEF One
    <2>. QED  BY <1>2, <1>4, <1>6, <2>2, <2>3, Zenon
  <1>7. CASE Ends(c)
    <2>1. Becomes(c, Closed) /\ Closed.at = "closed"
      BY <1>1, <1>7, Becoming, Zenon DEF Closed, Free
    <2>2. /\ Closed.at \notin InSetup /\ Closed.at \notin Tunnelled /\ Closed.at \notin Rooted
      BY <2>1, Zenon DEF InSetup, Tunnelled, Rooted
    <2>3. setups' + S' = MaxPendingSetups /\ tunnels' + T' = MaxConnections
      BY <1>2, <1>3, <1>5, <1>7, <2>1, <2>2 DEF One, Ends, Close
    <2>4. ASSUME NEW r \in Roots
          PROVE  active'[r] = H(r)' /\ active'[r] <= MaxPerRoot
      <3>1. H(r)' = H(r) - One(At(c) \in Rooted /\ Root(c) = r)
        BY <1>5, <2>1, <2>2 DEF One
      <3>2. active'[r] = active[r] - One(At(c) \in Rooted /\ Root(c) = r)
        BY <1>3, <1>7 DEF One, Ends, Close
      <3>3. One(At(c) \in Rooted /\ Root(c) = r) \in Nat
        BY Zenon DEF One
      <3>. QED  BY <1>2, <1>3, <3>1, <3>2, <3>3
    <2>. QED  BY <1>4, <2>3, <2>4, Zenon
  <1>8. ASSUME NEW k \in Caps, NEW n \in Names \cup Addrs, Authenticated(c, k, n)
        PROVE  PermitsExact'
    <2>. DEFINE x == [conn[c] EXCEPT !.at = "resolve", !.cap = k, !.name = n]
    <2>1. Becomes(c, x) /\ x.at = "resolve" /\ x.cap = k /\ At(c) = "header"
      BY <1>1, <1>3, <1>8, Becoming, Zenon DEF ConnState, Authenticated
    <2>2. RootOf[k] \in Roots
      BY Zenon DEF Roots
    <2>3. /\ active' = [active EXCEPT ![RootOf[k]] = @ + 1] /\ active[RootOf[k]] < MaxPerRoot
          /\ UNCHANGED <<setups, tunnels>>
      BY <1>8, Zenon DEF Authenticated
    <2>. HIDE DEF x
    <2>4. setups' + S' = MaxPendingSetups /\ tunnels' + T' = MaxConnections
      BY <1>2, <1>3, <1>5, <2>1, <2>3 DEF One, InSetup, Tunnelled
    <2>5. ASSUME NEW r \in Roots
          PROVE  active'[r] = H(r)' /\ active'[r] <= MaxPerRoot
      <3>1. H(r)' = H(r) + One(RootOf[k] = r)
        BY <1>5, <2>1 DEF One, Rooted
      <3>2. active'[r] = active[r] + One(RootOf[k] = r)
        BY <1>3, <2>2, <2>3 DEF One
      <3>. QED  BY <1>2, <1>3, <2>3, <3>1, <3>2 DEF One
    <2>. QED  BY <1>4, <2>4, <2>5, Zenon
  <1>9. CASE Accept(c)
    <2>. DEFINE x == [conn[c] EXCEPT !.at = "header", !.accepted = now]
    <2>1. Becomes(c, x) /\ x.at = "header" /\ x.cap = conn[c].cap /\ At(c) = "none"
      BY <1>1, <1>3, <1>9, Becoming, Zenon DEF ConnState, Accept
    <2>2. setups' = setups - 1 /\ UNCHANGED <<tunnels, active>>
      BY <1>9, Zenon DEF Accept
    <2>. HIDE DEF x
    <2>. QED  BY <1>3, <1>6, <2>1, <2>2 DEF One, InSetup, Tunnelled, Rooted
  <1>10. ASSUME NEW a \in Addrs, NEW sni \in BOOLEAN, Resolved(c, a, sni)
         PROVE  PermitsExact'
    <2>. DEFINE x == [conn[c] EXCEPT !.at = "queue", !.addr = a, !.sni = sni]
    <2>1. Becomes(c, x) /\ x.at = "queue" /\ x.cap = conn[c].cap /\ At(c) = "resolve"
      BY <1>1, <1>3, <1>10, Becoming, Zenon DEF ConnState, Resolved
    <2>2. UNCHANGED <<setups, tunnels, active>>
      BY <1>10, Zenon DEF Resolved
    <2>. HIDE DEF x
    <2>. QED  BY <1>3, <1>6, <2>1, <2>2 DEF One, InSetup, Tunnelled, Rooted
  <1>11. CASE Admit(c)
    <2>. DEFINE x == [conn[c] EXCEPT !.at = "dial"]
    <2>1. Becomes(c, x) /\ x.at = "dial" /\ x.cap = conn[c].cap /\ At(c) = "queue"
      BY <1>1, <1>3, <1>11, Becoming, Zenon DEF ConnState, Admit
    <2>2. setups' = setups + 1 /\ tunnels' = tunnels - 1 /\ UNCHANGED active
      BY <1>11, Zenon DEF Admit
    <2>. HIDE DEF x
    <2>. QED  BY <1>3, <1>6, <2>1, <2>2 DEF One, InSetup, Tunnelled, Rooted
  <1>12. CASE AwaitsHello(c)
    <2>. DEFINE x == [conn[c] EXCEPT !.at = "hello"]
    <2>1. Becomes(c, x) /\ x.at = "hello" /\ x.cap = conn[c].cap /\ At(c) = "dial"
      BY <1>1, <1>3, <1>12, Becoming, Zenon DEF ConnState, AwaitsHello
    <2>2. UNCHANGED <<setups, tunnels, active>>
      BY <1>12, Zenon DEF AwaitsHello, slots
    <2>. HIDE DEF x
    <2>. QED  BY <1>3, <1>6, <2>1, <2>2 DEF One, InSetup, Tunnelled, Rooted
  <1>13. ASSUME NEW sent \in Nat, Relays(c, sent)
         PROVE  PermitsExact'
    <2>. DEFINE x == [conn[c] EXCEPT !.at = "relay"]
    <2>1. /\ Becomes(c, x) /\ x.at = "relay" /\ x.cap = conn[c].cap
          /\ At(c) \in {"dial", "hello"}
      BY <1>1, <1>3, <1>13, Becoming, Zenon DEF ConnState, Relays
    <2>2. UNCHANGED <<setups, tunnels, active>>
      BY <1>13, Zenon DEF Relays, slots
    <2>. HIDE DEF x
    <2>. QED  BY <1>3, <1>6, <2>1, <2>2 DEF One, InSetup, Tunnelled, Rooted
  <1>14. CASE \E d \in Dirs, f \in Copy : Copies(c, d, f)
    <2>1. UNCHANGED <<conn, setups, tunnels, active>>
      BY <1>14, Zenon DEF Copies, slots
    <2>. QED  BY <1>1, <2>1, Zenon DEF PermitsExact, At, Root
  <1>. QED
    BY <1>7, <1>8, <1>9, <1>10, <1>11, <1>12, <1>13, <1>14, Zenon DEF Step

-----------------------------------------------------------------------------
(* The admission queue *)

Distinct(s) == \A i, j \in 1..Len(s) : s[i] = s[j] => i = j
Has(s, c) == \E i \in 1..Len(s) : s[i] = c

\* The element at i is gone, what was behind it moves up.
LEMMA Omitting ==
  ASSUME NEW s \in Seq(Conns), NEW i \in 1..Len(s)
  PROVE  LET t == SubSeq(s, 1, i - 1) \o SubSeq(s, i + 1, Len(s)) IN
         /\ t \in Seq(Conns) /\ Len(t) = Len(s) - 1
         /\ \A j \in 1..Len(t) : t[j] = IF j < i THEN s[j] ELSE s[j + 1]
  <1>. DEFINE u == SubSeq(s, 1, i - 1)
              v == SubSeq(s, i + 1, Len(s))
              t == u \o v
  <1>1. u \in Seq(Conns) /\ Len(u) = i - 1 /\ \A j \in 1..(i - 1) : u[j] = s[j]
    OBVIOUS
  <1>2. v \in Seq(Conns) /\ Len(v) = Len(s) - i /\ \A j \in 1..(Len(s) - i) : v[j] = s[j + i]
    OBVIOUS
  <1>. HIDE DEF u, v
  <1>3. t \in Seq(Conns) /\ Len(t) = Len(s) - 1
    BY <1>1, <1>2
  <1>4. \A j \in 1..Len(t) : t[j] = IF j <= Len(u) THEN u[j] ELSE v[j - Len(u)]
    BY <1>1, <1>2
  <1>5. ASSUME NEW j \in 1..Len(t)
        PROVE  t[j] = IF j < i THEN s[j] ELSE s[j + 1]
    <2>. HIDE DEF t
    <2>1. CASE j < i
      BY <1>1, <1>3, <1>4, <2>1
    <2>2. CASE ~(j < i)
      <3>1. j - (i - 1) \in 1..(Len(s) - i) /\ (j - (i - 1)) + i = j + 1
        BY <1>3, <2>2
      <3>2. t[j] = v[j - (i - 1)]
        BY <1>1, <1>3, <1>4, <2>2
      <3>. QED  BY <1>2, <2>2, <3>1, <3>2, Zenon
    <2>. QED  BY <2>1, <2>2, Zenon
  <1>. QED  BY <1>3, <1>5, Zenon DEF u, v

\* Leaving a queue that has everything once.
LEMMA Leaving ==
  ASSUME NEW s \in Seq(Conns), NEW c \in Conns, Distinct(s), Has(s, c)
  PROVE  /\ Leave(s, c) \in Seq(Conns) /\ Distinct(Leave(s, c))
         /\ \A d \in Conns : Has(Leave(s, c), d) <=> d # c /\ Has(s, d)
  <1>. DEFINE i == CHOOSE i \in 1..Len(s) : s[i] = c
              t == Leave(s, c)
  <1>1. i \in 1..Len(s) /\ s[i] = c
    BY Zenon DEF Has
  <1>2. t = SubSeq(s, 1, i - 1) \o SubSeq(s, i + 1, Len(s))
    BY Zenon DEF Leave
  <1>. HIDE DEF i, t
  <1>3. /\ t \in Seq(Conns) /\ Len(t) = Len(s) - 1 /\ Len(s) \in Nat
        /\ \A j \in 1..Len(t) : t[j] = IF j < i THEN s[j] ELSE s[j + 1]
    <2>1. Len(s) \in Nat
      OBVIOUS
    <2>. QED  BY <1>1, <1>2, <2>1, Omitting, Zenon
  <1>4. Distinct(t)
    BY <1>1, <1>3 DEF Distinct
  <1>5. ASSUME NEW d \in Conns
        PROVE  Has(t, d) <=> d # c /\ Has(s, d)
    <2>1. ASSUME NEW j \in 1..Len(t), t[j] = d
          PROVE  d # c /\ Has(s, d)
      BY <1>1, <1>3, <2>1 DEF Distinct, Has
    <2>2. ASSUME NEW j \in 1..Len(s), s[j] = d, d # c
          PROVE  Has(t, d)
      <3>1. CASE j < i
        BY <1>1, <1>3, <2>2, <3>1 DEF Has
      <3>2. CASE j > i
        <4>1. j - 1 \in 1..Len(t) /\ t[j - 1] = d
          BY <1>1, <1>3, <2>2, <3>2
        <4>. QED  BY <4>1, Zenon DEF Has
      <3>. QED  BY <1>1, <2>2, <3>1, <3>2
    <2>. QED  BY <2>1, <2>2, Zenon DEF Has
  <1>. QED  BY <1>3, <1>4, <1>5, Zenon DEF t

\* The queue has every waiting connection once.
LEMMA QueuedKeep ==
  ASSUME GatewayInv, NEW c \in Conns, Step(c)
  PROVE  Queued'
  <1>1. Shapes /\ Queued
    BY Zenon DEF GatewayInv
  <1>2. /\ waiting \in Seq(Conns) /\ Distinct(waiting)
        /\ \A d \in Conns : conn[d].at = "queue" <=> Has(waiting, d)
        /\ conn[c] \in ConnState
    BY <1>1, Zenon DEF Shapes, Queued, Distinct, Has, At
  <1>3. ASSUME waiting' \in Seq(Conns), Distinct(waiting'),
               \A d \in Conns : conn'[d].at = "queue" <=> Has(waiting', d)
        PROVE  Queued'
    BY <1>3, Zenon DEF Queued, Distinct, Has, At
  <1>4. ASSUME NEW x, Becomes(c, x), x.at = "queue" <=> At(c) = "queue", UNCHANGED waiting
        PROVE  Queued'
    BY <1>2, <1>3, <1>4, Zenon DEF Becomes, At
  <1>5. CASE Ends(c)
    <2>1. Becomes(c, Closed) /\ Closed.at # "queue"
      BY <1>1, <1>5, Becoming, Zenon DEF Closed, Free
    <2>2. waiting' = IF At(c) = "queue" THEN Leave(waiting, c) ELSE waiting
      BY <1>5, Zenon DEF Ends, Close
    <2>3. /\ waiting' \in Seq(Conns) /\ Distinct(waiting')
          /\ \A d \in Conns : Has(waiting', d) <=> d # c /\ Has(waiting, d)
      <3>1. CASE At(c) = "queue"
        BY <1>2, <2>2, <3>1, Leaving, Zenon DEF At
      <3>2. CASE At(c) # "queue"
        BY <1>2, <2>2, <3>2, Zenon DEF At
      <3>. QED  BY <3>1, <3>2, Zenon
    <2>. QED  BY <1>2, <1>3, <2>1, <2>3, Zenon DEF Becomes
  <1>6. CASE Accept(c)
    <2>. DEFINE x == [conn[c] EXCEPT !.at = "header", !.accepted = now]
    <2>1. Becomes(c, x) /\ x.at = "header" /\ At(c) = "none" /\ UNCHANGED waiting
      BY <1>1, <1>2, <1>6, Becoming, Zenon DEF ConnState, Accept
    <2>. QED  BY <1>4, <2>1, Zenon
  <1>7. ASSUME NEW k \in Caps, NEW n \in Names \cup Addrs, Authenticated(c, k, n)
        PROVE  Queued'
    <2>. DEFINE x == [conn[c] EXCEPT !.at = "resolve", !.cap = k, !.name = n]
    <2>1. Becomes(c, x) /\ x.at = "resolve" /\ At(c) = "header" /\ UNCHANGED waiting
      BY <1>1, <1>2, <1>7, Becoming, Zenon DEF ConnState, Authenticated
    <2>. QED  BY <1>4, <2>1, Zenon
  <1>8. ASSUME NEW a \in Addrs, NEW sni \in BOOLEAN, Resolved(c, a, sni)
        PROVE  Queued'
    <2>. DEFINE x == [conn[c] EXCEPT !.at = "queue", !.addr = a, !.sni = sni]
    <2>1. Becomes(c, x) /\ x.at = "queue" /\ At(c) = "resolve" /\ waiting' = Append(waiting, c)
      BY <1>1, <1>2, <1>8, Becoming, Zenon DEF ConnState, Resolved
    <2>2. ~Has(waiting, c)
      BY <1>2, <2>1, Zenon DEF At
    <2>3. /\ waiting' \in Seq(Conns) /\ Len(waiting') = Len(waiting) + 1
          /\ \A i \in 1..Len(waiting) : waiting'[i] = waiting[i]
          /\ waiting'[Len(waiting) + 1] = c /\ Len(waiting) \in Nat
      BY <1>2, <2>1
    <2>4. Distinct(waiting')
      BY <1>2, <2>2, <2>3 DEF Distinct, Has
    <2>5. \A d \in Conns : Has(waiting', d) <=> d = c \/ Has(waiting, d)
      BY <2>3 DEF Has
    <2>. QED  BY <1>2, <1>3, <2>1, <2>3, <2>4, <2>5, Zenon DEF Becomes
  <1>9. CASE Admit(c)
    <2>. DEFINE x == [conn[c] EXCEPT !.at = "dial"]
    <2>1. /\ Becomes(c, x) /\ x.at = "dial" /\ At(c) = "queue"
          /\ Head(waiting) = c /\ waiting' = Tail(waiting)
      BY <1>1, <1>2, <1>9, Becoming, Zenon DEF ConnState, Admit
    <2>2. Len(waiting) \in Nat /\ Len(waiting) > 0
      BY <1>2, <2>1 DEF At, Has
    <2>3. /\ waiting' \in Seq(Conns) /\ Len(waiting') = Len(waiting) - 1
          /\ \A i \in 1..Len(waiting') : waiting'[i] = waiting[i + 1]
          /\ waiting[1] = c
      BY <1>2, <2>1, <2>2
    <2>4. Distinct(waiting')
      BY <1>2, <2>2, <2>3 DEF Distinct
    <2>5. ASSUME NEW d \in Conns
          PROVE  Has(waiting', d) <=> d # c /\ Has(waiting, d)
      <3>1. ASSUME NEW i \in 1..Len(waiting'), waiting'[i] = d
            PROVE  d # c /\ Has(waiting, d)
        BY <1>2, <2>2, <2>3, <3>1 DEF Has, Distinct
      <3>2. ASSUME NEW i \in 1..Len(waiting), waiting[i] = d, d # c
            PROVE  Has(waiting', d)
        <4>1. i - 1 \in 1..Len(waiting') /\ waiting'[i - 1] = d
          BY <2>2, <2>3, <3>2
        <4>. QED  BY <4>1, Zenon DEF Has
      <3>. QED  BY <3>1, <3>2, Zenon DEF Has
    <2>. QED  BY <1>2, <1>3, <2>1, <2>3, <2>4, <2>5, Zenon DEF Becomes
  <1>10. CASE AwaitsHello(c)
    <2>. DEFINE x == [conn[c] EXCEPT !.at = "hello"]
    <2>1. Becomes(c, x) /\ x.at = "hello" /\ At(c) = "dial" /\ UNCHANGED waiting
      BY <1>1, <1>2, <1>10, Becoming, Zenon DEF ConnState, AwaitsHello, slots
    <2>. QED  BY <1>4, <2>1, Zenon
  <1>11. ASSUME NEW sent \in Nat, Relays(c, sent)
         PROVE  Queued'
    <2>. DEFINE x == [conn[c] EXCEPT !.at = "relay"]
    <2>1. Becomes(c, x) /\ x.at = "relay" /\ At(c) \in {"dial", "hello"} /\ UNCHANGED waiting
      BY <1>1, <1>2, <1>11, Becoming, Zenon DEF ConnState, Relays, slots
    <2>. QED  BY <1>4, <2>1, Zenon
  <1>12. CASE \E d \in Dirs, f \in Copy : Copies(c, d, f)
    <2>1. UNCHANGED <<conn, waiting>>
      BY <1>12, Zenon DEF Copies, slots
    <2>. QED  BY <1>2, <1>3, <2>1, Zenon
  <1>. QED
    BY <1>5, <1>6, <1>7, <1>8, <1>9, <1>10, <1>11, <1>12, Zenon DEF Step

-----------------------------------------------------------------------------
(* Bytes, grants and time *)

\* The bytes of a tunnel: taken, written and left add up to the relay bound.
LEMMA BudgetedKeep ==
  ASSUME GatewayInv, NEW c \in Conns, Step(c)
  PROVE  Budgeted'
  <1>1. Shapes /\ Budgeted
    BY Zenon DEF GatewayInv
  <1>2. /\ budget \in [Conns -> Nat] /\ carried \in [Conns -> Nat]
        /\ flow \in [Conns -> [Dirs -> Copy]] /\ conn[c] \in ConnState /\ MaxRelayBytes \in Nat
        /\ "up" \in Dirs /\ "down" \in Dirs
    BY <1>1, GatewayAssumption, Zenon DEF Shapes, Parameters, Dirs
  <1>. DEFINE Fine(d) ==
         /\ At(d) # "relay" => flow[d]["up"].at = "read" /\ flow[d]["down"].at = "read"
         /\ carried[d] + budget[d] + Bytes(flow[d]["up"]) + Bytes(flow[d]["down"]) = MaxRelayBytes
  <1>3. \A d \in Conns : Fine(d)
    BY <1>1, Zenon DEF Budgeted
  <1>4. (\A d \in Conns : Fine(d)') => Budgeted'
    BY Zenon DEF Budgeted
  <1>5. ASSUME NEW x, Becomes(c, x), Fine(c)',
               \A d \in Conns \ {c} : budget'[d] = budget[d] /\ carried'[d] = carried[d]
                                      /\ flow'[d] = flow[d]
        PROVE  Budgeted'
    <2>1. ASSUME NEW d \in Conns \ {c}
          PROVE  Fine(d)'
      <3>1. At(d)' = At(d)
        BY <1>5, Zenon DEF Becomes, At
      <3>2. budget'[d] = budget[d] /\ carried'[d] = carried[d] /\ flow'[d] = flow[d] /\ Fine(d)
        BY <1>3, <1>5, Zenon
      <3>. QED  BY <3>1, <3>2, Zenon
    <2>. HIDE DEF Fine
    <2>. QED  BY <1>4, <1>5, <2>1, Zenon
  <1>6. \A t : Bytes(Reading(t)) = 0 /\ Reading(t).at = "read"
    BY Zenon DEF Bytes, Reading
  <1>7. CASE Ends(c)
    <2>1. Becomes(c, Closed)
      BY <1>1, <1>7, Becoming, Zenon
    <2>2. /\ budget' = [budget EXCEPT ![c] = MaxRelayBytes] /\ carried' = [carried EXCEPT ![c] = 0]
          /\ flow' = [flow EXCEPT ![c] = [d \in Dirs |-> Reading(0)]]
      BY <1>7, Zenon DEF Ends, Close, Forget
    <2>3. /\ budget'[c] = MaxRelayBytes /\ carried'[c] = 0
          /\ flow'[c]["up"] = Reading(0) /\ flow'[c]["down"] = Reading(0)
          /\ \A d \in Conns \ {c} : budget'[d] = budget[d] /\ carried'[d] = carried[d]
                                    /\ flow'[d] = flow[d]
      BY <1>2, <2>2, Zenon
    <2>4. Fine(c)'
      BY <1>2, <1>6, <2>3
    <2>. QED  BY <1>5, <2>1, <2>3, <2>4, Zenon
  <1>8. ASSUME UNCHANGED stream, \E x : Becomes(c, x),
               At(c) # "relay", At(c)' # "relay"
        PROVE  Budgeted'
    <2>1. UNCHANGED <<budget, flow, carried>>
      BY <1>8, Zenon DEF stream
    <2>2. Fine(c)'
      BY <1>3, <1>8, <2>1, Zenon
    <2>. QED  BY <1>5, <1>8, <2>1, <2>2, Zenon
  <1>9. CASE Accept(c)
    <2>. DEFINE x == [conn[c] EXCEPT !.at = "header", !.accepted = now]
    <2>1. Becomes(c, x) /\ x.at = "header" /\ At(c) = "none" /\ UNCHANGED stream
      BY <1>1, <1>2, <1>9, Becoming, Zenon DEF ConnState, Accept, stream
    <2>. QED  BY <1>8, <2>1, Zenon DEF Becomes, At
  <1>10. ASSUME NEW k \in Caps, NEW n \in Names \cup Addrs, Authenticated(c, k, n)
         PROVE  Budgeted'
    <2>. DEFINE x == [conn[c] EXCEPT !.at = "resolve", !.cap = k, !.name = n]
    <2>1. Becomes(c, x) /\ x.at = "resolve" /\ At(c) = "header" /\ UNCHANGED stream
      BY <1>1, <1>2, <1>10, Becoming, Zenon DEF ConnState, Authenticated, stream
    <2>. QED  BY <1>8, <2>1, Zenon DEF Becomes, At
  <1>11. ASSUME NEW a \in Addrs, NEW sni \in BOOLEAN, Resolved(c, a, sni)
         PROVE  Budgeted'
    <2>. DEFINE x == [conn[c] EXCEPT !.at = "queue", !.addr = a, !.sni = sni]
    <2>1. Becomes(c, x) /\ x.at = "queue" /\ At(c) = "resolve" /\ UNCHANGED stream
      BY <1>1, <1>2, <1>11, Becoming, Zenon DEF ConnState, Resolved, stream
    <2>. QED  BY <1>8, <2>1, Zenon DEF Becomes, At
  <1>12. CASE Admit(c)
    <2>. DEFINE x == [conn[c] EXCEPT !.at = "dial"]
    <2>1. Becomes(c, x) /\ x.at = "dial" /\ At(c) = "queue" /\ UNCHANGED stream
      BY <1>1, <1>2, <1>12, Becoming, Zenon DEF ConnState, Admit, stream
    <2>. QED  BY <1>8, <2>1, Zenon DEF Becomes, At
  <1>13. CASE AwaitsHello(c)
    <2>. DEFINE x == [conn[c] EXCEPT !.at = "hello"]
    <2>1. Becomes(c, x) /\ x.at = "hello" /\ At(c) = "dial" /\ UNCHANGED stream
      BY <1>1, <1>2, <1>13, Becoming, Zenon DEF ConnState, AwaitsHello, stream
    <2>. QED  BY <1>8, <2>1, Zenon DEF Becomes, At
  <1>14. ASSUME NEW sent \in Nat, Relays(c, sent)
         PROVE  Budgeted'
    <2>. DEFINE x == [conn[c] EXCEPT !.at = "relay"]
    <2>1. Becomes(c, x) /\ x.at = "relay" /\ At(c) # "relay"
      BY <1>1, <1>2, <1>14, Becoming, Zenon DEF ConnState, Relays
    <2>2. /\ budget' = [budget EXCEPT ![c] = @ - sent] /\ carried' = [carried EXCEPT ![c] = @ + sent]
          /\ flow' = [flow EXCEPT ![c] = [d \in Dirs |-> Reading(now)]]
      BY <1>14, Zenon DEF Relays
    <2>3. /\ budget'[c] = budget[c] - sent /\ carried'[c] = carried[c] + sent
          /\ flow'[c]["up"] = Reading(now) /\ flow'[c]["down"] = Reading(now)
          /\ \A d \in Conns \ {c} : budget'[d] = budget[d] /\ carried'[d] = carried[d]
                                    /\ flow'[d] = flow[d]
      BY <1>2, <2>2, Zenon
    <2>4. Bytes(flow[c]["up"]) = 0 /\ Bytes(flow[c]["down"]) = 0
      BY <1>3, <2>1, Zenon DEF Bytes
    <2>5. carried[c] + budget[c] = MaxRelayBytes /\ budget[c] \in Nat /\ carried[c] \in Nat
      BY <1>2, <1>3, <2>4
    <2>6. Fine(c)'
      BY <1>6, <2>3, <2>5
    <2>. QED  BY <1>5, <2>1, <2>3, <2>6, Zenon
  <1>15. ASSUME NEW d \in Dirs, NEW f \in Copy, Copies(c, d, f)
         PROVE  Budgeted'
    <2>1. /\ At(c) = "relay" /\ At(c)' = "relay" /\ UNCHANGED conn
          /\ flow' = [flow EXCEPT ![c][d] = f]
          /\ budget' \in [Conns -> Nat] /\ carried' \in [Conns -> Nat]
          /\ \A e \in Conns \ {c} : budget'[e] = budget[e] /\ carried'[e] = carried[e]
          /\ carried'[c] + budget'[c] + Bytes(f) = carried[c] + budget[c] + Bytes(flow[c][d])
      BY <1>15, Zenon DEF Copies, At
    <2>2. /\ flow'[c][d] = f /\ \A e \in Dirs \ {d} : flow'[c][e] = flow[c][e]
          /\ \A e \in Conns \ {c} : flow'[e] = flow[e]
      BY <1>2, <2>1, Zenon
    <2>3. \A g \in Copy : Bytes(g) \in Nat
      BY Zenon DEF Copy, Bytes
    <2>4. /\ flow[c]["up"] \in Copy /\ flow[c]["down"] \in Copy
          /\ budget[c] \in Nat /\ carried[c] \in Nat /\ budget'[c] \in Nat /\ carried'[c] \in Nat
      BY <1>2, <2>1, Zenon
    <2>5. carried'[c] + budget'[c] + Bytes(flow'[c]["up"]) + Bytes(flow'[c]["down"]) = MaxRelayBytes
      <3>1. /\ Bytes(f) \in Nat /\ Bytes(flow[c]["up"]) \in Nat /\ Bytes(flow[c]["down"]) \in Nat
            /\ carried[c] + budget[c] + Bytes(flow[c]["up"]) + Bytes(flow[c]["down"]) = MaxRelayBytes
        BY <1>3, <2>3, <2>4, Zenon
      <3>2. CASE d = "up"
        <4>1. flow'[c]["up"] = f /\ flow'[c]["down"] = flow[c]["down"]
          BY <2>2, <3>2 DEF Dirs
        <4>2. carried'[c] + budget'[c] + Bytes(f) = carried[c] + budget[c] + Bytes(flow[c]["up"])
          BY <2>1, <3>2, Zenon
        <4>. QED  BY <2>4, <3>1, <4>1, <4>2
      <3>3. CASE d = "down"
        <4>1. flow'[c]["down"] = f /\ flow'[c]["up"] = flow[c]["up"]
          BY <2>2, <3>3 DEF Dirs
        <4>2. carried'[c] + budget'[c] + Bytes(f) = carried[c] + budget[c] + Bytes(flow[c]["down"])
          BY <2>1, <3>3, Zenon
        <4>. QED  BY <2>4, <3>1, <4>1, <4>2
      <3>. QED  BY <3>2, <3>3, Zenon DEF Dirs
    <2>6. Fine(c)'
      BY <2>1, <2>5, Zenon
    <2>7. ASSUME NEW e \in Conns \ {c}
          PROVE  Fine(e)'
      <3>1. At(e)' = At(e)
        BY <2>1, Zenon DEF At
      <3>2. budget'[e] = budget[e] /\ carried'[e] = carried[e] /\ flow'[e] = flow[e] /\ Fine(e)
        BY <1>3, <2>1, <2>2, Zenon
      <3>. QED  BY <3>1, <3>2, Zenon
    <2>. HIDE DEF Fine
    <2>. QED  BY <1>4, <2>6, <2>7, Zenon
  <1>. QED
    BY <1>7, <1>9, <1>10, <1>11, <1>12, <1>13, <1>14, <1>15, Zenon DEF Step

\* What a connection may do from now on depends on what was verified and resolved for it only.
LEMMA GrantKeeps ==
  ASSUME GatewayInv, NEW c \in Conns, Step(c)
  PROVE  Authorized' /\ Timely'
  <1>1. Shapes /\ Authorized /\ Timely
    BY Zenon DEF GatewayInv
  <1>2. conn[c] \in ConnState /\ now \in Nat /\ SetupTimeout \in Nat /\ UNCHANGED now
    <2>1. UNCHANGED now
      BY Zenon
      DEF Step, Ends, Accept, Admit, AwaitsHello, Authenticated, Resolved, Relays, Copies
    <2>. QED  BY <1>1, <2>1, GatewayAssumption DEF Shapes, Parameters
  <1>. DEFINE Lawful(x) == x.at \in Granted =>
                 /\ x.addr \notin Denied /\ x.name \notin Denied
                 /\ \/ x.sni /\ x.name \in HostRules[x.cap]
                    \/ x.addr \in CidrRules[x.cap]
              Early(x) == /\ x.at \in InSetup => now <= x.accepted + SetupTimeout
                          /\ x.at = "relay" => now <= ExpiresOf[x.cap]
  <1>3. \A d \in Conns : Lawful(conn[d]) /\ Early(conn[d])
    BY <1>1, Zenon
    DEF Authorized, Timely, SetupIsBounded, RelayEndsWithCapability, At
  <1>4. ASSUME NEW x, Becomes(c, x), Lawful(x), Early(x)
        PROVE  Authorized' /\ Timely'
    <2>1. \A d \in Conns : Lawful(conn'[d]) /\ Early(conn'[d])
      BY <1>3, <1>4, Zenon DEF Becomes
    <2>. QED
      BY <1>2, <2>1, Zenon DEF Authorized, Timely, SetupIsBounded, RelayEndsWithCapability, At
  <1>5. CASE Ends(c)
    <2>1. Becomes(c, Closed) /\ Lawful(Closed) /\ Early(Closed)
      BY <1>1, <1>5, Becoming, Zenon DEF Closed, Free, Granted, InSetup
    <2>. QED  BY <1>4, <2>1, Zenon
  <1>6. CASE Accept(c)
    <2>. DEFINE x == [conn[c] EXCEPT !.at = "header", !.accepted = now]
    <2>1. Becomes(c, x) /\ x.at = "header" /\ x.accepted = now
      BY <1>1, <1>2, <1>6, Becoming, Zenon DEF ConnState
    <2>2. Lawful(x) /\ Early(x)
      BY <1>2, <2>1 DEF Granted
    <2>. QED  BY <1>4, <2>1, <2>2, Zenon
  <1>7. ASSUME NEW k \in Caps, NEW n \in Names \cup Addrs, Authenticated(c, k, n)
        PROVE  Authorized' /\ Timely'
    <2>. DEFINE x == [conn[c] EXCEPT !.at = "resolve", !.cap = k, !.name = n]
    <2>1. Becomes(c, x) /\ x.at = "resolve" /\ x.accepted = conn[c].accepted /\ At(c) = "header"
      BY <1>1, <1>2, <1>7, Becoming, Zenon DEF ConnState, Authenticated
    <2>2. Lawful(x) /\ Early(x)
      BY <1>3, <2>1, Zenon DEF Granted, InSetup, At
    <2>. QED  BY <1>4, <2>1, <2>2, Zenon
  <1>8. ASSUME NEW a \in Addrs, NEW sni \in BOOLEAN, Resolved(c, a, sni)
        PROVE  Authorized' /\ Timely'
    <2>. DEFINE x == [conn[c] EXCEPT !.at = "queue", !.addr = a, !.sni = sni]
    <2>1. /\ Becomes(c, x) /\ x.at = "queue" /\ x.accepted = conn[c].accepted /\ At(c) = "resolve"
          /\ x.addr = a /\ x.sni = sni /\ x.name = conn[c].name /\ x.cap = conn[c].cap
      BY <1>1, <1>2, <1>8, Becoming, Zenon DEF ConnState, Resolved
    <2>2. Lawful(x)
      BY <1>8, <2>1, Zenon DEF Resolved
    <2>3. Early(x)
      BY <1>3, <2>1, Zenon DEF InSetup, At
    <2>. QED  BY <1>4, <2>1, <2>2, <2>3, Zenon
  <1>9. ASSUME NEW p, Becomes(c, [conn[c] EXCEPT !.at = p]), p \notin InSetup,
               At(c) \in Granted, p = "relay" => Verified(conn[c].cap), p = "relay" => conn[c].cap \in Caps
        PROVE  Authorized' /\ Timely'
    <2>. DEFINE x == [conn[c] EXCEPT !.at = p]
    <2>1. /\ x.at = p /\ x.cap = conn[c].cap /\ x.name = conn[c].name /\ x.addr = conn[c].addr
          /\ x.sni = conn[c].sni
      BY <1>2, <1>9, Zenon DEF ConnState
    <2>2. Lawful(x)
      BY <1>3, <1>9, <2>1, Zenon DEF At
    <2>3. Early(x)
      BY <1>2, <1>9, <2>1, GatewayAssumption DEF Verified, Parameters
    <2>. QED  BY <1>4, <1>9, <2>2, <2>3, Zenon
  <1>10. CASE Admit(c)
    <2>1. Becomes(c, [conn[c] EXCEPT !.at = "dial"]) /\ At(c) = "queue"
      BY <1>1, <1>10, Becoming, Zenon DEF Admit
    <2>2. "dial" \notin InSetup /\ "queue" \in Granted /\ "dial" # "relay"
      BY Zenon DEF Granted, InSetup
    <2>. QED  BY <1>9, <2>1, <2>2, Zenon
  <1>11. CASE AwaitsHello(c)
    <2>1. Becomes(c, [conn[c] EXCEPT !.at = "hello"]) /\ At(c) = "dial"
      BY <1>1, <1>11, Becoming, Zenon DEF AwaitsHello
    <2>2. "hello" \notin InSetup /\ "dial" \in Granted /\ "hello" # "relay"
      BY Zenon DEF Granted, InSetup
    <2>. QED  BY <1>9, <2>1, <2>2, Zenon
  <1>12. ASSUME NEW sent \in Nat, Relays(c, sent)
         PROVE  Authorized' /\ Timely'
    <2>1. Becomes(c, [conn[c] EXCEPT !.at = "relay"]) /\ Verified(conn[c].cap)
      BY <1>1, <1>12, Becoming, Zenon DEF Relays
    <2>2. At(c) \in Granted /\ conn[c].cap \in Caps
      BY <1>1, <1>12, Zenon DEF Relays, Granted, Shapes, Rooted
    <2>. QED  BY <1>9, <2>1, <2>2 DEF InSetup
  <1>13. CASE \E d \in Dirs, f \in Copy : Copies(c, d, f)
    <2>1. UNCHANGED <<conn, now>>
      BY <1>13, Zenon DEF Copies
    <2>. QED
      BY <1>1, <2>1, Zenon DEF Authorized, Timely, SetupIsBounded, RelayEndsWithCapability, At
  <1>. QED
    BY <1>5, <1>6, <1>7, <1>8, <1>10, <1>11, <1>12, <1>13, Zenon DEF Step

\* The clock passes no timer that is due.
LEMMA TickKeeps ==
  ASSUME GatewayInv, Tick
  PROVE  GatewayInv'
  <1>1. /\ now' = now + 1 /\ now < MaxTime /\ \A c \in Conns : ~Due(c)
        /\ UNCHANGED <<conn, setups, tunnels, waiting, active, budget, flow, carried>>
    BY Zenon DEF Tick, slots, stream
  <1>2. now \in Nat /\ now' \in 0..MaxTime /\ conn \in [Conns -> ConnState]
    BY <1>1, GatewayAssumption DEF GatewayInv, Shapes, Parameters
  <1>3. Shapes' /\ Queued' /\ PermitsExact' /\ Budgeted' /\ Authorized'
    <2>1. Shapes'
      BY <1>1, <1>2, Zenon DEF GatewayInv, Shapes, At
    <2>2. Queued'
      BY <1>1, Zenon DEF GatewayInv, Queued, At
    <2>3. PermitsExact'
      BY <1>1, Zenon DEF GatewayInv, PermitsExact, At, Root
    <2>4. Budgeted' /\ Authorized'
      BY <1>1, Zenon DEF GatewayInv, Budgeted, Authorized, At
    <2>. QED  BY <2>1, <2>2, <2>3, <2>4, Zenon
  <1>4. SetupIsBounded'
    <2>. SUFFICES ASSUME NEW c \in Conns, At(c) \in InSetup
                  PROVE  now' <= conn[c].accepted + SetupTimeout
      BY <1>1, Zenon DEF SetupIsBounded, At
    <2>1. conn[c].accepted \in Nat /\ SetupTimeout \in Nat
      BY <1>2, GatewayAssumption, Zenon DEF ConnState, Parameters
    <2>. QED  BY <1>1, <1>2, <2>1 DEF Due, InSetup
  <1>5. RelayEndsWithCapability'
    <2>. SUFFICES ASSUME NEW c \in Conns, At(c) = "relay"
                  PROVE  now' <= ExpiresOf[conn[c].cap]
      BY <1>1, Zenon DEF RelayEndsWithCapability, At
    <2>1. ExpiresOf[conn[c].cap] \in Nat
      BY GatewayAssumption, Zenon DEF GatewayInv, Shapes, Rooted, Parameters
    <2>. QED  BY <1>1, <1>2, <2>1 DEF Due
  <1>. QED  BY <1>3, <1>4, <1>5, Zenon DEF GatewayInv, Timely

-----------------------------------------------------------------------------
(* Theorems *)

\* The gateway starts in the invariant.
LEMMA GatewayInit == Init => GatewayInv
  <1>. SUFFICES ASSUME Init PROVE GatewayInv
    OBVIOUS
  <1>1. Free \in ConnState /\ Free.at = "none" /\ Reading(0) \in Copy
        /\ Reading(0).at = "read" /\ Bytes(Reading(0)) = 0
    BY Zenon DEF Free, ConnState, Places, Reading, Copy, Bytes
  <1>2. \A c \in Conns : conn[c] = Free
    BY Zenon DEF Init
  <1>3. Shapes
    <2>1. /\ now \in 0..MaxTime /\ setups \in Nat /\ tunnels \in Nat /\ active \in [Roots -> Int]
          /\ budget \in [Conns -> Nat] /\ carried \in [Conns -> Nat]
      BY GatewayAssumption DEF Init, Parameters
    <2>2. conn \in [Conns -> ConnState] /\ flow \in [Conns -> [Dirs -> Copy]]
      BY <1>1, Zenon DEF Init
    <2>3. \A c \in Conns : At(c) \notin Rooted
      BY <1>1, <1>2, Zenon DEF At, Rooted
    <2>. QED  BY <2>1, <2>2, <2>3, Zenon DEF Shapes
  <1>4. Queued
    <2>1. waiting = <<>>
      BY Zenon DEF Init
    <2>. QED  BY <1>1, <1>2, <2>1 DEF Queued, At
  <1>5. PermitsExact
    <2>1. /\ {c \in Conns : At(c) \in InSetup} = {} /\ {c \in Conns : At(c) \in Tunnelled} = {}
          /\ \A r \in Roots : {c \in Conns : At(c) \in Rooted /\ Root(c) = r} = {}
      BY <1>1, <1>2, Zenon DEF At, InSetup, Tunnelled, Rooted
    <2>2. Cardinality({}) = 0
      BY FS_EmptySet, Zenon
    <2>3. /\ setups = MaxPendingSetups /\ tunnels = MaxConnections /\ \A r \in Roots : active[r] = 0
          /\ {MaxPendingSetups, MaxConnections, MaxPerRoot} \subseteq Nat
      BY GatewayAssumption, Zenon DEF Init, Parameters
    <2>4. /\ Cardinality({c \in Conns : At(c) \in InSetup}) = 0
          /\ Cardinality({c \in Conns : At(c) \in Tunnelled}) = 0
          /\ \A r \in Roots : Cardinality({c \in Conns : At(c) \in Rooted /\ Root(c) = r}) = 0
      BY <2>1, <2>2, Zenon
    <2>5. /\ setups + 0 = MaxPendingSetups /\ tunnels + 0 = MaxConnections
          /\ \A r \in Roots : active[r] <= MaxPerRoot
      BY <2>3
    <2>. QED  BY <2>3, <2>4, <2>5, Zenon DEF PermitsExact
  <1>6. Budgeted
    <2>1. \A c \in Conns : /\ flow[c]["up"] = Reading(0) /\ flow[c]["down"] = Reading(0)
                           /\ budget[c] = MaxRelayBytes /\ carried[c] = 0
      BY Zenon DEF Init, Dirs
    <2>. QED  BY <1>1, <2>1, GatewayAssumption DEF Budgeted, Parameters
  <1>7. Authorized /\ Timely
    BY <1>1, <1>2, Zenon
    DEF Authorized, Timely, SetupIsBounded, RelayEndsWithCapability, At, Granted, InSetup
  <1>. QED  BY <1>3, <1>4, <1>5, <1>6, <1>7, Zenon DEF GatewayInv

\* The invariant holds in every reachable state.
LEMMA GatewayAlways == Spec => []GatewayInv
  <1>1. GatewayInv /\ [Next]_vars => GatewayInv'
    <2>. SUFFICES ASSUME GatewayInv, [Next]_vars
                  PROVE  GatewayInv'
      OBVIOUS
    <2>1. CASE Tick
      BY <2>1, TickKeeps, Zenon
    <2>2. CASE \E c \in Conns : Step(c)
      BY <2>2, ShapesKeep, QueuedKeep, PermitsKeep, BudgetedKeep, GrantKeeps, Zenon DEF GatewayInv
    <2>3. CASE UNCHANGED vars
      <3>1. UNCHANGED <<now, conn, setups, tunnels, waiting, active, budget, flow, carried>>
        BY <2>3, Zenon DEF vars
      <3>2. Shapes' /\ Queued'
        BY <3>1, Zenon DEF GatewayInv, Shapes, Queued, At
      <3>3. PermitsExact' /\ Budgeted'
        BY <3>1, Zenon DEF GatewayInv, PermitsExact, Budgeted, At, Root
      <3>4. Authorized' /\ Timely'
        BY <3>1, Zenon
        DEF GatewayInv, Authorized, Timely, SetupIsBounded, RelayEndsWithCapability, At
      <3>. QED  BY <3>2, <3>3, <3>4, Zenon DEF GatewayInv
    <2>. QED  BY <2>1, <2>2, <2>3, Steps, Zenon
  <1>. QED  BY <1>1, GatewayInit, PTL DEF Spec

\* LimitsCorrect: for every set of connections and all bounds, the slots, the permits of the roots,
\* the setup time and the bytes of a tunnel stay within the limits of the gateway, on every path of
\* setup, relay, refusal and timeout (serve_proxy, connect_setup, RootQuotas, ByteBudget).
THEOREM LimitsCorrect == Spec => []LimitsHold
  <1>1. GatewayInv => LimitsHold
    <2>. SUFFICES ASSUME GatewayInv
                  PROVE  LimitsHold
      OBVIOUS
    <2>1. Shapes /\ Queued /\ PermitsExact /\ Budgeted /\ Timely
      BY Zenon DEF GatewayInv
    <2>2. BudgetShared
      BY <2>1, Zenon DEF Budgeted, BudgetShared, Bytes
    <2>3. now \in 0..MaxTime /\ \A c \in Conns : At(c) \in {"none", "closed"} \cup InSetup \cup Tunnelled
      BY <2>1, Zenon DEF Shapes, ConnState, Places, At, InSetup, Tunnelled
    <2>4. ASSUME NEW S \in SUBSET Conns
          PROVE  Cardinality(S) \in Nat
      <3>1. IsFiniteSet(S)
        BY GatewayAssumption, FS_Subset, Zenon DEF Parameters
      <3>. QED  BY <3>1, FS_CardinalityType, Zenon
    <2>5. /\ setups \in 0..MaxPendingSetups /\ tunnels \in 0..MaxConnections
          /\ active \in [Roots -> 0..MaxPerRoot]
      <3>. DEFINE S == {c \in Conns : At(c) \in InSetup}
                  T == {c \in Conns : At(c) \in Tunnelled}
                  H(r) == {c \in Conns : At(c) \in Rooted /\ Root(c) = r}
      <3>1. /\ setups + Cardinality(S) = MaxPendingSetups /\ tunnels + Cardinality(T) = MaxConnections
            /\ \A r \in Roots : active[r] = Cardinality(H(r)) /\ active[r] <= MaxPerRoot
        BY <2>1, Zenon DEF PermitsExact
      <3>2. S \in SUBSET Conns /\ T \in SUBSET Conns /\ \A r : H(r) \in SUBSET Conns
        BY Zenon
      <3>. HIDE DEF S, T, H
      <3>3. Cardinality(S) \in Nat /\ Cardinality(T) \in Nat /\ \A r : Cardinality(H(r)) \in Nat
        BY <2>4, <3>2, Zenon
      <3>4. setups \in 0..MaxPendingSetups /\ tunnels \in 0..MaxConnections
        BY <2>1, <3>1, <3>3, GatewayAssumption DEF Shapes, Parameters
      <3>5. \A r \in Roots : active[r] \in 0..MaxPerRoot
        BY <3>1, <3>3, GatewayAssumption DEF Parameters
      <3>. QED  BY <2>1, <3>4, <3>5, Zenon DEF Shapes
    <2>6. budget \in [Conns -> 0..MaxRelayBytes]
      <3>1. ASSUME NEW c \in Conns
            PROVE  budget[c] \in 0..MaxRelayBytes
        <4>1. \A g \in Copy : Bytes(g) \in Nat
          BY Zenon DEF Copy, Bytes
        <4>2. /\ flow[c]["up"] \in Copy /\ flow[c]["down"] \in Copy
              /\ budget[c] \in Nat /\ carried[c] \in Nat
          BY <2>1, Zenon DEF Shapes, Dirs
        <4>3. carried[c] + budget[c] + Bytes(flow[c]["up"]) + Bytes(flow[c]["down"]) = MaxRelayBytes
          BY <2>1, Zenon DEF Budgeted
        <4>. QED  BY <4>1, <4>2, <4>3
      <3>. QED  BY <2>1, <3>1, Zenon DEF Shapes
    <2>7. {waiting[i] : i \in 1..Len(waiting)} = {c \in Conns : At(c) = "queue"}
      <3>1. \A i \in 1..Len(waiting) : waiting[i] \in Conns
        BY <2>1 DEF Queued
      <3>2. \A c \in Conns : At(c) = "queue" <=> \E i \in 1..Len(waiting) : waiting[i] = c
        BY <2>1, Zenon DEF Queued
      <3>. QED  BY <3>1, <3>2, Zenon
    <2>. QED
      BY <2>1, <2>2, <2>3, <2>5, <2>6, <2>7, Zenon DEF LimitsHold, TypeOK, Timely
  <1>. QED  BY <1>1, GatewayAlways, PTL

\* GrantCorrect: whatever DNS answers and however long a client or an upstream stalls, a tunnel
\* goes only to an address that its capability grants and that is not denied, and never relays
\* beyond the expiry of the capability (authorize, connect_setup and the relay's deadline).
THEOREM GrantCorrect == Spec => []WithinGrant
  <1>1. GatewayInv => WithinGrant
    BY Zenon DEF GatewayInv, Authorized, Timely, WithinGrant, DialsOnlyGranted, Granted, Tunnelled
  <1>. QED  BY <1>1, GatewayAlways, PTL
=============================================================================
