--------------------------- MODULE RegistryRecords ---------------------------
(***************************************************************************)
(* The values that the target registry port is about (hand-core:           *)
(* materialization/record.rs and port.rs): requests, durable records and   *)
(* answers, and what the deadlines of a record mean for a request.         *)
(***************************************************************************)
EXTENDS Integers, FiniteSets

CONSTANTS
    Keys, Calls, Specs, Gens,
    Ids,        \* reservation, attempt and target identifiers
    GenOf,      \* [Ids -> Gens]: a reservation is minted together with its generation
    Requests,   \* the requests that are made, each by one call
    NoRequest, NoId,
    Mib, MaxMib, LifetimeMs, LeaseMs, AttemptMs

Request == [op : {"acquire", "install", "expire", "close", "purge"}, key : Keys, spec : Specs,
            id : Ids \cup {NoId}, gen : Gens, attempt : Ids \cup {NoId}, now : Nat,
            fenced : BOOLEAN, replace : BOOLEAN, disp : {"lost", "terminated"}]

ASSUME KeyAssumption == IsFiniteSet(Keys)
ASSUME IdAssumption == NoId \notin Ids /\ NoId \notin Gens /\ GenOf \in [Ids -> Gens]
ASSUME RequestAssumption ==
    /\ Requests \subseteq Request /\ NoRequest \notin Requests
    /\ \A r \in Requests : r.op = "acquire" => r.id \in Ids /\ r.attempt \in Ids /\ r.gen = GenOf[r.id]
ASSUME AttemptAssumption ==
    \A q, r \in Requests : q.op = "acquire" /\ r.op = "acquire" /\ q.attempt = r.attempt => q = r
ASSUME CapacityAssumption == Mib \in Nat \ {0} /\ MaxMib \in Nat
ASSUME TimeAssumption ==
    /\ {LifetimeMs, LeaseMs, AttemptMs} \subseteq Nat \ {0}
    /\ LifetimeMs < LeaseMs /\ AttemptMs < LeaseMs

Row == [state : {"none", "materializing", "installed", "lost", "terminated"},
        id : Ids \cup {NoId}, gen : Gens \cup {NoId}, spec : Specs \cup {NoId},
        attempt : Ids \cup {NoId}, attemptExpires : Nat, start : Nat]

NoRow == [state |-> "none", id |-> NoId, gen |-> NoId, spec |-> NoId, attempt |-> NoId,
          attemptExpires |-> 0, start |-> 0]

Answer == [kind : {"none", "waiting", "acquired", "installed", "pending", "gone", "terminated",
                   "conflict", "capacity", "lost", "ok", "storage"},
           id : Ids \cup {NoId}, gen : Gens \cup {NoId}, start : Nat, recovery : BOOLEAN]

Plain(kind) == [kind |-> kind, id |-> NoId, gen |-> NoId, start |-> 0, recovery |-> FALSE]
Acquired(i, g, start, recovery) ==
    [kind |-> "acquired", id |-> i, gen |-> g, start |-> start, recovery |-> recovery]
InstalledAs(i, g) == [kind |-> "installed", id |-> i, gen |-> g, start |-> 0, recovery |-> FALSE]

Charged(r) == r.state \in {"materializing", "installed"}
Closed(r) == r.state \in {"lost", "terminated"}

LeaseExpired(r, q) == r.start + LeaseMs <= q.now
TargetExpired(r, q) == r.start + LifetimeMs <= q.now
AttemptExpired(r, q) == r.attemptExpires <= q.now
AttemptFree(r, q) == ~LeaseExpired(r, q) /\ ~TargetExpired(r, q) /\ AttemptExpired(r, q)

\* The generation fence of acquire: only a lost record may be replaced by another generation.
FenceAdmits(r, q) == q.fenced /\ r.gen # q.gen => q.replace /\ r.state = "lost"
Admits(r, q) == r.spec = q.spec /\ FenceAdmits(r, q)

\* record_from_lease, and take_materialization_attempt.
Reserved(q) == [state |-> "materializing", id |-> q.id, gen |-> q.gen, spec |-> q.spec,
                attempt |-> q.attempt, attemptExpires |-> q.now + AttemptMs, start |-> q.now]
TakenOver(r, q, until) == [state |-> "materializing", id |-> r.id, gen |-> r.gen, spec |-> r.spec,
                           attempt |-> q.attempt, attemptExpires |-> until, start |-> r.start]
AttemptUntil(r, q) == IF q.now + AttemptMs <= r.start + LeaseMs
                      THEN q.now + AttemptMs ELSE r.start + LeaseMs
InstalledRow(r) == [state |-> "installed", id |-> r.id, gen |-> r.gen, spec |-> r.spec,
                    attempt |-> NoId, attemptExpires |-> 0, start |-> r.start]
ClosedRow(r, disp) == [state |-> disp, id |-> NoId, gen |-> r.gen, spec |-> r.spec,
                       attempt |-> NoId, attemptExpires |-> 0, start |-> 0]

\* The record of exactly this reservation, attempt, or installed target.
Reservation(r, q) == r.state = "materializing" /\ r.id = q.id /\ r.gen = q.gen
ExactAttempt(r, q) == Reservation(r, q) /\ r.attempt = q.attempt
ExactTarget(r, q) == r.state = "installed" /\ r.id = q.id /\ r.gen = q.gen
=============================================================================
