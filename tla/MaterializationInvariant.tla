----------------------- MODULE MaterializationInvariant -----------------------
(***************************************************************************)
(* The strengthening behind the safety properties of Materialization: each *)
(* part is a fact that one action needs of the actions before it.          *)
(***************************************************************************)
EXTENDS Materialization

\* The dispatch window, the transit time and the provider lifetime fit into
\* the lease (launch_dispatch_deadline checks the first and the last; the
\* minute in between is the skew the constants leave).
ASSUME LeaseCoversLaunch == DispatchMs + TransitMs + LifetimeMs <= LeaseMs

\* A charged row and a call past its first step name an identifier.
IdsAreSet ==
    /\ \A k \in Keys : Charged(k) => row[k].id \in Ids
    /\ \A c \in Callers :
           caller[c].pc \notin {"idle", "purge_terminal"} => caller[c].id \in Ids

\* An identifier belongs to one key and one generation, wherever it appears.
OneOwner ==
    /\ \A k, l \in Keys : row[k].id = row[l].id /\ row[k].id \in Ids => k = l
    /\ \A k \in Keys, c \in Callers :
           row[k].id = caller[c].id /\ row[k].id \in Ids
               => caller[c].key = k /\ caller[c].gen = row[k].gen
    /\ \A c, d \in Callers :
           caller[c].id = caller[d].id /\ caller[c].id \in Ids
               => caller[c].key = caller[d].key /\ caller[c].gen = caller[d].gen
    /\ \A k \in Keys : \A run \in late : run.id = row[k].id => run.key = k
    /\ \A c \in Callers : \A run \in late : run.id = caller[c].id => run.key = caller[c].key

\* Nobody else knows the attempt of a call that has not acquired yet, nor the
\* reservation it minted.
Unshared(c) ==
    /\ caller[c].attempt \in Ids
    /\ caller[c].start <= clock
    /\ \A k \in Keys : row[k].attempt # caller[c].attempt
    /\ \A d \in Callers \ {c} : caller[d].attempt # caller[c].attempt
    /\ caller[c].op # "purge" =>
           /\ vm[caller[c].id].state = "none"
           /\ \A k \in Keys : row[k].id # caller[c].id
           /\ \A d \in Callers \ {c} : caller[d].id # caller[c].id
           /\ \A run \in late : run.id # caller[c].id
UnsharedRequest == \A c \in Callers : caller[c].pc = "acquire" => Unshared(c)

\* A call that may still make the provider create the microVM of i.
MayRun(c, i) ==
    /\ caller[c].id = i
    /\ \/ caller[c].pc = "run"
       \/ /\ caller[c].pc = "launch" /\ caller[c].seal = caller[c].start
          /\ clock <= DispatchDeadline(caller[c])

NoOtherRun(c, i) ==
    /\ \A d \in Callers \ {c} : ~MayRun(d, i)
    /\ \A run \in late : run.id # i

Reserves(k, i) == row[k].state = "materializing" /\ row[k].id = i
LastRun(k) == row[k].start + DispatchMs + TransitMs

\* While a microVM may still be created, the reservation it belongs to is in
\* the table, and its lease began no earlier than the launch was sealed.
LaunchesAreReserved ==
    /\ \A c \in Callers : LET m == caller[c] IN
           m.pc = "launch" /\ MayRun(c, m.id) /\ vm[m.id].state = "none"
               => Reserves(m.key, m.id) /\ m.start <= row[m.key].start
    /\ \A c \in Callers : LET m == caller[c] IN
           m.pc = "run" =>
               /\ clock <= m.until
               /\ vm[m.id].state = "none" => Reserves(m.key, m.id) /\ m.until <= LastRun(m.key)
    /\ \A run \in late :
           /\ clock <= run.until
           /\ vm[run.id].state = "none"
                  => Reserves(run.key, run.id) /\ run.until <= LastRun(run.key)

\* A microVM that occupies memory is named by a charged row, and dies before
\* the lease of that row ends.
LiveWithinLease ==
    \A i \in Ids : Alive(i) =>
        /\ clock < vm[i].dies
        /\ \E k \in Keys : /\ Charged(k) /\ row[k].id = i
                           /\ Reserves(k, i) => vm[i].dies <= LeaseExpires(row[k])

OwnsAttempt(c) ==
    LET m == caller[c] IN
    Reserves(m.key, m.id) /\ row[m.key].attempt = m.attempt

\* A call that is about to refund, or may come to that, knows that there is
\* no microVM and that nobody else can still create one.
MayRefund(c) ==
    /\ \/ caller[c].pc = "refund"
       \/ caller[c].pc \in {"launch", "run"} /\ ~caller[c].recovery
    /\ OwnsAttempt(c)
SafeToRefund(c, i) == ~Alive(i) /\ (vm[i].state = "none" => NoOtherRun(c, i))
RefundsAreSafe == \A c \in Callers : MayRefund(c) => SafeToRefund(c, caller[c].id)

\* A purge that listed the current attempt knows when its lease began.
ListedLeaseIsCurrent ==
    \A c \in Callers : caller[c].pc = "listed" =>
        /\ caller[c].op = "purge"
        /\ OwnsAttempt(c) => row[caller[c].key].start = caller[c].start

\* Calls that hold a physical target hold one that was created; by the time a
\* call terminates a stale target or closes a row, it is gone.
TargetsExist ==
    /\ \A k \in Keys : Installed(row[k]) => vm[row[k].id].state # "none"
    /\ \A c \in Callers :
           caller[c].pc \in {"install", "cleanup", "confirm", "mark"}
               => vm[caller[c].id].state # "none"
    /\ \A c \in Callers :
           caller[c].pc \in {"cleanup", "mark"} => ~Alive(caller[c].id)

FenceInv ==
    /\ OneOwner /\ UnsharedRequest /\ LaunchesAreReserved
    /\ LiveWithinLease /\ RefundsAreSafe /\ ListedLeaseIsCurrent /\ TargetsExist
=============================================================================
