--------------------------- MODULE Materialization ---------------------------
(***************************************************************************)
(* Durable materialization of sandbox targets: the reservation registry    *)
(* (hand-brain-aws/registry.rs), the reservation -> launch -> install      *)
(* orchestrator (hand-core/materialization/materializer.rs), the sealed    *)
(* launcher (hand-brain-aws/launcher.rs), the closing transitions          *)
(* (hand-brain-aws/hand.rs) and root purge (ports/preparation.rs), run by  *)
(* any number of Hand processes over one DynamoDB table and one provider.  *)
(*                                                                         *)
(* A caller is one in-flight port call in some Hand process.  It keeps its *)
(* lease in local memory between awaits, so every await is a point where   *)
(* the others may run, where time may pass and where it may be lost.       *)
(*                                                                         *)
(* An identifier plays both roles it has in the code: the reservation id   *)
(* is the provider's client_token, and the provider keeps one microVM per  *)
(* token, so it also stands for that microVM's target_ref.                 *)
(***************************************************************************)
EXTENDS Integers, FiniteSets

CONSTANTS
    Keys,           \* target keys (root id, target key)
    DefaultKeys,    \* those that name a root's shared default target
    Callers,        \* concurrent port calls
    Purgers,        \* those that may be root purges
    Ids,            \* random identifiers: reservations, attempts, generations
    Intents,        \* generation intents minted by Brain
    NoId,           \* an identifier field that is not set
    Mib,            \* spec.materialized_mib of the one resource class
    MaxMib,         \* the plane's max_materialized_mib
    LifetimeMs,     \* TARGET_LIFETIME_MS
    LeaseMs,        \* TARGET_LEASE_MS
    AttemptMs,      \* TARGET_ATTEMPT_MS
    DispatchMs,     \* TARGET_DISPATCH_WINDOW_MS
    TransitMs,      \* longest time from dispatch admission to provider effect
    CallsUntil,     \* bound: no call but a purge starts after this instant
    MaxClock,       \* bound on the clock
    MaxFaults       \* bound on crashes and storage errors

ASSUME KeyAssumption == IsFiniteSet(Keys) /\ Keys # {} /\ DefaultKeys \subseteq Keys
ASSUME CallerAssumption == Purgers \subseteq Callers
ASSUME IdAssumption == NoId \notin Ids \cup Intents /\ Ids \cap Intents = {}
ASSUME CapacityAssumption == Mib \in Nat \ {0} /\ MaxMib \in Nat
ASSUME TimeAssumption ==
    /\ {LifetimeMs, LeaseMs, AttemptMs} \subseteq Nat \ {0}
    /\ {DispatchMs, TransitMs} \subseteq Nat
    /\ LifetimeMs < LeaseMs
    /\ AttemptMs < LeaseMs
    /\ DispatchMs < LifetimeMs
    /\ {CallsUntil, MaxClock, MaxFaults} \subseteq Nat

VARIABLES
    clock,      \* wall clock shared by the Hand processes and the provider
    row,        \* the registry table: key -> durable target record
    reserved,   \* reserved_mib of the plane's capacity item
    vm,         \* the provider: client token -> microVM
    late,       \* RunMicrovm calls whose caller no longer waits for them
    caller,     \* the local state of each call
    faults      \* crashes and storage errors so far

vars == <<clock, row, reserved, vm, late, caller, faults>>

-----------------------------------------------------------------------------
(* Records *)

Generations == Ids \cup Intents

Row == [state : {"none", "materializing", "installed", "lost", "terminated"},
        id : Ids \cup {NoId}, gen : Generations \cup {NoId},
        attempt : Ids \cup {NoId}, attemptExpires : Nat,
        start : Nat, seal : Nat]

NoRow == [state |-> "none", id |-> NoId, gen |-> NoId, attempt |-> NoId,
          attemptExpires |-> 0, start |-> 0, seal |-> 0]

\* The deadlines of a lease are all computed from the now_ms of the request
\* that reserved it, kept here as start; seal is the start that the sealed
\* launch request was minted for.
LeaseExpires(l) == l.start + LeaseMs
TargetExpires(l) == l.start + LifetimeMs
DispatchDeadline(l) == l.start + DispatchMs

Vm == [state : {"none", "live", "terminating", "dead"}, dies : Nat]
DeadVm == [state |-> "dead", dies |-> 0]
NoVm == [state |-> "none", dies |-> 0]

Call == [pc : {"idle", "acquire", "launch", "run", "install", "cleanup",
               "refund", "confirm", "mark", "listed", "purge_terminal"},
         op : {"none", "ensure", "lost", "terminate", "purge"},
         key : Keys, id : Ids \cup {NoId}, gen : Generations \cup {NoId},
         attempt : Ids \cup {NoId}, start : Nat, seal : Nat,
         recovery : BOOLEAN, until : Nat]

\* What a call still holds once its lease has become a physical target, or
\* once all that is left to do is to refund it.
Holding(pc, op, k, i, g, a) ==
    [pc |-> pc, op |-> op, key |-> k, id |-> i, gen |-> g, attempt |-> a,
     start |-> 0, seal |-> 0, recovery |-> FALSE, until |-> 0]

Idle == Holding("idle", "none", CHOOSE k \in Keys : TRUE, NoId, NoId, NoId)

Charged(k) == row[k].state \in {"materializing", "installed"}
Alive(i) == vm[i].state \in {"live", "terminating"}

\* random_identifier never returns an identifier that anything still names.
Fresh(i) ==
    /\ \A k \in Keys : i \notin {row[k].id, row[k].gen, row[k].attempt}
    /\ \A c \in Callers : i \notin {caller[c].id, caller[c].gen, caller[c].attempt}
    /\ \A run \in late : run.id # i
    /\ ~Alive(i)

Return(c) == caller' = [caller EXCEPT ![c] = Idle]
GoTo(c, pc) == caller' = [caller EXCEPT ![c].pc = pc]
Hold(c, pc) == LET m == caller[c] IN
    caller' = [caller EXCEPT ![c] = Holding(pc, m.op, m.key, m.id, m.gen, NoId)]
Refund(c) == LET m == caller[c] IN
    caller' = [caller EXCEPT ![c] = Holding("refund", m.op, m.key, m.id, m.gen, m.attempt)]
HoldRow(c, pc, op, k) ==
    caller' = [caller EXCEPT ![c] = Holding(pc, op, k, row[k].id, row[k].gen, NoId)]

-----------------------------------------------------------------------------
(* Materialization: AwsHand::materialize and TargetMaterializer::ensure *)

\* materialize captures now_ms, mints the identifiers and seals the launch
\* request; a lazy request mints its generation too, an explicit one carries
\* the caller's intent.  Only a default target is materialized lazily.
Materialize(c, k, i, g) ==
    /\ caller[c].pc = "idle" /\ clock <= CallsUntil /\ Fresh(i)
    /\ g \in Intents \/ (g = i /\ k \in DefaultKeys)
    /\ caller' = [caller EXCEPT ![c] =
           [pc |-> "acquire", op |-> "ensure", key |-> k, id |-> i, gen |-> g,
            attempt |-> i, start |-> clock, seal |-> clock,
            recovery |-> FALSE, until |-> 0]]
    /\ vm' = [vm EXCEPT ![i] = NoVm]
    /\ UNCHANGED <<clock, row, reserved, late, faults>>

Fenced(m) == m.op = "purge" \/ m.gen \in Intents

\* Mutant: an additional target may be replaced after loss too.
ReplaceAfterLoss_AnyKey(m) == m.op = "ensure"

ReplaceAfterLoss(m) == m.op = "ensure" /\ m.key \in DefaultKeys

\* acquire refuses a row of another generation before it looks at its state.
FenceAdmits(m, r) ==
    \/ ~Fenced(m) \/ r.gen = m.gen
    \/ ReplaceAfterLoss(m) /\ r.state = "lost"

MaterializingRow(m) ==
    [state |-> "materializing", id |-> m.id, gen |-> m.gen, attempt |-> m.attempt,
     attemptExpires |-> m.start + AttemptMs, start |-> m.start, seal |-> m.seal]

CapacityAdd == reserved + Mib <= MaxMib /\ reserved' = reserved + Mib
CapacitySubtract == reserved >= Mib /\ reserved' = reserved - Mib

\* Acquired with a fresh lease: ensure goes on to launch; a purge, which only
\* meant to recover a row that is gone by now, removes the reservation again.
AcquiredFresh(c) == IF caller[c].op = "purge" THEN Refund(c) ELSE GoTo(c, "launch")

AcquireAbsent(c) ==
    LET m == caller[c] IN
    /\ m.pc = "acquire" /\ row[m.key].state = "none"
    /\ CapacityAdd
    /\ row' = [row EXCEPT ![m.key] = MaterializingRow(m)]
    /\ AcquiredFresh(c)
    /\ UNCHANGED <<clock, vm, late, faults>>

\* Mutant: taking over an expired reservation charges the plane once more.
AcquireExpired_ChargesAgain(c) ==
    LET m == caller[c]  r == row[m.key] IN
    /\ m.pc = "acquire" /\ r.state = "materializing" /\ FenceAdmits(m, r)
    /\ LeaseExpires(r) <= m.start
    /\ row' = [row EXCEPT ![m.key] = MaterializingRow(m)]
    /\ reserved' = reserved + Mib
    /\ AcquiredFresh(c)
    /\ UNCHANGED <<clock, vm, late, faults>>

AcquireExpired(c) ==
    LET m == caller[c]  r == row[m.key] IN
    /\ m.pc = "acquire" /\ r.state = "materializing" /\ FenceAdmits(m, r)
    /\ LeaseExpires(r) <= m.start
    /\ row' = [row EXCEPT ![m.key] = MaterializingRow(m)]
    /\ AcquiredFresh(c)
    /\ UNCHANGED <<clock, reserved, vm, late, faults>>

AcquireLost(c) ==
    LET m == caller[c]  r == row[m.key] IN
    /\ m.pc = "acquire" /\ r.state = "lost" /\ FenceAdmits(m, r)
    /\ ReplaceAfterLoss(m)
    /\ CapacityAdd
    /\ row' = [row EXCEPT ![m.key] = MaterializingRow(m)]
    /\ AcquiredFresh(c)
    /\ UNCHANGED <<clock, vm, late, faults>>

AttemptFree(m, r) ==
    /\ LeaseExpires(r) > m.start
    /\ TargetExpires(r) > m.start
    /\ r.attemptExpires <= m.start

\* take_expired_attempt: the caller continues with the durable reservation of
\* an earlier owner, as a recovery attempt.
TakeExpiredAttempt(c) ==
    LET m == caller[c]  r == row[m.key] IN
    /\ m.pc = "acquire" /\ r.state = "materializing" /\ FenceAdmits(m, r)
    /\ AttemptFree(m, r)
    /\ row' = [row EXCEPT ![m.key].attempt = m.attempt,
                          ![m.key].attemptExpires =
                              IF m.start + AttemptMs <= LeaseExpires(r)
                              THEN m.start + AttemptMs ELSE LeaseExpires(r)]
    /\ caller' = [caller EXCEPT ![c].pc = "launch", ![c].id = r.id, ![c].gen = r.gen,
                                ![c].start = r.start, ![c].seal = r.seal,
                                ![c].recovery = TRUE]
    /\ UNCHANGED <<clock, reserved, vm, late, faults>>

\* The target is installed already: ensure is done with it, a purge goes on
\* to terminate it.
AcquireInstalled(c) ==
    LET m == caller[c]  r == row[m.key] IN
    /\ m.pc = "acquire" /\ r.state = "installed" /\ FenceAdmits(m, r)
    /\ IF m.op = "purge"
       THEN HoldRow(c, "confirm", "purge", m.key)
       ELSE Return(c)
    /\ UNCHANGED <<clock, row, reserved, vm, late, faults>>

\* Capacity, SpecConflict, Pending, Gone and Terminated write nothing.
AcquireRefused(c) ==
    LET m == caller[c]  r == row[m.key] IN
    /\ m.pc = "acquire"
    /\ \/ r.state \in {"none", "lost"} /\ reserved + Mib > MaxMib
       \/ r.state # "none" /\ ~FenceAdmits(m, r)
       \/ r.state = "materializing" /\ LeaseExpires(r) > m.start /\ ~AttemptFree(m, r)
       \/ r.state = "lost" /\ ~ReplaceAfterLoss(m)
       \/ r.state = "terminated"
    /\ Return(c)
    /\ UNCHANGED <<clock, row, reserved, vm, late, faults>>

\* launch: decode_launch compares the sealed request with the lease, then
\* admit_provider_dispatch compares the clock with the dispatch deadline.
LaunchAdmitted(c) ==
    LET m == caller[c] IN
    /\ m.pc = "launch" /\ m.seal = m.start /\ clock <= DispatchDeadline(m)
    /\ caller' = [caller EXCEPT ![c].pc = "run", ![c].start = 0, ![c].seal = 0,
                                ![c].until = clock + TransitMs]
    /\ UNCHANGED <<clock, row, reserved, vm, late, faults>>

\* A seal of another lease is OutcomeUnknown: the row stays as it is.  After
\* the deadline a first attempt knows that there is no target and refunds, a
\* recovery attempt does not.
LaunchRefused(c) ==
    LET m == caller[c] IN
    /\ m.pc = "launch" /\ (m.seal # m.start \/ clock > DispatchDeadline(m))
    /\ IF m.seal # m.start \/ m.recovery THEN Return(c) ELSE Refund(c)
    /\ UNCHANGED <<clock, row, reserved, vm, late, faults>>

\* RunMicrovm at the provider, idempotent in the client token.
ProviderRun(i) ==
    vm' = IF vm[i].state = "none"
          THEN [vm EXCEPT ![i] = [state |-> "live", dies |-> clock + LifetimeMs]]
          ELSE vm

RunOk(c) ==
    /\ caller[c].pc = "run"
    /\ ProviderRun(caller[c].id)
    /\ Hold(c, "install")
    /\ UNCHANGED <<clock, row, reserved, late, faults>>

\* Capacity, KnownNoTarget and RetryableKnownNoTarget: this call created no
\* microVM.  Only a first attempt may conclude that there is none.
RunRejected(c) ==
    /\ caller[c].pc = "run"
    /\ IF caller[c].recovery THEN Return(c) ELSE Refund(c)
    /\ UNCHANGED <<clock, row, reserved, vm, late, faults>>

\* A call that nobody waits for any more may still reach the provider.
Abandon(c) ==
    late' = IF caller[c].pc = "run"
            THEN late \cup {[key |-> caller[c].key, id |-> caller[c].id,
                             until |-> caller[c].until]}
            ELSE late

\* OutcomeUnknown (CONTROL_CALL_TIMEOUT or an ambiguous error): row retained.
RunUnknown(c) ==
    /\ caller[c].pc = "run"
    /\ Abandon(c) /\ Return(c)
    /\ UNCHANGED <<clock, row, reserved, vm, faults>>

InstalledRow(m, start) ==
    [state |-> "installed", id |-> m.id, gen |-> m.gen, attempt |-> NoId,
     attemptExpires |-> 0, start |-> start, seal |-> 0]

\* Mutant: a failed install condition is not re-read.
Install_NoReread(c) ==
    LET m == caller[c]  r == row[m.key]
        mine == r.state = "materializing" /\ r.id = m.id /\ r.gen = m.gen
    IN
    /\ m.pc = "install"
    /\ row' = IF mine
              THEN [row EXCEPT ![m.key] = InstalledRow(m, r.start)]
              ELSE row
    /\ IF ~mine THEN Hold(c, "cleanup")
       ELSE IF m.op = "purge" THEN Hold(c, "confirm") ELSE Return(c)
    /\ UNCHANGED <<clock, reserved, vm, late, faults>>

\* install: conditional on reservation and generation, not on the attempt; a
\* failed condition re-reads the row and accepts the exact same target.
Install(c) ==
    LET m == caller[c]  r == row[m.key]
        mine == r.state = "materializing" /\ r.id = m.id /\ r.gen = m.gen
        exact == r.state = "installed" /\ r.id = m.id /\ r.gen = m.gen
    IN
    /\ m.pc = "install"
    /\ row' = IF mine
              THEN [row EXCEPT ![m.key] = InstalledRow(m, r.start)]
              ELSE row
    /\ IF ~mine /\ ~exact THEN Hold(c, "cleanup")
       ELSE IF m.op = "purge" THEN Hold(c, "confirm") ELSE Return(c)
    /\ UNCHANGED <<clock, reserved, vm, late, faults>>

\* The provider accepts TerminateMicrovm: the microVM is gone at once or
\* stays terminating for a while; or the call fails and changes nothing.
Terminate(i) ==
    IF vm[i].state = "live"
    THEN \E v \in {vm[i], [vm[i] EXCEPT !.state = "terminating"], DeadVm} :
            vm' = [vm EXCEPT ![i] = v]
    ELSE vm' = vm

\* ReservationLost: terminate_stale, whose failure is only reported.
TerminateStale(c) ==
    /\ caller[c].pc = "cleanup"
    /\ Terminate(caller[c].id)
    /\ Return(c)
    /\ UNCHANGED <<clock, row, reserved, late, faults>>

\* Mutant: the refund is not fenced by the attempt.
ExpireLease_AnyAttempt(c) ==
    LET m == caller[c]  r == row[m.key] IN
    /\ m.pc = "refund"
    /\ IF r.state = "materializing" /\ r.id = m.id /\ r.gen = m.gen
       THEN CapacitySubtract /\ row' = [row EXCEPT ![m.key] = NoRow]
       ELSE UNCHANGED <<row, reserved>>
    /\ Return(c)
    /\ UNCHANGED <<clock, vm, late, faults>>

\* expire_lease: delete and refund in one transaction, conditional on the
\* exact attempt; any other row is left alone.
ExpireLease(c) ==
    LET m == caller[c]  r == row[m.key]
        exact == /\ r.state = "materializing" /\ r.id = m.id
                 /\ r.gen = m.gen /\ r.attempt = m.attempt
    IN
    /\ m.pc = "refund"
    /\ IF exact
       THEN CapacitySubtract /\ row' = [row EXCEPT ![m.key] = NoRow]
       ELSE UNCHANGED <<row, reserved>>
    /\ Return(c)
    /\ UNCHANGED <<clock, vm, late, faults>>

-----------------------------------------------------------------------------
(* Closing an installed target *)

Installed(r) == r.state = "installed"

\* status, resolve_target and settle_guest_result: an installed target that
\* is past its hard deadline or whose endpoint is lost is to be recorded Lost.
LoseTarget(c, k) ==
    /\ caller[c].pc = "idle" /\ clock <= CallsUntil /\ Installed(row[k])
    /\ HoldRow(c, "confirm", "lost", k)
    /\ UNCHANGED <<clock, row, reserved, vm, late, faults>>

\* terminate and dematerialize_default resolve the target first, which sends
\* an expired one down the path above.
TerminateTarget(c, k) ==
    /\ caller[c].pc = "idle" /\ clock <= CallsUntil /\ Installed(row[k])
    /\ clock < TargetExpires(row[k])
    /\ HoldRow(c, "confirm", "terminate", k)
    /\ UNCHANGED <<clock, row, reserved, vm, late, faults>>

\* confirm_provider_termination: only an absent microVM closes the accounting
\* fence; a terminating one, or a live one that the terminate call did not
\* remove at once, makes the call fail.
ConfirmTermination(c) ==
    LET i == caller[c].id IN
    /\ caller[c].pc = "confirm"
    /\ Terminate(i)
    /\ IF vm'[i].state \in {"none", "dead"} THEN Hold(c, "mark") ELSE Return(c)
    /\ UNCHANGED <<clock, row, reserved, late, faults>>

Disposition(m) == IF m.op = "lost" THEN "lost" ELSE "terminated"

ClosedRow(m) ==
    [state |-> Disposition(m), id |-> NoId, gen |-> m.gen, attempt |-> NoId,
     attemptExpires |-> 0, start |-> 0, seal |-> 0]

\* mark_closed: conditional on the exact installed target; a row that is
\* closed with the same disposition already counts as done.
MarkClosed(c) ==
    LET m == caller[c]  r == row[m.key]
        exact == Installed(r) /\ r.id = m.id /\ r.gen = m.gen
        done == r.state = Disposition(m) /\ r.gen = m.gen
    IN
    /\ m.pc = "mark"
    /\ IF exact
       THEN /\ CapacitySubtract
            /\ row' = [row EXCEPT ![m.key] = ClosedRow(m)]
       ELSE UNCHANGED <<row, reserved>>
    /\ IF m.op = "purge" /\ (exact \/ done)
       THEN Hold(c, "purge_terminal") ELSE Return(c)
    /\ UNCHANGED <<clock, vm, late, faults>>

-----------------------------------------------------------------------------
(* Root purge: purge_one_target and recover_materializing *)

\* purge_tree lists the row and decides by its state as it was listed.
PurgeList(c, k) ==
    LET r == row[k] IN
    /\ caller[c].pc = "idle" /\ c \in Purgers
    /\ \/ /\ r.state = "installed"
          /\ HoldRow(c, "confirm", "purge", k)
       \/ /\ r.state \in {"lost", "terminated"}
          /\ HoldRow(c, "purge_terminal", "purge", k)
       \/ /\ r.state = "materializing"
          /\ caller' = [caller EXCEPT ![c] =
                 [pc |-> "listed", op |-> "purge", key |-> k, id |-> r.id,
                  gen |-> r.gen, attempt |-> r.attempt, start |-> r.start,
                  seal |-> r.seal, recovery |-> TRUE, until |-> r.attemptExpires]]
    /\ UNCHANGED <<clock, row, reserved, vm, late, faults>>

\* Mutant: a purge leaves an expired lease to somebody else.
PurgeExpired_Skips(c) ==
    LET m == caller[c] IN
    /\ m.pc = "listed" /\ LeaseExpires(m) <= clock
    /\ Return(c)
    /\ UNCHANGED <<clock, row, reserved, vm, late, faults>>

\* An expired lease is refunded under the listed attempt; a target past its
\* lifetime or an attempt that is still owned is left for a later purge.
PurgeExpired(c) ==
    LET m == caller[c] IN
    /\ m.pc = "listed" /\ LeaseExpires(m) <= clock
    /\ Refund(c)
    /\ UNCHANGED <<clock, row, reserved, vm, late, faults>>

PurgeUnresolved(c) ==
    LET m == caller[c] IN
    /\ m.pc = "listed" /\ LeaseExpires(m) > clock
    /\ TargetExpires(m) <= clock \/ m.until > clock
    /\ Return(c)
    /\ UNCHANGED <<clock, row, reserved, vm, late, faults>>

\* recovery_request: the listed reservation under a new attempt id; the lease
\* it would reserve if the row is gone starts now, with the old seal.
PurgeRecover(c, a) ==
    LET m == caller[c] IN
    /\ m.pc = "listed" /\ TargetExpires(m) > clock /\ m.until <= clock /\ Fresh(a)
    /\ caller' = [caller EXCEPT ![c].pc = "acquire", ![c].attempt = a,
                                ![c].start = clock, ![c].recovery = FALSE,
                                ![c].until = 0]
    /\ vm' = [vm EXCEPT ![a] = NoVm]
    /\ UNCHANGED <<clock, row, reserved, late, faults>>

\* purge_terminal: a tombstone of the listed generation is deleted; its
\* capacity was refunded when it was closed.
PurgeTerminal(c) ==
    LET m == caller[c]  r == row[m.key] IN
    /\ m.pc = "purge_terminal"
    /\ row' = IF r.state \in {"lost", "terminated"} /\ r.gen = m.gen
              THEN [row EXCEPT ![m.key] = NoRow] ELSE row
    /\ Return(c)
    /\ UNCHANGED <<clock, reserved, vm, late, faults>>

-----------------------------------------------------------------------------
(* Environment *)

\* The process dies, or storage fails: the call ends and keeps nothing.
Fault(c) ==
    /\ caller[c].pc # "idle" /\ faults < MaxFaults
    /\ faults' = faults + 1
    /\ Abandon(c) /\ Return(c)
    /\ UNCHANGED <<clock, row, reserved, vm>>

LateRun(run) ==
    /\ ProviderRun(run.id)
    /\ late' = late \ {run}
    /\ UNCHANGED <<clock, row, reserved, caller, faults>>

LateRunLost(run) ==
    /\ late' = late \ {run}
    /\ UNCHANGED <<clock, row, reserved, vm, caller, faults>>

\* A microVM stops on its own, or finishes terminating.
VmStops(i) ==
    /\ Alive(i)
    /\ vm' = [vm EXCEPT ![i] = DeadVm]
    /\ UNCHANGED <<clock, row, reserved, late, caller, faults>>

\* Time passes; the provider enforces maximum_duration_in_seconds, and a
\* dispatched call has its effect within TransitMs of its admission.
Tick ==
    /\ clock < MaxClock
    /\ \A c \in Callers : caller[c].pc = "run" => clock < caller[c].until
    /\ \A run \in late : clock < run.until
    /\ clock' = clock + 1
    /\ vm' = [i \in Ids |-> IF Alive(i) /\ vm[i].dies <= clock + 1
                            THEN DeadVm ELSE vm[i]]
    /\ UNCHANGED <<row, reserved, late, caller, faults>>

Acquire(c) ==
    \/ AcquireAbsent(c) \/ AcquireExpired(c) \/ AcquireLost(c)
    \/ TakeExpiredAttempt(c) \/ AcquireInstalled(c) \/ AcquireRefused(c)
Launch(c) == LaunchAdmitted(c) \/ LaunchRefused(c)
Run(c) == RunOk(c) \/ RunRejected(c) \/ RunUnknown(c)
PurgeDecide(c) ==
    PurgeExpired(c) \/ PurgeUnresolved(c) \/ \E a \in Ids : PurgeRecover(c, a)

Continue(c) ==
    \/ Acquire(c) \/ Launch(c) \/ Run(c) \/ Install(c) \/ TerminateStale(c)
    \/ ExpireLease(c) \/ ConfirmTermination(c) \/ MarkClosed(c)
    \/ PurgeDecide(c) \/ PurgeTerminal(c)

Start(c) == \E k \in Keys :
    \/ \E i \in Ids, g \in Generations : Materialize(c, k, i, g)
    \/ LoseTarget(c, k) \/ TerminateTarget(c, k) \/ PurgeList(c, k)

Environment ==
    \/ \E c \in Callers : Fault(c)
    \/ \E run \in late : LateRun(run) \/ LateRunLost(run)
    \/ \E i \in Ids : VmStops(i)
    \/ Tick

Next == Environment \/ \E c \in Callers : Start(c) \/ Continue(c)

Init ==
    /\ clock = 0
    /\ row = [k \in Keys |-> NoRow]
    /\ reserved = 0
    /\ vm = [i \in Ids |-> NoVm]
    /\ late = {}
    /\ caller = [c \in Callers |-> Idle]
    /\ faults = 0

Spec == Init /\ [][Next]_vars

\* Every call runs to its end, time passes, and Brain repeats an incomplete
\* purge of a root for as long as it has a row.
Fairness ==
    /\ \A c \in Callers : WF_vars(Continue(c))
    /\ \A k \in Keys : SF_vars(\E c \in Callers : PurgeList(c, k))
    /\ WF_vars(\E run \in late : LateRun(run) \/ LateRunLost(run))
    /\ SF_vars(Tick)

FairSpec == Spec /\ Fairness

-----------------------------------------------------------------------------
(* Properties *)

\* The type invariant: every variable keeps its shape; in particular the
\* capacity counter of the plane never goes below zero.
TypeOK ==
    /\ clock \in Nat
    /\ row \in [Keys -> Row]
    /\ reserved \in Nat
    /\ vm \in [Ids -> Vm]
    /\ late \subseteq [key : Keys, id : Ids, until : Nat]
    /\ caller \in [Callers -> Call]
    /\ faults \in Nat

ChargedKeys == {k \in Keys : Charged(k)}

\* "acquire charges spec.materialized_mib ... and exactly one of expire_lease
\* or mark_closed refunds it" (materialization/port.rs): whatever crashed,
\* raced or was retried, the capacity item holds exactly the memory of the
\* materializing and installed rows and never exceeds the plane's allocation.
CapacityIsExact ==
    /\ reserved = Mib * Cardinality(ChargedKeys)
    /\ reserved <= MaxMib

\* No microVM that still occupies provider memory is without a charged row
\* that names it: a reservation is deleted, replaced or closed only after the
\* microVM it may have started can no longer exist, even if the process that
\* started it crashed, timed out or was overtaken ("Reclaiming a shorter lease
\* could launch two physical VMs while charging the registry for one").
LiveTargetsAreCharged ==
    \A i \in Ids : Alive(i) => \E k \in Keys : Charged(k) /\ row[k].id = i

\* A caller whose install lost its reservation terminates the microVM it got
\* (terminate_stale); that microVM is never the one another caller installed
\* and routes operations to.
CleanupSparesInstalled ==
    \A c \in Callers, k \in Keys :
        caller[c].pc = "cleanup" /\ Installed(row[k]) /\ row[k].id = caller[c].id
            => vm[row[k].id].state # "live"

\* A terminated target, and an additional target that was lost, keeps its
\* tombstone until a root purge deletes the row: no retry, recovery attempt or
\* late caller ever brings that key back to life before.
Tombstoned(k) == \/ row[k].state = "terminated"
                 \/ row[k].state = "lost" /\ k \notin DefaultKeys
TombstonesHold ==
    [][\A k \in Keys : Tombstoned(k) => row'[k] \in {row[k], NoRow}]_vars

\* Once no new work arrives, repeated purges remove every row of the root,
\* also the reservations whose owners crashed with an unknown launch outcome,
\* and so give back all capacity ("bounded purge will retry").
PurgeConverges == <>[](reserved = 0 /\ \A k \in Keys : row[k] = NoRow)
=============================================================================
