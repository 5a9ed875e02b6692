----------------------------- MODULE LaunchPacing -----------------------------
(***************************************************************************)
(* Pacing of RunMicrovm (hand-lambda/control.rs): the token bucket that    *)
(* spaces provider calls of one Hand process, the throttle retries around  *)
(* it, and the dispatch admission of the launcher                          *)
(* (hand-brain-aws/launcher.rs) that precedes both.                        *)
(***************************************************************************)
EXTENDS Integers, Sequences

CONSTANTS
    Launches,       \* launch calls of one process
    Interval,       \* TokenBucket.interval
    Burst,          \* TokenBucket.burst
    DispatchMs,     \* TARGET_DISPATCH_WINDOW_MS
    MaxAttempts,    \* MAX_ATTEMPTS of paced
    MaxBackoff,     \* largest jittered_throttle_backoff
    MaxClock        \* bound on the clock

\* A bucket has a positive interval and burst (debug_assert! in TokenBucket::new).
Parameters ==
    /\ {Interval, Burst, MaxAttempts} \subseteq Nat \ {0}
    /\ {DispatchMs, MaxBackoff, MaxClock} \subseteq Nat

ASSUME PacingAssumption == Parameters

VARIABLES
    now,            \* the monotonic clock
    arrival,        \* theoretical_arrival, None being <<>>
    launch,         \* the local state of each launch
    grants          \* history: the instants the bucket has granted, in order

vars == <<now, arrival, launch, grants>>

-----------------------------------------------------------------------------
(* TokenBucket::reserve *)

Larger(a, b) == IF a >= b THEN a ELSE b
Prior == IF arrival = <<>> THEN now ELSE arrival[1]
Tolerance == Interval * (Burst - 1)

\* Mutant: one more call than the burst is let through at once.
AdmittedAt_OneMore == Larger(Prior - Interval * Burst, now)

AdmittedAt == Larger(Prior - Tolerance, now)

Reserve ==
    /\ arrival' = <<Larger(Prior, AdmittedAt) + Interval>>
    /\ grants' = Append(grants, AdmittedAt)

-----------------------------------------------------------------------------
(* launch, run_exact and paced *)

Launch == [pc : {"idle", "launch", "wait", "backoff", "done"},
           deadline : Nat, at : Nat, attempt : Nat]
Launching(pc, d, t, n) == [pc |-> pc, deadline |-> d, at |-> t, attempt |-> n]

\* The reservation fixes the dispatch deadline that is sealed into the row.
Start(l) ==
    /\ launch[l].pc = "idle"
    /\ launch' = [launch EXCEPT ![l] = Launching("launch", now + DispatchMs, 0, 0)]
    /\ UNCHANGED <<now, arrival, grants>>

\* admit_provider_dispatch, then the first gate.acquire() of paced.
Admit(l) ==
    /\ launch[l].pc = "launch" /\ now <= launch[l].deadline
    /\ Reserve
    /\ launch' = [launch EXCEPT ![l] = Launching("wait", @.deadline, AdmittedAt, 1)]
    /\ UNCHANGED now

AdmitRefused(l) ==
    /\ launch[l].pc = "launch" /\ now > launch[l].deadline
    /\ launch' = [launch EXCEPT ![l] = Launching("done", 0, 0, 0)]
    /\ UNCHANGED <<now, arrival, grants>>

\* The delay is over and RunMicrovm is sent.  It is answered, or throttled
\* and sent again after a backoff, unless this was the last attempt.
MaySend(l) == launch[l].pc = "wait" /\ launch[l].at <= now

SendAnswered(l) ==
    /\ MaySend(l)
    /\ launch' = [launch EXCEPT ![l] = Launching("done", 0, 0, 0)]
    /\ UNCHANGED <<now, arrival, grants>>

SendThrottled(l, b) ==
    /\ MaySend(l) /\ launch[l].attempt < MaxAttempts
    /\ launch' = [launch EXCEPT ![l] = Launching("backoff", @.deadline, now + b, @.attempt)]
    /\ UNCHANGED <<now, arrival, grants>>

\* Every retry takes a grant of its own.
Retry(l) ==
    /\ launch[l].pc = "backoff" /\ launch[l].at <= now
    /\ Reserve
    /\ launch' = [launch EXCEPT ![l] = Launching("wait", @.deadline, AdmittedAt, @.attempt + 1)]
    /\ UNCHANGED now

Tick ==
    /\ now < MaxClock
    /\ now' = now + 1
    /\ UNCHANGED <<arrival, launch, grants>>

Next ==
    \/ \E l \in Launches :
        \/ Start(l) \/ Admit(l) \/ AdmitRefused(l) \/ SendAnswered(l) \/ Retry(l)
        \/ \E b \in 0..MaxBackoff : SendThrottled(l, b)
    \/ Tick

Init ==
    /\ now = 0 /\ arrival = <<>> /\ grants = <<>>
    /\ launch = [l \in Launches |-> Launching("idle", 0, 0, 0)]

Spec == Init /\ [][Next]_vars

-----------------------------------------------------------------------------
(* Properties *)

\* The type invariant: every variable keeps its shape.
TypeOK ==
    /\ now \in Nat
    /\ arrival \in Seq(Int) /\ Len(arrival) <= 1
    /\ launch \in [Launches -> Launch]
    /\ grants \in Seq(Nat)

\* The calls of one process, retries included, stay within the provider's
\* quota: among the instants that TokenBucket::reserve grants, any Burst + n
\* consecutive ones span at least n intervals.
WithinRate ==
    \A i, j \in 1..Len(grants) :
        i < j => grants[j] >= grants[i] + Interval * (j - i - Burst + 1)
=============================================================================
