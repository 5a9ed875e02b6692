---------------------------- MODULE SubmitRouting ----------------------------
(***************************************************************************)
(* How the adapter carries a managed operation to the default target of    *)
(* its root (hand-brain-aws: hand.rs, ports/execution.rs, client.rs and    *)
(* errors.rs): routing, installation of the binding and of the session's   *)
(* secrets, the two-attempt ladder of every guest request, the submit RPC, *)
(* and the retirement of a generation whose endpoint is lost.  Several     *)
(* operations of one session run at once; requests and replies are lost,   *)
(* supervisors and machines die, and the control process restarts with     *)
(* empty caches.  Acquiring a target is one step here (Materialization has *)
(* its transactions), and so is what the guest does with a request         *)
(* (GuestOperations, GuestInstall).  Brain is external: it repeats a       *)
(* submission without a receipt until the answer says the outcome is       *)
(* unknown, and then dematerializes the target.                            *)
(***************************************************************************)
EXTENDS Integers, FiniteSets

CONSTANTS
    Ops,         \* operations of one prepared session
    BindingOf,   \* the binding of an operation
    NeedsEnv,    \* bindings that require environment
    MaxGens,     \* bound: generations
    MaxCaps,     \* bound: secret capabilities issued
    MaxFaults,   \* bound: lost requests and replies, dead supervisors and machines
    MaxRestarts, \* bound: restarts of the control process
    None

Gens == 1..MaxGens
Bindings == {BindingOf[o] : o \in Ops}
Artifacts == Bindings \cup {"secrets"}

ASSUME SubmitAssumption ==
    /\ MaxGens \in Nat /\ MaxCaps \in Nat
    /\ None \notin Gens /\ None \notin 1..MaxCaps /\ None \notin Ops

VARIABLES
    row,      \* the default target's row: [state, gen]
    vm,       \* [Gens -> "absent", "running", "terminating" or "terminated"]
    sup,      \* generations whose supervisor answers
    expired,  \* generations past their hard deadline
    held,     \* [Gens -> artifacts the guest holds]
    effects,  \* ghost: [Ops -> generations in which the effect started]
    session,  \* the preparation is cached
    cap,      \* the capability of the cached preparation, or None
    issued,   \* capabilities issued so far
    redeemed, \* ghost: [<<capability, generation>> -> times redeemed]
    prepared, \* [Gens -> artifacts recorded as installed]: prepared_targets
    cached,   \* generations with a cached endpoint
    guard,    \* [Gens -> None or holder]: the secret lock of (target, session)
    brain,    \* [Ops -> "intent", "receipt" or "unknown"]
    known,    \* None or the generation of Brain's latest receipt
    call,     \* [Ops -> [at, gen, est, attempt, saw, cap, why, out]]
    faults, restarts

provider == <<vm, sup, expired>>
guest == <<held, effects>>
secret == <<session, cap, issued, redeemed, guard>>
vars == <<row, provider, guest, secret, prepared, cached, brain, known, call, faults, restarts>>

Idle == [at |-> "idle", gen |-> None, est |-> FALSE, attempt |-> 0, saw |-> FALSE, cap |-> None,
         why |-> "lost", out |-> "none"]

\* Nothing is installed, and the control process has just started.
Started ==
    /\ row = [state |-> "none", gen |-> 0]
    /\ vm = [g \in Gens |-> "absent"] /\ sup = {} /\ expired = {}
    /\ held = [g \in Gens |-> {}] /\ effects = [o \in Ops |-> {}]
    /\ session = FALSE /\ cap = None /\ redeemed = [k \in (1..MaxCaps) \X Gens |-> 0]
    /\ prepared = [g \in Gens |-> {}] /\ cached = {} /\ guard = [g \in Gens |-> None]
    /\ brain = [o \in Ops |-> "intent"] /\ known = None
    /\ call = [o \in Ops |-> Idle] /\ restarts = 0

Init == Started /\ issued = 0 /\ faults = 0

At(o) == call[o].at
Gen(o) == call[o].gen
Go(o, at) == call' = [call EXCEPT ![o].at = at, ![o].attempt = 0, ![o].saw = FALSE]
Unlock(o) == guard' = [g \in Gens |-> IF guard[g] = o THEN None ELSE guard[g]]

\* The answer reaches Brain, which keeps an intent, forgets a lost target or records the outcome.
Return(o, out) ==
    /\ call' = [call EXCEPT ![o].at = "idle", ![o].out = out, ![o].why = "lost"]
    /\ brain' = [brain EXCEPT ![o] = IF out \in {"receipt", "unknown"} THEN out ELSE @]
    /\ known' = CASE out = "receipt" -> Gen(o) [] out = "gone" -> None [] OTHER -> known
    /\ Unlock(o)
Stay == UNCHANGED <<brain, known, guard>>

-----------------------------------------------------------------------------
(* Routing *)

\* Brain prepares the session, with a fresh capability, when it has to.
Prepare ==
    /\ ~session \/ cap = None
    /\ issued < MaxCaps
    /\ session' = TRUE /\ issued' = issued + 1 /\ cap' = issued'
    /\ UNCHANGED <<row, provider, guest, redeemed, guard, prepared, cached, brain, known, call, faults, restarts>>

Route(o, g, established) ==
    call' = [call EXCEPT ![o] = [Idle EXCEPT !.gen = g, !.est = established,
                                    !.at = IF BindingOf[o] \in prepared[g] THEN "guard" ELSE "bundle"]]

Acquired ==
    /\ row.gen < MaxGens
    /\ row' = [state |-> "installed", gen |-> row.gen + 1]
    /\ vm' = [vm EXCEPT ![row.gen + 1] = "running"] /\ sup' = sup \cup {row.gen + 1}
    /\ UNCHANGED expired

\* An intent without a receipt: an installed target is used, a lost one replaced, and a
\* terminated one refused.
SubmitLazy(o) ==
    /\ At(o) = "idle" /\ brain[o] = "intent" /\ session
    /\ CASE row.state = "installed" -> Route(o, row.gen, FALSE) /\ UNCHANGED <<row, provider>>
         [] row.state \in {"none", "lost"} -> Acquired /\ Route(o, row.gen + 1, FALSE)
         [] OTHER -> FALSE
    /\ Stay
    /\ UNCHANGED <<guest, session, cap, issued, redeemed, prepared, cached, faults, restarts>>

\* resolve_target: a row that is not installed with the expected generation is refused, and an
\* expired one retired.
Resolve(o, g, at) ==
    IF row # [state |-> "installed", gen |-> g]
    THEN Return(o, IF row.state = "installed" THEN "conflict" ELSE "gone")
    ELSE /\ IF g \in expired
            THEN call' = [call EXCEPT ![o] = [Idle EXCEPT !.gen = g, !.at = "retire", !.est = at = "route"]]
            ELSE IF at = "route" THEN Route(o, g, TRUE)
            ELSE call' = [call EXCEPT ![o] = [Idle EXCEPT !.gen = g, !.at = at]]
         /\ Stay

\* An intent that names the target of an earlier receipt of the session.
SubmitEstablished(o) ==
    /\ At(o) = "idle" /\ brain[o] = "intent" /\ session /\ known # None
    /\ Resolve(o, known, "route")
    /\ UNCHANGED <<row, provider, guest, session, cap, issued, redeemed, prepared, cached, faults, restarts>>

\* observe, cancel and acknowledge_terminal of an operation with a receipt.
Observe(o) ==
    /\ At(o) = "idle" /\ brain[o] = "receipt"
    /\ Resolve(o, Gen(o), "observe")
    /\ UNCHANGED <<row, provider, guest, session, cap, issued, redeemed, prepared, cached, faults, restarts>>

\* dematerialize_default, which Brain repeats while the outcome of an operation is unknown.
Dematerialize(o) ==
    /\ At(o) = "idle" /\ brain[o] = "unknown" /\ row.state = "installed"
    /\ call' = [call EXCEPT ![o] = [Idle EXCEPT !.gen = row.gen, !.at = "retire",
                                       !.why = IF row.gen \in expired THEN "lost" ELSE "terminated"]]
    /\ Stay
    /\ UNCHANGED <<row, provider, guest, session, cap, issued, redeemed, prepared, cached, faults, restarts>>

\* materialize_default with a generation of its own: only a row that is absent or lost is acquired.
Explicit(o) ==
    /\ At(o) = "idle" /\ brain[o] = "unknown" /\ session /\ row.state # "installed"
    /\ IF row.state = "terminated"
       THEN call' = [call EXCEPT ![o].out = "explicit_conflict"] /\ UNCHANGED <<row, provider>>
       ELSE Acquired /\ call' = [call EXCEPT ![o].out = "explicit_running"]
    /\ Stay
    /\ UNCHANGED <<guest, session, cap, issued, redeemed, prepared, cached, faults, restarts>>

-----------------------------------------------------------------------------
(* install_secrets, from the check of prepared_targets to the redeemed material *)

\* With the lock of (target, session), the capability is read from the cached preparation.
TakeCapability(o) ==
    /\ At(o) = "guard"
    /\ IF BindingOf[o] \notin NeedsEnv \/ "secrets" \in prepared[Gen(o)]
       THEN Go(o, "submit") /\ Stay
       ELSE /\ guard[Gen(o)] = None
            /\ IF session /\ cap # None
               THEN /\ call' = [call EXCEPT ![o].at = "consume", ![o].cap = cap]
                    /\ guard' = [guard EXCEPT ![Gen(o)] = o]
                    /\ UNCHANGED <<brain, known>>
               ELSE Return(o, "capability_unavailable")
    /\ UNCHANGED <<row, provider, guest, session, cap, issued, redeemed, prepared, cached, faults, restarts>>

\* The bearer leaves the cache before the callback is invoked.
Consume(o) ==
    /\ At(o) = "consume" /\ Go(o, "redeem")
    /\ cap' = IF cap = call[o].cap THEN None ELSE cap
    /\ UNCHANGED <<row, provider, guest, session, issued, redeemed, guard, prepared, cached, brain, known, faults, restarts>>

Redeem(o) ==
    /\ At(o) = "redeem"
    /\ redeemed' = [redeemed EXCEPT ![<<call[o].cap, Gen(o)>>] = @ + 1]
    /\ \/ Go(o, "secrets") /\ Stay /\ UNCHANGED faults
       \/ faults < MaxFaults /\ faults' = faults + 1 /\ Return(o, "temporary")
    /\ UNCHANGED <<row, provider, guest, session, cap, issued, prepared, cached, restarts>>

-----------------------------------------------------------------------------
(* One guest request: the ladder of rpc and endpoint_request *)

Wire == {"bundle", "binding", "secrets", "submit", "observe"}
Reachable(g) == vm[g] = "running" /\ g \in sup
Needed(o) == {BindingOf[o]} \cup (IF BindingOf[o] \in NeedsEnv THEN {"secrets"} ELSE {})

\* What the guest does with a delivered request.
Applied(o) ==
    /\ held' = [held EXCEPT ![Gen(o)] = @ \cup (CASE At(o) = "binding" -> {BindingOf[o]}
                                                  [] At(o) = "secrets" -> {"secrets"} [] OTHER -> {})]
    /\ effects' = [effects EXCEPT ![o] =
                      @ \cup (IF At(o) = "submit" /\ Needed(o) \subseteq held[Gen(o)] THEN {Gen(o)} ELSE {})]

\* Mutant: a binding counts as prepared once its bundle is installed.
Recorded_WithBundle(o) ==
    prepared' = [prepared EXCEPT ![Gen(o)] = @ \cup (CASE At(o) \in {"bundle", "binding"} -> {BindingOf[o]}
                                                       [] At(o) = "secrets" -> {"secrets"} [] OTHER -> {})]

\* prepared_targets records what the guest acknowledged.
Recorded(o) ==
    prepared' = [prepared EXCEPT ![Gen(o)] = @ \cup (CASE At(o) = "binding" -> {BindingOf[o]}
                                                       [] At(o) = "secrets" -> {"secrets"} [] OTHER -> {})]

Answered(o) ==
    /\ At(o) \in Wire /\ Reachable(Gen(o))
    /\ Applied(o) /\ Recorded(o) /\ cached' = cached \cup {Gen(o)}
    /\ CASE At(o) = "bundle"  -> Go(o, "binding") /\ Stay
         [] At(o) = "binding" -> Go(o, "guard") /\ Stay
         [] At(o) = "secrets" -> Go(o, "submit") /\ Unlock(o) /\ UNCHANGED <<brain, known>>
         [] At(o) = "submit"  -> Return(o, IF Needed(o) \subseteq held[Gen(o)] THEN "receipt" ELSE "refused")
         [] At(o) = "observe" -> Return(o, "observed")
    /\ UNCHANGED <<row, provider, session, cap, issued, redeemed, faults, restarts>>

\* Mutant: a submission without a receipt retires the generation.
Gone_Retires(o) ==
    /\ call' = [call EXCEPT ![o].at = "retire"]
    /\ Unlock(o) /\ UNCHANGED <<brain, known>>

\* The target is gone: a submission is unknown, and everything else retires the generation
\* (classify_submit_delivery_error, settle_guest_result).
Gone(o) ==
    IF At(o) = "submit" THEN Return(o, "unknown")
    ELSE /\ call' = [call EXCEPT ![o].at = "retire"]
         /\ Unlock(o) /\ UNCHANGED <<brain, known>>

\* A failed attempt: the first forgets the endpoint and is repeated, the second ends the call.
Retry(o) ==
    IF call[o].attempt = 0
    THEN call' = [call EXCEPT ![o].attempt = 1] /\ cached' = cached \ {Gen(o)} /\ Stay
    ELSE Return(o, "temporary") /\ cached' = cached \cup {Gen(o)}

\* The reply is lost after the guest handled the request.
LostReply(o) ==
    /\ At(o) \in Wire /\ Reachable(Gen(o)) /\ faults < MaxFaults
    /\ faults' = faults + 1 /\ Applied(o) /\ Retry(o)
    /\ UNCHANGED <<row, provider, session, cap, issued, redeemed, prepared, restarts>>

\* The request is not delivered: a fault of the network, or a machine that is no longer there
\* behind a cached endpoint.
Unsent(o) ==
    /\ At(o) \in Wire
    /\ IF vm[Gen(o)] = "running"
       THEN faults < MaxFaults /\ faults' = faults + 1
       ELSE Gen(o) \in cached /\ UNCHANGED faults
    /\ Retry(o)
    /\ UNCHANGED <<row, provider, guest, session, cap, issued, redeemed, prepared, restarts>>

\* Mutant: the retry forgets that the supervisor did not answer.
Unavailable_Forgets(o) ==
    /\ At(o) \in Wire /\ vm[Gen(o)] = "running" /\ Gen(o) \notin sup
    /\ Retry(o)
    /\ UNCHANGED <<row, provider, guest, session, cap, issued, redeemed, prepared, faults, restarts>>

\* HTTP 502: the supervisor does not answer; twice in a row it is gone.
Unavailable(o) ==
    /\ At(o) \in Wire /\ vm[Gen(o)] = "running" /\ Gen(o) \notin sup
    /\ IF call[o].attempt = 1 /\ call[o].saw THEN Gone(o) /\ cached' = cached \cup {Gen(o)}
       ELSE IF call[o].attempt = 1 THEN Return(o, "temporary") /\ cached' = cached \cup {Gen(o)}
       ELSE /\ call' = [call EXCEPT ![o].attempt = 1, ![o].saw = TRUE]
            /\ cached' = cached \ {Gen(o)} /\ Stay
    /\ UNCHANGED <<row, provider, guest, session, cap, issued, redeemed, prepared, faults, restarts>>

\* endpoint: without a cached endpoint, or with one that is due for a refresh, the provider is asked.
NoEndpoint(o) ==
    /\ At(o) \in Wire /\ vm[Gen(o)] # "running"
    /\ IF vm[Gen(o)] = "terminated" THEN Gone(o) ELSE Return(o, "temporary")
    /\ UNCHANGED <<row, provider, guest, session, cap, issued, redeemed, prepared, cached, faults, restarts>>

-----------------------------------------------------------------------------
(* Retirement: the provider first, then the row, then the caches *)

\* Mutant: the row is closed without waiting for the provider.
Confirm_Assumes(o) ==
    /\ At(o) = "retire"
    /\ call' = [call EXCEPT ![o].at = "close"] /\ Stay
    /\ UNCHANGED <<row, provider, guest, session, cap, issued, redeemed, prepared, cached, faults, restarts>>

\* confirm_provider_termination: only a machine reported terminated lets the row be closed;
\* a running one is terminated first, and a failed call to the provider decides nothing.
Confirm(o) ==
    /\ At(o) = "retire"
    /\ \/ /\ \E after \in {"terminating", "terminated"} :
                /\ vm[Gen(o)] = "running" \/ after = vm[Gen(o)]
                /\ vm' = [vm EXCEPT ![Gen(o)] = after]
                /\ IF after = "terminated" THEN call' = [call EXCEPT ![o].at = "close"] /\ Stay
                   ELSE Return(o, "temporary")
          /\ UNCHANGED faults
       \/ /\ faults < MaxFaults /\ faults' = faults + 1
          /\ Return(o, "temporary") /\ UNCHANGED vm
    /\ UNCHANGED <<row, sup, expired, guest, session, cap, issued, redeemed, prepared, cached, restarts>>

\* mark_closed of the exact generation, then forget_target.
Close(o) ==
    LET closed == [state |-> call[o].why, gen |-> Gen(o)] IN
    /\ At(o) = "close"
    /\ IF row \in {[state |-> "installed", gen |-> Gen(o)], closed}
       THEN /\ row' = closed
            /\ cached' = cached \ {Gen(o)} /\ prepared' = [prepared EXCEPT ![Gen(o)] = {}]
            /\ Return(o, "gone")
       ELSE Return(o, "temporary") /\ UNCHANGED <<row, cached, prepared>>
    /\ UNCHANGED <<provider, guest, session, cap, issued, redeemed, faults, restarts>>

-----------------------------------------------------------------------------
(* Faults *)

SupervisorDies(g) ==
    /\ Reachable(g) /\ faults < MaxFaults /\ faults' = faults + 1
    /\ sup' = sup \ {g}
    /\ UNCHANGED <<row, vm, expired, guest, secret, prepared, cached, brain, known, call, restarts>>

MachineDies(g) ==
    /\ vm[g] = "running" /\ faults < MaxFaults /\ faults' = faults + 1
    /\ vm' = [vm EXCEPT ![g] = "terminated"]
    /\ UNCHANGED <<row, sup, expired, guest, secret, prepared, cached, brain, known, call, restarts>>

Terminated(g) ==
    /\ vm[g] = "terminating" /\ vm' = [vm EXCEPT ![g] = "terminated"]
    /\ UNCHANGED <<row, sup, expired, guest, secret, prepared, cached, brain, known, call, faults, restarts>>

Expire(g) ==
    /\ row = [state |-> "installed", gen |-> g] /\ g \notin expired
    /\ faults < MaxFaults /\ faults' = faults + 1
    /\ expired' = expired \cup {g}
    /\ UNCHANGED <<row, vm, sup, guest, secret, prepared, cached, brain, known, call, restarts>>

\* The control process restarts: its calls end without an answer and its caches are empty.
Restart ==
    /\ restarts < MaxRestarts /\ restarts' = restarts + 1
    /\ session' = FALSE /\ cap' = None /\ guard' = [g \in Gens |-> None]
    /\ prepared' = [g \in Gens |-> {}] /\ cached' = {}
    /\ call' = [o \in Ops |-> [call[o] EXCEPT !.at = "idle", !.out = "none"]]
    /\ UNCHANGED <<row, provider, guest, issued, redeemed, brain, known, faults>>

-----------------------------------------------------------------------------
Step(o) ==
    \/ TakeCapability(o) \/ Consume(o) \/ Redeem(o)
    \/ Answered(o) \/ LostReply(o) \/ Unsent(o) \/ Unavailable(o) \/ NoEndpoint(o)
    \/ Confirm(o) \/ Close(o)

Asked(o) == SubmitLazy(o) \/ SubmitEstablished(o) \/ Observe(o) \/ Dematerialize(o) \/ Explicit(o)

Fault == \E g \in Gens : SupervisorDies(g) \/ MachineDies(g) \/ Expire(g)

Next ==
    \/ Prepare \/ Restart \/ Fault
    \/ \E g \in Gens : Terminated(g)
    \/ \E o \in Ops : Asked(o) \/ Step(o)

Spec == Init /\ [][Next]_vars

\* Every call of the adapter runs on, a termination completes, and Brain keeps asking about an
\* operation it has a receipt of.
Fairness ==
    /\ \A o \in Ops : WF_vars(Step(o)) /\ WF_vars(Observe(o))
    /\ \A g \in Gens : WF_vars(Terminated(g))

FairSpec == Spec /\ Fairness

-----------------------------------------------------------------------------
(* Properties *)

\* TypeOK: what every variable holds; a secret lock is held exactly by a call between the
\* capability and the answer of the guest.
TypeOK ==
    /\ row.state \in {"none", "installed", "lost", "terminated"} /\ row.gen \in 0..MaxGens
    /\ vm \in [Gens -> {"absent", "running", "terminating", "terminated"}]
    /\ sup \subseteq Gens /\ expired \subseteq Gens /\ cached \subseteq Gens
    /\ held \in [Gens -> SUBSET Artifacts] /\ prepared \in [Gens -> SUBSET Artifacts]
    /\ cap \in (1..issued) \cup {None} /\ issued \in 0..MaxCaps
    /\ \A o \in Ops : (\E g \in Gens : guard[g] = o) <=> At(o) \in {"consume", "redeem", "secrets"}
    /\ redeemed \in [(1..MaxCaps) \X Gens -> Nat] /\ effects \in [Ops -> SUBSET Gens]
    /\ brain \in [Ops -> {"intent", "receipt", "unknown"}] /\ known \in Gens \cup {None}

\* IntentKeepsItsGeneration: a submission that has no receipt yet never closes a generation before
\* its deadline in which its own effect has started, so that its retry is not carried to a second
\* one: lost replies make its outcome unknown instead (classify_submit_delivery_error).  What a
\* process knew of the installed artifacts is lost with it, and so is this protection.
IntentKeepsItsGeneration ==
    \A o \in Ops :
        At(o) = "close" /\ brain[o] = "intent" /\ row = [state |-> "installed", gen |-> Gen(o)]
            /\ Gen(o) \notin expired /\ restarts = 0
        => Gen(o) \notin effects[o]

\* CapabilityRedeemedOnce: a secret capability, single-use per session and physical generation, is
\* redeemed at most once for a generation, whatever happens to the calls that use it
\* (install_secrets serializes them and removes the bearer before the callback).
CapabilityRedeemedOnce == \A k \in (1..MaxCaps) \X Gens : redeemed[k] <= 1

\* SubmitIsPrepared: a submission reaches the guest only with the binding and the secrets it needs
\* installed there, and what prepared_targets records is what the guest holds.
SubmitIsPrepared ==
    /\ \A o \in Ops : At(o) = "submit" => Needed(o) \subseteq held[Gen(o)]
    /\ \A g \in Gens : prepared[g] \subseteq held[g]

\* ReplacementAfterAbsence: while a machine runs or is terminating, its row is still installed:
\* no capacity is refunded and no replacement acquired before the provider confirmed its absence.
ReplacementAfterAbsence ==
    \A g \in Gens : vm[g] \in {"running", "terminating"} => row = [state |-> "installed", gen |-> g]

\* DeadGenerationIsRetired: when the supervisor of the installed generation is dead and Brain holds
\* a receipt from it, the row does not stay installed for ever.
DeadGenerationIsRetired ==
    \A g \in Gens :
        (row = [state |-> "installed", gen |-> g] /\ g \notin sup
            /\ \E o \in Ops : brain[o] = "receipt" /\ Gen(o) = g)
        ~> row # [state |-> "installed", gen |-> g]

\* InstallationIsExact: the two halves of install_for_operation and the types they keep: no
\* capability is redeemed twice for a generation, and no submission reaches a guest without what
\* it needs.
InstallationIsExact == TypeOK /\ CapabilityRedeemedOnce /\ SubmitIsPrepared
=============================================================================
