------------------------- MODULE SubmitRoutingProofs -------------------------
(***************************************************************************)
(* Proofs about SubmitRouting for any number of operations, generations,   *)
(* capabilities, faults and restarts.  The inductive invariant SubmitInv   *)
(* has a part for every call (CallInv), which a step of another call keeps *)
(* because the world only moves on (Later), and parts for the lock, the    *)
(* capabilities, the recorded artifacts and the started effects.           *)
(* The preparation that a submission starts from follows at the end: the   *)
(* definitions and caches of SessionPreparation, instantiated as Prep.     *)
(***************************************************************************)
EXTENDS SubmitRouting, TLAPS

Places == {"idle", "bundle", "binding", "guard", "consume", "redeem", "secrets", "submit",
           "observe", "retire", "close"}
Locked == {"consume", "redeem", "secrets"}
Bound == {"guard", "submit", "consume", "redeem", "secrets"}
Repeats == {"bundle", "binding", "retire", "close", "consume", "redeem", "secrets"}
Outs == {"none", "receipt", "unknown", "gone", "conflict", "capability_unavailable", "temporary",
         "refused", "observed", "explicit_conflict", "explicit_running"}

Row == [state : {"none", "installed", "lost", "terminated"}, gen : 0..MaxGens]
Call == [at : Places, gen : Gens \cup {None}, est : BOOLEAN, attempt : {0, 1}, saw : BOOLEAN,
         cap : (1..MaxCaps) \cup {None}, why : {"lost", "terminated"}, out : Outs]

ProviderTypes ==
    /\ row \in Row /\ (row.state = "installed" => row.gen \in Gens)
    /\ vm \in [Gens -> {"absent", "running", "terminating", "terminated"}]
    /\ sup \subseteq Gens /\ expired \subseteq Gens
CacheTypes ==
    /\ cached \subseteq Gens
    /\ held \in [Gens -> SUBSET Artifacts] /\ prepared \in [Gens -> SUBSET Artifacts]
    /\ effects \in [Ops -> SUBSET Gens]
SecretTypes ==
    /\ issued \in 0..MaxCaps /\ cap \in (1..issued) \cup {None}
    /\ redeemed \in [(1..MaxCaps) \X Gens -> Nat]
CallTypes ==
    /\ guard \in [Gens -> Ops \cup {None}]
    /\ brain \in [Ops -> {"intent", "receipt", "unknown"}] /\ known \in Gens \cup {None}
    /\ call \in [Ops -> Call]
Types == ProviderTypes /\ CacheTypes /\ SecretTypes /\ CallTypes

Current(r, g) == r = [state |-> "installed", gen |-> g]

\* What holds of the call of one operation wherever it is.
CallInv(o) ==
    /\ brain[o] = "receipt" => Gen(o) \in Gens
    /\ At(o) # "idle" => Gen(o) \in 1..row.gen
    /\ At(o) = "close" => vm[Gen(o)] = "terminated"
    /\ At(o) = "observe" => brain[o] = "receipt"
    /\ effects[o] \subseteq 1..row.gen
    /\ At(o) \in {"consume", "redeem"} =>
          call[o].cap \in 1..issued /\ redeemed[<<call[o].cap, Gen(o)>>] = 0
    /\ At(o) = "redeem" => cap # call[o].cap
    /\ At(o) \in Bound =>
          /\ BindingOf[o] \in held[Gen(o)]
          /\ Current(row, Gen(o)) => BindingOf[o] \in prepared[Gen(o)]
    /\ At(o) = "submit" =>
          /\ Needed(o) \subseteq held[Gen(o)]
          /\ Current(row, Gen(o)) => Needed(o) \subseteq prepared[Gen(o)]
    /\ At(o) \in Repeats /\ brain[o] = "intent" /\ Current(row, Gen(o)) /\ Gen(o) \notin expired
          /\ restarts = 0 => Gen(o) \notin effects[o]

\* The secret lock of a generation is held by the call between the capability and the answer.
LockInv == \A g \in Gens, o \in Ops : guard[g] = o <=> At(o) \in Locked /\ Gen(o) = g

\* A redeemed capability was issued, and is no longer in the cache.
Redeemed ==
    \A k \in 1..MaxCaps, g \in Gens :
        \/ redeemed[<<k, g>>] = 0
        \/ redeemed[<<k, g>>] = 1 /\ k \in 1..issued /\ cap # k

\* What is recorded as installed is installed.
RecordedIsHeld == \A g \in Gens : prepared[g] \subseteq held[g]

\* In the installed generation, and until the process restarts, a started effect leaves a record
\* of what it needed.
EffectIsRecorded ==
    \A g \in Gens, o \in Ops :
        g \in effects[o] /\ Current(row, g) /\ restarts = 0 => Needed(o) \subseteq prepared[g]

WorldInv == Redeemed /\ RecordedIsHeld /\ EffectIsRecorded /\ ReplacementAfterAbsence

SubmitInv ==
    /\ Types /\ restarts \in Nat
    /\ \A o \in Ops : CallInv(o)
    /\ LockInv /\ WorldInv

\* What a step never takes back: generations grow and do not return, a terminated machine stays
\* so, capabilities are fresh, and the guest forgets nothing.
Later ==
    /\ (1..row.gen) \subseteq 1..row.gen'
    /\ \A g \in 1..row.gen : Current(row', g) => Current(row, g)
    /\ \A g \in 1..row.gen : vm[g] = "terminated" => vm'[g] = "terminated"
    /\ (1..issued) \subseteq 1..issued' /\ (cap' = cap \/ cap' \notin 1..issued)
    /\ \A g \in Gens : held[g] \subseteq held'[g] /\ (prepared[g] \subseteq prepared'[g] \/ ~Current(row', g))
    /\ expired \subseteq expired' /\ restarts' = restarts

\* Only the call of operation o moves.
Only(o) ==
    \A p \in Ops \ {o} : call'[p] = call[p] /\ brain'[p] = brain[p] /\ effects'[p] = effects[p]

-----------------------------------------------------------------------------
(* Calls *)

\* A call's generation is one of the modelled ones.
LEMMA Generations ==
  ASSUME Types
  PROVE  /\ (1..row.gen) \subseteq Gens /\ None \notin 1..row.gen
         /\ (1..issued) \subseteq 1..MaxCaps /\ None \notin 1..issued
  BY SubmitAssumption DEF Types, ProviderTypes, SecretTypes, Row, Gens

\* The fields of a call, and what is left of it when some of them are replaced.
LEMMA CallFields ==
  /\ Idle \in Call
  /\ \A c \in Call : /\ c.at \in Places /\ c.gen \in Gens \cup {None} /\ c.out \in Outs
                     /\ c.cap \in (1..MaxCaps) \cup {None} /\ c.attempt \in {0, 1}
                     /\ c.why \in {"lost", "terminated"}
  BY Zenon DEF Idle, Call, Places, Outs

\* The call of operation o is now at a place, for a generation, with a capability.
Now(o, at, g, k) ==
    /\ call' \in [Ops -> Call] /\ call'[o].at = at /\ call'[o].gen = g /\ call'[o].cap = k
    /\ \A p \in Ops \ {o} : call'[p] = call[p]

\* A call replaced by another one.
LEMMA Replaced ==
  ASSUME Types, NEW o \in Ops, NEW c \in Call, call' = [call EXCEPT ![o] = c]
  PROVE  Now(o, c.at, c.gen, c.cap)
  BY Zenon DEF Types, CallTypes, Now

\* A call goes on to its next request.
LEMMA GoStep ==
  ASSUME Types, NEW o \in Ops, NEW at \in Places, Go(o, at)
  PROVE  Now(o, at, Gen(o), call[o].cap)
  <1> DEFINE c == [call[o] EXCEPT !.at = at, !.attempt = 0, !.saw = FALSE]
  <1>1. call[o] \in Call
    BY Zenon DEF Types, CallTypes
  <1>2. c \in Call /\ c.at = at /\ c.gen = Gen(o) /\ c.cap = call[o].cap
    BY <1>1, Zenon DEF Call, Gen
  <1>3. call' = [call EXCEPT ![o] = c]
    BY Zenon DEF Go, Types, CallTypes
  <1>. HIDE DEF c
  <1>. QED  BY <1>2, <1>3, Replaced, Zenon

\* A call moves without a new request.
LEMMA MoveStep ==
  ASSUME Types, NEW o \in Ops, NEW at \in Places, call' = [call EXCEPT ![o].at = at]
  PROVE  Now(o, at, Gen(o), call[o].cap)
  <1> DEFINE c == [call[o] EXCEPT !.at = at]
  <1>1. call[o] \in Call
    BY Zenon DEF Types, CallTypes
  <1>2. c \in Call /\ c.at = at /\ c.gen = Gen(o) /\ c.cap = call[o].cap
    BY <1>1, Zenon DEF Call, Gen
  <1>3. call' = [call EXCEPT ![o] = c]
    BY Zenon DEF Types, CallTypes
  <1>. HIDE DEF c
  <1>. QED  BY <1>2, <1>3, Replaced, Zenon

\* A call repeats its request after a failed attempt.
LEMMA AgainStep ==
  ASSUME Types, NEW o \in Ops,
         \/ call' = [call EXCEPT ![o].attempt = 1]
         \/ call' = [call EXCEPT ![o].attempt = 1, ![o].saw = TRUE]
  PROVE  Now(o, At(o), Gen(o), call[o].cap)
  <1> DEFINE c == [call[o] EXCEPT !.attempt = 1]
             d == [call[o] EXCEPT !.attempt = 1, !.saw = TRUE]
  <1>1. call[o] \in Call
    BY Zenon DEF Types, CallTypes
  <1>2. c \in Call /\ c.at = At(o) /\ c.gen = Gen(o) /\ c.cap = call[o].cap
    BY <1>1, Zenon DEF Call, Gen, At
  <1>3. d \in Call /\ d.at = At(o) /\ d.gen = Gen(o) /\ d.cap = call[o].cap
    BY <1>1, Zenon DEF Call, Gen, At
  <1>4. call' = [call EXCEPT ![o] = c] \/ call' = [call EXCEPT ![o] = d]
    BY Zenon DEF Types, CallTypes
  <1>. HIDE DEF c, d
  <1>. QED  BY <1>2, <1>3, <1>4, Replaced, Zenon

\* A call that leaves the lock gives it up, and no other call loses it.
LEMMA UnlockStep ==
  ASSUME Types, LockInv, NEW o \in Ops, NEW at \in Places \ Locked, NEW g, NEW k,
         Now(o, at, g, k), Unlock(o)
  PROVE  guard' \in [Gens -> Ops \cup {None}] /\ LockInv'
  <1>1. guard' \in [Gens -> Ops \cup {None}]
    BY Zenon DEF Unlock, Types, CallTypes
  <1>2. \A h \in Gens : guard'[h] = IF guard[h] = o THEN None ELSE guard[h]
    BY Zenon DEF Unlock
  <1>3. ASSUME NEW h \in Gens, NEW p \in Ops
        PROVE  guard'[h] = p <=> call'[p].at \in Locked /\ call'[p].gen = h
    <2>1. CASE p = o
      BY <1>2, <2>1, SubmitAssumption, Zenon DEF Now
    <2>2. CASE p # o
      BY <1>2, <2>2, SubmitAssumption DEF Now, LockInv, At, Gen
    <2>. QED  BY <2>1, <2>2, Zenon
  <1>. QED  BY <1>1, <1>3, Zenon DEF LockInv, At, Gen

\* A call that keeps the lock, or never had it, leaves it alone.
LEMMA LockStays ==
  ASSUME Types, LockInv, NEW o \in Ops, NEW at, NEW g, NEW k, Now(o, at, g, k), guard' = guard,
         at \in Locked <=> At(o) \in Locked, at \in Locked => g = Gen(o)
  PROVE  LockInv'
  <1>3. ASSUME NEW h \in Gens, NEW p \in Ops
        PROVE  guard'[h] = p <=> call'[p].at \in Locked /\ call'[p].gen = h
    <2>1. CASE p = o
      BY <2>1 DEF Now, LockInv, At, Gen
    <2>2. CASE p # o
      BY <2>2 DEF Now, LockInv, At, Gen
    <2>. QED  BY <2>1, <2>2, Zenon
  <1>. QED  BY <1>3, Zenon DEF LockInv, At, Gen

\* Every answer to Brain ends the call and gives up the lock.
LEMMA ReturnStep ==
  ASSUME Types, LockInv, NEW o \in Ops, NEW out \in Outs, Return(o, out),
         out = "receipt" => Gen(o) \in Gens
  PROVE  /\ Now(o, "idle", Gen(o), call[o].cap) /\ CallTypes' /\ LockInv'
         /\ \A p \in Ops \ {o} : brain'[p] = brain[p]
         /\ brain'[o] = "receipt" => brain[o] = "receipt" \/ out = "receipt"
  <1> DEFINE c == [call[o] EXCEPT !.at = "idle", !.out = out, !.why = "lost"]
  <1>1. call[o] \in Call
    BY Zenon DEF Types, CallTypes
  <1>2. c \in Call /\ c.at = "idle" /\ c.gen = Gen(o) /\ c.cap = call[o].cap
    BY <1>1, Zenon DEF Call, Gen, Places
  <1>3. call' = [call EXCEPT ![o] = c]
    BY Zenon DEF Return, Types, CallTypes
  <1>. HIDE DEF c
  <1>4. Now(o, "idle", Gen(o), call[o].cap)
    BY <1>2, <1>3, Replaced, Zenon
  <1>5. "idle" \in Places \ Locked
    BY Zenon DEF Places, Locked
  <1>6. guard' \in [Gens -> Ops \cup {None}] /\ LockInv'
    BY <1>4, <1>5, UnlockStep, Zenon DEF Return
  <1>7. /\ brain' \in [Ops -> {"intent", "receipt", "unknown"}]
        /\ \A p \in Ops \ {o} : brain'[p] = brain[p]
        /\ brain'[o] = "receipt" => brain[o] = "receipt" \/ out = "receipt"
    BY Zenon DEF Return, Types, CallTypes
  <1>8. known' \in Gens \cup {None}
    BY Zenon DEF Return, Types, CallTypes
  <1>. QED  BY <1>4, <1>6, <1>7, <1>8, Zenon DEF CallTypes, Now

-----------------------------------------------------------------------------
(* Steps of another call *)

\* What holds of a call survives every step that leaves it where it is, with the same answer, and
\* moves the world on; its effect starts only where it submits.
LEMMA CallKeeps ==
  ASSUME Types, NEW p \in Ops, CallInv(p), Later,
         call'[p].at = At(p), call'[p].gen = Gen(p), call'[p].cap = call[p].cap,
         brain'[p] = brain[p], effects'[p] \subseteq 1..row.gen',
         At(p) \in Repeats => effects'[p] = effects[p],
         At(p) \in {"consume", "redeem"} =>
             redeemed'[<<call[p].cap, Gen(p)>>] = redeemed[<<call[p].cap, Gen(p)>>]
  PROVE  CallInv(p)'
  <1> DEFINE g == Gen(p)
  <1>1. At(p)' = At(p) /\ Gen(p)' = g /\ call'[p].cap = call[p].cap /\ Needed(p)' = Needed(p)
    BY Zenon DEF At, Gen, Needed
  <1>2. (1..row.gen) \subseteq Gens /\ ("idle" \notin Bound /\ "idle" \notin Repeats)
    BY Generations, Zenon DEF Bound, Repeats
  <1>. HIDE DEF g
  <1>3. brain'[p] = "receipt" => g \in Gens
    BY Zenon DEF CallInv, g
  <1>4. At(p) # "idle" => g \in 1..row.gen /\ g \in 1..row.gen' /\ g \in Gens
    BY <1>2, Zenon DEF CallInv, Later, g
  <1>5. At(p) = "close" => vm'[g] = "terminated"
    BY <1>4, Zenon DEF CallInv, Later, g
  <1>6. At(p) = "observe" => brain'[p] = "receipt"
    BY Zenon DEF CallInv
  <1>8. At(p) \in {"consume", "redeem"} =>
           call[p].cap \in 1..issued' /\ redeemed'[<<call[p].cap, g>>] = 0
    BY Zenon DEF CallInv, Later, g
  <1>9. At(p) = "redeem" => cap' # call[p].cap
    BY Zenon DEF CallInv, Later
  <1>10. At(p) # "idle" => /\ held[g] \subseteq held'[g]
                           /\ Current(row', g) => Current(row, g) /\ prepared[g] \subseteq prepared'[g]
    BY <1>4, Zenon DEF Later
  <1>11. At(p) \in Bound => /\ BindingOf[p] \in held'[g]
                            /\ Current(row', g) => BindingOf[p] \in prepared'[g]
    BY <1>2, <1>10, Zenon DEF CallInv, g
  <1>12. At(p) = "submit" => /\ Needed(p) \subseteq held'[g]
                             /\ Current(row', g) => Needed(p) \subseteq prepared'[g]
    BY <1>10, Zenon DEF CallInv, g
  <1>13. At(p) \in Repeats /\ brain'[p] = "intent" /\ Current(row', g) /\ g \notin expired'
            /\ restarts' = 0 => g \notin effects'[p]
    BY <1>2, <1>10, Zenon DEF CallInv, Later, g
  <1>. QED
    BY <1>1, <1>3, <1>4, <1>5, <1>6, <1>8, <1>9, <1>11, <1>12, <1>13, Zenon DEF CallInv, Current

\* Nothing the invariant says of other calls, and of none, has changed.
Still ==
    /\ UNCHANGED <<row, vm, expired, held, effects, cap, issued, redeemed, prepared, restarts>>
    /\ sup' \subseteq Gens /\ cached' \subseteq Gens

\* A step of one call keeps the invariant when it keeps the parts it can disturb.
LEMMA StepKeeps ==
  ASSUME SubmitInv, NEW o \in Ops, Later, Only(o), Types', CallInv(o)', LockInv', WorldInv',
         \A p \in Ops \ {o} : At(p) \in {"consume", "redeem"} =>
             redeemed'[<<call[p].cap, Gen(p)>>] = redeemed[<<call[p].cap, Gen(p)>>]
  PROVE  SubmitInv'
  <1>1. ASSUME NEW p \in Ops \ {o} PROVE CallInv(p)'
    <2>1. CallInv(p) /\ effects'[p] \subseteq 1..row.gen'
      BY Zenon DEF SubmitInv, Only, CallInv, Later
    <2>. QED  BY <2>1, CallKeeps, Zenon DEF SubmitInv, Only, At, Gen
  <1>2. restarts' \in Nat
    BY Zenon DEF SubmitInv, Later
  <1>. QED  BY <1>1, <1>2, Zenon DEF SubmitInv

\* A step that moves one call through an unchanged world.
LEMMA StillKeeps ==
  ASSUME SubmitInv, NEW o \in Ops, Still, Only(o), CallTypes', CallInv(o)', LockInv'
  PROVE  SubmitInv'
  <1>1. Later
    BY Zenon DEF Still, Later, Current
  <1>2. Types'
    BY Zenon DEF Still, SubmitInv, Types, ProviderTypes, CacheTypes, SecretTypes
  <1>3. WorldInv'
    BY Zenon
    DEF Still, SubmitInv, WorldInv, Redeemed, RecordedIsHeld, EffectIsRecorded,
        ReplacementAfterAbsence, Current, Needed
  <1>4. redeemed' = redeemed
    BY Zenon DEF Still
  <1>. QED  BY <1>1, <1>2, <1>3, <1>4, StepKeeps, Zenon

\* A call that has ended carries no obligation but its receipt.
LEMMA IdleInv ==
  ASSUME NEW o \in Ops, call'[o].at = "idle", effects'[o] \subseteq 1..row.gen',
         brain'[o] = "receipt" => call'[o].gen \in Gens
  PROVE  CallInv(o)'
  BY Zenon DEF CallInv, At, Gen, Bound, Repeats

\* An answer to Brain in an unchanged world.
LEMMA ReturnKeeps ==
  ASSUME SubmitInv, NEW o \in Ops, NEW out \in Outs, Return(o, out), Still,
         out = "receipt" => Gen(o) \in Gens
  PROVE  SubmitInv'
  <1>1. Types /\ LockInv /\ CallInv(o)
    BY Zenon DEF SubmitInv
  <1>2. /\ Now(o, "idle", Gen(o), call[o].cap) /\ CallTypes' /\ LockInv'
        /\ \A p \in Ops \ {o} : brain'[p] = brain[p]
        /\ brain'[o] = "receipt" => brain[o] = "receipt" \/ out = "receipt"
    BY <1>1, ReturnStep, Zenon
  <1>3. effects'[o] \subseteq 1..row.gen'
    BY <1>1, Zenon DEF Still, CallInv
  <1>4. brain'[o] = "receipt" => call'[o].gen \in Gens
    BY <1>1, <1>2, Zenon DEF CallInv, Now
  <1>5. CallInv(o)'
    BY <1>2, <1>3, <1>4, IdleInv, Zenon DEF Now
  <1>6. Only(o)
    BY <1>2, Zenon DEF Only, Now, Still
  <1>. QED  BY <1>2, <1>5, <1>6, StillKeeps, Zenon

-----------------------------------------------------------------------------
(* Routing *)

\* A replacement is acquired only when no machine is left: its generation is new.
LEMMA AcquiredKeeps ==
  ASSUME SubmitInv, Acquired, row.state \in {"none", "lost"},
         UNCHANGED <<guest, cap, issued, redeemed, prepared, cached, restarts>>
  PROVE  /\ Later /\ ProviderTypes' /\ CacheTypes' /\ SecretTypes' /\ WorldInv'
         /\ row.gen + 1 \in Gens /\ row.gen + 1 \in 1..row.gen'
  <1> DEFINE n == row.gen + 1
  <1>1. row \in Row /\ row.gen \in 0..MaxGens /\ MaxGens \in Nat
    BY SubmitAssumption, Zenon DEF SubmitInv, Types, ProviderTypes, Row
  <1>2. /\ n \in Gens /\ row' \in Row /\ row.gen' = n /\ n \notin 1..row.gen
        /\ n \in 1..row.gen' /\ (1..row.gen) \subseteq 1..row.gen'
    BY <1>1 DEF Acquired, Gens, Row
  <1>3. \A g \in Gens : /\ Current(row', g) => g = n
                        /\ ~Current(row, g)
    BY <1>1 DEF Acquired, Current
  <1>4. Current(row', n)
    BY Zenon DEF Acquired, Current
  <1>5. /\ vm' \in [Gens -> {"absent", "running", "terminating", "terminated"}]
        /\ vm'[n] = "running" /\ \A g \in Gens \ {n} : vm'[g] = vm[g]
    BY <1>2, Zenon DEF Acquired, SubmitInv, Types, ProviderTypes
  <1>6. sup' \subseteq Gens /\ expired' = expired
    BY <1>2, Zenon DEF Acquired, SubmitInv, Types, ProviderTypes
  <1>7. (1..row.gen) \subseteq Gens
    BY Generations, Zenon DEF SubmitInv
  <1>. HIDE DEF n
  <1>8. ProviderTypes' /\ CacheTypes' /\ SecretTypes'
    BY <1>2, <1>5, <1>6, Zenon DEF SubmitInv, Types, ProviderTypes, CacheTypes, SecretTypes, guest
  <1>9. Later
    <2>1. \A g \in 1..row.gen : Current(row', g) => Current(row, g)
      BY <1>2, <1>3, <1>7, Zenon
    <2>2. \A g \in 1..row.gen : vm[g] = "terminated" => vm'[g] = "terminated"
      BY <1>2, <1>5, <1>7, Zenon
    <2>. QED  BY <1>2, <1>6, <2>1, <2>2, Zenon DEF Later, guest
  <1>10. EffectIsRecorded'
    <2>1. ASSUME NEW g \in Gens, NEW o \in Ops, g \in effects[o], Current(row', g) PROVE FALSE
      BY <1>2, <1>3, <2>1, Zenon DEF SubmitInv, CallInv
    <2>. QED  BY <2>1, Zenon DEF EffectIsRecorded, guest, Current
  <1>11. ReplacementAfterAbsence'
    <2>1. ASSUME NEW g \in Gens, vm'[g] \in {"running", "terminating"} PROVE g = n
      BY <1>3, <1>5, <2>1, Zenon DEF SubmitInv, WorldInv, ReplacementAfterAbsence, Current
    <2>. QED  BY <1>4, <2>1, Zenon DEF ReplacementAfterAbsence, Current
  <1>12. Redeemed' /\ RecordedIsHeld'
    BY Zenon DEF SubmitInv, WorldInv, Redeemed, RecordedIsHeld, guest
  <1>. QED  BY <1>2, <1>8, <1>9, <1>10, <1>11, <1>12, Zenon DEF WorldInv, n

\* An operation is routed to a generation: its binding is recorded there, or its effect cannot
\* have started.
LEMMA RouteInv ==
  ASSUME SubmitInv, WorldInv', Later, NEW o \in Ops, NEW g \in Gens, NEW b \in BOOLEAN,
         Route(o, g, b), g \in 1..row.gen', brain[o] = "intent", At(o) = "idle",
         UNCHANGED <<guest, prepared, restarts>>, Stay
  PROVE  Only(o) /\ CallTypes' /\ LockInv' /\ CallInv(o)'
  <1> DEFINE at == IF BindingOf[o] \in prepared[g] THEN "guard" ELSE "bundle"
  <1>1. at \in Places /\ at \notin Locked /\ "idle" \notin Locked
    BY Zenon DEF Places, Locked
  <1>2. Now(o, at, g, None)
    <2> DEFINE c == [Idle EXCEPT !.gen = g, !.est = b, !.at = at]
    <2>1. call' = [call EXCEPT ![o] = c]
      BY Zenon DEF Route
    <2>2. c \in Call /\ c.at = at /\ c.gen = g /\ c.cap = None
      BY <1>1, Zenon DEF Idle, Call, Outs
    <2>. HIDE DEF c, at
    <2>. QED  BY <2>1, <2>2, Replaced, Zenon DEF SubmitInv
  <1>3. Only(o) /\ CallTypes'
    BY <1>2, Zenon DEF Now, Only, CallTypes, SubmitInv, Types, Stay, guest
  <1>4. LockInv'
    BY <1>1, <1>2, LockStays, Zenon DEF SubmitInv, Stay
  <1>5. effects'[o] \subseteq 1..row.gen'
    BY Zenon DEF SubmitInv, CallInv, Later, guest
  <1>6. at = "guard" => BindingOf[o] \in held'[g] /\ BindingOf[o] \in prepared'[g]
    BY Zenon DEF SubmitInv, WorldInv, RecordedIsHeld, guest
  <1>7. at = "bundle" /\ Current(row', g) /\ restarts' = 0 => g \notin effects'[o]
    <2>1. BindingOf[o] \in Needed(o)
      BY Zenon DEF Needed
    <2>2. Current(row', g) /\ restarts' = 0 /\ g \in effects'[o] => Needed(o) \subseteq prepared'[g]
      BY Zenon DEF WorldInv, EffectIsRecorded, Current, Needed
    <2>. QED  BY <2>1, <2>2, Zenon
  <1>8. at \in {"guard", "bundle"} /\ brain'[o] = "intent"
    BY Zenon DEF Stay
  <1>. HIDE DEF at
  <1>9. call'[o].at = at /\ call'[o].gen = g
    BY <1>2, Zenon DEF Now
  <1>10. CallInv(o)'
    BY <1>5, <1>6, <1>7, <1>8, <1>9, Zenon DEF CallInv, At, Gen, Current, Bound, Repeats
  <1>. QED  BY <1>3, <1>4, <1>10, Zenon

\* A call starts to retire a generation that has expired or whose outcome is unknown, or to
\* observe one.
LEMMA StartKeeps ==
  ASSUME SubmitInv, NEW o \in Ops, NEW c \in Call, call' = [call EXCEPT ![o] = c], Stay, Still,
         At(o) = "idle", c.at \in {"retire", "observe"}, c.gen \in 1..row.gen,
         c.at = "observe" => brain[o] = "receipt",
         c.at = "retire" => brain[o] # "intent" \/ c.gen \in expired
  PROVE  SubmitInv'
  <1>1. Now(o, c.at, c.gen, c.cap)
    BY Replaced, Zenon DEF SubmitInv
  <1>2. c.gen \in Gens /\ c.at \notin Locked /\ "idle" \notin Locked
    BY Generations, Zenon DEF SubmitInv, Locked
  <1>3. Only(o) /\ CallTypes'
    BY <1>1, Zenon DEF Now, Only, CallTypes, SubmitInv, Types, Stay, Still
  <1>4. LockInv'
    BY <1>1, <1>2, LockStays, Zenon DEF SubmitInv, Stay
  <1>5. effects'[o] \subseteq 1..row.gen' /\ brain' = brain /\ row' = row /\ expired' = expired
    BY Zenon DEF SubmitInv, CallInv, Still, Stay
  <1>6. call'[o].at = c.at /\ call'[o].gen = c.gen
    BY <1>1, Zenon DEF Now
  <1>7. CallInv(o)'
    BY <1>2, <1>5, <1>6 DEF CallInv, At, Gen, Bound
  <1>. QED  BY <1>3, <1>4, <1>7, StillKeeps, Zenon

\* resolve_target routes, observes or retires the installed generation, or refuses.
LEMMA ResolveKeeps ==
  ASSUME SubmitInv, NEW o \in Ops, NEW g \in Gens, NEW at \in {"route", "observe"},
         Resolve(o, g, at), At(o) = "idle", Still,
         at = "route" => brain[o] = "intent", at = "observe" => brain[o] = "receipt"
  PROVE  SubmitInv'
  <1>1. CASE row # [state |-> "installed", gen |-> g]
    <2>1. \E out \in {"conflict", "gone"} : Return(o, out)
      BY <1>1, Zenon DEF Resolve
    <2>2. {"conflict", "gone"} \subseteq Outs \ {"receipt"}
      BY Zenon DEF Outs
    <2>. QED  BY <2>1, <2>2, ReturnKeeps, Zenon
  <1>2. CASE row = [state |-> "installed", gen |-> g]
    <2>1. g \in 1..row.gen /\ row.gen' = row.gen
      BY <1>2, SubmitAssumption DEF Gens, Still
    <2>2. CASE g \in expired
      <3> DEFINE c == [Idle EXCEPT !.gen = g, !.at = "retire", !.est = at = "route"]
      <3>1. call' = [call EXCEPT ![o] = c] /\ Stay
        BY <1>2, <2>2, Zenon DEF Resolve
      <3>2. c \in Call /\ c.at = "retire" /\ c.gen = g
        BY Zenon DEF Idle, Call, Outs, Places
      <3>. HIDE DEF c
      <3>3. "retire" \in {"retire", "observe"} /\ "retire" # "observe"
        OBVIOUS
      <3>. QED  BY <2>1, <2>2, <3>1, <3>2, <3>3, StartKeeps, Zenon
    <2>3. CASE g \notin expired /\ at = "route"
      <3>1. Route(o, g, TRUE) /\ Stay
        BY <1>2, <2>3, Zenon DEF Resolve
      <3>2. Later /\ WorldInv'
        BY Zenon
        DEF Still, Later, SubmitInv, WorldInv, Redeemed, RecordedIsHeld, EffectIsRecorded,
            ReplacementAfterAbsence, Current, Needed
      <3>3. Only(o) /\ CallTypes' /\ LockInv' /\ CallInv(o)'
        BY <2>1, <2>3, <3>1, <3>2, RouteInv, Zenon DEF Still, guest
      <3>. QED  BY <3>3, StillKeeps, Zenon
    <2>4. CASE g \notin expired /\ at = "observe"
      <3> DEFINE c == [Idle EXCEPT !.gen = g, !.at = "observe"]
      <3>1. call' = [call EXCEPT ![o] = c] /\ Stay
        BY <1>2, <2>4, Zenon DEF Resolve
      <3>2. c \in Call /\ c.at = "observe" /\ c.gen = g
        BY Zenon DEF Idle, Call, Outs, Places
      <3>. HIDE DEF c
      <3>3. "observe" \in {"retire", "observe"} /\ "retire" # "observe"
        OBVIOUS
      <3>. QED  BY <2>1, <2>4, <3>1, <3>2, <3>3, StartKeeps, Zenon
    <2>. QED  BY <2>2, <2>3, <2>4, Zenon
  <1>. QED  BY <1>1, <1>2, Zenon

\* An intent without a receipt is carried to the installed generation, or to a new one.
LEMMA LazyKeeps ==
  ASSUME SubmitInv, NEW o \in Ops, SubmitLazy(o)
  PROVE  SubmitInv'
  <1>1. /\ Types /\ LockInv /\ WorldInv /\ At(o) = "idle" /\ brain[o] = "intent" /\ Stay
        /\ UNCHANGED <<guest, cap, issued, redeemed, prepared, cached, restarts>>
    BY Zenon DEF SubmitInv, SubmitLazy
  <1>2. CASE row.state = "installed" /\ Route(o, row.gen, FALSE) /\ UNCHANGED <<row, provider>>
    <2>1. Still
      BY <1>1, <1>2, Zenon DEF Still, Types, ProviderTypes, CacheTypes, guest, provider
    <2>2. Later /\ WorldInv'
      BY <2>1, Zenon
      DEF Still, Later, SubmitInv, WorldInv, Redeemed, RecordedIsHeld, EffectIsRecorded,
          ReplacementAfterAbsence, Current, Needed
    <2>3. row.gen \in Gens /\ row.gen \in 1..row.gen'
      <3>1. row.gen \in Gens /\ row.gen' = row.gen
        BY <1>1, <1>2, Zenon DEF Types, ProviderTypes
      <3>. QED  BY <3>1, SubmitAssumption DEF Gens
    <2>4. PICK g \in Gens : g = row.gen
      BY <2>3, Zenon
    <2>5. Only(o) /\ CallTypes' /\ LockInv' /\ CallInv(o)'
      BY <1>1, <1>2, <2>2, <2>3, <2>4, RouteInv, Zenon
    <2>. QED  BY <2>1, <2>5, StillKeeps, Zenon
  <1>3. CASE row.state \in {"none", "lost"} /\ Acquired /\ Route(o, row.gen + 1, FALSE)
    <2>1. /\ Later /\ ProviderTypes' /\ CacheTypes' /\ SecretTypes' /\ WorldInv'
          /\ row.gen + 1 \in Gens /\ row.gen + 1 \in 1..row.gen'
      BY <1>1, <1>3, AcquiredKeeps, Zenon
    <2>2. Only(o) /\ CallTypes' /\ LockInv' /\ CallInv(o)'
      BY <1>1, <1>3, <2>1, RouteInv, Zenon
    <2>. QED  BY <1>1, <2>1, <2>2, StepKeeps, Zenon DEF Types
  <1>4. \/ row.state = "installed" /\ Route(o, row.gen, FALSE) /\ UNCHANGED <<row, provider>>
        \/ row.state \in {"none", "lost"} /\ Acquired /\ Route(o, row.gen + 1, FALSE)
    BY Zenon DEF SubmitLazy
  <1>. QED  BY <1>2, <1>3, <1>4, Zenon

\* materialize_default refuses a terminated row and acquires an absent or lost one.
LEMMA ExplicitKeeps ==
  ASSUME SubmitInv, NEW o \in Ops, Explicit(o)
  PROVE  SubmitInv'
  <1>1. /\ Types /\ LockInv /\ WorldInv /\ At(o) = "idle" /\ brain[o] = "unknown" /\ Stay
        /\ UNCHANGED <<guest, cap, issued, redeemed, prepared, cached, restarts>>
        /\ call[o] \in Call /\ CallInv(o)
    BY Zenon DEF SubmitInv, Explicit, Types, CallTypes
  <1>2. ASSUME NEW out \in Outs, call' = [call EXCEPT ![o].out = out]
        PROVE  Now(o, "idle", Gen(o), call[o].cap)
    <2> DEFINE c == [call[o] EXCEPT !.out = out]
    <2>1. c \in Call /\ c.at = "idle" /\ c.gen = Gen(o) /\ c.cap = call[o].cap
      BY <1>1, Zenon DEF Call, Gen, At
    <2>2. call' = [call EXCEPT ![o] = c]
      BY <1>2, Zenon
    <2>. HIDE DEF c
    <2>. QED  BY <1>1, <2>1, <2>2, Replaced, Zenon
  <1>3. Now(o, "idle", Gen(o), call[o].cap)
    BY <1>2, Zenon DEF Explicit, Outs
  <1>4. Only(o) /\ CallTypes'
    BY <1>1, <1>3, Zenon DEF Now, Only, CallTypes, SubmitInv, Types, Stay, guest
  <1>5. LockInv'
    <2>1. "idle" \notin Locked
      BY Zenon DEF Locked
    <2>. QED  BY <1>1, <1>3, <2>1, LockStays, Zenon DEF Stay
  <1>6. ASSUME (1..row.gen) \subseteq 1..row.gen' PROVE CallInv(o)'
    <2>1. effects'[o] \subseteq 1..row.gen' /\ brain'[o] # "receipt" /\ call'[o].at = "idle"
      BY <1>1, <1>3, <1>6, Zenon DEF CallInv, guest, Stay, Now
    <2>. QED  BY <2>1, IdleInv, Zenon
  <1>7. CASE UNCHANGED <<row, provider>>
    <2>1. Still
      BY <1>1, <1>7, Zenon DEF Still, Types, ProviderTypes, CacheTypes, guest, provider
    <2>. QED  BY <1>4, <1>5, <1>6, <1>7, <2>1, StillKeeps, Zenon
  <1>8. CASE row.state \in {"none", "lost"} /\ Acquired
    <2>1. /\ Later /\ ProviderTypes' /\ CacheTypes' /\ SecretTypes' /\ WorldInv'
      BY <1>1, <1>8, AcquiredKeeps, Zenon
    <2>. QED  BY <1>1, <1>4, <1>5, <1>6, <2>1, StepKeeps, Zenon DEF Types, Later
  <1>9. UNCHANGED <<row, provider>> \/ (row.state \in {"none", "lost"} /\ Acquired)
    BY <1>1, Zenon DEF Explicit, Types, ProviderTypes, Row
  <1>. QED  BY <1>7, <1>8, <1>9, Zenon

\* Everything Brain asks of the adapter.
LEMMA AskedKeeps ==
  ASSUME SubmitInv, NEW o \in Ops, Asked(o)
  PROVE  SubmitInv'
  <1>1. Types /\ CallInv(o) /\ sup \subseteq Gens /\ cached \subseteq Gens
    BY Zenon DEF SubmitInv, Types, ProviderTypes, CacheTypes
  <1>2. ASSUME UNCHANGED <<row, provider, guest, session, cap, issued, redeemed, prepared, cached,
                           faults, restarts>>
        PROVE  Still
    BY <1>1, <1>2, Zenon DEF Still, provider, guest
  <1>3. "route" \in {"route", "observe"} /\ "observe" \in {"route", "observe"}
    OBVIOUS
  <1>4. CASE SubmitEstablished(o)
    <2>1. known \in Gens
      BY <1>1, <1>4, Zenon DEF SubmitEstablished, Types, CallTypes
    <2>2. PICK g \in Gens : g = known
      BY <2>1, Zenon
    <2>. QED  BY <1>2, <1>3, <1>4, <2>2, ResolveKeeps, Zenon DEF SubmitEstablished
  <1>5. CASE Observe(o)
    <2>1. Gen(o) \in Gens
      BY <1>1, <1>5, Zenon DEF Observe, CallInv
    <2>2. PICK g \in Gens : g = Gen(o)
      BY <2>1, Zenon
    <2>. QED  BY <1>2, <1>3, <1>5, <2>2, ResolveKeeps, Zenon DEF Observe
  <1>6. CASE Dematerialize(o)
    <2> DEFINE c == [Idle EXCEPT !.gen = row.gen, !.at = "retire",
                        !.why = IF row.gen \in expired THEN "lost" ELSE "terminated"]
    <2>1. call' = [call EXCEPT ![o] = c] /\ Stay /\ Still /\ At(o) = "idle" /\ brain[o] # "intent"
      BY <1>2, <1>6, Zenon DEF Dematerialize
    <2>2. row.gen \in Gens /\ row.gen \in 1..row.gen
      <3>1. row.gen \in Gens
        BY <1>1, <1>6, Zenon DEF Dematerialize, Types, ProviderTypes
      <3>. QED  BY <3>1, SubmitAssumption DEF Gens
    <2>3. c \in Call /\ c.at = "retire" /\ c.gen = row.gen
      BY <2>2, Zenon DEF Idle, Call, Outs, Places
    <2>4. "retire" \in {"retire", "observe"} /\ "retire" # "observe"
      OBVIOUS
    <2>. HIDE DEF c
    <2>. QED  BY <2>1, <2>2, <2>3, <2>4, StartKeeps, Zenon
  <1>. QED  BY <1>4, <1>5, <1>6, LazyKeeps, ExplicitKeeps, Zenon DEF Asked

\* A preparation brings a capability that was never issued before.
LEMMA PrepareKeeps ==
  ASSUME SubmitInv, Prepare
  PROVE  SubmitInv'
  <1>1. /\ issued \in 0..MaxCaps /\ MaxCaps \in Nat /\ issued < MaxCaps /\ issued' = issued + 1
        /\ cap' = issued + 1
    BY SubmitAssumption, Zenon DEF Prepare, SubmitInv, Types, SecretTypes
  <1>2. /\ issued' \in 0..MaxCaps /\ cap' \in 1..issued' /\ cap' \notin 1..issued
        /\ (1..issued) \subseteq 1..issued'
    BY <1>1
  <1>3. /\ UNCHANGED <<row, vm, sup, expired, held, effects, redeemed, guard, prepared, cached>>
        /\ UNCHANGED <<brain, known, call, restarts>>
    BY Zenon DEF Prepare, provider, guest
  <1>4. Types'
    BY <1>2, <1>3, Zenon
    DEF SubmitInv, Types, ProviderTypes, CacheTypes, SecretTypes, CallTypes
  <1>5. Later
    BY <1>2, <1>3, Zenon DEF Later, Current
  <1>6. LockInv'
    BY <1>3, Zenon DEF SubmitInv, LockInv, At, Gen
  <1>7. WorldInv'
    <2>1. Redeemed'
      BY <1>2, <1>3, Zenon DEF SubmitInv, WorldInv, Redeemed
    <2>. QED
      BY <1>3, <2>1, Zenon
      DEF SubmitInv, WorldInv, RecordedIsHeld, EffectIsRecorded, ReplacementAfterAbsence, Current,
          Needed
  <1>8. ASSUME NEW p \in Ops PROVE CallInv(p)'
    <2>1. CallInv(p) /\ effects'[p] \subseteq 1..row.gen'
      BY <1>3, Zenon DEF SubmitInv, CallInv
    <2>. QED  BY <1>3, <1>5, <2>1, CallKeeps, Zenon DEF SubmitInv, At, Gen
  <1>. QED  BY <1>3, <1>4, <1>6, <1>7, <1>8, Zenon DEF SubmitInv

-----------------------------------------------------------------------------
(* install_secrets *)

\* What a call that submits needs.
LEMMA SubmitCall ==
  ASSUME NEW o \in Ops, NEW g \in Gens, call'[o].at = "submit", call'[o].gen = g,
         g \in 1..row.gen', effects'[o] \subseteq 1..row.gen',
         Needed(o) \subseteq held'[g], Current(row', g) => Needed(o) \subseteq prepared'[g]
  PROVE  CallInv(o)'
  <1>1. BindingOf[o] \in Needed(o)
    BY Zenon DEF Needed
  <1>. QED  BY <1>1, Zenon DEF CallInv, At, Gen, Current, Repeats, Needed

\* The lock is taken with an unused capability of the cached preparation.
LEMMA TakeCapabilityKeeps ==
  ASSUME SubmitInv, NEW o \in Ops, TakeCapability(o)
  PROVE  SubmitInv'
  <1> DEFINE g == Gen(o)
  <1>1. /\ Types /\ LockInv /\ WorldInv /\ CallInv(o) /\ At(o) = "guard" /\ Still
        /\ sup \subseteq Gens /\ cached \subseteq Gens
    BY Zenon
    DEF SubmitInv, TakeCapability, Still, provider, guest, Types, ProviderTypes, CacheTypes
  <1>2. /\ g \in 1..row.gen /\ g \in Gens /\ BindingOf[o] \in held[g]
        /\ Current(row, g) => BindingOf[o] \in prepared[g]
        /\ effects[o] \subseteq 1..row.gen /\ "guard" \notin Locked /\ "submit" \notin Locked
        /\ brain[o] = "receipt" => g \in Gens
    BY <1>1, Generations, Zenon DEF CallInv, Bound, Locked
  <1>3. CASE (BindingOf[o] \notin NeedsEnv \/ "secrets" \in prepared[g]) /\ Go(o, "submit") /\ Stay
    <2>1. "submit" \in Places
      BY Zenon DEF Places
    <2>2. Now(o, "submit", g, call[o].cap)
      BY <1>1, <1>3, <2>1, GoStep, Zenon
    <2>3. Only(o) /\ CallTypes'
      BY <1>1, <1>3, <2>2, Zenon DEF Now, Only, CallTypes, Types, Stay, Still
    <2>4. LockInv'
      BY <1>1, <1>2, <1>3, <2>2, LockStays, Zenon DEF Stay
    <2>5. prepared[g] \subseteq held[g]
      BY <1>1, <1>2, Zenon DEF WorldInv, RecordedIsHeld
    <2>6. /\ Needed(o) \subseteq held[g]
          /\ Current(row, g) => Needed(o) \subseteq prepared[g]
      BY <1>2, <1>3, <2>5, Zenon DEF Needed
    <2>7. call'[o].at = "submit" /\ call'[o].gen = g
      BY <2>2, Zenon DEF Now
    <2>. HIDE DEF g
    <2>8. /\ g \in 1..row.gen' /\ effects'[o] \subseteq 1..row.gen' /\ Needed(o) \subseteq held'[g]
          /\ Current(row', g) => Needed(o) \subseteq prepared'[g]
      BY <1>1, <1>2, <2>6, Zenon DEF Still
    <2>9. CallInv(o)'
      BY <1>2, <2>7, <2>8, SubmitCall, Zenon
    <2>. QED  BY <1>1, <2>3, <2>4, <2>9, StillKeeps, Zenon
  <1>4. CASE /\ ~(BindingOf[o] \notin NeedsEnv \/ "secrets" \in prepared[g])
             /\ guard[g] = None /\ cap # None
             /\ call' = [call EXCEPT ![o].at = "consume", ![o].cap = cap]
             /\ guard' = [guard EXCEPT ![g] = o] /\ UNCHANGED <<brain, known>>
    <2> DEFINE c == [call[o] EXCEPT !.at = "consume", !.cap = cap]
    <2>1. cap \in 1..issued /\ cap \in 1..MaxCaps
      BY <1>1, <1>4, Generations, Zenon DEF Types, SecretTypes
    <2>2. call[o] \in Call
      BY <1>1, Zenon DEF Types, CallTypes
    <2>3. c \in Call /\ c.at = "consume" /\ c.gen = g /\ c.cap = cap
      BY <2>1, <2>2, Zenon DEF Call, Gen, Places
    <2>4. call' = [call EXCEPT ![o] = c]
      BY <1>1, <1>4, Zenon DEF Types, CallTypes
    <2>. HIDE DEF c
    <2>5. Now(o, "consume", g, cap)
      BY <1>1, <2>3, <2>4, Replaced, Zenon
    <2>6. guard' \in [Gens -> Ops \cup {None}] /\ guard'[g] = o /\ \A h \in Gens \ {g} : guard'[h] = guard[h]
      BY <1>1, <1>2, <1>4, Zenon DEF Types, CallTypes
    <2>7. Only(o) /\ CallTypes'
      BY <1>1, <1>4, <2>5, <2>6, Zenon DEF Now, Only, CallTypes, Types, Still
    <2>8. LockInv'
      <3>1. ASSUME NEW h \in Gens, NEW p \in Ops
            PROVE  guard'[h] = p <=> call'[p].at \in Locked /\ call'[p].gen = h
        <4>1. guard[h] = p <=> call[p].at \in Locked /\ call[p].gen = h
          BY <1>1, Zenon DEF LockInv, At, Gen
        <4>2. CASE p = o
          BY <1>1, <1>2, <2>5, <2>6, <4>1, <4>2, Zenon DEF Now, At, Locked
        <4>3. CASE p # o
          BY <1>4, <2>5, <2>6, <4>1, <4>3, SubmitAssumption DEF Now
        <4>. QED  BY <4>2, <4>3, Zenon
      <3>. QED  BY <3>1, Zenon DEF LockInv, At, Gen
    <2>9. redeemed[<<cap, g>>] = 0
      BY <1>1, <1>2, <2>1, Zenon DEF WorldInv, Redeemed
    <2>10. Current(row, g) /\ restarts = 0 => g \notin effects[o]
      <3>1. "secrets" \in Needed(o) /\ "secrets" \notin prepared[g]
        BY <1>4, Zenon DEF Needed
      <3>. QED  BY <1>1, <1>2, <3>1, Zenon DEF WorldInv, EffectIsRecorded
    <2>11. call'[o].at = "consume" /\ call'[o].gen = g /\ call'[o].cap = cap
      BY <2>5, Zenon DEF Now
    <2>. HIDE DEF g
    <2>12. /\ effects'[o] \subseteq 1..row.gen' /\ g \in 1..row.gen' /\ cap \in 1..issued'
           /\ redeemed'[<<cap, g>>] = 0 /\ BindingOf[o] \in held'[g]
           /\ Current(row', g) => BindingOf[o] \in prepared'[g]
           /\ Current(row', g) /\ restarts' = 0 => g \notin effects'[o]
      BY <1>1, <1>2, <2>1, <2>9, <2>10, Zenon DEF Still
    <2>13. CallInv(o)'
      BY <1>2, <2>11, <2>12, Zenon DEF CallInv, At, Gen, Current
    <2>. QED  BY <1>1, <2>7, <2>8, <2>13, StillKeeps, Zenon
  <1>5. CASE Return(o, "capability_unavailable")
    BY <1>1, <1>5, ReturnKeeps, Zenon DEF Outs
  <1>. QED  BY <1>3, <1>4, <1>5, Zenon DEF TakeCapability

\* The bearer leaves the cache, so that no later call takes it.
LEMMA ConsumeKeeps ==
  ASSUME SubmitInv, NEW o \in Ops, Consume(o)
  PROVE  SubmitInv'
  <1> DEFINE g == Gen(o)
             k == call[o].cap
  <1>1. /\ Types /\ LockInv /\ WorldInv /\ CallInv(o) /\ At(o) = "consume" /\ Go(o, "redeem")
        /\ UNCHANGED <<row, vm, sup, expired, held, effects, issued, redeemed, guard, prepared>>
        /\ UNCHANGED <<cached, brain, known, restarts>>
    BY Zenon DEF SubmitInv, Consume, provider, guest
  <1>2. /\ g \in 1..row.gen /\ g \in Gens /\ k \in 1..issued /\ redeemed[<<k, g>>] = 0
        /\ "redeem" \in Places /\ "redeem" \in Locked /\ "consume" \in Locked
        /\ None \notin 1..issued
    BY <1>1, Generations, Zenon DEF CallInv, Places, Locked
  <1>3. cap' \in {cap, None} /\ cap' # k
    BY <1>2, Zenon DEF Consume
  <1>4. Now(o, "redeem", g, k)
    BY <1>1, <1>2, GoStep, Zenon
  <1>5. Types'
    BY <1>1, <1>3, <1>4, Zenon
    DEF Types, ProviderTypes, CacheTypes, SecretTypes, CallTypes, Now
  <1>6. Later
    BY <1>1, <1>2, <1>3, Zenon DEF Later, Current
  <1>7. Only(o) /\ LockInv'
    BY <1>1, <1>2, <1>4, LockStays, Zenon DEF Only, Now
  <1>8. WorldInv'
    <2>1. Redeemed'
      BY <1>1, <1>2, <1>3, Zenon DEF WorldInv, Redeemed
    <2>. QED
      BY <1>1, <2>1, Zenon
      DEF WorldInv, RecordedIsHeld, EffectIsRecorded, ReplacementAfterAbsence, Current, Needed
  <1>9. call'[o].at = "redeem" /\ call'[o].gen = g /\ call'[o].cap = k
    BY <1>4, Zenon DEF Now
  <1>10. CallInv(o)'
    BY <1>1, <1>2, <1>3, <1>9, Zenon DEF CallInv, At, Gen, Current, Bound, Repeats, Needed
  <1>. QED  BY <1>1, <1>5, <1>6, <1>7, <1>8, <1>10, StepKeeps, Zenon

\* A capability is redeemed by the holder of the lock, who has removed it from the cache.
LEMMA RedeemKeeps ==
  ASSUME SubmitInv, NEW o \in Ops, Redeem(o)
  PROVE  SubmitInv'
  <1> DEFINE g == Gen(o)
             k == call[o].cap
  <1>1. /\ Types /\ LockInv /\ WorldInv /\ CallInv(o) /\ At(o) = "redeem"
        /\ UNCHANGED <<row, vm, sup, expired, held, effects, cap, issued, prepared>>
        /\ UNCHANGED <<cached, restarts>>
    BY Zenon DEF SubmitInv, Redeem, provider, guest
  <1>2. /\ g \in 1..row.gen /\ g \in Gens /\ k \in 1..issued /\ k \in 1..MaxCaps
        /\ redeemed[<<k, g>>] = 0 /\ cap # k
        /\ "secrets" \in Places /\ "secrets" \in Locked /\ "redeem" \in Locked
        /\ "temporary" \in Outs /\ "temporary" # "receipt" /\ "consume" \in Locked
        /\ effects[o] \subseteq 1..row.gen
    BY <1>1, Generations, Zenon DEF CallInv, Places, Locked, Outs
  <1>3. /\ redeemed' \in [(1..MaxCaps) \X Gens -> Nat] /\ redeemed'[<<k, g>>] = 1
        /\ \A j \in 1..MaxCaps, h \in Gens : j # k \/ h # g => redeemed'[<<j, h>>] = redeemed[<<j, h>>]
    BY <1>1, <1>2 DEF Redeem, Types, SecretTypes
  <1>. HIDE DEF g, k
  <1>4. ASSUME NEW p \in Ops \ {o}, At(p) \in {"consume", "redeem"}
        PROVE  redeemed'[<<call[p].cap, Gen(p)>>] = redeemed[<<call[p].cap, Gen(p)>>]
    <2>1. CallInv(p)
      BY Zenon DEF SubmitInv
    <2>2. "idle" \notin {"consume", "redeem"}
      OBVIOUS
    <2>3. At(p) \in Locked /\ Gen(p) \in Gens /\ call[p].cap \in 1..MaxCaps
      BY <1>1, <1>2, <1>4, <2>1, <2>2, Generations, Zenon DEF CallInv
    <2>4. guard[Gen(p)] = p /\ guard[g] = o
      BY <1>1, <1>2, <2>3, Zenon DEF LockInv, g
    <2>. QED  BY <1>3, <2>3, <2>4, Zenon
  <1>5. Redeemed'
    <2>1. ASSUME NEW j \in 1..MaxCaps, NEW h \in Gens
          PROVE  \/ redeemed'[<<j, h>>] = 0
                 \/ redeemed'[<<j, h>>] = 1 /\ j \in 1..issued /\ cap # j
      <3>1. CASE j = k /\ h = g
        BY <1>2, <1>3, <3>1, Zenon
      <3>2. CASE j # k \/ h # g
        BY <1>1, <1>3, <3>2, Zenon DEF WorldInv, Redeemed
      <3>. QED  BY <3>1, <3>2, Zenon
    <2>. QED  BY <1>1, <2>1, Zenon DEF Redeemed
  <1>6. WorldInv'
    BY <1>1, <1>5, Zenon
    DEF WorldInv, RecordedIsHeld, EffectIsRecorded, ReplacementAfterAbsence, Current, Needed
  <1>7. Later
    BY <1>1, Zenon DEF Later, Current
  <1>8. ProviderTypes' /\ CacheTypes' /\ SecretTypes'
    BY <1>1, <1>3, Zenon DEF Types, ProviderTypes, CacheTypes, SecretTypes
  <1>9. CASE Go(o, "secrets") /\ Stay
    <2>1. Now(o, "secrets", g, k)
      BY <1>1, <1>2, <1>9, GoStep, Zenon DEF g, k
    <2>2. Only(o) /\ LockInv' /\ CallTypes'
      BY <1>1, <1>2, <1>9, <2>1, LockStays, Zenon DEF Only, Now, Stay, Types, CallTypes, g
    <2>3. call'[o].at = "secrets" /\ call'[o].gen = g /\ brain' = brain
      BY <1>9, <2>1, Zenon DEF Now, Stay
    <2>4. CallInv(o)'
      BY <1>1, <1>2, <2>3, Zenon DEF CallInv, At, Gen, Current, Bound, Repeats, g
    <2>. QED  BY <1>4, <1>6, <1>7, <1>8, <2>2, <2>4, StepKeeps, Zenon DEF Types
  <1>10. CASE Return(o, "temporary")
    <2>1. /\ Now(o, "idle", g, k) /\ CallTypes' /\ LockInv'
          /\ \A p \in Ops \ {o} : brain'[p] = brain[p]
          /\ brain'[o] = "receipt" => brain[o] = "receipt"
      BY <1>1, <1>2, <1>10, ReturnStep, Zenon DEF g, k
    <2>2. Only(o)
      BY <1>1, <2>1, Zenon DEF Only, Now
    <2>3. CallInv(o)'
      BY <1>1, <1>2, <2>1, IdleInv, Zenon DEF Now
    <2>. QED  BY <1>4, <1>6, <1>7, <1>8, <2>1, <2>2, <2>3, StepKeeps, Zenon DEF Types
  <1>. QED  BY <1>9, <1>10, Zenon DEF Redeem

-----------------------------------------------------------------------------
(* Guest requests *)

\* An answer to Brain while the world moves on.
LEMMA ReturnLater ==
  ASSUME SubmitInv, NEW o \in Ops, NEW out \in Outs, Return(o, out), out = "receipt" => Gen(o) \in Gens,
         Later, ProviderTypes', CacheTypes', SecretTypes', WorldInv', redeemed' = redeemed,
         effects'[o] \subseteq 1..row.gen', \A p \in Ops \ {o} : effects'[p] = effects[p]
  PROVE  SubmitInv'
  <1>1. Types /\ LockInv /\ CallInv(o)
    BY Zenon DEF SubmitInv
  <1>2. /\ Now(o, "idle", Gen(o), call[o].cap) /\ CallTypes' /\ LockInv'
        /\ \A p \in Ops \ {o} : brain'[p] = brain[p]
        /\ brain'[o] = "receipt" => brain[o] = "receipt" \/ out = "receipt"
    BY <1>1, ReturnStep, Zenon
  <1>3. CallInv(o)'
    <2>1. brain'[o] = "receipt" => call'[o].gen \in Gens
      BY <1>1, <1>2, Zenon DEF CallInv, Now
    <2>. QED  BY <1>2, <2>1, IdleInv, Zenon DEF Now
  <1>4. Only(o)
    BY <1>2, Zenon DEF Only, Now
  <1>. QED  BY <1>2, <1>3, <1>4, StepKeeps, Zenon DEF Types

\* What the guest may have done with a request of operation o: it holds more, and a submission
\* may have started the effect.
Grown(o) ==
    /\ held' \in [Gens -> SUBSET Artifacts] /\ effects' \in [Ops -> SUBSET Gens]
    /\ \A g \in Gens : held[g] \subseteq held'[g]
    /\ \A p \in Ops \ {o} : effects'[p] = effects[p]
    /\ effects'[o] \subseteq effects[o] \cup {Gen(o)}
    /\ At(o) # "submit" => effects'[o] = effects[o]

\* A delivered request does that much, and an undelivered one nothing.
LEMMA AppliedGrows ==
  ASSUME SubmitInv, NEW o \in Ops, Gen(o) \in Gens, Applied(o) \/ UNCHANGED guest
  PROVE  Grown(o)
  <1>1. held \in [Gens -> SUBSET Artifacts] /\ effects \in [Ops -> SUBSET Gens]
    BY Zenon DEF SubmitInv, Types, CacheTypes
  <1>2. CASE UNCHANGED guest
    BY <1>1, <1>2, Zenon DEF Grown, guest
  <1>3. CASE Applied(o)
    <2> DEFINE new == CASE At(o) = "binding" -> {BindingOf[o]}
                        [] At(o) = "secrets" -> {"secrets"} [] OTHER -> {}
               started == IF At(o) = "submit" /\ Needed(o) \subseteq held[Gen(o)] THEN {Gen(o)} ELSE {}
    <2>1. new \subseteq Artifacts
      BY Zenon DEF Artifacts, Bindings
    <2>2. started \subseteq {Gen(o)} /\ (At(o) # "submit" => started = {})
      OBVIOUS
    <2>3. /\ held' = [held EXCEPT ![Gen(o)] = @ \cup new]
          /\ effects' = [effects EXCEPT ![o] = @ \cup started]
      BY <1>3, Zenon DEF Applied
    <2>. HIDE DEF new, started
    <2>4. held' \in [Gens -> SUBSET Artifacts] /\ \A g \in Gens : held[g] \subseteq held'[g]
      BY <1>1, <2>1, <2>3, Zenon
    <2>5. /\ effects' \in [Ops -> SUBSET Gens] /\ \A p \in Ops \ {o} : effects'[p] = effects[p]
          /\ effects'[o] = effects[o] \cup started
      BY <1>1, <2>2, <2>3, Zenon
    <2>6. effects'[o] \subseteq effects[o] \cup {Gen(o)} /\ (At(o) # "submit" => effects'[o] = effects[o])
      BY <2>2, <2>5, Zenon
    <2>. QED  BY <2>4, <2>5, <2>6, Zenon DEF Grown
  <1>. QED  BY <1>2, <1>3, Zenon

\* The adapter's own records follow.
LEMMA GrownKeeps ==
  ASSUME SubmitInv, NEW o \in Ops, At(o) \in Wire, Grown(o), cached' \subseteq Gens,
         UNCHANGED <<row, vm, sup, expired, cap, issued, redeemed, restarts>>,
         prepared' \in [Gens -> SUBSET Artifacts],
         \A g \in Gens : prepared[g] \subseteq prepared'[g] /\ prepared'[g] \subseteq held'[g]
  PROVE  /\ Later /\ ProviderTypes' /\ CacheTypes' /\ SecretTypes' /\ WorldInv'
         /\ effects'[o] \subseteq 1..row.gen' /\ Gen(o) \in Gens /\ Gen(o) \in 1..row.gen'
  <1>1. Types /\ WorldInv /\ CallInv(o) /\ (1..row.gen) \subseteq Gens
    BY Generations, Zenon DEF SubmitInv
  <1>2. Gen(o) \in 1..row.gen /\ Gen(o) \in Gens
    <2>1. At(o) # "idle"
      BY Zenon DEF Wire
    <2>. QED  BY <1>1, <2>1, Zenon DEF CallInv
  <1>3. effects'[o] \subseteq 1..row.gen'
    BY <1>1, <1>2, Zenon DEF Grown, CallInv
  <1>4. Later
    BY Zenon DEF Later, Grown, Current
  <1>5. ProviderTypes' /\ CacheTypes' /\ SecretTypes'
    BY <1>1, Zenon DEF Types, ProviderTypes, CacheTypes, SecretTypes, Grown
  <1>6. EffectIsRecorded'
    <2>1. ASSUME NEW g \in Gens, NEW p \in Ops, g \in effects'[p], Current(row, g), restarts = 0
          PROVE  Needed(p) \subseteq prepared'[g]
      <3>1. CASE g \in effects[p]
        BY <1>1, <2>1, <3>1, Zenon DEF WorldInv, EffectIsRecorded
      <3>2. CASE g \notin effects[p]
        <4>1. p = o /\ g = Gen(o) /\ At(o) = "submit"
          BY <2>1, <3>2, Zenon DEF Grown
        <4>. QED  BY <1>1, <2>1, <4>1, Zenon DEF CallInv
      <3>. QED  BY <3>1, <3>2, Zenon
    <2>. QED  BY <2>1, Zenon DEF EffectIsRecorded, Current, Needed
  <1>7. WorldInv'
    BY <1>1, <1>6, Zenon DEF WorldInv, Redeemed, RecordedIsHeld, ReplacementAfterAbsence
  <1>. QED  BY <1>2, <1>3, <1>4, <1>5, <1>7, Zenon

\* A failed attempt is repeated at the same place, or ends the call.
LEMMA AgainKeeps ==
  ASSUME SubmitInv, NEW o \in Ops, At(o) \in Wire, Grown(o), cached' \subseteq Gens, Stay,
         UNCHANGED <<row, vm, sup, expired, cap, issued, redeemed, restarts, prepared>>,
         \/ call' = [call EXCEPT ![o].attempt = 1]
         \/ call' = [call EXCEPT ![o].attempt = 1, ![o].saw = TRUE]
  PROVE  SubmitInv'
  <1>1. Types /\ LockInv /\ CallInv(o) /\ prepared \in [Gens -> SUBSET Artifacts]
    BY Zenon DEF SubmitInv, Types, CacheTypes
  <1>2. \A g \in Gens : prepared[g] \subseteq held'[g]
    BY Zenon DEF SubmitInv, WorldInv, RecordedIsHeld, Grown
  <1>3. /\ Later /\ ProviderTypes' /\ CacheTypes' /\ SecretTypes' /\ WorldInv'
        /\ effects'[o] \subseteq 1..row.gen'
    BY <1>1, <1>2, GrownKeeps, Zenon
  <1>4. Now(o, At(o), Gen(o), call[o].cap)
    BY <1>1, AgainStep, Zenon
  <1>5. Only(o) /\ CallTypes' /\ LockInv'
    <2>1. LockInv'
      BY <1>1, <1>4, LockStays, Zenon DEF Stay
    <2>. QED  BY <1>1, <1>4, <2>1, Zenon DEF Only, Now, Grown, Stay, Types, CallTypes
  <1>6. CallInv(o)'
    <2>1. At(o) \in Repeats => At(o) # "submit"
      BY Zenon DEF Repeats
    <2>2. At(o) \in Repeats => effects'[o] = effects[o]
      BY <2>1, Zenon DEF Grown
    <2>. QED  BY <1>1, <1>3, <1>4, <2>2, CallKeeps, Zenon DEF Now, Stay
  <1>. QED  BY <1>3, <1>5, <1>6, StepKeeps, Zenon DEF Types

\* A request whose reply is lost, or that is not delivered.
LEMMA RetryKeeps ==
  ASSUME SubmitInv, NEW o \in Ops, At(o) \in Wire, Applied(o) \/ UNCHANGED guest, Retry(o),
         UNCHANGED <<row, provider, cap, issued, redeemed, prepared, restarts>>
  PROVE  SubmitInv'
  <1>1. /\ Types /\ CallInv(o) /\ cached \subseteq Gens /\ prepared \in [Gens -> SUBSET Artifacts]
        /\ (1..row.gen) \subseteq Gens
        /\ UNCHANGED <<row, vm, sup, expired, cap, issued, redeemed, restarts, prepared>>
    BY Generations, Zenon DEF SubmitInv, Types, CacheTypes, provider
  <1>2. Gen(o) \in Gens
    <2>1. At(o) # "idle"
      BY Zenon DEF Wire
    <2>. QED  BY <1>1, <2>1, Zenon DEF CallInv
  <1>3. Grown(o)
    BY <1>2, AppliedGrows, Zenon
  <1>4. CASE call' = [call EXCEPT ![o].attempt = 1] /\ cached' = cached \ {Gen(o)} /\ Stay
    <2>1. cached' \subseteq Gens
      BY <1>1, <1>4, Zenon
    <2>. QED  BY <1>1, <1>3, <1>4, <2>1, AgainKeeps, Zenon
  <1>5. CASE Return(o, "temporary") /\ cached' = cached \cup {Gen(o)}
    <2>1. cached' \subseteq Gens
      BY <1>1, <1>2, <1>5, Zenon
    <2>2. \A g \in Gens : prepared[g] \subseteq held'[g]
      BY <1>3, Zenon DEF SubmitInv, WorldInv, RecordedIsHeld, Grown
    <2>3. /\ Later /\ ProviderTypes' /\ CacheTypes' /\ SecretTypes' /\ WorldInv'
          /\ effects'[o] \subseteq 1..row.gen'
      BY <1>1, <1>3, <2>1, <2>2, GrownKeeps, Zenon
    <2>4. "temporary" \in Outs /\ "temporary" # "receipt"
      BY Zenon DEF Outs
    <2>. QED  BY <1>1, <1>3, <1>5, <2>3, <2>4, ReturnLater, Zenon DEF Grown
  <1>. QED  BY <1>4, <1>5, Zenon DEF Retry

\* A target that is gone: only a submission does not retire its generation.
LEMMA GoneKeeps ==
  ASSUME SubmitInv, NEW o \in Ops, At(o) \in Wire, Gone(o), Still
  PROVE  SubmitInv'
  <1>1. Types /\ LockInv /\ CallInv(o)
    BY Zenon DEF SubmitInv
  <1>2. CASE Return(o, "unknown")
    <2>1. "unknown" \in Outs /\ "unknown" # "receipt"
      BY Zenon DEF Outs
    <2>. QED  BY <1>2, <2>1, ReturnKeeps, Zenon
  <1>3. CASE /\ At(o) # "submit" /\ call' = [call EXCEPT ![o].at = "retire"] /\ Unlock(o)
             /\ UNCHANGED <<brain, known>>
    <2>1. /\ "retire" \in Places \ Locked /\ At(o) # "idle" /\ "retire" \notin Bound
          /\ At(o) = "observe" \/ At(o) \in Repeats
      BY <1>3, Zenon DEF Places, Locked, Wire, Repeats, Bound
    <2>2. Now(o, "retire", Gen(o), call[o].cap)
      BY <1>1, <1>3, <2>1, MoveStep, Zenon
    <2>3. guard' \in [Gens -> Ops \cup {None}] /\ LockInv'
      BY <1>1, <1>3, <2>1, <2>2, UnlockStep, Zenon
    <2>4. Only(o) /\ CallTypes'
      BY <1>1, <1>3, <2>2, <2>3, Zenon DEF Only, Now, Still, Types, CallTypes
    <2>5. /\ brain[o] = "receipt" => Gen(o) \in Gens
          /\ Gen(o) \in 1..row.gen /\ effects[o] \subseteq 1..row.gen
          /\ brain[o] = "intent" /\ Current(row, Gen(o)) /\ Gen(o) \notin expired /\ restarts = 0
                => Gen(o) \notin effects[o]
      BY <1>1, <2>1, Zenon DEF CallInv
    <2>6. /\ call'[o].at = "retire" /\ call'[o].gen = Gen(o) /\ brain' = brain
          /\ UNCHANGED <<row, expired, effects, restarts>>
      BY <1>3, <2>2, Zenon DEF Now, Still
    <2>7. CallInv(o)'
      BY <2>1, <2>5, <2>6, Zenon DEF CallInv, At, Gen, Current
    <2>. QED  BY <2>3, <2>4, <2>7, StillKeeps, Zenon
  <1>. QED  BY <1>2, <1>3, Zenon DEF Gone

\* An acknowledged request is recorded, and the call goes on.
LEMMA AnsweredKeeps ==
  ASSUME SubmitInv, NEW o \in Ops, Answered(o)
  PROVE  SubmitInv'
  <1> DEFINE g == Gen(o)
             new == CASE At(o) = "binding" -> {BindingOf[o]}
                      [] At(o) = "secrets" -> {"secrets"} [] OTHER -> {}
  <1>1. /\ Types /\ LockInv /\ WorldInv /\ CallInv(o) /\ At(o) \in Wire /\ Applied(o) /\ Recorded(o)
        /\ cached' = cached \cup {g} /\ (1..row.gen) \subseteq Gens
        /\ UNCHANGED <<row, vm, sup, expired, cap, issued, redeemed, restarts>>
    BY Generations, Zenon DEF SubmitInv, Answered, provider
  <1>2. At(o) # "idle" /\ g \in 1..row.gen /\ g \in Gens
    <2>1. At(o) # "idle"
      BY <1>1, Zenon DEF Wire
    <2>. QED  BY <1>1, <2>1, Zenon DEF CallInv
  <1>3. Grown(o)
    BY <1>1, <1>2, AppliedGrows, Zenon
  <1>4. /\ prepared' \in [Gens -> SUBSET Artifacts] /\ new \subseteq held'[g] /\ new \subseteq prepared'[g]
        /\ \A h \in Gens : prepared[h] \subseteq prepared'[h] /\ prepared'[h] \subseteq held'[h]
    <2>1. new \subseteq Artifacts
      BY Zenon DEF Artifacts, Bindings
    <2>2. /\ held' = [held EXCEPT ![g] = @ \cup new]
          /\ prepared' = [prepared EXCEPT ![g] = @ \cup new]
      BY <1>1, Zenon DEF Applied, Recorded
    <2>3. /\ prepared \in [Gens -> SUBSET Artifacts] /\ held \in [Gens -> SUBSET Artifacts]
          /\ \A h \in Gens : prepared[h] \subseteq held[h]
      BY <1>1, Zenon DEF Types, CacheTypes, WorldInv, RecordedIsHeld
    <2>. HIDE DEF new, g
    <2>. QED  BY <1>2, <2>1, <2>2, <2>3, Zenon
  <1>5. cached' \subseteq Gens
    BY <1>1, <1>2, Zenon DEF Types, CacheTypes
  <1>6. /\ Later /\ ProviderTypes' /\ CacheTypes' /\ SecretTypes' /\ WorldInv'
        /\ effects'[o] \subseteq 1..row.gen' /\ g \in 1..row.gen'
    BY <1>1, <1>3, <1>4, <1>5, GrownKeeps, Zenon
  <1>7. ASSUME NEW at \in Places, Now(o, at, g, call[o].cap), UNCHANGED <<brain, known>>,
               guard' \in [Gens -> Ops \cup {None}], LockInv', CallInv(o)'
        PROVE  SubmitInv'
    <2>1. Only(o) /\ CallTypes'
      BY <1>1, <1>3, <1>7, Zenon DEF Only, Now, Grown, Types, CallTypes
    <2>. QED  BY <1>1, <1>6, <1>7, <2>1, StepKeeps, Zenon DEF Types
  <1>8. /\ {"binding", "guard"} \subseteq Places \ Locked /\ "submit" \in Places \ Locked
        /\ {"receipt", "refused", "observed"} \subseteq Outs /\ guard \in [Gens -> Ops \cup {None}]
        /\ "refused" # "receipt" /\ "observed" # "receipt"
    BY <1>1, Zenon DEF Places, Locked, Outs, Types, CallTypes
  <1>9. CASE At(o) = "bundle" /\ Go(o, "binding") /\ Stay
    <2>1. Now(o, "binding", g, call[o].cap)
      BY <1>1, <1>8, <1>9, GoStep, Zenon
    <2>2. LockInv'
      <3>1. At(o) \notin Locked
        BY <1>9, Zenon DEF Locked
      <3>. QED  BY <1>1, <1>8, <1>9, <2>1, <3>1, LockStays, Zenon DEF Stay
    <2>3. /\ call'[o].at = "binding" /\ call'[o].gen = g /\ brain' = brain /\ effects'[o] = effects[o]
      BY <1>3, <1>9, <2>1, Zenon DEF Now, Stay, Grown
    <2>4. brain[o] = "intent" /\ Current(row, g) /\ g \notin expired /\ restarts = 0
             => g \notin effects[o]
      BY <1>1, <1>9, Zenon DEF CallInv, Repeats
    <2>. HIDE DEF g
    <2>5. CallInv(o)'
      BY <1>1, <1>2, <1>6, <2>3, <2>4, Zenon DEF CallInv, At, Gen, Current, Bound
    <2>. QED  BY <1>7, <1>8, <1>9, <2>1, <2>2, <2>5, Zenon DEF Stay
  <1>10. CASE At(o) = "binding" /\ Go(o, "guard") /\ Stay
    <2>1. Now(o, "guard", g, call[o].cap)
      BY <1>1, <1>8, <1>10, GoStep, Zenon
    <2>2. LockInv'
      <3>1. At(o) \notin Locked
        BY <1>10, Zenon DEF Locked
      <3>. QED  BY <1>1, <1>8, <1>10, <2>1, <3>1, LockStays, Zenon DEF Stay
    <2>3. call'[o].at = "guard" /\ call'[o].gen = g
      BY <2>1, Zenon DEF Now
    <2>4. BindingOf[o] \in held'[g] /\ BindingOf[o] \in prepared'[g]
      BY <1>4, <1>10, Zenon
    <2>. HIDE DEF g, new
    <2>5. CallInv(o)'
      BY <1>2, <1>6, <2>3, <2>4, Zenon DEF CallInv, At, Gen, Repeats
    <2>. QED  BY <1>7, <1>8, <1>10, <2>1, <2>2, <2>5, Zenon DEF Stay
  <1>11. CASE At(o) = "secrets" /\ Go(o, "submit") /\ Unlock(o) /\ UNCHANGED <<brain, known>>
    <2>1. Now(o, "submit", g, call[o].cap)
      BY <1>1, <1>8, <1>11, GoStep, Zenon
    <2>2. guard' \in [Gens -> Ops \cup {None}] /\ LockInv'
      BY <1>1, <1>8, <1>11, <2>1, UnlockStep, Zenon
    <2>3. call'[o].at = "submit" /\ call'[o].gen = g
      BY <2>1, Zenon DEF Now
    <2>4. /\ Needed(o) \subseteq held'[g]
          /\ Current(row', g) => Needed(o) \subseteq prepared'[g]
      <3>1. "secrets" \in held'[g] /\ "secrets" \in prepared'[g] /\ "secrets" \in Bound
        BY <1>4, <1>11, Zenon DEF Bound
      <3>2. BindingOf[o] \in held[g] /\ (Current(row, g) => BindingOf[o] \in prepared[g])
        BY <1>1, <1>11, <3>1, Zenon DEF CallInv
      <3>3. BindingOf[o] \in held'[g] /\ (Current(row', g) => BindingOf[o] \in prepared'[g])
        BY <1>1, <1>2, <1>3, <1>4, <3>2, Zenon DEF Grown
      <3>. QED  BY <3>1, <3>3, Zenon DEF Needed
    <2>. HIDE DEF g, new
    <2>5. CallInv(o)'
      BY <1>2, <1>6, <2>3, <2>4, SubmitCall, Zenon
    <2>. QED  BY <1>7, <1>8, <1>11, <2>1, <2>2, <2>5, Zenon
  <1>12. CASE \E out \in {"receipt", "refused", "observed"} : Return(o, out)
    BY <1>1, <1>2, <1>3, <1>6, <1>8, <1>12, ReturnLater, Zenon DEF Grown
  <1>13. \/ At(o) = "bundle" /\ Go(o, "binding") /\ Stay
         \/ At(o) = "binding" /\ Go(o, "guard") /\ Stay
         \/ At(o) = "secrets" /\ Go(o, "submit") /\ Unlock(o) /\ UNCHANGED <<brain, known>>
         \/ \E out \in {"receipt", "refused", "observed"} : Return(o, out)
    BY Zenon DEF Answered, Wire
  <1>. QED  BY <1>9, <1>10, <1>11, <1>12, <1>13, Zenon

\* Every other outcome of a guest request.
LEMMA FailedKeeps ==
  ASSUME SubmitInv, NEW o \in Ops, LostReply(o) \/ Unsent(o) \/ Unavailable(o) \/ NoEndpoint(o)
  PROVE  SubmitInv'
  <1>1. /\ At(o) \in Wire /\ sup \subseteq Gens /\ cached \subseteq Gens
        /\ "temporary" \in Outs /\ "temporary" # "receipt"
    BY Zenon
    DEF LostReply, Unsent, Unavailable, NoEndpoint, SubmitInv, Types, ProviderTypes, CacheTypes,
        Outs
  <1>2. Gen(o) \in Gens
    <2>1. At(o) # "idle"
      BY <1>1, Zenon DEF Wire
    <2>2. (1..row.gen) \subseteq Gens
      BY Generations, Zenon DEF SubmitInv
    <2>. QED  BY <2>1, <2>2, Zenon DEF SubmitInv, CallInv
  <1>3. CASE LostReply(o)
    BY <1>1, <1>3, RetryKeeps, Zenon DEF LostReply
  <1>4. CASE Unsent(o)
    BY <1>1, <1>4, RetryKeeps, Zenon DEF Unsent
  <1>5. ASSUME UNCHANGED <<row, provider, guest, session, cap, issued, redeemed, prepared, faults, restarts>>,
               cached' \subseteq Gens
        PROVE  Still
    BY <1>1, <1>5, Zenon DEF Still, provider, guest
  <1>6. CASE Unavailable(o)
    <2>1. UNCHANGED <<row, provider, guest, session, cap, issued, redeemed, prepared, faults, restarts>>
      BY <1>6, Zenon DEF Unavailable
    <2>2. CASE Gone(o) /\ cached' = cached \cup {Gen(o)}
      <3>1. Still
        BY <1>1, <1>2, <1>5, <2>1, <2>2, Zenon
      <3>. QED  BY <1>1, <2>2, <3>1, GoneKeeps, Zenon
    <2>3. CASE Return(o, "temporary") /\ cached' = cached \cup {Gen(o)}
      <3>1. Still
        BY <1>1, <1>2, <1>5, <2>1, <2>3, Zenon
      <3>. QED  BY <1>1, <2>3, <3>1, ReturnKeeps, Zenon
    <2>4. CASE /\ call' = [call EXCEPT ![o].attempt = 1, ![o].saw = TRUE]
               /\ cached' = cached \ {Gen(o)} /\ Stay
      <3>1. Still
        BY <1>1, <1>5, <2>1, <2>4, Zenon
      <3>2. Grown(o)
        BY <1>2, <2>1, AppliedGrows, Zenon
      <3>. QED  BY <1>1, <2>1, <2>4, <3>1, <3>2, AgainKeeps, Zenon DEF Still, provider
    <2>. QED  BY <1>6, <2>2, <2>3, <2>4, Zenon DEF Unavailable
  <1>7. CASE NoEndpoint(o)
    <2>1. Still
      BY <1>1, <1>5, <1>7, Zenon DEF NoEndpoint
    <2>2. Gone(o) \/ Return(o, "temporary")
      BY <1>7, Zenon DEF NoEndpoint
    <2>. QED  BY <1>1, <2>1, <2>2, GoneKeeps, ReturnKeeps, Zenon
  <1>. QED  BY <1>3, <1>4, <1>6, <1>7, Zenon

-----------------------------------------------------------------------------
(* Retirement, faults and restarts *)

\* A machine that stops leaves its row installed and nothing else behind.
LEMMA MachineStops ==
  ASSUME SubmitInv, NEW g \in Gens, NEW after \in {"terminating", "terminated"},
         vm[g] = "running" \/ vm[g] = after \/ (vm[g] = "terminating" /\ after = "terminated"),
         vm' = [vm EXCEPT ![g] = after],
         UNCHANGED <<row, sup, expired, guest, cap, issued, redeemed, prepared, cached, restarts>>
  PROVE  /\ Later /\ ProviderTypes' /\ CacheTypes' /\ SecretTypes' /\ WorldInv'
         /\ vm'[g] = after
  <1>1. /\ ProviderTypes /\ CacheTypes /\ SecretTypes /\ WorldInv /\ (1..row.gen) \subseteq Gens
        /\ UNCHANGED <<held, effects>>
    BY Generations, Zenon DEF SubmitInv, Types, guest
  <1>2. /\ vm' \in [Gens -> {"absent", "running", "terminating", "terminated"}]
        /\ vm'[g] = after /\ \A h \in Gens \ {g} : vm'[h] = vm[h]
    BY <1>1, Zenon DEF ProviderTypes
  <1>3. ProviderTypes' /\ CacheTypes' /\ SecretTypes'
    BY <1>1, <1>2, Zenon DEF ProviderTypes, CacheTypes, SecretTypes
  <1>4. \A h \in Gens : vm[h] = "terminated" => vm'[h] = "terminated"
    BY <1>2, Zenon
  <1>5. \A h \in Gens : vm'[h] \in {"running", "terminating"} => vm[h] \in {"running", "terminating"}
    BY <1>2, Zenon
  <1>6. Later
    BY <1>1, <1>4, Zenon DEF Later, Current
  <1>7. WorldInv'
    BY <1>1, <1>5, Zenon
    DEF WorldInv, Redeemed, RecordedIsHeld, EffectIsRecorded, ReplacementAfterAbsence, Current, Needed
  <1>. QED  BY <1>2, <1>3, <1>6, <1>7, Zenon

\* Only a machine that is terminated lets its row be closed.
LEMMA ConfirmKeeps ==
  ASSUME SubmitInv, NEW o \in Ops, Confirm(o)
  PROVE  SubmitInv'
  <1> DEFINE g == Gen(o)
  <1>1. /\ Types /\ LockInv /\ CallInv(o) /\ At(o) = "retire" /\ (1..row.gen) \subseteq Gens
        /\ UNCHANGED <<row, sup, expired, guest, cap, issued, redeemed, prepared, cached, restarts>>
        /\ sup \subseteq Gens /\ cached \subseteq Gens
    BY Generations, Zenon DEF SubmitInv, Confirm, Types, ProviderTypes, CacheTypes
  <1>2. /\ g \in 1..row.gen /\ g \in Gens /\ effects[o] \subseteq 1..row.gen
        /\ brain[o] = "intent" /\ Current(row, g) /\ g \notin expired /\ restarts = 0
              => g \notin effects[o]
        /\ "temporary" \in Outs /\ "temporary" # "receipt" /\ "close" \in Places
        /\ "close" \notin Locked /\ "retire" \notin Locked /\ UNCHANGED <<held, effects>>
    BY <1>1, Zenon DEF CallInv, Repeats, Outs, Places, Locked, guest
  <1>3. CASE Return(o, "temporary") /\ UNCHANGED vm
    <2>1. Still
      BY <1>1, <1>2, <1>3, Zenon DEF Still
    <2>. QED  BY <1>2, <1>3, <2>1, ReturnKeeps, Zenon
  <1>4. ASSUME NEW after \in {"terminating", "terminated"}, vm[g] = "running" \/ after = vm[g],
               vm' = [vm EXCEPT ![g] = after],
               IF after = "terminated" THEN call' = [call EXCEPT ![o].at = "close"] /\ Stay
               ELSE Return(o, "temporary")
        PROVE  SubmitInv'
    <2>1. /\ Later /\ ProviderTypes' /\ CacheTypes' /\ SecretTypes' /\ WorldInv' /\ vm'[g] = after
      BY <1>1, <1>2, <1>4, MachineStops, Zenon
    <2>2. CASE Return(o, "temporary")
      BY <1>1, <1>2, <2>1, <2>2, ReturnLater, Zenon
    <2>3. CASE after = "terminated" /\ call' = [call EXCEPT ![o].at = "close"] /\ Stay
      <3>1. Now(o, "close", g, call[o].cap)
        BY <1>1, <1>2, <2>3, MoveStep, Zenon
      <3>2. LockInv'
        BY <1>1, <1>2, <2>3, <3>1, LockStays, Zenon DEF Stay
      <3>3. Only(o) /\ CallTypes'
        BY <1>1, <1>2, <2>3, <3>1, Zenon DEF Only, Now, Stay, Types, CallTypes
      <3>4. call'[o].at = "close" /\ call'[o].gen = g /\ brain' = brain
        BY <2>3, <3>1, Zenon DEF Now, Stay
      <3>. HIDE DEF g
      <3>5. CallInv(o)'
        BY <1>1, <1>2, <2>1, <2>3, <3>4, Zenon DEF CallInv, At, Gen, Current, Bound
      <3>. QED  BY <1>1, <2>1, <3>2, <3>3, <3>5, StepKeeps, Zenon DEF Types
    <2>. QED  BY <1>4, <2>2, <2>3, Zenon
  <1>. QED  BY <1>3, <1>4, Zenon DEF Confirm

\* mark_closed of the exact generation: its machine is terminated, and its records are forgotten.
LEMMA CloseKeeps ==
  ASSUME SubmitInv, NEW o \in Ops, Close(o)
  PROVE  SubmitInv'
  <1> DEFINE g == Gen(o)
             closed == [state |-> call[o].why, gen |-> g]
  <1>1. /\ Types /\ WorldInv /\ CallInv(o) /\ At(o) = "close" /\ (1..row.gen) \subseteq Gens
        /\ UNCHANGED <<vm, sup, expired, held, effects, cap, issued, redeemed, restarts>>
        /\ sup \subseteq Gens /\ cached \subseteq Gens /\ row \in Row
        /\ prepared \in [Gens -> SUBSET Artifacts] /\ call[o] \in Call
    BY Generations, Zenon
    DEF SubmitInv, Close, provider, guest, Types, ProviderTypes, CacheTypes, CallTypes
  <1>2. /\ g \in 1..row.gen /\ g \in Gens /\ vm[g] = "terminated" /\ effects[o] \subseteq 1..row.gen
        /\ {"temporary", "gone"} \subseteq Outs /\ "temporary" # "receipt" /\ "gone" # "receipt"
    BY <1>1, Zenon DEF CallInv, Outs
  <1>3. CASE Return(o, "temporary") /\ UNCHANGED <<row, cached, prepared>>
    <2>1. Still
      BY <1>1, <1>3, Zenon DEF Still
    <2>. QED  BY <1>2, <1>3, <2>1, ReturnKeeps, Zenon
  <1>4. CASE /\ row \in {[state |-> "installed", gen |-> g], closed} /\ row' = closed
             /\ cached' = cached \ {g} /\ prepared' = [prepared EXCEPT ![g] = {}] /\ Return(o, "gone")
    <2>1. /\ closed \in Row /\ closed.state # "installed" /\ closed.gen = g
          /\ row.gen = g /\ row.gen' = g /\ row'.state # "installed"
      BY <1>1, <1>2, <1>4 DEF Call, Row, Gens
    <2>2. \A h \in Gens : ~Current(row', h) /\ (Current(row, h) => h = g)
      BY <1>4, <2>1 DEF Current
    <2>3. /\ prepared' \in [Gens -> SUBSET Artifacts] /\ prepared'[g] = {}
          /\ \A h \in Gens \ {g} : prepared'[h] = prepared[h]
      BY <1>1, <1>2, <1>4, Zenon
    <2>. HIDE DEF closed, g
    <2>4. ProviderTypes' /\ CacheTypes' /\ SecretTypes'
      BY <1>1, <1>4, <2>1, <2>3, Zenon DEF Types, ProviderTypes, CacheTypes, SecretTypes
    <2>5. Later
      BY <1>1, <2>1, <2>2, Zenon DEF Later
    <2>6. RecordedIsHeld'
      <3>1. ASSUME NEW h \in Gens PROVE prepared'[h] \subseteq held'[h]
        BY <1>1, <2>3, Zenon DEF WorldInv, RecordedIsHeld
      <3>. QED  BY <3>1, Zenon DEF RecordedIsHeld
    <2>7. ReplacementAfterAbsence'
      <3>1. ASSUME NEW h \in Gens, vm[h] \in {"running", "terminating"} PROVE FALSE
        <4>1. Current(row, h)
          BY <1>1, <3>1, Zenon DEF WorldInv, ReplacementAfterAbsence, Current
        <4>. QED  BY <1>2, <2>2, <3>1, <4>1, Zenon
      <3>. QED  BY <1>1, <3>1, Zenon DEF ReplacementAfterAbsence
    <2>8. EffectIsRecorded'
      BY <2>2, Zenon DEF EffectIsRecorded, Current
    <2>9. Redeemed'
      BY <1>1, Zenon DEF WorldInv, Redeemed
    <2>. QED
      BY <1>1, <1>2, <1>4, <2>1, <2>4, <2>5, <2>6, <2>7, <2>8, <2>9, ReturnLater, Zenon DEF WorldInv
  <1>. QED  BY <1>3, <1>4, Zenon DEF Close

\* Supervisors and machines die, and a generation expires: the calls do not know yet.
LEMMA FaultKeeps ==
  ASSUME SubmitInv, Fault \/ \E g \in Gens : Terminated(g)
  PROVE  SubmitInv'
  <1>1. /\ Types /\ UNCHANGED <<row, held, effects, cap, issued, redeemed, guard, prepared>>
        /\ UNCHANGED <<cached, brain, known, call, restarts>>
    BY Zenon
    DEF SubmitInv, Fault, SupervisorDies, MachineDies, Terminated, Expire, guest, secret
  <1>2. /\ Later /\ ProviderTypes' /\ CacheTypes' /\ SecretTypes' /\ WorldInv'
    <2>1. CASE UNCHANGED vm /\ sup' \subseteq Gens /\ expired \subseteq expired' /\ expired' \subseteq Gens
      BY <1>1, <2>1, Zenon
      DEF Later, Types, ProviderTypes, CacheTypes, SecretTypes, SubmitInv, WorldInv, Redeemed,
          RecordedIsHeld, EffectIsRecorded, ReplacementAfterAbsence, Current, Needed
    <2>2. CASE \E g \in Gens : MachineDies(g) \/ Terminated(g)
      <3>1. PICK g \in Gens : MachineDies(g) \/ Terminated(g)
        BY <2>2, Zenon
      <3>2. /\ vm[g] = "running" \/ (vm[g] = "terminating" /\ "terminated" = "terminated")
            /\ vm' = [vm EXCEPT ![g] = "terminated"] /\ UNCHANGED <<sup, expired>>
        BY <3>1, Zenon DEF MachineDies, Terminated
      <3>3. "terminated" \in {"terminating", "terminated"}
        OBVIOUS
      <3>. QED  BY <1>1, <3>2, <3>3, MachineStops, Zenon DEF guest
    <2>3. CASE \E g \in Gens : SupervisorDies(g) \/ Expire(g)
      BY <1>1, <2>1, <2>3, Zenon DEF SupervisorDies, Expire, Types, ProviderTypes
    <2>. QED  BY <2>2, <2>3, Zenon DEF Fault
  <1>3. LockInv' /\ CallTypes'
    BY <1>1, Zenon DEF SubmitInv, LockInv, At, Gen, Types, CallTypes
  <1>4. ASSUME NEW p \in Ops PROVE CallInv(p)'
    <2>1. CallInv(p) /\ effects'[p] \subseteq 1..row.gen'
      BY <1>1, Zenon DEF SubmitInv, CallInv
    <2>. QED  BY <1>1, <1>2, <2>1, CallKeeps, Zenon DEF SubmitInv, At, Gen
  <1>. QED  BY <1>1, <1>2, <1>3, <1>4, Zenon DEF SubmitInv, Types

\* After a restart no call is active, nothing is cached and no lock is held.
LEMMA RestartKeeps ==
  ASSUME SubmitInv, Restart
  PROVE  SubmitInv'
  <1>1. /\ Types /\ WorldInv /\ restarts \in Nat
        /\ UNCHANGED <<row, vm, sup, expired, held, effects, issued, redeemed, brain, known>>
    BY Zenon DEF SubmitInv, Restart, provider, guest
  <1>2. call' \in [Ops -> Call] /\ \A o \in Ops : call'[o].at = "idle" /\ call'[o].gen = call[o].gen
    <2>1. ASSUME NEW o \in Ops
          PROVE  /\ [call[o] EXCEPT !.at = "idle", !.out = "none"] \in Call
                 /\ [call[o] EXCEPT !.at = "idle", !.out = "none"].at = "idle"
                 /\ [call[o] EXCEPT !.at = "idle", !.out = "none"].gen = call[o].gen
      <3>1. call[o] \in Call
        BY <1>1, Zenon DEF Types, CallTypes
      <3>. QED  BY <3>1, Zenon DEF Call, Places, Outs
    <2>. QED  BY <2>1, Zenon DEF Restart
  <1>3. guard' \in [Gens -> Ops \cup {None}] /\ \A g \in Gens : guard'[g] = None
    BY Zenon DEF Restart
  <1>4. prepared' \in [Gens -> SUBSET Artifacts] /\ \A g \in Gens : prepared'[g] = {}
    BY Zenon DEF Restart
  <1>5. cap' = None /\ cached' = {} /\ restarts' \in Nat /\ restarts' # 0
    <2>1. cap' = None /\ cached' = {} /\ restarts' = restarts + 1
      BY Zenon DEF Restart
    <2>2. restarts + 1 \in Nat /\ restarts + 1 # 0
      BY <1>1
    <2>. QED  BY <2>1, <2>2, Zenon
  <1>6. Types'
    BY <1>1, <1>2, <1>3, <1>4, <1>5, Zenon
    DEF Types, ProviderTypes, CacheTypes, SecretTypes, CallTypes
  <1>7. LockInv'
    <2>1. "idle" \notin Locked
      BY Zenon DEF Locked
    <2>. QED  BY <1>2, <1>3, <2>1, SubmitAssumption, Zenon DEF LockInv, At
  <1>8. WorldInv'
    <2>1. Redeemed' /\ RecordedIsHeld' /\ EffectIsRecorded'
      BY <1>1, <1>4, <1>5, SubmitAssumption, Zenon
      DEF WorldInv, Redeemed, RecordedIsHeld, EffectIsRecorded
    <2>. QED  BY <1>1, <2>1, Zenon DEF WorldInv, ReplacementAfterAbsence
  <1>9. ASSUME NEW o \in Ops PROVE CallInv(o)'
    <2>1. effects'[o] \subseteq 1..row.gen' /\ (brain'[o] = "receipt" => call'[o].gen \in Gens)
      BY <1>1, <1>2, Zenon DEF SubmitInv, CallInv, Gen
    <2>. QED  BY <1>2, <2>1, IdleInv, Zenon
  <1>. QED  BY <1>5, <1>6, <1>7, <1>8, <1>9, Zenon DEF SubmitInv

-----------------------------------------------------------------------------
(* The theorems *)

\* SubmitInv holds from the start of the process through every step.
LEMMA SubmitAlways == Spec => []SubmitInv
  <1>1. Init => SubmitInv
    <2> SUFFICES ASSUME Init PROVE SubmitInv
      OBVIOUS
    <2>1. /\ \A o \in Ops : call[o] = Idle /\ effects[o] = {} /\ brain[o] = "intent"
          /\ \A g \in Gens : guard[g] = None /\ prepared[g] = {} /\ vm[g] = "absent"
          /\ \A k \in 1..MaxCaps, g \in Gens : redeemed[<<k, g>>] = 0
          /\ row = [state |-> "none", gen |-> 0] /\ restarts = 0
      BY Zenon DEF Init, Started
    <2>2. Types
      BY CallFields, SubmitAssumption
      DEF Init, Started, Types, ProviderTypes, CacheTypes, SecretTypes, CallTypes, Row
    <2>3. ASSUME NEW o \in Ops PROVE CallInv(o)
      BY <2>1 DEF CallInv, At, Gen, Idle, Bound, Repeats
    <2>4. LockInv
      BY <2>1, SubmitAssumption DEF LockInv, At, Idle, Locked
    <2>5. WorldInv
      BY <2>1, Zenon
      DEF WorldInv, Redeemed, RecordedIsHeld, EffectIsRecorded, ReplacementAfterAbsence
    <2>6. restarts \in Nat
      BY <2>1, Zenon
    <2>. QED  BY <2>2, <2>3, <2>4, <2>5, <2>6, Zenon DEF SubmitInv
  <1>2. SubmitInv /\ [Next]_vars => SubmitInv'
    <2> SUFFICES ASSUME SubmitInv, [Next]_vars PROVE SubmitInv'
      OBVIOUS
    <2>1. CASE UNCHANGED vars
      BY <2>1
      DEF vars, provider, guest, secret, SubmitInv, Types, ProviderTypes, CacheTypes, SecretTypes,
          CallTypes, CallInv, LockInv, WorldInv, Redeemed, RecordedIsHeld, EffectIsRecorded,
          ReplacementAfterAbsence, Current, Needed, At, Gen
    <2>2. ASSUME NEW o \in Ops, Step(o) PROVE SubmitInv'
      BY <2>2, TakeCapabilityKeeps, ConsumeKeeps, RedeemKeeps, AnsweredKeeps, FailedKeeps,
         ConfirmKeeps, CloseKeeps, Zenon
      DEF Step
    <2>. QED
      BY <2>1, <2>2, AskedKeeps, PrepareKeeps, RestartKeeps, FaultKeeps, Zenon DEF Next
  <1>. QED  BY <1>1, <1>2, PTL DEF Spec

\* For any number of operations, generations, faults and restarts: a submission that has no
\* receipt never closes an unexpired generation in which its effect has started, so its retry is
\* not carried to a second one.
THEOREM IntentCorrect == Spec => []IntentKeepsItsGeneration
  <1>1. SubmitInv => IntentKeepsItsGeneration
    <2>1. "close" \in Repeats
      BY Zenon DEF Repeats
    <2>. QED  BY <2>1, Zenon DEF SubmitInv, CallInv, IntentKeepsItsGeneration, Current
  <1>. QED  BY <1>1, SubmitAlways, PTL

\* install_for_operation is exact for any number of concurrent operations: a capability is
\* redeemed at most once for a generation, and a submission finds its binding and secrets.
THEOREM InstallationCorrect == Spec => []InstallationIsExact
  <1>1. SubmitInv => InstallationIsExact
    <2> SUFFICES ASSUME SubmitInv PROVE InstallationIsExact
      OBVIOUS
    <2>1. CapabilityRedeemedOnce
      <3>1. ASSUME NEW k \in 1..MaxCaps, NEW g \in Gens PROVE redeemed[<<k, g>>] <= 1
        <4>1. redeemed[<<k, g>>] \in {0, 1}
          BY Zenon DEF SubmitInv, WorldInv, Redeemed
        <4>. QED  BY <4>1
      <3>. QED  BY <3>1 DEF CapabilityRedeemedOnce
    <2>2. SubmitIsPrepared
      BY Zenon DEF SubmitInv, WorldInv, RecordedIsHeld, CallInv, SubmitIsPrepared
    <2>3. ASSUME NEW o \in Ops
          PROVE  (\E g \in Gens : guard[g] = o) <=> At(o) \in {"consume", "redeem", "secrets"}
      <3>1. At(o) \in Locked => Gen(o) \in Gens
        <4>1. At(o) \in Locked => At(o) # "idle"
          BY Zenon DEF Locked
        <4>. QED  BY <4>1, Generations, Zenon DEF SubmitInv, CallInv
      <3>. QED  BY <3>1, Zenon DEF SubmitInv, LockInv, Locked
    <2>4. TypeOK
      <3>1. row.state \in {"none", "installed", "lost", "terminated"} /\ row.gen \in 0..MaxGens
        BY Zenon DEF SubmitInv, Types, ProviderTypes, Row
      <3>. QED
        BY <2>3, <3>1, Zenon
        DEF SubmitInv, Types, ProviderTypes, CacheTypes, SecretTypes, CallTypes, TypeOK
    <2>. QED  BY <2>1, <2>2, <2>4, Zenon DEF InstallationIsExact
  <1>. QED  BY <1>1, SubmitAlways, PTL

\* No replacement exists, and no row is closed, while a machine of an earlier generation may run.
THEOREM ReplacementCorrect == Spec => []ReplacementAfterAbsence
  <1>1. SubmitInv => ReplacementAfterAbsence
    BY Zenon DEF SubmitInv, WorldInv
  <1>. QED  BY <1>1, SubmitAlways, PTL

-----------------------------------------------------------------------------
(* SessionPreparation: the definition rows of roots and sessions, and what is cached of them *)

CONSTANTS
    Preps, Installers, SessionRequests, Bytes, FetchMax, MaxBundleBytes, MaxBundles,
    MaxFetchBytes, MaxPreparationBytes, MaxPreparations, PageLimit, MaxCalls,
    Resolved, Purgeable

VARIABLES
    defs, sessions, sessionOrder, rootSessions, prepBytes, bundleOrder, bundleBytes, inFlight,
    prep, lent, purge, calls, prepRestarts

Prep == INSTANCE SessionPreparation WITH
            Requests <- SessionRequests, call <- prep, restarts <- prepRestarts

Stages == {"seal", "define", "admit", "fetch", "install", "release"}
Kinds == {"binding", "preparation", "root_seal"}
Fields == {"at", "req", "borrowed", "missing", "out"}
\* The rows D hold the seal of the request's root, and its session.
Sealed(D, r) ==
    \E d \in D : d.kind = "root_seal" /\ d.root = r.root /\ d.id = "physical" /\ d.digest = r.seal
Defined(D, r) ==
    \E d \in D : /\ d.kind = "preparation" /\ d.root = r.root /\ d.id = r.session
                 /\ d.digest = r.digest

\* A call c has a request, and the rows that it has written; its root is not being purged.
Backed(D, status, c) ==
    /\ DOMAIN c = Fields
    /\ \/ c.at = "idle" /\ c.req = None
       \/ /\ c.at \in Stages /\ c.req \in SessionRequests /\ status[c.req.root] = "no"
          /\ c.at # "seal" => Sealed(D, c.req)
          /\ c.at \notin {"seal", "define"} => Defined(D, c.req)
CallsBacked == DOMAIN prep = Preps /\ \A p \in Preps : Backed(defs, purge, prep[p])

\* A cached session is its request, and the root index lists it.
Held(D, status, s, r) ==
    /\ r.session = s /\ status[r.root] # "done"
    /\ status[r.root] = "no" => Sealed(D, r) /\ Defined(D, r)
SessionsBacked ==
    /\ sessions \in [Prep!Sessions -> SessionRequests \cup {None}]
    /\ \A s \in Prep!Sessions : sessions[s] # None => Held(defs, purge, s, sessions[s])
    /\ rootSessions =
          [r \in Prep!Roots |-> {s \in Prep!Sessions : sessions[s] # None /\ sessions[s].root = r}]

\* A purge that has confirmed the absence of rows stays right about it.
PurgesBacked ==
    /\ purge \in [Prep!Roots -> {"no", "definitions", "cache", "done"}]
    /\ \A d \in defs : /\ d.kind \in Kinds /\ d.root \in Prep!Roots
                       /\ purge[d.root] \in {"no", "definitions"}

DefinitionsInv == CallsBacked /\ SessionsBacked /\ PurgesBacked

-----------------------------------------------------------------------------
(* The steps, with what they do to rows, sessions and calls *)

\* Sessions of G are removed; session r is inserted.
Removed(G) ==
    /\ sessions' = [s \in Prep!Sessions |-> IF s \in G THEN None ELSE sessions[s]]
    /\ rootSessions' = [r \in Prep!Roots |-> rootSessions[r] \ G]
Inserted(r, G) ==
    /\ sessions' = [s \in Prep!Sessions |-> IF s = r.session THEN r
                                            ELSE IF s \in G THEN None ELSE sessions[s]]
    /\ rootSessions' = [t \in Prep!Roots |-> (rootSessions[t] \ (G \cup {r.session}))
                                             \cup (IF t = r.root THEN {r.session} ELSE {})]

Resolves ==
    /\ \E r \in SessionRequests : \E b :
          purge[r.root] = "no" /\ defs' = defs \cup {Prep!BindingRow(r, b)}
    /\ UNCHANGED <<sessions, rootSessions, prep, purge>>
Begins(p, r) ==
    /\ purge[r.root] = "no"
    /\ prep' = [prep EXCEPT ![p] = [Prep!Idle EXCEPT !.at = "seal", !.req = r]]
    /\ UNCHANGED <<defs, sessions, rootSessions, purge>>
Seals(p) ==
    /\ prep[p].at = "seal" /\ prep' = [prep EXCEPT ![p].at = "define"]
    /\ ~Prep!Conflicts("root_seal", prep[p].req.root, "physical", prep[p].req.seal)
    /\ Prep!Put("root_seal", prep[p].req.root, "physical", prep[p].req.seal)
    /\ UNCHANGED <<sessions, rootSessions, purge>>
Defines(p) ==
    /\ prep[p].at = "define" /\ prep' = [prep EXCEPT ![p].at = "admit"]
    /\ ~Prep!Conflicts("preparation", prep[p].req.root, prep[p].req.session, prep[p].req.digest)
    /\ Prep!Put("preparation", prep[p].req.root, prep[p].req.session, prep[p].req.digest)
    /\ UNCHANGED <<sessions, rootSessions, purge>>
Advances(p) ==
    /\ prep[p].at \in {"admit", "fetch", "install"}
    /\ \E at \in {"fetch", "install", "release"} : \E missing, borrowed :
          prep' = [prep EXCEPT ![p].at = at, ![p].missing = missing, ![p].borrowed = borrowed]
    /\ UNCHANGED <<sessions, rootSessions>> \/ \E G : Inserted(prep[p].req, G)
    /\ UNCHANGED <<defs, purge>>
Returns(p) ==
    /\ \E out : prep' = [prep EXCEPT ![p] = [Prep!Idle EXCEPT !.out = out]]
    /\ UNCHANGED <<sessions, rootSessions>> \/ \E G : Removed(G)
    /\ UNCHANGED <<defs, purge>>
Deletes(r) ==
    /\ purge[r] = "definitions"
    /\ \E D : (\A d \in D : d.root = r) /\ defs' = defs \ D
    /\ UNCHANGED <<sessions, rootSessions, prep, purge>>
Confirms(r) ==
    /\ purge[r] = "definitions" /\ Prep!Prefix(r) = {}
    /\ purge' = [purge EXCEPT ![r] = "cache"]
    /\ UNCHANGED <<defs, sessions, rootSessions, prep>>
Empties(r) ==
    /\ purge[r] = "cache"
    /\ \E S : /\ Removed(S)
              /\ purge' = [purge EXCEPT ![r] = IF S = rootSessions[r] THEN "done"
                                               ELSE "definitions"]
    /\ UNCHANGED <<defs, prep>>
Starts(r) ==
    /\ purge[r] = "no" /\ \A p \in Preps : prep[p].req # None => prep[p].req.root # r
    /\ purge' = [purge EXCEPT ![r] = "definitions"]
    /\ UNCHANGED <<defs, sessions, rootSessions, prep>>
Crashes ==
    /\ sessions' = [s \in Prep!Sessions |-> None] /\ rootSessions' = [r \in Prep!Roots |-> {}]
    /\ prep' = [p \in Preps |-> Prep!Idle]
    /\ purge' = [r \in Prep!Roots |-> IF purge[r] = "cache" THEN "definitions" ELSE purge[r]]
    /\ UNCHANGED defs

CacheStep ==
    \/ UNCHANGED <<defs, sessions, rootSessions, prep, purge>>
    \/ Resolves \/ Crashes
    \/ \E p \in Preps : \/ \E r \in SessionRequests : Begins(p, r)
                        \/ Seals(p) \/ Defines(p) \/ Advances(p) \/ Returns(p)
    \/ \E r \in Prep!Roots : Deletes(r) \/ Confirms(r) \/ Empties(r) \/ Starts(r)

\* Every step does one of these.
LEMMA CacheSteps ==
  ASSUME DefinitionsInv, [Prep!Next]_(Prep!vars)
  PROVE  CacheStep
  <1>1. CASE UNCHANGED Prep!vars
    BY <1>1, Zenon DEF Prep!vars, Prep!cacheVars, CacheStep
  <1>2. ASSUME NEW r \in SessionRequests, NEW b \in Prep!Bundles, Prep!ResolveBinding(r, b)
        PROVE  CacheStep
    BY <1>2, Zenon DEF Prep!ResolveBinding, Prep!cacheVars, Resolves, CacheStep
  <1>3. ASSUME NEW p \in Preps, NEW r \in SessionRequests, Prep!Prepare(p, r)
        PROVE  CacheStep
    BY <1>3, Zenon DEF Prep!Prepare, Prep!cacheVars, Begins, CacheStep
  <1>4. ASSUME NEW p \in Preps, Prep!SealRoot(p)
        PROVE  CacheStep
    <2>1. UNCHANGED <<sessions, rootSessions, purge>> /\ prep[p].at = "seal"
      BY <1>4, Zenon DEF Prep!SealRoot, Prep!cacheVars
    <2>2. CASE Prep!Conflicts("root_seal", prep[p].req.root, "physical", prep[p].req.seal)
      <3>1. Prep!Return(p, "generation_conflict") /\ UNCHANGED defs
        BY <1>4, <2>2, Zenon DEF Prep!SealRoot
      <3>2. Returns(p)
        BY <2>1, <3>1, Zenon DEF Returns, Prep!Return
      <3>. QED  BY <3>2, Zenon DEF CacheStep
    <2>3. CASE ~Prep!Conflicts("root_seal", prep[p].req.root, "physical", prep[p].req.seal)
      <3>1. /\ Prep!Put("root_seal", prep[p].req.root, "physical", prep[p].req.seal)
            /\ prep' = [prep EXCEPT ![p].at = "define"]
        BY <1>4, <2>3, Zenon DEF Prep!SealRoot
      <3>2. Seals(p)
        BY <2>1, <2>3, <3>1, Zenon DEF Seals
      <3>. QED  BY <3>2, Zenon DEF CacheStep
    <2>. QED  BY <2>2, <2>3, Zenon
  <1>5. ASSUME NEW p \in Preps, Prep!DefineSession(p)
        PROVE  CacheStep
    <2>1. UNCHANGED <<sessions, rootSessions, purge>> /\ prep[p].at = "define"
      BY <1>5, Zenon DEF Prep!DefineSession, Prep!cacheVars
    <2>2. CASE Prep!Conflicts("preparation", prep[p].req.root, prep[p].req.session,
                         prep[p].req.digest)
      <3>1. Prep!Return(p, "binding_conflict") /\ UNCHANGED defs
        BY <1>5, <2>2, Zenon DEF Prep!DefineSession
      <3>2. Returns(p)
        BY <2>1, <3>1, Zenon DEF Returns, Prep!Return
      <3>. QED  BY <3>2, Zenon DEF CacheStep
    <2>3. CASE ~Prep!Conflicts("preparation", prep[p].req.root, prep[p].req.session,
                          prep[p].req.digest)
      <3>1. /\ Prep!Put("preparation", prep[p].req.root, prep[p].req.session, prep[p].req.digest)
            /\ prep' = [prep EXCEPT ![p].at = "admit"]
        BY <1>5, <2>3, Zenon DEF Prep!DefineSession
      <3>2. Defines(p)
        BY <2>1, <2>3, <3>1, Zenon DEF Defines
      <3>. QED  BY <3>2, Zenon DEF CacheStep
    <2>. QED  BY <2>2, <2>3, Zenon
  <1>6. ASSUME NEW p \in Preps, Prep!AdmitFetch(p)
        PROVE  CacheStep
    <2>1. UNCHANGED <<defs, sessions, rootSessions, purge>> /\ prep[p].at = "admit"
      BY <1>6, Zenon DEF Prep!AdmitFetch
    <2>2. \/ Prep!Return(p, "exhausted")
          \/ \E missing, borrowed : prep' = [prep EXCEPT ![p].at = "fetch", ![p].missing = missing,
                                                         ![p].borrowed = borrowed]
      BY <1>6, Zenon DEF Prep!AdmitFetch
    <2>3. Returns(p) \/ Advances(p)
      BY <2>1, <2>2, Zenon DEF Returns, Prep!Return, Advances
    <2>. QED  BY <2>3, Zenon DEF CacheStep
  <1>7. ASSUME NEW p \in Preps, Prep!AdmitRefused(p) \/ Prep!PrepareFails(p) \/ Prep!Release(p)
        PROVE  CacheStep
    <2>1. (\E out : Prep!Return(p, out)) /\ UNCHANGED <<defs, sessions, rootSessions, purge>>
      BY <1>7, Zenon DEF Prep!AdmitRefused, Prep!PrepareFails, Prep!Release, Prep!cacheVars
    <2>2. Returns(p)
      BY <2>1, Zenon DEF Returns, Prep!Return
    <2>. QED  BY <2>2, Zenon DEF CacheStep
  <1>8. ASSUME NEW p \in Preps, Prep!FetchBundles(p)
        PROVE  CacheStep
    <2>1. UNCHANGED <<defs, sessions, rootSessions, purge>> /\ prep[p].at = "fetch"
          /\ prep' = [prep EXCEPT ![p].at = "install"]
      BY <1>8, Zenon DEF Prep!FetchBundles, Prep!cacheVars
    <2>2. prep' = [prep EXCEPT ![p].at = "install", ![p].missing = prep[p].missing,
                               ![p].borrowed = prep[p].borrowed]
      BY <2>1, Zenon DEF DefinitionsInv, CallsBacked, Backed, Fields
    <2>3. Advances(p)
      BY <2>1, <2>2, Zenon DEF Advances
    <2>. QED  BY <2>3, Zenon DEF CacheStep
  <1>9. ASSUME NEW p \in Preps, Prep!Install(p)
        PROVE  CacheStep
    <2>1. UNCHANGED <<defs, purge>> /\ prep[p].at = "install"
      BY <1>9, Zenon DEF Prep!Install
    <2>2. \/ /\ \E G : Prep!InsertSession(prep[p].req, G)
             /\ prep' = [prep EXCEPT ![p].at = "release"]
          \/ (\E out : Prep!Return(p, out)) /\ \E G : Prep!RemoveSessions(G)
      BY <1>9, Zenon DEF Prep!Install
    <2>3. CASE (\E out : Prep!Return(p, out)) /\ \E G : Prep!RemoveSessions(G)
      <3>1. Returns(p)
        BY <2>1, <2>3, Zenon DEF Returns, Prep!Return, Prep!RemoveSessions, Removed
      <3>. QED  BY <3>1, Zenon DEF CacheStep
    <2>4. CASE /\ \E G : Prep!InsertSession(prep[p].req, G)
               /\ prep' = [prep EXCEPT ![p].at = "release"]
      <3>1. prep' = [prep EXCEPT ![p].at = "release", ![p].missing = prep[p].missing,
                                 ![p].borrowed = prep[p].borrowed]
        BY <2>4, Zenon DEF DefinitionsInv, CallsBacked, Backed, Fields
      <3>2. \E G : Inserted(prep[p].req, G)
        BY <2>4, Zenon DEF Prep!InsertSession, Inserted
      <3>3. Advances(p)
        BY <2>1, <3>1, <3>2, Zenon DEF Advances
      <3>. QED  BY <3>3, Zenon DEF CacheStep
    <2>. QED  BY <2>2, <2>3, <2>4, Zenon
  <1>10. CASE \/ \E s \in Prep!Sessions : Prep!LookUp(s)
              \/ \E i \in Installers : Prep!GiveBack(i) \/ \E b \in Prep!Bundles : Prep!Borrow(i, b)
    BY <1>10, Zenon DEF Prep!LookUp, Prep!GiveBack, Prep!Borrow, Prep!cacheVars, CacheStep
  <1>11. ASSUME NEW r \in Prep!Roots, Prep!PurgeStart(r)
         PROVE  CacheStep
    BY <1>11, Zenon DEF Prep!PurgeStart, Prep!cacheVars, Starts, CacheStep
  <1>12. ASSUME NEW r \in Prep!Roots, Prep!PurgePage(r) \/ Prep!PurgePageFails(r)
         PROVE  CacheStep
    <2>1. \A d \in Prep!Prefix(r) : d.root = r
      BY Zenon DEF Prep!Prefix
    <2>2. PICK D \in SUBSET Prep!Prefix(r) : defs' = defs \ D
      BY <1>12, Zenon DEF Prep!PurgePage, Prep!PurgePageFails, Prep!FullPages, Prep!Pages
    <2>3. Deletes(r)
      BY <1>12, <2>1, <2>2, Zenon DEF Prep!PurgePage, Prep!PurgePageFails, Prep!cacheVars, Deletes
    <2>. QED  BY <2>3, Zenon DEF CacheStep
  <1>13. ASSUME NEW r \in Prep!Roots, Prep!PurgeConfirmed(r)
         PROVE  CacheStep
    BY <1>13, Zenon DEF Prep!PurgeConfirmed, Prep!cacheVars, Confirms, CacheStep
  <1>14. ASSUME NEW r \in Prep!Roots, Prep!PurgeCache(r)
         PROVE  CacheStep
    <2>1. Empties(r)
      BY <1>14, Zenon DEF Prep!PurgeCache, Prep!RemoveSessions, Removed, Empties
    <2>. QED  BY <2>1, Zenon DEF CacheStep
  <1>15. CASE Prep!Restart
    BY <1>15, Zenon DEF Prep!Restart, Crashes, CacheStep
  <1>16. CASE Prep!Next
    BY <1>2, <1>3, <1>4, <1>5, <1>6, <1>7, <1>8, <1>9, <1>10, <1>11, <1>12, <1>13, <1>14, <1>15,
       <1>16, Zenon
    DEF Prep!Next, Prep!PrepareStep, Prep!PurgeStep
  <1>. QED  BY <1>1, <1>16, Zenon

-----------------------------------------------------------------------------
(* The invariant *)

\* Rows of a root that stay keep what they seal and define.
LEMMA RowsStay ==
  ASSUME NEW D, NEW E, NEW r, \A d \in D : d.root = r.root => d \in E
  PROVE  (Sealed(D, r) => Sealed(E, r)) /\ (Defined(D, r) => Defined(E, r))
  BY Zenon DEF Sealed, Defined

\* The row is there, the other rows stay, and no other row appears.
Puts(kind, root, id, digest) ==
    /\ \E d \in defs' : d.kind = kind /\ d.root = root /\ d.id = id /\ d.digest = digest
    /\ defs \subseteq defs'
    /\ \A d \in defs' \ defs : d.kind = kind /\ d.root = root

\* A row is put, or an equal one was there before.
LEMMA Putting ==
  ASSUME NEW kind, NEW root, NEW id, NEW digest,
         ~Prep!Conflicts(kind, root, id, digest), Prep!Put(kind, root, id, digest)
  PROVE  Puts(kind, root, id, digest)
  <1>1. CASE Prep!Row(kind, root, id) = {}
    <2>. DEFINE e == [kind |-> kind, root |-> root, id |-> id, digest |-> digest]
    <2>1. defs' = defs \cup {e}
      BY <1>1, Zenon DEF Prep!Put
    <2>2. e.kind = kind /\ e.root = root /\ e.id = id /\ e.digest = digest
      OBVIOUS
    <2>. HIDE DEF e
    <2>. QED  BY <2>1, <2>2, Zenon DEF Puts
  <1>2. CASE Prep!Row(kind, root, id) # {}
    <2>1. defs' = defs
      BY <1>2, Zenon DEF Prep!Put
    <2>2. \E d \in defs : d.kind = kind /\ d.root = root /\ d.id = id /\ d.digest = digest
      BY <1>2, Zenon DEF Prep!Conflicts, Prep!Row
    <2>. QED  BY <2>1, <2>2, Zenon DEF Puts
  <1>. QED  BY <1>1, <1>2, Zenon

\* Sessions leave the cache and the index together.
LEMMA Removing ==
  ASSUME SessionsBacked, NEW G, Removed(G)
  PROVE  /\ sessions' \in [Prep!Sessions -> SessionRequests \cup {None}]
         /\ \A s \in Prep!Sessions : sessions'[s] # None => sessions'[s] = sessions[s] /\ s \notin G
         /\ rootSessions' = [r \in Prep!Roots |-> {s \in Prep!Sessions : sessions'[s] # None
                                                               /\ sessions'[s].root = r}]
  <1>1. sessions' = [s \in Prep!Sessions |-> IF s \in G THEN None ELSE sessions[s]]
    BY Zenon DEF Removed
  <1>2. /\ sessions' \in [Prep!Sessions -> SessionRequests \cup {None}]
        /\ \A s \in Prep!Sessions : sessions'[s] = IF s \in G THEN None ELSE sessions[s]
    BY <1>1, Zenon DEF SessionsBacked
  <1>3. ASSUME NEW r \in Prep!Roots
        PROVE  rootSessions[r] \ G =
               {s \in Prep!Sessions : sessions'[s] # None /\ sessions'[s].root = r}
    <2>1. rootSessions[r] = {s \in Prep!Sessions : sessions[s] # None /\ sessions[s].root = r}
      BY Zenon DEF SessionsBacked
    <2>. QED  BY <1>2, <2>1, Zenon
  <1>4. rootSessions' = [r \in Prep!Roots |-> rootSessions[r] \ G]
    BY Zenon DEF Removed
  <1>. QED  BY <1>2, <1>3, <1>4, Zenon

\* A session enters the cache and the index together.
LEMMA Inserting ==
  ASSUME SessionsBacked, NEW r \in SessionRequests, NEW G, Inserted(r, G),
      None \notin SessionRequests
  PROVE  /\ sessions' \in [Prep!Sessions -> SessionRequests \cup {None}]
         /\ \A s \in Prep!Sessions : sessions'[s] # None =>
               sessions'[s] = sessions[s] \/ (sessions'[s] = r /\ s = r.session)
         /\ rootSessions' = [t \in Prep!Roots |-> {s \in Prep!Sessions : sessions'[s] # None
                                                               /\ sessions'[s].root = t}]
  <1>. DEFINE new(s) == IF s = r.session THEN r ELSE IF s \in G THEN None ELSE sessions[s]
  <1>1. sessions' = [s \in Prep!Sessions |-> new(s)] /\ r.session \in Prep!Sessions
    BY Zenon DEF Inserted, Prep!Sessions
  <1>2. \A s \in Prep!Sessions : new(s) \in SessionRequests \cup {None}
    BY Zenon DEF SessionsBacked
  <1>3. /\ sessions' \in [Prep!Sessions -> SessionRequests \cup {None}]
        /\ \A s \in Prep!Sessions : sessions'[s] = new(s)
    BY <1>1, <1>2, Zenon
  <1>4. ASSUME NEW t \in Prep!Roots
        PROVE  (rootSessions[t] \ (G \cup {r.session}))
               \cup (IF t = r.root THEN {r.session} ELSE {})
               = {s \in Prep!Sessions : sessions'[s] # None /\ sessions'[s].root = t}
    <2>1. rootSessions[t] = {s \in Prep!Sessions : sessions[s] # None /\ sessions[s].root = t}
      BY Zenon DEF SessionsBacked
    <2>. DEFINE old == (rootSessions[t] \ (G \cup {r.session}))
                       \cup (IF t = r.root THEN {r.session} ELSE {})
                now == {s \in Prep!Sessions : sessions'[s] # None /\ sessions'[s].root = t}
    <2>2. r.session \in old <=> r.session \in now
      BY <1>1, <1>3, Zenon
    <2>3. \A s \in Prep!Sessions \ {r.session} : s \in old <=> s \in now
      BY <1>3, <2>1, Zenon
    <2>4. old \subseteq Prep!Sessions /\ now \subseteq Prep!Sessions
      BY <1>1, <2>1, Zenon
    <2>. HIDE DEF old, now
    <2>5. \A s : s \in old <=> s \in now
      BY <2>2, <2>3, <2>4, Zenon
    <2>6. old = now
      BY <2>5, Zenon
    <2>. QED  BY <2>6, Zenon DEF old, now
  <1>5. rootSessions' = [t \in Prep!Roots |-> (rootSessions[t] \ (G \cup {r.session}))
                                         \cup (IF t = r.root THEN {r.session} ELSE {})]
    BY Zenon DEF Inserted
  <1>6. \A s \in Prep!Sessions : sessions'[s] # None =>
               sessions'[s] = sessions[s] \/ (sessions'[s] = r /\ s = r.session)
    BY <1>3, Zenon
  <1>7. rootSessions' = [t \in Prep!Roots |-> {s \in Prep!Sessions : sessions'[s] # None
                                                           /\ sessions'[s].root = t}]
    BY <1>4, <1>5, Zenon
  <1>. HIDE DEF new
  <1>. QED  BY <1>3, <1>6, <1>7, Zenon

\* What a step must do to keep the calls: only that of p changes, and no row of a root that is not
\* being purged vanishes.
LEMMA OneCallMoves ==
  ASSUME CallsBacked, NEW p \in Preps, Backed(defs', purge', prep'[p]),
         DOMAIN prep' = Preps, \A q \in Preps \ {p} : prep'[q] = prep[q],
         defs \subseteq defs', UNCHANGED purge
  PROVE  CallsBacked'
  <1>1. ASSUME NEW q \in Preps \ {p}
        PROVE  Backed(defs', purge', prep'[q])
    <2>1. Backed(defs, purge, prep[q]) /\ prep'[q] = prep[q]
      BY Zenon DEF CallsBacked
    <2>2. /\ Sealed(defs, prep[q].req) => Sealed(defs', prep[q].req)
          /\ Defined(defs, prep[q].req) => Defined(defs', prep[q].req)
      BY RowsStay, Zenon
    <2>. QED  BY <2>1, <2>2, Zenon DEF Backed
  <1>. QED  BY <1>1, Zenon DEF CallsBacked

\* Rows that are added disturb no session.
LEMMA Growing ==
  ASSUME SessionsBacked, defs \subseteq defs', UNCHANGED <<purge, sessions, rootSessions>>
  PROVE  SessionsBacked'
  <1>1. ASSUME NEW s \in Prep!Sessions, sessions[s] # None
        PROVE  Held(defs', purge', s, sessions[s])
    <2>1. /\ Sealed(defs, sessions[s]) => Sealed(defs', sessions[s])
          /\ Defined(defs, sessions[s]) => Defined(defs', sessions[s])
      BY RowsStay, Zenon
    <2>. QED  BY <1>1, <2>1, Zenon DEF SessionsBacked, Held
  <1>. QED  BY <1>1, Zenon DEF SessionsBacked

\* The steps of a call.
LEMMA PreparationKept ==
  ASSUME Prep!Parameters, DefinitionsInv, NEW p \in Preps,
         \/ \E r \in SessionRequests : Begins(p, r)
         \/ Seals(p) \/ Defines(p) \/ Advances(p) \/ Returns(p)
  PROVE  DefinitionsInv'
  <1>1. CallsBacked /\ SessionsBacked /\ PurgesBacked /\ None \notin SessionRequests
    BY Zenon DEF DefinitionsInv, Prep!Parameters
  <1>2. DOMAIN prep = Preps /\ DOMAIN prep[p] = Fields /\ Backed(defs, purge, prep[p])
    BY <1>1, Zenon DEF CallsBacked, Backed
  <1>3. \A r \in SessionRequests : r.root \in Prep!Roots
    BY Zenon DEF Prep!Roots
  <1>4. ASSUME NEW c, prep' = [prep EXCEPT ![p] = c]
        PROVE  DOMAIN prep' = Preps /\ prep'[p] = c /\ \A q \in Preps \ {p} : prep'[q] = prep[q]
    BY <1>2, <1>4, Zenon
  <1>5. ASSUME NEW r \in SessionRequests, Begins(p, r)
        PROVE  DefinitionsInv'
    <2>. DEFINE c == [Prep!Idle EXCEPT !.at = "seal", !.req = r]
    <2>1. DOMAIN c = Fields /\ c.at = "seal" /\ c.req = r
      BY Zenon DEF Prep!Idle, Fields
    <2>2. /\ DOMAIN prep' = Preps /\ prep'[p] = c /\ \A q \in Preps \ {p} : prep'[q] = prep[q]
          /\ UNCHANGED <<defs, sessions, rootSessions, purge>> /\ purge[r.root] = "no"
      BY <1>4, <1>5, Zenon DEF Begins
    <2>. HIDE DEF c
    <2>3. Backed(defs', purge', c)
      BY <2>1, <2>2, Zenon DEF Backed, Stages
    <2>4. CallsBacked'
      BY <1>1, <2>2, <2>3, OneCallMoves, Zenon
    <2>5. SessionsBacked' /\ PurgesBacked'
      BY <1>1, <2>2, Growing, Zenon DEF PurgesBacked
    <2>. QED  BY <2>4, <2>5, Zenon DEF DefinitionsInv
  <1>6. CASE Seals(p)
    <2>1. PICK r \in SessionRequests : prep[p].req = r /\ purge[r.root] = "no"
      BY <1>2, <1>6, Zenon DEF Seals, Backed
    <2>. DEFINE c == [prep[p] EXCEPT !.at = "define"]
    <2>2. DOMAIN c = Fields /\ c.at = "define" /\ c.req = r
      BY <1>2, <2>1, Zenon DEF Fields
    <2>3. /\ DOMAIN prep' = Preps /\ prep'[p] = c /\ \A q \in Preps \ {p} : prep'[q] = prep[q]
          /\ UNCHANGED <<sessions, rootSessions, purge>>
      BY <1>4, <1>6, Zenon DEF Seals
    <2>4. /\ \E d \in defs' : d.kind = "root_seal" /\ d.root = r.root /\ d.id = "physical"
                              /\ d.digest = r.seal
          /\ defs \subseteq defs'
          /\ \A d \in defs' \ defs : d.kind = "root_seal" /\ d.root = r.root
      <3>1. /\ ~Prep!Conflicts("root_seal", r.root, "physical", r.seal)
            /\ Prep!Put("root_seal", r.root, "physical", r.seal)
        BY <1>6, <2>1, Zenon DEF Seals
      <3>2. Puts("root_seal", r.root, "physical", r.seal)
        BY <3>1, Putting, Zenon
      <3>. QED  BY <3>2, Zenon DEF Puts
    <2>. HIDE DEF c
    <2>5. Sealed(defs', r)
      BY <2>4, Zenon DEF Sealed
    <2>6. Backed(defs', purge', c)
      BY <2>1, <2>2, <2>3, <2>5, Zenon DEF Backed, Stages
    <2>7. CallsBacked'
      BY <1>1, <2>3, <2>4, <2>6, OneCallMoves, Zenon
    <2>8. SessionsBacked'
      BY <1>1, <2>3, <2>4, Growing, Zenon
    <2>9. PurgesBacked'
      BY <1>1, <1>3, <2>1, <2>3, <2>4, Zenon DEF PurgesBacked, Kinds
    <2>. QED  BY <2>7, <2>8, <2>9, Zenon DEF DefinitionsInv
  <1>7. CASE Defines(p)
    <2>1. PICK r \in SessionRequests : prep[p].req = r /\ purge[r.root] = "no" /\ Sealed(defs, r)
      BY <1>2, <1>7, Zenon DEF Defines, Backed
    <2>. DEFINE c == [prep[p] EXCEPT !.at = "admit"]
    <2>2. DOMAIN c = Fields /\ c.at = "admit" /\ c.req = r
      BY <1>2, <2>1, Zenon DEF Fields
    <2>3. /\ DOMAIN prep' = Preps /\ prep'[p] = c /\ \A q \in Preps \ {p} : prep'[q] = prep[q]
          /\ UNCHANGED <<sessions, rootSessions, purge>>
      BY <1>4, <1>7, Zenon DEF Defines
    <2>4. /\ \E d \in defs' : d.kind = "preparation" /\ d.root = r.root /\ d.id = r.session
                              /\ d.digest = r.digest
          /\ defs \subseteq defs'
          /\ \A d \in defs' \ defs : d.kind = "preparation" /\ d.root = r.root
      <3>1. /\ ~Prep!Conflicts("preparation", r.root, r.session, r.digest)
            /\ Prep!Put("preparation", r.root, r.session, r.digest)
        BY <1>7, <2>1, Zenon DEF Defines
      <3>2. Puts("preparation", r.root, r.session, r.digest)
        BY <3>1, Putting, Zenon
      <3>. QED  BY <3>2, Zenon DEF Puts
    <2>. HIDE DEF c
    <2>5. Sealed(defs', r) /\ Defined(defs', r)
      BY <2>1, <2>4, RowsStay, Zenon DEF Defined
    <2>6. Backed(defs', purge', c)
      BY <2>1, <2>2, <2>3, <2>5, Zenon DEF Backed, Stages
    <2>7. CallsBacked'
      BY <1>1, <2>3, <2>4, <2>6, OneCallMoves, Zenon
    <2>8. SessionsBacked'
      BY <1>1, <2>3, <2>4, Growing, Zenon
    <2>9. PurgesBacked'
      BY <1>1, <1>3, <2>1, <2>3, <2>4, Zenon DEF PurgesBacked, Kinds
    <2>. QED  BY <2>7, <2>8, <2>9, Zenon DEF DefinitionsInv
  <1>8. CASE Advances(p)
    <2>1. PICK r \in SessionRequests : /\ prep[p].req = r /\ purge[r.root] = "no"
                                       /\ Sealed(defs, r) /\ Defined(defs, r)
      BY <1>2, <1>8, Zenon DEF Advances, Backed
    <2>2. PICK at \in {"fetch", "install", "release"} : \E missing, borrowed :
            prep' = [prep EXCEPT ![p].at = at, ![p].missing = missing, ![p].borrowed = borrowed]
      BY <1>8, Zenon DEF Advances
    <2>3. PICK missing, borrowed :
            prep' = [prep EXCEPT ![p].at = at, ![p].missing = missing, ![p].borrowed = borrowed]
      BY <2>2, Zenon
    <2>. DEFINE c == [prep[p] EXCEPT !.at = at, !.missing = missing, !.borrowed = borrowed]
    <2>4. DOMAIN c = Fields /\ c.at = at /\ c.req = r
      BY <1>2, <2>1, Zenon DEF Fields
    <2>5. prep' = [prep EXCEPT ![p] = c]
      BY <1>2, <2>3, Zenon
    <2>. HIDE DEF c
    <2>6. /\ DOMAIN prep' = Preps /\ prep'[p] = c /\ \A q \in Preps \ {p} : prep'[q] = prep[q]
          /\ UNCHANGED <<defs, purge>>
      BY <1>4, <1>8, <2>5, Zenon DEF Advances
    <2>7. Backed(defs', purge', c)
      BY <2>1, <2>4, <2>6, Zenon DEF Backed, Stages
    <2>8. CallsBacked'
      BY <1>1, <2>6, <2>7, OneCallMoves, Zenon
    <2>9. PurgesBacked'
      BY <1>1, <2>6, Zenon DEF PurgesBacked
    <2>10. SessionsBacked'
      <3>1. CASE UNCHANGED <<sessions, rootSessions>>
        BY <1>1, <2>6, <3>1, Growing, Zenon
      <3>2. CASE \E G : Inserted(r, G)
        <4>1. PICK G : Inserted(r, G)
          BY <3>2, Zenon
        <4>2. /\ sessions' \in [Prep!Sessions -> SessionRequests \cup {None}]
              /\ \A s \in Prep!Sessions : sessions'[s] # None =>
                    sessions'[s] = sessions[s] \/ (sessions'[s] = r /\ s = r.session)
              /\ rootSessions' = [t \in Prep!Roots |-> {s \in Prep!Sessions : sessions'[s] # None
                                                                    /\ sessions'[s].root = t}]
          BY <1>1, <4>1, Inserting, Zenon
        <4>3. Held(defs, purge, r.session, r)
          BY <2>1, Zenon DEF Held
        <4>4. \A s \in Prep!Sessions : sessions'[s] # None => Held(defs, purge, s, sessions'[s])
          BY <1>1, <4>2, <4>3, Zenon DEF SessionsBacked
        <4>. QED  BY <2>6, <4>2, <4>4, Zenon DEF SessionsBacked
      <3>. QED  BY <1>8, <2>1, <3>1, <3>2, Zenon DEF Advances
    <2>. QED  BY <2>8, <2>9, <2>10, Zenon DEF DefinitionsInv
  <1>9. CASE Returns(p)
    <2>1. PICK out : prep' = [prep EXCEPT ![p] = [Prep!Idle EXCEPT !.out = out]]
      BY <1>9, Zenon DEF Returns
    <2>. DEFINE c == [Prep!Idle EXCEPT !.out = out]
    <2>2. DOMAIN c = Fields /\ c.at = "idle" /\ c.req = None
      BY Zenon DEF Prep!Idle, Fields
    <2>3. /\ DOMAIN prep' = Preps /\ prep'[p] = c /\ \A q \in Preps \ {p} : prep'[q] = prep[q]
          /\ UNCHANGED <<defs, purge>>
      BY <1>4, <1>9, <2>1, Zenon DEF Returns
    <2>. HIDE DEF c
    <2>4. Backed(defs', purge', c)
      BY <2>2, Zenon DEF Backed
    <2>5. CallsBacked'
      BY <1>1, <2>3, <2>4, OneCallMoves, Zenon
    <2>6. PurgesBacked'
      BY <1>1, <2>3, Zenon DEF PurgesBacked
    <2>7. SessionsBacked'
      <3>1. CASE UNCHANGED <<sessions, rootSessions>>
        BY <1>1, <2>3, <3>1, Growing, Zenon
      <3>2. CASE \E G : Removed(G)
        <4>1. PICK G : Removed(G)
          BY <3>2, Zenon
        <4>2. /\ sessions' \in [Prep!Sessions -> SessionRequests \cup {None}]
              /\ \A s \in Prep!Sessions : sessions'[s] # None => sessions'[s] = sessions[s]
              /\ rootSessions' = [t \in Prep!Roots |-> {s \in Prep!Sessions : sessions'[s] # None
                                                                    /\ sessions'[s].root = t}]
          BY <1>1, <4>1, Removing, Zenon
        <4>. QED  BY <1>1, <2>3, <4>2, Zenon DEF SessionsBacked
      <3>. QED  BY <1>9, <3>1, <3>2, Zenon DEF Returns
    <2>. QED  BY <2>5, <2>6, <2>7, Zenon DEF DefinitionsInv
  <1>. QED  BY <1>5, <1>6, <1>7, <1>8, <1>9, Zenon

\* The steps of a purge: a call keeps its root from being purged, and rows vanish only for a root
\* that is.
LEMMA PurgeKeeps ==
  ASSUME Prep!Parameters, DefinitionsInv, NEW r \in Prep!Roots,
         Deletes(r) \/ Confirms(r) \/ Empties(r) \/ Starts(r)
  PROVE  DefinitionsInv'
  <1>1. CallsBacked /\ SessionsBacked /\ PurgesBacked /\ None \notin SessionRequests
    BY Zenon DEF DefinitionsInv, Prep!Parameters
  <1>2. \A t \in SessionRequests : t.root \in Prep!Roots
    BY Zenon DEF Prep!Roots
  <1>3. /\ UNCHANGED prep /\ purge' \in [Prep!Roots -> {"no", "definitions", "cache", "done"}]
        /\ \A t \in Prep!Roots \ {r} : purge'[t] = purge[t]
        /\ purge'[r] # "no"
    BY <1>1, Zenon DEF Deletes, Confirms, Empties, Starts, PurgesBacked
  <1>4. \A d \in defs : d.root # r => d \in defs'
    BY Zenon DEF Deletes, Confirms, Empties, Starts
  <1>5. \A t : t.root # r => /\ Sealed(defs, t) => Sealed(defs', t)
                             /\ Defined(defs, t) => Defined(defs', t)
    <2>. SUFFICES ASSUME NEW t, t.root # r
                  PROVE  /\ Sealed(defs, t) => Sealed(defs', t)
                         /\ Defined(defs, t) => Defined(defs', t)
      BY Zenon
    <2>. QED  BY <1>4, RowsStay, Zenon
  <1>6. ASSUME NEW p \in Preps
        PROVE  Backed(defs', purge', prep[p])
    <2>1. Backed(defs, purge, prep[p])
      BY <1>1, Zenon DEF CallsBacked
    <2>2. CASE prep[p].at = "idle" /\ prep[p].req = None
      BY <2>1, <2>2, Zenon DEF Backed
    <2>3. CASE ~(prep[p].at = "idle" /\ prep[p].req = None)
      <3>1. prep[p].req \in SessionRequests /\ purge[prep[p].req.root] = "no" /\ prep[p].req # None
        BY <1>1, <2>1, <2>3, Zenon DEF Backed
      <3>2. prep[p].req.root # r
        BY <3>1, Zenon DEF Deletes, Confirms, Empties, Starts
      <3>. QED  BY <1>2, <1>3, <1>5, <2>1, <2>3, <3>1, <3>2, Zenon DEF Backed
    <2>. QED  BY <2>2, <2>3, Zenon
  <1>7. CallsBacked'
    BY <1>1, <1>3, <1>6, Zenon DEF CallsBacked
  <1>8. ASSUME NEW s \in Prep!Sessions, sessions[s] # None,
               sessions[s].root = r => purge'[r] # "done"
        PROVE  Held(defs', purge', s, sessions[s])
    <2>1. Held(defs, purge, s, sessions[s]) /\ sessions[s].root \in Prep!Roots
      BY <1>1, <1>2, <1>8, Zenon DEF SessionsBacked
    <2>2. CASE sessions[s].root = r
      BY <1>3, <1>8, <2>1, <2>2, Zenon DEF Held
    <2>3. CASE sessions[s].root # r
      BY <1>3, <1>5, <2>1, <2>3, Zenon DEF Held
    <2>. QED  BY <2>2, <2>3, Zenon
  <1>9. CASE Empties(r)
    <2>1. PICK S : /\ Removed(S)
                   /\ purge' = [purge EXCEPT ![r] = IF S = rootSessions[r] THEN "done"
                                                    ELSE "definitions"]
      BY <1>9, Zenon DEF Empties
    <2>2. /\ sessions' \in [Prep!Sessions -> SessionRequests \cup {None}]
          /\ \A s \in Prep!Sessions : sessions'[s] # None => sessions'[s] = sessions[s]
             /\ s \notin S
          /\ rootSessions' = [t \in Prep!Roots |-> {s \in Prep!Sessions : sessions'[s] # None
                                                                /\ sessions'[s].root = t}]
      BY <1>1, <2>1, Removing, Zenon
    <2>3. purge'[r] = "done" => S = rootSessions[r]
      BY <1>1, <2>1, Zenon DEF PurgesBacked
    <2>4. rootSessions[r] = {s \in Prep!Sessions : sessions[s] # None /\ sessions[s].root = r}
      BY <1>1, Zenon DEF SessionsBacked
    <2>5. ASSUME NEW s \in Prep!Sessions, sessions'[s] # None
          PROVE  Held(defs', purge', s, sessions'[s])
      <3>1. sessions'[s] = sessions[s] /\ s \notin S
        BY <2>2, <2>5, Zenon
      <3>2. sessions[s].root = r => purge'[r] # "done"
        BY <2>3, <2>4, <2>5, <3>1, Zenon
      <3>. QED  BY <1>8, <2>5, <3>1, <3>2, Zenon
    <2>6. SessionsBacked'
      BY <2>2, <2>5, Zenon DEF SessionsBacked
    <2>7. PurgesBacked'
      <3>1. UNCHANGED defs /\ purge[r] = "cache"
        BY <1>9, Zenon DEF Empties
      <3>. QED  BY <1>1, <1>3, <3>1, Zenon DEF PurgesBacked
    <2>. QED  BY <1>7, <2>6, <2>7, Zenon DEF DefinitionsInv
  <1>10. CASE Deletes(r) \/ Confirms(r) \/ Starts(r)
    <2>1. UNCHANGED <<sessions, rootSessions>> /\ purge'[r] # "done"
      BY <1>1, <1>10, Zenon DEF Deletes, Confirms, Starts, PurgesBacked
    <2>2. SessionsBacked'
      BY <1>1, <1>8, <2>1, Zenon DEF SessionsBacked
    <2>3. CASE Deletes(r) \/ Starts(r)
      <3>1. purge'[r] = "definitions" /\ defs' \subseteq defs
        BY <1>1, <2>3, Zenon DEF Deletes, Starts, PurgesBacked
      <3>2. PurgesBacked'
        BY <1>1, <1>3, <3>1, Zenon DEF PurgesBacked
      <3>. QED  BY <1>7, <2>2, <3>2, Zenon DEF DefinitionsInv
    <2>4. CASE Confirms(r)
      <3>1. UNCHANGED defs /\ Prep!Prefix(r) = {}
        BY <2>4, Zenon DEF Confirms
      <3>2. \A d \in defs : d.root # r
        BY <1>1, <3>1, Zenon DEF Prep!Prefix, PurgesBacked, Kinds
      <3>3. PurgesBacked'
        BY <1>1, <1>3, <3>1, <3>2, Zenon DEF PurgesBacked
      <3>. QED  BY <1>7, <2>2, <3>3, Zenon DEF DefinitionsInv
    <2>. QED  BY <1>10, <2>3, <2>4, Zenon
  <1>. QED  BY <1>9, <1>10, Zenon

\* The rows and the caches agree from the start, and after every step.
LEMMA DefinitionsAlways ==
  ASSUME Prep!Parameters
  PROVE  Prep!Spec => []DefinitionsInv
  <1>1. ASSUME Prep!Init
        PROVE  DefinitionsInv
    <2>1. CallsBacked
      <3>1. DOMAIN Prep!Idle = Fields /\ Prep!Idle.at = "idle" /\ Prep!Idle.req = None
        BY Zenon DEF Prep!Idle, Fields
      <3>2. DOMAIN prep = Preps /\ \A p \in Preps : prep[p] = Prep!Idle
        BY <1>1, Zenon DEF Prep!Init
      <3>. QED  BY <3>1, <3>2, Zenon DEF CallsBacked, Backed
    <2>2. SessionsBacked
      <3>1. \A s \in Prep!Sessions : sessions[s] = None
        BY <1>1, Zenon DEF Prep!Init
      <3>2. sessions \in [Prep!Sessions -> SessionRequests \cup {None}]
            /\ rootSessions = [r \in Prep!Roots |-> {}]
        BY <1>1, Zenon DEF Prep!Init
      <3>3. \A r \in Prep!Roots :
              {s \in Prep!Sessions : sessions[s] # None /\ sessions[s].root = r} = {}
        BY <3>1, Zenon
      <3>4. rootSessions = [r \in Prep!Roots |-> {s \in Prep!Sessions : sessions[s] # None
                                                              /\ sessions[s].root = r}]
        BY <3>2, <3>3, Zenon
      <3>. QED  BY <3>1, <3>2, <3>4, Zenon DEF SessionsBacked
    <2>3. PurgesBacked
      <3>1. purge \in [Prep!Roots -> {"no", "definitions", "cache", "done"}]
            /\ \A r \in Prep!Roots : purge[r] = "no"
        BY <1>1, Zenon DEF Prep!Init
      <3>2. ASSUME NEW d \in defs
            PROVE  d.kind = "binding" /\ d.root \in Prep!Roots
        <4>1. PICK r \in Resolved : d \in {Prep!BindingRow(r, b) : b \in r.need}
          BY <1>1, <3>2, Zenon DEF Prep!Init
        <4>2. PICK b \in r.need : d = Prep!BindingRow(r, b)
          BY <4>1, Zenon
        <4>3. r.root \in Prep!Roots
          BY Zenon DEF Prep!Roots, Prep!Parameters
        <4>. QED  BY <4>2, <4>3, Zenon DEF Prep!BindingRow
      <3>. QED  BY <3>1, <3>2, Zenon DEF PurgesBacked, Kinds
    <2>. QED  BY <2>1, <2>2, <2>3, Zenon DEF DefinitionsInv
  <1>2. ASSUME DefinitionsInv, [Prep!Next]_(Prep!vars)
        PROVE  DefinitionsInv'
    <2>1. CacheStep /\ CallsBacked /\ SessionsBacked /\ PurgesBacked
      BY <1>2, CacheSteps, Zenon DEF DefinitionsInv
    <2>2. CASE \E p \in Preps : \/ \E r \in SessionRequests : Begins(p, r)
                                \/ Seals(p) \/ Defines(p) \/ Advances(p) \/ Returns(p)
      BY <1>2, <2>2, PreparationKept, Zenon
    <2>3. CASE \E r \in Prep!Roots : Deletes(r) \/ Confirms(r) \/ Empties(r) \/ Starts(r)
      BY <1>2, <2>3, PurgeKeeps, Zenon
    <2>4. CASE UNCHANGED <<defs, sessions, rootSessions, prep, purge>>
      BY <2>1, <2>4, Zenon DEF DefinitionsInv, CallsBacked, SessionsBacked, PurgesBacked
    <2>5. CASE Resolves
      <3>1. PICK r \in SessionRequests : \E b : purge[r.root] = "no"
            /\ defs' = defs \cup {Prep!BindingRow(r, b)}
        BY <2>5, Zenon DEF Resolves
      <3>2. PICK b : purge[r.root] = "no" /\ defs' = defs \cup {Prep!BindingRow(r, b)}
        BY <3>1, Zenon
      <3>3. Prep!BindingRow(r, b).kind = "binding" /\ Prep!BindingRow(r, b).root = r.root
            /\ r.root \in Prep!Roots
        BY Zenon DEF Prep!BindingRow, Prep!Roots
      <3>4. UNCHANGED <<sessions, rootSessions, prep, purge>> /\ defs \subseteq defs'
        BY <2>5, <3>2, Zenon DEF Resolves
      <3>5. SessionsBacked'
        BY <2>1, <3>4, Growing, Zenon
      <3>6. CallsBacked'
        <4>1. ASSUME NEW p \in Preps
              PROVE  Backed(defs', purge', prep[p])
          <5>1. Backed(defs, purge, prep[p])
            BY <2>1, Zenon DEF CallsBacked
          <5>2. /\ Sealed(defs, prep[p].req) => Sealed(defs', prep[p].req)
                /\ Defined(defs, prep[p].req) => Defined(defs', prep[p].req)
            BY <3>4, RowsStay, Zenon
          <5>. QED  BY <3>4, <5>1, <5>2, Zenon DEF Backed
        <4>. QED  BY <2>1, <3>4, <4>1, Zenon DEF CallsBacked
      <3>7. PurgesBacked'
        BY <2>1, <3>2, <3>3, <3>4, Zenon DEF PurgesBacked, Kinds
      <3>. QED  BY <3>5, <3>6, <3>7, Zenon DEF DefinitionsInv
    <2>6. CASE Crashes
      <3>1. CallsBacked'
        <4>1. DOMAIN Prep!Idle = Fields /\ Prep!Idle.at = "idle" /\ Prep!Idle.req = None
          BY Zenon DEF Prep!Idle, Fields
        <4>2. DOMAIN prep' = Preps /\ \A p \in Preps : prep'[p] = Prep!Idle
          BY <2>6, Zenon DEF Crashes
        <4>. QED  BY <4>1, <4>2, Zenon DEF CallsBacked, Backed
      <3>2. SessionsBacked'
        <4>1. \A s \in Prep!Sessions : sessions'[s] = None
          BY <2>6, Zenon DEF Crashes
        <4>2. sessions' \in [Prep!Sessions -> SessionRequests \cup {None}]
              /\ rootSessions' = [r \in Prep!Roots |-> {}]
          BY <2>6, Zenon DEF Crashes
        <4>3. \A r \in Prep!Roots :
                {s \in Prep!Sessions : sessions'[s] # None /\ sessions'[s].root = r} = {}
          BY <4>1, Zenon
        <4>4. rootSessions' = [r \in Prep!Roots |-> {s \in Prep!Sessions : sessions'[s] # None
                                                                 /\ sessions'[s].root = r}]
          BY <4>2, <4>3, Zenon
        <4>. QED  BY <4>1, <4>2, <4>4, Zenon DEF SessionsBacked
      <3>3. PurgesBacked'
        BY <2>1, <2>6, Zenon DEF PurgesBacked, Crashes
      <3>. QED  BY <3>1, <3>2, <3>3, Zenon DEF DefinitionsInv
    <2>. QED  BY <2>1, <2>2, <2>3, <2>4, <2>5, <2>6, Zenon DEF CacheStep
  <1>. QED  BY <1>1, <1>2, PTL DEF Prep!Spec

\* DefinitionsCorrect: for every set of calls, requests and roots, what is cached for a session is
\* what its durable rows hold, and a root whose purge is done has left neither rows nor sessions,
\* whatever interleaving of prepares, evictions, partial deletes and restarts led there
\* (persist_preparation_definitions, PreparationStore::install, purge_tree).
THEOREM DefinitionsCorrect ==
  ASSUME Prep!Parameters
  PROVE  Prep!Spec => []Prep!DefinitionsHold
  <1>1. ASSUME DefinitionsInv
        PROVE  Prep!DefinitionsHold
    <2>1. Prep!CacheMatchesDefinitions
      <3>1. \A s \in Prep!Sessions : sessions[s] # None => Held(defs, purge, s, sessions[s])
        BY <1>1, Zenon DEF DefinitionsInv, SessionsBacked
      <3>2. ASSUME NEW s \in Prep!Sessions, sessions[s] # None, purge[sessions[s].root] = "no"
            PROVE  /\ \E d \in Prep!Row("preparation", sessions[s].root, s) :
                        d.digest = sessions[s].digest
                   /\ \E d \in Prep!Row("root_seal", sessions[s].root, "physical") :
                        d.digest = sessions[s].seal
        <4>1. Sealed(defs, sessions[s]) /\ Defined(defs, sessions[s]) /\ sessions[s].session = s
          BY <3>1, <3>2, Zenon DEF Held
        <4>. QED  BY <4>1, Zenon DEF Sealed, Defined, Prep!Row
      <3>. QED  BY <3>2, Zenon DEF Prep!CacheMatchesDefinitions
    <2>2. Prep!PurgedMeansGone
      <3>1. \A d \in defs : purge[d.root] \in {"no", "definitions"}
        BY <1>1, Zenon DEF DefinitionsInv, PurgesBacked
      <3>2. \A s \in Prep!Sessions : sessions[s] # None => purge[sessions[s].root] # "done"
        BY <1>1, Zenon DEF DefinitionsInv, SessionsBacked, Held
      <3>. QED  BY <3>1, <3>2, Zenon DEF Prep!PurgedMeansGone
    <2>. QED  BY <2>1, <2>2, Zenon DEF Prep!DefinitionsHold
  <1>. QED  BY <1>1, DefinitionsAlways, PTL

=============================================================================
