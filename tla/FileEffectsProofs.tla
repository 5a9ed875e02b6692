-------------------------- MODULE FileEffectsProofs --------------------------
(* Proofs about FileEffects for every choice of its constants, and at the end    *)
(* about the files themselves: LiveFiles, instantiated as Live.                  *)
EXTENDS FileEffects, FiniteSetTheorems, Sequences, TLAPS

Typed == TypeOK /\ CallsNameOps

\* The records of the log and the calls are well typed.
LEMMA Records ==
  /\ Idle \in Call /\ Idle.pc = "idle"
  /\ NoRecord \in Record
  /\ \A i \in Identities :
        /\ Intent(i) \in Record /\ Intent(i).id = i /\ ~Intent(i).done
        /\ Completed(i) \in Record /\ Completed(i).id = i /\ Completed(i).done
  BY Zenon DEF Idle, Calling, Call, NoRecord, Record, Intent, Completed

\* What a call is when it returns, and that no other call notices.
LEMMA ReturnStep ==
  ASSUME Typed, NEW c \in Callers, Return(c)
  PROVE  /\ call' \in [Callers -> Call] /\ CallsNameOps'
         /\ call'[c].pc = "idle"
         /\ \A d \in Callers : d # c => call'[d] = call[d]
  BY Records, Zenon DEF Typed, TypeOK, CallsNameOps, Return

\* A call that goes on keeps its operation and identity.
LEMMA GoToStep ==
  ASSUME Typed, NEW c \in Callers, call[c].pc # "idle",
         NEW pc \in {"effect", "complete"}, GoTo(c, pc)
  PROVE  /\ call' \in [Callers -> Call] /\ CallsNameOps'
         /\ call'[c].pc = pc /\ call'[c].op = call[c].op /\ call'[c].id = call[c].id
         /\ \A d \in Callers : d # c => call'[d] = call[d]
  <1>1. Calling(pc, call[c].op, call[c].id) \in Call
    BY Zenon DEF Typed, TypeOK, CallsNameOps, Calling, Call
  <1>. QED  BY <1>1, Zenon DEF Typed, TypeOK, CallsNameOps, GoTo, Calling

\* A call that is admitted by reserve holds its operation and identity.
LEMMA ReadyStep ==
  ASSUME Typed, NEW c \in Callers, NEW o \in Ops, NEW i \in Identities,
         call' = [call EXCEPT ![c] = Calling("ready", o, i)]
  PROVE  /\ call' \in [Callers -> Call] /\ CallsNameOps'
         /\ call'[c].pc = "ready"
         /\ \A d \in Callers : d # c => call'[d] = call[d]
  <1>1. Calling("ready", o, i) \in Call
    BY Zenon DEF Calling, Call
  <1>. QED  BY <1>1, Zenon DEF Typed, TypeOK, CallsNameOps, Calling

\* Opening the log ends the writes that ran in the guest and no other call.
LEMMA OpenedStep ==
  ASSUME Typed, NEW l \in [Ops -> Record], NEW b \in Nat, Opened(l, b)
  PROVE  /\ call' \in [Callers -> Call] /\ CallsNameOps'
         /\ \A c \in Callers : call'[c].pc # "idle" => call'[c] = call[c]
         /\ reserved' \in Nat /\ claim' \in [Ops -> BOOLEAN]
  <1>1. Cardinality(Incomplete(l)) \in Nat
    <2>1. Incomplete(l) \subseteq Ops
      BY Zenon DEF Incomplete
    <2>. QED  BY <2>1, FS_Subset, FS_CardinalityType, EffectAssumption, Zenon
  <1>2. reserved' \in Nat
    BY <1>1, EffectAssumption DEF Opened
  <1>. QED  BY <1>2, Records, Zenon DEF Typed, TypeOK, CallsNameOps, Opened

\* The first sync of a store call leaves a well-typed disk that is the old one
\* or the log, and clears dirty.
LEMMA PreSyncStep ==
  ASSUME Typed, PreSync
  PROVE  /\ disk' \in [Ops -> Record] /\ diskBytes' \in Nat /\ dirty' = FALSE
         /\ \/ disk' = log /\ diskBytes' = bytes
            \/ ~dirty /\ disk' = disk /\ diskBytes' = diskBytes
  BY Zenon DEF Typed, TypeOK, PreSync, Synced

\* Failures are counted.
LEMMA IoErrorType ==
  ASSUME Typed, IoError
  PROVE  failures' \in [restarts : Nat, crashes : Nat, io : Nat]
  BY DEF Typed, TypeOK, IoError

\* What is on disk after an append: all of it, or what was there before.
LEMMA AppendSyncStep ==
  ASSUME Typed, NEW l \in [Ops -> Record], NEW b \in Nat, AppendSync(l, b)
  PROVE  /\ disk' \in [Ops -> Record] /\ diskBytes' \in Nat /\ dirty' \in BOOLEAN
         /\ failures' \in [restarts : Nat, crashes : Nat, io : Nat]
         /\ \/ disk' = l /\ diskBytes' = b /\ dirty' = FALSE
            \/ disk' = log /\ diskBytes' = bytes /\ dirty' = TRUE
            \/ disk' = disk /\ diskBytes' = diskBytes /\ dirty' = TRUE
  BY IoErrorType, Zenon DEF Typed, TypeOK, AppendSync, Synced

\* As long as an operation is incomplete, its result has its bytes reserved.
LEMMA ReservationHeld ==
  ASSUME TypeOK, LogFits, NEW o \in Incomplete(log)
  PROVE  reserved >= ResultBytes
  <1>1. Incomplete(log) \subseteq Ops /\ IsFiniteSet(Incomplete(log))
    BY FS_Subset, EffectAssumption, Zenon DEF Incomplete
  <1>2. Cardinality(Incomplete(log)) \in Nat /\ Cardinality(Incomplete(log)) # 0
    BY <1>1, FS_CardinalityType, FS_EmptySet, Zenon
  <1>3. \A n \in Nat, r \in Nat : n # 0 => r * n >= r
    OBVIOUS
  <1>. QED  BY <1>2, <1>3, EffectAssumption, Zenon DEF LogFits

-----------------------------------------------------------------------------
(* One effect per operation *)

\* An empty log satisfies the invariant.
LEMMA EffectInit == Init => EffectInv
  <1>1. Init => TypeOK
    <2>. SUFFICES ASSUME Init PROVE TypeOK
      OBVIOUS
    <2>1. log \in [Ops -> Record] /\ disk \in [Ops -> Record] /\ call \in [Callers -> Call]
      BY Records, Zenon DEF Init
    <2>2. failures \in [restarts : Nat, crashes : Nat, io : Nat] /\ ambiguous \subseteq Ops
      BY Zenon DEF Init
    <2>. QED  BY <2>1, <2>2, Zenon DEF Init, TypeOK
  <1>2. Init => CallsNameOps /\ LogExtendsDisk /\ ClaimsAreFresh /\ ClaimantsAreAlone
    BY Records, Zenon
    DEF Init, NoRecord, CallsNameOps, LogExtendsDisk, ClaimsAreFresh, ClaimantsAreAlone
  <1>3. Init => EffectAtMostOnce /\ IntentIsDurable /\ ResultMeansEffect
    BY DEF Init, NoRecord, EffectAtMostOnce, IntentIsDurable, ResultMeansEffect
  <1>. QED  BY <1>1, <1>2, <1>3, Zenon DEF EffectInv

\* The parts of the invariant that are about the log and the effects.
Fenced ==
    /\ LogExtendsDisk /\ ClaimsAreFresh /\ ClaimantsAreAlone
    /\ EffectAtMostOnce /\ IntentIsDurable /\ ResultMeansEffect

\* A store call that changes no record, whatever its caller does next short of
\* the effect, keeps the invariant.
LEMMA QuietStep ==
  ASSUME EffectInv, UNCHANGED <<log, effects>>,
         dirty' = FALSE \/ dirty' = dirty,
         \/ dirty' = FALSE /\ disk' = log
         \/ dirty' = dirty /\ disk' = disk,
         \A o \in Ops : claim'[o] => claim[o],
         \A c \in Callers : call'[c].pc \in {"effect", "complete"} => call'[c] = call[c]
  PROVE  Fenced'
  BY DEF Fenced, EffectInv, TypeOK, LogExtendsDisk, ClaimsAreFresh, ClaimantsAreAlone,
         EffectAtMostOnce, IntentIsDurable, ResultMeansEffect, CallsNameOps, Record, Call

\* Admission of a new intent.
LEMMA ReserveNewEffect ==
  ASSUME EffectInv, NEW c \in Callers, NEW o \in Ops, NEW i \in Identities,
         ReserveNew(c, o, i)
  PROVE  EffectInv'
  <1>. USE DEF EffectInv
  <1>t. Typed  BY Zenon DEF Typed
  <1>1. /\ log' \in [Ops -> Record] /\ bytes' \in Nat /\ reserved' \in Nat
        /\ claim' \in [Ops -> BOOLEAN]
        /\ log'[o].id = i /\ ~log'[o].done
        /\ \A p \in Ops : p # o => log'[p] = log[p] /\ claim'[p] = claim[p]
    BY Records, EffectAssumption DEF ReserveNew, TypeOK
  <1>2. /\ disk' \in [Ops -> Record] /\ diskBytes' \in Nat /\ dirty' \in BOOLEAN
        /\ failures' \in [restarts : Nat, crashes : Nat, io : Nat]
        /\ \/ disk' = log' /\ dirty' = FALSE
           \/ disk' = log /\ dirty' = TRUE
           \/ disk' = disk /\ dirty' = TRUE
    BY <1>t, <1>1, AppendSyncStep, Zenon DEF ReserveNew
  <1>3. /\ call' \in [Callers -> Call] /\ CallsNameOps'
        /\ \A d \in Callers : call'[d].pc \in {"effect", "complete"} => call'[d] = call[d]
    <2>1. CASE call' = call
      BY <2>1, Zenon DEF TypeOK, CallsNameOps
    <2>2. CASE call' = [call EXCEPT ![c] = Calling("ready", o, i)]
      BY <2>2, <1>t, ReadyStep, Zenon
    <2>. QED  BY <2>1, <2>2, Zenon DEF ReserveNew
  <1>4. TypeOK'
    BY <1>1, <1>2, <1>3, Zenon DEF TypeOK, ReserveNew, history
  <1>5. effects' = effects /\ log[o].id = None
    BY Zenon DEF ReserveNew, history
  <1>6. effects[o] = 0 /\ disk[o].id = None
    BY <1>5 DEF TypeOK, IntentIsDurable, LogExtendsDisk
  <1>7. ~log[o].done /\ ~disk[o].done
    BY <1>6 DEF ResultMeansEffect
  <1>8. LogExtendsDisk'
    BY <1>1, <1>2, <1>5, <1>6, <1>7, Zenon DEF LogExtendsDisk
  <1>9. ClaimsAreFresh'
    BY <1>1, <1>2, <1>5, <1>6, EffectAssumption DEF ClaimsAreFresh
  <1>10. ClaimantsAreAlone'
    BY <1>1, <1>2, <1>3, <1>5, <1>6, <1>8
       DEF ClaimantsAreAlone, CallsNameOps, LogExtendsDisk
  <1>11. EffectAtMostOnce' /\ IntentIsDurable'
    BY <1>1, <1>2, <1>5, <1>6 DEF EffectAtMostOnce, IntentIsDurable, LogExtendsDisk, TypeOK
  <1>12. ResultMeansEffect'
    BY <1>1, <1>2, <1>5, <1>6, Zenon DEF ResultMeansEffect
  <1>. QED  BY <1>3, <1>4, <1>8, <1>9, <1>10, <1>11, <1>12, Zenon

\* Store calls that change no record: refusals, replays, ambiguous answers,
\* failed syncs and calls that end.
LEMMA QuietEffect ==
  ASSUME EffectInv, NEW c \in Callers,
         \/ Refused(c) \/ PreSyncFails(c) \/ ClaimRefused(c) \/ CompleteFails(c) \/ Abandon(c)
         \/ \E o \in Ops, i \in Identities : ReserveAgain(c, o, i) \/ ReserveAmbiguous(c, o, i)
  PROVE  EffectInv'
  <1>. USE DEF EffectInv
  <1>t. Typed  BY Zenon DEF Typed
  <1>1. /\ UNCHANGED <<log, bytes, reserved, claim, effects>>
        /\ ambiguous' \subseteq Ops
    BY Zenon
    DEF Refused, PreSyncFails, ClaimRefused, CompleteFails, Abandon, ReserveAgain, ReserveAmbiguous,
        history, TypeOK, CallsNameOps
  <1>2. /\ call' \in [Callers -> Call] /\ CallsNameOps'
        /\ \A d \in Callers : call'[d].pc \in {"effect", "complete"} => call'[d] = call[d]
    <2>1. CASE Return(c)
      BY <2>1, <1>t, ReturnStep, Zenon
    <2>2. CASE call' = call
      BY <2>2, Zenon DEF TypeOK, CallsNameOps
    <2>3. ASSUME NEW o \in Ops, NEW i \in Identities, ReserveAgain(c, o, i)
          PROVE  /\ call' \in [Callers -> Call] /\ CallsNameOps'
                 /\ \A d \in Callers :
                        call'[d].pc \in {"effect", "complete"} => call'[d] = call[d]
      BY <2>3, <1>t, ReadyStep, Zenon DEF ReserveAgain
    <2>4. \/ Return(c) \/ call' = call
          \/ \E o \in Ops, i \in Identities : ReserveAgain(c, o, i)
      BY Zenon
      DEF Refused, PreSyncFails, ClaimRefused, CompleteFails, Abandon, ReserveAmbiguous, history
    <2>. QED  BY <2>1, <2>2, <2>3, <2>4, Zenon
  <1>3. /\ disk' \in [Ops -> Record] /\ diskBytes' \in Nat /\ dirty' \in BOOLEAN
        /\ \/ dirty' = FALSE /\ disk' = log
           \/ dirty' = dirty /\ disk' = disk
    <2>1. CASE PreSync
      BY <2>1, <1>t, PreSyncStep, Zenon DEF TypeOK
    <2>2. CASE UNCHANGED <<disk, diskBytes, dirty>>
      BY <2>2, Zenon DEF TypeOK
    <2>. QED  BY <2>1, <2>2, Zenon
              DEF Refused, PreSyncFails, ClaimRefused, CompleteFails, Abandon, ReserveAgain,
                  ReserveAmbiguous
  <1>4. failures' \in [restarts : Nat, crashes : Nat, io : Nat]
    BY <1>t, IoErrorType, Zenon
    DEF Refused, PreSyncFails, ClaimRefused, CompleteFails, Abandon, ReserveAgain, ReserveAmbiguous,
        TypeOK
  <1>5. TypeOK'
    BY <1>1, <1>2, <1>3, <1>4, Zenon DEF TypeOK
  <1>6. Fenced'
    BY <1>1, <1>2, <1>3, QuietStep, Zenon
  <1>. QED  BY <1>2, <1>5, <1>6, Zenon DEF Fenced

\* The claim passes from the record to one caller, with a durable intent.
LEMMA ClaimEffect ==
  ASSUME EffectInv, NEW c \in Callers, Claim(c)
  PROVE  EffectInv'
  <1>. USE DEF EffectInv
  <1>t. Typed  BY Zenon DEF Typed
  <1>. PICK o \in Ops : o = call[c].op
    BY Zenon DEF Claim, CallsNameOps
  <1>1. /\ UNCHANGED <<log, bytes, reserved, effects, ambiguous, failures>>
        /\ claim[o] /\ ~claim'[o] /\ claim' \in [Ops -> BOOLEAN]
        /\ \A p \in Ops : p # o => claim'[p] = claim[p]
    BY Zenon DEF Claim, history, TypeOK
  <1>2. /\ call' \in [Callers -> Call] /\ CallsNameOps'
        /\ call'[c].pc = "effect" /\ call'[c].op = o
        /\ \A d \in Callers : d # c => call'[d] = call[d]
    BY <1>t, GoToStep, Zenon DEF Claim
  <1>3. /\ disk' \in [Ops -> Record] /\ diskBytes' \in Nat /\ dirty' = FALSE
        /\ disk' = log \/ (~dirty /\ disk' = disk)
    BY <1>t, PreSyncStep, Zenon DEF Claim
  <1>4. TypeOK'
    BY <1>1, <1>2, <1>3, Zenon DEF TypeOK
  <1>5. LogExtendsDisk' /\ ClaimsAreFresh'
    BY <1>1, <1>3, Zenon DEF LogExtendsDisk, ClaimsAreFresh
  <1>6. EffectAtMostOnce' /\ IntentIsDurable' /\ ResultMeansEffect'
    BY <1>1, <1>3 DEF EffectAtMostOnce, IntentIsDurable, ResultMeansEffect, LogExtendsDisk, TypeOK
  <1>7. effects[o] = 0 /\ disk'[o].id # None
    BY <1>1, <1>3, Zenon DEF ClaimsAreFresh
  <1>8. \A d \in Callers : call[d].pc = "effect" => call[d].op # o
    BY <1>1, Zenon DEF ClaimantsAreAlone
  <1>9. \A p \in Ops : disk[p].id # None => disk'[p].id # None
    BY <1>3, Zenon DEF LogExtendsDisk
  <1>10. ClaimantsAreAlone'
    BY <1>1, <1>2, <1>7, <1>8, <1>9 DEF ClaimantsAreAlone, CallsNameOps
  <1>. QED  BY <1>2, <1>4, <1>5, <1>6, <1>10, Zenon

\* The effect happens, and its caller goes on to complete it or fails.
LEMMA EffectEffect ==
  ASSUME EffectInv, NEW c \in Callers, Effect(c) \/ EffectFails(c)
  PROVE  EffectInv'
  <1>. USE DEF EffectInv
  <1>t. Typed  BY Zenon DEF Typed
  <1>. PICK o \in Ops : o = call[c].op
    BY Zenon DEF Effect, EffectFails, CallsNameOps
  <1>1. /\ UNCHANGED <<log, bytes, disk, diskBytes, dirty, reserved, claim, ambiguous, failures>>
        /\ call[c].pc = "effect"
    BY Zenon DEF Effect, EffectFails
  <1>2. ~claim[o] /\ effects[o] = 0 /\ disk[o].id # None
    BY <1>1, Zenon DEF ClaimantsAreAlone
  <1>3. /\ effects' \in [Ops -> Nat] /\ effects'[o] \in {0, 1}
        /\ \A p \in Ops : p # o => effects'[p] = effects[p]
    BY <1>2 DEF Effect, EffectFails, TypeOK
  <1>4. /\ call' \in [Callers -> Call] /\ CallsNameOps'
        /\ \/ call'[c].pc = "idle"
           \/ call'[c].pc = "complete" /\ call'[c].op = o /\ effects'[o] = 1
        /\ \A d \in Callers : d # c => call'[d] = call[d]
    <2>1. CASE Effect(c)
      BY <2>1, <1>t, <1>2, GoToStep DEF Effect, TypeOK
    <2>2. CASE EffectFails(c)
      BY <2>2, <1>t, ReturnStep, Zenon DEF EffectFails
    <2>. QED  BY <2>1, <2>2, Zenon
  <1>5. TypeOK'
    BY <1>1, <1>3, <1>4, Zenon DEF TypeOK
  <1>6. LogExtendsDisk' /\ ClaimsAreFresh'
    BY <1>1, <1>2, <1>3, Zenon DEF LogExtendsDisk, ClaimsAreFresh
  <1>7. EffectAtMostOnce' /\ IntentIsDurable'
    BY <1>1, <1>2, <1>3 DEF EffectAtMostOnce, IntentIsDurable
  <1>8. ResultMeansEffect'
    BY <1>1, <1>2, <1>3, Zenon DEF ResultMeansEffect
  <1>9. \A d \in Callers : d # c /\ call[d].pc \in {"effect", "complete"} => call[d].op # o
    BY <1>1, <1>2 DEF ClaimantsAreAlone
  <1>10. ClaimantsAreAlone'
    BY <1>1, <1>2, <1>3, <1>4, <1>9 DEF ClaimantsAreAlone, CallsNameOps
  <1>. QED  BY <1>4, <1>5, <1>6, <1>7, <1>8, <1>10, Zenon

\* The result is committed.
LEMMA CompleteEffect ==
  ASSUME EffectInv, LogFits, NEW c \in Callers, NEW n \in Nat, Complete(c, n)
  PROVE  EffectInv'
  <1>. USE DEF EffectInv
  <1>t. Typed  BY Zenon DEF Typed
  <1>. PICK o \in Ops, i \in Identities : o = call[c].op /\ i = call[c].id
    BY Zenon DEF Complete, CallsNameOps
  <1>1. /\ UNCHANGED <<claim, effects, ambiguous>> /\ call[c].pc = "complete"
        /\ log[o].id = i /\ log[o] = Intent(i)
        /\ log' \in [Ops -> Record] /\ log'[o].id = i /\ bytes' \in Nat
        /\ \A p \in Ops : p # o => log'[p] = log[p]
    BY Records DEF Complete, TypeOK, history
  <1>2. reserved' \in Nat
    <2>1. o \in Incomplete(log)
      BY <1>1, Records, EffectAssumption DEF Incomplete
    <2>2. reserved >= ResultBytes
      BY <2>1, ReservationHeld, Zenon
    <2>. QED  BY <2>2, EffectAssumption DEF Complete, TypeOK
  <1>3. /\ disk' \in [Ops -> Record] /\ diskBytes' \in Nat /\ dirty' \in BOOLEAN
        /\ failures' \in [restarts : Nat, crashes : Nat, io : Nat]
        /\ \/ disk' = log' /\ dirty' = FALSE
           \/ disk' = log /\ dirty' = TRUE
           \/ disk' = disk /\ dirty' = TRUE
    BY <1>t, <1>1, AppendSyncStep, Zenon DEF Complete
  <1>4. /\ call' \in [Callers -> Call] /\ CallsNameOps' /\ call'[c].pc = "idle"
        /\ \A d \in Callers : d # c => call'[d] = call[d]
    BY <1>t, ReturnStep, Zenon DEF Complete
  <1>5. TypeOK'
    BY <1>1, <1>2, <1>3, <1>4, Zenon DEF TypeOK
  <1>6. effects[o] = 1 /\ ~claim[o]
    BY <1>1, Zenon DEF ClaimantsAreAlone
  <1>7. LogExtendsDisk'
    BY <1>1, <1>3, Records, EffectAssumption DEF LogExtendsDisk, Complete, TypeOK
  <1>8. ClaimsAreFresh'
    BY <1>1, <1>3, EffectAssumption DEF ClaimsAreFresh
  <1>9. EffectAtMostOnce' /\ IntentIsDurable'
    BY <1>1, <1>3, EffectAssumption DEF EffectAtMostOnce, IntentIsDurable, LogExtendsDisk
  <1>10. ResultMeansEffect'
    BY <1>1, <1>3, <1>6, Zenon DEF ResultMeansEffect
  <1>11. ClaimantsAreAlone'
    BY <1>1, <1>3, <1>4, <1>9, EffectAssumption DEF ClaimantsAreAlone, CallsNameOps, LogExtendsDisk
  <1>. QED  BY <1>4, <1>5, <1>7, <1>8, <1>9, <1>10, <1>11, Zenon

\* Opening the log after a restart or a crash hands out no claim.
LEMMA OpenedEffect ==
  ASSUME EffectInv, Restart \/ Crash
  PROVE  EffectInv'
  <1>. USE DEF EffectInv
  <1>t. Typed  BY Zenon DEF Typed
  <1>1. PICK l \in [Ops -> Record], b \in Nat :
           /\ Opened(l, b) /\ disk' \in [Ops -> Record] /\ diskBytes' \in Nat
           /\ \/ l = log /\ disk' = log
              \/ l = log /\ disk' = disk
              \/ l = disk /\ disk' = disk
    BY Zenon DEF Restart, Crash, TypeOK
  <1>2. /\ call' \in [Callers -> Call] /\ CallsNameOps'
        /\ \A c \in Callers : call'[c].pc # "idle" => call'[c] = call[c]
        /\ reserved' \in Nat /\ claim' \in [Ops -> BOOLEAN]
    BY <1>1, <1>t, OpenedStep, Zenon
  <1>3. /\ log' = l /\ bytes' = b /\ dirty' = FALSE /\ UNCHANGED <<effects, ambiguous>>
        /\ \A o \in Ops : ~claim'[o]
    BY <1>1, Zenon DEF Opened, history
  <1>4. failures' \in [restarts : Nat, crashes : Nat, io : Nat]
    BY DEF Restart, Crash, TypeOK
  <1>5. TypeOK'
    BY <1>1, <1>2, <1>3, <1>4, Zenon DEF TypeOK
  <1>6. LogExtendsDisk' /\ ClaimsAreFresh'
    BY <1>1, <1>3, Zenon DEF LogExtendsDisk, ClaimsAreFresh
  <1>7. EffectAtMostOnce' /\ IntentIsDurable' /\ ResultMeansEffect'
    BY <1>1, <1>3, Zenon
    DEF EffectAtMostOnce, IntentIsDurable, ResultMeansEffect, LogExtendsDisk, TypeOK, Record
  <1>8. ClaimantsAreAlone'
    BY <1>1, <1>2, <1>3 DEF ClaimantsAreAlone, CallsNameOps, LogExtendsDisk, TypeOK, Record
  <1>. QED  BY <1>2, <1>5, <1>6, <1>7, <1>8, Zenon

-----------------------------------------------------------------------------
(* The log fits *)

\* The bytes that the results of the open intents of a log will need.
Owed(l) == ResultBytes * Cardinality(Incomplete(l))

\* Owed grows by one result with an intent and shrinks by one with its result.
LEMMA OwedStep ==
  ASSUME NEW l, NEW m, NEW o \in Ops,
         o \notin Incomplete(l), o \in Incomplete(m),
         \A p \in Ops : p # o => l[p] = m[p]
  PROVE  Owed(l) \in Nat /\ Owed(m) = Owed(l) + ResultBytes
  <1>1. Incomplete(m) = Incomplete(l) \cup {o} /\ IsFiniteSet(Incomplete(l))
    <2>1. Incomplete(l) \subseteq Ops
      BY Zenon DEF Incomplete
    <2>. QED  BY <2>1, FS_Subset, EffectAssumption, Zenon DEF Incomplete
  <1>2. /\ Cardinality(Incomplete(l)) \in Nat
        /\ Cardinality(Incomplete(m)) = Cardinality(Incomplete(l)) + 1
    BY <1>1, FS_AddElement, FS_CardinalityType, Zenon
  <1>3. \A n \in Nat, r \in Nat : r * n \in Nat /\ r * (n + 1) = r * n + r
    OBVIOUS
  <1>. QED  BY <1>2, <1>3, EffectAssumption, Zenon DEF Owed

\* Owed is a number of bytes.
LEMMA OwedType == ASSUME NEW l PROVE Owed(l) \in Nat
  <1>1. Incomplete(l) \subseteq Ops
    BY Zenon DEF Incomplete
  <1>2. Cardinality(Incomplete(l)) \in Nat
    BY <1>1, FS_Subset, FS_CardinalityType, EffectAssumption, Zenon
  <1>3. \A n \in Nat, r \in Nat : r * n \in Nat
    OBVIOUS
  <1>. QED  BY <1>2, <1>3, EffectAssumption, Zenon DEF Owed

\* LogFits in terms of Owed.
Fits ==
    /\ reserved = Owed(log) /\ bytes + reserved <= MaxBytes
    /\ diskBytes + Owed(disk) <= MaxBytes

\* The admission of an intent checks that its result fits as well.
LEMMA ReserveNewFits ==
  ASSUME EffectInv, Fits, NEW c \in Callers, NEW o \in Ops, NEW i \in Identities,
         ReserveNew(c, o, i)
  PROVE  Fits'
  <1>t. Typed /\ TypeOK  BY Zenon DEF Typed, EffectInv
  <1>1. /\ log' \in [Ops -> Record] /\ bytes' = bytes + IntentBytes
        /\ reserved' = reserved + ResultBytes
        /\ bytes + reserved + IntentBytes + ResultBytes <= MaxBytes
        /\ log[o].id = None /\ log'[o] = Intent(i)
        /\ \A p \in Ops : p # o => log[p] = log'[p]
    BY <1>t, Records, Zenon DEF ReserveNew, HasRoom, TypeOK
  <1>2. o \notin Incomplete(log) /\ o \in Incomplete(log')
    BY <1>1, Records, EffectAssumption DEF Incomplete
  <1>3. Owed(log) \in Nat /\ Owed(log') = Owed(log) + ResultBytes
    BY <1>1, <1>2, OwedStep, Zenon
  <1>4. \/ disk' = log' /\ diskBytes' = bytes'
        \/ disk' = log /\ diskBytes' = bytes
        \/ disk' = disk /\ diskBytes' = diskBytes
    <2>1. bytes' \in Nat
      BY <1>1, <1>t, EffectAssumption DEF TypeOK
    <2>. QED  BY <1>t, <1>1, <2>1, AppendSyncStep, Zenon DEF ReserveNew
  <1>5. Owed(disk)' = Owed(disk') /\ Owed(log)' = Owed(log')
    BY Zenon DEF Owed, Incomplete
  <1>. QED  BY <1>t, <1>1, <1>3, <1>4, <1>5, EffectAssumption DEF Fits, TypeOK

\* A result takes no more than what was reserved for it.
LEMMA CompleteFits ==
  ASSUME EffectInv, Fits, NEW c \in Callers, NEW n \in Nat, Complete(c, n)
  PROVE  Fits'
  <1>t. Typed /\ TypeOK  BY Zenon DEF Typed, EffectInv
  <1>. PICK o \in Ops, i \in Identities : o = call[c].op /\ i = call[c].id
    BY Zenon DEF Complete, CallsNameOps, EffectInv
  <1>1. /\ log' \in [Ops -> Record] /\ bytes' = bytes + n /\ n <= ResultBytes
        /\ reserved' = reserved - ResultBytes
        /\ log[o] = Intent(i) /\ log'[o] = Completed(i)
        /\ \A p \in Ops : p # o => log[p] = log'[p]
    BY <1>t, Records, Zenon DEF Complete, TypeOK
  <1>2. o \in Incomplete(log) /\ o \notin Incomplete(log')
    BY <1>1, Records, EffectAssumption DEF Incomplete
  <1>3. Owed(log') \in Nat /\ Owed(log) = Owed(log') + ResultBytes
    BY <1>1, <1>2, OwedStep, Zenon
  <1>4. \/ disk' = log' /\ diskBytes' = bytes'
        \/ disk' = log /\ diskBytes' = bytes
        \/ disk' = disk /\ diskBytes' = diskBytes
    <2>1. bytes' \in Nat
      BY <1>1, <1>t DEF TypeOK
    <2>. QED  BY <1>t, <1>1, <2>1, AppendSyncStep, Zenon DEF Complete
  <1>5. Owed(disk)' = Owed(disk') /\ Owed(log)' = Owed(log')
    BY Zenon DEF Owed, Incomplete
  <1>. QED  BY <1>t, <1>1, <1>3, <1>4, <1>5, EffectAssumption DEF Fits, TypeOK

\* The other steps leave the log alone, bring the disk up to it, or go back to
\* the disk.
LEMMA QuietFits ==
  ASSUME TypeOK, Fits,
         \/ UNCHANGED <<log, bytes, reserved>>
         \/ log' = log /\ bytes' = bytes /\ reserved' = Owed(log)
         \/ log' = disk /\ bytes' = diskBytes /\ reserved' = Owed(disk),
         \/ disk' = log /\ diskBytes' = bytes
         \/ UNCHANGED <<disk, diskBytes>>
  PROVE  Fits'
  <1>1. Owed(disk)' = Owed(disk') /\ Owed(log)' = Owed(log')
    BY Zenon DEF Owed, Incomplete
  <1>. QED  BY <1>1, OwedType, Zenon DEF Fits, TypeOK

-----------------------------------------------------------------------------
(* The theorems *)

EffectIInv == EffectInv /\ Fits

\* Fits is LogFits.
LEMMA FitsIsLogFits == Fits <=> LogFits
  BY Zenon DEF Fits, LogFits, Owed

\* Every step of the store, its callers and the machine keeps the invariant.
LEMMA EffectStep == EffectIInv /\ [Next]_vars => EffectIInv'
  <1>. SUFFICES ASSUME EffectIInv, [Next]_vars PROVE EffectIInv'
    OBVIOUS
  <1>. USE DEF EffectIInv
  <1>t. Typed /\ TypeOK /\ LogFits
    BY FitsIsLogFits, Zenon DEF EffectInv, Typed
  <1>1. ASSUME NEW c \in Callers, NEW o \in Ops, NEW i \in Identities, ReserveNew(c, o, i)
        PROVE  EffectIInv'
    BY <1>1, ReserveNewEffect, ReserveNewFits, Zenon
  <1>2. ASSUME NEW c \in Callers,
               \/ Refused(c) \/ PreSyncFails(c) \/ ClaimRefused(c) \/ CompleteFails(c) \/ Abandon(c)
               \/ \E o \in Ops, i \in Identities : ReserveAgain(c, o, i) \/ ReserveAmbiguous(c, o, i)
        PROVE  EffectIInv'
    <2>1. EffectInv'
      BY <1>2, QuietEffect, Zenon
    <2>2. UNCHANGED <<log, bytes, reserved>> /\ (PreSync \/ UNCHANGED <<disk, diskBytes>>)
      BY <1>2, Zenon
      DEF Refused, PreSyncFails, ClaimRefused, CompleteFails, Abandon, ReserveAgain,
          ReserveAmbiguous
    <2>3. (disk' = log /\ diskBytes' = bytes) \/ UNCHANGED <<disk, diskBytes>>
      BY <2>2, <1>t, PreSyncStep, Zenon
    <2>. QED  BY <1>t, <2>1, <2>2, <2>3, QuietFits, Zenon
  <1>3. ASSUME NEW c \in Callers, Claim(c) PROVE EffectIInv'
    <2>1. UNCHANGED <<log, bytes, reserved>> /\ PreSync
      BY <1>3, Zenon DEF Claim
    <2>2. (disk' = log /\ diskBytes' = bytes) \/ UNCHANGED <<disk, diskBytes>>
      BY <2>1, <1>t, PreSyncStep, Zenon
    <2>. QED  BY <1>3, <1>t, <2>1, <2>2, ClaimEffect, QuietFits, Zenon
  <1>4. ASSUME NEW c \in Callers, Effect(c) \/ EffectFails(c) PROVE EffectIInv'
    <2>1. UNCHANGED <<log, bytes, reserved>> /\ UNCHANGED <<disk, diskBytes>>
      BY <1>4, Zenon DEF Effect, EffectFails
    <2>. QED  BY <1>4, <1>t, <2>1, EffectEffect, QuietFits, Zenon
  <1>5. ASSUME NEW c \in Callers, NEW n \in 1..ResultBytes + 1, Complete(c, n) PROVE EffectIInv'
    <2>1. n \in Nat
      BY EffectAssumption
    <2>. QED  BY <1>5, <1>t, <2>1, CompleteEffect, CompleteFits, Zenon
  <1>6. CASE Restart \/ Crash
    <2>1. \/ log' = log /\ bytes' = bytes /\ reserved' = Owed(log)
          \/ log' = disk /\ bytes' = diskBytes /\ reserved' = Owed(disk)
      BY <1>6, Zenon DEF Restart, Crash, Opened, Owed
    <2>2. (disk' = log /\ diskBytes' = bytes) \/ UNCHANGED <<disk, diskBytes>>
      BY <1>6, Zenon DEF Restart, Crash
    <2>. QED  BY <1>6, <1>t, <2>1, <2>2, OpenedEffect, QuietFits, Zenon
  <1>7. CASE UNCHANGED vars
    <2>1. EffectInv'
      BY <1>7, Zenon
      DEF vars, history, EffectInv, TypeOK, CallsNameOps, LogExtendsDisk, ClaimsAreFresh,
          ClaimantsAreAlone, EffectAtMostOnce, IntentIsDurable, ResultMeansEffect
    <2>2. UNCHANGED <<log, bytes, reserved>> /\ UNCHANGED <<disk, diskBytes>>
      BY <1>7, Zenon DEF vars
    <2>. QED  BY <1>t, <2>1, <2>2, QuietFits, Zenon
  <1>. QED  BY <1>1, <1>2, <1>3, <1>4, <1>5, <1>6, <1>7, Zenon DEF Next, Reserve

\* The invariant holds throughout.
LEMMA EffectCorrect == Spec => []EffectIInv
  <1>1. Init => Fits
    <2>. SUFFICES ASSUME Init PROVE Fits
      OBVIOUS
    <2>2. Incomplete(log) = {} /\ Incomplete(disk) = {}
      BY Zenon DEF Init, Incomplete, NoRecord
    <2>3. Owed(log) = 0 /\ Owed(disk) = 0
      BY <2>2, FS_EmptySet, EffectAssumption DEF Owed
    <2>. QED  BY <2>3, EffectAssumption DEF Init, Fits
  <1>2. Init => EffectIInv
    BY <1>1, EffectInit, Zenon DEF EffectIInv
  <1>. QED  BY <1>2, EffectStep, PTL DEF Spec

-----------------------------------------------------------------------------
(* An ambiguous answer is final *)

\* Failures are only ever counted up.
Grows == /\ failures' \in [restarts : Nat, crashes : Nat, io : Nat]
         /\ failures'.io >= failures.io /\ failures'.restarts >= failures.restarts
         /\ failures'.crashes >= failures.crashes

\* What a step does to the durable part of the log: a store call that appends
\* nothing may bring it up to date; an append ends clean and durable, or dirty.
Written == /\ log' = log /\ failures'.restarts = failures.restarts
           /\ \/ disk' = log /\ dirty' = FALSE
              \/ disk' = disk /\ dirty' = dirty
Appended == /\ failures'.restarts = failures.restarts
            /\ \/ disk' = log' /\ dirty' = FALSE
               \/ dirty' = TRUE /\ failures'.io > 0

\* What every step does to the log, its durable part and the failures.
LEMMA StepsOfLog ==
  ASSUME EffectInv, Next
  PROVE  Grows /\ (Written \/ Appended \/ Restart \/ Crash)
  <1>. USE DEF EffectInv
  <1>t. TypeOK /\ Typed  BY Zenon DEF Typed
  <1>1. IoError => Grows /\ failures'.restarts = failures.restarts /\ failures'.io > 0
    BY <1>t DEF IoError, Grows, TypeOK
  <1>2. UNCHANGED failures => Grows /\ failures'.restarts = failures.restarts
    BY <1>t DEF Grows, TypeOK
  <1>3. PreSync => (disk' = log /\ dirty' = FALSE) \/ (disk' = disk /\ dirty' = dirty)
    BY Zenon DEF PreSync, Synced
  <1>4. ASSUME NEW l, NEW b, AppendSync(l, b), log' = l
        PROVE  Grows /\ Appended
    BY <1>4, <1>1, <1>2, Zenon DEF AppendSync, Synced, Appended
  <1>5. ASSUME NEW c \in Callers, NEW o \in Ops, NEW i \in Identities,
               ReserveNew(c, o, i) \/ ReserveAgain(c, o, i) \/ ReserveAmbiguous(c, o, i)
        PROVE  Grows /\ (Written \/ Appended)
    <2>1. CASE ReserveNew(c, o, i)
      BY <2>1, <1>4, Zenon DEF ReserveNew
    <2>2. CASE ReserveAgain(c, o, i) \/ ReserveAmbiguous(c, o, i)
      BY <2>2, <1>2, <1>3, Zenon DEF ReserveAgain, ReserveAmbiguous, Written
    <2>. QED  BY <1>5, <2>1, <2>2, Zenon
  <1>6. ASSUME NEW c \in Callers, NEW n, Complete(c, n)
        PROVE  Grows /\ Appended
    BY <1>6, <1>4, Zenon DEF Complete
  <1>7. ASSUME NEW c \in Callers,
               \/ Refused(c) \/ PreSyncFails(c) \/ Claim(c) \/ ClaimRefused(c)
               \/ Effect(c) \/ EffectFails(c) \/ CompleteFails(c) \/ Abandon(c)
        PROVE  Grows /\ Written
    <2>1. log' = log /\ (UNCHANGED failures \/ IoError)
      BY <1>7, Zenon
      DEF Refused, PreSyncFails, Claim, ClaimRefused, Effect, EffectFails, CompleteFails, Abandon
    <2>2. PreSync \/ UNCHANGED <<disk, dirty>>
      BY <1>7, Zenon
      DEF Refused, PreSyncFails, Claim, ClaimRefused, Effect, EffectFails, CompleteFails, Abandon
    <2>. QED  BY <2>1, <2>2, <1>1, <1>2, <1>3, Zenon DEF Written
  <1>8. Restart \/ Crash => Grows
    BY <1>t DEF Restart, Crash, Grows, TypeOK
  <1>. QED  BY <1>5, <1>6, <1>7, <1>8, Zenon DEF Next, Reserve

\* A clean log is durable, as long as no restart has followed a failed sync.
LEMMA CleanStep ==
  ASSUME EffectInv, CleanIsDurable, Next
  PROVE  CleanIsDurable'
  <1>t. TypeOK  BY Zenon DEF EffectInv
  <1>1. Grows /\ (Written \/ Appended \/ Restart \/ Crash)
    BY StepsOfLog, Zenon
  <1>2. failures'.io = 0 => failures.io = 0
    BY <1>t, <1>1 DEF Grows, TypeOK
  <1>3. CASE Written
    BY <1>2, <1>3 DEF Written, CleanIsDurable
  <1>4. CASE Appended
    BY <1>4 DEF Appended, CleanIsDurable
  <1>5. CASE Restart
    <2>1. log' = log /\ disk' = disk /\ dirty' = FALSE /\ failures'.restarts # 0
      BY <1>5, <1>t DEF Restart, Opened, TypeOK
    <2>. QED  BY <2>1, <1>2, Zenon DEF CleanIsDurable
  <1>6. CASE Crash
    <2>1. disk' = log' /\ dirty' = FALSE
      BY <1>6, Zenon DEF Crash, Opened
    <2>. QED  BY <2>1, Zenon DEF CleanIsDurable
  <1>. QED  BY <1>1, <1>3, <1>4, <1>5, <1>6, Zenon

\* An operation stays settled while its record stays, its claim stays away and
\* no call starts to work on it.
LEMMA SettledKept ==
  ASSUME EffectInv, Grows, NEW o \in Ops, Settled(o),
         log'[o] = log[o], claim'[o] => claim[o],
         disk'[o].id = disk[o].id \/ disk'[o].id = log[o].id,
         \A c \in Callers :
             \/ call'[c].pc \notin {"effect", "complete"}
             \/ call'[c].op # o
             \/ call'[c] = call[c]
             \/ call[c].pc = "effect" /\ call'[c].op = call[c].op /\ call'[c].id = call[c].id
  PROVE  Settled(o)'
  <1>1. Unlocked(o)'
    BY Zenon DEF Settled, Unlocked, InWrite
  <1>2. failures.io > 0 /\ failures.restarts > 0 => failures'.io > 0 /\ failures'.restarts > 0
    BY DEF EffectInv, TypeOK, Grows
  <1>. QED  BY <1>1, <1>2, Zenon DEF Settled

\* Work on an operation begins with the claim and ends with the result: neither
\* is possible for one that is settled.
LEMMA NobodyIsAtWork ==
  ASSUME EffectInv, NEW o \in Ops, Settled(o), NEW c \in Callers
  PROVE  /\ Claim(c) => call[c].op # o
         /\ \A n : Complete(c, n) => call[c].op # o
         /\ \A p \in Ops, i \in Identities : ReserveNew(c, p, i) => p # o
  <1>1. Claim(c) => call[c].op # o
    BY Zenon DEF Claim, Settled
  <1>2. ASSUME NEW n, Complete(c, n), call[c].op = o PROVE FALSE
    <2>1. log[o] = Intent(call[c].id) /\ call[c].id \in Identities /\ call[c].pc = "complete"
      BY <1>2, Zenon DEF Complete, EffectInv, CallsNameOps
    <2>2. call[c].id \notin Exports
      BY <2>1, Records, Zenon DEF Settled
    <2>. QED  BY <1>2, <2>1, <2>2, Zenon DEF Settled, Unlocked, InWrite
  <1>3. \A p \in Ops, i \in Identities : ReserveNew(c, p, i) => p # o
    BY Zenon DEF ReserveNew, Settled
  <1>. QED  BY <1>1, <1>2, <1>3, Zenon

\* The answer "ambiguous" is given under the shard lock, with the log synced.
LEMMA AmbiguousAnswer ==
  ASSUME EffectInv, CleanIsDurable, NEW c \in Callers, NEW o \in Ops, NEW i \in Identities \ Exports,
         Unlocked(o), log[o] = Intent(i), ~claim[o], PreSync, UNCHANGED <<log, claim, failures>>,
         \A d \in Callers : call'[d] = call[d] \/ call'[d].pc = "idle"
  PROVE  Settled(o)'
  <1>1. log'[o].id = i /\ ~log'[o].done /\ i # None
    BY Records, EffectAssumption, Zenon
  <1>2. Unlocked(o)'
    BY Zenon DEF Unlocked, InWrite
  <1>3. disk'[o].id # None \/ (failures'.io > 0 /\ failures'.restarts > 0)
    <2>1. CASE disk' = log
      BY <2>1, <1>1, Zenon
    <2>2. CASE ~dirty /\ disk' = disk
      <3>1. disk = log \/ (failures.io # 0 /\ failures.restarts # 0)
        BY <2>2, Zenon DEF CleanIsDurable
      <3>. QED  BY <2>2, <3>1, <1>1 DEF EffectInv, TypeOK
    <2>. QED  BY <2>1, <2>2, Zenon DEF PreSync, Synced
  <1>. QED  BY <1>1, <1>2, <1>3, Zenon DEF Settled

\* Every step keeps the operations settled that were answered as ambiguous.
LEMMA AmbiguousStep ==
  ASSUME EffectInv, EffectInv', CleanIsDurable, AmbiguousIsSettled, Next
  PROVE  AmbiguousIsSettled'
  <1>. USE DEF EffectInv
  <1>t. TypeOK /\ Typed /\ Grows
    BY StepsOfLog, Zenon DEF Typed
  <1>. SUFFICES ASSUME NEW o \in Ops, o \in ambiguous'
                PROVE  \/ Settled(o)'
                       \/ failures'.io > 0 /\ failures'.restarts > 0 /\ failures'.crashes > 0
    BY <1>t, Zenon DEF AmbiguousIsSettled, TypeOK
  <1>0. o \in ambiguous => \/ Settled(o)
                           \/ failures'.io > 0 /\ failures'.restarts > 0 /\ failures'.crashes > 0
    BY <1>t DEF AmbiguousIsSettled, Grows, TypeOK
  <1>1. ASSUME NEW c \in Callers, NEW p \in Ops, NEW i \in Identities, ReserveNew(c, p, i), Settled(o)
        PROVE  Settled(o)'
    <2>1. p # o
      BY <1>1, NobodyIsAtWork, Zenon
    <2>2. log'[o] = log[o] /\ claim'[o] = claim[o]
      BY <1>1, <2>1, <1>t, Zenon DEF ReserveNew, TypeOK
    <2>3. \A d \in Callers : call'[d] = call[d] \/ call'[d].pc \notin {"effect", "complete"}
      BY <1>1, <1>t, ReadyStep, Zenon DEF ReserveNew
    <2>4. disk' = log' \/ disk' = log \/ disk' = disk
      BY <1>1, Zenon DEF ReserveNew, AppendSync, Synced
    <2>. QED  BY <1>1, <1>t, <2>2, <2>3, <2>4, SettledKept, Zenon
  <1>2. ASSUME NEW c \in Callers,
               \/ Refused(c) \/ PreSyncFails(c) \/ ClaimRefused(c) \/ CompleteFails(c) \/ Abandon(c)
               \/ \E p \in Ops, i \in Identities : ReserveAgain(c, p, i) \/ ReserveAmbiguous(c, p, i),
               Settled(o)
        PROVE  Settled(o)'
    <2>1. UNCHANGED <<log, claim>> /\ (disk' = log \/ disk' = disk)
      BY <1>2, Zenon
      DEF Refused, PreSyncFails, ClaimRefused, CompleteFails, Abandon, ReserveAgain,
          ReserveAmbiguous, PreSync, Synced
    <2>2. \A d \in Callers : call'[d] = call[d] \/ call'[d].pc \notin {"effect", "complete"}
      <3>1. CASE Return(c)
        BY <3>1, <1>t, ReturnStep, Zenon
      <3>2. CASE \E p \in Ops, i \in Identities : ReserveAgain(c, p, i)
        BY <3>2, <1>t, ReadyStep, ZenonT(60) DEF ReserveAgain
      <3>. QED  BY <1>2, <3>1, <3>2, Zenon
                DEF Refused, PreSyncFails, ClaimRefused, CompleteFails, Abandon, ReserveAmbiguous
    <2>. QED  BY <1>2, <1>t, <2>1, <2>2, SettledKept, Zenon
  <1>3. ASSUME NEW c \in Callers, Claim(c), Settled(o)
        PROVE  Settled(o)'
    <2>1. call[c].op # o /\ call[c].op \in Ops
      BY <1>3, NobodyIsAtWork, Zenon DEF Claim, CallsNameOps
    <2>2. log' = log /\ claim'[o] = claim[o] /\ (disk' = log \/ disk' = disk)
      BY <1>3, <2>1, <1>t, Zenon DEF Claim, PreSync, Synced, TypeOK
    <2>3. \A d \in Callers : call'[d] = call[d] \/ call'[d].op # o
      BY <1>3, <1>t, <2>1, GoToStep, Zenon DEF Claim
    <2>. QED  BY <1>3, <1>t, <2>2, <2>3, SettledKept, Zenon
  <1>4. ASSUME NEW c \in Callers, Effect(c) \/ EffectFails(c), Settled(o)
        PROVE  Settled(o)'
    <2>1. UNCHANGED <<log, claim, disk>> /\ call[c].pc = "effect"
      BY <1>4, Zenon DEF Effect, EffectFails
    <2>2. \A d \in Callers :
             \/ call'[d] = call[d] \/ call'[d].pc = "idle"
             \/ d = c /\ call'[d].op = call[d].op /\ call'[d].id = call[d].id
      BY <1>4, <1>t, <2>1, GoToStep, ReturnStep, Zenon DEF Effect, EffectFails
    <2>. QED  BY <1>4, <1>t, <2>1, <2>2, SettledKept, Zenon
  <1>5. ASSUME NEW c \in Callers, NEW n, Complete(c, n), Settled(o)
        PROVE  Settled(o)'
    <2>1. call[c].op # o /\ call[c].op \in Ops
      BY <1>5, NobodyIsAtWork, Zenon DEF Complete, CallsNameOps
    <2>2. log'[o] = log[o] /\ claim' = claim
      BY <1>5, <2>1, <1>t, Zenon DEF Complete, TypeOK
    <2>3. disk' = log' \/ disk' = log \/ disk' = disk
      BY <1>5, Zenon DEF Complete, AppendSync, Synced
    <2>4. \A d \in Callers : call'[d] = call[d] \/ call'[d].pc = "idle"
      BY <1>5, <1>t, ReturnStep, Zenon DEF Complete
    <2>. QED  BY <1>5, <1>t, <2>2, <2>3, <2>4, SettledKept, Zenon
  <1>6. ASSUME Restart \/ Crash, Settled(o)
        PROVE  \/ Settled(o)'
               \/ failures'.io > 0 /\ failures'.restarts > 0 /\ failures'.crashes > 0
    <2>1. /\ ~claim'[o]
          /\ \A d \in Callers : call'[d] = call[d] \/ call'[d].pc = "idle"
      BY <1>6, Records, <1>t DEF Restart, Crash, Opened, TypeOK
    <2>2. CASE log' = log /\ (disk' = log \/ disk' = disk)
      BY <1>6, <1>t, <2>1, <2>2, SettledKept, Zenon
    <2>3. CASE log' = disk /\ disk' = disk /\ disk[o].id # None
      <3>1. log'[o].id = log[o].id /\ ~log'[o].done
        BY <1>6, <2>3, Zenon DEF LogExtendsDisk, Settled
      <3>2. Unlocked(o)'
        BY <1>6, <2>1, Zenon DEF Settled, Unlocked, InWrite
      <3>. QED  BY <1>6, <2>1, <2>3, <3>1, <3>2, Zenon DEF Settled
    <2>4. CASE Crash /\ disk[o].id = None
      BY <1>6, <2>4, <1>t DEF Settled, Crash, Grows, TypeOK
    <2>. QED  BY <1>6, <2>2, <2>3, <2>4, Zenon DEF Restart, Crash, Opened
  <1>7. CASE o \in ambiguous
    BY <1>0, <1>1, <1>2, <1>3, <1>4, <1>5, <1>6, <1>7, Zenon DEF Next, Reserve
  <1>8. ASSUME o \notin ambiguous, NEW c \in Callers,
               \/ ClaimRefused(c)
               \/ \E p \in Ops, i \in Identities : ReserveAmbiguous(c, p, i)
        PROVE  Settled(o)'
    <2>1. CASE ClaimRefused(c)
      <3>1. /\ call[c].op = o /\ log[o] = Intent(call[c].id) /\ call[c].id \in Identities \ Exports
            /\ ~claim[o] /\ Unlocked(o) /\ PreSync /\ UNCHANGED <<log, claim, failures>>
        BY <1>8, <2>1, Zenon DEF ClaimRefused, CallsNameOps
      <3>2. \A d \in Callers : call'[d] = call[d] \/ call'[d].pc = "idle"
        BY <2>1, <1>t, ReturnStep, Zenon DEF ClaimRefused
      <3>. QED  BY <3>1, <3>2, AmbiguousAnswer, Zenon
    <2>2. ASSUME NEW p \in Ops, NEW i \in Identities, ReserveAmbiguous(c, p, i)
          PROVE  Settled(o)'
      <3>1. /\ p = o /\ i \in Identities \ Exports /\ log[o] = Intent(i)
            /\ ~claim[o] /\ Unlocked(o) /\ PreSync /\ UNCHANGED <<log, claim, call, failures>>
        BY <1>8, <2>2, Zenon DEF ReserveAmbiguous
      <3>. QED  BY <3>1, AmbiguousAnswer, Zenon
    <2>. QED  BY <1>8, <2>1, <2>2, Zenon
  <1>9. ASSUME o \notin ambiguous
        PROVE  \E c \in Callers : \/ ClaimRefused(c)
                                  \/ \E p \in Ops, i \in Identities : ReserveAmbiguous(c, p, i)
    BY <1>9 DEF Next, Reserve, ReserveNew, ReserveAgain, Refused, PreSyncFails, Claim, Effect, EffectFails,
       CompleteFails, Abandon, Complete, Restart, Crash, Opened, history
  <1>. QED  BY <1>7, <1>8, <1>9, Zenon

\* "never executed again" (file_effects.rs): no interleaving of retries, lost
\* answers, failed syncs, restarts and crashes makes an operation mutate the
\* workspace, or PUT its object, a second time.
THEOREM AtMostOneEffect == Spec => []EffectAtMostOnce
  <1>1. EffectIInv => EffectAtMostOnce
    BY Zenon DEF EffectIInv, EffectInv
  <1>. QED  BY <1>1, EffectCorrect, PTL

\* The effect has a durable intent, and a result, in the log or on the disk,
\* stands for an effect that happened.
THEOREM RecordsTellTheTruth == Spec => []RecordsAreTrue
  <1>1. EffectIInv => RecordsAreTrue
    BY Zenon DEF EffectIInv, EffectInv, RecordsAreTrue
  <1>. QED  BY <1>1, EffectCorrect, PTL

\* The log keeps to EFFECT_LOG_MAX_BYTES with every owed result counted, and so
\* does the log that a crash leaves.
THEOREM LogAlwaysFits == Spec => []LogFits
  <1>1. EffectIInv => LogFits
    BY FitsIsLogFits, Zenon DEF EffectIInv
  <1>. QED  BY <1>1, EffectCorrect, PTL

\* Brain may rely on the answer that a write is ambiguous: no result of that
\* write turns up later, unless a sync failed, a restart forgot it and a crash
\* lost the intent.
THEOREM AmbiguousStaysFinal == Spec => []AmbiguousIsFinal
  <1>1. Init => AmbiguousInv
    BY Zenon DEF Init, AmbiguousInv, CleanIsDurable, AmbiguousIsSettled
  <1>2. EffectIInv /\ EffectIInv' /\ AmbiguousInv /\ [Next]_vars => AmbiguousInv'
    <2>1. CASE Next
      BY <2>1, CleanStep, AmbiguousStep, Zenon DEF EffectIInv, AmbiguousInv
    <2>2. CASE UNCHANGED vars
      BY <2>2, Zenon
      DEF vars, AmbiguousInv, CleanIsDurable, AmbiguousIsSettled, Settled, Unlocked, InWrite
    <2>. QED  BY <2>1, <2>2, Zenon
  <1>3. AmbiguousInv => AmbiguousIsFinal
    BY Zenon DEF AmbiguousInv, AmbiguousIsSettled, AmbiguousIsFinal, Settled
  <1>. QED  BY <1>1, <1>2, <1>3, EffectCorrect, PTL DEF Spec

-----------------------------------------------------------------------------
(* LiveFiles: the writes and walks of the workspace *)

CONSTANTS
    Separator, Paths, Writers, PathOf, Overwrite, Kinds, Matching, Limit, MaxEntries, MaxChanges,
    MaxFaults

VARIABLES node, staged, write, walk, changes, faults

Live == INSTANCE LiveFiles

Entries == {None, "dir", "tool", "part"} \cup Writers
WalkFields == {"at", "kind", "pending", "batch", "seen", "cursor", "got", "stable"}

\* Every entry is below a directory, and none is a part of a file.
Tree ==
    /\ node \in [Paths -> Entries]
    /\ \A p \in Paths : node[p] # None => Live!Parent(p) = <<>> \/ node[Live!Parent(p)] = "dir"
    /\ \A p \in Paths : node[p] # "part"

Walking(k) ==
    /\ DOMAIN k = WalkFields
    /\ k.at \in {"idle", "scan", "page", "done", "not_found", "not_directory", "bound"}
    /\ k.pending \subseteq Paths \cup {<<>>} /\ k.batch \subseteq Paths /\ k.seen \subseteq Paths

\* A write that is about to install has staged the whole file, and one that has not begun, or has
\* installed its file, has no staging file; one that ended with it has met a fault.
Places == {"idle", "stage", "fill", "install", "unlink", "cleanup", "entry", "written", "failed"}
Writing(at, file, met) ==
    /\ at \in Places /\ file \in {None, "part", "whole"}
    /\ at = "install" => file = "whole"
    /\ at \in {"idle", "stage", "entry", "written", "failed"} => file = None \/ met > 0

FilesInv ==
    /\ Tree /\ Walking(walk) /\ faults \in Nat
    /\ write \in [Writers -> Places] /\ staged \in [Writers -> {None, "part", "whole"}]
    /\ \A w \in Writers : Writing(write[w], staged[w], faults)

\* The first n elements of a sequence.
LEMMA Cutting ==
  ASSUME NEW S, NEW s \in Seq(S), NEW n \in 0..Len(s)
  PROVE  Len(SubSeq(s, 1, n)) = n
  OBVIOUS

\* The parent of a path is another one, shorter by a name, and the parent of an ancestor is the root
\* or an ancestor.
LEMMA Parents ==
  ASSUME Live!Parameters, NEW p \in Paths
  PROVE  /\ p # <<>> /\ Live!Parent(p) # p /\ Live!Parent(p) \in Paths \cup {<<>>}
         /\ \A q \in Live!Ancestors(p) : Live!Parent(q) = <<>>
            \/ Live!Parent(q) \in Live!Ancestors(p)
         /\ Live!Parent(p) # <<>> => Live!Parent(p) \in Live!Ancestors(p)
         /\ p \notin Live!Ancestors(p)
  <1>1. ASSUME NEW q \in Paths
        PROVE  /\ q \in Seq(Seq(Nat)) /\ q # <<>> /\ Live!Parent(q) \in Paths \cup {<<>>}
               /\ Len(q) \in Nat /\ Len(q) > 0 /\ Len(Live!Parent(q)) = Len(q) - 1
               /\ Live!Parent(q) = SubSeq(q, 1, Len(q) - 1)
    <2>1. q \in Seq(Seq(Nat)) /\ q # <<>> /\ Live!Parent(q) \in Paths \cup {<<>>}
      BY Zenon DEF Live!Parameters
    <2>2. Len(q) \in Nat /\ Len(q) > 0
      BY <2>1
    <2>3. Len(q) - 1 \in 0..Len(q)
      BY <2>2
    <2>4. Len(SubSeq(q, 1, Len(q) - 1)) = Len(q) - 1
      BY <2>1, <2>3, Cutting, Zenon
    <2>. QED  BY <2>1, <2>2, <2>4, Zenon DEF Live!Parent
  <1>2. ASSUME NEW q \in Live!Ancestors(p)
        PROVE  Live!Parent(q) = <<>> \/ Live!Parent(q) \in Live!Ancestors(p)
    <2>1. q \in Paths /\ Len(q) < Len(p) /\ q = SubSeq(p, 1, Len(q))
      BY Zenon DEF Live!Ancestors
    <2>. DEFINE n == Len(q)
    <2>2. n \in Nat /\ n > 0 /\ n < Len(p) /\ Len(p) \in Nat /\ p \in Seq(Seq(Nat))
      BY <1>1, <2>1, Zenon
    <2>3. SubSeq(SubSeq(p, 1, n), 1, n - 1) = SubSeq(p, 1, n - 1)
      <3>. HIDE DEF n
      <3>. QED  BY <2>2
    <2>4. Live!Parent(q) = SubSeq(p, 1, n - 1) /\ Len(Live!Parent(q)) = n - 1
      BY <1>1, <2>1, <2>3, Zenon
    <2>5. CASE Live!Parent(q) # <<>>
      <3>1. Live!Parent(q) \in Paths
        BY <1>1, <2>1, <2>5, Zenon
      <3>2. Len(Live!Parent(q)) < Len(p) /\ Live!Parent(q) = SubSeq(p, 1, Len(Live!Parent(q)))
        BY <2>2, <2>4
      <3>. QED  BY <3>1, <3>2, Zenon DEF Live!Ancestors
    <2>. QED  BY <2>5, Zenon
  <1>3. ASSUME Live!Parent(p) # <<>>
        PROVE  Live!Parent(p) \in Live!Ancestors(p)
    <2>1. Live!Parent(p) \in Paths
      BY <1>1, <1>3, Zenon
    <2>2. Len(Live!Parent(p)) < Len(p) /\ Live!Parent(p) = SubSeq(p, 1, Len(Live!Parent(p)))
      BY <1>1
    <2>. QED  BY <2>1, <2>2, Zenon DEF Live!Ancestors
  <1>4. Live!Parent(p) # p /\ p \notin Live!Ancestors(p)
    <2>1. Len(Live!Parent(p)) # Len(p) /\ ~(Len(p) < Len(p))
      BY <1>1
    <2>. QED  BY <2>1, Zenon DEF Live!Ancestors
  <1>. QED  BY <1>1, <1>2, <1>3, <1>4, Zenon

\* An entry is placed below a directory, or removed, where nothing is below it.
LEMMA PlaceKeeps ==
  ASSUME Live!Parameters, Tree, NEW p \in Paths, NEW x \in Entries, x # "part",
         node' = [node EXCEPT ![p] = x],
         x # None => Live!Parent(p) = <<>> \/ node[Live!Parent(p)] = "dir",
         \A q \in Paths : node[q] # None => Live!Parent(q) # p
  PROVE  Tree'
  <1>1. /\ node' \in [Paths -> Entries] /\ node'[p] = x
        /\ \A q \in Paths \ {p} : node'[q] = node[q]
    BY Zenon DEF Tree
  <1>2. ASSUME NEW q \in Paths, node'[q] # None
        PROVE  Live!Parent(q) = <<>> \/ node'[Live!Parent(q)] = "dir"
    <2>1. Live!Parent(q) = <<>> \/ Live!Parent(q) \in Paths
      BY Parents, Zenon
    <2>2. CASE q = p
      <3>1. Live!Parent(q) # p
        BY <2>2, Parents, Zenon
      <3>. QED  BY <1>1, <1>2, <2>1, <2>2, <3>1, Zenon
    <2>3. CASE q # p
      <3>1. node[q] # None
        BY <1>1, <1>2, <2>3, Zenon
      <3>2. Live!Parent(q) # p /\ (Live!Parent(q) = <<>> \/ node[Live!Parent(q)] = "dir")
        BY <3>1, Zenon DEF Tree
      <3>. QED  BY <1>1, <2>1, <3>2, Zenon
    <2>. QED  BY <2>2, <2>3, Zenon
  <1>3. \A q \in Paths : node'[q] # "part"
    BY <1>1, Zenon DEF Tree
  <1>. QED  BY <1>1, <1>2, <1>3, Zenon DEF Tree

\* What is not a directory has nothing below it.
LEMMA NothingBelow ==
  ASSUME Live!Parameters, Tree, NEW p \in Paths, node[p] # "dir"
  PROVE  \A q \in Paths : node[q] # None => Live!Parent(q) # p
  <1>1. p # <<>>
    BY Parents, Zenon
  <1>. QED  BY <1>1, Zenon DEF Tree

\* The ancestors of a path become directories where none of them is a file.
LEMMA ParentsKeep ==
  ASSUME Live!Parameters, Tree, NEW t \in Paths,
         \A q \in Live!Ancestors(t) : node[q] \in {None, "dir"},
         node' = [p \in Paths |-> IF p \in Live!Ancestors(t) THEN "dir" ELSE node[p]]
  PROVE  Tree'
  <1>1. \A p \in Paths : node'[p] = IF p \in Live!Ancestors(t) THEN "dir" ELSE node[p]
    BY Zenon
  <1>2. ASSUME NEW p \in Paths
        PROVE  (IF p \in Live!Ancestors(t) THEN "dir" ELSE node[p]) \in Entries
    BY Zenon DEF Tree, Entries
  <1>3. node' \in [Paths -> Entries]
    BY <1>2, Zenon
  <1>4. ASSUME NEW p \in Paths, node'[p] # None
        PROVE  Live!Parent(p) = <<>> \/ node'[Live!Parent(p)] = "dir"
    <2>1. Live!Parent(p) = <<>> \/ Live!Parent(p) \in Paths
      BY Parents, Zenon
    <2>2. CASE p \in Live!Ancestors(t)
      <3>1. Live!Parent(p) = <<>> \/ Live!Parent(p) \in Live!Ancestors(t)
        BY <2>2, Parents, Zenon
      <3>. QED  BY <1>1, <2>1, <3>1, Zenon
    <2>3. CASE p \notin Live!Ancestors(t)
      <3>1. node[p] # None
        BY <1>1, <1>4, <2>3, Zenon
      <3>2. Live!Parent(p) = <<>> \/ node[Live!Parent(p)] = "dir"
        BY <3>1, Zenon DEF Tree
      <3>. QED  BY <1>1, <2>1, <3>2, Zenon
    <2>. QED  BY <2>2, <2>3, Zenon
  <1>5. \A p \in Paths : node'[p] # "part"
    BY <1>1, Zenon DEF Tree
  <1>. QED  BY <1>3, <1>4, <1>5, Zenon DEF Tree

\* The steps of a walk look at the tree and leave it alone.
LEMMA WalkKeeps ==
  ASSUME Walking(walk), Live!Begin \/ Live!NextPage \/ Live!Scan \/ Live!Visit \/ Live!Project
  PROVE  Walking(walk') /\ UNCHANGED <<node, staged, write, changes, faults>>
  <1>1. \A d : Live!Children(d) \subseteq Paths
    BY Zenon DEF Live!Children
  <1>2. ASSUME NEW kind, NEW cursor, NEW got, NEW stable, Live!Request(kind, cursor, got, stable)
        PROVE  Walking(walk')
    BY <1>2, Zenon DEF Live!Request, Walking, WalkFields
  <1>3. CASE Live!Begin \/ Live!NextPage
    BY <1>2, <1>3, Zenon DEF Live!Begin, Live!NextPage
  <1>4. ASSUME NEW at \in {"page", "done", "bound", "not_found", "not_directory"},
               walk' = [walk EXCEPT !.at = at]
        PROVE  Walking(walk')
    BY <1>4, Zenon DEF Walking, WalkFields
  <1>5. CASE Live!Scan
    <2>1. PICK d \in walk.pending :
            \/ \E at \in {"bound", "not_found", "not_directory"} : walk' = [walk EXCEPT !.at = at]
            \/ walk' = [[walk EXCEPT !.pending = @ \ {d}] EXCEPT !.seen = Live!Children(d)]
            \/ walk' = [[walk EXCEPT !.pending = @ \ {d}] EXCEPT !.batch = Live!Children(d)]
      BY <1>5, Zenon DEF Live!Scan
    <2>2. ASSUME walk' = [[walk EXCEPT !.pending = @ \ {d}] EXCEPT !.seen = Live!Children(d)]
          PROVE  Walking(walk')
      <3>1. /\ DOMAIN walk' = WalkFields /\ walk'.at = walk.at /\ walk'.batch = walk.batch
            /\ walk'.pending = walk.pending \ {d} /\ walk'.seen = Live!Children(d)
        BY <2>2, Zenon DEF Walking, WalkFields
      <3>. QED  BY <1>1, <3>1, Zenon DEF Walking
    <2>3. ASSUME walk' = [[walk EXCEPT !.pending = @ \ {d}] EXCEPT !.batch = Live!Children(d)]
          PROVE  Walking(walk')
      <3>1. /\ DOMAIN walk' = WalkFields /\ walk'.at = walk.at /\ walk'.seen = walk.seen
            /\ walk'.pending = walk.pending \ {d} /\ walk'.batch = Live!Children(d)
        BY <2>3, Zenon DEF Walking, WalkFields
      <3>. QED  BY <1>1, <3>1, Zenon DEF Walking
    <2>4. Walking(walk')
      BY <1>4, <2>1, <2>2, <2>3, Zenon
    <2>. QED  BY <1>5, <2>4, Zenon DEF Live!Scan
  <1>6. CASE Live!Visit
    <2>1. PICK p \in walk.batch :
            \/ walk' = [walk EXCEPT !.at = "not_found"]
            \/ walk' = [walk EXCEPT !.batch = @ \ {p}, !.seen = @ \cup {p},
                                    !.pending = IF Live!IsDir(p) THEN @ \cup {p} ELSE @]
      BY <1>6, Zenon DEF Live!Visit
    <2>2. ASSUME walk' = [walk EXCEPT !.batch = @ \ {p}, !.seen = @ \cup {p},
                                      !.pending = IF Live!IsDir(p) THEN @ \cup {p} ELSE @]
          PROVE  Walking(walk')
      <3>1. p \in Paths
        BY Zenon DEF Walking
      <3>2. /\ DOMAIN walk' = WalkFields /\ walk'.at = walk.at
            /\ walk'.batch = walk.batch \ {p} /\ walk'.seen = walk.seen \cup {p}
            /\ walk'.pending = IF Live!IsDir(p) THEN walk.pending \cup {p} ELSE walk.pending
        BY <2>2, Zenon DEF Walking, WalkFields
      <3>3. walk'.pending \subseteq walk.pending \cup {p}
        BY <3>2, Zenon
      <3>. QED  BY <3>1, <3>2, <3>3, Zenon DEF Walking
    <2>3. Walking(walk')
      BY <1>4, <2>1, <2>2, Zenon
    <2>. QED  BY <1>6, <2>3, Zenon DEF Live!Visit
  <1>7. CASE Live!Project
    <2>1. \/ walk' = [walk EXCEPT !.at = "not_found"]
          \/ \E at \in {"page", "done"} : \E cursor, items :
                walk' = [walk EXCEPT !.at = at, !.cursor = cursor, !.got = @ \o items, !.seen = {}]
      BY <1>7, Zenon DEF Live!Project
    <2>2. ASSUME NEW at \in {"page", "done"}, NEW cursor, NEW items,
                 walk' = [walk EXCEPT !.at = at, !.cursor = cursor, !.got = @ \o items, !.seen = {}]
          PROVE  Walking(walk')
      BY <2>2, Zenon DEF Walking, WalkFields
    <2>3. Walking(walk')
      BY <1>4, <2>1, <2>2, Zenon
    <2>. QED  BY <1>7, <2>3, Zenon DEF Live!Project
  <1>. QED  BY <1>3, <1>5, <1>6, <1>7, Zenon DEF Live!Begin, Live!NextPage

\* A tool adds, replaces or removes one entry.
LEMMA ToolKeeps ==
  ASSUME Live!Parameters, FilesInv, Live!Tool
  PROVE  FilesInv' /\ \A p \in Paths, w \in Writers : node'[p] = w => node[p] = w
  <1>1. Tree /\ Walking(walk) /\ UNCHANGED <<staged, write, faults>>
    BY Zenon DEF FilesInv, Live!Tool
  <1>2. PICK p \in Paths :
          \/ /\ node[p] # "dir" /\ Live!IsDir(Live!Parent(p)) /\ UNCHANGED walk
             /\ \E new \in {"tool", "dir"} : node' = [node EXCEPT ![p] = new]
          \/ /\ node[p] # None /\ Live!Children(p) = {}
             /\ node' = [node EXCEPT ![p] = None]
             /\ walk' = [walk EXCEPT !.stable = @ \ {p}]
    BY Zenon DEF Live!Tool
  <1>3. ASSUME NEW x \in {None, "dir", "tool"}, node' = [node EXCEPT ![p] = x]
        PROVE  \A q \in Paths, w \in Writers : node'[q] = w => node[q] = w
    <2>1. \A q \in Paths : node'[q] = IF q = p THEN x ELSE node[q]
      BY <1>1, <1>3, Zenon DEF Tree
    <2>2. x \notin Writers
      BY Zenon DEF Live!Parameters
    <2>. QED  BY <2>1, <2>2, Zenon
  <1>4. CASE /\ node[p] # "dir" /\ Live!IsDir(Live!Parent(p)) /\ UNCHANGED walk
             /\ \E new \in {"tool", "dir"} : node' = [node EXCEPT ![p] = new]
    <2>1. PICK new \in {"tool", "dir"} : node' = [node EXCEPT ![p] = new]
      BY <1>4, Zenon
    <2>2. new \in Entries /\ new # "part"
      BY Zenon DEF Entries
    <2>3. Tree'
      BY <1>1, <1>4, <2>1, <2>2, PlaceKeeps, NothingBelow, Zenon DEF Live!IsDir
    <2>. QED  BY <1>1, <1>3, <1>4, <2>1, <2>3, Zenon DEF FilesInv
  <1>5. CASE /\ node[p] # None /\ Live!Children(p) = {} /\ node' = [node EXCEPT ![p] = None]
             /\ walk' = [walk EXCEPT !.stable = @ \ {p}]
    <2>1. \A q \in Paths : node[q] # None => Live!Parent(q) # p
      BY <1>5, Zenon DEF Live!Children, Live!Exists
    <2>2. None \in Entries /\ None # "part"
      BY Zenon DEF Entries, Live!Parameters
    <2>3. Tree'
      BY <1>1, <1>5, <2>1, <2>2, PlaceKeeps, Zenon
    <2>4. Walking(walk')
      BY <1>1, <1>5, Zenon DEF Walking, WalkFields
    <2>. QED  BY <1>1, <1>3, <1>5, <2>3, <2>4, Zenon DEF FilesInv
  <1>. QED  BY <1>2, <1>4, <1>5, Zenon

\* A step of write w changes the tree as installing w may, and leaves the other writes alone.
LEMMA WriteKeeps ==
  ASSUME Live!Parameters, FilesInv, NEW w \in Writers,
         \/ Live!MakeParents(w) \/ Live!Stage(w) \/ Live!Fill(w) \/ Live!Fails(w)
         \/ Live!Install(w) \/ Live!Unlink(w) \/ Live!Cleanup(w) \/ Live!Entry(w)
  PROVE  /\ FilesInv'
         /\ \A p \in Paths, v \in Writers :
               node'[p] = v => \/ node[p] = v
                               \/ v = w /\ p = PathOf[w] /\ (~Overwrite[w] => node[p] = None)
  <1>1. /\ Tree /\ Walking(walk) /\ faults \in Nat
        /\ write \in [Writers -> Places] /\ staged \in [Writers -> {None, "part", "whole"}]
        /\ \A v \in Writers : Writing(write[v], staged[v], faults)
    BY Zenon DEF FilesInv
  <1>2. ASSUME NEW at, NEW file, Writing(at, file, faults'),
               write' = [write EXCEPT ![w] = at], staged' = [staged EXCEPT ![w] = file],
               UNCHANGED faults \/ faults' = faults + 1
        PROVE  /\ faults' \in Nat
               /\ write' \in [Writers -> Places] /\ staged' \in [Writers -> {None, "part", "whole"}]
               /\ \A v \in Writers : Writing(write'[v], staged'[v], faults')
    <2>1. at \in Places /\ file \in {None, "part", "whole"}
      BY <1>2, Zenon DEF Writing
    <2>2. /\ write' \in [Writers -> Places] /\ staged' \in [Writers -> {None, "part", "whole"}]
          /\ write'[w] = at /\ staged'[w] = file
          /\ \A v \in Writers \ {w} : write'[v] = write[v] /\ staged'[v] = staged[v]
      BY <1>1, <1>2, <2>1, Zenon
    <2>3. faults' \in Nat /\ (faults > 0 => faults' > 0)
      BY <1>1, <1>2
    <2>4. ASSUME NEW v \in Writers \ {w}
          PROVE  Writing(write[v], staged[v], faults')
      BY <1>1, <2>3, Zenon DEF Writing
    <2>. QED  BY <1>2, <2>2, <2>3, <2>4, Zenon
  <1>3. staged = [staged EXCEPT ![w] = staged[w]]
    BY <1>1, Zenon
  <1>4. Writing(write[w], staged[w], faults)
    BY <1>1, Zenon
  <1>5. PathOf[w] \in Paths /\ Overwrite[w] \in BOOLEAN
    BY Zenon DEF Live!Parameters
  <1>6. CASE Live!MakeParents(w)
    <2>1. UNCHANGED <<staged, walk, faults>> /\ write[w] = "idle"
      BY <1>6, Zenon DEF Live!MakeParents
    <2>2. PICK at \in {"stage", "failed"} : write' = [write EXCEPT ![w] = at]
      BY <1>6, Zenon DEF Live!MakeParents, Live!Step
    <2>3. Writing(at, staged[w], faults)
      BY <1>4, <2>1, Zenon DEF Writing, Places
    <2>4. CASE UNCHANGED node
      BY <1>1, <1>2, <1>3, <2>1, <2>2, <2>3, <2>4, Zenon DEF FilesInv, Tree
    <2>5. CASE node' # node
      <3>1. /\ \A q \in Live!Ancestors(PathOf[w]) : node[q] \in {None, "dir"}
            /\ node' = [p \in Paths |-> IF p \in Live!Ancestors(PathOf[w]) THEN "dir" ELSE node[p]]
        BY <1>6, <2>5, Zenon DEF Live!MakeParents
      <3>2. Tree'
        BY <1>1, <1>5, <3>1, ParentsKeep, Zenon
      <3>3. \A p \in Paths, v \in Writers : node'[p] = v => node[p] = v
        <4>1. "dir" \notin Writers
          BY Zenon DEF Live!Parameters
        <4>. QED  BY <3>1, <4>1, Zenon
      <3>. QED  BY <1>1, <1>2, <1>3, <2>1, <2>2, <2>3, <3>2, <3>3, Zenon DEF FilesInv
    <2>. QED  BY <2>4, <2>5, Zenon
  <1>7. CASE Live!Stage(w) \/ Live!Fill(w) \/ Live!Fails(w) \/ Live!Unlink(w) \/ Live!Cleanup(w)
             \/ Live!Entry(w)
    <2>1. UNCHANGED <<node, walk>>
      BY <1>7, Zenon DEF Live!Stage, Live!Fill, Live!Fails, Live!Unlink, Live!Cleanup, Live!Entry
    <2>2. ASSUME NEW at, NEW file, Writing(at, file, faults'),
                 write' = [write EXCEPT ![w] = at], staged' = [staged EXCEPT ![w] = file],
                 UNCHANGED faults \/ faults' = faults + 1
          PROVE  FilesInv'
      BY <1>1, <1>2, <2>1, <2>2, Zenon DEF FilesInv, Tree
    <2>3. CASE Live!Stage(w)
      <3>1. Writing("fill", "part", faults)
        BY Zenon DEF Writing, Places
      <3>. QED  BY <2>1, <2>2, <2>3, <3>1, Zenon DEF Live!Stage, Live!Step
    <2>4. CASE Live!Fill(w)
      <3>1. Writing("install", "whole", faults)
        BY Zenon DEF Writing, Places
      <3>. QED  BY <2>1, <2>2, <2>4, <3>1, Zenon DEF Live!Fill, Live!Step
    <2>5. CASE Live!Fails(w)
      <3>1. Writing("cleanup", staged[w], faults')
        BY <1>4, Zenon DEF Writing, Places
      <3>. QED  BY <1>3, <2>1, <2>2, <2>5, <3>1, Zenon DEF Live!Fails, Live!Step
    <2>6. CASE Live!Unlink(w)
      <3>1. Writing("cleanup", staged[w], faults') /\ Writing("entry", None, faults')
        BY <1>4, Zenon DEF Writing, Places
      <3>. QED  BY <1>3, <2>1, <2>2, <2>6, <3>1, Zenon DEF Live!Unlink, Live!Step
    <2>7. CASE Live!Cleanup(w)
      <3>1. Writing("failed", None, faults')
        BY Zenon DEF Writing, Places
      <3>2. CASE faults' = faults + 1 /\ UNCHANGED staged
        <4>1. Writing("failed", staged[w], faults')
          BY <1>1, <1>4, <3>2 DEF Writing, Places
        <4>. QED  BY <1>3, <2>1, <2>2, <2>7, <3>2, <4>1, Zenon DEF Live!Cleanup, Live!Step
      <3>. QED  BY <2>1, <2>2, <2>7, <3>1, <3>2, Zenon DEF Live!Cleanup, Live!Step
    <2>8. CASE Live!Entry(w)
      <3>1. Writing("written", staged[w], faults) /\ Writing("failed", staged[w], faults)
        BY <1>4, <2>8, Zenon DEF Writing, Places, Live!Entry
      <3>. QED  BY <1>3, <2>1, <2>2, <2>8, <3>1, Zenon DEF Live!Entry, Live!Step
    <2>. QED  BY <1>7, <2>1, <2>3, <2>4, <2>5, <2>6, <2>7, <2>8, Zenon
  <1>8. CASE Live!Install(w)
    <2>1. UNCHANGED <<walk, faults>> /\ write[w] = "install" /\ staged[w] = "whole"
      BY <1>4, <1>8, Zenon DEF Live!Install, Writing
    <2>2. CASE Live!Step(w, "cleanup") /\ UNCHANGED <<node, staged>>
      <3>1. Writing("cleanup", staged[w], faults)
        BY <1>4, Zenon DEF Writing, Places
      <3>. QED  BY <1>1, <1>2, <1>3, <2>1, <2>2, <3>1, Zenon DEF FilesInv, Tree, Live!Step
    <2>3. CASE ~(Live!Step(w, "cleanup") /\ UNCHANGED <<node, staged>>)
      <3>1. /\ Live!IsDir(Live!Parent(PathOf[w]))
            /\ IF Overwrite[w] THEN node[PathOf[w]] # "dir" ELSE node[PathOf[w]] = None
            /\ node' = [node EXCEPT ![PathOf[w]] = w]
        BY <1>8, <2>1, <2>3, Zenon DEF Live!Install
      <3>2. /\ node[PathOf[w]] # "dir" /\ w \in Entries /\ w # "part"
            /\ ~Overwrite[w] => node[PathOf[w]] = None
        BY <3>1, Zenon DEF Live!Parameters, Entries
      <3>3. Tree'
        BY <1>1, <1>5, <3>1, <3>2, PlaceKeeps, NothingBelow, Zenon DEF Live!IsDir
      <3>4. \A p \in Paths : node'[p] = IF p = PathOf[w] THEN w ELSE node[p]
        BY <1>1, <1>5, <3>1, Zenon DEF Tree
      <3>5. /\ faults' \in Nat
            /\ write' \in [Writers -> Places] /\ staged' \in [Writers -> {None, "part", "whole"}]
            /\ \A v \in Writers : Writing(write'[v], staged'[v], faults')
        <4>1. CASE Overwrite[w]
          <5>1. Writing("entry", None, faults)
            BY Zenon DEF Writing, Places
          <5>2. write' = [write EXCEPT ![w] = "entry"] /\ staged' = [staged EXCEPT ![w] = None]
            BY <1>8, <2>3, <4>1, Zenon DEF Live!Install, Live!Step
          <5>. QED  BY <1>2, <2>1, <5>1, <5>2, Zenon
        <4>2. CASE ~Overwrite[w]
          <5>1. Writing("unlink", staged[w], faults)
            BY <1>4, Zenon DEF Writing, Places
          <5>2. write' = [write EXCEPT ![w] = "unlink"] /\ staged' = staged
            BY <1>8, <2>3, <4>2, Zenon DEF Live!Install, Live!Step
          <5>. QED  BY <1>2, <1>3, <2>1, <5>1, <5>2, Zenon
        <4>. QED  BY <4>1, <4>2, Zenon
      <3>. QED  BY <1>1, <2>1, <3>2, <3>3, <3>4, <3>5, Zenon DEF FilesInv
    <2>. QED  BY <2>2, <2>3, Zenon
  <1>. QED  BY <1>6, <1>7, <1>8, Zenon

\* Every step keeps the invariant, and only the write itself puts its file under its path.
LEMMA FilesStep ==
  ASSUME Live!Parameters, FilesInv, [Live!Next]_(Live!vars)
  PROVE  /\ FilesInv'
         /\ \A w \in Writers :
               ~Overwrite[w] /\ node[PathOf[w]] # w /\ node'[PathOf[w]] = w
                   => node[PathOf[w]] = None
  <1>1. \A w \in Writers : PathOf[w] \in Paths
    BY Zenon DEF Live!Parameters
  <1>2. CASE UNCHANGED <<node, staged, write, faults>> /\ Walking(walk')
    BY <1>2, Zenon DEF FilesInv, Tree
  <1>3. CASE UNCHANGED Live!vars
    BY <1>2, <1>3, Zenon DEF Live!vars, FilesInv
  <1>4. CASE Live!Begin \/ Live!NextPage \/ Live!Scan \/ Live!Visit \/ Live!Project
    BY <1>2, <1>4, WalkKeeps, Zenon DEF FilesInv
  <1>5. CASE Live!Tool
    BY <1>1, <1>5, ToolKeeps, Zenon
  <1>6. ASSUME NEW v \in Writers,
               \/ Live!MakeParents(v) \/ Live!Stage(v) \/ Live!Fill(v) \/ Live!Fails(v)
               \/ Live!Install(v) \/ Live!Unlink(v) \/ Live!Cleanup(v) \/ Live!Entry(v)
        PROVE  /\ FilesInv'
               /\ \A w \in Writers :
                     ~Overwrite[w] /\ node[PathOf[w]] # w /\ node'[PathOf[w]] = w
                        => node[PathOf[w]] = None
    BY <1>1, <1>6, WriteKeeps, Zenon
  <1>. QED  BY <1>3, <1>4, <1>5, <1>6, Zenon DEF Live!Next

\* The workspace is a tree from the start, and after every step.
LEMMA FilesAlways ==
  ASSUME Live!Parameters
  PROVE  Live!Spec => []FilesInv
  <1>1. ASSUME Live!Init
        PROVE  FilesInv
    <2>1. Tree
      <3>1. node \in [Paths -> {None, "dir", "tool"}] /\ {None, "dir", "tool"} \subseteq Entries
        BY <1>1, Zenon DEF Live!Init, Entries
      <3>2. node \in [Paths -> Entries] /\ \A p \in Paths : node[p] # "part"
        BY <3>1, Zenon DEF Live!Parameters
      <3>3. \A p \in Paths : node[p] # None => Live!Parent(p) = <<>> \/ node[Live!Parent(p)] = "dir"
        BY <1>1, Zenon DEF Live!Init, Live!IsDir
      <3>. QED  BY <3>2, <3>3, Zenon DEF Tree
    <2>2. Walking(walk)
      BY <1>1, Zenon DEF Live!Init, Live!NoWalk, Walking, WalkFields
    <2>3. Writing("idle", None, 0)
      BY Zenon DEF Writing, Places
    <2>4. /\ write \in [Writers -> Places] /\ staged \in [Writers -> {None, "part", "whole"}]
          /\ faults = 0
          /\ \A w \in Writers : write[w] = "idle" /\ staged[w] = None
      BY <1>1, Zenon DEF Live!Init, Places
    <2>. QED  BY <2>1, <2>2, <2>3, <2>4, Zenon DEF FilesInv
  <1>2. FilesInv /\ [Live!Next]_(Live!vars) => FilesInv'
    BY FilesStep, Zenon
  <1>. QED  BY <1>1, <1>2, PTL DEF Live!Spec

\* FilesCorrect: for any number of writes, tools and walks, no path shows a part of a file, every
\* entry is below a directory, and a write that ended has left no staging file unless a file
\* operation failed (write and write_from_file of
\* hand-core/src/files.rs).
THEOREM FilesCorrect ==
  ASSUME Live!Parameters
  PROVE  Live!Spec => []Live!FilesAreWhole
  <1>1. ASSUME FilesInv
        PROVE  Live!FilesAreWhole
    <2>1. /\ Tree /\ Walking(walk) /\ faults \in Nat
          /\ staged \in [Writers -> {None, "part", "whole"}]
          /\ \A w \in Writers : Writing(write[w], staged[w], faults)
      BY <1>1, Zenon DEF FilesInv
    <2>2. Live!TypeOK
      BY <2>1, Zenon DEF Live!TypeOK, Tree, Walking, Entries, Live!IsDir
    <2>3. Live!WholeFilesOnly
      BY <2>1, Zenon DEF Live!WholeFilesOnly, Tree
    <2>4. Live!StagingReleased
      BY <2>1, Zenon DEF Live!StagingReleased, Writing
    <2>. QED  BY <2>2, <2>3, <2>4, Zenon DEF Live!FilesAreWhole
  <1>. QED  BY <1>1, FilesAlways, PTL

\* NeverReplacesCorrect: a write without overwrite replaces nothing, whatever tools and other writes
\* create while it is staging (the hard_link of
\* write and write_from_file).
THEOREM NeverReplacesCorrect ==
  ASSUME Live!Parameters
  PROVE  Live!Spec => Live!NeverReplaces
  <1>1. FilesInv /\ [Live!Next]_(Live!vars) =>
          [\A w \in Writers : ~Overwrite[w] /\ node[PathOf[w]] # w /\ node'[PathOf[w]] = w
                                 => node[PathOf[w]] = None]_(Live!vars)
    BY FilesStep, Zenon
  <1>. QED  BY <1>1, FilesAlways, PTL DEF Live!Spec, Live!NeverReplaces

=============================================================================
