----------------------------- MODULE FileEffects -----------------------------
(***************************************************************************)
(* Effectful file operations: the durable exact-pair fence of the guest    *)
(* (hand-guest/file_effects.rs), the guest handlers that serialize on the  *)
(* shard lock of an operation (hand-guest/hand/files.rs) and the adapter   *)
(* calls that drive them (hand-brain-aws/ports/files.rs).                  *)
(*                                                                         *)
(* A caller is one adapter call with the RPC it is executing.  Retries,    *)
(* lost responses and other Hand processes are further callers with the    *)
(* same operation.  A write (and an import) claims, mutates the workspace  *)
(* and completes inside one guest RPC; an export claims, PUTs from the     *)
(* adapter and completes in three.                                         *)
(***************************************************************************)
EXTENDS Integers, FiniteSets

CONSTANTS
    Ops,            \* operation ids
    Identities,     \* effect identities: request digest and kind
    Exports,        \* the identities of kind CopyExport
    None,           \* no operation, no identity
    Callers,        \* concurrent adapter calls
    IntentBytes,    \* length of an encoded intent
    ResultBytes,    \* RESULT_RESERVATION_BYTES
    MaxEffects,     \* MAX_RETAINED_FILE_EFFECTS
    MaxBytes,       \* MAX_FILE_EFFECT_LOG_BYTES
    MaxRestarts,    \* bound on guest process restarts
    MaxCrashes,     \* bound on machine crashes
    MaxIoErrors     \* bound on failed writes and syncs

ASSUME EffectAssumption ==
    /\ IsFiniteSet(Ops) /\ Ops # {} /\ Exports \subseteq Identities /\ None \notin Identities \cup Ops
    /\ {IntentBytes, ResultBytes} \subseteq Nat \ {0}
    /\ {MaxEffects, MaxBytes, MaxRestarts, MaxCrashes, MaxIoErrors} \subseteq Nat

VARIABLES
    log,            \* the log file, and the records read from it: intent and result
    bytes,          \* EffectWriter.bytes: the length of the log
    disk,           \* the log as of the last successful sync
    diskBytes,      \* its length
    dirty,          \* EffectWriter.dirty
    reserved,       \* reserved_result_bytes
    claim,          \* claim_available
    call,           \* the local state of each caller
    effects,        \* history: how often the effect of an operation happened
    ambiguous,      \* history: writes that were answered as ambiguous
    failures        \* restarts, crashes and I/O errors so far

vars == <<log, bytes, disk, diskBytes, dirty, reserved, claim, call, effects,
          ambiguous, failures>>
history == <<effects, ambiguous>>

-----------------------------------------------------------------------------
(* Records *)

Record == [id : Identities \cup {None}, done : BOOLEAN]
NoRecord == [id |-> None, done |-> FALSE]
Intent(i) == [id |-> i, done |-> FALSE]
Completed(i) == [id |-> i, done |-> TRUE]

Call == [pc : {"idle", "ready", "effect", "complete"},
         op : Ops \cup {None}, id : Identities \cup {None}]
Calling(pc, o, i) == [pc |-> pc, op |-> o, id |-> i]
Idle == Calling("idle", None, None)

Return(c) == call' = [call EXCEPT ![c] = Idle]
GoTo(c, pc) == call' = [call EXCEPT ![c] = Calling(pc, call[c].op, call[c].id)]

Retained(l) == {o \in Ops : l[o].id # None}
Incomplete(l) == {o \in Ops : l[o].id # None /\ ~l[o].done}

\* write_file keeps the shard lock of its operation from claim to completion.
InWrite(c) == call[c].pc \in {"effect", "complete"} /\ call[c].id \notin Exports
\* Mutant: handlers do not wait for each other.
Unlocked_Always(o) == TRUE

Unlocked(o) == \A c \in Callers : ~(InWrite(c) /\ call[c].op = o)

\* A store call of c waits for the lock, unless it already holds it.
MayEnter(c) == InWrite(c) \/ Unlocked(call[c].op)

-----------------------------------------------------------------------------
(* The log *)

\* sync: everything appended so far is on disk.
Synced(l, b) == disk' = l /\ diskBytes' = b /\ dirty' = FALSE

\* Mutant: writer() does not look at dirty.
PreSync_Skipped == UNCHANGED <<disk, diskBytes, dirty>>

\* writer(): an uncertain sync is repeated before anything else is done.
PreSync == IF dirty THEN Synced(log, bytes) ELSE UNCHANGED <<disk, diskBytes, dirty>>

IoError == /\ failures.io < MaxIoErrors
           /\ failures' = [failures EXCEPT !.io = @ + 1]

\* An append that was written, and whose sync succeeds or not.
AppendSync(l, b) ==
    \/ Synced(l, b) /\ UNCHANGED failures
    \/ /\ IoError /\ dirty' = TRUE
       /\ disk' = (IF dirty THEN log ELSE disk)
       /\ diskBytes' = (IF dirty THEN bytes ELSE diskBytes)

\* A call that is refused, or fails to write, after the first sync.
Refused(c) ==
    /\ call[c].pc = "idle" /\ dirty
    /\ PreSync
    /\ UNCHANGED <<log, bytes, reserved, claim, call, history, failures>>

\* The first sync itself fails.
PreSyncFails(c) ==
    /\ dirty /\ IoError
    /\ \/ call[c].pc = "idle"
       \/ call[c].pc \in {"ready", "complete"} /\ MayEnter(c)
    /\ Return(c)
    /\ UNCHANGED <<log, bytes, disk, diskBytes, dirty, reserved, claim, history>>

-----------------------------------------------------------------------------
(* reserve *)

\* Mutant: the intent is admitted without room for its result.
HasRoom_IntentOnly ==
    /\ Cardinality(Retained(log)) < MaxEffects
    /\ bytes + reserved + IntentBytes <= MaxBytes

HasRoom ==
    /\ Cardinality(Retained(log)) < MaxEffects
    /\ bytes + reserved + IntentBytes + ResultBytes <= MaxBytes

ReserveNew(c, o, i) ==
    /\ call[c].pc = "idle" /\ Unlocked(o) /\ log[o].id = None /\ HasRoom
    /\ log' = [log EXCEPT ![o] = Intent(i)]
    /\ bytes' = bytes + IntentBytes
    /\ reserved' = reserved + ResultBytes
    /\ claim' = [claim EXCEPT ![o] = TRUE]
    /\ AppendSync(log', bytes')
    /\ call' = IF dirty' THEN call ELSE [call EXCEPT ![c] = Calling("ready", o, i)]
    /\ UNCHANGED history

\* The exact intent whose claim is still available is admitted again.
ReserveAgain(c, o, i) ==
    /\ call[c].pc = "idle" /\ Unlocked(o)
    /\ log[o] = Intent(i) /\ claim[o]
    /\ PreSync
    /\ call' = [call EXCEPT ![c] = Calling("ready", o, i)]
    /\ UNCHANGED <<log, bytes, reserved, claim, history, failures>>

\* The exact intent has no result and no claim: Ambiguous.
ReserveAmbiguous(c, o, i) ==
    /\ call[c].pc = "idle" /\ Unlocked(o)
    /\ log[o] = Intent(i) /\ ~claim[o]
    /\ PreSync
    /\ ambiguous' = IF i \in Exports THEN ambiguous ELSE ambiguous \cup {o}
    /\ UNCHANGED <<log, bytes, reserved, claim, call, effects, failures>>

-----------------------------------------------------------------------------
(* claim, the effect, and complete *)

\* The one caller that consumes the claim goes on to the effect.
Claim(c) ==
    LET o == call[c].op  i == call[c].id IN
    /\ call[c].pc = "ready" /\ Unlocked(o)
    /\ log[o] = Intent(i) /\ claim[o]
    /\ PreSync
    /\ claim' = [claim EXCEPT ![o] = FALSE]
    /\ GoTo(c, "effect")
    /\ UNCHANGED <<log, bytes, reserved, history, failures>>

\* Replay, Conflict or Ambiguous.
ClaimRefused(c) ==
    LET o == call[c].op  i == call[c].id IN
    /\ call[c].pc = "ready" /\ Unlocked(o)
    /\ log[o] # Intent(i) \/ ~claim[o]
    /\ PreSync
    /\ ambiguous' = IF log[o] = Intent(i) /\ i \notin Exports
                    THEN ambiguous \cup {o} ELSE ambiguous
    /\ Return(c)
    /\ UNCHANGED <<log, bytes, reserved, claim, effects, failures>>

\* The workspace write or the PUT.
Effect(c) ==
    /\ call[c].pc = "effect"
    /\ effects' = [effects EXCEPT ![call[c].op] = @ + 1]
    /\ GoTo(c, "complete")
    /\ UNCHANGED <<log, bytes, disk, diskBytes, dirty, reserved, claim, ambiguous, failures>>

\* It fails, before or after it has taken effect.
EffectFails(c) ==
    /\ call[c].pc = "effect"
    /\ \/ UNCHANGED effects
       \/ effects' = [effects EXCEPT ![call[c].op] = @ + 1]
    /\ Return(c)
    /\ UNCHANGED <<log, bytes, disk, diskBytes, dirty, reserved, claim, ambiguous, failures>>

\* The result is appended in the space that was reserved for it.
Complete(c, n) ==
    LET o == call[c].op  i == call[c].id IN
    /\ call[c].pc = "complete" /\ MayEnter(c)
    /\ log[o] = Intent(i) /\ ~claim[o] /\ n <= ResultBytes
    /\ bytes + n + (reserved - ResultBytes) <= MaxBytes
    /\ log' = [log EXCEPT ![o] = Completed(i)]
    /\ bytes' = bytes + n
    /\ reserved' = reserved - ResultBytes
    /\ AppendSync(log', bytes')
    /\ Return(c)
    /\ UNCHANGED <<claim, history>>

\* Too large a result, a conflict, a failed write, or no such record.
CompleteFails(c) ==
    /\ call[c].pc = "complete" /\ MayEnter(c)
    /\ PreSync
    /\ Return(c)
    /\ UNCHANGED <<log, bytes, reserved, claim, history, failures>>

\* The adapter gives up or dies where it is in control.
Abandon(c) ==
    /\ call[c].pc # "idle" /\ ~InWrite(c)
    /\ Return(c)
    /\ UNCHANGED <<log, bytes, disk, diskBytes, dirty, reserved, claim, history, failures>>

-----------------------------------------------------------------------------
(* open_with_limits after a restart *)

\* Mutant: a reopened intent may be claimed again.
Opened_Claimable(l, b) ==
    /\ log' = l /\ bytes' = b /\ dirty' = FALSE
    /\ reserved' = ResultBytes * Cardinality(Incomplete(l))
    /\ claim' = [o \in Ops |-> o \in Incomplete(l)]
    /\ call' = [c \in Callers |-> IF InWrite(c) THEN Idle ELSE call[c]]
    /\ UNCHANGED history

\* Intents without a result get their reservation back, but no claim.  The
\* RPCs that were running in the guest are gone.
Opened(l, b) ==
    /\ log' = l /\ bytes' = b /\ dirty' = FALSE
    /\ reserved' = ResultBytes * Cardinality(Incomplete(l))
    /\ claim' = [o \in Ops |-> FALSE]
    /\ call' = [c \in Callers |-> IF InWrite(c) THEN Idle ELSE call[c]]
    /\ UNCHANGED history

\* The guest process is restarted; the log is as it was last written.
Restart ==
    /\ failures.restarts < MaxRestarts
    /\ failures' = [failures EXCEPT !.restarts = @ + 1]
    /\ Opened(log, bytes)
    /\ UNCHANGED <<disk, diskBytes>>

\* The machine fails: what was not synced may be lost or torn.
Crash ==
    /\ failures.crashes < MaxCrashes
    /\ failures' = [failures EXCEPT !.crashes = @ + 1]
    /\ \/ Opened(log, bytes) /\ disk' = log /\ diskBytes' = bytes
       \/ Opened(disk, diskBytes) /\ UNCHANGED <<disk, diskBytes>>

-----------------------------------------------------------------------------
Reserve(c) == \E o \in Ops, i \in Identities :
    ReserveNew(c, o, i) \/ ReserveAgain(c, o, i) \/ ReserveAmbiguous(c, o, i)

Next ==
    \/ \E c \in Callers :
        \/ Reserve(c) \/ Refused(c) \/ PreSyncFails(c) \/ Claim(c) \/ ClaimRefused(c)
        \/ Effect(c) \/ EffectFails(c) \/ CompleteFails(c) \/ Abandon(c)
        \/ \E n \in 1..ResultBytes + 1 : Complete(c, n)
    \/ Restart \/ Crash

Init ==
    /\ log = [o \in Ops |-> NoRecord] /\ bytes = 0
    /\ disk = [o \in Ops |-> NoRecord] /\ diskBytes = 0 /\ dirty = FALSE
    /\ reserved = 0 /\ claim = [o \in Ops |-> FALSE]
    /\ call = [c \in Callers |-> Idle]
    /\ effects = [o \in Ops |-> 0] /\ ambiguous = {}
    /\ failures = [restarts |-> 0, crashes |-> 0, io |-> 0]

Spec == Init /\ [][Next]_vars

-----------------------------------------------------------------------------
(* Properties *)

\* The type invariant: every variable keeps its shape.
TypeOK ==
    /\ log \in [Ops -> Record] /\ bytes \in Nat
    /\ disk \in [Ops -> Record] /\ diskBytes \in Nat /\ dirty \in BOOLEAN
    /\ reserved \in Nat /\ claim \in [Ops -> BOOLEAN]
    /\ call \in [Callers -> Call]
    /\ effects \in [Ops -> Nat] /\ ambiguous \subseteq Ops
    /\ failures \in [restarts : Nat, crashes : Nat, io : Nat]

\* "an intent without a result is ambiguous and is never executed again"
\* (file_effects.rs): whatever is retried, lost, restarted or rolled back to
\* the disk, no operation mutates the workspace or PUTs its object twice.
EffectAtMostOnce == \A o \in Ops : effects[o] <= 1

\* "The intent is synced before any workspace mutation or external PUT."
IntentIsDurable == \A o \in Ops : effects[o] > 0 => disk[o].id # None

\* A result is only ever committed, and replayed, for an effect that happened.
ResultMeansEffect == \A o \in Ops : log[o].done \/ disk[o].done => effects[o] = 1

\* The log tells the truth about the workspace in both directions: no effect
\* without its durable intent, no result without its effect (file_effects.rs).
RecordsAreTrue == IntentIsDurable /\ ResultMeansEffect

\* The log never outgrows its limit, with the results of all open intents
\* counted, and neither does the log that a crash would leave behind: a
\* completion always fits, and the guest can always be opened again.
LogFits ==
    /\ reserved = ResultBytes * Cardinality(Incomplete(log))
    /\ bytes + reserved <= MaxBytes
    /\ diskBytes + ResultBytes * Cardinality(Incomplete(disk)) <= MaxBytes

\* Brain may rely on the answer that a write is ambiguous: its result never
\* turns up afterwards, because the write keeps the shard lock to its end.  The
\* one exception takes all three failures: a restart forgets that a sync failed,
\* and a crash loses the intent that was answered as ambiguous.
AmbiguousIsFinal ==
    \A o \in ambiguous : log[o].done
        => failures.io > 0 /\ failures.restarts > 0 /\ failures.crashes > 0

-----------------------------------------------------------------------------
(* The inductive invariant behind them *)

\* A call past its reservation names an operation and an identity.
CallsNameOps ==
    \A c \in Callers : call[c].pc # "idle"
        => call[c].op \in Ops /\ call[c].id \in Identities

\* The log extends its durable part.
LogExtendsDisk ==
    \A o \in Ops :
        /\ disk[o].id # None => log[o].id = disk[o].id
        /\ disk[o].done => log[o].done

\* A claim that can still be consumed belongs to an intent whose effect has not
\* happened, and the intent is durable unless the log is known to be dirty.
ClaimsAreFresh ==
    \A o \in Ops : claim[o] =>
        /\ log[o].id # None /\ effects[o] = 0
        /\ ~dirty => disk[o].id # None

\* The one caller that has consumed the claim, before and after the effect.
ClaimantsAreAlone ==
    /\ \A c \in Callers : call[c].pc = "effect" =>
           /\ ~claim[call[c].op] /\ effects[call[c].op] = 0
           /\ disk[call[c].op].id # None
    /\ \A c \in Callers : call[c].pc = "complete" =>
           ~claim[call[c].op] /\ effects[call[c].op] = 1
    /\ \A c, d \in Callers :
           call[c].pc = "effect" /\ call[d].pc = "effect" /\ call[c].op = call[d].op
               => c = d

EffectInv ==
    /\ TypeOK /\ CallsNameOps /\ LogExtendsDisk /\ ClaimsAreFresh /\ ClaimantsAreAlone
    /\ EffectAtMostOnce /\ IntentIsDurable /\ ResultMeansEffect

\* The log is known to be on disk when it is clean, unless a restart came after
\* a failed sync: open_with_limits starts with a clean log.
CleanIsDurable ==
    /\ failures.io = 0 => ~dirty
    /\ ~dirty /\ (failures.io = 0 \/ failures.restarts = 0) => disk = log

\* An operation that was answered as ambiguous is a write with a fixed intent
\* that nobody can claim any more, and nobody is at work on it.
Settled(o) ==
    /\ log[o].id \notin Exports \cup {None} /\ ~log[o].done
    /\ ~claim[o] /\ Unlocked(o)
    /\ disk[o].id # None \/ (failures.io > 0 /\ failures.restarts > 0)

AmbiguousIsSettled ==
    \A o \in ambiguous :
        Settled(o) \/ (failures.io > 0 /\ failures.restarts > 0 /\ failures.crashes > 0)

AmbiguousInv == CleanIsDurable /\ AmbiguousIsSettled
=============================================================================
