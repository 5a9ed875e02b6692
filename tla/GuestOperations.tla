--------------------------- MODULE GuestOperations ---------------------------
(***************************************************************************)
(* The operation lifecycle of the guest: admission against the bounded     *)
(* operation registry (hand-core/operation.rs), supervised execution,      *)
(* terminal retention, observation and acknowledgement                     *)
(* (hand-guest/hand/operations.rs), and the durable log of acknowledgement *)
(* tombstones (hand-guest/acks.rs).                                        *)
(*                                                                         *)
(* A caller is one RPC that the server dispatches on a connection of its   *)
(* own.  A dropped connection does not stop it, so any RPC may be a        *)
(* duplicate of another whose response was lost.  submit and               *)
(* execute_sandbox share everything modelled here.  The stdin receipts     *)
(* that a release forgets belong to write_stdin and are not modelled.      *)
(***************************************************************************)
EXTENDS Integers, FiniteSets, FiniteSetsExt

CONSTANTS
    Ops,            \* operation identifiers
    Digests,        \* request digests; one names the OperationRef with its op
    Results,        \* digests of the terminal results an executor may produce
    None,           \* no digest
    Callers,        \* concurrent RPCs
    Reserve,        \* TERMINAL_ENVELOPE_BYTES
    MaxRecords,     \* MAX_RETAINED_OPERATIONS
    MaxBytes,       \* MAX_RETAINED_TERMINAL_BYTES
    Slots,          \* MAX_CONCURRENT_OPERATIONS
    MaxTombs,       \* tombstones that fit into MAX_ACKNOWLEDGEMENT_LOG_BYTES
    MaxRestarts,    \* bound on guest process restarts
    MaxCrashes,     \* bound on machine crashes
    MaxIoErrors     \* bound on failed writes and syncs

ASSUME GuestAssumption ==
    /\ IsFiniteSet(Ops) /\ None \notin Ops \cup Digests \cup Results
    /\ {Reserve, Slots} \subseteq Nat \ {0}
    /\ {MaxRecords, MaxBytes, MaxTombs, MaxRestarts, MaxCrashes, MaxIoErrors} \subseteq Nat

VARIABLES
    book,           \* OperationBook: registry record and metadata, per operation
    pending,        \* pending_reserved_bytes
    terminalBytes,  \* terminal_bytes
    admits,         \* history: how often this process has admitted and spawned
    task,           \* the supervised execution of each operation
    permits,        \* free permits of the slots semaphore
    shutdown,       \* how far Hand::shutdown has come
    tomb,           \* the acknowledgement log, and its index in memory
    disk,           \* the part of the log that is known to be on disk
    dirty,          \* AckWriter.dirty
    call,           \* the local state of each RPC
    acked,          \* history: operations whose acknowledgement succeeded
    failures        \* restarts, crashes and I/O errors so far

vars == <<book, pending, terminalBytes, admits, task, permits, shutdown,
          tomb, disk, dirty, call, acked, failures>>
bookVars == <<book, pending, terminalBytes>>
taskVars == <<task, permits, shutdown>>
ackVars == <<tomb, disk, dirty, acked>>

-----------------------------------------------------------------------------
(* Records *)

Terminals == Results \cup {"interrupted", "overflow"}

Entry == [state : {"none", "running", "terminal"}, digest : Digests \cup {None},
          bytes : 0..Reserve, token : BOOLEAN, result : Terminals \cup {None},
          notify : Nat]
NoEntry == [state |-> "none", digest |-> None, bytes |-> 0, token |-> FALSE,
            result |-> None, notify |-> 0]

Tomb == [digest : Digests \cup {None}, result : Terminals \cup {None}]
NoTomb == [digest |-> None, result |-> None]

Call == [pc : {"idle", "validate", "observe", "enable", "check", "wait", "read",
               "ack_validate", "retain", "sync", "release"},
         op : Ops \cup {None}, digest : Digests \cup {None}, result : Terminals \cup {None},
         wait : BOOLEAN, notify : Nat, woken : BOOLEAN]
Calling(pc, o, d, t, w) ==
    [pc |-> pc, op |-> o, digest |-> d, result |-> t, wait |-> w,
     notify |-> 0, woken |-> FALSE]
Idle == Calling("idle", None, None, None, FALSE)

Running == {o \in Ops : book[o].state = "running"}
Terminal == {o \in Ops : book[o].state = "terminal"}

Return(c) == call' = [call EXCEPT ![c] = Idle]
GoTo(c, pc) == call' = [call EXCEPT ![c].pc = pc]

-----------------------------------------------------------------------------
(* submit and execute_sandbox *)

\* fence_acknowledged_submission looks the tombstone up, then the handler
\* awaits validate_operation, or the opening of the working directory.
Submit(c, o, d, w) ==
    /\ call[c].pc = "idle"
    /\ tomb[o] = NoTomb
    /\ call' = [call EXCEPT ![c] = Calling("validate", o, d, None, w)]
    /\ UNCHANGED <<bookVars, admits, taskVars, ackVars, failures>>

\* The target, the binding or a secret is missing or does not match.
ValidateFails(c) ==
    /\ call[c].pc = "validate"
    /\ Return(c)
    /\ UNCHANGED <<bookVars, admits, taskVars, ackVars, failures>>

\* OperationRegistry::reserve
HasRoom == /\ Cardinality(Running \cup Terminal) < MaxRecords
           /\ terminalBytes + pending + Reserve <= MaxBytes

\* admit_operation reserves, stores the metadata and marks the record running
\* under the book lock; spawn_execution follows at once.
AdmitNew(c) ==
    LET m == call[c] IN
    /\ m.pc = "validate" /\ book[m.op].state = "none" /\ HasRoom
    /\ book' = [book EXCEPT ![m.op] =
           [state |-> "running", digest |-> m.digest, bytes |-> Reserve,
            token |-> FALSE, result |-> None, notify |-> admits[m.op] + 1]]
    /\ pending' = pending + Reserve
    /\ admits' = [admits EXCEPT ![m.op] = @ + 1]
    /\ task' = [task EXCEPT ![m.op] = "queued"]
    /\ GoTo(c, "observe")
    /\ UNCHANGED <<terminalBytes, permits, shutdown, ackVars, failures>>

AdmitExisting(c) ==
    LET m == call[c] IN
    /\ m.pc = "validate" /\ book[m.op].digest = m.digest
    /\ GoTo(c, "observe")
    /\ UNCHANGED <<bookVars, admits, taskVars, ackVars, failures>>

\* IdempotencyConflict and Capacity.
AdmitRefused(c) ==
    LET m == call[c] IN
    /\ m.pc = "validate"
    /\ \/ book[m.op].state # "none" /\ book[m.op].digest # m.digest
       \/ book[m.op].state = "none" /\ ~HasRoom
    /\ Return(c)
    /\ UNCHANGED <<bookVars, admits, taskVars, ackVars, failures>>

-----------------------------------------------------------------------------
(* Execution: spawn_execution and finish *)

\* Mutant: a queued task may still start after the slots were closed.
TaskStart_AfterClose(o) ==
    /\ task[o] = "queued" /\ permits > 0
    /\ permits' = permits - 1
    /\ task' = [task EXCEPT ![o] = "running"]
    /\ UNCHANGED <<bookVars, admits, shutdown, ackVars, call, failures>>

TaskStart(o) ==
    /\ task[o] = "queued" /\ shutdown = "no" /\ permits > 0
    /\ permits' = permits - 1
    /\ task' = [task EXCEPT ![o] = "running"]
    /\ UNCHANGED <<bookVars, admits, shutdown, ackVars, call, failures>>

\* The semaphore is closed: the task ends and the operation keeps its record.
TaskRefused(o) ==
    /\ task[o] = "queued" /\ shutdown # "no"
    /\ task' = [task EXCEPT ![o] = "none"]
    /\ UNCHANGED <<bookVars, admits, permits, shutdown, ackVars, call, failures>>

\* Mutant: completing an operation keeps its reservation.
Complete_KeepsReservation(o, t, b) ==
    /\ IF book[o].state = "running"
       THEN /\ book' = [book EXCEPT ![o].state = "terminal", ![o].bytes = 1,
                                    ![o].result = t]
            /\ pending' = pending
            /\ terminalBytes' = terminalBytes + 1
       ELSE UNCHANGED bookVars
    /\ call' = [c \in Callers |->
           IF call[c].pc \in {"check", "wait"} /\ call[c].op = o
           THEN [call[c] EXCEPT !.woken = TRUE] ELSE call[c]]

\* OperationRegistry::complete; a payload beyond the reservation is replaced
\* by the fallback result.  notify_waiters wakes the waiters there are.
Complete(o, t, b) ==
    /\ IF book[o].state = "running"
       THEN LET fits == b <= Reserve
                size == IF fits THEN b ELSE 1
            IN /\ book' = [book EXCEPT ![o].state = "terminal", ![o].bytes = size,
                                       ![o].result = IF fits THEN t ELSE "overflow"]
               /\ pending' = pending - Reserve
               /\ terminalBytes' = terminalBytes + size
       ELSE UNCHANGED bookVars
    /\ call' = [c \in Callers |->
           IF /\ call[c].pc \in {"check", "wait"} /\ call[c].op = o
              /\ book[o].state = "running" /\ call[c].notify = book[o].notify
           THEN [call[c] EXCEPT !.woken = TRUE] ELSE call[c]]

\* The executor returns: by itself, at its deadline or because it was cancelled.
TaskFinish(o, t, b) ==
    /\ task[o] = "running"
    /\ Complete(o, t, b)
    /\ task' = [task EXCEPT ![o] = "none"]
    /\ permits' = permits + 1
    /\ UNCHANGED <<admits, shutdown, ackVars, failures>>

\* Mutant: nobody looks after a task that panicked.
TaskPanics_Unsupervised(o) ==
    /\ task[o] = "running"
    /\ task' = [task EXCEPT ![o] = "none"]
    /\ permits' = permits + 1
    /\ UNCHANGED <<bookVars, admits, shutdown, ackVars, call, failures>>

TaskPanics(o) ==
    /\ task[o] = "running"
    /\ task' = [task EXCEPT ![o] = "died"]
    /\ permits' = permits + 1
    /\ UNCHANGED <<bookVars, admits, shutdown, ackVars, call, failures>>

Supervise(o) ==
    /\ task[o] = "died"
    /\ Complete(o, "interrupted", 1)
    /\ task' = [task EXCEPT ![o] = "none"]
    /\ UNCHANGED <<admits, permits, shutdown, ackVars, failures>>

\* cancel: the token of the operation's metadata.
Cancel(o) ==
    /\ book[o].state = "running" /\ ~book[o].token
    /\ book' = [book EXCEPT ![o].token = TRUE]
    /\ UNCHANGED <<pending, terminalBytes, admits, taskVars, ackVars, call, failures>>

\* Hand::shutdown closes the slots, then cancels every operation in the book.
ShutdownClose ==
    /\ shutdown = "no"
    /\ shutdown' = "closed"
    /\ UNCHANGED <<bookVars, admits, task, permits, ackVars, call, failures>>

ShutdownCancel ==
    /\ shutdown = "closed"
    /\ shutdown' = "cancelled"
    /\ book' = [o \in Ops |-> IF book[o].state = "none" THEN book[o]
                              ELSE [book[o] EXCEPT !.token = TRUE]]
    /\ UNCHANGED <<pending, terminalBytes, admits, task, permits, ackVars, call, failures>>

-----------------------------------------------------------------------------
(* observe and the waiting end of submit: observe_inner *)

Observe(c, o, d, w) ==
    /\ call[c].pc = "idle"
    /\ call' = [call EXCEPT ![c] = Calling("observe", o, d, None, w)]
    /\ UNCHANGED <<bookVars, admits, taskVars, ackVars, failures>>

\* validate_operation_ref, and the Notify of the operation.
ObserveLookup(c) ==
    LET m == call[c] IN
    /\ m.pc = "observe"
    /\ IF book[m.op].digest # m.digest THEN Return(c)
       ELSE call' = [call EXCEPT ![c].pc = IF m.wait THEN "enable" ELSE "read",
                                 ![c].notify = book[m.op].notify]
    /\ UNCHANGED <<bookVars, admits, taskVars, ackVars, failures>>

\* The waiter is registered before the state is checked again.
ObserveEnable(c) ==
    /\ call[c].pc = "enable"
    /\ GoTo(c, "check")
    /\ UNCHANGED <<bookVars, admits, taskVars, ackVars, failures>>

\* Mutant: no second look at the state.
ObserveCheck_Skipped(c) ==
    /\ call[c].pc = "check"
    /\ GoTo(c, "wait")
    /\ UNCHANGED <<bookVars, admits, taskVars, ackVars, failures>>

ObserveCheck(c) ==
    /\ call[c].pc = "check"
    /\ GoTo(c, IF book[call[c].op].state = "terminal" THEN "read" ELSE "wait")
    /\ UNCHANGED <<bookVars, admits, taskVars, ackVars, failures>>

\* Notified, or the wait has timed out.
ObserveWait(c) ==
    /\ call[c].pc = "wait"
    /\ GoTo(c, "read")
    /\ UNCHANGED <<bookVars, admits, taskVars, ackVars, failures>>

ObserveRead(c) ==
    /\ call[c].pc = "read"
    /\ Return(c)
    /\ UNCHANGED <<bookVars, admits, taskVars, ackVars, failures>>

-----------------------------------------------------------------------------
(* acknowledge_terminal and the acknowledgement log *)

Tombstone(d, t) == [digest |-> d, result |-> t]
WriterFree == \A c \in Callers : call[c].pc # "sync"

\* sync_data succeeds, or fails and leaves the log as it is.
SyncOk == disk' = tomb /\ dirty' = FALSE /\ UNCHANGED failures
SyncFails == /\ failures.io < MaxIoErrors
             /\ failures' = [failures EXCEPT !.io = @ + 1]
             /\ UNCHANGED <<disk, dirty>>
SyncIfDirty == IF dirty THEN SyncOk ELSE UNCHANGED <<disk, dirty, failures>>

\* Mutant: an exact replay trusts the index before the log is on disk.
Acknowledge_TrustsIndex(c, o, d, t) ==
    /\ call[c].pc = "idle" /\ WriterFree
    /\ \/ tomb[o] = NoTomb /\ call' = [call EXCEPT ![c] = Calling("ack_validate", o, d, t, FALSE)]
       \/ tomb[o] = Tombstone(d, t) /\ call' = [call EXCEPT ![c] = Calling("release", o, d, t, FALSE)]
    /\ UNCHANGED <<bookVars, admits, taskVars, ackVars, failures>>

\* acknowledgement_exists: a log whose last sync failed is synced first.  An
\* exact replay goes on to release; another tombstone is a conflict.
Acknowledge(c, o, d, t) ==
    /\ call[c].pc = "idle" /\ WriterFree
    /\ SyncIfDirty
    /\ \/ tomb[o] = NoTomb /\ call' = [call EXCEPT ![c] = Calling("ack_validate", o, d, t, FALSE)]
       \/ tomb[o] = Tombstone(d, t) /\ call' = [call EXCEPT ![c] = Calling("release", o, d, t, FALSE)]
       \/ tomb[o] \notin {NoTomb, Tombstone(d, t)} /\ UNCHANGED call
    /\ UNCHANGED <<bookVars, admits, taskVars, tomb, acked>>

\* The acknowledgement (or the retention) fails in that first sync.
AckSyncFails(c) ==
    /\ call[c].pc \in {"idle", "retain"} /\ WriterFree /\ dirty
    /\ SyncFails
    /\ Return(c)
    /\ UNCHANGED <<bookVars, admits, taskVars, tomb, acked>>

\* validate_operation_ref and validate_terminal_ack, under the book lock.
AckValidate(c) ==
    LET m == call[c]  e == book[m.op] IN
    /\ m.pc = "ack_validate"
    /\ IF e.state = "terminal" /\ e.digest = m.digest /\ e.result = m.result
       THEN GoTo(c, "retain") ELSE Return(c)
    /\ UNCHANGED <<bookVars, admits, taskVars, ackVars, failures>>

\* retain: the tombstone is there already.
RetainReplay(c) ==
    LET m == call[c] IN
    /\ m.pc = "retain" /\ WriterFree /\ tomb[m.op] # NoTomb
    /\ SyncIfDirty
    /\ IF tomb[m.op] = Tombstone(m.digest, m.result) THEN GoTo(c, "release") ELSE Return(c)
    /\ UNCHANGED <<bookVars, admits, taskVars, tomb, acked>>

\* The log is full, or write_all fails and the partial record is cut off.
RetainFails(c) ==
    LET m == call[c] IN
    /\ m.pc = "retain" /\ WriterFree /\ tomb[m.op] = NoTomb
    /\ \/ Cardinality({o \in Ops : tomb[o] # NoTomb}) >= MaxTombs /\ SyncIfDirty
       \/ ~dirty /\ SyncFails
    /\ Return(c)
    /\ UNCHANGED <<bookVars, admits, taskVars, tomb, acked>>

\* The record is written and indexed; the writer lock is kept until the sync.
RetainWrite(c) ==
    LET m == call[c] IN
    /\ m.pc = "retain" /\ WriterFree /\ tomb[m.op] = NoTomb
    /\ Cardinality({o \in Ops : tomb[o] # NoTomb}) < MaxTombs
    /\ disk' = IF dirty THEN tomb ELSE disk
    /\ tomb' = [tomb EXCEPT ![m.op] = Tombstone(m.digest, m.result)]
    /\ dirty' = TRUE
    /\ GoTo(c, "sync")
    /\ UNCHANGED <<bookVars, admits, taskVars, acked, failures>>

RetainSync(c) ==
    /\ call[c].pc = "sync"
    /\ \/ SyncOk /\ GoTo(c, "release")
       \/ SyncFails /\ Return(c)
    /\ UNCHANGED <<bookVars, admits, taskVars, tomb, acked>>

\* release_acknowledged_terminal: the exact terminal record is forgotten, an
\* unknown one counts as released; anything else is an error.
Release(c) ==
    LET m == call[c]  e == book[m.op] IN
    /\ m.pc = "release"
    /\ IF e.state = "terminal" /\ e.result = m.result
       THEN /\ book' = [book EXCEPT ![m.op] = NoEntry]
            /\ terminalBytes' = terminalBytes - e.bytes
            /\ UNCHANGED pending
       ELSE UNCHANGED bookVars
    /\ acked' = IF e.state = "none" \/ (e.state = "terminal" /\ e.result = m.result)
                THEN acked \cup {m.op} ELSE acked
    /\ Return(c)
    /\ UNCHANGED <<admits, taskVars, tomb, disk, dirty, failures>>

-----------------------------------------------------------------------------
(* Restart: everything but the log is lost *)

Reset ==
    /\ book' = [o \in Ops |-> NoEntry] /\ pending' = 0 /\ terminalBytes' = 0
    /\ admits' = [o \in Ops |-> 0]
    /\ task' = [o \in Ops |-> "none"] /\ permits' = Slots /\ shutdown' = "no"
    /\ call' = [c \in Callers |-> Idle]
    /\ dirty' = FALSE
    /\ UNCHANGED acked

\* The process is restarted: open reads the log as it was last written.
Restart ==
    /\ failures.restarts < MaxRestarts
    /\ failures' = [failures EXCEPT !.restarts = @ + 1]
    /\ Reset
    /\ UNCHANGED <<tomb, disk>>

\* The machine fails: a record that was not synced may be lost or torn, and
\* open discards a torn one.
Crash ==
    /\ failures.crashes < MaxCrashes
    /\ failures' = [failures EXCEPT !.crashes = @ + 1]
    /\ Reset
    /\ tomb' \in {tomb, disk}
    /\ disk' = tomb'

-----------------------------------------------------------------------------
Execute(o) ==
    \/ TaskStart(o) \/ TaskRefused(o) \/ TaskPanics(o) \/ Supervise(o)
    \/ \E t \in Results, b \in 1..Reserve + 1 : TaskFinish(o, t, b)

Start(c) == \E o \in Ops, d \in Digests :
    \/ \E w \in BOOLEAN : Submit(c, o, d, w) \/ Observe(c, o, d, w)
    \/ \E t \in Terminals : Acknowledge(c, o, d, t)

Continue(c) ==
    \/ ValidateFails(c) \/ AdmitNew(c) \/ AdmitExisting(c) \/ AdmitRefused(c)
    \/ ObserveLookup(c) \/ ObserveEnable(c) \/ ObserveCheck(c) \/ ObserveWait(c)
    \/ ObserveRead(c) \/ AckValidate(c) \/ RetainReplay(c) \/ RetainFails(c)
    \/ RetainWrite(c) \/ RetainSync(c) \/ Release(c)

Next ==
    \/ \E c \in Callers : Start(c) \/ AckSyncFails(c) \/ Continue(c)
    \/ \E o \in Ops : Execute(o) \/ Cancel(o)
    \/ ShutdownClose \/ ShutdownCancel \/ Restart \/ Crash

Started ==
    /\ book = [o \in Ops |-> NoEntry] /\ pending = 0 /\ terminalBytes = 0
    /\ admits = [o \in Ops |-> 0]
    /\ task = [o \in Ops |-> "none"] /\ permits = Slots /\ shutdown = "no"
    /\ tomb = [o \in Ops |-> NoTomb] /\ disk = tomb /\ dirty = FALSE /\ acked = {}
    /\ call = [c \in Callers |-> Idle]

Init == Started /\ failures = [restarts |-> 0, crashes |-> 0, io |-> 0]

Spec == Init /\ [][Next]_vars

\* Tasks are polled, executors end at their deadline at the latest, and the
\* semaphore hands its permits out in order.
Fairness == \A o \in Ops :
    /\ SF_vars(TaskStart(o))
    /\ WF_vars(Supervise(o))
    /\ WF_vars(TaskPanics(o) \/ \E t \in Results, b \in 1..Reserve + 1 : TaskFinish(o, t, b))

FairSpec == Spec /\ Fairness

-----------------------------------------------------------------------------
(* Properties *)

\* The type invariant: every variable of the guest keeps its shape.
TypeOK ==
    /\ book \in [Ops -> Entry] /\ pending \in Nat /\ terminalBytes \in Int
    /\ admits \in [Ops -> Nat]
    /\ task \in [Ops -> {"none", "queued", "running", "died"}]
    /\ permits \in 0..Slots /\ shutdown \in {"no", "closed", "cancelled"}
    /\ tomb \in [Ops -> Tomb] /\ disk \in [Ops -> Tomb] /\ dirty \in BOOLEAN
    /\ call \in [Callers -> Call] /\ acked \subseteq Ops
    /\ failures \in [restarts : Nat, crashes : Nat, io : Nat]

\* What is reserved and retained stays within the bounds of OperationRegistry:
\* a terminal result always fits into what its admission has reserved.
RetentionIsBounded ==
    /\ pending = Reserve * Cardinality(Running)
    /\ pending + terminalBytes <= MaxBytes
    /\ Cardinality(Running \cup Terminal) <= MaxRecords

\* The two byte counters of OperationRegistry equal what the records hold, so
\* that they never wrap around, and stay within the registry's bounds.
RetentionIsExact ==
    /\ RetentionIsBounded
    /\ terminalBytes = MapThenSumSet(LAMBDA o : book[o].bytes, Terminal)

\* Duplicate submissions, cancellations and retries of an operation that is
\* not acknowledged execute it at most once in the life of the process.
ExecutesOnce == \A o \in Ops : tomb[o] = NoTomb => admits[o] <= 1

\* An acknowledgement that was reported to Brain as successful stays in force
\* through failed syncs, and through process restarts or machine crashes.  Not
\* through both: open takes a record that was never synced for a clean one
\* (dirty: false), its exact replay succeeds, and a crash may then lose it.
AckSurvives ==
    failures.restarts = 0 \/ failures.crashes = 0
        => \A o \in acked : tomb[o] # NoTomb

\* "it never releases a result based on an uncertain write" (acks.rs): what was
\* reported to Brain stays in force as AckSurvives says, and the running guest
\* forgets a terminal result only when its tombstone is on disk.
ReleasedOnlyWhenDurable ==
    /\ []AckSurvives
    /\ [][\A o \in Ops :
              /\ book[o].state = "terminal" /\ book'[o].state = "none"
              /\ UNCHANGED failures
              => disk[o] # NoTomb]_vars

\* A waiter of observe_inner that has registered itself never sleeps past the
\* terminal result of the operation it looked up.
NoLostWakeup ==
    \A c \in Callers : LET m == call[c] IN
        /\ m.pc = "wait" /\ book[m.op].state = "terminal"
        /\ m.notify = book[m.op].notify
        => m.woken

\* Once shutdown has cancelled what it found in the book, no execution runs
\* that was not cancelled ("queued tasks never spawn a child").
ShutdownReachesAll ==
    shutdown = "cancelled" => \A o \in Ops : task[o] = "running" => book[o].token

\* What the supervisor of an operation may start (admit_operation, TaskStart):
\* one execution of it, and none that shutdown cannot reach; every variable of
\* the guest keeps its type.
ExecutionIsControlled == TypeOK /\ ExecutesOnce /\ ShutdownReachesAll

\* Every admitted operation gets a terminal result, also if its executor
\* panics, unless the guest shuts down first.
EveryOperationEnds ==
    \A o \in Ops : book[o].state = "running"
        ~> (book[o].state # "running" \/ shutdown # "no")

-----------------------------------------------------------------------------
(* The inductive invariant behind the safety properties *)

Active == {o \in Ops : task[o] = "running"}
Logged(o) == tomb[o] # NoTomb
Durable(o) == disk[o] # NoTomb

\* The Notify of a record is the one of its admission, a task works on a running
\* record, one that shutdown has reached if there was a shutdown, and what this
\* process has admitted is forgotten only when it is logged.  A record that this
\* process wrote and that is not on disk keeps the log dirty.
OperationIsSound(o) ==
    /\ IF book[o].state = "none" THEN book[o] = NoEntry
       ELSE book[o].notify = admits[o] /\ admits[o] > 0 /\ book[o].digest \in Digests
    /\ task[o] # "none" => book[o].state = "running"
    /\ ~Logged(o) => admits[o] <= 1 /\ (admits[o] = 1 => book[o].state # "none")
    /\ shutdown = "cancelled" /\ task[o] = "running" => book[o].token
    /\ Durable(o) => Logged(o)
    /\ Logged(o) /\ ~Durable(o) /\ admits[o] > 0 => dirty

\* A call submits nothing that an earlier process has logged without a sync, and
\* releases only what is on disk, or what this process has never admitted.  It
\* waits for a Notify that exists or existed, and never past its terminal result.
CallIsSound(c) ==
    LET m == call[c] IN
    /\ m.pc # "idle" => m.op \in Ops /\ m.digest \in Digests
    /\ m.pc \in {"ack_validate", "retain", "sync", "release"} => m.result \in Terminals
    /\ m.pc = "validate" => ~Logged(m.op) \/ Durable(m.op) \/ admits[m.op] > 0
    /\ m.pc \in {"retain", "sync"} => admits[m.op] > 0
    /\ m.pc \in {"sync", "release"} => Logged(m.op)
    /\ m.pc = "release" /\ ~Durable(m.op) => admits[m.op] = 0 /\ failures.restarts # 0
    /\ m.pc \in {"enable", "check", "wait"} => 0 < m.notify /\ m.notify <= admits[m.op]
    /\ m.pc = "wait" /\ ~m.woken /\ m.notify = book[m.op].notify => book[m.op].state = "running"

\* Without a restart a clean log is on disk, and so is everything that was
\* acknowledged; without a crash nothing that was logged is lost.
LogIsSound ==
    /\ failures.restarts = 0 => /\ ~dirty => disk = tomb
                                /\ \A o \in acked : Durable(o)
    /\ failures.crashes = 0 => \A o \in acked : Logged(o)

OperationsInv ==
    /\ TypeOK /\ RetentionIsBounded /\ LogIsSound
    /\ permits = Slots - Cardinality(Active)
    /\ \A o \in Ops : OperationIsSound(o)
    /\ \A c \in Callers : CallIsSound(c)
=============================================================================
