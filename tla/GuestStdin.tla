------------------------------ MODULE GuestStdin ------------------------------
(***************************************************************************)
(* Idempotent writes to the stdin of one interactive sandbox execution     *)
(* (hand-guest/src/hand/stdin.rs), the per-execution pipe control          *)
(* (InteractiveControl in process.rs) and the release of the receipts      *)
(* after the acknowledgement (release_acknowledged_terminal).  Three locks *)
(* are involved, and no call holds two of them: the operation book, the    *)
(* stdin book and the control's pipe lock; every critical section is one   *)
(* step, except the one around the pipe, which stays locked while a full   *)
(* pipe is written.  A request is its own digest.                          *)
(***************************************************************************)
EXTENDS Integers, FiniteSets

CONSTANTS
    Callers,     \* connections that call write_stdin
    Requests,    \* [id, text : BOOLEAN, eof : BOOLEAN]
    MaxRecords,  \* MAX_RETAINED_STDIN_WRITES
    MaxCalls,    \* bound: calls
    None

Ids == {r.id : r \in Requests}
Entry == [state : {"in_flight", "complete"}, request : Requests, accepted : BOOLEAN]

ASSUME StdinAssumption == None \notin Callers \cup Requests \cup Entry

VARIABLES
    exec,    \* "queued", "running", "closed", "terminal", "removed" (metadata) or "released"
    pipe,    \* InteractiveControl.stdin: "none", "open" or "closed"
    lock,    \* holder of the pipe lock
    book,    \* [Ids -> None or [state, request, accepted]]
    call,    \* [Callers -> [at, request, accepted, woken, out]]
    applied, \* ghost: [Requests -> number of times the effect was applied]
    calls

vars == <<exec, pipe, lock, book, call, applied, calls>>

CallState ==
    [at : {"idle", "book", "wait", "replay", "send", "write", "ready", "observe", "complete"},
     request : Requests \cup {None}, accepted : BOOLEAN, woken : BOOLEAN,
     out : {"none", "exhausted", "conflict", "unavailable", "receipt", "unknown"}]
Idle == [at |-> "idle", request |-> None, accepted |-> FALSE, woken |-> FALSE, out |-> "none"]

Init ==
    /\ exec = "queued" /\ pipe = "none" /\ lock = None
    /\ book = [i \in Ids |-> None] /\ call = [c \in Callers |-> Idle]
    /\ applied = [r \in Requests |-> 0] /\ calls = 0

Known == exec \in {"queued", "running", "closed", "terminal"}
Req(c) == call[c].request
Record(c) == book[Req(c).id]
Go(c, at) == call' = [call EXCEPT ![c].at = at, ![c].woken = FALSE]
Return(c, out) == call' = [call EXCEPT ![c].at = "idle", ![c].out = out]
\* notify_waiters of the pipe control: wakes what registered before.
WakeReady == [c \in Callers |-> IF call[c].at = "ready" THEN [call[c] EXCEPT !.woken = TRUE] ELSE call[c]]

-----------------------------------------------------------------------------
(* write_stdin *)

\* The metadata of the execution is looked up and cloned; the rest of the call uses the clone.
LookUp(c, r) ==
    /\ call[c].at = "idle" /\ calls < MaxCalls /\ Known
    /\ calls' = calls + 1
    /\ call' = [call EXCEPT ![c] = [Idle EXCEPT !.at = "book", !.request = r]]
    /\ UNCHANGED <<exec, pipe, lock, book, applied>>

Records == {i \in Ids : book[i] # None}

Reserve(c) ==
    /\ call[c].at = "book" /\ Record(c) = None
    /\ IF Cardinality(Records) >= MaxRecords
       THEN Return(c, "exhausted") /\ UNCHANGED book
       ELSE /\ book' = [book EXCEPT ![Req(c).id] =
                           [state |-> "in_flight", request |-> Req(c), accepted |-> FALSE]]
            /\ Go(c, "send")
    /\ UNCHANGED <<exec, pipe, lock, applied, calls>>

Conflict(c) ==
    /\ call[c].at = "book" /\ Record(c) # None /\ Record(c).request # Req(c)
    /\ Return(c, "conflict")
    /\ UNCHANGED <<exec, pipe, lock, book, applied, calls>>

\* Registers with the record's Notify before the book is unlocked.
AwaitInFlight(c) ==
    /\ call[c].at = "book" /\ Record(c) # None
    /\ Record(c).request = Req(c) /\ Record(c).state = "in_flight"
    /\ Go(c, "wait")
    /\ UNCHANGED <<exec, pipe, lock, book, applied, calls>>

Woken(c) ==
    /\ call[c].at = "wait" /\ call[c].woken
    /\ Go(c, "book")
    /\ UNCHANGED <<exec, pipe, lock, book, applied, calls>>

\* The bounded wait of an exact retry ends first.
WaitTimeout(c) ==
    /\ call[c].at = "wait"
    /\ Return(c, "unavailable")
    /\ UNCHANGED <<exec, pipe, lock, book, applied, calls>>

\* A completed write is replayed with a fresh observation, which fails after the release.
ReplayFound(c) ==
    /\ call[c].at = "book" /\ Record(c) # None
    /\ Record(c).request = Req(c) /\ Record(c).state = "complete"
    /\ call' = [call EXCEPT ![c].at = "replay", ![c].accepted = Record(c).accepted]
    /\ UNCHANGED <<exec, pipe, lock, book, applied, calls>>

Replay(c) ==
    /\ call[c].at = "replay"
    /\ Return(c, IF Known THEN "receipt" ELSE "unknown")
    /\ UNCHANGED <<exec, pipe, lock, book, applied, calls>>

-----------------------------------------------------------------------------
(* send_atomic *)

Sent(c, accepted) ==
    /\ call' = [call EXCEPT ![c].at = "observe", ![c].accepted = accepted]

\* Empty text without eof only observes.
Poll(c) ==
    /\ call[c].at = "send" /\ ~Req(c).text /\ ~Req(c).eof
    /\ Sent(c, FALSE)
    /\ UNCHANGED <<exec, pipe, lock, book, applied, calls>>

\* timeout_at(deadline, lock): the slot is examined with the lock held.
LockPipe(c) ==
    /\ call[c].at = "send" /\ (Req(c).text \/ Req(c).eof) /\ lock = None
    /\ IF pipe = "open" THEN lock' = c /\ Go(c, "write")
                        ELSE Go(c, "ready") /\ UNCHANGED lock
    /\ UNCHANGED <<exec, pipe, book, applied, calls>>

\* Mutant: a close that was given up is reported as done.
SendGivesUp_ReportsEof(c) ==
    /\ call[c].at \in {"send", "write", "ready"} /\ (Req(c).text \/ Req(c).eof)
    /\ Sent(c, Req(c).eof)
    /\ lock' = IF lock = c THEN None ELSE lock
    /\ UNCHANGED <<exec, pipe, book, applied, calls>>
\* The one second for the lock, the slot or the full pipe is over; a write fails because the
\* child closed its end.  Nothing was written.
SendGivesUp(c) ==
    /\ call[c].at \in {"send", "write", "ready"} /\ (Req(c).text \/ Req(c).eof)
    /\ Sent(c, FALSE)
    /\ lock' = IF lock = c THEN None ELSE lock
    /\ UNCHANGED <<exec, pipe, book, applied, calls>>

\* One append of at most PIPE_BUF bytes, then eof under the same lock.
WritePipe(c) ==
    /\ call[c].at = "write"
    /\ applied' = [applied EXCEPT ![Req(c)] = @ + 1]
    /\ pipe' = IF Req(c).eof THEN "closed" ELSE pipe
    /\ lock' = None
    /\ call' = [(IF Req(c).eof THEN WakeReady ELSE call) EXCEPT ![c].at = "observe", ![c].accepted = TRUE]
    /\ UNCHANGED <<exec, book, calls>>

Ready(c) ==
    /\ call[c].at = "ready" /\ call[c].woken
    /\ Go(c, "send")
    /\ UNCHANGED <<exec, pipe, lock, book, applied, calls>>

\* observe_inner: an error leaves the in-flight record where it is.
Observe(c) ==
    /\ call[c].at = "observe"
    /\ IF Known THEN Go(c, "complete") ELSE Return(c, "unknown")
    /\ UNCHANGED <<exec, pipe, lock, book, applied, calls>>

\* Mutant: nobody is notified of a completed write.
Complete_Silent(c) ==
    /\ call[c].at = "complete"
    /\ book' = [book EXCEPT ![Req(c).id] = [state |-> "complete", request |-> Req(c),
                                           accepted |-> call[c].accepted]]
    /\ Return(c, "receipt")
    /\ UNCHANGED <<exec, pipe, lock, applied, calls>>
\* The receipt replaces the in-flight record, and the exact retries are woken.
Complete(c) ==
    /\ call[c].at = "complete"
    /\ Record(c) # None /\ Record(c).state = "in_flight" /\ Record(c).request = Req(c)
    /\ book' = [book EXCEPT ![Req(c).id] = [state |-> "complete", request |-> Req(c),
                                           accepted |-> call[c].accepted]]
    /\ call' = [d \in Callers |->
          IF d = c THEN [call[d] EXCEPT !.at = "idle", !.out = "receipt"]
          ELSE IF call[d].at = "wait" /\ Req(d).id = Req(c).id THEN [call[d] EXCEPT !.woken = TRUE]
          ELSE call[d]]
    /\ UNCHANGED <<exec, pipe, lock, applied, calls>>

-----------------------------------------------------------------------------
(* The execution *)

\* InteractiveControl::install after spawn.
Spawn ==
    /\ exec = "queued" /\ lock = None
    /\ exec' = "running" /\ pipe' = "open" /\ call' = WakeReady
    /\ UNCHANGED <<lock, book, applied, calls>>

\* InteractiveControl::close, after the exit or in teardown, before the terminal is retained.
Close ==
    /\ exec = "running" /\ lock = None
    /\ exec' = "closed" /\ pipe' = "closed" /\ call' = WakeReady
    /\ UNCHANGED <<lock, book, applied, calls>>

\* The terminal result is retained; an execution that was never spawned has no pipe.
Terminate ==
    /\ exec \in {"queued", "closed"}
    /\ exec' = "terminal"
    /\ UNCHANGED <<pipe, lock, book, call, applied, calls>>

\* release_acknowledged_terminal: the metadata under one lock, the receipts under another.
ReleaseMetadata ==
    /\ exec = "terminal"
    /\ exec' = "removed"
    /\ UNCHANGED <<pipe, lock, book, call, applied, calls>>

ReleaseReceipts ==
    /\ exec = "removed"
    /\ exec' = "released"
    /\ book' = [i \in Ids |-> IF book[i] # None /\ book[i].state = "complete" THEN None ELSE book[i]]
    /\ UNCHANGED <<pipe, lock, call, applied, calls>>

-----------------------------------------------------------------------------
CallStep(c) ==
    \/ Reserve(c) \/ Conflict(c) \/ AwaitInFlight(c) \/ Woken(c) \/ WaitTimeout(c)
    \/ ReplayFound(c) \/ Replay(c) \/ Poll(c) \/ LockPipe(c) \/ SendGivesUp(c)
    \/ WritePipe(c) \/ Ready(c) \/ Observe(c) \/ Complete(c)

Next ==
    \/ \E c \in Callers : CallStep(c) \/ \E r \in Requests : LookUp(c, r)
    \/ Spawn \/ Close \/ Terminate \/ ReleaseMetadata \/ ReleaseReceipts

Spec == Init /\ [][Next]_vars

-----------------------------------------------------------------------------
(* Properties *)

\* Every variable has its type; the pipe lock is held exactly by the caller that writes.
TypeOK ==
    /\ exec \in {"queued", "running", "closed", "terminal", "removed", "released"}
    /\ pipe \in {"none", "open", "closed"}
    /\ call \in [Callers -> CallState] /\ applied \in [Requests -> Nat]
    /\ lock \in Callers \cup {None}
    /\ \A c \in Callers : (lock = c) = (call[c].at = "write")
    /\ book \in [Ids -> Entry \cup {None}]
    /\ \A i \in Ids : book[i] # None => book[i].request.id = i

\* "an exact retry never writes or closes the pipe twice after a lost response": under one
\* operation id at most one request takes effect, and at most once, also when a retry looked
\* the execution up before its acknowledgement and finds its receipt already released.
WrittenOnce ==
    \A i \in Ids : LET of == {r \in Requests : r.id = i}
                   IN  \A r, q \in of : applied[r] <= 1 /\ (applied[r] + applied[q] > 1 => r = q)

\* A receipt, original or replayed, says accepted exactly when the write or the close it is
\* about happened.
ReceiptIsTruth ==
    \A c \in Callers : call[c].at = "idle" /\ call[c].out = "receipt"
        => call[c].accepted = (applied[Req(c)] = 1)

\* "a completion between unlock and await cannot be missed": an exact retry that waits and
\* has not been woken waits for a write that is really still in flight.
NoLostCompletion ==
    \A c \in Callers : call[c].at = "wait" /\ ~call[c].woken =>
        Record(c) # None /\ Record(c).state = "in_flight"

\* What write_stdin promises under one operation id: at most one effect, and receipts that tell
\* whether it happened; every variable has its type.
StdinIsExact == TypeOK /\ WrittenOnce /\ ReceiptIsTruth

-----------------------------------------------------------------------------
(* The inductive invariant behind them *)

\* The caller that has put the in-flight record of its request into the book.
Owns(c) == call[c].at \in {"send", "write", "ready", "observe", "complete"}
Untouched(i) == \A r \in Requests : r.id = i => applied[r] = 0
Truthful(c) == call[c].accepted = (applied[Req(c)] = 1)
Receipted(c) == call[c].at = "replay" \/ (call[c].at = "idle" /\ call[c].out = "receipt")
Holds(c, state) == Record(c) # None /\ Record(c).state = state /\ Record(c).request = Req(c)

\* What a call knows where it is.  Before its write nothing was written under its
\* id, unless the receipts are released: then the pipe is gone as well.
CallIsSound(c) ==
    /\ call[c].at # "idle" \/ call[c].out = "receipt" => Req(c) \in Requests
    /\ call[c].at = "write" => pipe = "open"
    /\ Owns(c) => Holds(c, "in_flight")
    /\ call[c].at \in {"send", "write", "ready"} /\ exec # "released" => Untouched(Req(c).id)
    /\ call[c].at = "observe" /\ exec # "released" => Truthful(c)
    /\ call[c].at = "complete" => Truthful(c)
    /\ Receipted(c) => Truthful(c) /\ (exec # "released" => Holds(c, "complete"))
    /\ call[c].at = "wait" /\ ~call[c].woken => Holds(c, "in_flight")

\* One call at most works under an id.
OneOwner ==
    \A c, d \in Callers : Owns(c) /\ Owns(d) /\ Req(c).id = Req(d).id => c = d

\* The pipe is open only while the execution runs, an id without a record has had
\* no effect until the receipts are released, and every receipt is true.
BookIsSound ==
    /\ pipe = "open" => exec = "running"
    /\ exec # "released" => \A i \in Ids : book[i] = None => Untouched(i)
    /\ \A i \in Ids : book[i] # None /\ book[i].state = "complete"
           => book[i].accepted = (applied[book[i].request] = 1)

StdinInv ==
    /\ TypeOK /\ WrittenOnce /\ OneOwner /\ BookIsSound
    /\ \A c \in Callers : CallIsSound(c)
=============================================================================
