------------------------ MODULE GuestExecutionProofs ------------------------
(***************************************************************************)
(* Proofs about an execution in the guest: its standard input (GuestStdin) *)
(* for every set of callers and requests, and its processes                *)
(* (GuestProcess) for every set of processes and every limit.              *)
(***************************************************************************)
EXTENDS GuestStdin, TLAPS

\* The typing of calls and of the book that every step uses.
Typed ==
    /\ call \in [Callers -> CallState] /\ applied \in [Requests -> Nat]
    /\ book \in [Ids -> Entry \cup {None}] /\ lock \in Callers \cup {None}

\* No other call notices a step of c.
Others(c) == \A d \in Callers : d # c => call'[d] = call[d]

\* The fields of records.
LEMMA Fields ==
  /\ Idle \in CallState /\ Idle.at = "idle" /\ Idle.out = "none"
  /\ \A r \in Requests : r.id \in Ids
  /\ \A e \in Entry : /\ e # None /\ e.state \in {"in_flight", "complete"}
                      /\ e.request \in Requests /\ e.accepted \in BOOLEAN
  BY StdinAssumption, Zenon DEF Idle, CallState, Ids, Entry

\* A call that goes on keeps what it is about.
LEMMA GoStep ==
  ASSUME Typed, NEW c \in Callers,
         NEW at \in {"book", "wait", "replay", "send", "write", "ready", "observe", "complete"},
         Go(c, at)
  PROVE  /\ call' \in [Callers -> CallState] /\ Others(c)
         /\ call'[c].at = at /\ call'[c].request = call[c].request /\ ~call'[c].woken
         /\ call'[c].accepted = call[c].accepted /\ call'[c].out = call[c].out
  <1>1. call[c] \in CallState
    BY Zenon DEF Typed
  <1>2. call' = [call EXCEPT ![c] = [call[c] EXCEPT !.at = at, !.woken = FALSE]]
    BY <1>1, Zenon DEF Go, Typed, CallState
  <1>3. [call[c] EXCEPT !.at = at, !.woken = FALSE] \in CallState
    BY <1>1, Zenon DEF CallState
  <1>. QED  BY <1>1, <1>2, <1>3, Zenon DEF Typed, Others, CallState

\* And so does a call that returns.
LEMMA ReturnStep ==
  ASSUME Typed, NEW c \in Callers,
         NEW out \in {"exhausted", "conflict", "unavailable", "receipt", "unknown"},
         Return(c, out)
  PROVE  /\ call' \in [Callers -> CallState] /\ Others(c)
         /\ call'[c].at = "idle" /\ call'[c].request = call[c].request
         /\ call'[c].accepted = call[c].accepted /\ call'[c].out = out
  <1>1. call[c] \in CallState
    BY Zenon DEF Typed
  <1>2. call' = [call EXCEPT ![c] = [call[c] EXCEPT !.at = "idle", !.out = out]]
    BY <1>1, Zenon DEF Return, Typed, CallState
  <1>3. [call[c] EXCEPT !.at = "idle", !.out = out] \in CallState
    BY <1>1, Zenon DEF CallState
  <1>. QED  BY <1>1, <1>2, <1>3, Zenon DEF Typed, Others, CallState

\* A step of one call that changes neither the execution, the book nor the pipe
\* needs to be examined for that call only.
LEMMA CallStepKeeps ==
  ASSUME StdinInv, NEW c \in Callers, Others(c), call' \in [Callers -> CallState],
         UNCHANGED <<exec, pipe, book, applied>>,
         lock' \in Callers \cup {None}, \A d \in Callers : d # c => (lock' = d) = (lock = d),
         (lock' = c) = (call'[c].at = "write"),
         Owns(c)' => Owns(c) /\ call'[c].request = call[c].request,
         CallIsSound(c)'
  PROVE  StdinInv'
  <1>1. TypeOK'
    BY DEF StdinInv, TypeOK, Others
  <1>2. WrittenOnce' /\ BookIsSound'
    BY Zenon DEF StdinInv, WrittenOnce, BookIsSound, Untouched
  <1>3. OneOwner'
    BY DEF StdinInv, OneOwner, Owns, Others, Req
  <1>4. ASSUME NEW d \in Callers, d # c PROVE CallIsSound(d)'
    <2>1. call'[d] = call[d]
      BY <1>4, Zenon DEF Others
    <2>2. CallIsSound(d)
      BY Zenon DEF StdinInv
    <2>. QED  BY <2>1, <2>2 DEF CallIsSound, Req, Record, Holds, Owns, Untouched, Truthful, Receipted
  <1>. QED  BY <1>1, <1>2, <1>3, <1>4, Zenon DEF StdinInv

-----------------------------------------------------------------------------
(* Steps of one call *)

\* The facts about one call that its steps start from.
LEMMA Start ==
  ASSUME StdinInv, NEW c \in Callers
  PROVE  /\ Typed /\ CallIsSound(c) /\ (lock = c) = (call[c].at = "write")
         /\ call[c] \in CallState
  BY Zenon DEF StdinInv, TypeOK, Typed

\* A new call takes nothing over from the previous one.
LEMMA LookUpKeeps ==
  ASSUME StdinInv, NEW c \in Callers, NEW r \in Requests, LookUp(c, r)
  PROVE  StdinInv'
  <1>1. Typed /\ CallIsSound(c) /\ (lock = c) = (call[c].at = "write")
    BY Start, Zenon
  <1>2. /\ call' \in [Callers -> CallState] /\ Others(c)
        /\ call'[c].at = "book" /\ call'[c].request = r /\ call'[c].out = "none"
    BY <1>1, Fields, Zenon DEF LookUp, Typed, Others, Idle, CallState
  <1>3. UNCHANGED <<exec, pipe, lock, book, applied>> /\ call[c].at = "idle"
    BY Zenon DEF LookUp
  <1>4. CallIsSound(c)' /\ ~Owns(c)'
    BY <1>2, Zenon DEF CallIsSound, Owns, Req, Receipted
  <1>. QED  BY <1>1, <1>2, <1>3, <1>4, CallStepKeeps, Zenon DEF Typed

\* A call that meets another's record or has waited for it.
LEMMA WaitingKeeps ==
  ASSUME StdinInv, NEW c \in Callers,
         Conflict(c) \/ AwaitInFlight(c) \/ Woken(c) \/ WaitTimeout(c)
  PROVE  StdinInv'
  <1>1. Typed /\ CallIsSound(c) /\ (lock = c) = (call[c].at = "write")
    BY Start, Zenon
  <1>2. UNCHANGED <<exec, pipe, lock, book, applied>> /\ call[c].at \in {"book", "wait"}
    BY Zenon DEF Conflict, AwaitInFlight, Woken, WaitTimeout
  <1>3. \/ Return(c, "conflict") \/ Return(c, "unavailable") \/ Go(c, "book")
        \/ Go(c, "wait") /\ Holds(c, "in_flight")
    BY Zenon DEF Conflict, AwaitInFlight, Woken, WaitTimeout, Holds
  <1>4. /\ call' \in [Callers -> CallState] /\ Others(c)
        /\ call'[c].request = call[c].request
        /\ \/ call'[c].at = "idle" /\ call'[c].out \in {"conflict", "unavailable"}
           \/ call'[c].at = "book"
           \/ call'[c].at = "wait" /\ Holds(c, "in_flight")
    BY <1>1, <1>3, GoStep, ReturnStep, Zenon
  <1>5. CallIsSound(c)' /\ ~Owns(c)'
    BY <1>1, <1>2, <1>4, Zenon DEF CallIsSound, Owns, Req, Holds, Record, Receipted
  <1>. QED  BY <1>1, <1>2, <1>4, <1>5, CallStepKeeps, Zenon DEF Typed

\* An exact retry of a completed write repeats its receipt.
LEMMA ReplayKeeps ==
  ASSUME StdinInv, NEW c \in Callers, ReplayFound(c) \/ Replay(c)
  PROVE  StdinInv'
  <1>1. /\ Typed /\ CallIsSound(c) /\ (lock = c) = (call[c].at = "write") /\ BookIsSound
        /\ call[c] \in CallState
    BY Start, Zenon DEF StdinInv
  <1>2. UNCHANGED <<exec, pipe, lock, book, applied>> /\ call[c].at \in {"book", "replay"}
    BY Zenon DEF ReplayFound, Replay
  <1>3. Req(c) \in Requests /\ Req(c).id \in Ids
    BY <1>1, <1>2, Fields, Zenon DEF CallIsSound, Receipted
  <1>4. ASSUME ReplayFound(c)
        PROVE  StdinInv'
    <2>1. Holds(c, "complete") /\ Record(c).accepted \in BOOLEAN
      BY <1>1, <1>3, <1>4, Fields, Zenon DEF ReplayFound, Holds, Typed, Record
    <2>2. call' = [call EXCEPT ![c] = [call[c] EXCEPT !.at = "replay", !.accepted = Record(c).accepted]]
      BY <1>1, <1>4, Zenon DEF ReplayFound, Typed, CallState
    <2>3. /\ call' \in [Callers -> CallState] /\ Others(c) /\ call'[c].at = "replay"
          /\ call'[c].request = call[c].request /\ call'[c].accepted = Record(c).accepted
      BY <1>1, <2>1, <2>2, Zenon DEF Typed, Others, CallState
    <2>4. Record(c).accepted = (applied[Req(c)] = 1)
      BY <1>1, <1>3, <2>1, Zenon DEF BookIsSound, Holds, Record
    <2>5. CallIsSound(c)' /\ ~Owns(c)'
      BY <1>2, <1>3, <2>1, <2>3, <2>4, Zenon
      DEF CallIsSound, Owns, Req, Holds, Record, Truthful, Receipted
    <2>. QED  BY <1>1, <1>2, <2>3, <2>5, CallStepKeeps, Zenon DEF Typed
  <1>5. ASSUME Replay(c)
        PROVE  StdinInv'
    <2>1. /\ call' \in [Callers -> CallState] /\ Others(c) /\ call'[c].at = "idle"
          /\ call'[c].request = call[c].request /\ call'[c].accepted = call[c].accepted
      BY <1>1, <1>5, ReturnStep, Zenon DEF Replay
    <2>2. CallIsSound(c)' /\ ~Owns(c)'
      BY <1>1, <1>3, <1>5, <2>1, Zenon
      DEF Replay, CallIsSound, Owns, Req, Holds, Record, Truthful, Receipted
    <2>. QED  BY <1>1, <1>2, <2>1, <2>2, CallStepKeeps, Zenon DEF Typed
  <1>. QED  BY <1>4, <1>5, Zenon

\* What Sent does to its call.
LEMMA SentStep ==
  ASSUME Typed, NEW c \in Callers, NEW a \in BOOLEAN, Sent(c, a)
  PROVE  /\ call' \in [Callers -> CallState] /\ Others(c)
         /\ call'[c].at = "observe" /\ call'[c].request = call[c].request
         /\ call'[c].accepted = a
  <1>1. call[c] \in CallState
    BY Zenon DEF Typed
  <1>2. call' = [call EXCEPT ![c] = [call[c] EXCEPT !.at = "observe", !.accepted = a]]
    BY <1>1, Zenon DEF Sent, Typed, CallState
  <1>. QED  BY <1>1, <1>2, Zenon DEF Typed, Others, CallState

\* A call that polls or gives up has written nothing.
LEMMA NothingSentKeeps ==
  ASSUME StdinInv, NEW c \in Callers, Poll(c) \/ SendGivesUp(c)
  PROVE  StdinInv'
  <1>1. Typed /\ CallIsSound(c) /\ (lock = c) = (call[c].at = "write")
    BY Start, Zenon
  <1>2. /\ UNCHANGED <<exec, pipe, book, applied>> /\ call[c].at \in {"send", "write", "ready"}
        /\ Sent(c, FALSE) /\ lock' = (IF lock = c THEN None ELSE lock)
    BY <1>1, Zenon DEF Poll, SendGivesUp
  <1>3. /\ call' \in [Callers -> CallState] /\ Others(c)
        /\ call'[c].at = "observe" /\ call'[c].request = call[c].request
        /\ call'[c].accepted = FALSE
    BY <1>1, <1>2, SentStep, Zenon
  <1>4. /\ lock' \in Callers \cup {None} /\ \A d \in Callers : d # c => (lock' = d) = (lock = d)
        /\ lock' # c
    BY <1>1, <1>2, StdinAssumption, Zenon DEF Typed
  <1>5. exec # "released" => applied[Req(c)] = 0
    BY <1>1, <1>2, Zenon DEF CallIsSound, Untouched, Receipted
  <1>6. exec' # "released" => Truthful(c)'
    <2>1. exec' # "released" => applied'[call'[c].request] # 1
      BY <1>2, <1>3, <1>5 DEF Req
    <2>. QED  BY <1>3, <2>1, Zenon DEF Truthful, Req
  <1>7. CallIsSound(c)'
    BY <1>1, <1>2, <1>3, <1>6, Zenon DEF CallIsSound, Owns, Req, Holds, Record, Receipted
  <1>. QED  BY <1>1, <1>2, <1>3, <1>4, <1>7, CallStepKeeps, Zenon DEF Owns

\* A call that has not written yet locks the pipe, waits for it, or tries again.
LEMMA PipeKeeps ==
  ASSUME StdinInv, NEW c \in Callers, LockPipe(c) \/ Ready(c)
  PROVE  StdinInv'
  <1>1. Typed /\ CallIsSound(c) /\ (lock = c) = (call[c].at = "write")
    BY Start, Zenon
  <1>2. UNCHANGED <<exec, pipe, book, applied>> /\ call[c].at \in {"send", "ready"}
    BY Zenon DEF LockPipe, Ready
  <1>3. /\ call' \in [Callers -> CallState] /\ Others(c) /\ call'[c].request = call[c].request
        /\ call'[c].out = call[c].out
        /\ \/ call'[c].at \in {"send", "ready"} /\ lock' = lock
           \/ call'[c].at = "write" /\ lock = None /\ lock' = c /\ pipe = "open"
    BY <1>1, GoStep, Zenon DEF LockPipe, Ready
  <1>4. CallIsSound(c)'
    BY <1>1, <1>2, <1>3, Zenon DEF CallIsSound, Owns, Req, Holds, Record, Untouched, Receipted
  <1>5. /\ lock' \in Callers \cup {None} /\ \A d \in Callers : d # c => (lock' = d) = (lock = d)
        /\ (lock' = c) = (call'[c].at = "write")
    BY <1>1, <1>2, <1>3, StdinAssumption DEF Typed
  <1>. QED  BY <1>2, <1>3, <1>4, <1>5, CallStepKeeps, Zenon DEF Owns

\* The observation after the write.
LEMMA ObserveKeeps ==
  ASSUME StdinInv, NEW c \in Callers, Observe(c)
  PROVE  StdinInv'
  <1>1. Typed /\ CallIsSound(c) /\ (lock = c) = (call[c].at = "write")
    BY Start, Zenon
  <1>2. UNCHANGED <<exec, pipe, lock, book, applied>> /\ call[c].at = "observe"
    BY Zenon DEF Observe
  <1>3. /\ call' \in [Callers -> CallState] /\ Others(c) /\ call'[c].request = call[c].request
        /\ call'[c].accepted = call[c].accepted
        /\ \/ call'[c].at = "complete" /\ exec # "released"
           \/ call'[c].at = "idle" /\ call'[c].out = "unknown"
    BY <1>1, GoStep, ReturnStep, Zenon DEF Observe, Known
  <1>4. CallIsSound(c)'
    BY <1>1, <1>2, <1>3, Zenon DEF CallIsSound, Owns, Req, Holds, Record, Truthful, Receipted
  <1>. QED  BY <1>1, <1>2, <1>3, <1>4, CallStepKeeps, Zenon DEF Owns, Typed

-----------------------------------------------------------------------------
(* Steps that change the book, the pipe or the execution *)

\* A call is as sound as before while its record, the effects under its id and
\* what it knows of the pipe stay as they are.
LEMMA SoundKept ==
  ASSUME StdinInv, NEW d \in Callers,
         call'[d].at = call[d].at, call'[d].request = call[d].request,
         call'[d].accepted = call[d].accepted, call'[d].out = call[d].out,
         call'[d].woken = call[d].woken \/ call'[d].woken,
         exec = "released" => exec' = "released",
         call[d].at = "write" => pipe' = "open",
         Req(d) \in Requests /\ (Owns(d) \/ (call[d].at = "wait" /\ ~call'[d].woken)) =>
             book'[Req(d).id] = book[Req(d).id],
         Req(d) \in Requests /\ exec' # "released" /\ Receipted(d) =>
             book'[Req(d).id] = book[Req(d).id],
         Req(d) \in Requests /\ (Owns(d) \/ Receipted(d)) =>
             \A r \in Requests : r.id = Req(d).id => applied'[r] = applied[r]
  PROVE  CallIsSound(d)'
  <1>1. CallIsSound(d)
    BY Zenon DEF StdinInv
  <1>2. Req(d)' = Req(d) /\ Owns(d)' = Owns(d) /\ Receipted(d)' = Receipted(d)
    BY Zenon DEF Req, Owns, Receipted
  <1>3. Req(d) \in Requests =>
           /\ Owns(d) \/ (call[d].at = "wait" /\ ~call'[d].woken) =>
                  (Holds(d, "in_flight") => Holds(d, "in_flight")')
           /\ exec' # "released" /\ Receipted(d) =>
                  (Holds(d, "complete") => Holds(d, "complete")')
    BY <1>2, Zenon DEF Holds, Record
  <1>4. Req(d) \in Requests /\ (Owns(d) \/ Receipted(d)) =>
           /\ Untouched(Req(d).id) => Untouched(Req(d).id)'
           /\ Truthful(d) => Truthful(d)'
    BY <1>2, Zenon DEF Untouched, Truthful
  <1>5. Owns(d) \/ Receipted(d) \/ call[d].at = "wait" => Req(d) \in Requests
    BY <1>1, Zenon DEF CallIsSound, Owns, Receipted
  <1>. QED  BY <1>1, <1>2, <1>3, <1>4, <1>5, Zenon DEF CallIsSound, Owns

\* The in-flight record of a request is the call's own from then on.
LEMMA ReserveKeeps ==
  ASSUME StdinInv, NEW c \in Callers, Reserve(c)
  PROVE  StdinInv'
  <1>1. /\ Typed /\ CallIsSound(c) /\ (lock = c) = (call[c].at = "write")
        /\ TypeOK /\ BookIsSound /\ OneOwner
    BY Start, Zenon DEF StdinInv
  <1>2. UNCHANGED <<exec, pipe, lock, applied>> /\ call[c].at = "book" /\ Record(c) = None
    BY Zenon DEF Reserve
  <1>3. Req(c) \in Requests /\ Req(c).id \in Ids
    BY <1>1, <1>2, Fields, Zenon DEF CallIsSound
  <1>4. CASE Return(c, "exhausted") /\ UNCHANGED book
    <2>1. /\ call' \in [Callers -> CallState] /\ Others(c)
          /\ call'[c].at = "idle" /\ call'[c].request = call[c].request
          /\ call'[c].out = "exhausted"
      BY <1>1, <1>4, ReturnStep, Zenon
    <2>2. CallIsSound(c)' /\ ~Owns(c)'
      BY <2>1, Zenon DEF CallIsSound, Owns, Receipted
    <2>. QED  BY <1>1, <1>2, <1>4, <2>1, <2>2, CallStepKeeps, Zenon DEF Typed
  <1>5. ASSUME book' = [book EXCEPT ![Req(c).id] =
                           [state |-> "in_flight", request |-> Req(c), accepted |-> FALSE]],
               Go(c, "send")
        PROVE  StdinInv'
    <2>1. /\ call' \in [Callers -> CallState] /\ Others(c)
          /\ call'[c].at = "send" /\ call'[c].request = call[c].request
      BY <1>1, <1>5, GoStep, Zenon
    <2>2. /\ book' \in [Ids -> Entry \cup {None}]
          /\ book'[Req(c).id] \in Entry /\ book'[Req(c).id].state = "in_flight"
          /\ book'[Req(c).id].request = Req(c)
          /\ \A i \in Ids : i # Req(c).id => book'[i] = book[i]
      BY <1>1, <1>3, <1>5, Zenon DEF Typed, Entry
    <2>3. TypeOK'
      BY <1>1, <1>2, <1>3, <2>1, <2>2 DEF TypeOK, Others
    <2>4. BookIsSound' /\ WrittenOnce'
      <3>1. \A i \in Ids : book'[i] = None => book[i] = None /\ (Untouched(i) => Untouched(i)')
        BY <1>2, <2>2, Fields, Zenon DEF Untouched
      <3>2. \A i \in Ids : book'[i] # None /\ book'[i].state = "complete" => book'[i] = book[i]
        BY <2>2, Zenon
      <3>. QED  BY <1>1, <1>2, <3>1, <3>2, Zenon DEF BookIsSound, WrittenOnce, StdinInv
    <2>5. ASSUME NEW d \in Callers, d # c
          PROVE  CallIsSound(d)' /\ (Owns(d) => Req(d).id # Req(c).id)
      <3>1. CallIsSound(d) /\ call'[d] = call[d]
        BY <2>1, <2>5, Zenon DEF StdinInv, Others
      <3>2. /\ Owns(d) \/ (call[d].at = "wait" /\ ~call[d].woken) =>
                   Req(d) \in Requests /\ Holds(d, "in_flight")
            /\ Receipted(d) /\ exec # "released" => Req(d) \in Requests /\ Holds(d, "complete")
        BY <3>1, Zenon DEF CallIsSound, Owns, Receipted
      <3>3. Req(d) \in Requests /\ (Holds(d, "in_flight") \/ Holds(d, "complete")) =>
               Req(d).id # Req(c).id /\ book'[Req(d).id] = book[Req(d).id]
        BY <1>2, <2>2, Fields, Zenon DEF Holds, Record
      <3>4. CallIsSound(d)'
        BY <1>1, <1>2, <3>1, <3>2, <3>3, SoundKept, Zenon DEF CallIsSound
      <3>. QED  BY <3>2, <3>3, <3>4, Zenon
    <2>6. CallIsSound(c)'
      <3>1. Holds(c, "in_flight")'
        BY <1>3, <2>1, <2>2, Fields, Zenon DEF Holds, Record, Req
      <3>2. exec' # "released" => Untouched(Req(c).id)'
        BY <1>1, <1>2, <1>3, <2>1, Zenon DEF BookIsSound, Untouched, Record, Req
      <3>. QED  BY <1>3, <2>1, <3>1, <3>2, Zenon DEF CallIsSound, Receipted, Owns, Req
    <2>7. OneOwner'
      BY <1>1, <2>1, <2>5 DEF OneOwner, Others, Owns, Req
    <2>. QED  BY <2>3, <2>4, <2>5, <2>6, <2>7, Zenon DEF StdinInv
  <1>. QED  BY <1>4, <1>5, Zenon DEF Reserve

\* WakeReady changes nothing but who is woken.
LEMMA WakeStep ==
  ASSUME Typed
  PROVE  /\ WakeReady \in [Callers -> CallState]
         /\ \A d \in Callers :
               /\ WakeReady[d].at = call[d].at /\ WakeReady[d].request = call[d].request
               /\ WakeReady[d].accepted = call[d].accepted /\ WakeReady[d].out = call[d].out
               /\ WakeReady[d].woken = call[d].woken \/ WakeReady[d].woken
               /\ call[d].at # "ready" => WakeReady[d] = call[d]
  <1>1. ASSUME NEW d \in Callers
        PROVE  /\ call[d] \in CallState /\ [call[d] EXCEPT !.woken = TRUE] \in CallState
               /\ WakeReady[d] = IF call[d].at = "ready" THEN [call[d] EXCEPT !.woken = TRUE] ELSE call[d]
    BY Zenon DEF Typed, WakeReady, CallState
  <1>2. WakeReady \in [Callers -> CallState]
    BY <1>1, Zenon DEF WakeReady
  <1>3. ASSUME NEW d \in Callers
        PROVE  /\ WakeReady[d].at = call[d].at /\ WakeReady[d].request = call[d].request
               /\ WakeReady[d].accepted = call[d].accepted /\ WakeReady[d].out = call[d].out
               /\ WakeReady[d].woken = call[d].woken \/ WakeReady[d].woken
               /\ call[d].at # "ready" => WakeReady[d] = call[d]
    <2>1. CASE call[d].at = "ready"
      <3>1. WakeReady[d] = [call[d] EXCEPT !.woken = TRUE] /\ call[d] \in CallState
        BY <1>1, <2>1, Zenon
      <3>. QED  BY <2>1, <3>1, Zenon DEF CallState
    <2>2. CASE call[d].at # "ready"
      <3>1. WakeReady[d] = call[d]
        BY <1>1, <2>2, Zenon
      <3>. QED  BY <3>1, Zenon
    <2>. QED  BY <2>1, <2>2, Zenon
  <1>. QED  BY <1>2, <1>3, Zenon

\* The one write of a request.
LEMMA WritePipeKeeps ==
  ASSUME StdinInv, NEW c \in Callers, WritePipe(c)
  PROVE  StdinInv'
  <1>1. /\ Typed /\ CallIsSound(c) /\ lock = c /\ call[c].at = "write"
        /\ TypeOK /\ BookIsSound /\ OneOwner /\ WrittenOnce
    BY Start, Zenon DEF StdinInv, WritePipe
  <1>2. UNCHANGED <<exec, book>> /\ lock' = None /\ pipe = "open" /\ exec = "running"
    BY <1>1, Zenon DEF WritePipe, CallIsSound, BookIsSound
  <1>3. /\ Req(c) \in Requests /\ Req(c).id \in Ids /\ Owns(c) /\ Holds(c, "in_flight")
        /\ Untouched(Req(c).id)
    BY <1>1, <1>2, Fields, Zenon DEF CallIsSound, Owns
  <1>4. /\ applied' \in [Requests -> Nat] /\ applied'[Req(c)] = 1
        /\ \A r \in Requests : r # Req(c) => applied'[r] = applied[r]
    BY <1>1, <1>3 DEF WritePipe, Typed, Untouched
  <1>5. /\ call' \in [Callers -> CallState]
        /\ call'[c].at = "observe" /\ call'[c].request = call[c].request /\ call'[c].accepted = TRUE
        /\ \A d \in Callers : d # c =>
              /\ call'[d].at = call[d].at /\ call'[d].request = call[d].request
              /\ call'[d].accepted = call[d].accepted /\ call'[d].out = call[d].out
              /\ call'[d].woken = call[d].woken \/ call'[d].woken
              /\ call[d].at # "ready" => call'[d] = call[d]
    <2>. DEFINE base == IF Req(c).eof THEN WakeReady ELSE call
    <2>1. /\ base \in [Callers -> CallState]
          /\ \A d \in Callers :
                /\ base[d].at = call[d].at /\ base[d].request = call[d].request
                /\ base[d].accepted = call[d].accepted /\ base[d].out = call[d].out
                /\ base[d].woken = call[d].woken \/ base[d].woken
                /\ call[d].at # "ready" => base[d] = call[d]
      BY <1>1, WakeStep, Zenon DEF Typed
    <2>2. call' = [base EXCEPT ![c].at = "observe", ![c].accepted = TRUE]
      BY Zenon DEF WritePipe
    <2>. HIDE DEF base
    <2>3. base[c] \in CallState
      BY <2>1, Zenon
    <2>4. call' = [base EXCEPT ![c] = [base[c] EXCEPT !.at = "observe", !.accepted = TRUE]]
      BY <2>1, <2>2, <2>3, Zenon DEF CallState
    <2>5. /\ [base[c] EXCEPT !.at = "observe", !.accepted = TRUE] \in CallState
          /\ [base[c] EXCEPT !.at = "observe", !.accepted = TRUE].at = "observe"
          /\ [base[c] EXCEPT !.at = "observe", !.accepted = TRUE].request = base[c].request
          /\ [base[c] EXCEPT !.at = "observe", !.accepted = TRUE].accepted = TRUE
      BY <2>3, Zenon DEF CallState
    <2>. QED  BY <2>1, <2>4, <2>5, Zenon
  <1>6. TypeOK'
    <2>1. pipe' \in {"none", "open", "closed"}
      BY <1>2, Zenon DEF WritePipe
    <2>2. \A d \in Callers : (lock' = d) = (call'[d].at = "write")
      BY <1>1, <1>2, <1>5, StdinAssumption DEF TypeOK
    <2>. QED  BY <1>1, <1>2, <1>4, <1>5, <2>1, <2>2, Zenon DEF TypeOK
  <1>7. WrittenOnce'
    BY <1>1, <1>3, <1>4 DEF WrittenOnce, Untouched, Typed
  <1>8. BookIsSound'
    <2>1. \A i \in Ids : book[i] = None => i # Req(c).id
      BY <1>3, Zenon DEF Holds, Record
    <2>2. \A i \in Ids : book[i] = None => Untouched(i)'
      BY <1>1, <1>2, <1>4, <2>1, Zenon DEF BookIsSound, Untouched
    <2>3. \A i \in Ids : book[i] # None /\ book[i].state = "complete"
             => book[i].request \in Requests /\ book[i].request # Req(c)
      BY <1>1, <1>3, Fields DEF TypeOK, Holds, Record
    <2>. QED  BY <1>1, <1>2, <1>4, <2>2, <2>3, Zenon DEF BookIsSound
  <1>9. OneOwner'
    BY <1>1, <1>3, <1>5 DEF OneOwner, Owns, Req
  <1>10. ASSUME NEW d \in Callers, d # c
         PROVE  CallIsSound(d)'
    <2>1. CallIsSound(d) /\ call[d].at # "write"
      BY <1>1, <1>10, Zenon DEF StdinInv, TypeOK
    <2>2. Owns(d) => Req(d).id # Req(c).id
      BY <1>1, <1>3, <1>10, Zenon DEF OneOwner
    <2>3. Receipted(d) => Holds(d, "complete")
      BY <1>2, <2>1, Zenon DEF CallIsSound
    <2>4. Req(d) \in Requests /\ (Owns(d) \/ Receipted(d)) =>
             \A r \in Requests : r.id = Req(d).id => applied'[r] = applied[r]
      BY <1>3, <1>4, <2>2, <2>3, Zenon DEF Holds, Record
    <2>. QED  BY <1>2, <1>5, <1>10, <2>1, <2>4, SoundKept, Zenon
  <1>11. CallIsSound(c)'
    <2>1. Holds(c, "in_flight")' /\ Truthful(c)'
      BY <1>2, <1>3, <1>4, <1>5, ZenonT(60) DEF Holds, Record, Req, Truthful
    <2>. QED  BY <1>3, <1>5, <2>1, Zenon DEF CallIsSound, Receipted, Owns, Req
  <1>. QED  BY <1>6, <1>7, <1>8, <1>9, <1>10, <1>11, Zenon DEF StdinInv

\* The receipt replaces the in-flight record; every exact retry that waits for
\* it is woken.
LEMMA CompleteKeeps ==
  ASSUME StdinInv, NEW c \in Callers, Complete(c)
  PROVE  StdinInv'
  <1>1. /\ Typed /\ CallIsSound(c) /\ call[c].at = "complete" /\ call[c] \in CallState
        /\ TypeOK /\ BookIsSound /\ OneOwner /\ WrittenOnce
    BY Start, Zenon DEF StdinInv, Complete
  <1>2. UNCHANGED <<exec, pipe, lock, applied>>
    BY Zenon DEF Complete
  <1>3. Req(c) \in Requests /\ Req(c).id \in Ids /\ Owns(c) /\ Holds(c, "in_flight") /\ Truthful(c)
    BY <1>1, Fields, Zenon DEF CallIsSound, Owns
  <1>4. /\ book' \in [Ids -> Entry \cup {None}] /\ book'[Req(c).id] \in Entry
        /\ book'[Req(c).id].state = "complete" /\ book'[Req(c).id].request = Req(c)
        /\ book'[Req(c).id].accepted = call[c].accepted
        /\ \A i \in Ids : i # Req(c).id => book'[i] = book[i]
    <2>1. call[c].accepted \in BOOLEAN
      BY <1>1, Zenon DEF CallState
    <2>. QED  BY <1>1, <1>3, <2>1, Zenon DEF Complete, Typed, Entry
  <1>5. /\ call' \in [Callers -> CallState]
        /\ call'[c].at = "idle" /\ call'[c].request = call[c].request
        /\ call'[c].accepted = call[c].accepted /\ call'[c].out = "receipt"
        /\ \A d \in Callers : d # c =>
              /\ call'[d].at = call[d].at /\ call'[d].request = call[d].request
              /\ call'[d].accepted = call[d].accepted /\ call'[d].out = call[d].out
              /\ call'[d].woken = call[d].woken \/ call'[d].woken
              /\ call[d].at = "wait" /\ Req(d).id = Req(c).id => call'[d].woken
    <2>1. ASSUME NEW d \in Callers
          PROVE  /\ call[d] \in CallState /\ [call[d] EXCEPT !.woken = TRUE] \in CallState
                 /\ [call[d] EXCEPT !.at = "idle", !.out = "receipt"] \in CallState
                 /\ call'[d] = IF d = c THEN [call[d] EXCEPT !.at = "idle", !.out = "receipt"]
                               ELSE IF call[d].at = "wait" /\ Req(d).id = Req(c).id
                                    THEN [call[d] EXCEPT !.woken = TRUE] ELSE call[d]
      <3>1. call[d] \in CallState
        BY <1>1, Zenon DEF Typed
      <3>2. /\ [call[d] EXCEPT !.woken = TRUE] \in CallState
            /\ [call[d] EXCEPT !.at = "idle", !.out = "receipt"] \in CallState
        BY <3>1, ZenonT(60) DEF CallState
      <3>. QED  BY <3>1, <3>2, Zenon DEF Complete
    <2>2. call' \in [Callers -> CallState]
      BY <2>1, Zenon DEF Complete
    <2>3. /\ call'[c].at = "idle" /\ call'[c].request = call[c].request
          /\ call'[c].accepted = call[c].accepted /\ call'[c].out = "receipt"
      <3>1. call'[c] = [call[c] EXCEPT !.at = "idle", !.out = "receipt"] /\ call[c] \in CallState
        BY <2>1, Zenon
      <3>. QED  BY <3>1, Zenon DEF CallState
    <2>4. ASSUME NEW d \in Callers, d # c, call[d].at = "wait" /\ Req(d).id = Req(c).id
          PROVE  /\ call'[d].at = call[d].at /\ call'[d].request = call[d].request
                 /\ call'[d].accepted = call[d].accepted /\ call'[d].out = call[d].out
                 /\ call'[d].woken
      <3>1. call'[d] = [call[d] EXCEPT !.woken = TRUE] /\ call[d] \in CallState
        BY <2>1, <2>4, ZenonT(60)
      <3>. QED  BY <3>1, Zenon DEF CallState
    <2>5. ASSUME NEW d \in Callers, d # c, ~(call[d].at = "wait" /\ Req(d).id = Req(c).id)
          PROVE  call'[d] = call[d]
      BY <2>1, <2>5, Zenon
    <2>. QED  BY <2>2, <2>3, <2>4, <2>5, Zenon
  <1>6. TypeOK'
    BY <1>1, <1>2, <1>4, <1>5 DEF TypeOK
  <1>7. BookIsSound' /\ WrittenOnce'
    <2>1. \A i \in Ids : book'[i] = None => book[i] = None /\ (Untouched(i) => Untouched(i)')
      BY <1>2, <1>4, Fields, Zenon DEF Untouched
    <2>2. \A i \in Ids : book'[i] # None /\ book'[i].state = "complete" =>
             book'[i] = book[i] \/ book'[i].accepted = (applied[book'[i].request] = 1)
      BY <1>3, <1>4, Zenon DEF Truthful
    <2>. QED  BY <1>1, <1>2, <2>1, <2>2 DEF BookIsSound, WrittenOnce
  <1>8. OneOwner'
    BY <1>1, <1>5 DEF OneOwner, Owns, Req
  <1>9. ASSUME NEW d \in Callers, d # c
        PROVE  CallIsSound(d)'
    <2>1. CallIsSound(d)
      BY Zenon DEF StdinInv
    <2>2. Owns(d) => Req(d).id # Req(c).id
      BY <1>1, <1>3, <1>9, Zenon DEF OneOwner
    <2>3. Receipted(d) /\ exec # "released" => Req(d).id # Req(c).id
      BY <1>3, <2>1, Zenon DEF CallIsSound, Holds, Record
    <2>4. Req(d) \in Requests /\ Req(d).id # Req(c).id => book'[Req(d).id] = book[Req(d).id]
      BY <1>4, Fields, Zenon
    <2>5. call[d].at = "wait" /\ ~call'[d].woken => Req(d).id # Req(c).id
      BY <1>5, <1>9, Zenon
    <2>6. call[d].at = "write" => pipe' = "open"
      BY <1>2, <2>1, Zenon DEF CallIsSound
    <2>. QED  BY <1>2, <1>5, <1>9, <2>2, <2>3, <2>4, <2>5, <2>6, SoundKept, Zenon
  <1>10. CallIsSound(c)'
    <2>1. Holds(c, "complete")' /\ Truthful(c)'
      BY <1>2, <1>3, <1>4, <1>5, Fields, Zenon DEF Holds, Record, Req, Truthful
    <2>. QED  BY <1>3, <1>5, <2>1, Zenon DEF CallIsSound, Receipted, Owns, Req
  <1>. QED  BY <1>6, <1>7, <1>8, <1>9, <1>10, Zenon DEF StdinInv

\* The child starts, closes its pipe or ends: no call holds the pipe then.
LEMMA ExecutionKeeps ==
  ASSUME StdinInv, Spawn \/ Close \/ Terminate \/ ReleaseMetadata
  PROVE  StdinInv'
  <1>1. Typed /\ TypeOK /\ BookIsSound /\ OneOwner /\ WrittenOnce
    BY Zenon DEF StdinInv, TypeOK, Typed
  <1>2. /\ UNCHANGED <<lock, book, applied>> /\ exec # "released" /\ exec' # "released"
        /\ exec' \in {"queued", "running", "closed", "terminal", "removed", "released"}
        /\ \/ lock = None /\ pipe' \in {"open", "closed"} /\ call' = WakeReady
              /\ (pipe' = "open" => exec' = "running")
           \/ pipe' = pipe /\ call' = call /\ exec # "running"
    BY Zenon DEF Spawn, Close, Terminate, ReleaseMetadata
  <1>3. /\ call' \in [Callers -> CallState]
        /\ \A d \in Callers :
              /\ call'[d].at = call[d].at /\ call'[d].request = call[d].request
              /\ call'[d].accepted = call[d].accepted /\ call'[d].out = call[d].out
              /\ call'[d].woken = call[d].woken \/ call'[d].woken
    BY <1>1, <1>2, WakeStep, Zenon DEF Typed
  <1>4. \A d \in Callers : call[d].at = "write" => pipe' = "open"
    BY <1>1, <1>2, StdinAssumption DEF TypeOK, StdinInv, CallIsSound
  <1>5. TypeOK'
    BY <1>1, <1>2, <1>3 DEF TypeOK
  <1>6. BookIsSound' /\ WrittenOnce'
    BY <1>1, <1>2, Zenon DEF BookIsSound, WrittenOnce, Untouched
  <1>7. OneOwner'
    BY <1>1, <1>3 DEF OneOwner, Owns, Req
  <1>8. ASSUME NEW d \in Callers PROVE CallIsSound(d)'
    BY <1>2, <1>3, <1>4, SoundKept, Zenon
  <1>. QED  BY <1>5, <1>6, <1>7, <1>8, Zenon DEF StdinInv

\* The receipts are forgotten, and with them what was written under their ids:
\* the pipe has been closed before.
LEMMA ReleaseKeeps ==
  ASSUME StdinInv, ReleaseReceipts
  PROVE  StdinInv'
  <1>1. Typed /\ TypeOK /\ BookIsSound /\ OneOwner /\ WrittenOnce
    BY Zenon DEF StdinInv, TypeOK, Typed
  <1>2. /\ UNCHANGED <<pipe, lock, call, applied>> /\ exec = "removed" /\ exec' = "released"
        /\ book' \in [Ids -> Entry \cup {None}]
        /\ \A i \in Ids : /\ book'[i] = book[i] \/ book'[i] = None
                          /\ book[i] # None /\ book[i].state = "in_flight" => book'[i] = book[i]
    BY <1>1, Zenon DEF ReleaseReceipts, Typed
  <1>3. TypeOK'
    BY <1>1, <1>2, Zenon DEF TypeOK
  <1>4. BookIsSound' /\ WrittenOnce'
    BY <1>1, <1>2, ZenonT(60) DEF BookIsSound, WrittenOnce
  <1>5. OneOwner'
    BY <1>1, <1>2, Zenon DEF OneOwner, Owns, Req
  <1>6. ASSUME NEW d \in Callers PROVE CallIsSound(d)'
    <2>1. CallIsSound(d)
      BY Zenon DEF StdinInv
    <2>2. Req(d) \in Requests /\ Holds(d, "in_flight") => book'[Req(d).id] = book[Req(d).id]
      BY <1>2, Fields, Zenon DEF Holds, Record
    <2>3. Owns(d) \/ (call[d].at = "wait" /\ ~call[d].woken) => Holds(d, "in_flight")
      BY <2>1, Zenon DEF CallIsSound
    <2>4. call[d].at = "write" => pipe' = "open"
      BY <1>2, <2>1, Zenon DEF CallIsSound
    <2>. QED  BY <1>2, <2>2, <2>3, <2>4, SoundKept, Zenon
  <1>. QED  BY <1>3, <1>4, <1>5, <1>6, Zenon DEF StdinInv

-----------------------------------------------------------------------------
(* The theorems *)

\* Every step of the calls and of the execution keeps the invariant.
LEMMA StdinStep == StdinInv /\ [Next]_vars => StdinInv'
  <1>. SUFFICES ASSUME StdinInv, [Next]_vars PROVE StdinInv'
    OBVIOUS
  <1>1. ASSUME NEW c \in Callers, CallStep(c) PROVE StdinInv'
    BY <1>1, ReserveKeeps, WaitingKeeps, ReplayKeeps, NothingSentKeeps, PipeKeeps, WritePipeKeeps,
       ObserveKeeps, CompleteKeeps, Zenon
    DEF CallStep
  <1>2. ASSUME NEW c \in Callers, NEW r \in Requests, LookUp(c, r) PROVE StdinInv'
    BY <1>2, LookUpKeeps, Zenon
  <1>3. CASE Spawn \/ Close \/ Terminate \/ ReleaseMetadata \/ ReleaseReceipts
    BY <1>3, ExecutionKeeps, ReleaseKeeps, Zenon
  <1>4. CASE UNCHANGED vars
    BY <1>4 DEF vars, StdinInv, TypeOK, WrittenOnce, OneOwner, BookIsSound, CallIsSound, Owns,
       Untouched, Truthful, Receipted, Holds, Record, Req
  <1>. QED  BY <1>1, <1>2, <1>3, <1>4, Zenon DEF Next

\* The invariant holds throughout.
LEMMA StdinHolds == Spec => []StdinInv
  <1>1. Init => StdinInv
    <2>. SUFFICES ASSUME Init PROVE StdinInv
      OBVIOUS
    <2>1. TypeOK
      BY Fields, StdinAssumption, Zenon DEF Init, TypeOK
    <2>2. WrittenOnce
      BY DEF Init, WrittenOnce
    <2>3. OneOwner /\ BookIsSound
      BY Fields, Zenon DEF Init, OneOwner, BookIsSound, Owns, Untouched
    <2>4. \A c \in Callers : CallIsSound(c)
      BY Fields, Zenon DEF Init, CallIsSound, Owns, Receipted
    <2>. QED  BY <2>1, <2>2, <2>3, <2>4, Zenon DEF StdinInv
  <1>. QED  BY <1>1, StdinStep, PTL DEF Spec

\* "an exact retry never writes or closes the pipe twice after a lost response"
\* (stdin.rs): for any number of connections and retries, one effect at most per
\* operation id, and receipts that say whether it happened.
THEOREM StdinCorrect == Spec => []StdinIsExact
  <1>1. StdinInv => StdinIsExact
    <2>. SUFFICES ASSUME StdinInv PROVE ReceiptIsTruth
      BY Zenon DEF StdinInv, StdinIsExact
    <2>. QED  BY Zenon DEF StdinInv, CallIsSound, Receipted, Truthful, ReceiptIsTruth
  <1>. QED  BY <1>1, StdinHolds, PTL

\* "a completion between unlock and await cannot be missed" (stdin.rs): a retry
\* that sleeps waits for a write that is still in flight.
THEOREM CompletionNotLost == Spec => []NoLostCompletion
  <1>1. StdinInv => NoLostCompletion
    BY Zenon DEF StdinInv, CallIsSound, Holds, NoLostCompletion
  <1>. QED  BY <1>1, StdinHolds, PTL

-----------------------------------------------------------------------------
(* GuestProcess: the execution, its process group, pipes and deadline *)

CONSTANTS
    Procs, Leader, Kinds, Fences, OutputLimit, ResultHeadroom, InlineOverhead, Frames, MaxWrite,
    Deadline, PollTicks, Pause, MaxPauses, Horizon

VARIABLES
    kind, fenced, frame, frameOk, sup, reason, st, inGroup, holds, status, written, taken,
    reader, cancel, wall, timer, late, pauses, outcome, output

P == INSTANCE GuestProcess

\* What the variables hold, beyond TypeOK.
ProcTyped ==
    /\ kind \in {"shell", "bundle"} /\ fenced \in BOOLEAN /\ frame \in Nat
    /\ sup \in {"start", "running", "term", "killed", "sweep", "settle", "done"}
    /\ reason \in {None, "cancelled", "deadline"} /\ (sup \in {"term", "killed"} => reason # None)
    /\ written \in [P!AllStreams -> Nat] /\ taken \in [P!AllStreams -> Nat]
    /\ reader \in [P!AllStreams -> {"reading", "done", "error", "aborted", "unsettled"}]
    /\ outcome \in {None, "completed", "failed", "cancelled", "deadline"}
    /\ (outcome # None <=> sup = "done")

\* The processes: only those that exist hold a pipe, and the exit status is the leader's.
Processes ==
    /\ st \in [Procs -> {"unborn", "live", "doomed", "dead"}] /\ inGroup \in [Procs -> BOOLEAN]
    /\ holds \in [Procs -> SUBSET P!AllStreams]
    /\ \A p \in Procs : holds[p] \subseteq P!Streams
       /\ (st[p] \in {"unborn", "dead"} => holds[p] = {})
    /\ status \in {None, "ok", "bad"} /\ (status = None <=> st[Leader] # "dead")
    /\ sup = "start" => \A p \in Procs : st[p] = "unborn"

\* Behind the fence every running process is in the group, and none runs after the group was
\* killed.
Fenced ==
    fenced => \A p \in Procs :
        /\ st[p] = "live" => inGroup[p]
        /\ sup \in {"start", "killed", "settle", "done"} => st[p] # "live"

\* A reader that is done has read all there is, or more than may be returned, and what is
\* returned is what was read.
Pipes ==
    /\ \A s \in P!AllStreams :
        /\ taken[s] <= written[s] /\ taken[s] <= P!TakeLimit
        /\ reader[s] = "done" => taken[s] = P!TakeLimit \/ (kind = "shell" /\ taken[s] = written[s])
    /\ output # None => /\ sup = "done" /\ output = taken /\ P!AllDone
                        /\ kind = "shell" => P!Total <= OutputLimit

\* The poll that is due bounds the time past the deadline.
Clocks ==
    /\ wall \in 0..Horizon /\ timer \in 0..PollTicks /\ late \in 0..PollTicks
    /\ sup = "start" => late = 0
    /\ sup = "running" => IF wall < Deadline THEN late = 0 ELSE late + timer <= PollTicks

ProcessInv == ProcTyped /\ Processes /\ Fenced /\ Pipes /\ Clocks

\* What is executed never changes, and with it the streams and the limit of a reader.
LEMMA Sealed ==
  ASSUME [P!Next]_(P!vars)
  PROVE  UNCHANGED <<kind, fenced, frame, frameOk, P!Streams, P!TakeLimit>>
  <1>1. UNCHANGED <<kind, fenced, frame, frameOk>>
    BY Zenon
    DEF P!Next, P!vars, P!Supervise, P!Readers, P!Spawn, P!SpawnRefused, P!LeaderExited,
        P!CancelObserved, P!DeadlineObserved, P!TearDown, P!PollAgain, P!KillGroup, P!TornDown,
        P!Sweep, P!Finish, P!Cancel, P!Tick, P!Suspend, P!Read, P!ReadEnd, P!ReadError,
        P!SettleTimeout, P!Leave, P!Exit, P!DieKilled, P!Fork, P!WriteUnit, P!CloseEnd
  <1>. QED  BY <1>1, Zenon DEF P!Streams, P!TakeLimit

\* The parts of the state, and the steps that leave each alone.
control == <<sup, reason, outcome, output>>
pipes == <<written, taken, reader>>
clock == <<wall, timer, late>>

\* A step of a process changes the processes only.
ProcessStep ==
    \E p \in Procs : P!Leave(p) \/ P!Exit(p) \/ P!DieKilled(p) \/ (\E q \in Procs : P!Fork(p, q))
                        \/ \E s \in P!AllStreams : P!CloseEnd(p, s)

\* A unit written or read, and a reader that stops, change the pipes only.
PipeStep ==
    \E s \in P!AllStreams : \/ P!Read(s) \/ P!ReadEnd(s) \/ P!ReadError(s) \/ P!SettleTimeout(s)
                            \/ \E p \in Procs : P!WriteUnit(p, s)

\* Every step is one of a process, of a pipe, of time or of the supervisor.
LEMMA Steps ==
  ASSUME [P!Next]_(P!vars)
  PROVE  \/ ProcessStep /\ UNCHANGED <<control, pipes, clock>>
         \/ PipeStep /\ UNCHANGED <<control, P!procVars, clock>>
         \/ (P!Tick \/ P!Suspend) /\ UNCHANGED <<control, P!procVars, pipes>>
         \/ P!Supervise
         \/ UNCHANGED <<control, P!procVars, pipes, clock>>
  <1>1. ProcessStep => UNCHANGED <<control, pipes, clock>>
    BY Zenon
    DEF ProcessStep, P!Leave, P!Exit, P!DieKilled, P!Fork, P!CloseEnd, control, pipes, clock,
        P!clockVars
  <1>2. PipeStep => UNCHANGED <<control, P!procVars, clock>>
    BY Zenon
    DEF PipeStep, P!Read, P!ReadEnd, P!ReadError, P!SettleTimeout, P!WriteUnit, control, clock,
        P!clockVars
  <1>3. P!Tick \/ P!Suspend => UNCHANGED <<control, P!procVars, pipes>>
    BY Zenon DEF P!Tick, P!Suspend, control, pipes
  <1>4. P!Cancel \/ UNCHANGED P!vars => UNCHANGED <<control, P!procVars, pipes, clock>>
    BY Zenon DEF P!Cancel, P!vars, control, P!procVars, pipes, clock, P!clockVars
  <1>. QED  BY <1>1, <1>2, <1>3, <1>4, Zenon DEF P!Next, P!Readers, ProcessStep, PipeStep

\* Types, and the reason of a teardown.
LEMMA TypedKeeps ==
  ASSUME P!Parameters, ProcessInv, [P!Next]_(P!vars)
  PROVE  ProcTyped'
  <1>1. ProcTyped /\ UNCHANGED <<kind, fenced, frame>>
    BY Sealed, Zenon DEF ProcessInv
  <1>2. ASSUME UNCHANGED <<control, pipes>> PROVE ProcTyped'
    BY <1>1, <1>2, Zenon DEF ProcTyped, control, pipes
  <1>3. ASSUME PipeStep, UNCHANGED control PROVE ProcTyped'
    <2>1. /\ written' \in [P!AllStreams -> Nat] /\ taken' \in [P!AllStreams -> Nat]
          /\ reader' \in [P!AllStreams -> {"reading", "done", "error", "aborted", "unsettled"}]
      <3>1. ASSUME NEW s \in P!AllStreams, P!Read(s)
            PROVE  taken' \in [P!AllStreams -> Nat] /\ UNCHANGED <<written, reader>>
        BY <1>1, <3>1 DEF P!Read, ProcTyped
      <3>2. ASSUME NEW s \in P!AllStreams, NEW p \in Procs, P!WriteUnit(p, s)
            PROVE  written' \in [P!AllStreams -> Nat] /\ UNCHANGED <<taken, reader>>
        BY <1>1, <3>2 DEF P!WriteUnit, ProcTyped
      <3>3. ASSUME NEW s \in P!AllStreams, P!ReadEnd(s) \/ P!ReadError(s) \/ P!SettleTimeout(s)
            PROVE  /\ reader' \in [P!AllStreams ->
                                    {"reading", "done", "error", "aborted", "unsettled"}]
                   /\ UNCHANGED <<written, taken>>
        BY <1>1, <3>3, Zenon DEF P!ReadEnd, P!ReadError, P!SettleTimeout, ProcTyped
      <3>. QED  BY <1>1, <1>3, <3>1, <3>2, <3>3, Zenon DEF PipeStep, ProcTyped
    <2>. QED  BY <1>1, <1>3, <2>1, Zenon DEF ProcTyped, control
  <1>4. ASSUME P!Supervise PROVE ProcTyped'
    <2>1. CASE P!Spawn \/ P!LeaderExited \/ P!KillGroup \/ P!Sweep \/ P!PollAgain
      BY <1>1, <2>1, Zenon DEF P!Spawn, P!LeaderExited, P!KillGroup, P!Sweep, P!PollAgain, ProcTyped
    <2>2. CASE P!CancelObserved \/ P!DeadlineObserved
      BY <1>1, <2>2, Zenon
      DEF P!CancelObserved, P!DeadlineObserved, P!TearDown, ProcTyped, P!Parameters
    <2>3. CASE P!SpawnRefused
      BY <1>1, <2>3, Zenon DEF P!SpawnRefused, P!End, ProcTyped, P!Parameters
    <2>4. CASE P!TornDown
      BY <1>1, <2>4, Zenon DEF P!TornDown, P!End, ProcTyped
    <2>5. CASE P!Finish
      <3>1. /\ sup' = "done" /\ outcome' \in {"completed", "failed"}
            /\ UNCHANGED <<reason, written, taken, reader>>
        BY <2>5, Zenon DEF P!Finish, P!End, P!ShellResult, P!BundleResult
      <3>. QED  BY <1>1, <3>1, Zenon DEF ProcTyped, P!Parameters
    <2>. QED  BY <1>4, <2>1, <2>2, <2>3, <2>4, <2>5, Zenon DEF P!Supervise
  <1>. QED  BY <1>2, <1>3, <1>4, Steps, Zenon

\* Processes are born, change hands of their pipes and die; only the leader sets the status.
LEMMA ProcessesKeep ==
  ASSUME P!Parameters, ProcessInv, [P!Next]_(P!vars)
  PROVE  Processes'
  <1>1. Processes /\ P!Streams' = P!Streams /\ Leader \in Procs /\ P!Streams \subseteq P!AllStreams
    BY Sealed, Zenon DEF ProcessInv, P!Parameters, P!Streams, P!AllStreams
  <1>2. ASSUME UNCHANGED <<P!procVars, sup>> PROVE Processes'
    BY <1>1, <1>2, Zenon DEF Processes, P!procVars
  <1>3. ASSUME NEW p \in Procs, NEW q \in Procs, P!Fork(p, q), UNCHANGED sup PROVE Processes'
    <2>1. st' = [st EXCEPT ![q] = "live"] /\ st[p] = "live" /\ st[q] = "unborn" /\ sup # "start"
      BY <1>1, <1>3, Zenon DEF P!Fork, P!Runs, Processes
    <2>2. /\ st' \in [Procs -> {"unborn", "live", "doomed", "dead"}]
          /\ st'[q] = "live" /\ \A r \in Procs \ {q} : st'[r] = st[r]
      BY <1>1, <2>1, Zenon DEF Processes
    <2>3. inGroup' \in [Procs -> BOOLEAN]
      BY <1>1, <1>3, Zenon DEF P!Fork, Processes
    <2>4. /\ holds' \in [Procs -> SUBSET P!AllStreams] /\ holds'[q] = holds[p]
          /\ \A r \in Procs \ {q} : holds'[r] = holds[r]
      BY <1>1, <1>3, Zenon DEF P!Fork, Processes
    <2>5. status' = status /\ (st'[Leader] = "dead" <=> st[Leader] = "dead")
      BY <1>1, <1>3, <2>1, <2>2, Zenon DEF P!Fork
    <2>6. \A r \in Procs : holds'[r] \subseteq P!Streams
          /\ (st'[r] \in {"unborn", "dead"} => holds'[r] = {})
      BY <1>1, <2>2, <2>4, Zenon DEF Processes
    <2>. QED  BY <1>1, <1>3, <2>1, <2>2, <2>3, <2>4, <2>5, <2>6, Zenon DEF Processes
  <1>4. ASSUME NEW p \in Procs, P!Leave(p), UNCHANGED sup PROVE Processes'
    <2>1. inGroup' \in [Procs -> BOOLEAN] /\ UNCHANGED <<st, holds, status>>
      BY <1>1, <1>4, Zenon DEF P!Leave, Processes
    <2>. QED  BY <1>1, <1>4, <2>1, Zenon DEF Processes
  <1>5. ASSUME NEW p \in Procs, P!Exit(p) \/ P!DieKilled(p), UNCHANGED sup PROVE Processes'
    <2>1. /\ st[p] # "unborn" /\ st[p] # "dead" /\ sup # "start" /\ inGroup' = inGroup
          /\ IF p = Leader THEN status' \in {"ok", "bad"} ELSE status' = status
      BY <1>1, <1>5, Zenon DEF P!Exit, P!DieKilled, P!Runs, Processes
    <2>2. /\ st' \in [Procs -> {"unborn", "live", "doomed", "dead"}]
          /\ st'[p] = "dead" /\ \A r \in Procs \ {p} : st'[r] = st[r]
      BY <1>1, <1>5, Zenon DEF P!Exit, P!DieKilled, P!Last, Processes
    <2>3. /\ holds' \in [Procs -> SUBSET P!AllStreams] /\ holds'[p] = {}
          /\ \A r \in Procs \ {p} : holds'[r] = holds[r]
      BY <1>1, <1>5, Zenon DEF P!Exit, P!DieKilled, P!Last, Processes
    <2>4. status' \in {None, "ok", "bad"} /\ (status' = None <=> st'[Leader] # "dead")
      BY <1>1, <2>1, <2>2, Zenon DEF Processes, P!Parameters
    <2>5. \A r \in Procs : holds'[r] \subseteq P!Streams
          /\ (st'[r] \in {"unborn", "dead"} => holds'[r] = {})
      BY <1>1, <2>2, <2>3, Zenon DEF Processes
    <2>. QED  BY <1>1, <1>5, <2>1, <2>2, <2>3, <2>4, <2>5, Zenon DEF Processes
  <1>6. ASSUME NEW p \in Procs, NEW s \in P!AllStreams, P!CloseEnd(p, s), UNCHANGED sup
        PROVE  Processes'
    <2>1. /\ holds' \in [Procs -> SUBSET P!AllStreams]
          /\ \A r \in Procs : holds'[r] \subseteq holds[r]
          /\ UNCHANGED <<st, inGroup, status>>
      BY <1>1, <1>6, Zenon DEF P!CloseEnd, Processes
    <2>2. \A r \in Procs : holds'[r] \subseteq P!Streams
          /\ (st'[r] \in {"unborn", "dead"} => holds'[r] = {})
      BY <1>1, <2>1, Zenon DEF Processes
    <2>. QED  BY <1>1, <1>6, <2>1, <2>2, Zenon DEF Processes
  <1>7. CASE ProcessStep /\ UNCHANGED <<control, pipes, clock>>
    BY <1>3, <1>4, <1>5, <1>6, <1>7, Zenon DEF ProcessStep, control
  <1>8. CASE P!Spawn
    <2>1. /\ st' \in [Procs -> {"unborn", "live", "doomed", "dead"}] /\ st'[Leader] = "live"
          /\ \A r \in Procs \ {Leader} : st'[r] = st[r]
          /\ st[Leader] = "unborn" /\ status' = status /\ sup' = "running"
      BY <1>1, <1>8, Zenon DEF P!Spawn, Processes
    <2>2. inGroup' \in [Procs -> BOOLEAN]
      BY <1>1, <1>8, Zenon DEF P!Spawn, Processes
    <2>3. /\ holds' \in [Procs -> SUBSET P!AllStreams] /\ holds'[Leader] = P!Streams
          /\ \A r \in Procs \ {Leader} : holds'[r] = holds[r]
      BY <1>1, <1>8, Zenon DEF P!Spawn, Processes
    <2>4. \A r \in Procs : holds'[r] \subseteq P!Streams
          /\ (st'[r] \in {"unborn", "dead"} => holds'[r] = {})
      BY <1>1, <2>1, <2>3, Zenon DEF Processes
    <2>. QED  BY <1>1, <2>1, <2>2, <2>3, <2>4, Zenon DEF Processes
  <1>9. CASE P!KillGroup \/ P!Sweep
    <2>1. /\ st' \in [Procs -> {"unborn", "live", "doomed", "dead"}]
          /\ \A r \in Procs : /\ st'[r] = "unborn" <=> st[r] = "unborn"
                              /\ st'[r] = "dead" <=> st[r] = "dead"
      <3>1. st' = [p \in Procs |-> IF st[p] = "live" /\ inGroup[p] THEN "doomed" ELSE st[p]]
        BY <1>9, Zenon DEF P!KillGroup, P!Sweep, P!Doomed
      <3>2. \A r \in Procs : st'[r] = st[r] \/ (st[r] = "live" /\ st'[r] = "doomed")
        BY <3>1, Zenon
      <3>3. st' \in [Procs -> {"unborn", "live", "doomed", "dead"}]
        BY <1>1, <3>1, Zenon DEF Processes
      <3>. QED  BY <3>2, <3>3, Zenon
    <2>2. UNCHANGED <<inGroup, holds, status>> /\ sup' # "start"
      BY <1>9, Zenon DEF P!KillGroup, P!Sweep
    <2>. QED  BY <1>1, <2>1, <2>2, Zenon DEF Processes
  <1>10. CASE P!SpawnRefused \/ P!LeaderExited \/ P!CancelObserved \/ P!DeadlineObserved
              \/ P!PollAgain \/ P!TornDown \/ P!Finish
    <2>1. UNCHANGED P!procVars /\ (sup' # "start" \/ sup' = sup)
      BY <1>10, Zenon
      DEF P!SpawnRefused, P!LeaderExited, P!CancelObserved, P!DeadlineObserved, P!TearDown,
          P!PollAgain, P!TornDown, P!Finish, P!End
    <2>. QED  BY <1>1, <2>1, Zenon DEF Processes, P!procVars
  <1>. QED  BY <1>2, <1>7, <1>8, <1>9, <1>10, Steps, Zenon DEF P!Supervise, control

\* A process behind the fence inherits its group and cannot leave it, and a kill spares none.
LEMMA FencedKeeps ==
  ASSUME ProcessInv, [P!Next]_(P!vars)
  PROVE  Fenced'
  <1>1. Processes /\ Fenced /\ fenced' = fenced
    BY Sealed, Zenon DEF ProcessInv
  <1>2. ASSUME fenced,
               \A p \in Procs : st'[p] = "live" => st[p] = "live" /\ (inGroup[p] => inGroup'[p]),
               sup' \in {"start", "killed", "settle", "done"} =>
                   sup \in {"start", "killed", "settle", "done"}
        PROVE  Fenced'
    BY <1>1, <1>2, Zenon DEF Fenced
  <1>3. ASSUME fenced, UNCHANGED P!procVars, sup' = sup PROVE Fenced'
    BY <1>2, <1>3, Zenon DEF P!procVars
  <1>4. ASSUME fenced, NEW p \in Procs, NEW q \in Procs, P!Fork(p, q), UNCHANGED sup PROVE Fenced'
    <2>1. /\ st[p] = "live" /\ inGroup[p] /\ sup \notin {"start", "killed", "settle", "done"}
      BY <1>1, <1>4, Zenon DEF P!Fork, P!Runs, Fenced
    <2>2. inGroup'[q] /\ \A r \in Procs \ {q} : st'[r] = st[r] /\ inGroup'[r] = inGroup[r]
      BY <1>1, <1>4, <2>1, Zenon DEF P!Fork, Processes
    <2>. QED  BY <1>1, <1>4, <2>1, <2>2, Zenon DEF Fenced
  <1>5. ASSUME fenced, NEW p \in Procs, P!Exit(p) \/ P!DieKilled(p), UNCHANGED sup PROVE Fenced'
    <2>1. st' = [st EXCEPT ![p] = "dead"] /\ inGroup' = inGroup
      BY <1>5, Zenon DEF P!Exit, P!DieKilled, P!Last
    <2>2. \A r \in Procs : st'[r] = "live" => st[r] = "live"
      BY <1>1, <2>1, Zenon DEF Processes
    <2>. QED  BY <1>2, <1>5, <2>1, <2>2, Zenon
  <1>6. ASSUME fenced, ProcessStep, UNCHANGED sup PROVE Fenced'
    <2>1. \A p \in Procs : ~P!Leave(p)
      BY <1>6, Zenon DEF P!Leave
    <2>2. ASSUME NEW p \in Procs, NEW s \in P!AllStreams, P!CloseEnd(p, s) PROVE Fenced'
      BY <1>2, <1>6, <2>2, Zenon DEF P!CloseEnd
    <2>. QED  BY <1>4, <1>5, <1>6, <2>1, <2>2, Zenon DEF ProcessStep
  <1>7. ASSUME fenced, P!Spawn PROVE Fenced'
    <2>1. sup' \notin {"start", "killed", "settle", "done"}
      BY <1>7, Zenon DEF P!Spawn
    <2>2. /\ st' = [st EXCEPT ![Leader] = "live"] /\ inGroup' = [inGroup EXCEPT ![Leader] = TRUE]
      BY <1>7, Zenon DEF P!Spawn
    <2>3. \A r \in Procs \ {Leader} : st'[r] = st[r] /\ inGroup'[r] = inGroup[r]
      BY <1>1, <2>2, Zenon DEF Processes
    <2>4. Leader \in Procs => inGroup'[Leader]
      BY <1>1, <2>2, Zenon DEF Processes
    <2>. QED  BY <1>1, <1>7, <2>1, <2>3, <2>4, Zenon DEF Fenced
  <1>8. ASSUME fenced, P!KillGroup \/ P!Sweep PROVE Fenced'
    <2>1. st' = [p \in Procs |-> IF st[p] = "live" /\ inGroup[p] THEN "doomed" ELSE st[p]]
      BY <1>8, Zenon DEF P!KillGroup, P!Sweep, P!Doomed
    <2>2. ASSUME NEW p \in Procs PROVE st'[p] # "live"
      <3>1. CASE st[p] = "live"
        <4>1. st'[p] = "doomed"
          BY <1>1, <1>8, <2>1, <3>1, Zenon DEF Fenced
        <4>. QED  BY <4>1, Zenon
      <3>2. CASE st[p] # "live"
        BY <2>1, <3>2, Zenon
      <3>. QED  BY <3>1, <3>2, Zenon
    <2>. QED  BY <2>2, Zenon DEF Fenced
  <1>9. ASSUME fenced, P!LeaderExited \/ P!CancelObserved \/ P!DeadlineObserved \/ P!PollAgain
        PROVE  Fenced'
    <2>1. /\ UNCHANGED <<st, inGroup>>
          /\ sup' = sup \/ sup' \notin {"start", "killed", "settle", "done"}
      BY <1>9, Zenon
      DEF P!LeaderExited, P!CancelObserved, P!DeadlineObserved, P!TearDown, P!PollAgain, P!procVars
    <2>. QED  BY <1>2, <1>9, <2>1, Zenon
  <1>10. ASSUME fenced, P!SpawnRefused \/ P!TornDown \/ P!Finish PROVE Fenced'
    <2>1. UNCHANGED <<st, inGroup>> /\ sup \in {"start", "killed", "settle", "done"}
      BY <1>10, Zenon DEF P!SpawnRefused, P!TornDown, P!Finish, P!procVars
    <2>. QED  BY <1>2, <1>10, <2>1, Zenon
  <1>11. CASE fenced
    BY <1>3, <1>6, <1>7, <1>8, <1>9, <1>10, <1>11, Steps, Zenon DEF P!Supervise, control
  <1>12. CASE ~fenced
    BY <1>1, <1>12, Zenon DEF Fenced
  <1>. QED  BY <1>11, <1>12, Zenon

\* What is read is bounded by what was written and by the reader's limit, and stays as it is once
\* the reader has stopped.
LEMMA PipesKeep ==
  ASSUME P!Parameters, ProcessInv, [P!Next]_(P!vars)
  PROVE  Pipes'
  <1>1. /\ ProcTyped /\ Pipes /\ UNCHANGED <<kind, frame, P!Streams, P!TakeLimit>>
        /\ P!TakeLimit \in Nat /\ P!Streams \subseteq P!AllStreams
        /\ {"stdout", "stderr"} \subseteq P!AllStreams
    BY Sealed DEF ProcessInv, ProcTyped, P!TakeLimit, P!Parameters, P!Streams, P!AllStreams
  <1> DEFINE Sound(s, t, w, r) == /\ t <= w /\ t <= P!TakeLimit
                                  /\ r = "done" => t = P!TakeLimit \/ (kind = "shell" /\ t = w)
  <1>2. \A s \in P!AllStreams : Sound(s, taken[s], written[s], reader[s])
    BY <1>1, Zenon DEF Pipes
  <1>3. ASSUME UNCHANGED <<control, pipes>> PROVE Pipes'
    BY <1>1, <1>3, Zenon DEF Pipes, control, pipes, P!AllDone, P!Total
  <1>4. ASSUME UNCHANGED control, PipeStep, NEW s \in P!AllStreams, reader[s] = "reading",
               \A r \in P!AllStreams \ {s} : UNCHANGED <<taken[r], written[r], reader[r]>>,
               Sound(s, taken'[s], written'[s], reader'[s]),
               output # None => s \notin P!Streams /\ taken' = taken
        PROVE  Pipes'
    <2>1. \A r \in P!AllStreams : Sound(r, taken'[r], written'[r], reader'[r])
      BY <1>2, <1>4, Zenon
    <2>2. output' # None => /\ sup' = "done" /\ output' = taken' /\ P!AllDone'
                            /\ kind' = "shell" => P!Total' <= OutputLimit
      <3>1. output # None => P!AllDone'
        BY <1>1, <1>4, Zenon DEF P!AllDone, Pipes
      <3>. QED  BY <1>1, <1>4, <3>1, Zenon DEF Pipes, control, P!Total
    <2>. QED  BY <1>1, <2>1, <2>2, Zenon DEF Pipes
  <1>5. P!Spawned => output = None
    BY <1>1, Zenon DEF P!Spawned, Pipes
  <1>6. ASSUME UNCHANGED control, NEW s \in P!AllStreams, P!Read(s) PROVE Pipes'
    <2>1. /\ reader[s] = "reading" /\ taken[s] < written[s] /\ taken[s] < P!TakeLimit
          /\ taken' = [taken EXCEPT ![s] = @ + 1] /\ UNCHANGED <<written, reader>> /\ P!Spawned
      BY <1>6, Zenon DEF P!Read
    <2>2. taken'[s] = taken[s] + 1 /\ \A r \in P!AllStreams \ {s} : taken'[r] = taken[r]
      BY <1>1, <2>1, Zenon DEF ProcTyped
    <2>3. Sound(s, taken'[s], written'[s], reader'[s])
      BY <1>1, <2>1, <2>2 DEF ProcTyped
    <2>. HIDE DEF Sound
    <2>. QED  BY <1>4, <1>5, <1>6, <2>1, <2>2, <2>3, Zenon DEF PipeStep
  <1>7. ASSUME UNCHANGED control, NEW s \in P!AllStreams, NEW p \in Procs, P!WriteUnit(p, s)
        PROVE  Pipes'
    <2>1. /\ reader[s] = "reading" /\ written' = [written EXCEPT ![s] = @ + 1]
          /\ UNCHANGED <<taken, reader>>
      BY <1>7, Zenon DEF P!WriteUnit
    <2>2. written'[s] = written[s] + 1 /\ \A r \in P!AllStreams \ {s} : written'[r] = written[r]
      BY <1>1, <2>1, Zenon DEF ProcTyped
    <2>3. Sound(s, taken'[s], written'[s], reader'[s])
      BY <1>1, <1>2, <2>1, <2>2 DEF ProcTyped
    <2>4. output # None => s \notin P!Streams
      BY <1>1, <2>1, Zenon DEF Pipes, P!AllDone
    <2>. HIDE DEF Sound
    <2>. QED  BY <1>4, <1>7, <2>1, <2>2, <2>3, <2>4, Zenon DEF PipeStep
  <1>8. ASSUME UNCHANGED control, NEW s \in P!AllStreams, P!ReadEnd(s) \/ P!ReadError(s)
               \/ P!SettleTimeout(s)
        PROVE  Pipes'
    <2>1. reader[s] = "reading" /\ UNCHANGED <<taken, written>> /\ P!Spawned
      BY <1>8, Zenon DEF P!ReadEnd, P!ReadError, P!SettleTimeout, P!Spawned
    <2>2. \A r \in P!AllStreams \ {s} : reader'[r] = reader[r]
      BY <1>1, <1>8, Zenon DEF P!ReadEnd, P!ReadError, P!SettleTimeout, ProcTyped
    <2>3. reader'[s] = "done" => taken[s] = P!TakeLimit \/ (kind = "shell" /\ taken[s] = written[s])
      <3>1. CASE P!ReadError(s) \/ P!SettleTimeout(s)
        BY <1>1, <3>1, Zenon DEF P!ReadError, P!SettleTimeout, ProcTyped
      <3>2. CASE P!ReadEnd(s)
        <4>1. reader'[s] = IF kind = "bundle" /\ (taken[s] < frame \/ P!FrameTooLong)
                           THEN "error" ELSE "done"
          BY <1>1, <3>2, Zenon DEF P!ReadEnd, ProcTyped
        <4>2. CASE kind = "shell"
          BY <3>2, <4>2, Zenon DEF P!ReadEnd, P!FrameTooLong, P!Eof
        <4>3. CASE kind = "bundle"
          <5>1. reader'[s] = "done" => ~(taken[s] < frame)
            BY <4>1, <4>3, Zenon
          <5>2. P!TakeLimit = frame /\ taken[s] \in Nat /\ frame \in Nat /\ taken[s] <= P!TakeLimit
            BY <1>1, <1>2, <4>3, Zenon DEF P!TakeLimit, ProcTyped
          <5>. QED  BY <5>1, <5>2
        <4>. QED  BY <1>1, <4>2, <4>3, Zenon DEF ProcTyped
      <3>. QED  BY <1>8, <3>1, <3>2, Zenon
    <2>4. Sound(s, taken'[s], written'[s], reader'[s])
      BY <1>2, <2>1, <2>3, Zenon
    <2>. HIDE DEF Sound
    <2>. QED  BY <1>4, <1>5, <1>8, <2>1, <2>2, <2>4, Zenon DEF PipeStep
  <1>9. ASSUME UNCHANGED <<written, taken>>,
               reader' = reader \/ \A s \in P!AllStreams : reader'[s] = "aborted",
               output' # None => /\ sup' = "done" /\ output' = taken' /\ P!AllDone'
                                 /\ kind' = "shell" => P!Total' <= OutputLimit
        PROVE  Pipes'
    <2>1. \A s \in P!AllStreams : Sound(s, taken'[s], written'[s], reader'[s])
      BY <1>2, <1>9, Zenon
    <2>. QED  BY <1>1, <1>9, <2>1, Zenon DEF Pipes
  <1>10. ASSUME P!Spawn \/ P!LeaderExited \/ P!CancelObserved \/ P!DeadlineObserved
                \/ P!PollAgain \/ P!KillGroup \/ P!Sweep
         PROVE  Pipes'
    <2>1. UNCHANGED <<written, taken, reader, output>> /\ sup # "done"
      BY <1>10, Zenon
      DEF P!Spawn, P!LeaderExited, P!CancelObserved, P!DeadlineObserved, P!TearDown, P!PollAgain,
          P!KillGroup, P!Sweep
    <2>. QED  BY <1>1, <1>9, <2>1, Zenon DEF Pipes
  <1>11. ASSUME P!SpawnRefused \/ P!TornDown PROVE Pipes'
    <2>1. /\ UNCHANGED <<written, taken>> /\ output' = None
          /\ reader' = reader \/ reader' = [s \in P!AllStreams |-> "aborted"]
      BY <1>11, Zenon DEF P!SpawnRefused, P!TornDown, P!End
    <2>. QED  BY <1>9, <2>1, Zenon
  <1>12. ASSUME P!Finish PROVE Pipes'
    <2>1. UNCHANGED <<written, taken, reader>> /\ sup' = "done"
      BY <1>12, Zenon DEF P!Finish, P!End
    <2>2. output' # None => output' = taken /\ P!AllDone
          /\ (kind = "shell" => P!Total <= OutputLimit)
      BY <1>1, <1>12, Zenon DEF P!Finish, P!End, P!ShellResult, P!BundleResult, ProcTyped
    <2>3. P!AllDone' = P!AllDone /\ P!Total' = P!Total
      BY <1>1, <2>1, Zenon DEF P!AllDone, P!Total
    <2>. QED  BY <1>1, <1>9, <2>1, <2>2, <2>3, Zenon
  <1>. HIDE DEF Sound
  <1>13. ASSUME PipeStep, UNCHANGED control PROVE Pipes'
    BY <1>6, <1>7, <1>8, <1>13, Zenon DEF PipeStep
  <1>. QED  BY <1>3, <1>10, <1>11, <1>12, <1>13, Steps, Zenon DEF P!Supervise

\* Time past the deadline and the rest of the sleep add up to one poll interval at most.
LEMMA ClocksKeep ==
  ASSUME P!Parameters, ProcessInv, [P!Next]_(P!vars)
  PROVE  Clocks'
  <1>1. Clocks /\ PollTicks \in Nat /\ Horizon \in Nat /\ Deadline \in Nat /\ Pause \in Nat
    BY Zenon DEF ProcessInv, P!Parameters
  <1>2. ASSUME UNCHANGED clock, sup' = sup \/ sup' \notin {"start", "running"} PROVE Clocks'
    BY <1>1, <1>2, Zenon DEF Clocks, clock
  <1>3. CASE P!Tick
    <2>1. /\ timer > 0 \/ sup # "running"
          /\ sup' = sup /\ timer \in 0..PollTicks
          /\ wall' = IF wall + 1 < Horizon THEN wall + 1 ELSE Horizon
          /\ timer' = IF timer > 0 THEN timer - 1 ELSE 0
          /\ late' = IF sup = "running" /\ wall >= Deadline
                     THEN IF late + 1 < PollTicks + 1 THEN late + 1 ELSE PollTicks + 1
                     ELSE late
      BY <1>1, <1>3, Zenon DEF P!Tick, P!Least, Clocks
    <2>. QED  BY <1>1, <2>1 DEF Clocks
  <1>4. CASE P!Suspend
    BY <1>1, <1>4 DEF P!Suspend, Clocks
  <1>5. CASE P!Spawn \/ P!PollAgain
    <2>1. /\ wall < Deadline /\ timer' = P!NextSleep /\ UNCHANGED <<wall, late>> /\ sup' = "running"
          /\ sup \in {"start", "running"}
      BY <1>5, Zenon DEF P!Spawn, P!PollAgain
    <2>2. P!NextSleep \in 0..PollTicks
      BY <1>1, <2>1 DEF P!NextSleep, P!Least, Clocks
    <2>3. late = 0
      BY <1>1, <2>1, Zenon DEF Clocks
    <2>. QED  BY <1>1, <2>1, <2>2, <2>3, Zenon DEF Clocks
  <1>6. ASSUME P!SpawnRefused \/ P!LeaderExited \/ P!CancelObserved \/ P!DeadlineObserved
               \/ P!KillGroup \/ P!TornDown \/ P!Sweep \/ P!Finish
        PROVE  Clocks'
    <2>1. UNCHANGED clock /\ sup' \notin {"start", "running"}
      BY <1>6, Zenon
      DEF P!SpawnRefused, P!LeaderExited, P!CancelObserved, P!DeadlineObserved, P!TearDown,
          P!KillGroup, P!TornDown, P!Sweep, P!Finish, P!End, clock, P!clockVars
    <2>. QED  BY <1>2, <2>1, Zenon
  <1>. QED  BY <1>2, <1>3, <1>4, <1>5, <1>6, Steps, Zenon DEF P!Supervise, control

\* ProcessInv holds for every execution, from its start.
LEMMA ProcessAlways ==
  ASSUME P!Parameters
  PROVE  P!Spec => []ProcessInv
  <1>1. P!Init => ProcessInv
    <2> SUFFICES ASSUME P!Init PROVE ProcessInv
      OBVIOUS
    <2>1. ProcTyped
      <3>1. kind \in {"shell", "bundle"} /\ fenced \in BOOLEAN
        BY Zenon DEF P!Init, P!Parameters
      <3>2. frame \in Nat
        <4>1. frame \in Frames \/ frame = 0
          BY Zenon DEF P!Init
        <4>2. Frames \subseteq Nat /\ 0 \in Nat
          BY Zenon DEF P!Parameters
        <4>. QED  BY <4>1, <4>2, Zenon
      <3>3. /\ written \in [P!AllStreams -> Nat] /\ taken \in [P!AllStreams -> Nat]
            /\ reader \in [P!AllStreams -> {"reading", "done", "error", "aborted", "unsettled"}]
        BY Zenon DEF P!Init
      <3>. QED  BY <3>1, <3>2, <3>3, Zenon DEF P!Init, ProcTyped
    <2>2. Processes
      BY Zenon DEF P!Init, Processes, P!Parameters, P!Streams
    <2>3. Fenced
      BY Zenon DEF P!Init, Fenced
    <2>4. Pipes
      <3>1. P!TakeLimit \in Nat
        BY <2>1 DEF P!TakeLimit, ProcTyped, P!Parameters
      <3>. QED  BY <3>1 DEF P!Init, Pipes
    <2>5. Clocks
      BY DEF P!Init, Clocks, P!Parameters
    <2>. QED  BY <2>1, <2>2, <2>3, <2>4, <2>5, Zenon DEF ProcessInv
  <1>2. ProcessInv /\ [P!Next]_(P!vars) => ProcessInv'
    BY TypedKeeps, ProcessesKeep, FencedKeeps, PipesKeep, ClocksKeep, Zenon DEF ProcessInv
  <1>. QED  BY <1>1, <1>2, PTL DEF P!Spec

\* Whatever the processes of an execution do, its terminal result is final: no process behind the
\* fence outlives it, and the output it carries is complete and within the limit.
THEOREM ResultCorrect ==
  ASSUME P!Parameters
  PROVE  P!Spec => []P!ResultIsFinal
  <1>1. ProcessInv => P!ResultIsFinal
    <2> SUFFICES ASSUME ProcessInv PROVE P!ResultIsFinal
      OBVIOUS
    <2>1. P!NoSurvivors
      BY Zenon DEF ProcessInv, ProcTyped, Fenced, P!NoSurvivors, P!Runs
    <2>2. P!OutputIsWhole
      <3> SUFFICES ASSUME output # None PROVE P!OutputIsWhole
        BY Zenon DEF P!OutputIsWhole
      <3>1. /\ output = taken /\ P!AllDone /\ (kind = "shell" => P!Total <= OutputLimit)
            /\ taken \in [P!AllStreams -> Nat] /\ written \in [P!AllStreams -> Nat]
            /\ kind \in {"shell", "bundle"}
            /\ \A s \in P!AllStreams : reader[s] = "done" =>
                  taken[s] = P!TakeLimit \/ (kind = "shell" /\ taken[s] = written[s])
        BY Zenon DEF ProcessInv, ProcTyped, Pipes
      <3>2. CASE kind = "bundle"
        BY <3>1, <3>2, Zenon DEF P!OutputIsWhole, P!Streams, P!AllStreams, P!AllDone, P!TakeLimit
      <3>3. CASE kind = "shell"
        <4>1. taken["stdout"] \in Nat /\ taken["stderr"] \in Nat /\ OutputLimit \in Nat
          BY <3>1, Zenon DEF P!AllStreams, P!Parameters
        <4>2. taken["stdout"] # P!TakeLimit /\ taken["stderr"] # P!TakeLimit
          BY <3>1, <3>3, <4>1 DEF P!Total, P!TakeLimit
        <4>3. P!Streams = {"stdout", "stderr"} /\ P!Streams \subseteq P!AllStreams
          BY <3>3, Zenon DEF P!Streams, P!AllStreams
        <4>4. \A s \in P!Streams : taken[s] = written[s]
          BY <3>1, <4>2, <4>3, Zenon DEF P!AllDone
        <4>. QED  BY <3>1, <3>3, <4>4, Zenon DEF P!OutputIsWhole
      <3>. QED  BY <3>1, <3>2, <3>3, Zenon
    <2>3. P!TypeOK
      <3>1. \A s \in P!AllStreams : taken[s] \in 0..written[s]
        BY DEF ProcessInv, ProcTyped, Pipes
      <3>2. wall \in 0..Horizon /\ timer \in 0..PollTicks
        BY Zenon DEF ProcessInv, Clocks
      <3>3. (outcome # None) = (sup = "done")
        BY Zenon DEF ProcessInv, ProcTyped
      <3>. QED  BY <3>1, <3>2, <3>3, Zenon DEF ProcessInv, ProcTyped, Processes, P!TypeOK
    <2>. QED  BY <2>1, <2>2, <2>3, Zenon DEF P!ResultIsFinal
  <1>. QED  BY <1>1, ProcessAlways, PTL

\* However often and for however long snapshots pause the timers, an execution runs at most one
\* poll interval past its deadline before it is torn down.
THEOREM DeadlineCorrect ==
  ASSUME P!Parameters
  PROVE  P!Spec => []P!DeadlineBites
  <1>1. ProcessInv => P!DeadlineBites
    BY DEF ProcessInv, Clocks, P!DeadlineBites, P!Parameters
  <1>. QED  BY <1>1, ProcessAlways, PTL
=============================================================================
