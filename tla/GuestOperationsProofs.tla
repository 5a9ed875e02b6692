------------------------ MODULE GuestOperationsProofs ------------------------
(* Proofs about GuestOperations for every set of operations, callers and      *)
(* results and every bound.                                                   *)
EXTENDS GuestOperations, FiniteSetTheorems, TLAPS

Pcs == {"idle", "validate", "observe", "enable", "check", "wait", "read",
        "ack_validate", "retain", "sync", "release"}

\* The empty records have their types, and no tombstone is the empty one.
LEMMA Records ==
  /\ NoEntry \in Entry /\ NoEntry.state = "none" /\ NoEntry.notify = 0 /\ NoEntry.digest = None
  /\ NoTomb \in Tomb /\ Idle \in Call /\ Idle.pc = "idle" /\ None \notin Digests
  /\ \A d \in Digests, t \in Terminals : Tombstone(d, t) \in Tomb /\ Tombstone(d, t) # NoTomb
  <1>1. Reserve \in Nat \ {0} /\ None \notin Digests
    BY GuestAssumption, Zenon
  <1>2. /\ NoEntry \in Entry /\ NoEntry.state = "none" /\ NoEntry.notify = 0 /\ NoEntry.digest = None
    BY <1>1 DEF NoEntry, Entry
  <1>3. NoTomb \in Tomb /\ Idle \in Call /\ Idle.pc = "idle"
    BY Zenon DEF NoTomb, Tomb, Idle, Calling, Call
  <1>4. \A d \in Digests, t \in Terminals : Tombstone(d, t) \in Tomb /\ Tombstone(d, t) # NoTomb
    BY <1>1, Zenon DEF NoTomb, Tomb, Tombstone
  <1>. QED  BY <1>1, <1>2, <1>3, <1>4, Zenon

\* There are finitely many operations.
LEMMA Counting ==
  ASSUME NEW S \in SUBSET Ops
  PROVE  /\ IsFiniteSet(S) /\ Cardinality(S) \in Nat
         /\ \A o \in Ops : /\ o \notin S => Cardinality(S \cup {o}) = Cardinality(S) + 1
                           /\ o \in S => Cardinality(S \ {o}) = Cardinality(S) - 1
  <1>1. IsFiniteSet(S)
    BY FS_Subset, GuestAssumption, Zenon
  <1>2. Cardinality(S) \in Nat
    BY <1>1, FS_CardinalityType, Zenon
  <1>3. ASSUME NEW o \in Ops
        PROVE  /\ o \notin S => Cardinality(S \cup {o}) = Cardinality(S) + 1
               /\ o \in S => Cardinality(S \ {o}) = Cardinality(S) - 1
    BY <1>1, FS_AddElement, FS_RemoveElement, Zenon
  <1>. QED  BY <1>1, <1>2, <1>3, Zenon

\* The counts of records and of running tasks depend on the states only.
LEMMA CountsKept ==
  ASSUME RetentionIsBounded, UNCHANGED <<pending, terminalBytes>>,
         \A o \in Ops : book'[o].state = book[o].state
  PROVE  RetentionIsBounded'
  <1>1. Running' = Running /\ Terminal' = Terminal
    BY Zenon DEF Running, Terminal
  <1>. QED  BY <1>1, Zenon DEF RetentionIsBounded

-----------------------------------------------------------------------------
(* Steps of a call that leave the book alone *)

\* The log only grows, and what this process adds to it makes it dirty.
LogGrows ==
    /\ tomb' \in [Ops -> Tomb] /\ disk' \in [Ops -> Tomb] /\ dirty' \in BOOLEAN
    /\ failures' \in [restarts : Nat, crashes : Nat, io : Nat]
    /\ failures'.restarts = failures.restarts /\ failures'.crashes = failures.crashes
    /\ \A o \in Ops : /\ Logged(o) => Logged(o)'
                      /\ Durable(o) => Durable(o)'
                      /\ Durable(o)' => Logged(o)'
                      /\ Logged(o)' => Logged(o) \/ admits[o] > 0
                      /\ Logged(o)' /\ ~Durable(o)' /\ admits[o] > 0 => dirty'

\* A step of one call needs to be examined for that call and for the log.
LEMMA CallKeeps ==
  ASSUME OperationsInv, NEW c \in Callers, NEW m \in Call, call' = [call EXCEPT ![c] = m],
         UNCHANGED <<book, pending, terminalBytes, admits, task, permits, shutdown>>,
         acked' \subseteq Ops, LogGrows, LogIsSound', CallIsSound(c)'
  PROVE  OperationsInv'
  <1>1. TypeOK'
    BY Zenon DEF OperationsInv, TypeOK, LogGrows
  <1>2. RetentionIsBounded'
    BY CountsKept, Zenon DEF OperationsInv
  <1>3. permits' = Slots - Cardinality(Active')
    BY Zenon DEF OperationsInv, Active
  <1>4. ASSUME NEW o \in Ops PROVE OperationIsSound(o)'
    BY Zenon DEF OperationsInv, OperationIsSound, LogGrows, Logged
  <1>5. ASSUME NEW d \in Callers, d # c PROVE CallIsSound(d)'
    <2>1. CallIsSound(d) /\ call'[d] = call[d]
      BY <1>5, Zenon DEF OperationsInv, TypeOK
    <2>. QED  BY <2>1, Zenon DEF CallIsSound, LogGrows
  <1>. QED  BY <1>1, <1>2, <1>3, <1>4, <1>5, Zenon DEF OperationsInv

\* A step that leaves the log alone too.
LEMMA QuietKeeps ==
  ASSUME OperationsInv, NEW c \in Callers, NEW m \in Call, call' = [call EXCEPT ![c] = m],
         UNCHANGED <<bookVars, admits, taskVars, ackVars, failures>>, CallIsSound(c)'
  PROVE  OperationsInv'
  <1>1. UNCHANGED <<book, pending, terminalBytes, admits, task, permits, shutdown, tomb, disk, dirty,
                    acked, failures>>
    BY Zenon DEF bookVars, taskVars, ackVars
  <1>2. LogGrows
    BY <1>1, Zenon DEF OperationsInv, TypeOK, LogGrows, OperationIsSound, Logged, Durable
  <1>3. LogIsSound' /\ acked' \subseteq Ops
    BY <1>1, Zenon DEF OperationsInv, TypeOK, LogIsSound, Logged, Durable
  <1>. QED  BY <1>1, <1>2, <1>3, CallKeeps, Zenon

\* A call that returns is idle.
LEMMA ReturnSound ==
  ASSUME OperationsInv, NEW c \in Callers, Return(c)
  PROVE  Idle \in Call /\ call' = [call EXCEPT ![c] = Idle] /\ CallIsSound(c)'
  <1>1. call'[c] = Idle /\ Idle.pc = "idle" /\ Idle \in Call
    BY Records, Zenon DEF Return, OperationsInv, TypeOK
  <1>. QED  BY <1>1, Zenon DEF Return, CallIsSound

\* A call that goes on keeps what it is about.
LEMMA GoStep ==
  ASSUME OperationsInv, NEW c \in Callers, NEW pc \in Pcs, GoTo(c, pc)
  PROVE  \E m \in Call : /\ call' = [call EXCEPT ![c] = m] /\ call'[c] = m
                         /\ m.pc = pc /\ m.op = call[c].op /\ m.digest = call[c].digest
                         /\ m.result = call[c].result /\ m.wait = call[c].wait
                         /\ m.notify = call[c].notify /\ m.woken = call[c].woken
  <1>. DEFINE m == [call[c] EXCEPT !.pc = pc]
  <1>1. call[c] \in Call /\ call \in [Callers -> Call]
    BY Zenon DEF OperationsInv, TypeOK
  <1>2. m \in Call
    BY <1>1, Zenon DEF Call, Pcs
  <1>3. /\ m.pc = pc /\ m.op = call[c].op /\ m.digest = call[c].digest
        /\ m.result = call[c].result /\ m.wait = call[c].wait
        /\ m.notify = call[c].notify /\ m.woken = call[c].woken
    BY <1>1, Zenon DEF Call
  <1>4. call' = [call EXCEPT ![c] = m] /\ call'[c] = m
    BY <1>1, Zenon DEF GoTo
  <1>. HIDE DEF m
  <1>. QED  BY <1>2, <1>3, <1>4, Zenon

\* A new call.
LEMMA CallingStep ==
  ASSUME OperationsInv, NEW c \in Callers, NEW pc \in Pcs, NEW o \in Ops, NEW d \in Digests,
         NEW t \in Terminals \cup {None}, NEW w \in BOOLEAN,
         call' = [call EXCEPT ![c] = Calling(pc, o, d, t, w)]
  PROVE  /\ Calling(pc, o, d, t, w) \in Call
         /\ call'[c].pc = pc /\ call'[c].op = o /\ call'[c].digest = d /\ call'[c].result = t
  <1>1. Calling(pc, o, d, t, w) \in Call
    BY Zenon DEF Calling, Call, Pcs
  <1>2. call'[c] = Calling(pc, o, d, t, w)
    BY Zenon DEF OperationsInv, TypeOK
  <1>. QED  BY <1>1, <1>2 DEF Calling

\* Submissions that are fenced or refused, and observations.
LEMMA LookingKeeps ==
  ASSUME OperationsInv, NEW c \in Callers,
         \/ \E o \in Ops, d \in Digests, w \in BOOLEAN : Submit(c, o, d, w) \/ Observe(c, o, d, w)
         \/ ValidateFails(c) \/ AdmitExisting(c) \/ AdmitRefused(c)
         \/ ObserveLookup(c) \/ ObserveEnable(c) \/ ObserveCheck(c) \/ ObserveWait(c)
         \/ ObserveRead(c) \/ AckValidate(c)
  PROVE  OperationsInv'
  <1>1. /\ CallIsSound(c) /\ call[c] \in Call /\ call \in [Callers -> Call]
        /\ UNCHANGED <<bookVars, admits, taskVars, ackVars, failures>>
    BY Zenon
    DEF OperationsInv, TypeOK, Submit, Observe, ValidateFails, AdmitExisting, AdmitRefused,
        ObserveLookup, ObserveEnable, ObserveCheck, ObserveWait, ObserveRead, AckValidate
  <1>2. UNCHANGED <<book, admits, tomb, disk, failures>>
    BY <1>1, Zenon DEF bookVars, ackVars
  <1>3. CASE Return(c)
    BY <1>1, <1>3, ReturnSound, QuietKeeps, Zenon
  <1>4. ASSUME NEW o \in Ops, NEW d \in Digests, NEW w \in BOOLEAN, Submit(c, o, d, w)
        PROVE  OperationsInv'
    <2>1. call' = [call EXCEPT ![c] = Calling("validate", o, d, None, w)] /\ ~Logged(o)
      BY <1>4, Zenon DEF Submit, Logged
    <2>2. /\ Calling("validate", o, d, None, w) \in Call
          /\ call'[c].pc = "validate" /\ call'[c].op = o /\ call'[c].digest = d
      <3>1. "validate" \in Pcs /\ None \in Terminals \cup {None}
        BY Zenon DEF Pcs
      <3>. QED  BY <2>1, <3>1, CallingStep, Zenon
    <2>3. CallIsSound(c)'
      BY <1>2, <2>1, <2>2, Zenon DEF CallIsSound, Logged
    <2>. QED  BY <1>1, <2>1, <2>2, <2>3, QuietKeeps, Zenon
  <1>5. ASSUME NEW o \in Ops, NEW d \in Digests, NEW w \in BOOLEAN, Observe(c, o, d, w)
        PROVE  OperationsInv'
    <2>1. call' = [call EXCEPT ![c] = Calling("observe", o, d, None, w)]
      BY <1>5, Zenon DEF Observe
    <2>2. /\ Calling("observe", o, d, None, w) \in Call
          /\ call'[c].pc = "observe" /\ call'[c].op = o /\ call'[c].digest = d
      <3>1. "observe" \in Pcs /\ None \in Terminals \cup {None}
        BY Zenon DEF Pcs
      <3>. QED  BY <2>1, <3>1, CallingStep, Zenon
    <2>3. CallIsSound(c)'
      BY <2>2, Zenon DEF CallIsSound
    <2>. QED  BY <1>1, <2>1, <2>2, <2>3, QuietKeeps, Zenon
  <1>6. ASSUME NEW pc \in {"observe", "check", "wait", "read", "retain"}, GoTo(c, pc),
               call[c].pc # "idle", pc \in {"check", "wait"} => call[c].pc \in {"enable", "check"},
               pc = "wait" => book[call[c].op].state # "terminal",
               pc = "retain" => /\ book[call[c].op].state = "terminal"
                                /\ call[c].result \in Terminals
        PROVE  OperationsInv'
    <2>1. PICK m \in Call : /\ call' = [call EXCEPT ![c] = m] /\ call'[c] = m
                            /\ m.pc = pc /\ m.op = call[c].op /\ m.digest = call[c].digest
                            /\ m.result = call[c].result
                            /\ m.notify = call[c].notify /\ m.woken = call[c].woken
      BY <1>6, GoStep DEF Pcs
    <2>2. call[c].op \in Ops /\ call[c].digest \in Digests
      BY <1>1, <1>6, Zenon DEF CallIsSound
    <2>3. OperationIsSound(call[c].op) /\ book[call[c].op] \in Entry /\ admits[call[c].op] \in Nat
      BY <2>2, Zenon DEF OperationsInv, TypeOK
    <2>4. pc \in {"check", "wait"} => 0 < m.notify /\ m.notify <= admits[m.op]
      BY <1>1, <1>6, <2>1, ZenonT(60) DEF CallIsSound
    <2>5. pc = "wait" /\ m.notify = book[m.op].notify => book[m.op].state = "running"
      BY <1>6, <2>1, <2>3, <2>4, Records DEF OperationIsSound, Entry
    <2>6. pc = "retain" => admits[m.op] > 0
      BY <1>6, <2>1, <2>3, Zenon DEF OperationIsSound
    <2>7. CallIsSound(c)'
      BY <1>2, <1>6, <2>1, <2>2, <2>4, <2>5, <2>6, Zenon DEF CallIsSound
    <2>. QED  BY <1>1, <2>1, <2>7, QuietKeeps, Zenon
  <1>7. CASE AdmitExisting(c) \/ ObserveEnable(c) \/ ObserveCheck(c) \/ ObserveWait(c)
    BY <1>6, <1>7, Zenon DEF AdmitExisting, ObserveEnable, ObserveCheck, ObserveWait
  <1>8. CASE AckValidate(c)
    BY <1>1, <1>3, <1>6, <1>8, Zenon DEF AckValidate, CallIsSound
  <1>9. CASE ObserveLookup(c)
    <2>. SUFFICES ASSUME book[call[c].op].digest = call[c].digest
                  PROVE  OperationsInv'
      BY <1>3, <1>9, Zenon DEF ObserveLookup
    <2>. DEFINE pc == IF call[c].wait THEN "enable" ELSE "read"
                m == [call[c] EXCEPT !.pc = pc, !.notify = book[call[c].op].notify]
    <2>1. call[c].op \in Ops /\ call[c].digest \in Digests /\ call[c].pc = "observe"
      BY <1>1, <1>9, Zenon DEF CallIsSound, ObserveLookup
    <2>2. OperationIsSound(call[c].op) /\ book[call[c].op] \in Entry
      BY <2>1, Zenon DEF OperationsInv, TypeOK
    <2>3. book[call[c].op].notify \in Nat /\ pc \in {"enable", "read"}
      BY <2>2, Zenon DEF Entry
    <2>4. m \in Call
      BY <1>1, <2>3, Zenon DEF Call
    <2>5. m.pc = pc /\ m.op = call[c].op /\ m.digest = call[c].digest /\ m.notify = book[call[c].op].notify
      BY <1>1, Zenon DEF Call
    <2>6. call' = [call EXCEPT ![c] = m]
      BY <1>1, <1>9, ZenonT(60) DEF ObserveLookup, Call
    <2>7. book[call[c].op].notify = admits[call[c].op] /\ admits[call[c].op] > 0
      BY <2>1, <2>2, Records, ZenonT(60) DEF OperationIsSound
    <2>. HIDE DEF m
    <2>8. call'[c] = m
      BY <1>1, <2>6, ZenonT(60)
    <2>9. CallIsSound(c)'
      BY <1>2, <2>1, <2>3, <2>5, <2>7, <2>8 DEF CallIsSound
    <2>. QED  BY <1>1, <2>4, <2>6, <2>9, QuietKeeps, ZenonT(60)
  <1>10. CASE ValidateFails(c) \/ AdmitRefused(c) \/ ObserveRead(c)
    BY <1>3, <1>10, Zenon DEF ValidateFails, AdmitRefused, ObserveRead
  <1>. QED  BY <1>4, <1>5, <1>7, <1>8, <1>9, <1>10, Zenon

-----------------------------------------------------------------------------
(* Steps of the acknowledgement log *)

\* sync_data puts everything that was written on disk.
LEMMA SyncStep ==
  ASSUME OperationsInv, SyncIfDirty \/ SyncOk, UNCHANGED <<admits, tomb, acked>>
  PROVE  /\ LogGrows /\ LogIsSound' /\ acked' \subseteq Ops /\ UNCHANGED failures
         /\ SyncOk => \A o \in Ops : Logged(o) => Durable(o)'
         /\ \A o \in Ops : Logged(o) /\ (admits[o] > 0 \/ failures.restarts = 0) => Durable(o)'
  <1>1. /\ tomb \in [Ops -> Tomb] /\ disk \in [Ops -> Tomb] /\ dirty \in BOOLEAN
        /\ failures \in [restarts : Nat, crashes : Nat, io : Nat] /\ acked' \subseteq Ops
        /\ LogIsSound /\ \A o \in Ops : admits[o] \in Nat
    BY Zenon DEF OperationsInv, TypeOK
  <1>2. \A o \in Ops : /\ Durable(o) => Logged(o)
                       /\ Logged(o) /\ ~Durable(o) /\ admits[o] > 0 => dirty
    BY Zenon DEF OperationsInv, OperationIsSound
  <1>3. CASE SyncOk
    <2>1. disk' = tomb /\ dirty' = FALSE /\ UNCHANGED failures
      BY <1>3, Zenon DEF SyncOk
    <2>2. \A o \in Ops : Logged(o)' = Logged(o) /\ Durable(o)' = Logged(o)
      BY <2>1, Zenon DEF Logged, Durable
    <2>3. LogGrows
      BY <1>1, <1>2, <2>1, <2>2, Zenon DEF LogGrows
    <2>4. LogIsSound'
      BY <1>1, <1>2, <2>1, <2>2, Zenon DEF LogIsSound
    <2>. QED  BY <1>1, <2>1, <2>2, <2>3, <2>4, Zenon
  <1>4. CASE ~SyncOk
    <2>1. UNCHANGED <<disk, dirty, failures>> /\ dirty = FALSE
      BY <1>1, <1>4, Zenon DEF SyncIfDirty
    <2>2. \A o \in Ops : Logged(o)' = Logged(o) /\ Durable(o)' = Durable(o)
      BY <2>1, Zenon DEF Logged, Durable
    <2>3. LogGrows
      BY <1>1, <1>2, <2>1, <2>2, Zenon DEF LogGrows
    <2>4. LogIsSound'
      BY <1>1, <2>1, <2>2, Zenon DEF LogIsSound
    <2>5. failures.restarts = 0 => disk = tomb
      BY <1>1, <2>1, Zenon DEF LogIsSound
    <2>6. \A o \in Ops : Logged(o) /\ (admits[o] > 0 \/ failures.restarts = 0) => Durable(o)'
      BY <1>2, <2>1, <2>2, <2>5, Zenon DEF Logged, Durable
    <2>. QED  BY <1>1, <1>4, <2>1, <2>3, <2>4, <2>6, Zenon
  <1>. QED  BY <1>3, <1>4, Zenon

\* A failed sync changes nothing but the count of failures.
LEMMA SyncFailsStep ==
  ASSUME OperationsInv, SyncFails, UNCHANGED <<admits, tomb, acked>>
  PROVE  LogGrows /\ LogIsSound' /\ acked' \subseteq Ops
  <1>1. /\ tomb \in [Ops -> Tomb] /\ disk \in [Ops -> Tomb] /\ dirty \in BOOLEAN
        /\ failures \in [restarts : Nat, crashes : Nat, io : Nat] /\ acked' \subseteq Ops
        /\ LogIsSound
    BY Zenon DEF OperationsInv, TypeOK
  <1>2. /\ failures' \in [restarts : Nat, crashes : Nat, io : Nat]
        /\ failures'.restarts = failures.restarts /\ failures'.crashes = failures.crashes
        /\ UNCHANGED <<disk, dirty>>
    BY <1>1 DEF SyncFails
  <1>3. \A o \in Ops : Logged(o)' = Logged(o) /\ Durable(o)' = Durable(o)
    BY <1>2, Zenon DEF Logged, Durable
  <1>4. LogGrows
    BY <1>1, <1>2, <1>3, Zenon DEF LogGrows, OperationsInv, OperationIsSound
  <1>5. LogIsSound'
    BY <1>1, <1>2, <1>3, Zenon DEF LogIsSound
  <1>. QED  BY <1>1, <1>4, <1>5, Zenon

\* An acknowledgement begins.
LEMMA AcknowledgeKeeps ==
  ASSUME OperationsInv, NEW c \in Callers, NEW o \in Ops, NEW d \in Digests, NEW t \in Terminals,
         Acknowledge(c, o, d, t)
  PROVE  OperationsInv'
  <1>1. /\ SyncIfDirty /\ UNCHANGED <<book, pending, terminalBytes, admits, task, permits, shutdown>>
        /\ UNCHANGED <<tomb, acked>> /\ call[c].pc = "idle" /\ call \in [Callers -> Call]
    BY Zenon DEF Acknowledge, bookVars, taskVars, OperationsInv, TypeOK
  <1>2. /\ LogGrows /\ LogIsSound' /\ acked' \subseteq Ops /\ UNCHANGED failures
        /\ Logged(o) /\ (admits[o] > 0 \/ failures.restarts = 0) => Durable(o)'
    BY <1>1, SyncStep, Zenon
  <1>3. "ack_validate" \in Pcs /\ "release" \in Pcs /\ FALSE \in BOOLEAN /\ t \in Terminals \cup {None}
    BY Zenon DEF Pcs
  <1>4. ASSUME call' = [call EXCEPT ![c] = Calling("ack_validate", o, d, t, FALSE)]
        PROVE  OperationsInv'
    <2>1. /\ Calling("ack_validate", o, d, t, FALSE) \in Call
          /\ call'[c].pc = "ack_validate" /\ call'[c].op = o /\ call'[c].digest = d /\ call'[c].result = t
      BY <1>3, <1>4, CallingStep, ZenonT(60)
    <2>2. CallIsSound(c)'
      BY <2>1, Zenon DEF CallIsSound
    <2>. QED  BY <1>1, <1>2, <1>4, <2>1, <2>2, CallKeeps, Zenon
  <1>5. ASSUME call' = [call EXCEPT ![c] = Calling("release", o, d, t, FALSE)], tomb[o] = Tombstone(d, t)
        PROVE  OperationsInv'
    <2>1. /\ Calling("release", o, d, t, FALSE) \in Call
          /\ call'[c].pc = "release" /\ call'[c].op = o /\ call'[c].digest = d /\ call'[c].result = t
      BY <1>3, <1>5, CallingStep, Zenon
    <2>2. Logged(o) /\ Logged(o)' /\ admits[o] \in Nat
      BY <1>1, <1>5, Records, Zenon DEF Logged, OperationsInv, TypeOK
    <2>3. CallIsSound(c)'
      BY <1>1, <1>2, <2>1, <2>2 DEF CallIsSound
    <2>. QED  BY <1>1, <1>2, <1>5, <2>1, <2>3, CallKeeps, Zenon
  <1>6. ASSUME UNCHANGED call
        PROVE  OperationsInv'
    <2>1. call' = [call EXCEPT ![c] = call[c]] /\ call[c] \in Call
      BY <1>1, <1>6, Zenon
    <2>2. CallIsSound(c)'
      BY <1>1, <1>6, Zenon DEF CallIsSound
    <2>. QED  BY <1>1, <1>2, <2>1, <2>2, CallKeeps, Zenon
  <1>. QED  BY <1>4, <1>5, <1>6, Zenon DEF Acknowledge

\* An acknowledgement that fails returns.
LEMMA AckFailsKeeps ==
  ASSUME OperationsInv, NEW c \in Callers, AckSyncFails(c) \/ RetainFails(c)
  PROVE  OperationsInv'
  <1>1. /\ SyncIfDirty \/ SyncFails
        /\ UNCHANGED <<book, pending, terminalBytes, admits, task, permits, shutdown, tomb, acked>>
        /\ Return(c)
    BY Zenon DEF AckSyncFails, RetainFails, bookVars, taskVars
  <1>2. LogGrows /\ LogIsSound' /\ acked' \subseteq Ops
    BY <1>1, SyncStep, SyncFailsStep, Zenon
  <1>. QED  BY <1>1, <1>2, ReturnSound, CallKeeps, Zenon

\* The steps of retain and its sync.
LEMMA RetainKeeps ==
  ASSUME OperationsInv, NEW c \in Callers, RetainReplay(c) \/ RetainWrite(c) \/ RetainSync(c)
  PROVE  OperationsInv'
  <1>. DEFINE o == call[c].op
  <1>1. /\ UNCHANGED <<book, pending, terminalBytes, admits, task, permits, shutdown, acked>>
        /\ call[c].pc \in {"retain", "sync"} /\ CallIsSound(c)
    BY Zenon DEF RetainReplay, RetainWrite, RetainSync, bookVars, taskVars, OperationsInv
  <1>2. o \in Ops /\ call[c].digest \in Digests /\ call[c].result \in Terminals /\ admits[o] > 0
    BY <1>1, Zenon DEF CallIsSound
  <1>3. \A pc \in {"sync", "release"} :
          GoTo(c, pc) => \E m \in Call : /\ call' = [call EXCEPT ![c] = m] /\ call'[c] = m
                                         /\ m.pc = pc /\ m.op = o /\ m.digest = call[c].digest
                                         /\ m.result = call[c].result
    BY GoStep DEF Pcs
  <1>4. ASSUME GoTo(c, "release"), LogGrows, LogIsSound', acked' \subseteq Ops,
               \A p \in Ops : p = o => Logged(p) /\ Durable(p)'
        PROVE  OperationsInv'
    <2>1. PICK m \in Call : /\ call' = [call EXCEPT ![c] = m] /\ call'[c] = m /\ m.pc = "release"
                            /\ m.op = o /\ m.digest = call[c].digest /\ m.result = call[c].result
      BY <1>3, <1>4, Zenon
    <2>2. \A p \in Ops : p = o => Logged(p)' /\ Durable(p)'
      BY <1>4, Zenon DEF LogGrows
    <2>3. CallIsSound(c)'
      BY <1>2, <2>1, <2>2, Zenon DEF CallIsSound
    <2>. QED  BY <1>1, <1>4, <2>1, <2>3, CallKeeps, Zenon
  <1>5. ASSUME Return(c), LogGrows, LogIsSound', acked' \subseteq Ops
        PROVE  OperationsInv'
    BY <1>1, <1>5, ReturnSound, CallKeeps, Zenon
  <1>6. CASE RetainReplay(c)
    <2>1. /\ SyncIfDirty /\ UNCHANGED <<admits, tomb, acked>> /\ Logged(o)
          /\ GoTo(c, "release") \/ Return(c)
      BY <1>6, Zenon DEF RetainReplay, Logged
    <2>2. /\ LogGrows /\ LogIsSound' /\ acked' \subseteq Ops
          /\ \A p \in Ops : p = o => Logged(p) /\ Durable(p)'
      <3>1. \A p \in Ops : Logged(p) /\ admits[p] > 0 => Durable(p)'
        BY <2>1, SyncStep, Zenon
      <3>. HIDE DEF o
      <3>. QED  BY <1>2, <2>1, <3>1, SyncStep, Zenon
    <2>. QED  BY <1>4, <1>5, <2>1, <2>2, Zenon
  <1>7. CASE RetainSync(c)
    <2>1. Logged(o) /\ UNCHANGED <<admits, tomb, acked>>
      BY <1>1, <1>7, Zenon DEF CallIsSound, RetainSync
    <2>2. CASE SyncOk /\ GoTo(c, "release")
      <3>1. /\ LogGrows /\ LogIsSound' /\ acked' \subseteq Ops
            /\ \A p \in Ops : p = o => Logged(p) /\ Durable(p)'
        BY <1>2, <2>1, <2>2, SyncStep, Zenon
      <3>. QED  BY <1>4, <2>2, <3>1, Zenon
    <2>3. CASE SyncFails /\ Return(c)
      BY <1>5, <2>1, <2>3, SyncFailsStep, Zenon
    <2>. QED  BY <1>7, <2>2, <2>3, Zenon DEF RetainSync
  <1>8. CASE RetainWrite(c)
    <2>1. /\ disk' = IF dirty THEN tomb ELSE disk
          /\ tomb' = [tomb EXCEPT ![o] = Tombstone(call[c].digest, call[c].result)]
          /\ dirty' = TRUE /\ UNCHANGED failures /\ GoTo(c, "sync")
      BY <1>8, Zenon DEF RetainWrite
    <2>2. /\ tomb \in [Ops -> Tomb] /\ disk \in [Ops -> Tomb]
          /\ failures \in [restarts : Nat, crashes : Nat, io : Nat] /\ acked \subseteq Ops /\ LogIsSound
      BY Zenon DEF OperationsInv, TypeOK
    <2>. DEFINE ts == Tombstone(call[c].digest, call[c].result)
    <2>3. ts \in Tomb /\ ts # NoTomb
      BY <1>2, Records, Zenon
    <2>. HIDE DEF ts
    <2>4. \A p \in Ops : /\ Logged(p) => Logged(p)'
                         /\ Logged(p)' => Logged(p) \/ p = o
                         /\ p = o => Logged(p)'
      BY <1>2, <2>1, <2>2, <2>3, ZenonT(60) DEF Logged, ts
    <2>5. \A p \in Ops : Durable(p) => Logged(p)
      BY Zenon DEF OperationsInv, OperationIsSound
    <2>6. \A p \in Ops : /\ Durable(p) => Durable(p)'
                         /\ Durable(p)' => Logged(p)
      BY <2>1, <2>5, Zenon DEF Durable, Logged
    <2>7. tomb' \in [Ops -> Tomb] /\ disk' \in [Ops -> Tomb]
      BY <2>1, <2>2, <2>3, ZenonT(60) DEF ts
    <2>8. LogGrows
      BY <1>2, <2>1, <2>2, <2>4, <2>6, <2>7, Zenon DEF LogGrows
    <2>9. LogIsSound'
      BY <1>1, <2>1, <2>2, <2>4, <2>6, Zenon DEF LogIsSound
    <2>10. PICK m \in Call : /\ call' = [call EXCEPT ![c] = m] /\ call'[c] = m /\ m.pc = "sync"
                             /\ m.op = o /\ m.digest = call[c].digest /\ m.result = call[c].result
      BY <1>3, <2>1, Zenon
    <2>11. CallIsSound(c)'
      BY <1>1, <2>4, <2>10, ZenonT(60) DEF CallIsSound
    <2>. QED  BY <1>1, <2>2, <2>8, <2>9, <2>10, <2>11, CallKeeps, ZenonT(60)
  <1>. QED  BY <1>6, <1>7, <1>8, Zenon

-----------------------------------------------------------------------------
(* Steps that change the book *)

\* An acknowledged terminal record is forgotten.
LEMMA ReleaseKeeps ==
  ASSUME OperationsInv, NEW c \in Callers, Release(c)
  PROVE  OperationsInv'
  <1>1. /\ UNCHANGED <<admits, task, permits, shutdown, tomb, disk, dirty, failures, pending>>
        /\ call[c].pc = "release" /\ CallIsSound(c) /\ TypeOK /\ LogIsSound
        /\ acked' \subseteq acked \cup {call[c].op} /\ Return(c)
    BY Zenon DEF Release, taskVars, bookVars, OperationsInv
  <1>2. PICK o \in Ops : o = call[c].op
    BY <1>1, Zenon DEF CallIsSound
  <1>3. /\ Logged(o) /\ (failures.restarts = 0 => Durable(o))
        /\ \A p \in Ops : Logged(p)' = Logged(p) /\ Durable(p)' = Durable(p)
    BY <1>1, <1>2, Zenon DEF CallIsSound, Logged, Durable
  <1>4. LogIsSound'
    BY <1>1, <1>2, <1>3, Zenon DEF LogIsSound, TypeOK
  <1>5. Idle \in Call /\ call' = [call EXCEPT ![c] = Idle] /\ CallIsSound(c)'
    BY <1>1, ReturnSound, Zenon
  <1>6. CASE UNCHANGED bookVars
    <2>1. LogGrows
      BY <1>1, <1>3, Zenon DEF LogGrows, TypeOK, OperationsInv, OperationIsSound
    <2>. QED  BY <1>1, <1>2, <1>4, <1>5, <1>6, <2>1, CallKeeps, ZenonT(60) DEF TypeOK, bookVars
  <1>7. CASE /\ book[o].state = "terminal" /\ book' = [book EXCEPT ![o] = NoEntry]
             /\ terminalBytes' = terminalBytes - book[o].bytes
    <2>1. /\ book[o].bytes \in Nat /\ book \in [Ops -> Entry] /\ terminalBytes \in Int
          /\ pending \in Nat /\ MaxBytes \in Nat /\ MaxRecords \in Nat
      BY <1>1, GuestAssumption DEF TypeOK, Entry
    <2>2. TypeOK'
      BY <1>1, <1>2, <1>5, <1>7, Records DEF TypeOK
    <2>3. \A p \in Ops : book'[p] = IF p = o THEN NoEntry ELSE book[p]
      BY <1>7, <2>1, Zenon
    <2>4. RetentionIsBounded'
      <3>1. Running' = Running /\ (Running \cup Terminal)' = (Running \cup Terminal) \ {o}
        BY <1>7, <2>3, Records, Zenon DEF Running, Terminal
      <3>2. o \in Running \cup Terminal /\ Running \cup Terminal \subseteq Ops
        BY <1>7, Zenon DEF Running, Terminal
      <3>3. /\ Cardinality(Running \cup Terminal) \in Nat
            /\ Cardinality((Running \cup Terminal) \ {o}) = Cardinality(Running \cup Terminal) - 1
        BY <3>2, Counting, Zenon
      <3>4. RetentionIsBounded
        BY Zenon DEF OperationsInv
      <3>5. pending' = Reserve * Cardinality(Running')
        BY <1>1, <3>1, <3>4, Zenon DEF RetentionIsBounded
      <3>6. pending + terminalBytes <= MaxBytes /\ Cardinality(Running \cup Terminal) <= MaxRecords
        BY <3>4, Zenon DEF RetentionIsBounded
      <3>7. pending' + terminalBytes' <= MaxBytes
        BY <1>1, <1>7, <2>1, <3>6
      <3>8. Cardinality((Running \cup Terminal)') <= MaxRecords
        <4>1. Cardinality((Running \cup Terminal)') = Cardinality((Running \cup Terminal) \ {o})
          BY <3>1, Zenon
        <4>. QED  BY <2>1, <3>3, <3>6, <4>1
      <3>. QED  BY <3>5, <3>7, <3>8, Zenon DEF RetentionIsBounded
    <2>5. permits' = Slots - Cardinality(Active')
      BY <1>1, ZenonT(60) DEF OperationsInv, Active
    <2>6. ASSUME NEW p \in Ops PROVE OperationIsSound(p)'
      BY <1>1, <1>3, <1>7, Records DEF OperationsInv, OperationIsSound
    <2>7. ASSUME NEW d \in Callers, d # c PROVE CallIsSound(d)'
      <3>1. CallIsSound(d) /\ call'[d] = call[d]
        BY <1>1, <1>5, <2>7, Zenon DEF OperationsInv, TypeOK
      <3>2. call[d].pc = "wait" => /\ call[d].op \in Ops /\ 0 < call[d].notify
                                   /\ book'[call[d].op].notify = call[d].notify
                                      => book'[call[d].op] = book[call[d].op]
        BY <2>3, <3>1, Records DEF CallIsSound
      <3>. QED  BY <1>1, <1>3, <3>1, <3>2, ZenonT(60) DEF CallIsSound
    <2>. QED  BY <1>4, <1>5, <2>2, <2>4, <2>5, <2>6, <2>7, Zenon DEF OperationsInv
  <1>. QED  BY <1>2, <1>6, <1>7, ZenonT(60) DEF Release

\* admit_operation: the record, its reservation and its task are new together.
LEMMA AdmitKeeps ==
  ASSUME OperationsInv, NEW c \in Callers, AdmitNew(c)
  PROVE  OperationsInv'
  <1>. DEFINE new(o) == [state |-> "running", digest |-> call[c].digest, bytes |-> Reserve,
                         token |-> FALSE, result |-> None, notify |-> admits[o] + 1]
  <1>1. /\ UNCHANGED <<terminalBytes, permits, shutdown, tomb, disk, dirty, acked, failures>>
        /\ call[c].pc = "validate" /\ CallIsSound(c) /\ TypeOK /\ LogIsSound /\ GoTo(c, "observe")
        /\ HasRoom /\ pending' = pending + Reserve
    BY Zenon DEF AdmitNew, ackVars, OperationsInv
  <1>2. PICK o \in Ops : o = call[c].op
    BY <1>1, Zenon DEF CallIsSound
  <1>3. /\ book[o].state = "none" /\ book' = [book EXCEPT ![o] = new(o)]
        /\ admits' = [admits EXCEPT ![o] = admits[o] + 1] /\ task' = [task EXCEPT ![o] = "queued"]
        /\ call[c].digest \in Digests /\ (~Logged(o) \/ Durable(o) \/ admits[o] > 0)
    BY <1>1, <1>2, ZenonT(60) DEF AdmitNew, CallIsSound
  <1>4. new(o) \in Entry /\ new(o).state = "running" /\ new(o).digest = call[c].digest
        /\ new(o).notify = admits[o] + 1
    <2>1. admits[o] \in Nat
      BY <1>1, Zenon DEF TypeOK
    <2>2. Reserve \in 0..Reserve /\ admits[o] + 1 \in Nat
      BY <2>1, GuestAssumption
    <2>. QED  BY <1>3, <2>2, Zenon DEF Entry
  <1>. HIDE DEF new
  <1>5. /\ \A p \in Ops : /\ book'[p] = IF p = o THEN new(o) ELSE book[p]
                          /\ admits'[p] = IF p = o THEN admits[o] + 1 ELSE admits[p]
                          /\ task'[p] = IF p = o THEN "queued" ELSE task[p]
                          /\ Logged(p)' = Logged(p) /\ Durable(p)' = Durable(p)
                          /\ OperationIsSound(p) /\ admits[p] \in Nat
        /\ task[o] = "none"
    BY <1>1, <1>3, ZenonT(60) DEF TypeOK, Logged, Durable, OperationsInv, OperationIsSound
  <1>6. PICK m \in Call : /\ call' = [call EXCEPT ![c] = m] /\ call'[c] = m /\ m.pc = "observe"
                          /\ m.op = o /\ m.digest = call[c].digest
    BY <1>1, <1>2, GoStep DEF Pcs
  <1>7. TypeOK'
    <2>1. book \in [Ops -> Entry] /\ admits \in [Ops -> Nat] /\ call \in [Callers -> Call]
      BY <1>1, ZenonT(60) DEF TypeOK
    <2>2. pending' \in Nat
      BY <1>1, GuestAssumption DEF TypeOK
    <2>3. admits' \in [Ops -> Nat]
      BY <1>3, <2>1
    <2>4. task' \in [Ops -> {"none", "queued", "running", "died"}]
      BY <1>1, <1>3, Zenon DEF TypeOK
    <2>5. book' \in [Ops -> Entry] /\ call' \in [Callers -> Call]
      BY <1>3, <1>4, <1>6, <2>1, Zenon
    <2>. QED  BY <1>1, <2>2, <2>3, <2>4, <2>5, Zenon DEF TypeOK
  <1>8. RetentionIsBounded'
    <2>1. /\ Running' = Running \cup {o} /\ (Running \cup Terminal)' = (Running \cup Terminal) \cup {o}
          /\ o \notin Running \cup Terminal
      BY <1>3, <1>4, <1>5, ZenonT(60) DEF Running, Terminal
    <2>2. Running \subseteq Ops /\ Running \cup Terminal \subseteq Ops
      BY ZenonT(60) DEF Running, Terminal
    <2>3. /\ Cardinality(Running \cup Terminal) \in Nat /\ Cardinality(Running) \in Nat
          /\ Cardinality(Running') = Cardinality(Running) + 1
          /\ Cardinality((Running \cup Terminal)') = Cardinality(Running \cup Terminal) + 1
      BY <2>1, <2>2, Counting, Zenon
    <2>4. /\ Reserve \in Nat /\ terminalBytes \in Int /\ pending \in Nat /\ MaxBytes \in Nat
          /\ MaxRecords \in Nat
      BY <1>1, GuestAssumption, Zenon DEF TypeOK
    <2>5. /\ pending = Reserve * Cardinality(Running) /\ Cardinality(Running \cup Terminal) < MaxRecords
          /\ terminalBytes + pending + Reserve <= MaxBytes
      BY <1>1, Zenon DEF OperationsInv, RetentionIsBounded, HasRoom
    <2>6. pending' = Reserve * Cardinality(Running')
      BY <1>1, <2>3, <2>4, <2>5
    <2>. QED  BY <1>1, <2>3, <2>4, <2>5 DEF RetentionIsBounded
  <1>9. permits' = Slots - Cardinality(Active')
    <2>1. Active' = Active
      BY <1>5, Zenon DEF Active
    <2>. QED  BY <1>1, <2>1, Zenon DEF OperationsInv
  <1>10. LogIsSound'
    BY <1>1, ZenonT(60) DEF LogIsSound, Logged, Durable
  <1>11. ASSUME NEW p \in Ops PROVE OperationIsSound(p)'
    BY <1>1, <1>3, <1>4, <1>5 DEF OperationIsSound
  <1>12. CallIsSound(c)'
    BY <1>2, <1>3, <1>6, Zenon DEF CallIsSound
  <1>13. ASSUME NEW d \in Callers, d # c PROVE CallIsSound(d)'
    <2>1. CallIsSound(d) /\ call'[d] = call[d] /\ call[d] \in Call
      BY <1>6, <1>13, Zenon DEF OperationsInv, TypeOK
    <2>2. call[d].pc # "idle" => call[d].op \in Ops
      BY <2>1, Zenon DEF CallIsSound
    <2>3. call[d].notify \in Nat
      BY <2>1, Zenon DEF Call
    <2>4. CASE call[d].op # o
      BY <1>1, <1>5, <2>1, <2>2, <2>4, Zenon DEF CallIsSound
    <2>5. CASE call[d].op = o
      <3>1. /\ admits'[o] # 0 /\ admits'[o] > 0
            /\ call[d].notify <= admits[o] => call[d].notify <= admits'[o]
        BY <1>5, <2>3
      <3>2. Logged(o) /\ ~Durable(o) => admits[o] # 0
        BY <1>3, <1>5
      <3>. QED  BY <1>1, <1>4, <1>5, <2>1, <2>5, <3>1, <3>2, ZenonT(60) DEF CallIsSound
    <2>. QED  BY <2>4, <2>5, Zenon
  <1>. QED  BY <1>7, <1>8, <1>9, <1>10, <1>11, <1>12, <1>13, Zenon DEF OperationsInv

-----------------------------------------------------------------------------
(* Steps of the tasks *)

\* The operations that a task's step leaves alone stay sound.
LEMMA OthersSound ==
  ASSUME OperationsInv, NEW o \in Ops, NEW p \in Ops, p # o, task'[p] = task[p], book'[p] = book[p],
         UNCHANGED <<admits, shutdown, tomb, disk, dirty>>
  PROVE  OperationIsSound(p)'
  BY Zenon DEF OperationsInv, OperationIsSound, Logged, Durable

\* A task takes a permit, gives it back, or leaves without one.
LEMMA TaskKeeps ==
  ASSUME OperationsInv, NEW o \in Ops, TaskStart(o) \/ TaskRefused(o) \/ TaskPanics(o)
  PROVE  OperationsInv'
  <1>1. /\ UNCHANGED <<book, pending, terminalBytes, admits, shutdown, tomb, disk, dirty, acked, call,
                       failures>>
        /\ TypeOK /\ LogIsSound /\ OperationIsSound(o)
    BY Zenon DEF TaskStart, TaskRefused, TaskPanics, bookVars, ackVars, OperationsInv
  <1>2. PICK s \in {"none", "running", "died"} :
          /\ task' = [task EXCEPT ![o] = s] /\ task[o] # "none"
          /\ s = "running" => shutdown = "no" /\ task[o] # "running" /\ permits' = permits - 1 /\ permits > 0
          /\ s = "none" => task[o] # "running" /\ permits' = permits
          /\ s = "died" => task[o] = "running" /\ permits' = permits + 1
    BY Zenon DEF TaskStart, TaskRefused, TaskPanics
  <1>3. \A p \in Ops : task'[p] = IF p = o THEN s ELSE task[p]
    BY <1>1, <1>2, Zenon DEF TypeOK
  <1>4. /\ Cardinality(Active) \in Nat /\ Cardinality(Active') \in Nat
        /\ s = "running" => Cardinality(Active') = Cardinality(Active) + 1
        /\ s = "none" => Cardinality(Active') = Cardinality(Active)
        /\ s = "died" => Cardinality(Active') = Cardinality(Active) - 1
    <2>1. Active \in SUBSET Ops /\ Active' \in SUBSET Ops
      BY Zenon DEF Active
    <2>2. /\ s = "running" => Active' = Active \cup {o} /\ o \notin Active
          /\ s = "none" => Active' = Active
          /\ s = "died" => Active' = Active \ {o} /\ o \in Active
      BY <1>2, <1>3, Zenon DEF Active
    <2>. QED  BY <2>1, <2>2, Counting, Zenon
  <1>5. permits' = Slots - Cardinality(Active') /\ permits' \in 0..Slots
    <2>1. permits = Slots - Cardinality(Active) /\ permits \in 0..Slots /\ Slots \in Nat
      BY GuestAssumption, Zenon DEF OperationsInv, TypeOK
    <2>. QED  BY <1>2, <1>4, <2>1
  <1>6. TypeOK'
    BY <1>1, <1>2, <1>5, Zenon DEF TypeOK
  <1>7. RetentionIsBounded'
    BY <1>1, CountsKept, Zenon DEF OperationsInv
  <1>8. LogIsSound'
    BY <1>1, Zenon DEF LogIsSound, Logged, Durable
  <1>9. OperationIsSound(o)'
    BY <1>1, <1>2, <1>3, ZenonT(60) DEF OperationIsSound, Logged, Durable
  <1>10. ASSUME NEW p \in Ops, p # o PROVE OperationIsSound(p)'
    BY <1>1, <1>3, <1>10, OthersSound, Zenon
  <1>11. ASSUME NEW d \in Callers PROVE CallIsSound(d)'
    BY <1>1, Zenon DEF OperationsInv, CallIsSound, Logged, Durable
  <1>. QED  BY <1>5, <1>6, <1>7, <1>8, <1>9, <1>10, <1>11, Zenon DEF OperationsInv

\* finish: the record gets its terminal result, and every waiter that has
\* registered itself at its Notify is woken.
LEMMA CompleteKeeps ==
  ASSUME OperationsInv, NEW o \in Ops, NEW t \in Terminals, NEW b \in 1..Reserve + 1,
         Complete(o, t, b), task[o] # "none", task' = [task EXCEPT ![o] = "none"],
         permits' = IF task[o] = "running" THEN permits + 1 ELSE permits,
         UNCHANGED <<admits, shutdown, ackVars, failures>>
  PROVE  OperationsInv'
  <1>. DEFINE size == IF b <= Reserve THEN b ELSE 1
              result == IF b <= Reserve THEN t ELSE "overflow"
              e == [book[o] EXCEPT !.state = "terminal", !.bytes = size, !.result = result]
  <1>1. /\ TypeOK /\ LogIsSound /\ OperationIsSound(o) /\ book[o].state = "running"
        /\ UNCHANGED <<admits, shutdown, tomb, disk, dirty, acked, failures>>
    BY Zenon DEF OperationsInv, OperationIsSound, ackVars
  <1>2. /\ book' = [book EXCEPT ![o].state = "terminal", ![o].bytes = size, ![o].result = result]
        /\ pending' = pending - Reserve /\ terminalBytes' = terminalBytes + size
        /\ call' = [c \in Callers |->
               IF call[c].pc \in {"check", "wait"} /\ call[c].op = o /\ call[c].notify = book[o].notify
               THEN [call[c] EXCEPT !.woken = TRUE] ELSE call[c]]
    BY <1>1, ZenonT(60) DEF Complete
  <1>3. /\ Reserve \in Nat /\ Reserve > 0 /\ size \in 0..Reserve /\ result \in Terminals
        /\ book \in [Ops -> Entry] /\ book[o] \in Entry
    BY <1>1, GuestAssumption DEF Terminals, TypeOK
  <1>. HIDE DEF size, result
  <1>4. /\ e \in Entry
    BY <1>3, Zenon DEF Entry
  <1>5. /\ e.state = "terminal" /\ e.notify = book[o].notify /\ e.digest = book[o].digest
        /\ e.token = book[o].token
    BY <1>3, Zenon DEF Entry
  <1>6. book' = [book EXCEPT ![o] = e]
    BY <1>2, Zenon
  <1>. HIDE DEF e
  <1>7. \A p \in Ops : /\ book'[p] = IF p = o THEN e ELSE book[p]
                       /\ task'[p] = IF p = o THEN "none" ELSE task[p]
                       /\ Logged(p)' = Logged(p) /\ Durable(p)' = Durable(p)
    BY <1>1, <1>6, Zenon DEF TypeOK, Logged, Durable
  <1>8. RetentionIsBounded'
    <2>1. /\ Running' = Running \ {o} /\ (Running \cup Terminal)' = Running \cup Terminal /\ o \in Running
      BY <1>1, <1>5, <1>7, Zenon DEF Running, Terminal
    <2>2. Running \in SUBSET Ops
      BY Zenon DEF Running
    <2>3. Cardinality(Running) \in Nat /\ Cardinality(Running') = Cardinality(Running) - 1
      BY <2>1, <2>2, Counting, Zenon
    <2>4. terminalBytes \in Int /\ pending \in Nat /\ MaxBytes \in Nat /\ size \in Nat /\ size <= Reserve
      BY <1>1, <1>3, GuestAssumption DEF TypeOK
    <2>5. RetentionIsBounded
      BY Zenon DEF OperationsInv
    <2>6. pending' = Reserve * Cardinality(Running')
      <3>1. pending = Reserve * Cardinality(Running)
        BY <2>5, Zenon DEF RetentionIsBounded
      <3>. QED  BY <1>2, <1>3, <2>3, <3>1
    <2>7. pending' + terminalBytes' <= MaxBytes
      <3>1. pending + terminalBytes <= MaxBytes
        BY <2>5, Zenon DEF RetentionIsBounded
      <3>. QED  BY <1>2, <1>3, <2>4, <3>1
    <2>8. Cardinality((Running \cup Terminal)') <= MaxRecords
      BY <2>1, <2>5, Zenon DEF RetentionIsBounded
    <2>. QED  BY <2>6, <2>7, <2>8, Zenon DEF RetentionIsBounded
  <1>9. pending' \in Nat
    <2>1. pending' = Reserve * Cardinality(Running')
      BY <1>8, ZenonT(60) DEF RetentionIsBounded
    <2>2. Cardinality(Running') \in Nat
      BY Counting, Zenon DEF Running
    <2>. QED  BY <1>3, <2>1, <2>2
  <1>10. permits' = Slots - Cardinality(Active') /\ permits' \in 0..Slots
    <2>1. permits = Slots - Cardinality(Active) /\ permits \in 0..Slots /\ Slots \in Nat
      BY GuestAssumption, Zenon DEF OperationsInv, TypeOK
    <2>2. Active \in SUBSET Ops /\ Active' = Active \ {o} /\ (o \in Active <=> task[o] = "running")
      BY <1>7 DEF Active
    <2>3. /\ Cardinality(Active) \in Nat /\ Cardinality(Active') \in Nat
          /\ Cardinality(Active') = IF task[o] = "running" THEN Cardinality(Active) - 1 ELSE Cardinality(Active)
      <3>1. task[o] # "running" => Active' = Active
        BY <2>2, Zenon
      <3>. QED  BY <2>2, <3>1, Counting, Zenon
    <2>. QED  BY <2>1, <2>3
  <1>11. call \in [Callers -> Call] /\ call' \in [Callers -> Call]
    <2>1. call \in [Callers -> Call]
      BY <1>1, Zenon DEF TypeOK
    <2>2. ASSUME NEW c \in Callers PROVE [call[c] EXCEPT !.woken = TRUE] \in Call
      BY <2>1, Zenon DEF Call
    <2>. QED  BY <1>2, <2>1, <2>2, Zenon
  <1>12. TypeOK'
    <2>1. book' \in [Ops -> Entry]
      BY <1>3, <1>4, <1>6, Zenon
    <2>2. terminalBytes' \in Int
      BY <1>1, <1>2, <1>3 DEF TypeOK
    <2>3. task' \in [Ops -> {"none", "queued", "running", "died"}]
      BY <1>1, Zenon DEF TypeOK
    <2>. QED  BY <1>1, <1>9, <1>10, <1>11, <2>1, <2>2, Zenon DEF TypeOK
  <1>13. LogIsSound'
    BY <1>1, ZenonT(60) DEF LogIsSound, Logged, Durable
  <1>14. OperationIsSound(o)'
    BY <1>1, <1>5, <1>7, Zenon DEF OperationIsSound
  <1>15. ASSUME NEW p \in Ops, p # o PROVE OperationIsSound(p)'
    BY <1>1, <1>7, <1>15, OthersSound, Zenon
  <1>16. ASSUME NEW c \in Callers PROVE CallIsSound(c)'
    <2>1. /\ call[c] \in Call /\ CallIsSound(c)
      BY <1>11, Zenon DEF OperationsInv
    <2>2. /\ call'[c].pc = call[c].pc /\ call'[c].op = call[c].op /\ call'[c].digest = call[c].digest
          /\ call'[c].result = call[c].result /\ call'[c].notify = call[c].notify
          /\ call[c].pc = "wait" /\ call[c].op = o /\ call[c].notify = book[o].notify => call'[c].woken
          /\ call[c].woken => call'[c].woken
      BY <1>2, <2>1, Zenon DEF Call
    <2>3. call[c].pc # "idle" => call[c].op \in Ops
      BY <2>1, Zenon DEF CallIsSound
    <2>4. call[c].pc = "wait" /\ ~call'[c].woken /\ call[c].notify = book'[call[c].op].notify
              => book'[call[c].op].state = "running"
      BY <1>5, <1>7, <2>1, <2>2, <2>3, Zenon DEF CallIsSound
    <2>. QED  BY <1>1, <1>7, <2>1, <2>2, <2>3, <2>4, Zenon DEF CallIsSound
  <1>. QED  BY <1>8, <1>10, <1>12, <1>13, <1>14, <1>15, <1>16, Zenon DEF OperationsInv

\* Results are terminals, and the supervisor's interruption is one.
LEMMA FinishKeeps ==
  ASSUME OperationsInv, NEW o \in Ops,
         Supervise(o) \/ \E t \in Results, b \in 1..Reserve + 1 : TaskFinish(o, t, b)
  PROVE  OperationsInv'
  <1>1. 1 \in 1..Reserve + 1 /\ "interrupted" \in Terminals /\ Results \subseteq Terminals
    BY GuestAssumption DEF Terminals
  <1>2. CASE Supervise(o)
    BY <1>1, <1>2, CompleteKeeps, Zenon DEF Supervise
  <1>3. ASSUME NEW t \in Results, NEW b \in 1..Reserve + 1, TaskFinish(o, t, b)
        PROVE  OperationsInv'
    BY <1>1, <1>3, CompleteKeeps, Zenon DEF TaskFinish
  <1>. QED  BY <1>2, <1>3, Zenon

-----------------------------------------------------------------------------
(* Cancellation, shutdown and restarts *)

\* Cancelling sets tokens and nothing else.
LEMMA CancelKeeps ==
  ASSUME OperationsInv, (\E o \in Ops : Cancel(o)) \/ ShutdownClose \/ ShutdownCancel
  PROVE  OperationsInv'
  <1>1. /\ UNCHANGED <<pending, terminalBytes, admits, task, permits, tomb, disk, dirty, acked, call,
                       failures>>
        /\ TypeOK /\ LogIsSound /\ book \in [Ops -> Entry]
    BY Zenon
    DEF Cancel, ShutdownClose, ShutdownCancel, bookVars, taskVars, ackVars, OperationsInv, TypeOK
  <1>2. \A p \in Ops : /\ [book[p] EXCEPT !.token = TRUE] \in Entry
                       /\ [book[p] EXCEPT !.token = TRUE].state = book[p].state
                       /\ [book[p] EXCEPT !.token = TRUE].digest = book[p].digest
                       /\ [book[p] EXCEPT !.token = TRUE].notify = book[p].notify
                       /\ [book[p] EXCEPT !.token = TRUE].token
    BY <1>1, Zenon DEF Entry
  <1>3. /\ book' \in [Ops -> Entry]
        /\ \A p \in Ops : \/ book'[p] = book[p]
                          \/ book[p].state # "none" /\ book'[p] = [book[p] EXCEPT !.token = TRUE]
    BY <1>1, <1>2, ZenonT(60) DEF Cancel, ShutdownClose, ShutdownCancel, bookVars
  <1>4. /\ shutdown' \in {"no", "closed", "cancelled"}
        /\ \/ shutdown' # "cancelled"
           \/ shutdown' = shutdown
           \/ \A p \in Ops : book[p].state # "none" => book'[p] = [book[p] EXCEPT !.token = TRUE]
    BY <1>1, Zenon DEF Cancel, ShutdownClose, ShutdownCancel, taskVars, TypeOK
  <1>5. \A p \in Ops : /\ book'[p].state = book[p].state /\ book'[p].notify = book[p].notify
                       /\ book'[p].digest = book[p].digest
                       /\ book[p].state = "none" => book'[p] = book[p]
                       /\ book[p].token => book'[p].token
    BY <1>2, <1>3, Zenon
  <1>6. TypeOK'
    BY <1>1, <1>3, <1>4, Zenon DEF TypeOK
  <1>7. RetentionIsBounded'
    BY <1>1, <1>5, CountsKept, Zenon DEF OperationsInv
  <1>8. permits' = Slots - Cardinality(Active')
    BY <1>1, Zenon DEF OperationsInv, Active
  <1>9. LogIsSound'
    BY <1>1, Zenon DEF LogIsSound, Logged, Durable
  <1>10. ASSUME NEW p \in Ops PROVE OperationIsSound(p)'
    <2>1. OperationIsSound(p)
      BY Zenon DEF OperationsInv
    <2>2. shutdown' = "cancelled" /\ task[p] = "running" => book'[p].token
      BY <1>2, <1>4, <1>5, <2>1, Zenon DEF OperationIsSound
    <2>. QED  BY <1>1, <1>5, <2>1, <2>2, Zenon DEF OperationIsSound, Logged, Durable
  <1>11. ASSUME NEW d \in Callers PROVE CallIsSound(d)'
    <2>1. CallIsSound(d)
      BY Zenon DEF OperationsInv
    <2>. QED  BY <1>1, <1>5, <2>1, Zenon DEF CallIsSound, Logged, Durable
  <1>. QED  BY <1>6, <1>7, <1>8, <1>9, <1>10, <1>11, Zenon DEF OperationsInv

\* A fresh process over a log whose disk holds no more than its index.
Fresh ==
    /\ book = [o \in Ops |-> NoEntry] /\ pending = 0 /\ terminalBytes = 0
    /\ admits = [o \in Ops |-> 0]
    /\ task = [o \in Ops |-> "none"] /\ permits = Slots /\ shutdown = "no"
    /\ call = [c \in Callers |-> Idle] /\ dirty = FALSE
    /\ tomb \in [Ops -> Tomb] /\ disk \in [Ops -> Tomb] /\ acked \subseteq Ops
    /\ failures \in [restarts : Nat, crashes : Nat, io : Nat]
    /\ LogIsSound /\ \A o \in Ops : Durable(o) => Logged(o)

\* A process that open has just started is sound.
LEMMA FreshSound == Fresh => OperationsInv
  <1>. SUFFICES ASSUME Fresh PROVE OperationsInv
    OBVIOUS
  <1>1. \A o \in Ops : book[o] = NoEntry /\ book[o].state = "none" /\ task[o] = "none" /\ admits[o] = 0
    BY Records, Zenon DEF Fresh
  <1>2. Running = {} /\ Terminal = {} /\ Active = {} /\ Cardinality({}) = 0 /\ {} \cup {} = {}
    BY <1>1, FS_EmptySet, Zenon DEF Running, Terminal, Active
  <1>3. Reserve \in Nat /\ MaxRecords \in Nat /\ MaxBytes \in Nat /\ Slots \in Nat
    BY GuestAssumption, Zenon
  <1>4. TypeOK
    <2>1. /\ book \in [Ops -> Entry] /\ admits \in [Ops -> Nat] /\ call \in [Callers -> Call]
          /\ task \in [Ops -> {"none", "queued", "running", "died"}]
      BY Records, Zenon DEF Fresh
    <2>2. pending \in Nat /\ terminalBytes \in Int /\ permits \in 0..Slots
      BY <1>3 DEF Fresh
    <2>3. dirty \in BOOLEAN /\ shutdown \in {"no", "closed", "cancelled"}
      BY Zenon DEF Fresh
    <2>. QED  BY <2>1, <2>2, <2>3, Zenon DEF TypeOK, Fresh
  <1>5. RetentionIsBounded
    BY <1>2, <1>3 DEF RetentionIsBounded, Fresh
  <1>6. permits = Slots - Cardinality(Active)
    BY <1>2, <1>3 DEF Fresh
  <1>7. ASSUME NEW o \in Ops PROVE OperationIsSound(o)
    BY <1>1 DEF OperationIsSound, Fresh
  <1>8. ASSUME NEW c \in Callers PROVE CallIsSound(c)
    BY Records, Zenon DEF CallIsSound, Fresh
  <1>. QED  BY <1>4, <1>5, <1>6, <1>7, <1>8, Zenon DEF OperationsInv, Fresh

\* open starts from the log: as it was written, or as it reached the disk.
LEMMA ResetKeeps ==
  ASSUME OperationsInv, Restart \/ Crash
  PROVE  OperationsInv'
  <1>1. /\ tomb \in [Ops -> Tomb] /\ disk \in [Ops -> Tomb] /\ acked' = acked /\ acked \subseteq Ops
        /\ failures \in [restarts : Nat, crashes : Nat, io : Nat] /\ LogIsSound /\ Reset
        /\ dirty' = FALSE
    BY Zenon DEF OperationsInv, TypeOK, Restart, Crash, Reset
  <1>2. \A o \in Ops : Durable(o) => Logged(o)
    BY Zenon DEF OperationsInv, OperationIsSound
  <1>3. /\ tomb' \in [Ops -> Tomb] /\ disk' \in [Ops -> Tomb]
        /\ \A o \in Ops : (Durable(o) => Durable(o)') /\ (Durable(o)' => Logged(o)')
    BY <1>1, <1>2, Zenon DEF Restart, Crash, Logged, Durable
  <1>4. failures' \in [restarts : Nat, crashes : Nat, io : Nat]
    BY <1>1 DEF Restart, Crash
  <1>5. LogIsSound'
    <2>1. CASE Restart
      <3>1. /\ failures'.restarts # 0 /\ failures'.crashes = failures.crashes
            /\ \A o \in Ops : Logged(o)' = Logged(o)
        BY <1>1, <2>1 DEF Restart, Logged
      <3>. QED  BY <1>1, <3>1, Zenon DEF LogIsSound
    <2>2. CASE Crash
      <3>1. failures'.crashes # 0 /\ failures'.restarts = failures.restarts /\ disk' = tomb'
        BY <1>1, <2>2 DEF Crash
      <3>. QED  BY <1>1, <1>3, <3>1, Zenon DEF LogIsSound
    <2>. QED  BY <2>1, <2>2, Zenon
  <1>6. Fresh'
    BY <1>1, <1>3, <1>4, <1>5, Zenon DEF Fresh, Reset
  <1>. QED  BY <1>6, FreshSound, PTL

-----------------------------------------------------------------------------
(* The theorems *)

\* A step of one call.
LEMMA CallStep ==
  ASSUME OperationsInv, NEW c \in Callers, Start(c) \/ AckSyncFails(c) \/ Continue(c)
  PROVE  OperationsInv'
  <1>1. CASE Start(c)
    BY <1>1, LookingKeeps, AcknowledgeKeeps, Zenon DEF Start
  <1>2. CASE AckSyncFails(c) \/ RetainFails(c)
    BY <1>2, AckFailsKeeps, Zenon
  <1>3. CASE AdmitNew(c) \/ Release(c)
    BY <1>3, AdmitKeeps, ReleaseKeeps, Zenon
  <1>4. CASE RetainReplay(c) \/ RetainWrite(c) \/ RetainSync(c)
    BY <1>4, RetainKeeps, Zenon
  <1>5. CASE \/ ValidateFails(c) \/ AdmitExisting(c) \/ AdmitRefused(c)
             \/ ObserveLookup(c) \/ ObserveEnable(c) \/ ObserveCheck(c) \/ ObserveWait(c)
             \/ ObserveRead(c) \/ AckValidate(c)
    BY <1>5, LookingKeeps, Zenon
  <1>. QED  BY <1>1, <1>2, <1>3, <1>4, <1>5, Zenon DEF Continue

\* Every step of the guest keeps the inductive invariant.
LEMMA OperationsStep == OperationsInv /\ [Next]_vars => OperationsInv'
  <1>. SUFFICES ASSUME OperationsInv, [Next]_vars PROVE OperationsInv'
    OBVIOUS
  <1>1. ASSUME NEW c \in Callers, Start(c) \/ AckSyncFails(c) \/ Continue(c)
        PROVE  OperationsInv'
    BY <1>1, CallStep, Zenon
  <1>2. ASSUME NEW o \in Ops, Execute(o)
        PROVE  OperationsInv'
    <2>1. CASE TaskStart(o) \/ TaskRefused(o) \/ TaskPanics(o)
      BY <2>1, TaskKeeps, Zenon
    <2>2. CASE Supervise(o) \/ \E t \in Results, b \in 1..Reserve + 1 : TaskFinish(o, t, b)
      BY <2>2, FinishKeeps, Zenon
    <2>. QED  BY <1>2, <2>1, <2>2, Zenon DEF Execute
  <1>3. CASE (\E o \in Ops : Cancel(o)) \/ ShutdownClose \/ ShutdownCancel
    BY <1>3, CancelKeeps, Zenon
  <1>4. CASE Restart \/ Crash
    BY <1>4, ResetKeeps, Zenon
  <1>5. CASE UNCHANGED vars
    BY <1>5, ZenonT(60)
    DEF vars, OperationsInv, TypeOK, RetentionIsBounded, Running, Terminal, Active, LogIsSound,
        OperationIsSound, CallIsSound, Logged, Durable
  <1>. QED  BY <1>1, <1>2, <1>3, <1>4, <1>5, Zenon DEF Next

\* The invariant holds from the first start of the guest on.
LEMMA OperationsAlways == Spec => []OperationsInv
  <1>1. Init => OperationsInv
    <2>. SUFFICES ASSUME Init PROVE Fresh
      BY FreshSound, Zenon
    <2>1. failures \in [restarts : Nat, crashes : Nat, io : Nat]
      BY Zenon DEF Init
    <2>2. tomb \in [Ops -> Tomb] /\ disk = tomb /\ acked = {}
      BY Records, Zenon DEF Init, Started
    <2>3. LogIsSound /\ \A o \in Ops : Durable(o) => Logged(o)
      BY <2>2, Zenon DEF LogIsSound, Durable, Logged
    <2>. QED  BY <2>1, <2>2, <2>3, Zenon DEF Init, Started, Fresh
  <1>. QED  BY <1>1, OperationsStep, PTL DEF Spec

\* admit_operation and the supervisor of spawn_execution never execute an
\* unacknowledged operation twice, and no execution escapes shutdown.
THEOREM ExecutionStaysControlled == Spec => []ExecutionIsControlled
  <1>1. OperationsInv => ExecutionIsControlled
    <2>. SUFFICES ASSUME OperationsInv PROVE ExecutionIsControlled
      OBVIOUS
    <2>1. TypeOK
      BY Zenon DEF OperationsInv
    <2>2. ExecutesOnce
      BY Zenon DEF ExecutesOnce, OperationsInv, OperationIsSound, Logged
    <2>3. ShutdownReachesAll
      BY Zenon DEF ShutdownReachesAll, OperationsInv, OperationIsSound
    <2>. QED  BY <2>1, <2>2, <2>3, Zenon DEF ExecutionIsControlled
  <1>. QED  BY <1>1, OperationsAlways, PTL

\* observe_inner enables its Notified before it looks at the state again, so
\* that finish wakes every waiter that would otherwise sleep.
THEOREM WakeupNotLost == Spec => []NoLostWakeup
  <1>1. OperationsInv => NoLostWakeup
    BY Zenon DEF OperationsInv, CallIsSound, NoLostWakeup
  <1>. QED  BY <1>1, OperationsAlways, PTL

\* OperationRegistry's reservations: records and bytes stay within their limits.
THEOREM RetentionStaysBounded == Spec => []RetentionIsBounded
  <1>1. OperationsInv => RetentionIsBounded
    BY Zenon DEF OperationsInv
  <1>. QED  BY <1>1, OperationsAlways, PTL

\* Only a release makes the running guest forget a terminal record.
LEMMA OnlyReleaseForgets ==
  ASSUME OperationsInv, Next, NEW o \in Ops, book[o].state = "terminal", book'[o].state = "none",
         UNCHANGED failures
  PROVE  \E c \in Callers : Release(c)
  <1>. SUFFICES ASSUME ~\E c \in Callers : Release(c) PROVE FALSE
    BY Zenon
  <1>1. book \in [Ops -> Entry] /\ failures \in [restarts : Nat, crashes : Nat, io : Nat]
    BY Zenon DEF OperationsInv, TypeOK
  <1>2. CASE UNCHANGED book
    BY <1>2, Zenon
  <1>3. ASSUME NEW c \in Callers, AdmitNew(c) PROVE FALSE
    <2>1. PICK p \in Ops : /\ p = call[c].op /\ book[p].state = "none"
      BY <1>3, ZenonT(60) DEF AdmitNew, OperationsInv, CallIsSound
    <2>2. book'[o] = book[o]
      BY <1>1, <1>3, <2>1, ZenonT(60) DEF AdmitNew
    <2>. QED  BY <2>2, Zenon
  <1>4. ASSUME NEW p \in Ops, NEW t, NEW b, Complete(p, t, b) PROVE FALSE
    <2>1. CASE o = p
      BY <1>4, <2>1, Zenon DEF Complete, bookVars
    <2>2. CASE o # p
      <3>1. book'[o] = book[o]
        BY <1>1, <1>4, <2>2, Zenon DEF Complete, bookVars
      <3>. QED  BY <3>1, Zenon
    <2>. QED  BY <2>1, <2>2, Zenon
  <1>5. ASSUME (\E p \in Ops : Cancel(p)) \/ ShutdownCancel PROVE FALSE
    <2>1. book'[o] = book[o] \/ book'[o] = [book[o] EXCEPT !.token = TRUE]
      BY <1>1, <1>5, Zenon DEF Cancel, ShutdownCancel
    <2>2. [book[o] EXCEPT !.token = TRUE].state = book[o].state
      BY <1>1, Zenon DEF Entry
    <2>. QED  BY <2>1, <2>2, Zenon
  <1>6. ASSUME Restart \/ Crash PROVE FALSE
    BY <1>1, <1>6 DEF Restart, Crash
  <1>7. ASSUME NEW c \in Callers, Start(c) \/ AckSyncFails(c) \/ Continue(c) PROVE FALSE
    <2>1. CASE Start(c) \/ AckSyncFails(c)
      BY <2>1, ZenonT(60) DEF Start, AckSyncFails, Submit, Observe, Acknowledge, bookVars
    <2>2. CASE Continue(c)
      BY <1>2, <1>3, <2>2, Zenon
      DEF Continue, ValidateFails, AdmitExisting, AdmitRefused, ObserveLookup, ObserveEnable,
          ObserveCheck, ObserveWait, ObserveRead, AckValidate, RetainReplay, RetainFails,
          RetainWrite, RetainSync, bookVars
    <2>. QED  BY <1>7, <2>1, <2>2, Zenon
  <1>8. ASSUME NEW p \in Ops, Execute(p) PROVE FALSE
    BY <1>4, <1>8, Zenon
    DEF Execute, TaskStart, TaskRefused, TaskPanics, Supervise, TaskFinish, bookVars
  <1>9. CASE ShutdownClose
    BY <1>2, <1>9, Zenon DEF ShutdownClose, bookVars
  <1>. QED  BY <1>5, <1>6, <1>7, <1>8, <1>9, Zenon DEF Next

\* What the running guest forgets is on disk.
LEMMA ForgetsDurable ==
  ASSUME OperationsInv, Next, NEW o \in Ops, book[o].state = "terminal", book'[o].state = "none",
         UNCHANGED failures
  PROVE  disk[o] # NoTomb
  <1>1. PICK c \in Callers : Release(c)
    BY OnlyReleaseForgets, ZenonT(60)
  <1>2. CallIsSound(c) /\ call[c].pc = "release" /\ OperationIsSound(o) /\ book \in [Ops -> Entry]
    BY <1>1, Zenon DEF Release, OperationsInv, TypeOK
  <1>3. o = call[c].op
    BY <1>1, <1>2, ZenonT(60) DEF Release, bookVars
  <1>4. admits[o] > 0 /\ admits[o] \in Nat
    BY Zenon DEF OperationIsSound, OperationsInv, TypeOK
  <1>. QED  BY <1>2, <1>3, <1>4 DEF CallIsSound, Durable

\* release_acknowledged_terminal: a result is forgotten only when its tombstone
\* is on disk, and an acknowledgement that succeeded stays in force.
THEOREM ReleaseIsDurable == Spec => ReleasedOnlyWhenDurable
  <1>1. OperationsInv => AckSurvives
    <2>. SUFFICES ASSUME OperationsInv PROVE AckSurvives
      OBVIOUS
    <2>1. acked \subseteq Ops /\ LogIsSound /\ \A o \in Ops : Durable(o) => Logged(o)
      BY Zenon DEF OperationsInv, TypeOK, OperationIsSound
    <2>. QED  BY <2>1, Zenon DEF LogIsSound, AckSurvives, Logged
  <1>. DEFINE Forgets == \A o \in Ops : /\ book[o].state = "terminal" /\ book'[o].state = "none"
                                        /\ UNCHANGED failures
                                        => disk[o] # NoTomb
  <1>2. OperationsInv /\ [Next]_vars => [Forgets]_vars
    BY ForgetsDurable, Zenon
  <1>3. Spec => []AckSurvives
    BY <1>1, OperationsAlways, PTL
  <1>4. Spec => [][Forgets]_vars
    BY <1>2, OperationsAlways, PTL DEF Spec
  <1>. QED  BY <1>3, <1>4, Zenon DEF ReleasedOnlyWhenDurable
=============================================================================
