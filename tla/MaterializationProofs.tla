----------------------- MODULE MaterializationProofs ------------------------
(***************************************************************************)
(* Proofs about Materialization for every choice of its constants: types,  *)
(* the capacity counter, tombstones, and the fence of its invariant, which *)
(* is why no microVM is ever without a charged row; and about the pacing   *)
(* of its launches.                                                        *)
(***************************************************************************)
EXTENDS MaterializationInvariant, FiniteSetTheorems, Sequences, TLAPS

TypeInv == TypeOK /\ IdsAreSet

\* A call that has returned is a well-typed call that holds no lease.
LEMMA IdleType ==
  /\ Idle \in Call
  /\ Idle.pc = "idle" /\ Idle.id = NoId /\ Idle.attempt = NoId
  <1>1. (CHOOSE k \in Keys : TRUE) \in Keys
    BY KeyAssumption, Zenon
  <1>. QED  BY <1>1, Zenon DEF Idle, Holding, Call

\* The empty row of the table and the empty and dead slots of the provider are
\* well typed.
LEMMA RecordTypes ==
  /\ NoRow \in Row /\ NoRow.state = "none" /\ NoRow.id = NoId /\ NoRow.attempt = NoId
  /\ DeadVm \in Vm /\ DeadVm.state = "dead"
  /\ NoVm \in Vm /\ NoVm.state = "none"
  BY Zenon DEF NoRow, Row, DeadVm, NoVm, Vm

(* How the helpers change the state of one call. *)

OthersKeep(c) == \A d \in Callers : d # c => caller'[d] = caller[d]

\* What a call is when it returns to Brain, and that no other call notices.
LEMMA ReturnStep ==
  ASSUME TypeOK, NEW c \in Callers, Return(c)
  PROVE  caller' \in [Callers -> Call] /\ caller'[c] = Idle /\ OthersKeep(c)
  BY IdleType, Zenon DEF TypeOK, Return, OthersKeep

\* ensure keeps its whole lease when it goes on from acquire to launch.
LEMMA GoToLaunchStep ==
  ASSUME TypeOK, NEW c \in Callers, GoTo(c, "launch")
  PROVE  /\ caller' \in [Callers -> Call] /\ OthersKeep(c)
         /\ caller'[c] = [caller[c] EXCEPT !.pc = "launch"]
  BY DEF TypeOK, GoTo, OthersKeep, Call

\* A call that goes on with a physical target keeps its key, identifier and
\* generation and forgets its attempt.
LEMMA HoldStep ==
  ASSUME TypeOK, NEW c \in Callers,
         NEW pc \in {"install", "cleanup", "confirm", "mark", "purge_terminal"},
         Hold(c, pc)
  PROVE  /\ caller' \in [Callers -> Call] /\ OthersKeep(c)
         /\ caller'[c].pc = pc /\ caller'[c].op = caller[c].op
         /\ caller'[c].key = caller[c].key /\ caller'[c].id = caller[c].id
         /\ caller'[c].gen = caller[c].gen /\ caller'[c].attempt = NoId
  BY Zenon DEF TypeOK, Hold, Holding, OthersKeep, Call

\* A call that goes on to expire_lease keeps its key, identifier, generation and
\* attempt.
LEMMA RefundStep ==
  ASSUME TypeOK, NEW c \in Callers, Refund(c)
  PROVE  /\ caller' \in [Callers -> Call] /\ OthersKeep(c)
         /\ caller'[c].pc = "refund" /\ caller'[c].op = caller[c].op
         /\ caller'[c].key = caller[c].key /\ caller'[c].id = caller[c].id
         /\ caller'[c].gen = caller[c].gen /\ caller'[c].attempt = caller[c].attempt
  BY Zenon DEF TypeOK, Refund, Holding, OthersKeep, Call

\* A call that goes on with a row it has read holds the identifiers of that row.
LEMMA HoldRowStep ==
  ASSUME TypeOK, NEW c \in Callers, NEW k \in Keys,
         NEW pc \in {"confirm", "purge_terminal"},
         NEW op \in {"lost", "terminate", "purge"},
         HoldRow(c, pc, op, k)
  PROVE  /\ caller' \in [Callers -> Call] /\ OthersKeep(c)
         /\ caller'[c].pc = pc /\ caller'[c].op = op
         /\ caller'[c].key = k /\ caller'[c].id = row[k].id
         /\ caller'[c].gen = row[k].gen /\ caller'[c].attempt = NoId
  BY Zenon DEF TypeOK, HoldRow, Holding, OthersKeep, Call, Row

-----------------------------------------------------------------------------
(* The fence *)

Shapes ==
    /\ clock \in Nat
    /\ \A k \in Keys : row[k].start \in Nat
    /\ \A d \in Callers : /\ caller[d].key \in Keys /\ caller[d].start \in Nat
                          /\ caller[d].until \in Nat /\ caller[d].id \in Ids \cup {NoId}
    /\ \A i \in Ids : vm[i].dies \in Nat
    /\ \A run \in late : run.key \in Keys /\ run.id \in Ids /\ run.until \in Nat

\* What the types say of the fields the fence looks at.
LEMMA ShapesHold == TypeInv => Shapes
  BY Zenon DEF TypeInv, TypeOK, Shapes, Row, Call, Vm

\* The provider only moves microVMs towards their end.
VmFades ==
    \A i \in Ids : \/ vm'[i] = vm[i]
                   \/ /\ Alive(i)
                      /\ \/ vm'[i].state = "dead"
                         \/ vm'[i].state = "terminating" /\ vm'[i].dies = vm[i].dies

\* A call that returns gives up what it knew.
LEMMA ReturnKeeps ==
  ASSUME TypeInv, FenceInv, NEW c \in Callers, caller'[c] = Idle, OthersKeep(c),
         UNCHANGED <<clock, row, late>>, VmFades
  PROVE  FenceInv'
  <1>s. Shapes /\ NoId \notin Ids
    BY ShapesHold, IdAssumption, Zenon
  <1>i. caller'[c].pc = "idle" /\ caller'[c].id = NoId /\ caller'[c].attempt = NoId
    BY IdleType, Zenon
  <1>1. OneOwner'
    BY <1>s, <1>i DEF FenceInv, OneOwner, OthersKeep, Shapes
  <1>2. UnsharedRequest'
    BY <1>s, <1>i
    DEF FenceInv, UnsharedRequest, Unshared, OthersKeep, VmFades, Alive, TypeInv, IdsAreSet
  <1>3. LaunchesAreReserved'
    BY <1>s, <1>i
    DEF FenceInv, LaunchesAreReserved, OthersKeep, VmFades, MayRun, Reserves, LastRun, Shapes,
        TypeInv, IdsAreSet
  <1>4. LiveWithinLease'
    BY <1>s, <1>i, Zenon
    DEF FenceInv, LiveWithinLease, VmFades, Alive, Reserves, Charged, LeaseExpires
  <1>5. RefundsAreSafe'
    BY <1>i
    DEF FenceInv, RefundsAreSafe, MayRefund, SafeToRefund, OthersKeep, VmFades, Alive, MayRun,
        NoOtherRun, Reserves, OwnsAttempt, TypeInv, IdsAreSet
  <1>6. ListedLeaseIsCurrent'
    BY <1>i, Zenon DEF FenceInv, ListedLeaseIsCurrent, OthersKeep, OwnsAttempt, Reserves
  <1>7. TargetsExist'
    BY <1>i
    DEF FenceInv, TargetsExist, OthersKeep, VmFades, Alive, Installed, TypeInv, IdsAreSet, Charged
  <1>. QED  BY <1>1, <1>2, <1>3, <1>4, <1>5, <1>6, <1>7, Zenon DEF FenceInv

\* A call that only has a tombstone left to purge needs nothing else.
LEMMA SettleKeeps ==
  ASSUME TypeInv, FenceInv, NEW c \in Callers, OthersKeep(c),
         UNCHANGED <<clock, row, vm, late>>,
         caller'[c].pc \in {"idle", "purge_terminal"}, caller'[c].attempt = NoId,
         \/ caller'[c].id = NoId
         \/ /\ caller'[c].id = caller[c].id /\ caller'[c].key = caller[c].key
            /\ caller'[c].gen = caller[c].gen
  PROVE  FenceInv'
  <1>s. Shapes /\ NoId \notin Ids
    BY ShapesHold, IdAssumption, Zenon
  <1>1. OneOwner'
    BY <1>s DEF FenceInv, OneOwner, OthersKeep, Shapes
  <1>2. UnsharedRequest'
    BY <1>s DEF FenceInv, UnsharedRequest, Unshared, OthersKeep, TypeInv, IdsAreSet
  <1>3. LaunchesAreReserved'
    BY DEF FenceInv, LaunchesAreReserved, OthersKeep, MayRun, Reserves, LastRun
  <1>4. LiveWithinLease'
    BY <1>s, Zenon DEF FenceInv, LiveWithinLease, VmFades, Alive, Reserves, Charged, LeaseExpires
  <1>5. RefundsAreSafe'
    BY DEF FenceInv, RefundsAreSafe, MayRefund, SafeToRefund, OthersKeep, Alive, MayRun, NoOtherRun,
       Reserves, OwnsAttempt
  <1>6. ListedLeaseIsCurrent'
    BY ZenonT(60) DEF FenceInv, ListedLeaseIsCurrent, OthersKeep, OwnsAttempt, Reserves
  <1>7. TargetsExist'
    BY Zenon
    DEF FenceInv, TargetsExist, OthersKeep, VmFades, Alive, Installed, TypeInv, IdsAreSet, Charged
  <1>. QED  BY <1>1, <1>2, <1>3, <1>4, <1>5, <1>6, <1>7, Zenon DEF FenceInv

\* A call that goes on with the target it knows, to clean up, to close it or to
\* refund it, when it knows what that takes.
LEMMA MoveKeeps ==
  ASSUME TypeInv, FenceInv, NEW c \in Callers, OthersKeep(c),
         UNCHANGED <<clock, row, late>>, VmFades,
         caller[c].pc \notin {"idle", "purge_terminal"},
         caller'[c].pc \in {"refund", "cleanup", "confirm", "mark"},
         caller'[c].key = caller[c].key, caller'[c].id = caller[c].id,
         caller'[c].gen = caller[c].gen,
         IF caller'[c].pc = "refund"
         THEN /\ caller'[c].attempt = caller[c].attempt
              /\ OwnsAttempt(c) => SafeToRefund(c, caller[c].id)
         ELSE caller'[c].attempt = NoId /\ vm[caller[c].id].state # "none",
         caller'[c].pc \in {"cleanup", "mark"} => ~Alive(caller[c].id)'
  PROVE  FenceInv'
  <1>s. Shapes /\ NoId \notin Ids
    BY ShapesHold, IdAssumption, Zenon
  <1>1. OneOwner'
    BY DEF FenceInv, OneOwner, OthersKeep
  <1>2. UnsharedRequest'
    BY <1>s DEF FenceInv, UnsharedRequest, Unshared, OthersKeep, VmFades, Alive, TypeInv, IdsAreSet
  <1>3. LaunchesAreReserved'
    BY <1>s
    DEF FenceInv, LaunchesAreReserved, OthersKeep, VmFades, MayRun, Reserves, LastRun, Shapes,
        TypeInv, IdsAreSet
  <1>4. LiveWithinLease'
    BY Zenon DEF FenceInv, LiveWithinLease, VmFades, Alive, Reserves, Charged
  <1>5. RefundsAreSafe'
    BY DEF FenceInv, RefundsAreSafe, MayRefund, SafeToRefund, OthersKeep, VmFades, Alive, MayRun,
       NoOtherRun, Reserves, OwnsAttempt, TypeInv, IdsAreSet
  <1>6. ListedLeaseIsCurrent'
    BY ZenonT(60) DEF FenceInv, ListedLeaseIsCurrent, OthersKeep, OwnsAttempt, Reserves
  <1>7. TargetsExist'
    BY DEF FenceInv, TargetsExist, OthersKeep, VmFades, Alive, Installed, TypeInv, IdsAreSet,
       Charged
  <1>. QED  BY <1>1, <1>2, <1>3, <1>4, <1>5, <1>6, <1>7, Zenon DEF FenceInv

\* A call that reads an installed, closed or reserved row and goes on with it.
LEMMA HoldRowKeeps ==
  ASSUME TypeInv, FenceInv, NEW c \in Callers, NEW k \in Keys, OthersKeep(c),
         UNCHANGED <<clock, row, vm, late>>,
         caller'[c].key = k, caller'[c].id = row[k].id, caller'[c].gen = row[k].gen,
         \/ caller'[c].pc = "confirm" /\ Installed(row[k]) /\ caller'[c].attempt = NoId
         \/ caller'[c].pc = "purge_terminal" /\ caller'[c].attempt = NoId
         \/ /\ caller'[c].pc = "listed" /\ caller'[c].op = "purge"
            /\ row[k].state = "materializing"
            /\ caller'[c].attempt = row[k].attempt /\ caller'[c].start = row[k].start
  PROVE  FenceInv'
  <1>s. Shapes /\ NoId \notin Ids
    BY ShapesHold, IdAssumption, Zenon
  <1>1. OneOwner'
    BY DEF FenceInv, OneOwner, OthersKeep
  <1>2. UnsharedRequest'
    BY <1>s DEF FenceInv, UnsharedRequest, Unshared, OthersKeep
  <1>3. LaunchesAreReserved'
    BY DEF FenceInv, LaunchesAreReserved, OthersKeep, MayRun, Reserves, LastRun
  <1>4. LiveWithinLease'
    BY <1>s, Zenon DEF FenceInv, LiveWithinLease, VmFades, Alive, Reserves, Charged, LeaseExpires
  <1>5. RefundsAreSafe'
    BY DEF FenceInv, RefundsAreSafe, MayRefund, SafeToRefund, OthersKeep, Alive, MayRun, NoOtherRun,
       Reserves, OwnsAttempt
  <1>6. ListedLeaseIsCurrent'
    BY ZenonT(60) DEF FenceInv, ListedLeaseIsCurrent, OthersKeep, OwnsAttempt, Reserves
  <1>7. TargetsExist'
    BY ZenonT(60) DEF FenceInv, TargetsExist, OthersKeep, Alive
  <1>. QED  BY <1>1, <1>2, <1>3, <1>4, <1>5, <1>6, <1>7, Zenon DEF FenceInv

\* A row that is deleted or closed when its microVM is gone and nobody can
\* create it any more.
LEMMA ClearKeeps ==
  ASSUME TypeInv, FenceInv, NEW c \in Callers, NEW k \in Keys, OthersKeep(c),
         UNCHANGED <<clock, vm, late>>,
         row'[k].state \notin {"materializing", "installed"},
         row'[k].id = NoId, row'[k].attempt = NoId, row'[k].start \in Nat,
         \A l \in Keys \ {k} : row'[l] = row[l],
         caller'[c].pc \in {"idle", "purge_terminal"}, caller'[c].attempt = NoId,
         \/ caller'[c].id = NoId
         \/ /\ caller'[c].id = caller[c].id /\ caller'[c].key = caller[c].key
            /\ caller'[c].gen = caller[c].gen,
         Charged(k) => ~Alive(row[k].id),
         Reserves(k, row[k].id) /\ vm[row[k].id].state = "none" => NoOtherRun(c, row[k].id)
  PROVE  FenceInv'
  <1>s. Shapes /\ NoId \notin Ids
    BY ShapesHold, IdAssumption, Zenon
  <1>1. OneOwner'
    BY <1>s DEF FenceInv, OneOwner, OthersKeep, Shapes
  <1>2. UnsharedRequest'
    BY <1>s DEF FenceInv, UnsharedRequest, Unshared, OthersKeep, TypeInv, IdsAreSet
  <1>3. LaunchesAreReserved'
    BY <1>s
    DEF FenceInv, LaunchesAreReserved, OthersKeep, MayRun, Reserves, LastRun, Shapes, NoOtherRun
  <1>4. LiveWithinLease'
    BY DEF FenceInv, LiveWithinLease, Alive, Reserves, Charged
  <1>5. RefundsAreSafe'
    BY <1>s
    DEF FenceInv, RefundsAreSafe, MayRefund, SafeToRefund, OthersKeep, Alive, MayRun, NoOtherRun,
        Reserves, OwnsAttempt, Shapes
  <1>6. ListedLeaseIsCurrent'
    BY <1>s DEF FenceInv, ListedLeaseIsCurrent, OthersKeep, OwnsAttempt, Reserves, Shapes
  <1>7. TargetsExist'
    BY Zenon DEF FenceInv, TargetsExist, OthersKeep, Alive, Installed
  <1>. QED  BY <1>1, <1>2, <1>3, <1>4, <1>5, <1>6, <1>7, Zenon DEF FenceInv

\* Nobody can create a microVM for the row of k any more.
NoLaunch(c, k) ==
    /\ \A d \in Callers \ {c} : caller[d].key = k /\ MayRun(d, caller[d].id)
                                    => vm[caller[d].id].state # "none"
    /\ \A run \in late : run.key = k => vm[run.id].state # "none"

\* Once the lease of a reservation is over, the microVM it may have started is
\* gone, and every launch it admitted has had its effect or never will.
LEMMA LeaseOver ==
  ASSUME TypeInv, FenceInv, NEW c \in Callers, NEW k \in Keys,
         row[k].state = "materializing", LeaseExpires(row[k]) <= clock
  PROVE  ~Alive(row[k].id) /\ NoLaunch(c, k)
  <1>s. Shapes /\ NoId \notin Ids
    BY ShapesHold, IdAssumption, Zenon
  <1>t. /\ DispatchMs \in Nat /\ TransitMs \in Nat /\ LifetimeMs \in Nat \ {0} /\ LeaseMs \in Nat
        /\ DispatchMs + TransitMs + LifetimeMs <= LeaseMs
    BY TimeAssumption, LeaseCoversLaunch, Zenon
  <1>i. row[k].id \in Ids
    BY Zenon DEF TypeInv, IdsAreSet, Charged
  <1>1. ~Alive(row[k].id)
    BY <1>s, <1>t, <1>i DEF FenceInv, OneOwner, LiveWithinLease, Reserves, LeaseExpires, Shapes
  <1>2. ASSUME NEW d \in Callers, caller[d].key = k, MayRun(d, caller[d].id)
        PROVE  vm[caller[d].id].state # "none"
    BY <1>s, <1>t, <1>2
    DEF FenceInv, LaunchesAreReserved, MayRun, LastRun, LeaseExpires, DispatchDeadline, Shapes
  <1>3. ASSUME NEW run \in late, run.key = k
        PROVE  vm[run.id].state # "none"
    BY <1>s, <1>t, <1>3 DEF FenceInv, LaunchesAreReserved, LastRun, LeaseExpires, Shapes
  <1>. QED  BY <1>1, <1>2, <1>3, Zenon DEF NoLaunch

\* A row that is not reserved admits no launch either.
LEMMA NotReserved ==
  ASSUME TypeInv, FenceInv, NEW c \in Callers, NEW k \in Keys, row[k].state # "materializing"
  PROVE  NoLaunch(c, k)
  BY Zenon DEF FenceInv, LaunchesAreReserved, MayRun, Reserves, NoLaunch

\* acquire writes a new reservation where there was none, or where the lease of
\* the old one is over.
LEMMA AcquireKeeps ==
  ASSUME TypeInv, FenceInv, NEW c \in Callers, NEW k \in Keys, OthersKeep(c),
         UNCHANGED <<clock, vm, late>>,
         caller[c].pc = "acquire", caller[c].key = k,
         row[k].state # "installed",
         row[k].state = "materializing" => LeaseExpires(row[k]) <= caller[c].start,
         row'[k].state = "materializing", row'[k].id = caller[c].id,
         row'[k].gen = caller[c].gen, row'[k].attempt = caller[c].attempt,
         row'[k].start = caller[c].start,
         \A l \in Keys \ {k} : row'[l] = row[l],
         caller'[c].key = k, caller'[c].id = caller[c].id, caller'[c].gen = caller[c].gen,
         caller'[c].attempt = caller[c].attempt,
         \/ caller[c].op = "purge" /\ caller'[c].pc = "refund"
         \/ /\ caller[c].op # "purge" /\ caller'[c].pc = "launch"
            /\ caller'[c].start = caller[c].start
  PROVE  FenceInv'
  <1>s. Shapes /\ NoId \notin Ids
    BY ShapesHold, IdAssumption, Zenon
  <1>u. Unshared(c) /\ caller[c].id \in Ids
    BY Zenon DEF FenceInv, UnsharedRequest, TypeInv, IdsAreSet
  <1>o. row[k].state = "materializing" => LeaseExpires(row[k]) <= clock
    BY <1>s, <1>u, TimeAssumption DEF Unshared, LeaseExpires, Shapes
  <1>n. NoLaunch(c, k) /\ (row[k].state = "materializing" => ~Alive(row[k].id))
    BY <1>o, LeaseOver, NotReserved, Zenon
  <1>a. ~Alive(caller[c].id)
    BY <1>u, <1>n DEF FenceInv, LiveWithinLease, OneOwner, Charged
  <1>b. SafeToRefund(c, caller[c].id)
    BY <1>u, <1>n, <1>a DEF FenceInv, OneOwner, SafeToRefund, NoOtherRun, NoLaunch, MayRun
  <1>1. OneOwner'
    BY DEF FenceInv, OneOwner, OthersKeep
  <1>2. UnsharedRequest'
    BY DEF FenceInv, UnsharedRequest, Unshared, OthersKeep
  <1>3. LaunchesAreReserved'
    BY <1>s, <1>n
    DEF FenceInv, LaunchesAreReserved, OthersKeep, VmFades, Alive, MayRun, Reserves, LastRun,
        DispatchDeadline, Shapes, TypeInv, IdsAreSet, NoLaunch
  <1>4. LiveWithinLease'
    BY <1>n DEF FenceInv, LiveWithinLease, Alive, Reserves, Charged
  <1>5. RefundsAreSafe'
    <2> SUFFICES ASSUME NEW d \in Callers, MayRefund(d)'
                 PROVE  SafeToRefund(d, caller[d].id)'
      BY Zenon DEF RefundsAreSafe
    <2>1. CASE d = c
      BY <1>b, <2>1, ZenonT(60) DEF SafeToRefund, NoOtherRun, MayRun, OthersKeep, Alive
    <2>2. CASE d # c
      <3>1. caller'[d] = caller[d] /\ caller[d].key # k
        BY <1>u, <2>2 DEF OthersKeep, MayRefund, OwnsAttempt, Unshared
      <3>2. SafeToRefund(d, caller[d].id)
        BY <1>s, <3>1 DEF FenceInv, RefundsAreSafe, MayRefund, OwnsAttempt, Reserves, Shapes
      <3>3. caller[d].id # caller[c].id
        BY <1>u, <3>1, ZenonT(60) DEF FenceInv, OneOwner
      <3>. QED
        BY <3>2, <3>3, ZenonT(60) DEF SafeToRefund, NoOtherRun, MayRun, OthersKeep, Alive
    <2>. QED  BY <2>1, <2>2, Zenon
  <1>6. ListedLeaseIsCurrent'
    BY <1>s, <1>u
    DEF FenceInv, ListedLeaseIsCurrent, OthersKeep, OwnsAttempt, Reserves, Shapes, Unshared
  <1>7. TargetsExist'
    BY Zenon DEF FenceInv, TargetsExist, OthersKeep, Alive, Installed
  <1>. QED  BY <1>1, <1>2, <1>3, <1>4, <1>5, <1>6, <1>7, Zenon DEF FenceInv

\* take_expired_attempt changes the owner of a reservation, not the reservation.
LEMMA TakeKeeps ==
  ASSUME TypeInv, FenceInv, NEW c \in Callers, NEW k \in Keys, OthersKeep(c),
         UNCHANGED <<clock, vm, late>>,
         caller[c].pc = "acquire", caller[c].key = k,
         row[k].state = "materializing",
         row'[k].state = "materializing", row'[k].id = row[k].id,
         row'[k].gen = row[k].gen, row'[k].attempt = caller[c].attempt,
         row'[k].start = row[k].start,
         \A l \in Keys \ {k} : row'[l] = row[l],
         caller'[c].pc = "launch", caller'[c].recovery,
         caller'[c].key = k, caller'[c].id = row[k].id, caller'[c].gen = row[k].gen,
         caller'[c].attempt = caller[c].attempt, caller'[c].start = row[k].start
  PROVE  FenceInv'
  <1>s. Shapes /\ NoId \notin Ids
    BY ShapesHold, IdAssumption, Zenon
  <1>u. Unshared(c) /\ row[k].id \in Ids
    BY Zenon DEF FenceInv, UnsharedRequest, TypeInv, IdsAreSet, Charged
  <1>1. OneOwner'
    BY DEF FenceInv, OneOwner, OthersKeep, Shapes
  <1>2. UnsharedRequest'
    BY <1>u DEF FenceInv, UnsharedRequest, Unshared, OthersKeep
  <1>3. LaunchesAreReserved'
    BY <1>s
    DEF FenceInv, LaunchesAreReserved, OthersKeep, MayRun, Reserves, LastRun, DispatchDeadline,
        Shapes, IdsAreSet
  <1>4. LiveWithinLease'
    BY DEF FenceInv, LiveWithinLease, Alive, Reserves, Charged, LeaseExpires
  <1>5. RefundsAreSafe'
    <2> SUFFICES ASSUME NEW d \in Callers, MayRefund(d)'
                 PROVE  SafeToRefund(d, caller[d].id)'
      BY Zenon DEF RefundsAreSafe
    <2>1. caller'[d] = caller[d] /\ caller[d].key # k
      BY <1>u DEF OthersKeep, MayRefund, OwnsAttempt, Unshared
    <2>2. SafeToRefund(d, caller[d].id)
      BY <1>s, <2>1 DEF FenceInv, RefundsAreSafe, MayRefund, OwnsAttempt, Reserves, Shapes
    <2>3. caller[d].id # row[k].id
      BY <1>u, <2>1, ZenonT(60) DEF FenceInv, OneOwner
    <2>. QED
      BY <2>1, <2>2, <2>3 DEF SafeToRefund, NoOtherRun, MayRun, OthersKeep, Alive
  <1>6. ListedLeaseIsCurrent'
    BY <1>s, <1>u
    DEF FenceInv, ListedLeaseIsCurrent, OthersKeep, OwnsAttempt, Reserves, Shapes, Unshared
  <1>7. TargetsExist'
    BY ZenonT(60) DEF FenceInv, TargetsExist, OthersKeep, Alive, Installed
  <1>. QED  BY <1>1, <1>2, <1>3, <1>4, <1>5, <1>6, <1>7, ZenonT(60) DEF FenceInv

\* install writes the microVM that a call holds into the row that reserves it.
LEMMA InstallKeeps ==
  ASSUME TypeInv, FenceInv, NEW c \in Callers, NEW k \in Keys, OthersKeep(c),
         UNCHANGED <<clock, vm, late>>,
         caller[c].pc = "install", caller[c].key = k, Reserves(k, caller[c].id),
         row'[k].state = "installed", row'[k].id = row[k].id, row'[k].gen = row[k].gen,
         row'[k].attempt = NoId,
         \A l \in Keys \ {k} : row'[l] = row[l],
         caller'[c].attempt = NoId,
         \/ caller'[c].pc = "idle" /\ caller'[c].id = NoId
         \/ /\ caller'[c].pc = "confirm" /\ caller'[c].id = caller[c].id
            /\ caller'[c].key = k /\ caller'[c].gen = caller[c].gen
  PROVE  FenceInv'
  <1>s. Shapes /\ NoId \notin Ids
    BY ShapesHold, IdAssumption, Zenon
  <1>u. caller[c].id \in Ids /\ vm[caller[c].id].state # "none"
    BY ZenonT(60) DEF FenceInv, TargetsExist, TypeInv, IdsAreSet
  <1>1. OneOwner'
    BY <1>s DEF FenceInv, OneOwner, OthersKeep, Shapes
  <1>2. UnsharedRequest'
    BY <1>s DEF FenceInv, UnsharedRequest, Unshared, OthersKeep, TypeInv, IdsAreSet
  <1>3. LaunchesAreReserved'
    BY <1>s, <1>u
    DEF FenceInv, LaunchesAreReserved, OthersKeep, VmFades, MayRun, Reserves, LastRun,
        DispatchDeadline, Shapes, TypeInv, IdsAreSet
  <1>4. LiveWithinLease'
    BY DEF FenceInv, LiveWithinLease, Alive, Reserves, Charged
  <1>5. RefundsAreSafe'
    <2> SUFFICES ASSUME NEW d \in Callers, MayRefund(d)'
                 PROVE  SafeToRefund(d, caller[d].id)'
      BY Zenon DEF RefundsAreSafe
    <2>1. d # c /\ caller'[d] = caller[d] /\ row'[caller[d].key] = row[caller[d].key]
      BY <1>s, ZenonT(60) DEF OthersKeep, MayRefund, OwnsAttempt, Reserves, Shapes
    <2>2. SafeToRefund(d, caller[d].id)
      BY <2>1, ZenonT(60) DEF FenceInv, RefundsAreSafe, MayRefund, OwnsAttempt, Reserves
    <2>3. NoOtherRun(d, caller[d].id) => NoOtherRun(d, caller[d].id)'
      BY <2>1, ZenonT(60) DEF NoOtherRun, MayRun, OthersKeep
    <2>. QED  BY <2>1, <2>2, <2>3, ZenonT(60) DEF SafeToRefund, Alive
  <1>6. ListedLeaseIsCurrent'
    BY <1>s DEF FenceInv, ListedLeaseIsCurrent, OthersKeep, OwnsAttempt, Reserves, Shapes
  <1>7. TargetsExist'
    BY DEF FenceInv, TargetsExist, OthersKeep, Alive, Reserves
  <1>. QED  BY <1>1, <1>2, <1>3, <1>4, <1>5, <1>6, <1>7, Zenon DEF FenceInv

\* A launch that is admitted within the dispatch window has its effect before
\* the last instant at which the reservation lets a microVM be created.
LEMMA LaunchKeeps ==
  ASSUME TypeInv, FenceInv, NEW c \in Callers, OthersKeep(c),
         UNCHANGED <<clock, row, vm, late>>,
         caller[c].pc = "launch", MayRun(c, caller[c].id),
         caller'[c].pc = "run", caller'[c].key = caller[c].key, caller'[c].id = caller[c].id,
         caller'[c].gen = caller[c].gen, caller'[c].attempt = caller[c].attempt,
         caller'[c].recovery = caller[c].recovery, caller'[c].until = clock + TransitMs
  PROVE  FenceInv'
  <1>s. Shapes /\ NoId \notin Ids
    BY ShapesHold, IdAssumption, Zenon
  <1>t. DispatchMs \in Nat /\ TransitMs \in Nat
    BY TimeAssumption, Zenon
  <1>1. OneOwner'
    BY DEF FenceInv, OneOwner, OthersKeep
  <1>2. UnsharedRequest'
    BY DEF FenceInv, UnsharedRequest, Unshared, OthersKeep
  <1>3. LaunchesAreReserved'
    BY <1>s, <1>t
    DEF FenceInv, LaunchesAreReserved, OthersKeep, Alive, MayRun, Reserves, LastRun,
        DispatchDeadline, Shapes, TypeInv, IdsAreSet
  <1>4. LiveWithinLease'
    BY ZenonT(60) DEF FenceInv, LiveWithinLease, Alive, Reserves, Charged
  <1>5. RefundsAreSafe'
    BY DEF FenceInv, RefundsAreSafe, MayRefund, SafeToRefund, OthersKeep, Alive, MayRun, NoOtherRun,
       Reserves, OwnsAttempt, DispatchDeadline
  <1>6. ListedLeaseIsCurrent'
    BY ZenonT(60) DEF FenceInv, ListedLeaseIsCurrent, OthersKeep, OwnsAttempt, Reserves
  <1>7. TargetsExist'
    BY ZenonT(60) DEF FenceInv, TargetsExist, OthersKeep, Alive, Charged
  <1>. QED  BY <1>1, <1>2, <1>3, <1>4, <1>5, <1>6, <1>7, Zenon DEF FenceInv

\* RunMicrovm has its effect at the provider while the reservation is in the
\* table and long before its lease ends.
LEMMA RunKeeps ==
  ASSUME TypeInv, FenceInv, NEW c \in Callers, OthersKeep(c),
         UNCHANGED <<clock, row, late>>,
         caller[c].pc = "run", ProviderRun(caller[c].id),
         caller'[c].pc = "install", caller'[c].key = caller[c].key, caller'[c].id = caller[c].id,
         caller'[c].gen = caller[c].gen, caller'[c].attempt = NoId
  PROVE  FenceInv'
  <1>s. Shapes /\ NoId \notin Ids
    BY ShapesHold, IdAssumption, Zenon
  <1>t. /\ DispatchMs \in Nat /\ TransitMs \in Nat /\ LifetimeMs \in Nat \ {0} /\ LeaseMs \in Nat
        /\ DispatchMs + TransitMs + LifetimeMs <= LeaseMs
    BY TimeAssumption, LeaseCoversLaunch, Zenon
  <1>i. caller[c].id \in Ids
    BY Zenon DEF TypeInv, IdsAreSet
  <1>v. /\ \A i \in Ids \ {caller[c].id} : vm'[i] = vm[i]
        /\ vm[caller[c].id].state # "none" => vm'[caller[c].id] = vm[caller[c].id]
        /\ vm[caller[c].id].state = "none" =>
               /\ vm'[caller[c].id].state = "live"
               /\ vm'[caller[c].id].dies = clock + LifetimeMs
    BY <1>i, ZenonT(60) DEF ProviderRun, TypeInv, TypeOK
  <1>1. OneOwner'
    BY DEF FenceInv, OneOwner, OthersKeep
  <1>2. UnsharedRequest'
    BY <1>s, <1>v DEF FenceInv, UnsharedRequest, Unshared, OthersKeep, TypeInv, IdsAreSet
  <1>3. LaunchesAreReserved'
    BY <1>s, <1>i, <1>v
    DEF FenceInv, LaunchesAreReserved, OthersKeep, VmFades, MayRun, Reserves, LastRun,
        DispatchDeadline, Shapes, TypeInv, IdsAreSet
  <1>4. LiveWithinLease'
    <2> SUFFICES ASSUME NEW j \in Ids, Alive(j)'
                 PROVE  /\ clock < vm'[j].dies
                        /\ \E k \in Keys : /\ Charged(k) /\ row[k].id = j
                                           /\ Reserves(k, j) => vm'[j].dies <= LeaseExpires(row[k])
      BY Zenon DEF LiveWithinLease, Charged, Reserves, LeaseExpires
    <2>1. CASE vm'[j] = vm[j]
      BY <2>1, Zenon DEF FenceInv, LiveWithinLease, Alive
    <2>2. CASE vm'[j] # vm[j]
      <3>1. /\ j = caller[c].id /\ vm[j].state = "none" /\ vm'[j].dies = clock + LifetimeMs
        BY <1>v, <2>2, Zenon
      <3>2. /\ clock <= caller[c].until /\ Reserves(caller[c].key, j)
            /\ caller[c].until <= LastRun(caller[c].key)
        BY <3>1, Zenon DEF FenceInv, LaunchesAreReserved
      <3>3. caller[c].key \in Keys /\ Charged(caller[c].key)
        BY <1>s, <3>2, ZenonT(60) DEF Shapes, Reserves, Charged
      <3>4. clock < vm'[j].dies /\ vm'[j].dies <= LeaseExpires(row[caller[c].key])
        BY <1>s, <1>t, <3>1, <3>2 DEF LastRun, LeaseExpires, Shapes
      <3>. QED  BY <3>2, <3>3, <3>4, Zenon DEF Reserves
    <2>. QED  BY <2>1, <2>2, Zenon
  <1>5. RefundsAreSafe'
    BY <1>t, <1>v
    DEF FenceInv, RefundsAreSafe, MayRefund, SafeToRefund, OthersKeep, Alive, MayRun, NoOtherRun,
        Reserves, OwnsAttempt, TypeInv, IdsAreSet
  <1>6. ListedLeaseIsCurrent'
    BY Zenon DEF FenceInv, ListedLeaseIsCurrent, OthersKeep, OwnsAttempt, Reserves
  <1>7. TargetsExist'
    BY <1>v
    DEF FenceInv, TargetsExist, OthersKeep, VmFades, Alive, Installed, TypeInv, IdsAreSet, Charged
  <1>. QED  BY <1>1, <1>2, <1>3, <1>4, <1>5, <1>6, <1>7, Zenon DEF FenceInv

\* A call that ends while its RunMicrovm is under way leaves that launch behind.
LEMMA AbandonKeeps ==
  ASSUME TypeInv, FenceInv, NEW c \in Callers, OthersKeep(c), caller'[c] = Idle,
         UNCHANGED <<clock, row, vm>>, Abandon(c)
  PROVE  FenceInv'
  <1>s. Shapes /\ NoId \notin Ids
    BY ShapesHold, IdAssumption, Zenon
  <1>i. caller'[c].pc = "idle" /\ caller'[c].id = NoId /\ caller'[c].attempt = NoId
    BY IdleType, Zenon
  <1>r. \A run \in late' : run \in late \/ (/\ caller[c].pc = "run" /\ run.key = caller[c].key
                                           /\ run.id = caller[c].id /\ run.until = caller[c].until)
    BY DEF Abandon
  <1>1. OneOwner'
    BY <1>s, <1>i, <1>r DEF FenceInv, OneOwner, OthersKeep, Shapes, TypeInv, IdsAreSet
  <1>2. UnsharedRequest'
    BY <1>s, <1>i, <1>r DEF FenceInv, UnsharedRequest, Unshared, OthersKeep, TypeInv, IdsAreSet
  <1>3. LaunchesAreReserved'
    BY <1>s, <1>i, <1>r
    DEF FenceInv, LaunchesAreReserved, OthersKeep, Alive, MayRun, Reserves, LastRun,
        DispatchDeadline, Shapes, TypeInv, IdsAreSet
  <1>4. LiveWithinLease'
    BY Zenon DEF FenceInv, LiveWithinLease, VmFades, Alive, Reserves, Charged
  <1>5. RefundsAreSafe'
    <2> SUFFICES ASSUME NEW d \in Callers, MayRefund(d)'
                 PROVE  SafeToRefund(d, caller[d].id)'
      BY Zenon DEF RefundsAreSafe
    <2>1. d # c /\ caller'[d] = caller[d]
      BY <1>i, Zenon DEF OthersKeep, MayRefund
    <2>2. SafeToRefund(d, caller[d].id)
      BY <2>1, Zenon DEF FenceInv, RefundsAreSafe, MayRefund, OwnsAttempt, Reserves
    <2>3. NoOtherRun(d, caller[d].id) => NoOtherRun(d, caller[d].id)'
      BY <1>i, <1>r, <2>1, Zenon DEF NoOtherRun, MayRun, OthersKeep
    <2>. QED  BY <2>1, <2>2, <2>3, Zenon DEF SafeToRefund, Alive
  <1>6. ListedLeaseIsCurrent'
    BY <1>i, Zenon DEF FenceInv, ListedLeaseIsCurrent, OthersKeep, OwnsAttempt, Reserves
  <1>7. TargetsExist'
    BY <1>i, Zenon DEF FenceInv, TargetsExist, OthersKeep, Alive, Installed, IdsAreSet, Charged
  <1>. QED  BY <1>1, <1>2, <1>3, <1>4, <1>5, <1>6, <1>7, Zenon DEF FenceInv

\* A launch that nobody waits for has its effect under the same conditions, or
\* none at all.
LEMMA LateKeeps ==
  ASSUME TypeInv, FenceInv, NEW run \in late, LateRun(run) \/ LateRunLost(run)
  PROVE  FenceInv'
  <1>s. Shapes /\ NoId \notin Ids
    BY ShapesHold, IdAssumption, Zenon
  <1>t. /\ DispatchMs \in Nat /\ TransitMs \in Nat /\ LifetimeMs \in Nat \ {0} /\ LeaseMs \in Nat
        /\ DispatchMs + TransitMs + LifetimeMs <= LeaseMs
    BY TimeAssumption, LeaseCoversLaunch, Zenon
  <1>i. run.id \in Ids
    BY <1>s, Zenon DEF Shapes
  <1>v. /\ \A i \in Ids \ {run.id} : vm'[i] = vm[i]
        /\ \/ vm'[run.id] = vm[run.id]
           \/ /\ vm[run.id].state = "none" /\ vm'[run.id].state = "live"
              /\ vm'[run.id].dies = clock + LifetimeMs
    BY <1>i DEF LateRun, LateRunLost, ProviderRun, TypeInv, TypeOK
  <1>u. UNCHANGED <<clock, row, caller>> /\ late' \subseteq late
    BY Zenon DEF LateRun, LateRunLost
  <1>1. OneOwner'
    BY <1>u DEF FenceInv, OneOwner
  <1>2. UnsharedRequest'
    BY <1>v, <1>u, ZenonT(60) DEF FenceInv, UnsharedRequest, Unshared, TypeInv, IdsAreSet
  <1>3. LaunchesAreReserved'
    BY <1>s, <1>v, <1>u
    DEF FenceInv, LaunchesAreReserved, MayRun, Reserves, LastRun, Shapes, TypeInv, IdsAreSet
  <1>4. LiveWithinLease'
    BY <1>s, <1>t, <1>v, <1>u
    DEF FenceInv, LiveWithinLease, Alive, Reserves, Charged, LeaseExpires, LaunchesAreReserved,
        LastRun, Shapes
  <1>5. RefundsAreSafe'
    BY <1>v, <1>u
    DEF FenceInv, RefundsAreSafe, MayRefund, SafeToRefund, Alive, MayRun, NoOtherRun, Reserves,
        OwnsAttempt, TypeInv, IdsAreSet
  <1>6. ListedLeaseIsCurrent'
    BY <1>u, ZenonT(60) DEF FenceInv, ListedLeaseIsCurrent, OthersKeep, OwnsAttempt, Reserves, Shapes
  <1>7. TargetsExist'
    BY <1>v, <1>u, ZenonT(60) DEF FenceInv, TargetsExist, Alive, Installed, TypeInv, IdsAreSet, Charged
  <1>. QED  BY <1>1, <1>2, <1>3, <1>4, <1>5, <1>6, <1>7, Zenon DEF FenceInv

\* A microVM that stops disturbs nothing.
LEMMA FadeKeeps ==
  ASSUME TypeInv, FenceInv, UNCHANGED <<clock, row, late, caller>>, VmFades
  PROVE  FenceInv'
  <1>s. Shapes /\ NoId \notin Ids
    BY ShapesHold, IdAssumption, Zenon
  <1>1. OneOwner'
    BY ZenonT(60) DEF FenceInv, OneOwner
  <1>2. UnsharedRequest'
    BY DEF FenceInv, UnsharedRequest, Unshared, VmFades, Alive, TypeInv, IdsAreSet
  <1>3. LaunchesAreReserved'
    BY <1>s
    DEF FenceInv, LaunchesAreReserved, VmFades, MayRun, Reserves, LastRun, Shapes, TypeInv,
        IdsAreSet
  <1>4. LiveWithinLease'
    BY ZenonT(60) DEF FenceInv, LiveWithinLease, VmFades, Alive, Reserves, Charged
  <1>5. RefundsAreSafe'
    BY DEF FenceInv, RefundsAreSafe, MayRefund, SafeToRefund, VmFades, Alive, MayRun, NoOtherRun,
       Reserves, OwnsAttempt, TypeInv, IdsAreSet
  <1>6. ListedLeaseIsCurrent'
    BY ZenonT(60) DEF FenceInv, ListedLeaseIsCurrent, OwnsAttempt, Reserves
  <1>7. TargetsExist'
    BY ZenonT(60) DEF FenceInv, TargetsExist, VmFades, Alive, Installed, TypeInv, IdsAreSet, Charged
  <1>. QED  BY <1>1, <1>2, <1>3, <1>4, <1>5, <1>6, <1>7, ZenonT(60) DEF FenceInv

\* Time ends microVMs, dispatch windows and leases in that order.
LEMMA TickKeeps ==
  ASSUME TypeInv, FenceInv, Tick
  PROVE  FenceInv'
  <1>s. Shapes /\ NoId \notin Ids
    BY ShapesHold, IdAssumption, Zenon
  <1>u. /\ UNCHANGED <<row, late, caller>> /\ clock' = clock + 1
        /\ \A c \in Callers : caller[c].pc = "run" => clock < caller[c].until
        /\ \A run \in late : clock < run.until
    BY Zenon DEF Tick
  <1>v. \A i \in Ids : \/ vm'[i] = vm[i] /\ (Alive(i) => vm[i].dies > clock + 1)
                       \/ Alive(i) /\ vm'[i].state = "dead"
    BY <1>s, RecordTypes DEF Tick, Shapes
  <1>t. DispatchMs \in Nat
    BY TimeAssumption, Zenon
  <1>1. OneOwner'
    BY <1>u, ZenonT(60) DEF FenceInv, OneOwner
  <1>2. UnsharedRequest'
    BY <1>s, <1>u, <1>v DEF FenceInv, UnsharedRequest, Unshared, Alive, Shapes, TypeInv, IdsAreSet
  <1>3. LaunchesAreReserved'
    BY <1>s, <1>u, <1>v, <1>t
    DEF FenceInv, LaunchesAreReserved, MayRun, Reserves, LastRun, DispatchDeadline, Shapes, TypeInv,
        IdsAreSet
  <1>4. LiveWithinLease'
    BY <1>u, <1>v, ZenonT(60) DEF FenceInv, LiveWithinLease, VmFades, Alive, Reserves, Charged, Shapes
  <1>5. RefundsAreSafe'
    BY <1>s, <1>u, <1>v, <1>t
    DEF FenceInv, RefundsAreSafe, MayRefund, SafeToRefund, Alive, MayRun, NoOtherRun, Reserves,
        OwnsAttempt, DispatchDeadline, Shapes, TypeInv, IdsAreSet
  <1>6. ListedLeaseIsCurrent'
    BY <1>u, Zenon DEF FenceInv, ListedLeaseIsCurrent, OwnsAttempt, Reserves
  <1>7. TargetsExist'
    BY <1>u, <1>v, ZenonT(60) DEF FenceInv, TargetsExist, Alive, Installed, TypeInv, IdsAreSet, Charged
  <1>. QED  BY <1>1, <1>2, <1>3, <1>4, <1>5, <1>6, <1>7, ZenonT(60) DEF FenceInv

\* A new request names identifiers that nothing else names.
LEMMA RequestKeeps ==
  ASSUME TypeInv, FenceInv, NEW c \in Callers, NEW i \in Ids, Fresh(i), OthersKeep(c),
         UNCHANGED <<clock, row, late>>, vm' = [vm EXCEPT ![i] = NoVm],
         caller'[c].pc = "acquire", caller'[c].attempt = i, caller'[c].start = clock,
         \/ caller'[c].id = i
         \/ /\ caller[c].pc = "listed" /\ caller'[c].op = "purge" /\ caller'[c].id = caller[c].id
            /\ caller'[c].key = caller[c].key /\ caller'[c].gen = caller[c].gen
  PROVE  FenceInv'
  <1>s. Shapes /\ NoId \notin Ids
    BY ShapesHold, IdAssumption, Zenon
  <1>f. /\ \A k \in Keys : row[k].id # i /\ row[k].attempt # i
        /\ \A d \in Callers : caller[d].id # i /\ caller[d].attempt # i
        /\ \A run \in late : run.id # i
        /\ ~Alive(i)
    BY Zenon DEF Fresh
  <1>v. /\ vm'[i].state = "none" /\ \A j \in Ids \ {i} : vm'[j] = vm[j]
    BY RecordTypes, Zenon DEF TypeInv, TypeOK
  <1>1. OneOwner'
    BY <1>f DEF FenceInv, OneOwner, OthersKeep
  <1>2. UnsharedRequest'
    BY <1>s, <1>f, <1>v DEF FenceInv, UnsharedRequest, Unshared, OthersKeep, Shapes
  <1>c. caller'[c].pc = "acquire" /\ \A d \in Callers \ {c} : caller'[d] = caller[d]
    BY Zenon DEF OthersKeep
  <1>d. ASSUME NEW d \in Callers, caller'[d].pc # "acquire"
        PROVE  /\ d # c /\ caller'[d] = caller[d] /\ caller[d].id # i
               /\ caller[d].pc \notin {"idle", "purge_terminal"} =>
                      caller[d].id \in Ids /\ vm'[caller[d].id] = vm[caller[d].id]
    BY <1>d, <1>c, <1>f, <1>v, Zenon DEF TypeInv, IdsAreSet
  <1>e. \A run \in late : vm'[run.id] = vm[run.id]
    BY <1>s, <1>f, <1>v, Zenon DEF Shapes
  <1>3. LaunchesAreReserved'
    <2>1. ASSUME NEW d \in Callers, caller'[d].pc = "launch", MayRun(d, caller[d].id)',
                 vm'[caller'[d].id].state = "none"
          PROVE  Reserves(caller[d].key, caller[d].id)' /\ caller'[d].start <= row'[caller'[d].key].start
      BY <1>d, <2>1 DEF FenceInv, LaunchesAreReserved, MayRun, Reserves
    <2>2. ASSUME NEW d \in Callers, caller'[d].pc = "run"
          PROVE  /\ clock' <= caller'[d].until
                 /\ vm'[caller'[d].id].state = "none"
                        => /\ Reserves(caller[d].key, caller[d].id)'
                           /\ caller'[d].until <= LastRun(caller[d].key)'
      BY <1>d, <2>2 DEF FenceInv, LaunchesAreReserved, Reserves, LastRun
    <2>3. ASSUME NEW run \in late
          PROVE  /\ clock' <= run.until
                 /\ vm'[run.id].state = "none"
                        => Reserves(run.key, run.id)' /\ run.until <= LastRun(run.key)'
      BY <1>e, <2>3, Zenon DEF FenceInv, LaunchesAreReserved, Reserves, LastRun
    <2>. QED  BY <2>1, <2>2, <2>3, ZenonT(60) DEF LaunchesAreReserved
  <1>4. LiveWithinLease'
    <2>1. ASSUME NEW j \in Ids, Alive(j)'
          PROVE  Alive(j) /\ vm'[j] = vm[j]
      BY <1>v, <2>1, Zenon DEF Alive
    <2>. QED  BY <2>1, Zenon DEF FenceInv, LiveWithinLease, Reserves, Charged, LeaseExpires
  <1>5. RefundsAreSafe'
    <2> SUFFICES ASSUME NEW d \in Callers, MayRefund(d)'
                 PROVE  SafeToRefund(d, caller[d].id)'
      BY Zenon DEF RefundsAreSafe
    <2>1. caller'[d].pc \in {"refund", "launch", "run"}
      BY Zenon DEF MayRefund
    <2>2. /\ caller'[d] = caller[d] /\ caller[d].id # i /\ vm'[caller[d].id] = vm[caller[d].id]
      BY <1>d, <2>1, Zenon
    <2>3. SafeToRefund(d, caller[d].id)
      BY <2>2, Zenon DEF FenceInv, RefundsAreSafe, MayRefund, OwnsAttempt, Reserves
    <2>4. NoOtherRun(d, caller[d].id) => NoOtherRun(d, caller[d].id)'
      BY <1>c, <2>2, Zenon DEF NoOtherRun, MayRun
    <2>. QED  BY <2>2, <2>3, <2>4, Zenon DEF SafeToRefund, Alive
  <1>6. ListedLeaseIsCurrent'
    BY ZenonT(60) DEF FenceInv, ListedLeaseIsCurrent, OthersKeep, OwnsAttempt, Reserves
  <1>7. TargetsExist'
    BY <1>f DEF FenceInv, TargetsExist, OthersKeep, Alive
  <1>. QED  BY <1>1, <1>2, <1>3, <1>4, <1>5, <1>6, <1>7, Zenon DEF FenceInv

\* TerminateMicrovm only moves a microVM towards its end.
LEMMA TerminateFades ==
  ASSUME TypeInv, NEW i \in Ids, Terminate(i)
  PROVE  VmFades
  BY RecordTypes, Zenon DEF Terminate, VmFades, Alive, TypeInv, TypeOK, Vm

-----------------------------------------------------------------------------
(* The fence is inductive *)

\* Every outcome of the registry's acquire keeps the fence.
LEMMA AcquireFence ==
  ASSUME TypeInv, FenceInv, NEW c \in Callers, Acquire(c)
  PROVE  FenceInv'
  <1> DEFINE m == caller[c]
  <1>0. TypeOK /\ m \in Call /\ row \in [Keys -> Row]
    BY Zenon DEF TypeInv, TypeOK
  <1>k. PICK k \in Keys : k = m.key
    BY <1>0, Zenon DEF Call
  <1>m. m.key = k /\ row[k] \in Row
    BY <1>0, <1>k, Zenon
  <1>f. ASSUME AcquiredFresh(c)
        PROVE  /\ OthersKeep(c) /\ caller'[c].key = k /\ caller'[c].id = m.id
               /\ caller'[c].gen = m.gen /\ caller'[c].attempt = m.attempt
               /\ \/ m.op = "purge" /\ caller'[c].pc = "refund"
                  \/ m.op # "purge" /\ caller'[c].pc = "launch" /\ caller'[c].start = m.start
    <2>1. CASE m.op = "purge"
      BY <1>f, <1>m, <1>0, <2>1, RefundStep, Zenon DEF AcquiredFresh
    <2>2. CASE m.op # "purge"
      BY <1>f, <1>m, <1>0, <2>2, GoToLaunchStep, ZenonT(60) DEF AcquiredFresh, Call
    <2>. QED  BY <2>1, <2>2, ZenonT(60)
  <1>r. ASSUME row' = [row EXCEPT ![m.key] = MaterializingRow(m)]
        PROVE  /\ row'[k].state = "materializing" /\ row'[k].id = m.id /\ row'[k].gen = m.gen
               /\ row'[k].attempt = m.attempt /\ row'[k].start = m.start
               /\ \A l \in Keys \ {k} : row'[l] = row[l]
    BY <1>r, <1>0, <1>m, Zenon DEF MaterializingRow
  <1>1. CASE AcquireAbsent(c) \/ AcquireExpired(c) \/ AcquireLost(c)
    <2>1. /\ m.pc = "acquire" /\ row[k].state # "installed" /\ AcquiredFresh(c)
          /\ row[k].state = "materializing" => LeaseExpires(row[k]) <= m.start
          /\ row' = [row EXCEPT ![m.key] = MaterializingRow(m)]
          /\ UNCHANGED <<clock, vm, late>>
      BY <1>1, <1>m, Zenon DEF AcquireAbsent, AcquireExpired, AcquireLost
    <2>. HIDE DEF m
    <2>. QED  BY <1>f, <1>r, <1>m, <2>1, AcquireKeeps, Zenon DEF m
  <1>2. CASE TakeExpiredAttempt(c)
    <2>1. /\ m.pc = "acquire" /\ row[k].state = "materializing" /\ UNCHANGED <<clock, vm, late>>
          /\ row'[k].state = "materializing" /\ row'[k].id = row[k].id
          /\ row'[k].gen = row[k].gen /\ row'[k].attempt = m.attempt
          /\ row'[k].start = row[k].start
          /\ \A l \in Keys \ {k} : row'[l] = row[l]
      BY <1>2, <1>0, <1>m, ZenonT(60) DEF TakeExpiredAttempt, Row
    <2>2. /\ OthersKeep(c) /\ caller'[c].pc = "launch" /\ caller'[c].recovery
          /\ caller'[c].key = k /\ caller'[c].id = row[k].id /\ caller'[c].gen = row[k].gen
          /\ caller'[c].attempt = m.attempt /\ caller'[c].start = row[k].start
      BY <1>2, <1>0, <1>m DEF TakeExpiredAttempt, TypeOK, OthersKeep
    <2>. QED  BY <1>m, <2>1, <2>2, TakeKeeps, Zenon
  <1>3. CASE AcquireInstalled(c)
    <2>1. Installed(row[k]) /\ UNCHANGED <<clock, row, vm, late>>
      BY <1>3, <1>m, ZenonT(60) DEF AcquireInstalled, Installed
    <2>2. CASE HoldRow(c, "confirm", "purge", m.key)
      BY <1>0, <1>m, <2>1, <2>2, HoldRowStep, HoldRowKeeps, ZenonT(60)
    <2>3. CASE Return(c)
      BY <1>0, <2>1, <2>3, ReturnStep, ReturnKeeps, ZenonT(60) DEF VmFades
    <2>. QED  BY <1>3, <2>2, <2>3, Zenon DEF AcquireInstalled
  <1>4. CASE AcquireRefused(c)
    BY <1>0, <1>4, ReturnStep, ReturnKeeps, Zenon DEF AcquireRefused, VmFades
  <1>. QED  BY <1>1, <1>2, <1>3, <1>4, Zenon DEF Acquire

\* Every continuation of a call keeps the fence.
LEMMA ContinueFence ==
  ASSUME TypeInv, FenceInv, NEW c \in Callers, Continue(c)
  PROVE  FenceInv'
  <1> DEFINE m == caller[c]
  <1>0. TypeOK /\ m \in Call /\ row \in [Keys -> Row]
    BY Zenon DEF TypeInv, TypeOK
  <1>k. PICK k \in Keys : k = m.key
    BY <1>0, Zenon DEF Call
  <1>m. /\ m.key = k /\ row[k] \in Row
        /\ m.pc \notin {"idle", "purge_terminal"} => m.id \in Ids
    BY <1>0, <1>k, Zenon DEF TypeInv, IdsAreSet
  <1>1. CASE Acquire(c)
    BY <1>1, AcquireFence, Zenon
  <1>2. CASE LaunchAdmitted(c)
    <2>1. /\ m.pc = "launch" /\ MayRun(c, m.id) /\ UNCHANGED <<clock, row, vm, late>>
      BY <1>2, Zenon DEF LaunchAdmitted, MayRun
    <2>2. /\ OthersKeep(c) /\ caller'[c].pc = "run" /\ caller'[c].key = m.key
          /\ caller'[c].id = m.id /\ caller'[c].gen = m.gen /\ caller'[c].attempt = m.attempt
          /\ caller'[c].recovery = m.recovery /\ caller'[c].until = clock + TransitMs
      BY <1>2, <1>0 DEF LaunchAdmitted, TypeOK, OthersKeep
    <2>. QED  BY <2>1, <2>2, LaunchKeeps, Zenon
  <1>3. CASE LaunchRefused(c) \/ RunRejected(c)
    <2>1. UNCHANGED <<clock, row, vm, late>> /\ m.pc \in {"launch", "run"} /\ VmFades
      BY <1>3, Zenon DEF LaunchRefused, RunRejected, VmFades
    <2>2. CASE Return(c)
      BY <1>0, <2>1, <2>2, ReturnStep, ReturnKeeps, Zenon
    <2>3. CASE Refund(c) /\ ~m.recovery
      <3>1. OwnsAttempt(c) => SafeToRefund(c, m.id)
        BY <2>1, <2>3, Zenon DEF FenceInv, RefundsAreSafe, MayRefund
      <3>. QED  BY <1>0, <2>1, <2>3, <3>1, RefundStep, MoveKeeps, Zenon
    <2>. QED  BY <1>3, <2>2, <2>3, Zenon DEF LaunchRefused, RunRejected
  <1>4. CASE RunOk(c)
    BY <1>0, <1>4, HoldStep, RunKeeps, Zenon DEF RunOk
  <1>5. CASE RunUnknown(c)
    BY <1>0, <1>5, ReturnStep, AbandonKeeps, Zenon DEF RunUnknown
  <1>6. CASE Install(c)
    <2> DEFINE mine == row[k].state = "materializing" /\ row[k].id = m.id /\ row[k].gen = m.gen
               exact == row[k].state = "installed" /\ row[k].id = m.id /\ row[k].gen = m.gen
    <2>1. /\ m.pc = "install" /\ UNCHANGED <<clock, vm, late>> /\ VmFades
          /\ m.id \in Ids /\ vm[m.id].state # "none"
      BY <1>6, <1>m, ZenonT(60) DEF Install, VmFades, FenceInv, TargetsExist
    <2>2. CASE mine
      <3>1. /\ row'[k].state = "installed" /\ row'[k].id = row[k].id
            /\ row'[k].gen = row[k].gen /\ row'[k].attempt = NoId
            /\ \A l \in Keys \ {k} : row'[l] = row[l]
        BY <1>6, <1>0, <1>m, <2>2, Zenon DEF Install, InstalledRow
      <3>2. Hold(c, "confirm") \/ Return(c)
        BY <1>6, <1>m, <2>2, Zenon DEF Install
      <3>3. /\ OthersKeep(c) /\ caller'[c].attempt = NoId
            /\ \/ caller'[c].pc = "idle" /\ caller'[c].id = NoId
               \/ /\ caller'[c].pc = "confirm" /\ caller'[c].id = m.id
                  /\ caller'[c].key = k /\ caller'[c].gen = m.gen
        BY <1>0, <1>m, <3>2, HoldStep, ReturnStep, IdleType, Zenon
      <3>. QED
        BY <1>m, <2>1, <2>2, <3>1, <3>3, InstallKeeps, Zenon DEF Reserves
    <2>3. CASE exact
      <3>1. row' = row /\ (Hold(c, "confirm") \/ Return(c))
        BY <1>6, <1>m, <2>3, Zenon DEF Install
      <3>. QED  BY <1>0, <2>1, <3>1, HoldStep, ReturnStep, MoveKeeps, ReturnKeeps, Zenon
    <2>4. CASE ~mine /\ ~exact
      <3>1. row' = row /\ Hold(c, "cleanup")
        BY <1>6, <1>m, <2>4, Zenon DEF Install
      <3>2. ~Alive(m.id)
        BY <1>m, <2>1, <2>4 DEF FenceInv, LiveWithinLease, OneOwner, Charged
      <3>. QED  BY <1>0, <2>1, <3>1, <3>2, HoldStep, MoveKeeps, Zenon DEF Alive
    <2>. QED  BY <2>2, <2>3, <2>4, Zenon
  <1>7. CASE TerminateStale(c)
    BY <1>0, <1>7, <1>m, ReturnStep, ReturnKeeps, TerminateFades, Zenon DEF TerminateStale
  <1>8. CASE ExpireLease(c)
    <2>1. /\ m.pc = "refund" /\ UNCHANGED <<clock, vm, late>> /\ Return(c) /\ VmFades
      BY <1>8, ZenonT(60) DEF ExpireLease, VmFades
    <2>2. CASE /\ row[k].state = "materializing" /\ row[k].id = m.id
               /\ row[k].gen = m.gen /\ row[k].attempt = m.attempt
      <3>1. /\ row'[k] = NoRow /\ \A l \in Keys \ {k} : row'[l] = row[l]
        BY <1>8, <1>0, <1>m, <2>2, Zenon DEF ExpireLease
      <3>2. SafeToRefund(c, row[k].id)
        BY <1>m, <2>1, <2>2, Zenon DEF FenceInv, RefundsAreSafe, MayRefund, OwnsAttempt, Reserves
      <3>3. caller'[c].pc = "idle" /\ caller'[c].id = NoId /\ caller'[c].attempt = NoId
            /\ OthersKeep(c)
        BY <1>0, <2>1, ReturnStep, IdleType, Zenon
      <3>4. /\ row'[k].state = "none" /\ row'[k].id = NoId /\ row'[k].attempt = NoId
            /\ row'[k].start \in Nat
        BY <3>1, RecordTypes, Zenon DEF Row
      <3>. QED  BY <2>1, <3>1, <3>2, <3>3, <3>4, ClearKeeps, Zenon DEF SafeToRefund
    <2>3. CASE ~(/\ row[k].state = "materializing" /\ row[k].id = m.id
                 /\ row[k].gen = m.gen /\ row[k].attempt = m.attempt)
      <3>1. row' = row
        BY <1>8, <1>m, <2>3, Zenon DEF ExpireLease
      <3>. QED  BY <1>0, <2>1, <3>1, ReturnStep, ReturnKeeps, Zenon
    <2>. QED  BY <2>2, <2>3, Zenon
  <1>9. CASE ConfirmTermination(c)
    <2>1. /\ m.pc = "confirm" /\ UNCHANGED <<clock, row, late>> /\ m.id \in Ids
          /\ vm[m.id].state # "none" /\ VmFades
      BY <1>9, <1>m, TerminateFades, Zenon DEF ConfirmTermination, FenceInv, TargetsExist
    <2>2. CASE Hold(c, "mark") /\ vm'[m.id].state \in {"none", "dead"}
      <3>1. ~Alive(m.id)'
        BY <2>2, <1>0, HoldStep, Zenon DEF Alive
      <3>. QED  BY <1>0, <2>1, <2>2, <3>1, HoldStep, MoveKeeps, Zenon
    <2>3. CASE Return(c)
      BY <1>0, <2>1, <2>3, ReturnStep, ReturnKeeps, Zenon
    <2>. QED  BY <1>9, <2>2, <2>3, Zenon DEF ConfirmTermination
  <1>10. CASE MarkClosed(c)
    <2>1. /\ m.pc = "mark" /\ UNCHANGED <<clock, vm, late>> /\ VmFades
          /\ Return(c) \/ Hold(c, "purge_terminal")
          /\ ~Alive(m.id)
      BY <1>10, Zenon DEF MarkClosed, VmFades, FenceInv, TargetsExist
    <2>2. /\ OthersKeep(c) /\ caller'[c].pc \in {"idle", "purge_terminal"}
          /\ caller'[c].attempt = NoId
          /\ \/ caller'[c].id = NoId
             \/ /\ caller'[c].id = m.id /\ caller'[c].key = m.key /\ caller'[c].gen = m.gen
      BY <1>0, <2>1, ReturnStep, HoldStep, IdleType, Zenon
    <2>3. CASE Installed(row[k]) /\ row[k].id = m.id /\ row[k].gen = m.gen
      <3>1. /\ row'[k] = ClosedRow(m) /\ \A l \in Keys \ {k} : row'[l] = row[l]
        BY <1>10, <1>0, <1>m, <2>3, Zenon DEF MarkClosed
      <3>2. /\ row'[k].state \notin {"materializing", "installed"} /\ row'[k].id = NoId
            /\ row'[k].attempt = NoId /\ row'[k].start \in Nat
        BY <3>1 DEF ClosedRow, Disposition
      <3>. QED  BY <2>1, <2>2, <2>3, <3>1, <3>2, ClearKeeps, Zenon DEF Reserves, Installed
    <2>4. CASE ~(Installed(row[k]) /\ row[k].id = m.id /\ row[k].gen = m.gen)
      <3>1. row' = row
        BY <1>10, <1>m, <2>4, Zenon DEF MarkClosed
      <3>. QED  BY <2>1, <2>2, <3>1, SettleKeeps, Zenon
    <2>. QED  BY <2>3, <2>4, Zenon
  <1>11. CASE PurgeExpired(c)
    <2>1. /\ m.pc = "listed" /\ LeaseExpires(m) <= clock /\ UNCHANGED <<clock, row, vm, late>>
          /\ Refund(c) /\ VmFades
      BY <1>11, ZenonT(60) DEF PurgeExpired, VmFades
    <2>2. ASSUME OwnsAttempt(c)
          PROVE  SafeToRefund(c, m.id)
      <3>1. /\ row[k].state = "materializing" /\ row[k].id = m.id /\ LeaseExpires(row[k]) <= clock
        BY <1>m, <2>1, <2>2, Zenon
        DEF FenceInv, ListedLeaseIsCurrent, OwnsAttempt, Reserves, LeaseExpires
      <3>2. ~Alive(m.id) /\ NoLaunch(c, k)
        BY <3>1, LeaseOver, Zenon
      <3>3. \A d \in Callers : caller[d].id = m.id => caller[d].key = k
        BY <1>m, <2>1, Zenon DEF FenceInv, OneOwner
      <3>4. \A run \in late : run.id = m.id => run.key = k
        BY <1>m, Zenon DEF FenceInv, OneOwner
      <3>. QED  BY <3>2, <3>3, <3>4, Zenon DEF NoLaunch, SafeToRefund, NoOtherRun, MayRun
    <2>. QED  BY <1>0, <2>1, <2>2, RefundStep, MoveKeeps, ZenonT(60)
  <1>12. CASE PurgeUnresolved(c)
    BY <1>0, <1>12, ReturnStep, ReturnKeeps, Zenon DEF PurgeUnresolved, VmFades
  <1>13. ASSUME NEW a \in Ids, PurgeRecover(c, a)
         PROVE  FenceInv'
    <2>1. /\ m.pc = "listed" /\ m.op = "purge" /\ Fresh(a) /\ UNCHANGED <<clock, row, late>>
          /\ vm' = [vm EXCEPT ![a] = NoVm]
      BY <1>13, Zenon DEF PurgeRecover, FenceInv, ListedLeaseIsCurrent
    <2>2. /\ OthersKeep(c) /\ caller'[c].pc = "acquire" /\ caller'[c].attempt = a
          /\ caller'[c].start = clock /\ caller'[c].op = "purge" /\ caller'[c].id = m.id
          /\ caller'[c].key = m.key /\ caller'[c].gen = m.gen
      BY <1>13, <1>0, <2>1 DEF PurgeRecover, TypeOK, OthersKeep
    <2>. QED  BY <2>1, <2>2, RequestKeeps, Zenon
  <1>14. CASE PurgeTerminal(c)
    <2>1. UNCHANGED <<clock, vm, late>> /\ Return(c) /\ VmFades
      BY <1>14, Zenon DEF PurgeTerminal, VmFades
    <2>2. CASE row[k].state \in {"lost", "terminated"} /\ row[k].gen = m.gen
      <3>1. /\ row'[k] = NoRow /\ \A l \in Keys \ {k} : row'[l] = row[l]
        BY <1>14, <1>0, <1>m, <2>2, Zenon DEF PurgeTerminal
      <3>2. caller'[c].pc = "idle" /\ caller'[c].id = NoId /\ caller'[c].attempt = NoId
            /\ OthersKeep(c)
        BY <1>0, <2>1, ReturnStep, IdleType, Zenon
      <3>3. /\ row'[k].state = "none" /\ row'[k].id = NoId /\ row'[k].attempt = NoId
            /\ row'[k].start \in Nat
        BY <3>1, RecordTypes, Zenon DEF Row
      <3>4. ~Charged(k) /\ ~Reserves(k, row[k].id)
        BY <2>2, Zenon DEF Charged, Reserves
      <3>. QED  BY <2>1, <3>1, <3>2, <3>3, <3>4, ClearKeeps, Zenon
    <2>3. CASE ~(row[k].state \in {"lost", "terminated"} /\ row[k].gen = m.gen)
      <3>1. row' = row
        BY <1>14, <1>m, <2>3, Zenon DEF PurgeTerminal
      <3>. QED  BY <1>0, <2>1, <3>1, ReturnStep, ReturnKeeps, Zenon
    <2>. QED  BY <2>2, <2>3, Zenon
  <1>. QED
    BY <1>1, <1>2, <1>3, <1>4, <1>5, <1>6, <1>7, <1>8, <1>9, <1>10, <1>11, <1>12, <1>13, <1>14,
       ZenonT(60)
    DEF Continue, Launch, Run, PurgeDecide

\* Every call that Brain may start keeps the fence.
LEMMA StartFence ==
  ASSUME TypeInv, FenceInv, NEW c \in Callers, Start(c)
  PROVE  FenceInv'
  <1>t. TypeOK
    BY Zenon DEF TypeInv
  <1>1. ASSUME NEW k \in Keys, NEW i \in Ids, NEW g \in Generations, Materialize(c, k, i, g)
        PROVE  FenceInv'
    <2>1. /\ Fresh(i) /\ UNCHANGED <<clock, row, late>> /\ vm' = [vm EXCEPT ![i] = NoVm]
      BY <1>1, Zenon DEF Materialize
    <2>2. /\ OthersKeep(c) /\ caller'[c].pc = "acquire" /\ caller'[c].attempt = i
          /\ caller'[c].start = clock /\ caller'[c].id = i
      BY <1>1, <1>t, Zenon DEF Materialize, TypeOK, OthersKeep
    <2>. QED  BY <2>1, <2>2, RequestKeeps, Zenon
  <1>2. ASSUME NEW k \in Keys, LoseTarget(c, k) \/ TerminateTarget(c, k)
        PROVE  FenceInv'
    <2>1. /\ Installed(row[k]) /\ UNCHANGED <<clock, row, vm, late>>
          /\ HoldRow(c, "confirm", "lost", k) \/ HoldRow(c, "confirm", "terminate", k)
      BY <1>2, Zenon DEF LoseTarget, TerminateTarget
    <2>. QED  BY <1>t, <2>1, HoldRowStep, HoldRowKeeps, Zenon
  <1>3. ASSUME NEW k \in Keys, PurgeList(c, k)
        PROVE  FenceInv'
    <2>0. UNCHANGED <<clock, row, vm, late>>
      BY <1>3, Zenon DEF PurgeList
    <2>1. CASE Installed(row[k]) /\ HoldRow(c, "confirm", "purge", k)
      BY <1>t, <2>0, <2>1, HoldRowStep, HoldRowKeeps, Zenon
    <2>2. CASE HoldRow(c, "purge_terminal", "purge", k)
      BY <1>t, <2>0, <2>2, HoldRowStep, HoldRowKeeps, Zenon
    <2>3. CASE /\ row[k].state = "materializing"
               /\ caller' = [caller EXCEPT ![c] =
                    [pc |-> "listed", op |-> "purge", key |-> k, id |-> row[k].id,
                     gen |-> row[k].gen, attempt |-> row[k].attempt, start |-> row[k].start,
                     seal |-> row[k].seal, recovery |-> TRUE,
                     until |-> row[k].attemptExpires]]
      <3>1. /\ OthersKeep(c) /\ caller'[c].pc = "listed" /\ caller'[c].op = "purge"
            /\ caller'[c].key = k /\ caller'[c].id = row[k].id /\ caller'[c].gen = row[k].gen
            /\ caller'[c].attempt = row[k].attempt /\ caller'[c].start = row[k].start
        BY <2>3, <1>t, Zenon DEF TypeOK, OthersKeep
      <3>. QED  BY <2>0, <2>3, <3>1, HoldRowKeeps, Zenon
    <2>. QED  BY <1>3, <2>1, <2>2, <2>3, ZenonT(60) DEF PurgeList, Installed
  <1>. QED  BY <1>1, <1>2, <1>3, Zenon DEF Start

\* Crashes, late provider effects, stopping microVMs and time keep the fence.
LEMMA EnvironmentFence ==
  ASSUME TypeInv, FenceInv, Environment
  PROVE  FenceInv'
  <1>t. TypeOK
    BY Zenon DEF TypeInv
  <1>1. ASSUME NEW c \in Callers, Fault(c)
        PROVE  FenceInv'
    BY <1>1, <1>t, ReturnStep, AbandonKeeps, Zenon DEF Fault
  <1>2. ASSUME NEW run \in late, LateRun(run) \/ LateRunLost(run)
        PROVE  FenceInv'
    BY <1>2, LateKeeps, Zenon
  <1>3. ASSUME NEW i \in Ids, VmStops(i)
        PROVE  FenceInv'
    <2>1. VmFades
      BY <1>3, <1>t, RecordTypes DEF VmStops, VmFades
    <2>. QED  BY <1>3, <2>1, FadeKeeps, Zenon DEF VmStops
  <1>4. CASE Tick
    BY <1>4, TickKeeps, Zenon
  <1>. QED  BY <1>1, <1>2, <1>3, <1>4, Zenon DEF Environment

\* Nothing is reserved, launched or held in the beginning.
LEMMA FenceInit == Init => FenceInv
  <1> SUFFICES ASSUME Init PROVE FenceInv
    OBVIOUS
  <1>1. /\ \A k \in Keys : row[k].state = "none" /\ row[k].id = NoId
        /\ \A c \in Callers : caller[c].pc = "idle" /\ caller[c].id = NoId
        /\ \A i \in Ids : vm[i].state = "none"
        /\ late = {} /\ NoId \notin Ids
    BY IdleType, RecordTypes, IdAssumption, Zenon DEF Init
  <1>. QED
    BY <1>1, ZenonT(60)
    DEF FenceInv, OneOwner, UnsharedRequest, LaunchesAreReserved, LiveWithinLease, Alive,
        RefundsAreSafe, MayRefund, ListedLeaseIsCurrent, TargetsExist, Installed

\* Every step keeps the fence.
LEMMA FenceStep == TypeInv /\ FenceInv /\ [Next]_vars => FenceInv'
  <1> SUFFICES ASSUME TypeInv, FenceInv, [Next]_vars PROVE FenceInv'
    OBVIOUS
  <1>1. CASE Next
    BY <1>1, EnvironmentFence, StartFence, ContinueFence, Zenon DEF Next
  <1>2. CASE UNCHANGED vars
    BY <1>2, FadeKeeps, Zenon DEF vars, VmFades
  <1>. QED  BY <1>1, <1>2, Zenon

-----------------------------------------------------------------------------
(* Type correctness *)

\* An empty table, an idle provider and no calls are well typed.
LEMMA TypeInit == Init => TypeInv
  BY IdleType, RecordTypes DEF Init, TypeInv, TypeOK, IdsAreSet, Charged

\* Every outcome of the registry's acquire keeps the types.
LEMMA AcquireType ==
  ASSUME TypeInv, NEW c \in Callers, Acquire(c)
  PROVE  TypeInv'
  <1> DEFINE m == caller[c]
  <1>m. /\ m \in Call /\ m.key \in Keys /\ row[m.key] \in Row
        /\ m.pc = "acquire" /\ m.id \in Ids
    BY Zenon
    DEF TypeInv, TypeOK, IdsAreSet, Acquire, AcquireAbsent, AcquireExpired, AcquireLost,
        TakeExpiredAttempt, AcquireInstalled, AcquireRefused, Call
  <1>r. MaterializingRow(m) \in Row /\ MaterializingRow(m).id = m.id
    BY <1>m, TimeAssumption DEF MaterializingRow, Row, Call
  <1>c. ASSUME CapacityAdd
        PROVE  reserved' \in Nat
    BY <1>c, CapacityAssumption DEF CapacityAdd, TypeInv, TypeOK
  <1>f. ASSUME AcquiredFresh(c)
        PROVE  /\ caller' \in [Callers -> Call] /\ OthersKeep(c)
               /\ caller'[c].id = m.id
    <2>1. CASE Refund(c)
      BY <2>1, RefundStep, Zenon DEF TypeInv
    <2>2. CASE GoTo(c, "launch")
      BY <2>2, <1>m, GoToLaunchStep, Zenon DEF TypeInv, Call
    <2>. QED  BY <1>f, <2>1, <2>2, Zenon DEF AcquiredFresh
  <1>n. ASSUME row' = [row EXCEPT ![m.key] = MaterializingRow(m)], AcquiredFresh(c),
               reserved' \in Nat, UNCHANGED <<clock, vm, late, faults>>
        PROVE  TypeInv'
    BY <1>n, <1>m, <1>r, <1>f, Zenon DEF TypeInv, TypeOK, IdsAreSet, Charged, OthersKeep
  <1>1. CASE AcquireAbsent(c)
    BY <1>1, <1>c, <1>n, Zenon DEF AcquireAbsent
  <1>2. CASE AcquireExpired(c)
    BY <1>2, <1>n, Zenon DEF AcquireExpired, TypeInv, TypeOK
  <1>3. CASE AcquireLost(c)
    BY <1>3, <1>c, <1>n, Zenon DEF AcquireLost
  <1>4. CASE TakeExpiredAttempt(c)
    <2> DEFINE r == row[m.key]
               e == IF m.start + AttemptMs <= LeaseExpires(r)
                    THEN m.start + AttemptMs ELSE LeaseExpires(r)
    <2>1. e \in Nat
      BY <1>m, TimeAssumption DEF LeaseExpires, Call, Row
    <2>2. /\ row' = [row EXCEPT ![m.key].attempt = m.attempt, ![m.key].attemptExpires = e]
          /\ r.state = "materializing"
          /\ caller' = [caller EXCEPT ![c].pc = "launch", ![c].id = r.id, ![c].gen = r.gen,
                                      ![c].start = r.start, ![c].seal = r.seal,
                                      ![c].recovery = TRUE]
          /\ UNCHANGED <<clock, reserved, vm, late, faults>>
      BY <1>4, Zenon DEF TakeExpiredAttempt
    <2>. HIDE DEF e
    <2>3. row' \in [Keys -> Row] /\ \A k \in Keys : row'[k].id = row[k].id
                                                   /\ row'[k].state = row[k].state
      BY <2>1, <2>2, <1>m, Zenon DEF Row, Call, TypeInv, TypeOK
    <2>4. /\ caller' \in [Callers -> Call] /\ OthersKeep(c)
          /\ caller'[c].id = r.id
      BY <2>2, <1>m, ZenonT(60) DEF Row, Call, TypeInv, TypeOK, OthersKeep
    <2>. QED  BY <2>2, <2>3, <2>4, <1>m, ZenonT(60) DEF TypeInv, TypeOK, IdsAreSet, Charged, OthersKeep
  <1>5. CASE AcquireInstalled(c)
    <2>1. CASE HoldRow(c, "confirm", "purge", m.key)
      BY <2>1, <1>5, <1>m, HoldRowStep
      DEF AcquireInstalled, TypeInv, TypeOK, IdsAreSet, Charged, OthersKeep
    <2>2. CASE Return(c)
      BY <2>2, <1>5, ReturnStep, IdleType, Zenon
      DEF AcquireInstalled, TypeInv, TypeOK, IdsAreSet, Charged, OthersKeep
    <2>. QED  BY <1>5, <2>1, <2>2, Zenon DEF AcquireInstalled
  <1>6. CASE AcquireRefused(c)
    BY <1>6, ReturnStep, IdleType, Zenon
    DEF AcquireRefused, TypeInv, TypeOK, IdsAreSet, Charged, OthersKeep
  <1>. QED  BY <1>1, <1>2, <1>3, <1>4, <1>5, <1>6, Zenon DEF Acquire

\* A step that leaves the table alone and moves one call to a state whose
\* identifier is well typed.
LEMMA CallerOnlyType ==
  ASSUME TypeInv, NEW c \in Callers,
         caller' \in [Callers -> Call], OthersKeep(c),
         caller'[c].pc \notin {"idle", "purge_terminal"} => caller'[c].id \in Ids,
         UNCHANGED <<row, reserved>>,
         clock' \in Nat, vm' \in [Ids -> Vm], faults' \in Nat,
         late' \subseteq [key : Keys, id : Ids, until : Nat]
  PROVE  TypeInv'
  BY Zenon DEF TypeInv, TypeOK, IdsAreSet, Charged, OthersKeep

\* RunMicrovm keeps the provider well typed.
LEMMA ProviderRunType ==
  ASSUME TypeInv, NEW i \in Ids, ProviderRun(i)
  PROVE  vm' \in [Ids -> Vm]
  BY TimeAssumption DEF TypeInv, TypeOK, ProviderRun, Vm

\* TerminateMicrovm keeps the provider well typed.
LEMMA TerminateType ==
  ASSUME TypeInv, NEW i \in Ids, Terminate(i)
  PROVE  vm' \in [Ids -> Vm]
  BY RecordTypes DEF TypeInv, TypeOK, Terminate, Vm

\* A RunMicrovm call that nobody waits for any more is recorded well typed.
LEMMA AbandonType ==
  ASSUME TypeInv, NEW c \in Callers, Abandon(c)
  PROVE  late' \subseteq [key : Keys, id : Ids, until : Nat]
  <1>1. caller[c] \in Call /\ (caller[c].pc = "run" => caller[c].id \in Ids)
    BY Zenon DEF TypeInv, TypeOK, IdsAreSet
  <1>. QED  BY <1>1 DEF Abandon, TypeInv, TypeOK, Call

\* Every continuation of a call keeps the types.
LEMMA ContinueType ==
  ASSUME TypeInv, NEW c \in Callers, Continue(c)
  PROVE  TypeInv'
  <1> DEFINE m == caller[c]
  <1>m. /\ m \in Call /\ m.key \in Keys /\ row[m.key] \in Row
        /\ m.pc \notin {"idle", "purge_terminal"} => m.id \in Ids
    BY Zenon DEF TypeInv, TypeOK, IdsAreSet, Call
  <1>t. TypeOK
    BY Zenon DEF TypeInv
  <1>s. CapacitySubtract => reserved' \in Nat
    BY CapacityAssumption DEF CapacitySubtract, TypeInv, TypeOK
  <1>1. CASE Acquire(c)
    BY <1>1, AcquireType, Zenon
  <1>2. CASE LaunchAdmitted(c)
    <2> DEFINE n == clock + TransitMs
    <2>0. n \in Nat
      BY <1>t, TimeAssumption DEF TypeOK
    <2>1. /\ m.pc = "launch"
          /\ caller' = [caller EXCEPT ![c].pc = "run", ![c].start = 0, ![c].seal = 0,
                                      ![c].until = n]
      BY <1>2, Zenon DEF LaunchAdmitted
    <2>. HIDE DEF n
    <2>2. caller' \in [Callers -> Call] /\ OthersKeep(c) /\ caller'[c].id = m.id
      BY <2>0, <2>1, <1>m, <1>t, ZenonT(60) DEF OthersKeep, TypeOK, Call
    <2>. QED  BY <1>2, <2>1, <2>2, <1>m, <1>t, CallerOnlyType, Zenon DEF LaunchAdmitted, TypeOK
  <1>3. CASE LaunchRefused(c)
    BY <1>3, <1>m, <1>t, ReturnStep, RefundStep, IdleType, CallerOnlyType, Zenon
    DEF LaunchRefused, TypeOK
  <1>4. CASE RunOk(c)
    BY <1>4, <1>m, <1>t, HoldStep, ProviderRunType, CallerOnlyType, Zenon DEF RunOk, TypeOK
  <1>5. CASE RunRejected(c)
    BY <1>5, <1>m, <1>t, ReturnStep, RefundStep, IdleType, CallerOnlyType, Zenon
    DEF RunRejected, TypeOK
  <1>6. CASE RunUnknown(c)
    BY <1>6, <1>t, ReturnStep, IdleType, AbandonType, CallerOnlyType, Zenon DEF RunUnknown, TypeOK
  <1>7. CASE Install(c)
    <2>1. m.pc = "install" /\ m.id \in Ids
      BY <1>7, <1>m, Zenon DEF Install
    <2>2. /\ caller' \in [Callers -> Call] /\ OthersKeep(c)
          /\ caller'[c].pc \notin {"idle", "purge_terminal"} => caller'[c].id \in Ids
      BY <1>7, <2>1, <1>t, HoldStep, ReturnStep, IdleType, Zenon DEF Install
    <2>3. InstalledRow(m, row[m.key].start) \in Row
      BY <1>m, <2>1, Zenon DEF InstalledRow, Row, Call
    <2>4. /\ row' \in [Keys -> Row]
          /\ \A k \in Keys : Charged(k)' => row'[k].id \in Ids
      BY <1>7, <1>m, <2>1, <2>3, Zenon
      DEF Install, TypeInv, TypeOK, IdsAreSet, Charged, InstalledRow
    <2>. QED  BY <1>7, <2>2, <2>4, Zenon DEF Install, TypeInv, TypeOK, IdsAreSet, OthersKeep
  <1>8. CASE TerminateStale(c)
    BY <1>8, <1>m, <1>t, ReturnStep, IdleType, TerminateType, CallerOnlyType, Zenon
    DEF TerminateStale, TypeOK
  <1>9. CASE ExpireLease(c)
    <2>1. caller' \in [Callers -> Call] /\ OthersKeep(c) /\ caller'[c].pc = "idle"
      BY <1>9, <1>t, ReturnStep, IdleType, Zenon DEF ExpireLease
    <2>2. /\ row' \in [Keys -> Row] /\ reserved' \in Nat
          /\ \A k \in Keys : Charged(k)' => row'[k].id \in Ids
      BY <1>9, <1>s, <1>m, RecordTypes, Zenon DEF ExpireLease, TypeInv, TypeOK, IdsAreSet, Charged
    <2>. QED  BY <1>9, <2>1, <2>2, Zenon DEF ExpireLease, TypeInv, TypeOK, IdsAreSet, OthersKeep
  <1>10. CASE ConfirmTermination(c)
    BY <1>10, <1>m, <1>t, HoldStep, ReturnStep, IdleType, TerminateType, CallerOnlyType, Zenon
    DEF ConfirmTermination, TypeOK
  <1>11. CASE MarkClosed(c)
    <2>1. /\ caller' \in [Callers -> Call] /\ OthersKeep(c)
          /\ caller'[c].pc \in {"idle", "purge_terminal"}
      BY <1>11, <1>t, HoldStep, ReturnStep, IdleType, Zenon DEF MarkClosed
    <2>2. ClosedRow(m) \in Row /\ ClosedRow(m).state \notin {"materializing", "installed"}
      BY <1>m, Zenon DEF ClosedRow, Disposition, Row, Call
    <2>3. /\ row' \in [Keys -> Row] /\ reserved' \in Nat
          /\ \A k \in Keys : Charged(k)' => row'[k].id \in Ids
      BY <1>11, <1>s, <1>m, <2>2, Zenon DEF MarkClosed, TypeInv, TypeOK, IdsAreSet, Charged
    <2>. QED  BY <1>11, <2>1, <2>3, Zenon DEF MarkClosed, TypeInv, TypeOK, IdsAreSet, OthersKeep
  <1>12. CASE PurgeExpired(c)
    BY <1>12, <1>m, <1>t, RefundStep, CallerOnlyType, Zenon DEF PurgeExpired, TypeOK
  <1>13. CASE PurgeUnresolved(c)
    BY <1>13, <1>t, ReturnStep, IdleType, CallerOnlyType, Zenon DEF PurgeUnresolved, TypeOK
  <1>14. ASSUME NEW a \in Ids, PurgeRecover(c, a)
         PROVE  TypeInv'
    <2>1. /\ caller' \in [Callers -> Call] /\ OthersKeep(c)
          /\ caller'[c].id = m.id /\ m.pc = "listed"
      BY <1>14, <1>m, <1>t, ZenonT(60) DEF PurgeRecover, OthersKeep, TypeOK, Call
    <2>2. vm' \in [Ids -> Vm]
      BY <1>14, <1>t, RecordTypes, ZenonT(60) DEF PurgeRecover, TypeOK
    <2>. QED  BY <1>14, <2>1, <2>2, <1>m, <1>t, CallerOnlyType, Zenon DEF PurgeRecover, TypeOK
  <1>15. CASE PurgeTerminal(c)
    <2>1. caller' \in [Callers -> Call] /\ OthersKeep(c) /\ caller'[c].pc = "idle"
      BY <1>15, <1>t, ReturnStep, IdleType, Zenon DEF PurgeTerminal
    <2>2. /\ row' \in [Keys -> Row]
          /\ \A k \in Keys : Charged(k)' => row'[k].id \in Ids
      BY <1>15, <1>m, RecordTypes, Zenon DEF PurgeTerminal, TypeInv, TypeOK, IdsAreSet, Charged
    <2>. QED  BY <1>15, <2>1, <2>2, Zenon DEF PurgeTerminal, TypeInv, TypeOK, IdsAreSet, OthersKeep
  <1>. QED
    BY <1>1, <1>2, <1>3, <1>4, <1>5, <1>6, <1>7, <1>8, <1>9, <1>10, <1>11, <1>12,
       <1>13, <1>14, <1>15
    DEF Continue, Launch, Run, PurgeDecide

\* Every call Brain may start, materialization, closing or purge, keeps the types.
LEMMA StartType ==
  ASSUME TypeInv, NEW c \in Callers, Start(c)
  PROVE  TypeInv'
  <1>t. TypeOK
    BY Zenon DEF TypeInv
  <1>1. ASSUME NEW k \in Keys, NEW i \in Ids, NEW g \in Generations, Materialize(c, k, i, g)
        PROVE  TypeInv'
    <2>1. caller' \in [Callers -> Call] /\ OthersKeep(c) /\ caller'[c].id = i
      BY <1>1, <1>t, Zenon DEF Materialize, OthersKeep, TypeOK, Call
    <2>2. vm' \in [Ids -> Vm]
      BY <1>1, <1>t, RecordTypes, Zenon DEF Materialize, TypeOK
    <2>. QED  BY <1>1, <2>1, <2>2, <1>t, CallerOnlyType, Zenon DEF Materialize, TypeOK
  <1>2. ASSUME NEW k \in Keys, LoseTarget(c, k)
        PROVE  TypeInv'
    BY <1>2, <1>t, HoldRowStep, CallerOnlyType, Zenon
    DEF LoseTarget, TypeInv, TypeOK, IdsAreSet, Charged, Installed
  <1>3. ASSUME NEW k \in Keys, TerminateTarget(c, k)
        PROVE  TypeInv'
    BY <1>3, <1>t, HoldRowStep, CallerOnlyType, Zenon
    DEF TerminateTarget, TypeInv, TypeOK, IdsAreSet, Charged, Installed
  <1>4. ASSUME NEW k \in Keys, PurgeList(c, k)
        PROVE  TypeInv'
    <2>1. CASE row[k].state = "installed" /\ HoldRow(c, "confirm", "purge", k)
      BY <2>1, <1>4, <1>t, HoldRowStep, CallerOnlyType, Zenon
      DEF PurgeList, TypeInv, TypeOK, IdsAreSet, Charged
    <2>2. CASE HoldRow(c, "purge_terminal", "purge", k)
      BY <2>2, <1>4, <1>t, HoldRowStep, CallerOnlyType, Zenon DEF PurgeList, TypeOK
    <2>3. CASE /\ row[k].state = "materializing"
               /\ caller' = [caller EXCEPT ![c] =
                    [pc |-> "listed", op |-> "purge", key |-> k, id |-> row[k].id,
                     gen |-> row[k].gen, attempt |-> row[k].attempt, start |-> row[k].start,
                     seal |-> row[k].seal, recovery |-> TRUE,
                     until |-> row[k].attemptExpires]]
      <3>1. row[k] \in Row /\ row[k].id \in Ids
        BY <2>3, Zenon DEF TypeInv, TypeOK, IdsAreSet, Charged
      <3>2. caller' \in [Callers -> Call] /\ OthersKeep(c) /\ caller'[c].id = row[k].id
        BY <2>3, <3>1, <1>t DEF TypeOK, OthersKeep, Call, Row
      <3>. QED  BY <1>4, <3>1, <3>2, <1>t, CallerOnlyType, Zenon DEF PurgeList, TypeOK
    <2>. QED  BY <1>4, <2>1, <2>2, <2>3, Zenon DEF PurgeList
  <1>. QED  BY <1>1, <1>2, <1>3, <1>4, Zenon DEF Start

\* Crashes, late provider effects, stopping microVMs and time keep the types.
LEMMA EnvironmentType ==
  ASSUME TypeInv, Environment
  PROVE  TypeInv'
  <1>t. TypeOK
    BY Zenon DEF TypeInv
  <1>1. ASSUME NEW c \in Callers, Fault(c)
        PROVE  TypeInv'
    BY <1>1, <1>t, ReturnStep, IdleType, AbandonType, CallerOnlyType DEF Fault, TypeOK
  <1>2. ASSUME NEW run \in late, LateRun(run) \/ LateRunLost(run)
        PROVE  TypeInv'
    <2>1. run.id \in Ids
      BY Zenon DEF TypeInv, TypeOK
    <2>2. vm' \in [Ids -> Vm]
      BY <1>2, <2>1, <1>t, ProviderRunType, Zenon DEF LateRun, LateRunLost, TypeOK
    <2>. QED  BY <1>2, <2>2, Zenon DEF LateRun, LateRunLost, TypeInv, TypeOK, IdsAreSet, Charged
  <1>3. ASSUME NEW i \in Ids, VmStops(i)
        PROVE  TypeInv'
    BY <1>3, RecordTypes, Zenon DEF VmStops, TypeInv, TypeOK, IdsAreSet, Charged
  <1>4. CASE Tick
    BY <1>4, RecordTypes DEF Tick, TypeInv, TypeOK, IdsAreSet, Charged
  <1>. QED  BY <1>1, <1>2, <1>3, <1>4, Zenon DEF Environment

\* Every step of the registry, the provider or a call keeps the types and the
\* identifiers set.
LEMMA TypeStep == TypeInv /\ [Next]_vars => TypeInv'
  <1> SUFFICES ASSUME TypeInv, [Next]_vars PROVE TypeInv'
    OBVIOUS
  <1>1. CASE Next
    BY <1>1, EnvironmentType, StartType, ContinueType, Zenon DEF Next
  <1>2. CASE UNCHANGED vars
    BY <1>2, Zenon DEF vars, TypeInv, TypeOK, IdsAreSet, Charged
  <1>. QED  BY <1>1, <1>2, Zenon

\* Every variable keeps its type in every behaviour: in particular the
\* capacity counter never goes below zero, whatever refunds race.
THEOREM TypeCorrect == Spec => []TypeOK
  <1>1. Spec => []TypeInv
    BY TypeInit, TypeStep, PTL DEF Spec
  <1>2. TypeInv => TypeOK
    BY Zenon DEF TypeInv
  <1>. QED  BY <1>1, <1>2, PTL

-----------------------------------------------------------------------------
(* Capacity accounting *)

CapacityInv == TypeInv /\ CapacityIsExact

\* There are finitely many charged rows, because there are finitely many keys.
LEMMA ChargedFinite == IsFiniteSet(ChargedKeys) /\ Cardinality(ChargedKeys) \in Nat
  <1>1. ChargedKeys \subseteq Keys
    BY Zenon DEF ChargedKeys
  <1>2. IsFiniteSet(ChargedKeys)
    BY <1>1, KeyAssumption, FS_Subset, Zenon
  <1>. QED  BY <1>2, FS_CardinalityType, Zenon

\* The arithmetic of charging or refunding one row of the resource class.
LEMMA Distributes ==
  ASSUME NEW n \in Nat
  PROVE  Mib * (n + 1) = Mib * n + Mib
  BY CapacityAssumption

\* Charging a row that was not charged.
LEMMA ChargeStep ==
  ASSUME CapacityInv, CapacityAdd, NEW k \in Keys, ~Charged(k), Charged(k)',
         \A l \in Keys \ {k} : row'[l] = row[l]
  PROVE  CapacityIsExact'
  <1>1. ChargedKeys' = ChargedKeys \cup {k} /\ k \notin ChargedKeys
    BY Zenon DEF ChargedKeys, Charged
  <1>2. Cardinality(ChargedKeys') = Cardinality(ChargedKeys) + 1
    BY <1>1, ChargedFinite, FS_AddElement, Zenon
  <1>3. Mib * Cardinality(ChargedKeys') = reserved + Mib
    BY <1>2, ChargedFinite, Distributes, Zenon DEF CapacityInv, CapacityIsExact
  <1>. QED  BY <1>3, Zenon DEF CapacityAdd, CapacityIsExact

\* Refunding a row that was charged.
LEMMA RefundRowStep ==
  ASSUME CapacityInv, CapacitySubtract, NEW k \in Keys, Charged(k), ~Charged(k)',
         \A l \in Keys \ {k} : row'[l] = row[l]
  PROVE  CapacityIsExact'
  <1>1. ChargedKeys' = ChargedKeys \ {k} /\ k \in ChargedKeys
    BY Zenon DEF ChargedKeys, Charged
  <1>2. /\ IsFiniteSet(ChargedKeys')
        /\ Cardinality(ChargedKeys) = Cardinality(ChargedKeys') + 1
    <2>1. Cardinality(ChargedKeys') = Cardinality(ChargedKeys) - 1
      BY <1>1, ChargedFinite, FS_RemoveElement, Zenon
    <2>2. IsFiniteSet(ChargedKeys')
      BY <1>1, ChargedFinite, FS_RemoveElement, Zenon
    <2>. QED  BY <2>1, <2>2, ChargedFinite
  <1>3. Cardinality(ChargedKeys') \in Nat
    BY <1>2, FS_CardinalityType, Zenon
  <1>4. reserved = Mib * Cardinality(ChargedKeys') + Mib
    BY <1>2, <1>3, Distributes, Zenon DEF CapacityInv, CapacityIsExact
  <1>5. Mib * Cardinality(ChargedKeys') \in Nat
    BY <1>3, CapacityAssumption
  <1>. QED
    BY <1>4, <1>5, CapacityAssumption
    DEF CapacitySubtract, CapacityInv, CapacityIsExact, TypeInv, TypeOK

\* Steps that charge and refund nothing.
LEMMA SameChargeStep ==
  ASSUME CapacityInv, reserved' = reserved,
         \A k \in Keys : Charged(k)' <=> Charged(k)
  PROVE  CapacityIsExact'
  <1>1. ChargedKeys' = ChargedKeys
    BY Zenon DEF ChargedKeys
  <1>. QED  BY <1>1, Zenon DEF CapacityInv, CapacityIsExact

\* Every continuation of a call charges what it reserves and refunds what it
\* deletes or closes, exactly once.
LEMMA CapacityContinue ==
  ASSUME CapacityInv, NEW c \in Callers, Continue(c)
  PROVE  CapacityIsExact'
  <1> DEFINE m == caller[c]
  <1>0. m \in Call /\ row \in [Keys -> Row]
    BY Zenon DEF CapacityInv, TypeInv, TypeOK
  <1>k. PICK k \in Keys : k = m.key
    BY <1>0, Zenon DEF Call
  <1>m. m \in Call /\ m.key = k /\ row \in [Keys -> Row]
    BY <1>0, <1>k, Zenon
  <1>r. MaterializingRow(m).state = "materializing"
    BY Zenon DEF MaterializingRow
  <1>1. CASE AcquireAbsent(c) \/ AcquireLost(c)
    <2>1. ~Charged(k) /\ Charged(k)' /\ CapacityAdd /\ \A l \in Keys \ {k} : row'[l] = row[l]
      BY <1>1, <1>m, <1>r, Zenon DEF AcquireAbsent, AcquireLost, Charged
    <2>. QED  BY <2>1, <1>m, ChargeStep, Zenon
  <1>2. CASE AcquireExpired(c)
    <2>1. reserved' = reserved /\ \A l \in Keys : Charged(l)' <=> Charged(l)
      BY <1>2, <1>m, <1>r, Zenon DEF AcquireExpired, Charged
    <2>. QED  BY <2>1, SameChargeStep, Zenon
  <1>3. CASE TakeExpiredAttempt(c)
    <2>1. reserved' = reserved /\ \A l \in Keys : Charged(l)' <=> Charged(l)
      BY <1>3, <1>m, Zenon DEF TakeExpiredAttempt, Charged, Row
    <2>. QED  BY <2>1, SameChargeStep, Zenon
  <1>4. CASE Install(c)
    <2>1. InstalledRow(m, row[k].start).state = "installed"
      BY Zenon DEF InstalledRow
    <2>2. reserved' = reserved /\ \A l \in Keys : Charged(l)' <=> Charged(l)
      BY <1>4, <1>m, <2>1, Zenon DEF Install, Charged
    <2>. QED  BY <2>2, SameChargeStep, Zenon
  <1>5. CASE ExpireLease(c)
    <2>1. CASE row[k].state = "materializing" /\ row[k].id = m.id
               /\ row[k].gen = m.gen /\ row[k].attempt = m.attempt
      <3>1. /\ Charged(k) /\ ~Charged(k)' /\ CapacitySubtract
            /\ \A l \in Keys \ {k} : row'[l] = row[l]
        BY <1>5, <2>1, <1>m, RecordTypes, Zenon DEF ExpireLease, Charged
      <3>. QED  BY <3>1, <1>m, RefundRowStep, Zenon
    <2>2. CASE ~(row[k].state = "materializing" /\ row[k].id = m.id
               /\ row[k].gen = m.gen /\ row[k].attempt = m.attempt)
      <3>1. reserved' = reserved /\ row' = row
        BY <1>5, <2>2, <1>m, Zenon DEF ExpireLease
      <3>. QED  BY <3>1, SameChargeStep, Zenon DEF Charged
    <2>. QED  BY <2>1, <2>2, Zenon
  <1>6. CASE MarkClosed(c)
    <2>0. ClosedRow(m).state \in {"lost", "terminated"}
      BY Zenon DEF ClosedRow, Disposition
    <2>1. CASE Installed(row[k]) /\ row[k].id = m.id /\ row[k].gen = m.gen
      <3>1. /\ Charged(k) /\ ~Charged(k)' /\ CapacitySubtract
            /\ \A l \in Keys \ {k} : row'[l] = row[l]
        BY <1>6, <2>0, <2>1, <1>m, Zenon DEF MarkClosed, Charged, Installed
      <3>. QED  BY <3>1, <1>m, RefundRowStep, Zenon
    <2>2. CASE ~(Installed(row[k]) /\ row[k].id = m.id /\ row[k].gen = m.gen)
      <3>1. reserved' = reserved /\ row' = row
        BY <1>6, <2>2, <1>m, Zenon DEF MarkClosed
      <3>. QED  BY <3>1, SameChargeStep, Zenon DEF Charged
    <2>. QED  BY <2>1, <2>2, Zenon
  <1>7. CASE PurgeTerminal(c)
    <2>1. reserved' = reserved /\ \A l \in Keys : Charged(l)' <=> Charged(l)
      BY <1>7, <1>m, RecordTypes, Zenon DEF PurgeTerminal, Charged
    <2>. QED  BY <2>1, SameChargeStep, Zenon
  <1>8. CASE UNCHANGED <<row, reserved>>
    BY <1>8, SameChargeStep, Zenon DEF Charged
  <1>9. \/ AcquireInstalled(c) \/ AcquireRefused(c) \/ Launch(c) \/ Run(c)
        \/ TerminateStale(c) \/ ConfirmTermination(c) \/ PurgeDecide(c)
        => UNCHANGED <<row, reserved>>
    BY Zenon
    DEF AcquireInstalled, AcquireRefused, Launch, LaunchAdmitted, LaunchRefused, Run, RunOk,
        RunRejected, RunUnknown, TerminateStale, ConfirmTermination, PurgeDecide, PurgeExpired,
        PurgeUnresolved, PurgeRecover
  <1>. QED
    BY <1>1, <1>2, <1>3, <1>4, <1>5, <1>6, <1>7, <1>8, <1>9, Zenon DEF Continue, Acquire

\* Every step keeps the capacity item equal to what the table holds.
LEMMA CapacityStep == CapacityInv /\ [Next]_vars => CapacityInv'
  <1> SUFFICES ASSUME CapacityInv, [Next]_vars PROVE CapacityIsExact'
    BY TypeStep, Zenon DEF CapacityInv
  <1>1. ASSUME NEW c \in Callers, Continue(c)
        PROVE  CapacityIsExact'
    BY <1>1, CapacityContinue, ZenonT(60)
  <1>2. Environment \/ (\E c \in Callers : Start(c)) \/ UNCHANGED vars
        => UNCHANGED <<row, reserved>>
    BY ZenonT(60) DEF Environment, Fault, LateRun, LateRunLost, VmStops, Tick,
                      Start, Materialize, LoseTarget, TerminateTarget, PurgeList, vars
  <1>3. UNCHANGED <<row, reserved>> => CapacityIsExact'
    BY SameChargeStep, Zenon DEF Charged
  <1>. QED  BY <1>1, <1>2, <1>3, Zenon DEF Next

\* The capacity item is exact in every behaviour: it counts each materializing
\* or installed row once and stays within the plane's allocation, for any
\* number of keys and callers and any interleaving of their transactions.
THEOREM CapacityCorrect == Spec => []CapacityIsExact
  <1>1. Init => CapacityInv
    <2> SUFFICES ASSUME Init PROVE CapacityIsExact
      BY TypeInit, Zenon DEF CapacityInv
    <2>1. ChargedKeys = {}
      BY RecordTypes, Zenon DEF Init, ChargedKeys, Charged
    <2>. QED  BY <2>1, FS_EmptySet, CapacityAssumption DEF Init, CapacityIsExact
  <1>2. CapacityInv => CapacityIsExact
    BY Zenon DEF CapacityInv
  <1>. QED  BY <1>1, <1>2, CapacityStep, PTL DEF Spec
-----------------------------------------------------------------------------
(* Tombstones *)

\* No transaction writes over a tombstone; only purge_terminal deletes it.
LEMMA TombstoneContinue ==
  ASSUME TypeInv, NEW c \in Callers, Continue(c), NEW k \in Keys, Tombstoned(k)
  PROVE  row'[k] \in {row[k], NoRow}
  <1> DEFINE m == caller[c]
  <1>0. m \in Call /\ row \in [Keys -> Row]
    BY Zenon DEF TypeInv, TypeOK
  <1>l. PICK l \in Keys : l = m.key
    BY <1>0, Zenon DEF Call
  <1>t. row[k].state \in {"lost", "terminated"} /\ (row[k].state = "lost" => k \notin DefaultKeys)
    BY Zenon DEF Tombstoned
  <1>1. CASE AcquireAbsent(c) \/ AcquireExpired(c) \/ AcquireLost(c) \/ TakeExpiredAttempt(c)
    <2>1. l # k /\ \A j \in Keys \ {l} : row'[j] = row[j]
      BY <1>1, <1>0, <1>l, <1>t, Zenon
      DEF AcquireAbsent, AcquireExpired, AcquireLost, TakeExpiredAttempt, ReplaceAfterLoss
    <2>. QED  BY <2>1, Zenon
  <1>2. CASE Install(c) \/ ExpireLease(c) \/ MarkClosed(c)
    BY <1>2, <1>0, <1>l, <1>t, Zenon DEF Install, ExpireLease, MarkClosed, Installed
  <1>3. CASE PurgeTerminal(c)
    BY <1>3, <1>0, <1>l, Zenon DEF PurgeTerminal
  <1>4. \/ AcquireInstalled(c) \/ AcquireRefused(c) \/ Launch(c) \/ Run(c)
        \/ TerminateStale(c) \/ ConfirmTermination(c) \/ PurgeDecide(c)
        => UNCHANGED row
    BY Zenon
    DEF AcquireInstalled, AcquireRefused, Launch, LaunchAdmitted, LaunchRefused, Run, RunOk,
        RunRejected, RunUnknown, TerminateStale, ConfirmTermination, PurgeDecide, PurgeExpired,
        PurgeUnresolved, PurgeRecover
  <1>. QED  BY <1>1, <1>2, <1>3, <1>4, Zenon DEF Continue, Acquire

\* A terminated target, and a lost target that is not a default one, is not
\* brought back by any retry, recovery or late caller (acquire, install and
\* mark_closed are conditional on the state of the row).
THEOREM TombstonesCorrect == Spec => TombstonesHold
  <1>1. TypeInv /\ [Next]_vars
        => [\A k \in Keys : Tombstoned(k) => row'[k] \in {row[k], NoRow}]_vars
    <2> SUFFICES ASSUME TypeInv, Next, NEW k \in Keys, Tombstoned(k)
                 PROVE  row'[k] \in {row[k], NoRow}
      OBVIOUS
    <2>1. Environment \/ (\E c \in Callers : Start(c)) => UNCHANGED row
      BY ZenonT(60) DEF Environment, Fault, LateRun, LateRunLost, VmStops, Tick,
                        Start, Materialize, LoseTarget, TerminateTarget, PurgeList
    <2>. QED  BY <2>1, TombstoneContinue, ZenonT(60) DEF Next
  <1>. QED  BY <1>1, TypeInit, TypeStep, PTL DEF Spec, TombstonesHold

-----------------------------------------------------------------------------
(* The fence *)

\* The fence holds in every behaviour of the registry, the launcher, the closing
\* transitions and the purge.
LEMMA FenceHolds == Spec => [](TypeInv /\ FenceInv)
  BY TypeInit, TypeStep, FenceInit, FenceStep, PTL DEF Spec

\* Every microVM that occupies provider memory is named by a charged row, for
\* any number of keys, calls, crashes, lost answers and late provider effects:
\* the deadlines of launch_dispatch_deadline and the attempt in the condition
\* of expire_lease are enough to know that a refunded microVM cannot exist.
THEOREM LiveTargetsCorrect == Spec => []LiveTargetsAreCharged
  <1>1. TypeInv /\ FenceInv => LiveTargetsAreCharged
    BY Zenon DEF FenceInv, LiveWithinLease, LiveTargetsAreCharged
  <1>. QED  BY <1>1, FenceHolds, PTL

\* A call whose install lost its reservation never terminates the live microVM
\* that another call installed (terminate_stale).
THEOREM CleanupCorrect == Spec => []CleanupSparesInstalled
  <1>1. TypeInv /\ FenceInv => CleanupSparesInstalled
    BY Zenon DEF FenceInv, TargetsExist, CleanupSparesInstalled, Alive
  <1>. QED  BY <1>1, FenceHolds, PTL

-----------------------------------------------------------------------------
(* The token bucket that spaces the provider calls of the launches *)

CONSTANTS Launches, Interval, Burst, MaxAttempts, MaxBackoff
VARIABLES now, arrival, launch, grants

Pacing == INSTANCE LaunchPacing

Bucket ==
    /\ now \in Nat /\ grants \in Seq(Nat)
    /\ \/ arrival = <<>> /\ grants = <<>>
       \/ arrival # <<>> /\ grants # <<>> /\ arrival[1] \in Int

\* The theoretical arrival time is ahead of every grant by an interval for the
\* grant itself and one for each grant after it.
ArrivalIsAhead ==
    grants # <<>> => \A i \in 1..Len(grants) :
        arrival[1] >= grants[i] + Interval * (Len(grants) - i + 1)

PaceInv == Bucket /\ ArrivalIsAhead /\ Pacing!WithinRate

\* Multiples of the interval are added and subtracted term by term.
LEMMA Intervals ==
  Pacing!Parameters =>
  /\ \A x \in Int : Interval * x \in Int
  /\ Interval * 1 = Interval
  /\ \A x, y \in Int : Interval * (x - y) = Interval * x - Interval * y
  /\ \A x \in Int : Interval * (x + 1) = Interval * x + Interval
  BY DEF Pacing!Parameters

\* What reserve grants and stores.
LEMMA ReserveStep ==
  ASSUME Pacing!Parameters, PaceInv, Pacing!Reserve
  PROVE  /\ Pacing!AdmittedAt \in Nat /\ grants' = Append(grants, Pacing!AdmittedAt)
         /\ arrival' # <<>> /\ arrival'[1] \in Int /\ arrival'[1] >= Pacing!AdmittedAt + Interval
         /\ grants # <<>> => /\ arrival'[1] >= arrival[1] + Interval
                             /\ Pacing!AdmittedAt >= arrival[1] - Interval * (Burst - 1)
  <1> DEFINE tol == Interval * (Burst - 1)
  <1>1. tol \in Nat /\ Pacing!Tolerance = tol
    <2>1. Burst - 1 \in Nat /\ Interval \in Nat
      BY DEF Pacing!Parameters
    <2>2. \A x, y \in Nat : x * y \in Nat
      OBVIOUS
    <2>. QED  BY <2>1, <2>2 DEF Pacing!Tolerance
  <1>. HIDE DEF tol
  <1>2. Pacing!Prior \in Int /\ (grants # <<>> => Pacing!Prior = arrival[1]) /\ now \in Nat /\ Interval \in Nat
    BY DEF Pacing!Parameters, PaceInv, Bucket, Pacing!Prior
  <1>3. Pacing!AdmittedAt \in Nat /\ Pacing!AdmittedAt >= Pacing!Prior - tol
    BY <1>1, <1>2 DEF Pacing!AdmittedAt, Pacing!Larger
  <1>4. /\ Pacing!Larger(Pacing!Prior, Pacing!AdmittedAt) \in Int
        /\ Pacing!Larger(Pacing!Prior, Pacing!AdmittedAt) >= Pacing!Prior /\ Pacing!Larger(Pacing!Prior, Pacing!AdmittedAt) >= Pacing!AdmittedAt
    BY <1>2, <1>3 DEF Pacing!Larger
  <1>5. arrival' = <<Pacing!Larger(Pacing!Prior, Pacing!AdmittedAt) + Interval>> /\ grants' = Append(grants, Pacing!AdmittedAt)
    BY DEF Pacing!Reserve
  <1>6. arrival' # <<>> /\ arrival'[1] = Pacing!Larger(Pacing!Prior, Pacing!AdmittedAt) + Interval
    BY <1>5
  <1>7. grants # <<>> => Pacing!AdmittedAt >= arrival[1] - Interval * (Burst - 1)
    BY <1>2, <1>3 DEF tol
  <1>. QED  BY <1>2, <1>3, <1>4, <1>5, <1>6, <1>7

\* A grant keeps the rate against all grants before it.
LEMMA ReservePace ==
  ASSUME Pacing!Parameters, PaceInv, Pacing!Reserve, now' = now
  PROVE  PaceInv'
  <1> DEFINE n == Len(grants)
             a == Pacing!AdmittedAt
             x == arrival[1]
             y == arrival'[1]
  <1>1. /\ n \in Nat /\ a \in Nat /\ Interval \in Nat /\ Burst \in Nat
        /\ grants \in Seq(Nat) /\ grants' = Append(grants, a)
    BY ReserveStep DEF PaceInv, Bucket, Pacing!Parameters
  <1>2. /\ grants' \in Seq(Nat) /\ grants' # <<>> /\ Len(grants') = n + 1
        /\ grants'[n + 1] = a /\ \A i \in 1..n : grants'[i] = grants[i] /\ grants[i] \in Nat
    BY <1>1
  <1>3. /\ arrival' # <<>> /\ y \in Int /\ y >= a + Interval
        /\ grants # <<>> => /\ x \in Int /\ y >= x + Interval
                            /\ a >= x - Interval * (Burst - 1)
    BY ReserveStep DEF PaceInv, Bucket, Pacing!Parameters
  <1>4. \A i \in 1..n : /\ grants # <<>>
                        /\ x >= grants[i] + Interval * (n - i + 1)
    BY <1>1 DEF PaceInv, ArrivalIsAhead
  <1>. HIDE DEF n, a, x, y
  <1>5. Bucket'
    BY <1>2, <1>3 DEF Bucket, PaceInv, y
  <1>6. ArrivalIsAhead'
    <2>1. ASSUME NEW i \in 1..Len(grants')
          PROVE  arrival'[1] >= grants'[i] + Interval * (Len(grants') - i + 1)
      <3>0. Len(grants') = n + 1
        BY <1>2
      <3> DEFINE p == Interval * (n - i + 1)
                 q == Interval * (Len(grants') - i + 1)
      <3>1. p \in Int /\ q \in Int /\ q = p + Interval
        <4>1. n - i + 1 \in Int /\ Len(grants') - i + 1 = (n - i + 1) + 1
          BY <3>0, <1>1
        <4>2. p \in Int /\ Interval * ((n - i + 1) + 1) = p + Interval /\ Interval \in Int
          BY <4>1, <1>1, Intervals
        <4>3. q = p + Interval
          BY <4>1, <4>2
        <4>. HIDE DEF p, q
        <4>. QED  BY <4>2, <4>3
      <3>2. CASE i \in 1..n
        <4>1. x >= grants[i] + p /\ grants # <<>>
          BY <3>2, <1>4
        <4>. HIDE DEF p, q
        <4>2. x \in Int /\ y \in Int /\ y >= x + Interval
          BY <4>1, <1>3
        <4>3. grants'[i] = grants[i] /\ grants[i] \in Nat
          BY <3>2, <1>2
        <4>4. y >= grants'[i] + q
          BY <4>1, <4>2, <4>3, <3>1, <1>1
        <4>. QED  BY <4>4 DEF q, y
      <3>3. CASE i = n + 1
        <4>1. Len(grants') - i + 1 = 1
          BY <3>0, <3>3, <1>1
        <4>2. q = Interval
          BY <4>1, Intervals
        <4>. HIDE DEF p, q
        <4>3. y >= grants'[i] + q
          BY <4>2, <3>3, <1>1, <1>2, <1>3
        <4>. QED  BY <4>3 DEF q, y
      <3>4. i \in 1..n \/ i = n + 1
        BY <3>0, <1>1
      <3>. QED  BY <3>2, <3>3, <3>4
    <2>. QED  BY <2>1 DEF ArrivalIsAhead
  <1>7. Pacing!WithinRate'
    <2>1. ASSUME NEW i \in 1..n + 1, NEW j \in 1..n + 1, i < j
          PROVE  grants'[j] >= grants'[i] + Interval * (j - i - Burst + 1)
      <3>1. i \in 1..n /\ (j \in 1..n \/ j = n + 1)
        BY <2>1, <1>1
      <3>2. CASE j \in 1..n
        <4>1. grants[j] >= grants[i] + Interval * (j - i - Burst + 1)
          BY <2>1, <3>1, <3>2 DEF PaceInv, Pacing!WithinRate, n
        <4>2. grants'[i] = grants[i] /\ grants'[j] = grants[j]
          BY <3>1, <3>2, <1>2
        <4>. QED  BY <4>1, <4>2
      <3>3. CASE j = n + 1
        <4> DEFINE p == Interval * (n - i + 1)
                   q == Interval * (Burst - 1)
                   r == Interval * (j - i - Burst + 1)
        <4>1. p \in Int /\ q \in Int /\ r = p - q
          <5>1. /\ n - i + 1 \in Int /\ Burst - 1 \in Int
                /\ j - i - Burst + 1 = (n - i + 1) - (Burst - 1)
            BY <3>3, <1>1
          <5>. QED  BY <5>1, Intervals
        <4>2. x >= grants[i] + p /\ grants # <<>>
          BY <3>1, <1>4
        <4>3. x \in Int /\ a >= x - q
          BY <4>2, <1>3
        <4>4. /\ grants'[i] = grants[i] /\ grants[i] \in Nat
              /\ grants'[j] = a /\ a \in Nat
          BY <3>1, <3>3, <1>1, <1>2
        <4>. HIDE DEF p, q, r
        <4>5. grants'[j] >= grants'[i] + r
          BY <4>1, <4>2, <4>3, <4>4
        <4>. QED  BY <4>5 DEF r
      <3>. QED  BY <3>1, <3>2, <3>3
    <2>2. Len(grants)' = n + 1
      BY <1>2
    <2>. QED  BY <2>1, <2>2 DEF Pacing!WithinRate
  <1>. QED  BY <1>5, <1>6, <1>7 DEF PaceInv

\* The provider's quota holds for any number of launches and retries: the
\* n-th grant after a grant is at least n - Burst + 1 intervals later.
THEOREM RateCorrect ==
  ASSUME Pacing!Parameters
  PROVE  Pacing!Spec => []Pacing!WithinRate
  <1>1. Pacing!Init => PaceInv
    BY DEF Pacing!Init, PaceInv, Bucket, ArrivalIsAhead, Pacing!WithinRate
  <1>2. PaceInv /\ [Pacing!Next]_(Pacing!vars) => PaceInv'
    <2> SUFFICES ASSUME Pacing!Parameters, PaceInv, [Pacing!Next]_(Pacing!vars) PROVE PaceInv'
      OBVIOUS
    <2>1. CASE Pacing!Reserve /\ now' = now
      BY <2>1, ReservePace
    <2>2. CASE UNCHANGED <<arrival, grants>> /\ now' \in Nat
      BY <2>2 DEF PaceInv, Bucket, ArrivalIsAhead, Pacing!WithinRate
    <2>3. now \in Nat
      BY DEF PaceInv, Bucket
    <2>. QED
      BY <2>1, <2>2, <2>3
      DEF Pacing!Next, Pacing!vars, Pacing!Start, Pacing!Admit, Pacing!AdmitRefused, Pacing!SendAnswered, Pacing!SendThrottled, Pacing!Retry, Pacing!Tick
  <1>3. PaceInv => Pacing!WithinRate
    BY DEF PaceInv
  <1>. QED  BY <1>1, <1>2, <1>3, PTL DEF Pacing!Spec
=============================================================================
