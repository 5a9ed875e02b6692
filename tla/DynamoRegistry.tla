---------------------------- MODULE DynamoRegistry ----------------------------
(***************************************************************************)
(* The target registry over DynamoDB (hand-brain-aws/registry.rs), one     *)
(* storage call a step.  A write is a conditional update of one item or a  *)
(* transaction of a target item and the capacity item; what a call has     *)
(* read may be stale by the time it writes.  Any storage call may fail     *)
(* without an effect, lose its response after its effect, be sent again by *)
(* the SDK (an item update, a transaction carries an idempotency token) or *)
(* be cancelled by a conflicting one (a transaction).                      *)
(***************************************************************************)
EXTENDS RegistryRecords

CONSTANT MaxTries  \* iterations of acquire

ASSUME TriesAssumption == MaxTries \in Nat \ {0}

VARIABLES
    row, reserved,  \* the table
    asked, answer,  \* the port: requests and answers of calls
    local,          \* call -> [at, seen, tries]: its next storage call and what it has read
    used            \* requests made so far: identifiers are minted once

vars == <<row, reserved, asked, answer, local, used>>

Idle == [at |-> "idle", seen |-> NoRow, tries |-> 0]

Init ==
    /\ row = [k \in Keys |-> NoRow] /\ reserved = 0
    /\ asked = [c \in Calls |-> NoRequest]
    /\ answer = [c \in Calls |-> Plain("none")]
    /\ local = [c \in Calls |-> Idle]
    /\ used = {}

Current(c) == row[asked[c].key]

FirstCall(op) == IF op = "acquire" THEN "put" ELSE op

Call(c, q) ==
    /\ local[c].at = "idle" /\ q \notin used
    /\ used' = used \cup {q}
    /\ asked' = [asked EXCEPT ![c] = q]
    /\ answer' = [answer EXCEPT ![c] = Plain("waiting")]
    /\ local' = [local EXCEPT ![c] = [at |-> FirstCall(q.op), seen |-> NoRow, tries |-> MaxTries]]
    /\ UNCHANGED <<row, reserved>>

Return(c, a) ==
    /\ answer' = [answer EXCEPT ![c] = a]
    /\ local' = [local EXCEPT ![c] = Idle]

GoTo(c, at) ==
    /\ local' = [local EXCEPT ![c].at = at]
    /\ UNCHANGED answer

Again(c) ==
    /\ local' = [local EXCEPT ![c] = [at |-> "read", seen |-> NoRow, tries |-> local[c].tries - 1]]
    /\ UNCHANGED answer

\* The response of a transaction or of an update that took effect.
Responded(c, a) == Return(c, a) \/ Return(c, Plain("storage"))
RespondedOrResent(c, a) == Responded(c, a) \/ UNCHANGED <<answer, local>>

\* Storage fails without an effect, or the process dies.
Fails(c) ==
    /\ local[c].at # "idle"
    /\ Return(c, Plain("storage"))
    /\ UNCHANGED <<row, reserved, asked, used>>

Put(c, r) == row' = [row EXCEPT ![asked[c].key] = r]
Room == reserved + Mib <= MaxMib

-----------------------------------------------------------------------------
(* acquire *)

\* The transaction that puts an absent item and charges the plane.  A target larger than the plane
\* is refused before.
Reserve(c) ==
    LET q == asked[c] IN
    /\ local[c].at = "put"
    /\ IF Mib > MaxMib
       THEN Return(c, Plain("capacity")) /\ UNCHANGED <<row, reserved>>
       ELSE \/ /\ Current(c).state = "none" /\ Room
               /\ Put(c, Reserved(q)) /\ reserved' = reserved + Mib
               /\ Responded(c, Acquired(q.id, q.gen, q.now, FALSE))
            \/ GoTo(c, "read") /\ UNCHANGED <<row, reserved>>
    /\ UNCHANGED <<asked, used>>

\* What a strongly consistent read of the item leads to.
Decide(c, r) ==
    LET q == asked[c] IN
    IF r.state = "none" THEN GoTo(c, "room")
    ELSE IF ~Admits(r, q) THEN Return(c, Plain("conflict"))
    ELSE IF r.state = "installed" THEN Return(c, InstalledAs(r.id, r.gen))
    ELSE IF r.state = "materializing" /\ ~LeaseExpired(r, q) /\ ~AttemptFree(r, q)
         THEN Return(c, Plain("pending"))
    ELSE IF r.state = "lost" /\ ~q.replace THEN Return(c, Plain("gone"))
    ELSE IF r.state = "terminated" THEN Return(c, Plain("terminated"))
    ELSE /\ local' = [local EXCEPT ![c] = [at |-> "write", seen |-> r, tries |-> local[c].tries]]
         /\ UNCHANGED answer

Read(c) ==
    /\ local[c].at = "read"
    /\ IF local[c].tries = 0 THEN Return(c, Plain("storage")) ELSE Decide(c, Current(c))
    /\ UNCHANGED <<row, reserved, asked, used>>

\* reserved_capacity after the item was absent: the reservation was cancelled for want of room, or
\* for another reason.
RateAbsent(c) ==
    /\ local[c].at = "room"
    /\ Return(c, IF Room THEN Plain("storage") ELSE Plain("capacity"))
    /\ UNCHANGED <<row, reserved, asked, used>>

\* replace_expired_materialization: the condition names the reservation that was read.
ReplaceExpired(c) ==
    LET q == asked[c]  r == Current(c)  seen == local[c].seen IN
    /\ local[c].at = "write" /\ seen.state = "materializing" /\ LeaseExpired(seen, q)
    /\ IF r.state = "materializing" /\ r.id = seen.id /\ LeaseExpired(r, q) /\ r.spec = q.spec
       THEN Put(c, Reserved(q)) /\ RespondedOrResent(c, Acquired(q.id, q.gen, q.now, FALSE))
       ELSE Again(c) /\ UNCHANGED row
    /\ UNCHANGED <<reserved, asked, used>>

\* Mutant: the update checks neither the attempt that was read nor that it has expired.
TakeExpiredAttempt_SeenOnly(c) ==
    LET q == asked[c]  r == Current(c)  seen == local[c].seen IN
    /\ local[c].at = "write" /\ seen.state = "materializing" /\ ~LeaseExpired(seen, q)
    /\ IF r.state = "materializing" /\ r.id = seen.id /\ r.gen = seen.gen /\ r.spec = seen.spec
       THEN /\ Put(c, TakenOver(r, q, AttemptUntil(seen, q)))
            /\ RespondedOrResent(c, Acquired(seen.id, seen.gen, seen.start, TRUE))
       ELSE Again(c) /\ UNCHANGED row
    /\ UNCHANGED <<reserved, asked, used>>

\* Mutant: the update is not conditional on the attempt that was read.
TakeExpiredAttempt_AnyAttempt(c) ==
    LET q == asked[c]  r == Current(c)  seen == local[c].seen IN
    /\ local[c].at = "write" /\ seen.state = "materializing" /\ ~LeaseExpired(seen, q)
    /\ IF /\ r.state = "materializing" /\ r.id = seen.id /\ r.gen = seen.gen
          /\ AttemptFree(r, q) /\ r.spec = seen.spec
       THEN /\ Put(c, TakenOver(r, q, AttemptUntil(seen, q)))
            /\ RespondedOrResent(c, Acquired(seen.id, seen.gen, seen.start, TRUE))
       ELSE Again(c) /\ UNCHANGED row
    /\ UNCHANGED <<reserved, asked, used>>

\* take_expired_attempt: the condition names the attempt that was read, and the lease that is
\* returned is made of what was read.
TakeExpiredAttempt(c) ==
    LET q == asked[c]  r == Current(c)  seen == local[c].seen IN
    /\ local[c].at = "write" /\ seen.state = "materializing" /\ ~LeaseExpired(seen, q)
    /\ IF /\ r.state = "materializing" /\ r.id = seen.id /\ r.gen = seen.gen
          /\ r.attempt = seen.attempt /\ AttemptFree(r, q) /\ r.spec = seen.spec
       THEN /\ Put(c, TakenOver(r, q, AttemptUntil(seen, q)))
            /\ RespondedOrResent(c, Acquired(seen.id, seen.gen, seen.start, TRUE))
       ELSE Again(c) /\ UNCHANGED row
    /\ UNCHANGED <<reserved, asked, used>>

\* replace_gone_default: a transaction, like the first reservation.
ReplaceGone(c) ==
    LET q == asked[c]  r == Current(c)  seen == local[c].seen IN
    /\ local[c].at = "write" /\ seen.state = "lost"
    /\ \/ /\ r.state = "lost" /\ r.gen = seen.gen /\ r.spec = q.spec /\ Room
          /\ Put(c, Reserved(q)) /\ reserved' = reserved + Mib
          /\ Responded(c, Acquired(q.id, q.gen, q.now, FALSE))
       \/ GoTo(c, "confirm") /\ UNCHANGED <<row, reserved>>
    /\ UNCHANGED <<asked, used>>

\* A cancelled replacement is rated only when the lost record is still the one that was read.
ConfirmGone(c) ==
    LET r == Current(c)  seen == local[c].seen IN
    /\ local[c].at = "confirm"
    /\ IF r.state = "lost" /\ r.gen = seen.gen /\ r.spec = seen.spec
       THEN GoTo(c, "rate") ELSE Again(c)
    /\ UNCHANGED <<row, reserved, asked, used>>

RateGone(c) ==
    /\ local[c].at = "rate"
    /\ IF Room THEN Again(c) ELSE Return(c, Plain("capacity"))
    /\ UNCHANGED <<row, reserved, asked, used>>

-----------------------------------------------------------------------------
(* install, expire_lease, mark_closed and purge_terminal: one write, and a   *)
(* read that explains its refusal                                            *)

Install(c) ==
    LET q == asked[c]  r == Current(c) IN
    /\ local[c].at = "install"
    /\ IF Reservation(r, q) /\ r.spec = q.spec
       THEN Put(c, InstalledRow(r)) /\ RespondedOrResent(c, InstalledAs(q.id, q.gen))
       ELSE GoTo(c, "reread") /\ UNCHANGED row
    /\ UNCHANGED <<reserved, asked, used>>

\* Mutant: the record is deleted without its refund.
ExpireLease_KeepsCharge(c) ==
    /\ local[c].at = "expire"
    /\ \/ /\ ExactAttempt(Current(c), asked[c])
          /\ Put(c, NoRow) /\ Responded(c, Plain("ok")) /\ UNCHANGED reserved
       \/ GoTo(c, "reread") /\ UNCHANGED <<row, reserved>>
    /\ UNCHANGED <<asked, used>>

ExpireLease(c) ==
    /\ local[c].at = "expire"
    /\ \/ /\ ExactAttempt(Current(c), asked[c]) /\ reserved >= Mib
          /\ Put(c, NoRow) /\ reserved' = reserved - Mib /\ Responded(c, Plain("ok"))
       \/ GoTo(c, "reread") /\ UNCHANGED <<row, reserved>>
    /\ UNCHANGED <<asked, used>>

MarkClosed(c) ==
    LET q == asked[c]  r == Current(c) IN
    /\ local[c].at = "close"
    /\ \/ /\ ExactTarget(r, q) /\ r.spec = q.spec /\ reserved >= Mib
          /\ Put(c, ClosedRow(r, q.disp)) /\ reserved' = reserved - Mib /\ Responded(c, Plain("ok"))
       \/ GoTo(c, "reread") /\ UNCHANGED <<row, reserved>>
    /\ UNCHANGED <<asked, used>>

PurgeTerminal(c) ==
    LET q == asked[c]  r == Current(c) IN
    /\ local[c].at = "purge"
    /\ IF Closed(r) /\ r.gen = q.gen
       THEN Put(c, NoRow) /\ RespondedOrResent(c, Plain("ok"))
       ELSE GoTo(c, "reread") /\ UNCHANGED row
    /\ UNCHANGED <<reserved, asked, used>>

\* The answer after a refused write.
Explained(r, q) ==
    CASE q.op = "install" -> IF ExactTarget(r, q) /\ r.spec = q.spec
                             THEN InstalledAs(q.id, q.gen) ELSE Plain("lost")
      [] q.op = "expire" -> IF ExactAttempt(r, q) THEN Plain("storage") ELSE Plain("ok")
      [] q.op = "close" -> IF r.state = q.disp /\ r.gen = q.gen THEN Plain("ok") ELSE Plain("lost")
      [] q.op = "purge" -> IF r.state = "none" THEN Plain("ok") ELSE Plain("lost")

Reread(c) ==
    /\ local[c].at = "reread"
    /\ Return(c, Explained(Current(c), asked[c]))
    /\ UNCHANGED <<row, reserved, asked, used>>

-----------------------------------------------------------------------------
Next == \E c \in Calls :
    \/ \E q \in Requests : Call(c, q)
    \/ Reserve(c) \/ Read(c) \/ RateAbsent(c) \/ ReplaceExpired(c) \/ TakeExpiredAttempt(c)
    \/ ReplaceGone(c) \/ ConfirmGone(c) \/ RateGone(c)
    \/ Install(c) \/ ExpireLease(c) \/ MarkClosed(c) \/ PurgeTerminal(c) \/ Reread(c)
    \/ Fails(c)

Spec == Init /\ [][Next]_vars

-----------------------------------------------------------------------------
(* Properties *)

Places == {"idle", "put", "read", "room", "write", "confirm", "rate",
           "install", "expire", "close", "purge", "reread"}

\* TypeOK: what every variable holds; a call waits for its answer exactly while it has a next
\* storage call to make.
TypeOK ==
    /\ row \in [Keys -> Row] /\ reserved \in Nat
    /\ asked \in [Calls -> Requests \cup {NoRequest}]
    /\ answer \in [Calls -> Answer]
    /\ local \in [Calls -> [at : Places, seen : Row, tries : Nat]]
    /\ used \subseteq Requests
    /\ \A c \in Calls :
          /\ local[c].at # "idle" => asked[c] \in Requests
          /\ local[c].at # "idle" <=> answer[c].kind = "waiting"

AcquirePlaces == {"put", "read", "room", "write", "confirm", "rate"}

Minted(r) == r.state = "materializing" => r.id \in Ids /\ r.gen = GenOf[r.id]

\* What acquire may write over.
Writable(seen, q) ==
    /\ Admits(seen, q)
    /\ \/ seen.state = "materializing" /\ (LeaseExpired(seen, q) \/ AttemptFree(seen, q))
       \/ seen.state = "lost" /\ q.replace

\* WritesAreGrounded: a call that is about to write has read a record that its request may replace
\* or take over, has an iteration left to come back with if the record changed, and makes only
\* storage calls of its own operation; a reservation in the table, and one that a call has read,
\* carries the generation that it was minted with, which is why replace_expired_materialization
\* can do without a condition on the generation.
WritesAreGrounded ==
    /\ \A k \in Keys : Minted(row[k])
    /\ \A c \in Calls :
          /\ local[c].at \in AcquirePlaces => asked[c].op = "acquire"
          /\ local[c].at \in {"install", "expire", "close", "purge"} => asked[c].op = local[c].at
          /\ local[c].at = "reread" => asked[c].op # "acquire"
          /\ local[c].at = "write" => Writable(local[c].seen, asked[c]) /\ Minted(local[c].seen)
          /\ local[c].at \in {"write", "confirm", "rate"} => local[c].tries > 0

Contract == INSTANCE TargetRegistry
            WITH row <- row, reserved <- reserved, asked <- asked, answer <- answer

\* Conforms: the registry does what the port promises.  However the storage calls of several
\* operations interleave, and whichever of them are lost, repeated or cancelled, each operation is
\* one atomic effect on the record and the counter, and each answer is true of them.
Conforms == Contract!Spec

\* LeaseIsCurrent: the lease that a caller gets, which is made of what acquire has read, is that of
\* the record as it is when the caller comes to own it, although the reservation may have been
\* refunded and made anew under the same identifier in between.
LeaseIsCurrent ==
    [][\A c \in Calls :
          answer[c].kind = "waiting" /\ answer'[c].kind = "acquired" =>
              LET r == row'[asked[c].key] IN
              /\ r.state = "materializing" /\ r.attempt = asked[c].attempt
              /\ answer'[c].id = r.id /\ answer'[c].start = r.start]_vars

ChargedKeys == {k \in Keys : Charged(row[k])}

\* PlaneExact: the counter of the plane holds exactly the memory of the reserved and installed
\* records, also after lost responses and repeated updates (capacity_add_update and
\* capacity_subtract_update are only ever part of a transaction).
PlaneExact == reserved = Mib * Cardinality(ChargedKeys) /\ reserved <= MaxMib
=============================================================================
