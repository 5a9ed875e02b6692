---------------------------- MODULE TargetRegistry ----------------------------
(***************************************************************************)
(* What a target registry promises (the traits TargetReservations and      *)
(* TargetDirectory of hand-core/materialization/port.rs): every operation  *)
(* takes effect at one instant between its call and its answer, an answer  *)
(* that reports an effect comes with it, and an answer that reports the    *)
(* record is true of the record at some instant of the call.  A storage    *)
(* error says nothing: the effect may have happened or not.                *)
(***************************************************************************)
EXTENDS RegistryRecords

VARIABLES
    row,      \* key -> durable target record
    reserved, \* memory charged to the plane
    asked,    \* call -> its request
    answer    \* call -> what it was answered, or that it waits

registryVars == <<row, reserved, asked, answer>>

Init ==
    /\ row = [k \in Keys |-> NoRow] /\ reserved = 0
    /\ asked = [c \in Calls |-> NoRequest]
    /\ answer = [c \in Calls |-> Plain("none")]

Waits(c, op) == answer[c].kind = "waiting" /\ asked[c].op = op
Current(c) == row[asked[c].key]

Call(c, q) ==
    /\ answer[c].kind # "waiting"
    /\ asked' = [asked EXCEPT ![c] = q]
    /\ answer' = [answer EXCEPT ![c] = Plain("waiting")]
    /\ UNCHANGED <<row, reserved>>

\* The answer reaches the caller, is lost on the way, or the storage call is sent once more.
Answered(c, a) == \/ answer' = [answer EXCEPT ![c] = a]
                  \/ answer' = [answer EXCEPT ![c] = Plain("storage")]
                  \/ UNCHANGED answer

Put(c, r) == row' = [row EXCEPT ![asked[c].key] = r]
Charge == reserved + Mib <= MaxMib /\ reserved' = reserved + Mib
Refund == reserved >= Mib /\ reserved' = reserved - Mib

\* acquire: an absent record, an expired reservation or a lost default is reserved anew, charged
\* unless it still is.
Reserve(c) ==
    LET q == asked[c]  r == Current(c) IN
    /\ Waits(c, "acquire")
    /\ \/ r.state = "none" /\ Charge
       \/ r.state = "materializing" /\ Admits(r, q) /\ LeaseExpired(r, q) /\ UNCHANGED reserved
       \/ r.state = "lost" /\ Admits(r, q) /\ q.replace /\ Charge
    /\ Put(c, Reserved(q)) /\ Answered(c, Acquired(q.id, q.gen, q.now, FALSE))
    /\ UNCHANGED asked

\* acquire: an attempt that nobody owns any more is taken over as a recovery, for at most the
\* length of an attempt.
TakeOver(c) ==
    LET q == asked[c]  r == Current(c) IN
    /\ Waits(c, "acquire")
    /\ r.state = "materializing" /\ Admits(r, q) /\ AttemptFree(r, q)
    /\ \E until \in (q.now + 1)..(q.now + AttemptMs) : Put(c, TakenOver(r, q, until))
    /\ Answered(c, Acquired(r.id, r.gen, answer'[c].start, TRUE))
    /\ UNCHANGED <<reserved, asked>>

InstallTarget(c) ==
    LET q == asked[c]  r == Current(c) IN
    /\ Waits(c, "install") /\ Reservation(r, q) /\ r.spec = q.spec
    /\ Put(c, InstalledRow(r)) /\ Answered(c, InstalledAs(q.id, q.gen))
    /\ UNCHANGED <<reserved, asked>>

ExpireLease(c) ==
    /\ Waits(c, "expire") /\ ExactAttempt(Current(c), asked[c])
    /\ Put(c, NoRow) /\ Refund /\ Answered(c, Plain("ok"))
    /\ UNCHANGED asked

MarkClosed(c) ==
    LET q == asked[c]  r == Current(c) IN
    /\ Waits(c, "close") /\ ExactTarget(r, q)
    /\ Put(c, ClosedRow(r, q.disp)) /\ Refund /\ Answered(c, Plain("ok"))
    /\ UNCHANGED asked

PurgeTerminal(c) ==
    LET q == asked[c]  r == Current(c) IN
    /\ Waits(c, "purge") /\ Closed(r) /\ r.gen = q.gen
    /\ Put(c, NoRow) /\ Answered(c, Plain("ok"))
    /\ UNCHANGED <<reserved, asked>>

\* The answers without an effect.  A full plane refuses whatever the record is, and a close that
\* was cancelled is lost even if its target is still the installed one.
When(fact, a) == IF fact THEN {a} ELSE {}

Refusals(r, q) ==
    When(r.state # "none" /\ ~Admits(r, q), Plain("conflict"))
        \cup When(reserved + Mib > MaxMib, Plain("capacity"))
Reports(r, q) ==
    When(r.state = "installed", InstalledAs(r.id, r.gen))
        \cup When(r.state = "materializing" /\ ~LeaseExpired(r, q) /\ ~AttemptFree(r, q), Plain("pending"))
        \cup When(r.state = "lost" /\ ~q.replace, Plain("gone"))
        \cup When(r.state = "terminated", Plain("terminated"))

Truths(r, q) == {Plain("storage")} \cup
    CASE q.op = "acquire" -> Refusals(r, q) \cup (IF Admits(r, q) THEN Reports(r, q) ELSE {})
      [] q.op = "install" -> {IF ExactTarget(r, q) /\ r.spec = q.spec
                              THEN InstalledAs(q.id, q.gen) ELSE Plain("lost")}
      [] q.op = "expire" -> When(~ExactAttempt(r, q), Plain("ok"))
      [] q.op = "close" -> When(Closed(r), Plain("ok")) \cup {Plain("lost")}
      [] q.op = "purge" -> {IF r.state = "none" THEN Plain("ok") ELSE Plain("lost")}

Inform(c) ==
    /\ answer[c].kind = "waiting"
    /\ \E a \in Truths(Current(c), asked[c]) : answer' = [answer EXCEPT ![c] = a]
    /\ UNCHANGED <<row, reserved, asked>>

Next == \E c \in Calls :
    \/ \E q \in Requests : Call(c, q)
    \/ Reserve(c) \/ TakeOver(c) \/ InstallTarget(c) \/ ExpireLease(c) \/ MarkClosed(c)
    \/ PurgeTerminal(c) \/ Inform(c)

Spec == Init /\ [][Next]_registryVars
=============================================================================
