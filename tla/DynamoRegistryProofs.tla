------------------------- MODULE DynamoRegistryProofs -------------------------
(* The registry over DynamoDB implements the registry port, for every choice *)
(* of keys, calls, requests, deadlines and capacity.                         *)
EXTENDS DynamoRegistry, FiniteSetTheorems, TLAPS

Inv == TypeOK /\ WritesAreGrounded

Progress == [at : Places, seen : Row, tries : Nat]

\* What Inv says of one call: its progress, its request and its answer.
CallInv(l, q, a) ==
    /\ l \in Progress /\ q \in Requests \cup {NoRequest} /\ a \in Answer
    /\ l.at # "idle" => q \in Requests
    /\ l.at # "idle" <=> a.kind = "waiting"
    /\ l.at \in AcquirePlaces => q.op = "acquire"
    /\ l.at \in {"install", "expire", "close", "purge"} => q.op = l.at
    /\ l.at = "reread" => q.op # "acquire"
    /\ l.at = "write" => Writable(l.seen, q) /\ Minted(l.seen)
    /\ l.at \in {"write", "confirm", "rate"} => l.tries > 0

TableInv ==
    /\ row \in [Keys -> Row] /\ reserved \in Nat
    /\ \A k \in Keys : Minted(row[k])

\* Inv is a fact about the table and one fact about every call.
LEMMA InvSplit ==
  Inv <=> /\ TableInv
          /\ asked \in [Calls -> Requests \cup {NoRequest}]
          /\ answer \in [Calls -> Answer]
          /\ local \in [Calls -> Progress]
          /\ used \subseteq Requests
          /\ \A c \in Calls : CallInv(local[c], asked[c], answer[c])
  BY Zenon DEF Inv, TypeOK, WritesAreGrounded, TableInv, CallInv, Progress

\* The records and answers that are written are well typed.
LEMMA RecordTypes ==
  /\ NoRow \in Row /\ NoRow.state = "none"
  /\ Idle \in Progress /\ Idle.at = "idle"
  /\ \A kind \in {"none", "waiting", "pending", "gone", "terminated", "conflict", "capacity",
                  "lost", "ok", "storage"} :
        Plain(kind) \in Answer /\ Plain(kind).kind = kind
  BY Zenon DEF NoRow, Row, Idle, Progress, Places, Plain, Answer

\* What the type of a request says of its fields.
LEMMA RequestFields ==
  ASSUME NEW q \in Requests
  PROVE  /\ q.op \in {"acquire", "install", "expire", "close", "purge"}
         /\ q.key \in Keys /\ q.spec \in Specs /\ q.id \in Ids \cup {NoId} /\ q.gen \in Gens
         /\ q.attempt \in Ids \cup {NoId} /\ q.now \in Nat
         /\ q.fenced \in BOOLEAN /\ q.replace \in BOOLEAN /\ q.disp \in {"lost", "terminated"}
         /\ q.op = "acquire" => q.id \in Ids /\ q.attempt \in Ids /\ q.gen = GenOf[q.id]
  BY RequestAssumption, Zenon DEF Request

\* An empty table and no calls satisfy the invariant.
LEMMA InvInit == Init => Inv
  <1>. SUFFICES ASSUME Init PROVE Inv
    OBVIOUS
  <1>1. TableInv
    BY RecordTypes, Zenon DEF Init, TableInv, Minted
  <1>2. \A c \in Calls : CallInv(local[c], asked[c], answer[c])
    BY RecordTypes, Zenon DEF Init, CallInv, AcquirePlaces
  <1>. QED  BY <1>1, <1>2, RecordTypes, InvSplit, Zenon DEF Init

\* A step of one call keeps the invariant if it keeps what the invariant says of the table and of
\* that call.
LEMMA OneCall ==
  ASSUME Inv, NEW c \in Calls, TableInv', UNCHANGED <<asked, used>>,
         NEW l, NEW a, local' = [local EXCEPT ![c] = l], answer' = [answer EXCEPT ![c] = a],
         CallInv(l, asked[c], a)
  PROVE  Inv'
  <1>1. /\ local' \in [Calls -> Progress] /\ answer' \in [Calls -> Answer]
        /\ local'[c] = l /\ answer'[c] = a
    BY InvSplit, Zenon DEF CallInv
  <1>2. \A d \in Calls : CallInv(local'[d], asked'[d], answer'[d])
    <2>. TAKE d \in Calls
    <2>1. CASE d = c
      BY <2>1, <1>1, Zenon
    <2>2. CASE d # c
      <3>1. local'[d] = local[d] /\ answer'[d] = answer[d] /\ asked'[d] = asked[d]
        BY <2>2, InvSplit, Zenon
      <3>. QED  BY <3>1, InvSplit, Zenon
    <2>. QED  BY <2>1, <2>2, Zenon
  <1>3. /\ TableInv'
        /\ asked' \in [Calls -> Requests \cup {NoRequest}] /\ used' \subseteq Requests
    BY InvSplit, Zenon
  <1>4. TypeOK'
    BY <1>1, <1>2, <1>3, Zenon DEF TypeOK, TableInv, CallInv, Progress
  <1>5. WritesAreGrounded'
    BY <1>2, <1>3, Zenon DEF WritesAreGrounded, TableInv, CallInv
  <1>. QED  BY <1>4, <1>5, Zenon DEF Inv

\* A call that returns keeps the invariant, whatever it did to the table.
LEMMA ReturnInv ==
  ASSUME Inv, NEW c \in Calls, TableInv', UNCHANGED <<asked, used>>,
         NEW a \in Answer, a.kind # "waiting", Return(c, a)
  PROVE  Inv'
  <1>1. CallInv(Idle, asked[c], a)
    BY InvSplit, RecordTypes, Zenon DEF CallInv, AcquirePlaces
  <1>. QED  BY <1>1, OneCall, Zenon DEF Return

\* A call that goes on to its next storage call, with the record that it has read, keeps the
\* invariant if its request and that record justify the next call.
LEMMA GoToInv ==
  ASSUME Inv, NEW c \in Calls, UNCHANGED <<row, reserved, asked, used>>,
         local[c].at # "idle", NEW at \in Places \ {"idle", "write"}, GoTo(c, at),
         at \in AcquirePlaces => asked[c].op = "acquire",
         at \in {"confirm", "rate"} => local[c].tries > 0,
         at = "reread" => asked[c].op # "acquire",
         at \notin {"install", "expire", "close", "purge"}
  PROVE  Inv'
  <1>. DEFINE l == [local[c] EXCEPT !.at = at]
  <1>1. CallInv(local[c], asked[c], answer[c])
    BY InvSplit, Zenon
  <1>2. l \in Progress /\ l.at = at /\ l.seen = local[c].seen /\ l.tries = local[c].tries
    BY <1>1, Zenon DEF CallInv, Progress
  <1>3. CallInv(l, asked[c], answer[c])
    BY <1>1, <1>2, Zenon DEF CallInv
  <1>4. local' = [local EXCEPT ![c] = l] /\ answer' = [answer EXCEPT ![c] = answer[c]]
    BY InvSplit, Zenon DEF GoTo
  <1>5. TableInv'
    BY InvSplit, Zenon DEF TableInv
  <1>. QED  BY <1>3, <1>4, <1>5, OneCall, Zenon

\* So does one that begins another iteration of acquire.
LEMMA AgainInv ==
  ASSUME Inv, NEW c \in Calls, UNCHANGED <<row, reserved, asked, used>>,
         local[c].at \in {"write", "confirm", "rate"}, Again(c)
  PROVE  Inv'
  <1>. DEFINE l == [at |-> "read", seen |-> NoRow, tries |-> local[c].tries - 1]
  <1>1. CallInv(local[c], asked[c], answer[c])
    BY InvSplit, Zenon
  <1>2. local[c].tries - 1 \in Nat
    BY <1>1 DEF CallInv, Progress
  <1>3. l \in Progress /\ l.at = "read"
    BY <1>2, RecordTypes, Zenon DEF Progress, Places
  <1>4. CallInv(l, asked[c], answer[c])
    BY <1>1, <1>3, Zenon DEF CallInv, AcquirePlaces
  <1>5. local' = [local EXCEPT ![c] = l] /\ answer' = [answer EXCEPT ![c] = answer[c]]
    BY InvSplit, Zenon DEF Again
  <1>6. TableInv'
    BY InvSplit, Zenon DEF TableInv
  <1>. QED  BY <1>4, <1>5, <1>6, OneCall, Zenon

\* A storage call that is sent once more leaves the call where it is.
LEMMA ResentInv ==
  ASSUME Inv, NEW c \in Calls, TableInv', UNCHANGED <<asked, used, answer, local>>
  PROVE  Inv'
  <1>1. CallInv(local[c], asked[c], answer[c])
    BY InvSplit, Zenon
  <1>2. local' = [local EXCEPT ![c] = local[c]] /\ answer' = [answer EXCEPT ![c] = answer[c]]
    BY InvSplit, Zenon
  <1>. QED  BY <1>1, <1>2, OneCall, Zenon

\* What the response of a write leads to.
LEMMA RespondedInv ==
  ASSUME Inv, NEW c \in Calls, TableInv', UNCHANGED <<asked, used>>,
         NEW a \in Answer, a.kind # "waiting", RespondedOrResent(c, a)
  PROVE  Inv'
  <1>1. CASE Return(c, a)
    BY <1>1, ReturnInv, Zenon
  <1>2. CASE Return(c, Plain("storage"))
    BY <1>2, ReturnInv, RecordTypes, Zenon
  <1>3. CASE UNCHANGED <<answer, local>>
    BY <1>3, ResentInv, Zenon
  <1>. QED  BY <1>1, <1>2, <1>3, Zenon DEF RespondedOrResent, Responded

\* A write of one record keeps what the invariant says of the table.
LEMMA PutInv ==
  ASSUME Inv, NEW c \in Calls, asked[c] \in Requests, NEW r \in Row, Minted(r), Put(c, r),
         reserved' \in Nat
  PROVE  TableInv'
  <1>1. asked[c].key \in Keys
    BY RequestFields, Zenon
  <1>. QED  BY <1>1, InvSplit, Zenon DEF TableInv, Put, Minted

\* The records that the operations write are well typed and carry the generation of their
\* reservation.
LEMMA WrittenRows ==
  ASSUME NEW q \in Requests, NEW r \in Row, Minted(r)
  PROVE  /\ q.op = "acquire" => Reserved(q) \in Row /\ Minted(Reserved(q))
         /\ \A until \in Nat : /\ q.op = "acquire" /\ r.state = "materializing" =>
                                    /\ TakenOver(r, q, until) \in Row
                                    /\ Minted(TakenOver(r, q, until))
         /\ InstalledRow(r) \in Row /\ Minted(InstalledRow(r))
         /\ ClosedRow(r, q.disp) \in Row /\ Minted(ClosedRow(r, q.disp))
         /\ NoRow \in Row /\ Minted(NoRow)
  <1>1. ASSUME q.op = "acquire" PROVE Reserved(q) \in Row /\ Minted(Reserved(q))
    BY <1>1, RequestFields, TimeAssumption DEF Reserved, Row, Minted
  <1>2. ASSUME NEW until \in Nat, q.op = "acquire", r.state = "materializing"
        PROVE  TakenOver(r, q, until) \in Row /\ Minted(TakenOver(r, q, until))
    BY <1>2, RequestFields, Zenon DEF TakenOver, Row, Minted
  <1>3. InstalledRow(r) \in Row /\ Minted(InstalledRow(r))
    BY Zenon DEF InstalledRow, Row, Minted
  <1>4. ClosedRow(r, q.disp) \in Row /\ Minted(ClosedRow(r, q.disp))
    BY RequestFields, Zenon DEF ClosedRow, Row, Minted
  <1>5. NoRow \in Row /\ Minted(NoRow)
    BY RecordTypes, Zenon DEF Minted
  <1>. QED  BY <1>1, <1>2, <1>3, <1>4, <1>5, Zenon

\* A call at work has a request, and there is a record for its key.
LEMMA CallFacts ==
  ASSUME Inv, NEW c \in Calls, local[c].at # "idle"
  PROVE  /\ asked[c] \in Requests /\ Current(c) \in Row /\ Minted(Current(c))
         /\ local[c].seen \in Row /\ local[c].tries \in Nat /\ reserved \in Nat
         /\ answer[c].kind = "waiting" /\ TableInv
  <1>1. CallInv(local[c], asked[c], answer[c]) /\ TableInv
    BY InvSplit, Zenon
  <1>2. asked[c] \in Requests /\ asked[c].key \in Keys
    BY <1>1, RequestFields, Zenon DEF CallInv
  <1>. QED  BY <1>1, <1>2, Zenon DEF CallInv, TableInv, Current, Progress

\* The answers of acquire, and those about a target, are well typed.
LEMMA AnswerTypes ==
  ASSUME NEW i \in Ids \cup {NoId}, NEW g \in Gens \cup {NoId}
  PROVE  /\ \A start \in Nat, b \in BOOLEAN :
               Acquired(i, g, start, b) \in Answer /\ Acquired(i, g, start, b).kind = "acquired"
         /\ InstalledAs(i, g) \in Answer /\ InstalledAs(i, g).kind = "installed"
  BY Zenon DEF Acquired, InstalledAs, Answer

(* The storage calls keep the invariant. *)

\* A new call starts with the first storage call of its operation.
LEMMA CallKeepsInv ==
  ASSUME Inv, NEW c \in Calls, NEW q \in Requests, Call(c, q)
  PROVE  Inv'
  <1>. DEFINE l == [at |-> FirstCall(q.op), seen |-> NoRow, tries |-> MaxTries]
  <1>1. l \in Progress /\ l.at = FirstCall(q.op)
    BY RequestFields, RecordTypes, TriesAssumption, Zenon DEF Progress, Places, FirstCall
  <1>2. CallInv(l, q, Plain("waiting"))
    BY <1>1, RequestFields, RecordTypes, Zenon DEF CallInv, AcquirePlaces, FirstCall
  <1>3. /\ local' \in [Calls -> Progress] /\ answer' \in [Calls -> Answer]
        /\ asked' \in [Calls -> Requests \cup {NoRequest}] /\ used' \subseteq Requests
        /\ local'[c] = l /\ answer'[c] = Plain("waiting") /\ asked'[c] = q
    BY <1>1, InvSplit, RecordTypes, Zenon DEF Call
  <1>4. \A d \in Calls : CallInv(local'[d], asked'[d], answer'[d])
    <2>. TAKE d \in Calls
    <2>1. CASE d = c
      BY <2>1, <1>2, <1>3, Zenon
    <2>2. CASE d # c
      <3>1. local'[d] = local[d] /\ answer'[d] = answer[d] /\ asked'[d] = asked[d]
        BY <2>2, InvSplit, Zenon DEF Call
      <3>. QED  BY <3>1, InvSplit, Zenon
    <2>. QED  BY <2>1, <2>2, Zenon
  <1>5. TableInv'
    BY InvSplit, Zenon DEF TableInv, Call
  <1>6. TypeOK'
    BY <1>3, <1>4, <1>5, Zenon DEF TypeOK, TableInv, CallInv, Progress
  <1>7. WritesAreGrounded'
    BY <1>4, <1>5, Zenon DEF WritesAreGrounded, TableInv, CallInv
  <1>. QED  BY <1>6, <1>7, Zenon DEF Inv

\* The first reservation, whether it is granted, cancelled or too large.
LEMMA ReserveKeepsInv ==
  ASSUME Inv, NEW c \in Calls, Reserve(c)
  PROVE  Inv'
  <1>. DEFINE q == asked[c]
  <1>1. local[c].at = "put" /\ UNCHANGED <<asked, used>>
    BY Zenon DEF Reserve
  <1>2. q \in Requests /\ q.op = "acquire" /\ TableInv /\ reserved \in Nat
    BY <1>1, CallFacts, InvSplit, Zenon DEF CallInv, AcquirePlaces
  <1>3. CASE Return(c, Plain("capacity")) /\ UNCHANGED <<row, reserved>>
    <2>1. TableInv'
      BY <1>2, <1>3, Zenon DEF TableInv
    <2>. QED  BY <1>1, <1>3, <2>1, ReturnInv, RecordTypes, Zenon
  <1>4. CASE Put(c, Reserved(q)) /\ reserved' = reserved + Mib
             /\ Responded(c, Acquired(q.id, q.gen, q.now, FALSE))
    <2>1. Reserved(q) \in Row /\ Minted(Reserved(q))
      BY <1>2, WrittenRows, RecordTypes, Zenon DEF Minted
    <2>2. TableInv'
      BY <1>2, <1>4, <2>1, PutInv, CapacityAssumption
    <2>3. LET a == Acquired(q.id, q.gen, q.now, FALSE) IN a \in Answer /\ a.kind # "waiting"
      BY <1>2, RequestFields, AnswerTypes, Zenon
    <2>. QED  BY <1>1, <1>4, <2>2, <2>3, RespondedInv, Zenon DEF RespondedOrResent
  <1>5. CASE GoTo(c, "read") /\ UNCHANGED <<row, reserved>>
    BY <1>1, <1>2, <1>5, GoToInv, Zenon DEF Places
  <1>. QED  BY <1>3, <1>4, <1>5, Zenon DEF Reserve

\* Reading the record: the call returns, goes on to rate the capacity, or is ready to write.
LEMMA ReadKeepsInv ==
  ASSUME Inv, NEW c \in Calls, Read(c)
  PROVE  Inv'
  <1>. DEFINE q == asked[c]  r == Current(c)
  <1>1. local[c].at = "read" /\ UNCHANGED <<row, reserved, asked, used>>
    BY Zenon DEF Read
  <1>2. /\ q \in Requests /\ q.op = "acquire" /\ r \in Row /\ Minted(r) /\ TableInv
        /\ local[c].tries \in Nat /\ answer[c] \in Answer /\ answer[c].kind = "waiting"
    BY <1>1, CallFacts, InvSplit, Zenon DEF CallInv, AcquirePlaces
  <1>3. TableInv'
    BY <1>1, <1>2, Zenon DEF TableInv
  <1>4. \A kind \in {"conflict", "pending", "gone", "terminated", "storage"} :
           Return(c, Plain(kind)) => Inv'
    BY <1>1, <1>3, ReturnInv, RecordTypes, Zenon
  <1>5. CASE local[c].tries = 0
    BY <1>1, <1>4, <1>5, Zenon DEF Read
  <1>6. CASE local[c].tries # 0 /\ r.state = "none"
    <2>1. GoTo(c, "room")
      BY <1>6, Zenon DEF Read, Decide
    <2>. QED  BY <1>1, <1>2, <2>1, GoToInv, Zenon DEF Places
  <1>7. CASE Return(c, InstalledAs(r.id, r.gen))
    <2>1. InstalledAs(r.id, r.gen) \in Answer /\ InstalledAs(r.id, r.gen).kind # "waiting"
      BY <1>2, AnswerTypes, Zenon DEF Row
    <2>. QED  BY <1>1, <1>3, <1>7, <2>1, ReturnInv, Zenon
  <1>8. CASE /\ local[c].tries # 0 /\ Writable(r, q) /\ UNCHANGED answer
             /\ local' = [local EXCEPT ![c] = [at |-> "write", seen |-> r, tries |-> local[c].tries]]
    <2>. DEFINE l == [at |-> "write", seen |-> r, tries |-> local[c].tries]
    <2>1. l \in Progress /\ l.at = "write" /\ l.seen = r /\ l.tries > 0
      BY <1>2, <1>8 DEF Progress, Places
    <2>2. CallInv(l, q, answer[c])
      BY <1>2, <1>8, <2>1, Zenon DEF CallInv, AcquirePlaces
    <2>3. local' = [local EXCEPT ![c] = l] /\ answer' = [answer EXCEPT ![c] = answer[c]]
      BY <1>8, InvSplit, Zenon
    <2>. QED  BY <1>1, <1>3, <2>2, <2>3, OneCall, Zenon
  <1>9. CASE local[c].tries # 0 /\ r.state # "none"
    <2>1. r.state \in {"materializing", "installed", "lost", "terminated"}
      BY <1>2, <1>9, Zenon DEF Row
    <2>. QED  BY <1>4, <1>7, <1>8, <1>9, <2>1, Zenon DEF Read, Decide, Writable
  <1>. QED  BY <1>5, <1>6, <1>9, Zenon


\* Taking over or replacing what was read, or coming back because it changed.
LEMMA WriteKeepsInv ==
  ASSUME Inv, NEW c \in Calls, ReplaceExpired(c) \/ TakeExpiredAttempt(c) \/ ReplaceGone(c)
  PROVE  Inv'
  <1>. DEFINE q == asked[c]  r == Current(c)  seen == local[c].seen
              anew == Acquired(q.id, q.gen, q.now, FALSE)
              taken == Acquired(seen.id, seen.gen, seen.start, TRUE)
  <1>1. local[c].at = "write" /\ UNCHANGED <<asked, used>>
    BY Zenon DEF ReplaceExpired, TakeExpiredAttempt, ReplaceGone
  <1>2. /\ q \in Requests /\ q.op = "acquire" /\ r \in Row /\ Minted(r) /\ seen \in Row
        /\ reserved \in Nat /\ TableInv /\ local[c].tries > 0
    BY <1>1, CallFacts, InvSplit, Zenon DEF CallInv, AcquirePlaces
  <1>3. anew \in Answer /\ anew.kind # "waiting" /\ taken \in Answer /\ taken.kind # "waiting"
    BY <1>2, RequestFields, AnswerTypes, Zenon DEF Row
  <1>4. Reserved(q) \in Row /\ Minted(Reserved(q))
    BY <1>2, WrittenRows, Zenon
  <1>5. Again(c) /\ UNCHANGED <<row, reserved>> => Inv'
    BY <1>1, AgainInv, Zenon
  <1>6. ReplaceExpired(c) => Inv'
    <2>1. UNCHANGED reserved /\ Put(c, Reserved(q)) => TableInv'
      BY <1>2, <1>4, PutInv, Zenon
    <2>. QED  BY <1>1, <1>3, <1>5, <2>1, RespondedInv, Zenon DEF ReplaceExpired
  <1>7. TakeExpiredAttempt(c) => Inv'
    <2>. SUFFICES ASSUME TakeExpiredAttempt(c) PROVE Inv'
      OBVIOUS
    <2>1. UNCHANGED reserved
      BY Zenon DEF TakeExpiredAttempt
    <2>2. CASE r.state = "materializing" /\ Put(c, TakenOver(r, q, AttemptUntil(seen, q)))
               /\ RespondedOrResent(c, taken)
      <3>1. AttemptUntil(seen, q) \in Nat
        BY <1>2, RequestFields, TimeAssumption DEF AttemptUntil, Row
      <3>2. TakenOver(r, q, AttemptUntil(seen, q)) \in Row
            /\ Minted(TakenOver(r, q, AttemptUntil(seen, q)))
        BY <1>2, <2>2, <3>1, WrittenRows, Zenon
      <3>3. TableInv'
        BY <1>2, <2>1, <2>2, <3>2, PutInv, Zenon
      <3>. QED  BY <1>1, <1>3, <2>2, <3>3, RespondedInv, Zenon
    <2>. QED  BY <1>5, <2>1, <2>2, Zenon DEF TakeExpiredAttempt
  <1>8. ReplaceGone(c) => Inv'
    <2>1. reserved' = reserved + Mib /\ Put(c, Reserved(q)) => TableInv'
      BY <1>2, <1>4, PutInv, CapacityAssumption
    <2>2. GoTo(c, "confirm") /\ UNCHANGED <<row, reserved>> => Inv'
      BY <1>1, <1>2, GoToInv, Zenon DEF Places
    <2>. QED  BY <1>1, <1>3, <2>1, <2>2, RespondedInv, Zenon DEF ReplaceGone, RespondedOrResent
  <1>. QED  BY <1>6, <1>7, <1>8, Zenon

\* Finding out why a reservation or a replacement was cancelled.
LEMMA RateKeepsInv ==
  ASSUME Inv, NEW c \in Calls, RateAbsent(c) \/ ConfirmGone(c) \/ RateGone(c)
  PROVE  Inv'
  <1>1. /\ local[c].at \in {"room", "confirm", "rate"}
        /\ UNCHANGED <<row, reserved, asked, used>>
    BY Zenon DEF RateAbsent, ConfirmGone, RateGone
  <1>2. CallInv(local[c], asked[c], answer[c]) /\ TableInv
    BY InvSplit, Zenon
  <1>3. TableInv'
    BY <1>1, <1>2, Zenon DEF TableInv
  <1>4. \A kind \in {"storage", "capacity"} : Return(c, Plain(kind)) => Inv'
    BY <1>1, <1>3, ReturnInv, RecordTypes, Zenon
  <1>5. local[c].at \in {"confirm", "rate"} /\ Again(c) => Inv'
    BY <1>1, AgainInv, Zenon
  <1>6. local[c].at = "confirm" /\ GoTo(c, "rate") => Inv'
    BY <1>1, <1>2, GoToInv, Zenon DEF Places, CallInv, AcquirePlaces
  <1>. QED  BY <1>4, <1>5, <1>6, Zenon DEF RateAbsent, ConfirmGone, RateGone

\* The operations that make one write, and the read that explains its refusal.
LEMMA OneWriteKeepsInv ==
  ASSUME Inv, NEW c \in Calls,
         Install(c) \/ ExpireLease(c) \/ MarkClosed(c) \/ PurgeTerminal(c)
  PROVE  Inv'
  <1>. DEFINE q == asked[c]  r == Current(c)
  <1>1. local[c].at \in {"install", "expire", "close", "purge"} /\ UNCHANGED <<asked, used>>
    BY Zenon DEF Install, ExpireLease, MarkClosed, PurgeTerminal
  <1>2. /\ q \in Requests /\ q.op # "acquire" /\ r \in Row /\ Minted(r)
        /\ reserved \in Nat
    BY <1>1, CallFacts, InvSplit, Zenon DEF CallInv
  <1>3. \A new \in {NoRow, InstalledRow(r), ClosedRow(r, q.disp)} : new \in Row /\ Minted(new)
    BY <1>2, WrittenRows, Zenon
  <1>4. reserved >= Mib /\ reserved' = reserved - Mib => reserved' \in Nat
    BY <1>2, CapacityAssumption
  <1>5. \A new \in {NoRow, InstalledRow(r), ClosedRow(r, q.disp)} :
           Put(c, new) /\ reserved' \in Nat => TableInv'
    BY <1>2, <1>3, PutInv, Zenon
  <1>6. /\ InstalledAs(q.id, q.gen) \in Answer /\ InstalledAs(q.id, q.gen).kind # "waiting"
        /\ Plain("ok") \in Answer /\ Plain("ok").kind # "waiting"
    BY <1>2, RequestFields, AnswerTypes, RecordTypes, Zenon
  <1>7. \A a \in {InstalledAs(q.id, q.gen), Plain("ok")} :
           TableInv' /\ RespondedOrResent(c, a) => Inv'
    BY <1>1, <1>6, RespondedInv, Zenon
  <1>8. GoTo(c, "reread") /\ UNCHANGED <<row, reserved>> => Inv'
    BY <1>1, <1>2, GoToInv, Zenon DEF Places, AcquirePlaces
  <1>9. CASE Install(c)
    BY <1>2, <1>5, <1>7, <1>8, <1>9, Zenon DEF Install
  <1>10. CASE ExpireLease(c)
    BY <1>2, <1>4, <1>5, <1>7, <1>8, <1>10, Zenon DEF ExpireLease, RespondedOrResent
  <1>11. CASE MarkClosed(c)
    BY <1>2, <1>4, <1>5, <1>7, <1>8, <1>11, Zenon DEF MarkClosed, RespondedOrResent
  <1>12. CASE PurgeTerminal(c)
    BY <1>2, <1>5, <1>7, <1>8, <1>12, Zenon DEF PurgeTerminal
  <1>. QED  BY <1>9, <1>10, <1>11, <1>12, Zenon

\* Explaining a refused write, or failing, only answers the call.
LEMMA AnswerKeepsInv ==
  ASSUME Inv, NEW c \in Calls, Reread(c) \/ Fails(c)
  PROVE  Inv'
  <1>. DEFINE q == asked[c]
  <1>1. local[c].at # "idle" /\ UNCHANGED <<row, reserved, asked, used>>
    BY Zenon DEF Reread, Fails
  <1>2. q \in Requests /\ TableInv
    BY <1>1, CallFacts, Zenon
  <1>3. TableInv'
    BY <1>1, <1>2, Zenon DEF TableInv
  <1>4. \A kind \in {"ok", "lost", "storage"} : Return(c, Plain(kind)) => Inv'
    BY <1>1, <1>3, ReturnInv, RecordTypes, Zenon
  <1>5. Return(c, InstalledAs(q.id, q.gen)) => Inv'
    BY <1>1, <1>2, <1>3, ReturnInv, RequestFields, AnswerTypes, Zenon
  <1>6. CASE Fails(c)
    BY <1>4, <1>6, Zenon DEF Fails
  <1>7. CASE Reread(c)
    <2>1. q.op \in {"install", "expire", "close", "purge"}
      BY <1>2, <1>7, RequestFields, InvSplit, Zenon DEF CallInv, Reread
    <2>2. Explained(Current(c), q) \in {InstalledAs(q.id, q.gen), Plain("ok"), Plain("lost"), Plain("storage")}
      BY <2>1, Zenon DEF Explained
    <2>. QED  BY <1>4, <1>5, <1>7, <2>2, Zenon DEF Reread
  <1>. QED  BY <1>6, <1>7, Zenon

\* Every storage call keeps the invariant.
LEMMA InvStep == Inv /\ [Next]_vars => Inv'
  <1>. SUFFICES ASSUME Inv, [Next]_vars PROVE Inv'
    OBVIOUS
  <1>1. CASE UNCHANGED vars
    BY <1>1, Zenon DEF vars, Inv, TypeOK, WritesAreGrounded
  <1>2. CASE Next
    BY <1>2, CallKeepsInv, ReserveKeepsInv, ReadKeepsInv, WriteKeepsInv, RateKeepsInv,
       OneWriteKeepsInv, AnswerKeepsInv, Zenon
    DEF Next
  <1>. QED  BY <1>1, <1>2, Zenon

\* WritesAreGrounded holds in every state: nothing that a call writes over a record is justified by
\* less than what it has read and its condition, however the calls interleave.
THEOREM Grounded == Spec => [](TypeOK /\ WritesAreGrounded)
  BY InvInit, InvStep, PTL DEF Spec, Inv


(* Every storage call is an operation of the port, or nothing that the port shows. *)

PortVars == <<row, reserved, asked, answer>>

\* A new call is a call of the port.
LEMMA CallConforms ==
  ASSUME Inv, NEW c \in Calls, NEW q \in Requests, Call(c, q)
  PROVE  Contract!Next
  <1>1. answer[c].kind # "waiting"
    BY InvSplit, Zenon DEF CallInv, Call
  <1>2. Contract!Call(c, q)
    BY <1>1, Zenon DEF Call, Contract!Call, Plain, Contract!Plain
  <1>. QED  BY <1>2, Zenon DEF Contract!Next

\* The port and the registry speak of the same records.
LEMMA SameRecords ==
  /\ \A kind : Contract!Plain(kind) = Plain(kind)
  /\ \A i, g, start, b : Contract!Acquired(i, g, start, b) = Acquired(i, g, start, b)
  /\ \A i, g : Contract!InstalledAs(i, g) = InstalledAs(i, g)
  /\ Contract!NoRow = NoRow
  /\ \A q : Contract!Reserved(q) = Reserved(q)
  /\ \A r, q, until : Contract!TakenOver(r, q, until) = TakenOver(r, q, until)
  /\ \A r : Contract!InstalledRow(r) = InstalledRow(r)
  /\ \A r, disp : Contract!ClosedRow(r, disp) = ClosedRow(r, disp)
  BY Zenon
  DEF Contract!Plain, Plain, Contract!Acquired, Acquired, Contract!InstalledAs, InstalledAs,
      Contract!NoRow, NoRow, Contract!Reserved, Reserved, Contract!TakenOver, TakenOver,
      Contract!InstalledRow, InstalledRow, Contract!ClosedRow, ClosedRow

\* They read them the same way.
LEMMA SameReadings ==
  ASSUME NEW r, NEW q
  PROVE  /\ Contract!Admits(r, q) <=> Admits(r, q)
         /\ Contract!LeaseExpired(r, q) <=> LeaseExpired(r, q)
         /\ Contract!AttemptFree(r, q) <=> AttemptFree(r, q)
         /\ Contract!Closed(r) <=> Closed(r)
         /\ Contract!Reservation(r, q) <=> Reservation(r, q)
         /\ Contract!ExactAttempt(r, q) <=> ExactAttempt(r, q)
         /\ Contract!ExactTarget(r, q) <=> ExactTarget(r, q)
  BY Zenon
  DEF Contract!Admits, Admits, Contract!FenceAdmits, FenceAdmits, Contract!LeaseExpired,
      LeaseExpired, Contract!TargetExpired, TargetExpired, Contract!AttemptExpired, AttemptExpired,
      Contract!AttemptFree, AttemptFree, Contract!Closed, Closed, Contract!Reservation, Reservation,
      Contract!ExactAttempt, ExactAttempt, Contract!ExactTarget, ExactTarget

\* A call that returns a true answer informs its caller.
LEMMA InformConforms ==
  ASSUME Inv, NEW c \in Calls, local[c].at # "idle", UNCHANGED <<row, reserved, asked>>,
         NEW a \in Contract!Truths(Current(c), asked[c]), Return(c, a)
  PROVE  Contract!Next
  <1>1. Contract!Inform(c)
    BY CallFacts, Zenon DEF Contract!Inform, Return, Contract!Current, Current
  <1>. QED  BY <1>1, Zenon DEF Contract!Next

\* Storage errors are always true.
LEMMA StorageConforms ==
  ASSUME Inv, NEW c \in Calls, local[c].at # "idle", UNCHANGED <<row, reserved, asked>>,
         Return(c, Plain("storage"))
  PROVE  Contract!Next
  <1>1. Plain("storage") \in Contract!Truths(Current(c), asked[c])
    BY SameRecords, Zenon DEF Contract!Truths
  <1>. QED  BY <1>1, InformConforms, Zenon

\* The response of a write is an answer of the port.
LEMMA RespondedConforms ==
  ASSUME NEW c \in Calls, NEW a, RespondedOrResent(c, a)
  PROVE  Contract!Answered(c, a)
  BY SameRecords, Zenon DEF RespondedOrResent, Responded, Return, Contract!Answered

\* The first reservation takes effect as Reserve of the port, is refused for want of room, or
\* shows nothing.
LEMMA ReserveConforms ==
  ASSUME Inv, NEW c \in Calls, Reserve(c)
  PROVE  Contract!Next \/ UNCHANGED PortVars
  <1>. DEFINE q == asked[c]
  <1>1. local[c].at = "put" /\ UNCHANGED asked
    BY Zenon DEF Reserve
  <1>2. q \in Requests /\ q.op = "acquire" /\ reserved \in Nat /\ answer[c].kind = "waiting"
    BY <1>1, CallFacts, InvSplit, Zenon DEF CallInv, AcquirePlaces
  <1>3. CASE Mib > MaxMib
    <2>1. Return(c, Plain("capacity")) /\ UNCHANGED <<row, reserved>>
      BY <1>3, Zenon DEF Reserve
    <2>2. reserved + Mib > MaxMib
      BY <1>2, <1>3, CapacityAssumption
    <2>3. Plain("capacity") \in Contract!Truths(Current(c), q)
      BY <1>2, <2>2, SameRecords, Zenon DEF Contract!Truths, Contract!Refusals, Contract!When
    <2>. QED  BY <1>1, <2>1, <2>3, InformConforms, Zenon
  <1>4. CASE /\ Current(c).state = "none" /\ Room /\ Put(c, Reserved(q)) /\ reserved' = reserved + Mib
             /\ Responded(c, Acquired(q.id, q.gen, q.now, FALSE))
    <2>1. Contract!Answered(c, Acquired(q.id, q.gen, q.now, FALSE))
      BY <1>4, RespondedConforms, Zenon DEF RespondedOrResent
    <2>2. Contract!Reserve(c)
      BY <1>1, <1>2, <1>4, <2>1, SameRecords, Zenon
      DEF Contract!Reserve, Contract!Waits, Contract!Current, Current, Contract!Charge, Room,
          Contract!Put, Put
    <2>. QED  BY <2>2, Zenon DEF Contract!Next
  <1>5. CASE GoTo(c, "read") /\ UNCHANGED <<row, reserved>>
    BY <1>1, <1>5, Zenon DEF GoTo, PortVars
  <1>. QED  BY <1>3, <1>4, <1>5, Zenon DEF Reserve

\* What acquire reports after a read is true of the record that it has read.
LEMMA ReadConforms ==
  ASSUME Inv, NEW c \in Calls, Read(c)
  PROVE  Contract!Next \/ UNCHANGED PortVars
  <1>. DEFINE q == asked[c]  r == Current(c)
  <1>1. local[c].at = "read" /\ UNCHANGED <<row, reserved, asked>>
    BY Zenon DEF Read
  <1>2. q \in Requests /\ q.op = "acquire" /\ r \in Row
    BY <1>1, CallFacts, InvSplit, Zenon DEF CallInv, AcquirePlaces
  <1>3. CASE UNCHANGED answer
    BY <1>1, <1>3, Zenon DEF PortVars
  <1>4. CASE Return(c, Plain("storage"))
    BY <1>1, <1>4, StorageConforms, Zenon
  <1>5. \A a \in Contract!Truths(r, q) : Return(c, a) => Contract!Next
    BY <1>1, InformConforms, Zenon
  <1>6. r.state # "none" /\ ~Admits(r, q) => Plain("conflict") \in Contract!Truths(r, q)
    BY <1>2, SameRecords, SameReadings, Zenon DEF Contract!Truths, Contract!Refusals, Contract!When
  <1>7. ASSUME Admits(r, q)
        PROVE  Contract!Reports(r, q) \subseteq Contract!Truths(r, q)
    BY <1>2, <1>7, SameReadings, Zenon DEF Contract!Truths
  <1>8. /\ r.state = "installed" => InstalledAs(r.id, r.gen) \in Contract!Reports(r, q)
        /\ r.state = "materializing" /\ ~LeaseExpired(r, q) /\ ~AttemptFree(r, q) =>
              Plain("pending") \in Contract!Reports(r, q)
        /\ r.state = "lost" /\ ~q.replace => Plain("gone") \in Contract!Reports(r, q)
        /\ r.state = "terminated" => Plain("terminated") \in Contract!Reports(r, q)
    BY SameRecords, SameReadings, Zenon DEF Contract!Reports, Contract!When
  <1>9. CASE Decide(c, r)
    BY <1>3, <1>5, <1>6, <1>7, <1>8, <1>9, Zenon DEF Decide, GoTo
  <1>. QED  BY <1>4, <1>9, Zenon DEF Read

\* A replaced reservation had expired and passed the fence of the request: the condition names the
\* reservation that was read, and a reservation has one generation.
LEMMA ReplaceExpiredConforms ==
  ASSUME Inv, NEW c \in Calls, ReplaceExpired(c)
  PROVE  Contract!Next \/ UNCHANGED PortVars
  <1>. DEFINE q == asked[c]  r == Current(c)  seen == local[c].seen
  <1>1. /\ local[c].at = "write" /\ UNCHANGED <<asked, reserved>>
        /\ seen.state = "materializing"
    BY Zenon DEF ReplaceExpired
  <1>2. /\ q \in Requests /\ q.op = "acquire" /\ answer[c].kind = "waiting" /\ Minted(r)
        /\ Writable(seen, q) /\ Minted(seen)
    BY <1>1, CallFacts, InvSplit, Zenon DEF CallInv, AcquirePlaces
  <1>3. CASE /\ r.state = "materializing" /\ r.id = seen.id /\ LeaseExpired(r, q) /\ r.spec = q.spec
             /\ Put(c, Reserved(q))
             /\ RespondedOrResent(c, Acquired(q.id, q.gen, q.now, FALSE))
    <2>1. r.gen = seen.gen
      BY <1>1, <1>2, <1>3, Zenon DEF Minted
    <2>2. Admits(r, q)
      BY <1>1, <1>2, <1>3, <2>1, Zenon DEF Writable, Admits, FenceAdmits
    <2>3. Contract!Answered(c, Acquired(q.id, q.gen, q.now, FALSE))
      BY <1>3, RespondedConforms, Zenon
    <2>4. Contract!Admits(r, q) /\ Contract!LeaseExpired(r, q)
      BY <1>3, <2>2, SameReadings, Zenon
    <2>5. Contract!Reserve(c)
      BY <1>1, <1>2, <1>3, <2>3, <2>4, SameRecords, Zenon
      DEF Contract!Reserve, Contract!Waits, Contract!Current, Current, Contract!Put, Put
    <2>. QED  BY <2>5, Zenon DEF Contract!Next
  <1>4. CASE Again(c) /\ UNCHANGED row
    BY <1>1, <1>4, Zenon DEF Again, PortVars
  <1>. QED  BY <1>3, <1>4, Zenon DEF ReplaceExpired

\* An attempt that is taken over is free and passes the fence, and it is taken for no longer than
\* an attempt lasts, although its deadline is computed from what was read.
LEMMA TakeConforms ==
  ASSUME Inv, NEW c \in Calls, TakeExpiredAttempt(c)
  PROVE  Contract!Next \/ UNCHANGED PortVars
  <1>. DEFINE q == asked[c]  r == Current(c)  seen == local[c].seen  until == AttemptUntil(seen, q)
              taken == Acquired(seen.id, seen.gen, seen.start, TRUE)
  <1>1. /\ local[c].at = "write" /\ UNCHANGED <<asked, reserved>>
        /\ seen.state = "materializing" /\ ~LeaseExpired(seen, q)
    BY Zenon DEF TakeExpiredAttempt
  <1>2. /\ q \in Requests /\ q.op = "acquire" /\ answer[c].kind = "waiting"
        /\ Writable(seen, q) /\ seen \in Row
    BY <1>1, CallFacts, InvSplit, Zenon DEF CallInv, AcquirePlaces
  <1>3. CASE /\ r.state = "materializing" /\ r.id = seen.id /\ r.gen = seen.gen
             /\ AttemptFree(r, q) /\ r.spec = seen.spec
             /\ Put(c, TakenOver(r, q, until)) /\ RespondedOrResent(c, taken)
    <2>1. Contract!Admits(r, q) /\ Contract!AttemptFree(r, q)
      <3>1. Admits(r, q)
        BY <1>1, <1>2, <1>3, Zenon DEF Writable, Admits, FenceAdmits
      <3>. QED  BY <1>3, <3>1, SameReadings, Zenon
    <2>2. until \in (q.now + 1)..(q.now + AttemptMs)
      BY <1>1, <1>2, RequestFields, TimeAssumption DEF AttemptUntil, LeaseExpired, Row
    <2>3. Contract!Put(c, Contract!TakenOver(r, q, until))
      BY <1>3, SameRecords, Zenon DEF Contract!Put, Put
    <2>4. Contract!Answered(c, Contract!Acquired(r.id, r.gen, answer'[c].start, TRUE))
      <3>1. CASE Return(c, taken)
        <4>1. answer'[c] = taken /\ taken.start = seen.start
          BY <3>1, InvSplit, Zenon DEF Return, Acquired
        <4>. QED  BY <1>3, <3>1, <4>1, SameRecords, Zenon DEF Return, Contract!Answered
      <3>2. CASE Return(c, Plain("storage")) \/ UNCHANGED answer
        BY <3>2, SameRecords, Zenon DEF Return, Contract!Answered
      <3>. QED  BY <1>3, <3>1, <3>2, Zenon DEF RespondedOrResent, Responded
    <2>5. Contract!TakeOver(c)
      BY <1>1, <1>2, <1>3, <2>1, <2>2, <2>3, <2>4, Zenon
      DEF Contract!TakeOver, Contract!Waits, Contract!Current, Current
    <2>. QED  BY <2>5, Zenon DEF Contract!Next
  <1>4. CASE Again(c) /\ UNCHANGED row
    BY <1>1, <1>4, Zenon DEF Again, PortVars
  <1>. QED  BY <1>3, <1>4, Zenon DEF TakeExpiredAttempt

\* A lost record is replaced only when the request asks for it.
LEMMA ReplaceGoneConforms ==
  ASSUME Inv, NEW c \in Calls, ReplaceGone(c)
  PROVE  Contract!Next \/ UNCHANGED PortVars
  <1>. DEFINE q == asked[c]  r == Current(c)  seen == local[c].seen
  <1>1. local[c].at = "write" /\ UNCHANGED asked /\ seen.state = "lost"
    BY Zenon DEF ReplaceGone
  <1>2. /\ q \in Requests /\ q.op = "acquire" /\ answer[c].kind = "waiting" /\ q.replace
    BY <1>1, CallFacts, InvSplit, Zenon DEF CallInv, AcquirePlaces, Writable
  <1>3. CASE /\ r.state = "lost" /\ r.spec = q.spec /\ Room
             /\ Put(c, Reserved(q)) /\ reserved' = reserved + Mib
             /\ Responded(c, Acquired(q.id, q.gen, q.now, FALSE))
    <2>1. Contract!Admits(r, q)
      BY <1>2, <1>3, SameReadings, Zenon DEF Admits, FenceAdmits
    <2>2. Contract!Answered(c, Acquired(q.id, q.gen, q.now, FALSE))
      BY <1>3, RespondedConforms, Zenon DEF RespondedOrResent
    <2>3. Contract!Reserve(c)
      BY <1>1, <1>2, <1>3, <2>1, <2>2, SameRecords, Zenon
      DEF Contract!Reserve, Contract!Waits, Contract!Current, Current, Contract!Charge, Room,
          Contract!Put, Put
    <2>. QED  BY <2>3, Zenon DEF Contract!Next
  <1>4. CASE GoTo(c, "confirm") /\ UNCHANGED <<row, reserved>>
    BY <1>1, <1>4, Zenon DEF GoTo, PortVars
  <1>. QED  BY <1>3, <1>4, Zenon DEF ReplaceGone

\* A refusal for want of room is true when the counter is read.
LEMMA RateConforms ==
  ASSUME Inv, NEW c \in Calls, RateAbsent(c) \/ ConfirmGone(c) \/ RateGone(c)
  PROVE  Contract!Next \/ UNCHANGED PortVars
  <1>. DEFINE q == asked[c]
  <1>1. /\ local[c].at \in {"room", "confirm", "rate"} /\ UNCHANGED <<row, reserved, asked>>
    BY Zenon DEF RateAbsent, ConfirmGone, RateGone
  <1>2. q \in Requests /\ q.op = "acquire" /\ reserved \in Nat
    BY <1>1, CallFacts, InvSplit, Zenon DEF CallInv, AcquirePlaces
  <1>3. UNCHANGED answer => UNCHANGED PortVars
    BY <1>1, Zenon DEF PortVars
  <1>4. Return(c, Plain("storage")) => Contract!Next
    BY <1>1, StorageConforms, Zenon
  <1>5. ~Room /\ Return(c, Plain("capacity")) => Contract!Next
    <2>. SUFFICES ASSUME ~Room, Return(c, Plain("capacity")) PROVE Contract!Next
      OBVIOUS
    <2>1. reserved + Mib > MaxMib
      BY <1>2, CapacityAssumption DEF Room
    <2>2. Plain("capacity") \in Contract!Truths(Current(c), q)
      BY <1>2, <2>1, SameRecords, Zenon DEF Contract!Truths, Contract!Refusals, Contract!When
    <2>. QED  BY <1>1, <2>2, InformConforms, Zenon
  <1>. QED  BY <1>3, <1>4, <1>5, Zenon DEF RateAbsent, ConfirmGone, RateGone, GoTo, Again

\* The operations that make one write take effect under the condition of the port, or show
\* nothing before the record was read again.
LEMMA OneWriteConforms ==
  ASSUME Inv, NEW c \in Calls,
         Install(c) \/ ExpireLease(c) \/ MarkClosed(c) \/ PurgeTerminal(c)
  PROVE  Contract!Next \/ UNCHANGED PortVars
  <1>. DEFINE q == asked[c]  r == Current(c)
  <1>1. local[c].at \in {"install", "expire", "close", "purge"} /\ UNCHANGED asked
    BY Zenon DEF Install, ExpireLease, MarkClosed, PurgeTerminal
  <1>2. Contract!Waits(c, local[c].at)
    BY <1>1, CallFacts, InvSplit, Zenon DEF CallInv, Contract!Waits
  <1>3. GoTo(c, "reread") /\ UNCHANGED <<row, reserved>> => UNCHANGED PortVars
    BY <1>1, Zenon DEF GoTo, PortVars
  <1>4. \A a : RespondedOrResent(c, a) => Contract!Answered(c, a)
    BY RespondedConforms, Zenon
  <1>5. \A new : Put(c, new) => Contract!Put(c, new)
    BY Zenon DEF Put, Contract!Put
  <1>6. Contract!Current(c) = r
    BY Zenon DEF Contract!Current, Current
  <1>7. CASE Install(c)
    <2>1. CASE /\ Reservation(r, q) /\ r.spec = q.spec /\ Put(c, InstalledRow(r))
               /\ RespondedOrResent(c, InstalledAs(q.id, q.gen))
      <3>1. Contract!InstallTarget(c)
        BY <1>1, <1>2, <1>4, <1>5, <1>6, <1>7, <2>1, SameRecords, SameReadings, Zenon
        DEF Contract!InstallTarget, Install
      <3>. QED  BY <3>1, Zenon DEF Contract!Next
    <2>. QED  BY <1>3, <1>7, <2>1, Zenon DEF Install
  <1>8. CASE ExpireLease(c)
    <2>1. CASE /\ ExactAttempt(r, q) /\ reserved >= Mib
               /\ Put(c, NoRow) /\ reserved' = reserved - Mib /\ Responded(c, Plain("ok"))
      <3>1. Contract!ExpireLease(c)
        BY <1>1, <1>2, <1>4, <1>5, <1>6, <1>8, <2>1, SameRecords, SameReadings, Zenon
        DEF Contract!ExpireLease, ExpireLease, Contract!Refund, RespondedOrResent
      <3>. QED  BY <3>1, Zenon DEF Contract!Next
    <2>. QED  BY <1>3, <1>8, <2>1, Zenon DEF ExpireLease
  <1>9. CASE MarkClosed(c)
    <2>1. CASE /\ ExactTarget(r, q) /\ reserved >= Mib
               /\ Put(c, ClosedRow(r, q.disp)) /\ reserved' = reserved - Mib
               /\ Responded(c, Plain("ok"))
      <3>1. Contract!MarkClosed(c)
        BY <1>1, <1>2, <1>4, <1>5, <1>6, <1>9, <2>1, SameRecords, SameReadings, Zenon
        DEF Contract!MarkClosed, MarkClosed, Contract!Refund, RespondedOrResent
      <3>. QED  BY <3>1, Zenon DEF Contract!Next
    <2>. QED  BY <1>3, <1>9, <2>1, Zenon DEF MarkClosed
  <1>10. CASE PurgeTerminal(c)
    <2>1. CASE /\ Closed(r) /\ r.gen = q.gen /\ Put(c, NoRow) /\ RespondedOrResent(c, Plain("ok"))
      <3>1. Contract!PurgeTerminal(c)
        BY <1>1, <1>2, <1>4, <1>5, <1>6, <1>10, <2>1, SameRecords, SameReadings, Zenon
        DEF Contract!PurgeTerminal, PurgeTerminal
      <3>. QED  BY <3>1, Zenon DEF Contract!Next
    <2>. QED  BY <1>3, <1>10, <2>1, Zenon DEF PurgeTerminal
  <1>. QED  BY <1>7, <1>8, <1>9, <1>10, Zenon

\* The answer after a refused write is true of the record that was read to explain it.
LEMMA AnswerConforms ==
  ASSUME Inv, NEW c \in Calls, Reread(c) \/ Fails(c)
  PROVE  Contract!Next
  <1>. DEFINE q == asked[c]  r == Current(c)
  <1>1. local[c].at # "idle" /\ UNCHANGED <<row, reserved, asked>>
    BY Zenon DEF Reread, Fails
  <1>2. CASE Fails(c)
    BY <1>1, <1>2, StorageConforms, Zenon DEF Fails
  <1>3. CASE Reread(c)
    <2>1. q \in Requests /\ q.op # "acquire"
      BY <1>1, <1>3, CallFacts, InvSplit, Zenon DEF CallInv, Reread
    <2>2. q.op \in {"install", "expire", "close", "purge"} /\ q.disp \in {"lost", "terminated"}
      BY <2>1, RequestFields, Zenon
    <2>3. Explained(r, q) \in Contract!Truths(r, q)
      <3>1. CASE q.op = "install"
        BY <3>1, SameRecords, SameReadings, Zenon DEF Explained, Contract!Truths
      <3>2. CASE q.op = "expire"
        BY <3>2, SameRecords, SameReadings, Zenon DEF Explained, Contract!Truths, Contract!When
      <3>3. CASE q.op = "close"
        <4>1. r.state = q.disp => Contract!Closed(r)
          BY <2>2, Zenon DEF Contract!Closed
        <4>. QED  BY <3>3, <4>1, SameRecords, Zenon DEF Explained, Contract!Truths, Contract!When
      <3>4. CASE q.op = "purge"
        BY <3>4, SameRecords, Zenon DEF Explained, Contract!Truths
      <3>. QED  BY <2>2, <3>1, <3>2, <3>3, <3>4, Zenon
    <2>. QED  BY <1>1, <1>3, <2>3, InformConforms, Zenon DEF Reread
  <1>. QED  BY <1>2, <1>3, Zenon

\* Every step of the registry is a step of the port or leaves what the port shows unchanged.
LEMMA StepConforms == Inv /\ [Next]_vars => [Contract!Next]_(Contract!registryVars)
  <1>. SUFFICES ASSUME Inv, [Next]_vars PROVE Contract!Next \/ UNCHANGED PortVars
    BY Zenon DEF Contract!registryVars, PortVars
  <1>1. CASE UNCHANGED vars
    BY <1>1, Zenon DEF vars, PortVars
  <1>2. CASE Next
    BY <1>2, CallConforms, ReserveConforms, ReadConforms, ReplaceExpiredConforms, TakeConforms,
       ReplaceGoneConforms, RateConforms, OneWriteConforms, AnswerConforms, Zenon
    DEF Next
  <1>. QED  BY <1>1, <1>2, Zenon

\* The registry over DynamoDB implements the registry port: with any number of concurrent calls,
\* keys and requests, and whichever storage calls fail, lose their response, are sent again or are
\* cancelled, every operation takes effect at one instant under its condition, or not at all, and
\* every answer is true.
THEOREM Conformance == Spec => Conforms
  <1>1. Init => Contract!Init
    BY SameRecords, Zenon DEF Init, Contract!Init
  <1>. QED  BY <1>1, InvInit, InvStep, StepConforms, PTL DEF Spec, Conforms, Contract!Spec

-----------------------------------------------------------------------------
(* Capacity accounting *)

PlaneInv == Inv /\ PlaneExact

\* There are finitely many charged records.
LEMMA ChargedFinite == IsFiniteSet(ChargedKeys) /\ Cardinality(ChargedKeys) \in Nat
  <1>1. ChargedKeys \subseteq Keys
    BY Zenon DEF ChargedKeys
  <1>2. IsFiniteSet(ChargedKeys)
    BY <1>1, KeyAssumption, FS_Subset, Zenon
  <1>. QED  BY <1>2, FS_CardinalityType, Zenon

\* The arithmetic of charging or refunding one target.
LEMMA Distributes ==
  ASSUME NEW n \in Nat
  PROVE  Mib * (n + 1) = Mib * n + Mib
  BY CapacityAssumption

\* capacity_add_update together with a record that was not charged.
LEMMA ChargeStep ==
  ASSUME PlaneInv, Room, reserved' = reserved + Mib, NEW k \in Keys,
         NEW r, Charged(r), ~Charged(row[k]), row' = [row EXCEPT ![k] = r]
  PROVE  PlaneExact'
  <1>1. ChargedKeys' = ChargedKeys \cup {k} /\ k \notin ChargedKeys
    BY InvSplit, Zenon DEF PlaneInv, TableInv, ChargedKeys
  <1>2. Cardinality(ChargedKeys') = Cardinality(ChargedKeys) + 1
    BY <1>1, ChargedFinite, FS_AddElement, Zenon
  <1>3. Mib * Cardinality(ChargedKeys') = reserved + Mib
    BY <1>2, ChargedFinite, Distributes, Zenon DEF PlaneInv, PlaneExact
  <1>. QED  BY <1>3, Zenon DEF Room, PlaneExact

\* capacity_subtract_update together with a record that was charged.
LEMMA RefundStep ==
  ASSUME PlaneInv, reserved' = reserved - Mib, NEW k \in Keys,
         NEW r, ~Charged(r), Charged(row[k]), row' = [row EXCEPT ![k] = r]
  PROVE  PlaneExact'
  <1>1. ChargedKeys' = ChargedKeys \ {k} /\ k \in ChargedKeys
    BY InvSplit, Zenon DEF PlaneInv, TableInv, ChargedKeys
  <1>2. IsFiniteSet(ChargedKeys') /\ Cardinality(ChargedKeys') = Cardinality(ChargedKeys) - 1
    BY <1>1, ChargedFinite, FS_RemoveElement, Zenon
  <1>3. Cardinality(ChargedKeys') \in Nat /\ Cardinality(ChargedKeys) = Cardinality(ChargedKeys') + 1
    BY <1>2, ChargedFinite, FS_CardinalityType
  <1>4. reserved = Mib * Cardinality(ChargedKeys') + Mib
    BY <1>3, Distributes, Zenon DEF PlaneInv, PlaneExact
  <1>5. Mib * Cardinality(ChargedKeys') \in Nat
    BY <1>3, CapacityAssumption
  <1>. QED  BY <1>4, <1>5, CapacityAssumption DEF PlaneInv, PlaneExact

\* Steps that charge and refund nothing.
LEMMA SameChargeStep ==
  ASSUME PlaneInv, UNCHANGED reserved, \A k \in Keys : Charged(row'[k]) <=> Charged(row[k])
  PROVE  PlaneExact'
  <1>1. ChargedKeys' = ChargedKeys
    BY Zenon DEF ChargedKeys
  <1>. QED  BY <1>1, Zenon DEF PlaneInv, PlaneExact

\* Every write of a record charges or refunds the plane exactly when the record becomes or ceases
\* to be charged.
LEMMA PlaneStep == PlaneInv /\ [Next]_vars => PlaneInv'
  <1>. SUFFICES ASSUME PlaneInv, [Next]_vars PROVE PlaneExact'
    BY InvStep, Zenon DEF PlaneInv
  <1>1. UNCHANGED <<row, reserved>> => PlaneExact'
    BY SameChargeStep, Zenon
  <1>2. ASSUME NEW c \in Calls, local[c].at # "idle"
        PROVE  /\ asked[c].key \in Keys /\ row \in [Keys -> Row]
               /\ Charged(Reserved(asked[c])) /\ ~Charged(NoRow)
               /\ \A r, until : Charged(TakenOver(r, asked[c], until)) /\ Charged(InstalledRow(r))
               /\ \A r : ~Charged(ClosedRow(r, asked[c].disp))
    <2>1. asked[c] \in Requests /\ TableInv
      BY <1>2, CallFacts, Zenon DEF PlaneInv
    <2>. QED  BY <2>1, RequestFields, Zenon
              DEF TableInv, Charged, Reserved, NoRow, TakenOver, InstalledRow, ClosedRow
  <1>3. ASSUME NEW c \in Calls, Reserve(c) PROVE PlaneExact'
    <2>1. CASE Current(c).state = "none" /\ Room /\ Put(c, Reserved(asked[c])) /\ reserved' = reserved + Mib
      <3>1. ~Charged(Current(c)) /\ local[c].at # "idle"
        BY <1>3, <2>1, Zenon DEF Charged, Reserve
      <3>. QED  BY <1>2, <2>1, <3>1, ChargeStep, Zenon DEF Put, Current
    <2>. QED  BY <1>1, <1>3, <2>1, Zenon DEF Reserve
  <1>4. ASSUME NEW c \in Calls, ReplaceGone(c) PROVE PlaneExact'
    <2>1. CASE Current(c).state = "lost" /\ Room /\ Put(c, Reserved(asked[c])) /\ reserved' = reserved + Mib
      <3>1. ~Charged(Current(c)) /\ local[c].at # "idle"
        BY <1>4, <2>1, Zenon DEF Charged, ReplaceGone
      <3>. QED  BY <1>2, <2>1, <3>1, ChargeStep, Zenon DEF Put, Current
    <2>. QED  BY <1>1, <1>4, <2>1, Zenon DEF ReplaceGone
  <1>5. ASSUME NEW c \in Calls, NEW r, local[c].at # "idle", UNCHANGED reserved,
               Charged(r) <=> Charged(Current(c)), Put(c, r)
        PROVE  PlaneExact'
    BY <1>2, <1>5, SameChargeStep, Zenon DEF Put, Current
  <1>6. ASSUME NEW c \in Calls, ReplaceExpired(c) PROVE PlaneExact'
    <2>1. local[c].at # "idle" /\ UNCHANGED reserved
      BY <1>6, Zenon DEF ReplaceExpired
    <2>. QED  BY <1>1, <1>2, <1>5, <1>6, <2>1, Zenon DEF ReplaceExpired, Charged
  <1>7. ASSUME NEW c \in Calls, TakeExpiredAttempt(c) PROVE PlaneExact'
    <2>1. local[c].at # "idle" /\ UNCHANGED reserved
      BY <1>7, Zenon DEF TakeExpiredAttempt
    <2>. QED  BY <1>1, <1>2, <1>5, <1>7, <2>1, Zenon DEF TakeExpiredAttempt, Charged
  <1>8. ASSUME NEW c \in Calls, Install(c) PROVE PlaneExact'
    <2>1. local[c].at # "idle" /\ UNCHANGED reserved
      BY <1>8, Zenon DEF Install
    <2>. QED  BY <1>1, <1>2, <1>5, <1>8, <2>1, Zenon DEF Install, Charged, Reservation
  <1>9. ASSUME NEW c \in Calls, PurgeTerminal(c) PROVE PlaneExact'
    <2>1. local[c].at # "idle" /\ UNCHANGED reserved
      BY <1>9, Zenon DEF PurgeTerminal
    <2>. QED  BY <1>1, <1>2, <1>5, <1>9, <2>1, Zenon DEF PurgeTerminal, Charged, Closed
  <1>10. ASSUME NEW c \in Calls, ExpireLease(c) PROVE PlaneExact'
    <2>1. CASE ExactAttempt(Current(c), asked[c]) /\ Put(c, NoRow) /\ reserved' = reserved - Mib
      <3>1. Charged(Current(c)) /\ local[c].at # "idle"
        BY <1>10, <2>1, Zenon DEF Charged, ExpireLease, ExactAttempt, Reservation
      <3>. QED  BY <1>2, <2>1, <3>1, RefundStep, Zenon DEF Put, Current
    <2>. QED  BY <1>1, <1>10, <2>1, Zenon DEF ExpireLease
  <1>11. ASSUME NEW c \in Calls, MarkClosed(c) PROVE PlaneExact'
    <2>1. CASE /\ ExactTarget(Current(c), asked[c]) /\ reserved' = reserved - Mib
               /\ Put(c, ClosedRow(Current(c), asked[c].disp))
      <3>1. Charged(Current(c)) /\ local[c].at # "idle"
        BY <1>11, <2>1, Zenon DEF Charged, MarkClosed, ExactTarget
      <3>. QED  BY <1>2, <2>1, <3>1, RefundStep, Zenon DEF Put, Current
    <2>. QED  BY <1>1, <1>11, <2>1, Zenon DEF MarkClosed
  <1>12. ASSUME NEW c \in Calls
         PROVE  /\ \A q \in Requests : Call(c, q) => UNCHANGED <<row, reserved>>
                /\ Read(c) \/ RateAbsent(c) \/ ConfirmGone(c) \/ RateGone(c) \/ Reread(c) \/ Fails(c)
                      => UNCHANGED <<row, reserved>>
    BY Zenon DEF Call, Read, RateAbsent, ConfirmGone, RateGone, Reread, Fails
  <1>13. UNCHANGED vars => UNCHANGED <<row, reserved>>
    BY Zenon DEF vars
  <1>. QED  BY <1>1, <1>3, <1>4, <1>6, <1>7, <1>8, <1>9, <1>10, <1>11, <1>12, <1>13, Zenon DEF Next

\* The counter of the plane is exact in every state, for any number of keys and calls, whatever
\* responses are lost and whatever updates are sent again.
THEOREM PlaneCorrect == Spec => []PlaneExact
  <1>1. Init => PlaneInv
    <2>. SUFFICES ASSUME Init PROVE PlaneExact
      BY InvInit, Zenon DEF PlaneInv
    <2>1. ChargedKeys = {}
      BY RecordTypes, Zenon DEF Init, ChargedKeys, Charged
    <2>2. Cardinality(ChargedKeys) = 0
      BY <2>1, FS_EmptySet, Zenon
    <2>. QED  BY <2>2, CapacityAssumption DEF Init, PlaneExact
  <1>2. PlaneInv => PlaneExact
    BY Zenon DEF PlaneInv
  <1>. QED  BY <1>1, <1>2, PlaneStep, PTL DEF Spec

=============================================================================
