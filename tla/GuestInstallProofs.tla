-------------------------- MODULE GuestInstallProofs --------------------------
(* Proofs about GuestInstall for every set of callers, artifacts and secrets. *)
EXTENDS GuestInstall, TLAPS

Confirmed == {"installed", "replayed"}
Refusals == {"none", "conflict", "invalid", "exhausted", "unavailable", "sandbox_gone", "failed",
             "dropped", "started"}
Stations == {"idle", "lock", "write", "rename", "bundle", "declared", "insert", "required",
             "deliver", "stream", "verify", "place"}

\* What is armed or installed is never replaced.
Grows ==
    /\ armed # None => armed' = armed
    /\ \A d \in Digests : bundles[d] # None => bundles'[d] = bundles[d]
    /\ \A r \in Refs : bindings[r] # None => bindings'[r] = bindings[r]
    /\ \A s \in Sessions : secrets[s] # None => secrets'[s] = secrets[s]
    /\ \A o \in Objects : objects[o] = "whole" => objects'[o] = "whole"

\* No other call notices a step of c.
Others(c) == \A d \in Callers : d # c => call'[d] = call[d]

\* The parts of the requests name entries of the tables.
LEMMA Parts ==
  /\ \A d \in Descriptors : d # None /\ d.digest \in Digests
  /\ \A b \in BindingSeals : /\ b.ref \in Refs /\ b.session \in Sessions
                             /\ b.bundle \in Descriptors /\ b.bundle.digest \in Digests
  /\ \A s \in SecretSets : s # None /\ s.session \in Sessions
  /\ \A b \in Binding : b # None /\ b.seal \in BindingSeals
  /\ \A p \in Payloads : p # None
  /\ Idle \in CallState
  BY InstallAssumption, Zenon DEF Digests, Refs, Sessions, Binding, Idle, CallState

\* What an install has confirmed stays confirmed while the tables grow.
LEMMA InstalledStays ==
  ASSUME Grows, NEW c \in Callers, call'[c].op = call[c].op, call'[c].req = call[c].req,
         CallIsSound(c), call[c].op \in {"bundle", "binding", "secrets", "object"}, Installed(c)
  PROVE  Installed(c)'
  <1>1. CASE call[c].op = "bundle"
    <2>1. bundles[Digest(c)] = Req(c) /\ Req(c) \in Descriptors
      BY <1>1, Zenon DEF Installed, CallIsSound
    <2>2. bundles'[Req(c).digest] = Req(c)
      BY <2>1, Parts, Zenon DEF Grows, Digest
    <2>. QED  BY <1>1, <2>2, Zenon DEF Installed, Digest, Req
  <1>2. CASE call[c].op = "binding"
    <2>1. /\ bindings[Req(c).ref] # None /\ bindings[Req(c).ref].seal = Req(c)
          /\ Req(c) \in BindingSeals
      BY <1>2, Zenon DEF Installed, CallIsSound
    <2>2. bindings'[Req(c).ref] = bindings[Req(c).ref]
      BY <2>1, Parts, Zenon DEF Grows
    <2>. QED  BY <1>2, <2>1, <2>2, Zenon DEF Installed, Req
  <1>3. CASE call[c].op = "secrets"
    <2>1. secrets[Req(c).session] = Req(c) /\ Req(c) \in SecretSets
      BY <1>3, Zenon DEF Installed, CallIsSound
    <2>2. secrets'[Req(c).session] = Req(c)
      BY <2>1, Parts, Zenon DEF Grows
    <2>. QED  BY <1>3, <2>2, Zenon DEF Installed, Req
  <1>4. CASE call[c].op = "object"
    <2>1. objects[Req(c)] = "whole" /\ Req(c) \in Objects
      BY <1>4, Zenon DEF Installed, CallIsSound
    <2>2. objects'[Req(c)] = "whole"
      BY <2>1, Zenon DEF Grows
    <2>. QED  BY <1>4, <2>2, Zenon DEF Installed, Req
  <1>. QED  BY <1>1, <1>2, <1>3, <1>4, Zenon

\* A call that does not move is as sound as before.
LEMMA OtherKept ==
  ASSUME InstallInv, Grows, NEW d \in Callers, call'[d] = call[d],
         call[d].at \in {"write", "rename"} => UNCHANGED <<bundles, staging>>
  PROVE  CallIsSound(d)'
  <1>1. CallIsSound(d)
    BY Zenon DEF InstallInv
  <1>2. call[d].out \in Confirmed => Installed(d)'
    BY <1>1, InstalledStays, Zenon DEF CallIsSound, Confirmed
  <1>3. call[d].at \in {"declared", "insert"} =>
           bundles'[Req(d).bundle.digest] = bundles[Req(d).bundle.digest]
    BY <1>1, Parts DEF CallIsSound, Grows
  <1>4. armed # None => armed' = armed
    BY Zenon DEF Grows
  <1>. QED  BY <1>1, <1>2, <1>3, <1>4, Parts DEF CallIsSound, Req, Digest, Confirmed, TypeOK, InstallInv

\* A step of one handler needs to be examined for that handler and for the
\* entries it adds.
LEMMA StepKeeps ==
  ASSUME InstallInv, NEW c \in Callers, Grows, Others(c), TypeOK', CallIsSound(c)',
         \A d \in Callers : d # c /\ call[d].at \in {"write", "rename"} => UNCHANGED <<bundles, staging>>,
         \A d \in Digests : BundleIsSound(d)',
         \A o \in Objects : objects'[o] = objects[o] \/ objects'[o] = "whole",
         \A r \in Refs : bindings'[r] = bindings[r] \/
             (BindingIsSound(r)' /\ \A q \in Refs : bindings[q] # None => bindings[q].uid # bindings'[r].uid
                 /\ bindings'[q] = bindings[q]),
         \A r, q \in Refs : bindings'[r] # bindings[r] /\ bindings'[q] # bindings[q] => r = q,
         \A s \in Sessions : secrets'[s] = secrets[s] \/ SecretsAreSound(s)',
         \A x \in started' : x \in started \/ ExecutionIsSound(x)'
  PROVE  InstallInv'
  <1>1. \A d \in Callers : CallIsSound(d)'
    BY OtherKept, Zenon DEF Others
  <1>2. \A o \in Objects : objects'[o] # "partial"
    BY Zenon DEF InstallInv
  <1>3. ASSUME NEW r \in Refs PROVE BindingIsSound(r)'
    <2>. SUFFICES ASSUME bindings'[r] = bindings[r], bindings[r] # None PROVE BindingIsSound(r)'
      BY Zenon DEF BindingIsSound
    <2>1. BindingIsSound(r) /\ bindings[r] \in Binding
      BY DEF InstallInv, TypeOK
    <2>2. /\ bundles[bindings[r].seal.bundle.digest] = bindings[r].seal.bundle
          /\ bindings[r].seal.bundle.digest \in Digests /\ bindings[r].seal.bundle # None
      BY <2>1, Parts, Zenon DEF BindingIsSound
    <2>3. bundles'[bindings[r].seal.bundle.digest] = bindings[r].seal.bundle
      BY <2>2, Zenon DEF Grows
    <2>. QED  BY <2>1, <2>3, Zenon DEF BindingIsSound, Grows
  <1>4. ASSUME NEW q \in Refs, NEW r \in Refs, bindings'[q] # None, bindings'[r] # None,
               bindings'[q].uid = bindings'[r].uid
        PROVE  q = r
    BY <1>4 DEF InstallInv
  <1>5. \A s \in Sessions : SecretsAreSound(s)'
    BY Zenon DEF InstallInv, SecretsAreSound, Grows
  <1>6. ASSUME NEW x \in started PROVE ExecutionIsSound(x)'
    <2>1. ExecutionIsSound(x)
      BY Zenon DEF InstallInv
    <2>. QED  BY <2>1, Zenon DEF ExecutionIsSound, Grows
  <1>. QED  BY <1>1, <1>2, <1>3, <1>4, <1>5, <1>6, Zenon DEF InstallInv

-----------------------------------------------------------------------------
(* Steps of a handler that change no table *)

\* The typing that every step uses.
LEMMA Typed ==
  ASSUME InstallInv, NEW c \in Callers
  PROVE  /\ call \in [Callers -> CallState] /\ call[c] \in CallState /\ CallIsSound(c) /\ TypeOK
         /\ (writer = c) <=> (call[c].at \in {"write", "rename"})
  BY Zenon DEF InstallInv, TypeOK

\* A handler goes on.
LEMMA GoStep ==
  ASSUME InstallInv, NEW c \in Callers, NEW at \in Stations, Go(c, at)
  PROVE  /\ call' \in [Callers -> CallState] /\ Others(c)
         /\ call'[c].at = at /\ call'[c].op = call[c].op /\ call'[c].req = call[c].req
         /\ call'[c].got = call[c].got /\ call'[c].out = call[c].out
  <1>1. call \in [Callers -> CallState] /\ call[c] \in CallState
    BY Typed, Zenon
  <1>2. call' = [call EXCEPT ![c] = [call[c] EXCEPT !.at = at]]
    BY <1>1, Zenon DEF Go
  <1>3. [call[c] EXCEPT !.at = at] \in CallState
    BY <1>1, Zenon DEF CallState, Stations
  <1>4. /\ [call[c] EXCEPT !.at = at].at = at /\ [call[c] EXCEPT !.at = at].op = call[c].op
        /\ [call[c] EXCEPT !.at = at].req = call[c].req
        /\ [call[c] EXCEPT !.at = at].got = call[c].got
        /\ [call[c] EXCEPT !.at = at].out = call[c].out
    BY <1>1, Zenon DEF CallState
  <1>. QED  BY <1>1, <1>2, <1>3, <1>4, Zenon DEF Others

\* A handler answers.
LEMMA ReturnStep ==
  ASSUME InstallInv, NEW c \in Callers, NEW out \in Confirmed \cup Refusals, Return(c, out)
  PROVE  /\ call' \in [Callers -> CallState] /\ Others(c)
         /\ call'[c].at = "idle" /\ call'[c].op = call[c].op /\ call'[c].req = call[c].req
         /\ call'[c].out = out
  <1>1. call \in [Callers -> CallState] /\ call[c] \in CallState
    BY Typed, Zenon
  <1>2. call' = [call EXCEPT ![c] = [call[c] EXCEPT !.at = "idle", !.out = out]]
    BY <1>1, Zenon DEF Return, CallState
  <1>3. [call[c] EXCEPT !.at = "idle", !.out = out] \in CallState
    <2>1. out \in {"none", "installed", "replayed", "conflict", "invalid", "exhausted",
                   "unavailable", "sandbox_gone", "failed", "dropped", "started"}
      BY Zenon DEF Confirmed, Refusals
    <2>. QED  BY <1>1, <2>1, ZenonT(60) DEF CallState
  <1>4. /\ [call[c] EXCEPT !.at = "idle", !.out = out].at = "idle"
        /\ [call[c] EXCEPT !.at = "idle", !.out = out].op = call[c].op
        /\ [call[c] EXCEPT !.at = "idle", !.out = out].req = call[c].req
        /\ [call[c] EXCEPT !.at = "idle", !.out = out].out = out
    BY <1>1, Zenon DEF CallState
  <1>. QED  BY <1>1, <1>2, <1>3, <1>4, Zenon DEF Others

\* The answer is sound when it confirms nothing or what the table holds.
LEMMA AnswerIsSound ==
  ASSUME NEW c \in Callers, CallIsSound(c), call'[c].at = "idle",
         call'[c].op = call[c].op, call'[c].req = call[c].req,
         \/ call'[c].out \in Refusals
         \/ /\ call'[c].out \in Confirmed /\ Installed(c)' /\ armed' # None
            /\ call[c].op \in {"bundle", "binding", "secrets", "object"}
  PROVE  CallIsSound(c)'
  BY Zenon DEF CallIsSound, Req, Digest, Confirmed, Refusals

\* Nothing but the call changes.
LEMMA QuietKeeps ==
  ASSUME InstallInv, NEW c \in Callers, Others(c), call' \in [Callers -> CallState],
         UNCHANGED <<armed, expired, bundles, writer, staging, modules, bindings, secrets, objects,
                     started>>,
         call[c].at \notin {"write", "rename"}, call'[c].at \notin {"write", "rename"},
         CallIsSound(c)'
  PROVE  InstallInv'
  <1>1. TypeOK'
    BY Zenon DEF InstallInv, TypeOK, Others
  <1>2. Grows
    BY Zenon DEF Grows
  <1>3. \A d \in Digests : BundleIsSound(d)'
    BY Zenon DEF InstallInv, BundleIsSound
  <1>. QED  BY <1>1, <1>2, <1>3, StepKeeps, Zenon

\* A handler that answers without touching a table.
LEMMA QuietAnswer ==
  ASSUME InstallInv, NEW c \in Callers, NEW out \in Confirmed \cup Refusals, Return(c, out),
         UNCHANGED <<armed, expired, bundles, writer, staging, modules, bindings, secrets, objects,
                     started>>,
         call[c].at \notin {"idle", "write", "rename"},
         out \in Confirmed => Installed(c)
  PROVE  InstallInv'
  <1>1. /\ call' \in [Callers -> CallState] /\ Others(c)
        /\ call'[c].at = "idle" /\ call'[c].op = call[c].op /\ call'[c].req = call[c].req
        /\ call'[c].out = out
    BY ReturnStep, Zenon
  <1>2. CallIsSound(c) /\ call[c] \in CallState
    BY Typed, Zenon
  <1>3. armed # None /\ call[c].op \in {"bundle", "binding", "secrets", "object"}
    BY <1>2, Zenon DEF CallIsSound, CallState
  <1>4. Grows
    BY Zenon DEF Grows
  <1>5. Installed(c) => Installed(c)'
    BY <1>1, <1>2, <1>3, <1>4, InstalledStays, Zenon
  <1>6. CallIsSound(c)'
    BY <1>1, <1>2, <1>3, <1>5, AnswerIsSound, Zenon
  <1>. QED  BY <1>1, <1>6, QuietKeeps, Zenon

\* A new call of one of the install routes.
LEMMA BeginKeeps ==
  ASSUME InstallInv, NEW c \in Callers, NEW op \in {"bundle", "binding", "secrets", "object"}, NEW req,
         NEW at \in Stations \ {"write", "rename", "declared", "insert", "place"}, NEW out \in Refusals,
         Begin(c, op, req, at, out), at # "idle" => out = "none",
         op = "bundle" => req \in Descriptors /\ at \in {"idle", "lock"},
         op = "binding" => req \in BindingSeals /\ at \in {"idle", "bundle"}
                           /\ (at = "bundle" => req.root = armed.root),
         op = "secrets" => req \in SecretSets /\ at \in {"idle", "required"}
                           /\ (at = "required" => req.generation = armed.generation),
         op = "object" => req \in Objects /\ at \in {"idle", "stream"}
  PROVE  InstallInv'
  <1>1. call \in [Callers -> CallState] /\ call[c].at = "idle" /\ armed # None
    BY Typed, Zenon DEF Begin, Authorized
  <1>2. [op |-> op, req |-> req, at |-> at, got |-> "none", out |-> out] \in CallState
    BY Zenon DEF CallState, Stations, Refusals
  <1>3. /\ call' \in [Callers -> CallState] /\ Others(c)
        /\ call'[c].op = op /\ call'[c].req = req /\ call'[c].at = at /\ call'[c].out = out
    BY <1>1, <1>2, Zenon DEF Begin, Others
  <1>4. UNCHANGED <<armed, expired, bundles, writer, staging, modules, bindings, secrets, objects,
                    started>>
    BY Zenon DEF Begin, Target, Bundles
  <1>5. CallIsSound(c)'
    BY <1>1, <1>3, <1>4, Zenon DEF CallIsSound, Req, Digest, Refusals, Stations
  <1>. QED  BY <1>1, <1>3, <1>4, <1>5, QuietKeeps, Zenon DEF Stations

-----------------------------------------------------------------------------
(* install_bundle *)

\* The holder of the write lock works on its staging file, or gives the lock back.
LEMMA WriterKeeps ==
  ASSUME InstallInv, NEW c \in Callers, Others(c), call' \in [Callers -> CallState],
         UNCHANGED <<armed, expired, bindings, secrets, objects, started>>,
         writer \in {c, None}, writer' \in {c, None},
         (writer' = c) <=> (call'[c].at \in {"write", "rename"}),
         bundles' \in [Digests -> Descriptors \cup {None}],
         staging' \in [Digests -> {"none", "partial", "whole"}],
         modules' \in [Digests -> {"none", "partial", "whole"}],
         \A d \in Digests : bundles[d] # None => bundles'[d] = bundles[d],
         \A d \in Digests : BundleIsSound(d)',
         CallIsSound(c)'
  PROVE  InstallInv'
  <1>1. \A d \in Callers : d # c => writer # d /\ writer' # d /\ call[d].at \notin {"write", "rename"}
    BY InstallAssumption DEF InstallInv, TypeOK
  <1>2. TypeOK'
    BY <1>1, Zenon DEF InstallInv, TypeOK, Others
  <1>3. Grows
    BY Zenon DEF Grows
  <1>. QED  BY <1>1, <1>2, <1>3, StepKeeps, Zenon

\* A known digest answers; otherwise the staging file is created.
LEMMA StageKeeps ==
  ASSUME InstallInv, NEW c \in Callers, StageBundle(c)
  PROVE  InstallInv'
  <1>1. CallIsSound(c) /\ TypeOK /\ call[c].at = "lock" /\ writer = None
    BY Typed, Zenon DEF StageBundle
  <1>2. call[c].op = "bundle" /\ Req(c) \in Descriptors /\ Digest(c) \in Digests
    BY <1>1, Parts, Zenon DEF CallIsSound, Digest
  <1>3. UNCHANGED <<armed, expired, bindings, secrets, objects, started>>
    BY Zenon DEF StageBundle, Target
  <1>4. CASE \E out \in Confirmed \cup Refusals :
               /\ Return(c, out) /\ UNCHANGED Bundles
               /\ out \in Confirmed => bundles[Digest(c)] = Req(c)
    <2>1. PICK out \in Confirmed \cup Refusals :
             /\ Return(c, out) /\ UNCHANGED Bundles
             /\ out \in Confirmed => bundles[Digest(c)] = Req(c)
      BY <1>4, Zenon
    <2>2. out \in Confirmed => Installed(c)
      BY <1>2, <2>1, Zenon DEF Installed
    <2>. QED  BY <1>1, <1>3, <2>1, <2>2, QuietAnswer, Zenon DEF Bundles
  <1>5. CASE /\ bundles[Digest(c)] = None
             /\ writer' = c /\ staging' = [staging EXCEPT ![Digest(c)] = "partial"]
             /\ Go(c, "write") /\ UNCHANGED <<bundles, modules>>
    <2>1. /\ call' \in [Callers -> CallState] /\ Others(c)
          /\ call'[c].at = "write" /\ call'[c].op = call[c].op /\ call'[c].req = call[c].req
          /\ call'[c].out = call[c].out
      BY <1>5, GoStep, Zenon DEF Stations
    <2>2. CallIsSound(c)'
      BY <1>1, <1>2, <1>3, <1>5, <2>1, Zenon DEF CallIsSound, Req, Digest
    <2>3. \A d \in Digests : BundleIsSound(d)'
      BY <1>5, Zenon DEF InstallInv, BundleIsSound
    <2>4. staging' \in [Digests -> {"none", "partial", "whole"}]
      BY <1>1, <1>2, <1>5, Zenon DEF TypeOK
    <2>. QED  BY <1>1, <1>3, <1>5, <2>1, <2>2, <2>3, <2>4, WriterKeeps, Zenon DEF TypeOK
  <1>6. \/ /\ bundles[Digest(c)] # None /\ UNCHANGED Bundles
           /\ Return(c, IF bundles[Digest(c)] = Req(c) THEN "replayed" ELSE "conflict")
        \/ Return(c, "unavailable") /\ UNCHANGED Bundles
        \/ /\ bundles[Digest(c)] = None
           /\ writer' = c /\ staging' = [staging EXCEPT ![Digest(c)] = "partial"]
           /\ Go(c, "write") /\ UNCHANGED <<bundles, modules>>
    BY Zenon DEF StageBundle
  <1>7. CASE /\ bundles[Digest(c)] # None /\ UNCHANGED Bundles
             /\ Return(c, IF bundles[Digest(c)] = Req(c) THEN "replayed" ELSE "conflict")
    <2>1. CASE bundles[Digest(c)] = Req(c)
      BY <1>4, <1>7, <2>1, Zenon DEF Confirmed
    <2>2. CASE bundles[Digest(c)] # Req(c)
      BY <1>4, <1>7, <2>2 DEF Refusals, Confirmed
    <2>. QED  BY <2>1, <2>2, Zenon
  <1>8. CASE Return(c, "unavailable") /\ UNCHANGED Bundles
    BY <1>4, <1>8 DEF Refusals, Confirmed
  <1>. QED  BY <1>5, <1>6, <1>7, <1>8, Zenon

\* The bytes are written, or the write fails and the file is removed.
LEMMA WriteKeeps ==
  ASSUME InstallInv, NEW c \in Callers, WriteBundle(c) \/ WriteBundleFails(c)
  PROVE  InstallInv'
  <1>1. CallIsSound(c) /\ TypeOK /\ call[c].at = "write" /\ writer = c
    BY Typed, Zenon DEF WriteBundle, WriteBundleFails
  <1>2. call[c].op = "bundle" /\ Req(c) \in Descriptors /\ Digest(c) \in Digests
    BY <1>1, Parts, Zenon DEF CallIsSound, Digest
  <1>3. /\ UNCHANGED <<armed, expired, bindings, secrets, objects, started, bundles, modules>>
        /\ staging' \in [Digests -> {"none", "partial", "whole"}]
    BY <1>1, <1>2, Zenon DEF WriteBundle, WriteBundleFails, Target, TypeOK
  <1>4. \A d \in Digests : BundleIsSound(d)'
    BY <1>3, Zenon DEF InstallInv, BundleIsSound
  <1>5. CASE WriteBundle(c)
    <2>1. /\ call' \in [Callers -> CallState] /\ Others(c)
          /\ call'[c].at = "rename" /\ call'[c].op = call[c].op /\ call'[c].req = call[c].req
          /\ call'[c].out = call[c].out
      BY <1>5, GoStep, Zenon DEF Stations, WriteBundle
    <2>2. staging'[Digest(c)] = "whole" /\ writer' = writer
      BY <1>1, <1>2, <1>5, Zenon DEF WriteBundle, TypeOK
    <2>3. CallIsSound(c)'
      BY <1>1, <1>2, <1>3, <2>1, <2>2, Zenon DEF CallIsSound, Req, Digest
    <2>. QED  BY <1>1, <1>3, <1>4, <2>1, <2>2, <2>3, WriterKeeps, Zenon DEF TypeOK
  <1>6. CASE WriteBundleFails(c)
    <2>1. /\ call' \in [Callers -> CallState] /\ Others(c) /\ writer' = None
          /\ call'[c].at = "idle" /\ call'[c].op = call[c].op /\ call'[c].req = call[c].req
          /\ call'[c].out = "unavailable"
      BY <1>6, ReturnStep, Zenon DEF WriteBundleFails, Refusals
    <2>2. CallIsSound(c)'
      BY <1>1, <2>1, AnswerIsSound, Zenon DEF Refusals
    <2>. QED  BY <1>1, <1>3, <1>4, <2>1, <2>2, WriterKeeps, InstallAssumption, Zenon DEF TypeOK
  <1>. QED  BY <1>5, <1>6, Zenon

\* The module appears under its digest with all of its bytes, or not at all.
LEMMA RenameKeeps ==
  ASSUME InstallInv, NEW c \in Callers, RenameBundle(c) \/ RenameBundleFails(c) \/ DropBundle(c)
  PROVE  InstallInv'
  <1>1. CallIsSound(c) /\ TypeOK /\ call[c].at \in {"write", "rename"} /\ writer = c
    BY Typed, Zenon DEF RenameBundle, RenameBundleFails, DropBundle
  <1>2. /\ call[c].op = "bundle" /\ Req(c) \in Descriptors /\ Digest(c) \in Digests
        /\ Req(c) # None /\ armed # None /\ bundles[Digest(c)] = None
        /\ call[c].at = "rename" => staging[Digest(c)] = "whole"
    BY <1>1, Parts, Zenon DEF CallIsSound, Digest
  <1>3. /\ UNCHANGED <<armed, expired, bindings, secrets, objects, started>> /\ writer' = None
        /\ \/ UNCHANGED <<staging, modules>>
           \/ Rename(Digest(c)) /\ call[c].at = "rename"
    BY Zenon DEF RenameBundle, RenameBundleFails, DropBundle, Target
  <1>4. /\ staging' \in [Digests -> {"none", "partial", "whole"}]
        /\ modules' \in [Digests -> {"none", "partial", "whole"}]
        /\ \A d \in Digests : modules'[d] = modules[d] \/ modules'[d] = "whole"
    BY <1>1, <1>2, <1>3, Zenon DEF Rename, TypeOK
  <1>5. CASE RenameBundle(c)
    <2>1. /\ call' \in [Callers -> CallState] /\ Others(c)
          /\ call'[c].at = "idle" /\ call'[c].op = call[c].op /\ call'[c].req = call[c].req
          /\ call'[c].out = "installed"
      BY <1>5, ReturnStep, Zenon DEF RenameBundle, Confirmed
    <2>2. /\ bundles' = [bundles EXCEPT ![Digest(c)] = Req(c)]
          /\ modules' = [modules EXCEPT ![Digest(c)] = staging[Digest(c)]]
          /\ call[c].at = "rename"
      BY <1>5, Zenon DEF RenameBundle, Rename
    <2>3. /\ bundles' \in [Digests -> Descriptors \cup {None}] /\ bundles'[Digest(c)] = Req(c)
          /\ modules'[Digest(c)] = "whole"
          /\ \A d \in Digests : d # Digest(c) => bundles'[d] = bundles[d]
      BY <1>1, <1>2, <2>2, Zenon DEF TypeOK
    <2>4. \A d \in Digests : BundleIsSound(d)'
      BY <1>2, <1>4, <2>3, Zenon DEF InstallInv, BundleIsSound
    <2>5. Installed(c)'
      BY <1>2, <2>1, <2>3, Zenon DEF Installed, Digest, Req
    <2>6. CallIsSound(c)'
      BY <1>1, <1>2, <1>3, <2>1, <2>5, AnswerIsSound, Zenon DEF Confirmed
    <2>. QED  BY <1>1, <1>2, <1>3, <1>4, <2>1, <2>3, <2>4, <2>6, WriterKeeps, InstallAssumption,
                 Zenon
  <1>6. CASE RenameBundleFails(c) \/ DropBundle(c)
    <2>1. Return(c, "unavailable") \/ Return(c, "dropped")
      BY <1>6, Zenon DEF RenameBundleFails, DropBundle
    <2>2. /\ call' \in [Callers -> CallState] /\ Others(c)
          /\ call'[c].at = "idle" /\ call'[c].op = call[c].op /\ call'[c].req = call[c].req
          /\ call'[c].out \in Refusals
      BY <2>1, ReturnStep, Zenon DEF Refusals
    <2>3. UNCHANGED bundles
      BY <1>6, Zenon DEF RenameBundleFails, DropBundle
    <2>4. \A d \in Digests : BundleIsSound(d)'
      BY <1>4, <2>3, Zenon DEF InstallInv, BundleIsSound
    <2>5. CallIsSound(c)'
      BY <1>1, <2>2, AnswerIsSound, Zenon
    <2>. QED  BY <1>1, <1>3, <1>4, <2>2, <2>3, <2>4, <2>5, WriterKeeps, InstallAssumption, Zenon
              DEF TypeOK
  <1>. QED  BY <1>5, <1>6, Zenon

-----------------------------------------------------------------------------
(* install_binding, install_secrets and install_object *)

\* The checks a handler makes with one lock at a time.
LEMMA CheckKeeps ==
  ASSUME InstallInv, NEW c \in Callers, FindBundle(c) \/ CheckDeclared(c) \/ CheckRequired(c)
  PROVE  InstallInv'
  <1>1. CallIsSound(c) /\ call[c].at \in {"bundle", "declared", "required"}
    BY Typed, Zenon DEF FindBundle, CheckDeclared, CheckRequired
  <1>2. UNCHANGED <<armed, expired, bundles, writer, staging, modules, bindings, secrets, objects,
                    started>>
    BY Zenon DEF FindBundle, CheckDeclared, CheckRequired, Target, Bundles
  <1>3. \/ Return(c, "invalid") \/ Return(c, "conflict")
        \/ /\ call[c].at = "bundle" /\ Go(c, "declared")
           /\ bundles[Req(c).bundle.digest] = Req(c).bundle
        \/ call[c].at = "declared" /\ Go(c, "insert")
        \/ call[c].at = "required" /\ Go(c, "deliver")
    BY Zenon DEF FindBundle, CheckDeclared, CheckRequired
  <1>4. CASE Return(c, "invalid") \/ Return(c, "conflict")
    BY <1>1, <1>2, <1>4, QuietAnswer, Zenon DEF Refusals, Confirmed
  <1>5. CASE \/ /\ call[c].at = "bundle" /\ Go(c, "declared")
                /\ bundles[Req(c).bundle.digest] = Req(c).bundle
             \/ call[c].at = "declared" /\ Go(c, "insert")
             \/ call[c].at = "required" /\ Go(c, "deliver")
    <2>1. PICK at \in {"declared", "insert", "deliver"} :
             /\ Go(c, at)
             /\ \/ /\ call[c].at = "bundle" /\ at = "declared"
                   /\ bundles[Req(c).bundle.digest] = Req(c).bundle
                \/ call[c].at = "declared" /\ at = "insert"
                \/ call[c].at = "required" /\ at = "deliver"
      BY <1>5, Zenon
    <2>2. /\ call' \in [Callers -> CallState] /\ Others(c)
          /\ call'[c].at = at /\ call'[c].op = call[c].op /\ call'[c].req = call[c].req
          /\ call'[c].out = call[c].out
      BY <2>1, GoStep, Zenon DEF Stations
    <2>3. CallIsSound(c)'
      BY <1>1, <1>2, <2>1, <2>2, Zenon DEF CallIsSound, Req
    <2>. QED  BY <1>1, <1>2, <2>1, <2>2, <2>3, QuietKeeps, Zenon
  <1>. QED  BY <1>3, <1>4, <1>5, Zenon

\* A binding is sealed once, under a uid no other binding has.
LEMMA InsertBindingKeeps ==
  ASSUME InstallInv, NEW c \in Callers, InsertBinding(c)
  PROVE  InstallInv'
  <1>1. CallIsSound(c) /\ TypeOK /\ call[c].at = "insert"
    BY Typed, Zenon DEF InsertBinding
  <1>2. /\ call[c].op = "binding" /\ Req(c) \in BindingSeals /\ Req(c).ref \in Refs
        /\ armed # None /\ Req(c).root = armed.root
        /\ bundles[Req(c).bundle.digest] = Req(c).bundle
    BY <1>1, Parts, Zenon DEF CallIsSound
  <1>3. UNCHANGED <<armed, expired, bundles, writer, staging, modules, secrets, objects, started>>
    BY Zenon DEF InsertBinding, Target, Bundles
  <1>4. \/ /\ Return(c, "replayed") /\ UNCHANGED bindings
           /\ bindings[Req(c).ref] # None /\ bindings[Req(c).ref].seal = Req(c)
        \/ (Return(c, "conflict") \/ Return(c, "exhausted")) /\ UNCHANGED bindings
        \/ /\ bindings[Req(c).ref] = None /\ ~Taken(Req(c).ref) /\ Return(c, "installed")
           /\ bindings' = [bindings EXCEPT ![Req(c).ref] = [seal |-> Req(c), uid |-> UidOf[Req(c).ref]]]
    BY Zenon DEF InsertBinding
  <1>5. CASE /\ Return(c, "replayed") /\ UNCHANGED bindings
             /\ bindings[Req(c).ref] # None /\ bindings[Req(c).ref].seal = Req(c)
    <2>1. Installed(c)
      BY <1>2, <1>5, Zenon DEF Installed
    <2>. QED  BY <1>1, <1>3, <1>5, <2>1, QuietAnswer, Zenon DEF Confirmed
  <1>6. CASE (Return(c, "conflict") \/ Return(c, "exhausted")) /\ UNCHANGED bindings
    BY <1>1, <1>3, <1>6, QuietAnswer, Zenon DEF Refusals, Confirmed
  <1>7. ASSUME bindings[Req(c).ref] = None, ~Taken(Req(c).ref), Return(c, "installed"),
               bindings' = [bindings EXCEPT ![Req(c).ref] = [seal |-> Req(c), uid |-> UidOf[Req(c).ref]]]
        PROVE  InstallInv'
    <2>1. /\ call' \in [Callers -> CallState] /\ Others(c)
          /\ call'[c].at = "idle" /\ call'[c].op = call[c].op /\ call'[c].req = call[c].req
          /\ call'[c].out = "installed"
      BY <1>7, ReturnStep, Zenon DEF Confirmed
    <2>2. [seal |-> Req(c), uid |-> UidOf[Req(c).ref]] \in Binding
      BY <1>2, Zenon DEF Binding
    <2>3. /\ bindings' \in [Refs -> Binding \cup {None}]
          /\ bindings'[Req(c).ref] # None /\ bindings'[Req(c).ref].seal = Req(c)
          /\ bindings'[Req(c).ref].uid = UidOf[Req(c).ref]
          /\ \A q \in Refs : q # Req(c).ref => bindings'[q] = bindings[q]
      <3>. DEFINE new == [seal |-> Req(c), uid |-> UidOf[Req(c).ref]]
      <3>1. new \in Binding /\ new # None /\ new.seal = Req(c) /\ new.uid = UidOf[Req(c).ref]
        BY <2>2, Parts, Zenon
      <3>2. bindings' = [bindings EXCEPT ![Req(c).ref] = new]
        BY <1>7, Zenon
      <3>. HIDE DEF new
      <3>. QED  BY <1>1, <1>2, <3>1, <3>2, Zenon DEF TypeOK
    <2>4. \A r \in Refs : r = Req(c).ref => BindingIsSound(r)'
      BY <1>2, <1>3, <2>3, Zenon DEF BindingIsSound
    <2>5. \A q \in Refs : bindings[q] # None => bindings[q].uid # bindings'[Req(c).ref].uid
      BY <1>7, <2>3, Zenon DEF Taken
    <2>6. CallIsSound(c)'
      <3>1. Installed(c)'
        BY <1>2, <2>1, <2>3, Zenon DEF Installed, Req
      <3>. QED  BY <1>1, <1>2, <1>3, <2>1, <3>1, AnswerIsSound, Zenon DEF Confirmed
    <2>7. TypeOK'
      BY <1>1, <1>3, <2>1, <2>3, Zenon DEF TypeOK, Others
    <2>8. \A q \in Refs : bindings[q] # None => bindings'[q] = bindings[q]
      BY <1>7, <2>3, Zenon
    <2>9. Grows /\ \A d \in Digests : BundleIsSound(d)'
      BY <1>3, <2>8, Zenon DEF Grows, InstallInv, BundleIsSound
    <2>10. ASSUME NEW r \in Refs
           PROVE  bindings'[r] = bindings[r] \/
                  (BindingIsSound(r)' /\ \A q \in Refs : bindings[q] # None =>
                      bindings[q].uid # bindings'[r].uid /\ bindings'[q] = bindings[q])
      BY <2>3, <2>4, <2>5, <2>8, Zenon
    <2>. QED  BY <1>3, <2>1, <2>3, <2>6, <2>7, <2>8, <2>9, <2>10, StepKeeps
  <1>. QED  BY <1>4, <1>5, <1>6, <1>7, Zenon

\* A session receives its secrets once in a generation.
LEMMA InsertSecretsKeeps ==
  ASSUME InstallInv, NEW c \in Callers, InsertSecrets(c)
  PROVE  InstallInv'
  <1>1. CallIsSound(c) /\ TypeOK /\ call[c].at = "deliver"
    BY Typed, Zenon DEF InsertSecrets
  <1>2. /\ call[c].op = "secrets" /\ Req(c) \in SecretSets /\ Req(c).session \in Sessions
        /\ armed # None /\ Req(c).generation = armed.generation /\ Req(c) # None
    BY <1>1, Parts, Zenon DEF CallIsSound
  <1>3. UNCHANGED <<armed, expired, bundles, writer, staging, modules, bindings, objects, started>>
    BY Zenon DEF InsertSecrets, Target, Bundles
  <1>4. \/ Return(c, "replayed") /\ UNCHANGED secrets /\ secrets[Req(c).session] = Req(c)
        \/ Return(c, "conflict") /\ UNCHANGED secrets
        \/ /\ secrets[Req(c).session] = None /\ Return(c, "installed")
           /\ secrets' = [secrets EXCEPT ![Req(c).session] = Req(c)]
    BY Zenon DEF InsertSecrets
  <1>5. CASE Return(c, "replayed") /\ UNCHANGED secrets /\ secrets[Req(c).session] = Req(c)
    <2>1. Installed(c)
      BY <1>2, <1>5, Zenon DEF Installed
    <2>. QED  BY <1>1, <1>3, <1>5, <2>1, QuietAnswer, Zenon DEF Confirmed
  <1>6. CASE Return(c, "conflict") /\ UNCHANGED secrets
    BY <1>1, <1>3, <1>6, QuietAnswer, Zenon DEF Refusals, Confirmed
  <1>7. ASSUME secrets[Req(c).session] = None, Return(c, "installed"),
               secrets' = [secrets EXCEPT ![Req(c).session] = Req(c)]
        PROVE  InstallInv'
    <2>1. /\ call' \in [Callers -> CallState] /\ Others(c)
          /\ call'[c].at = "idle" /\ call'[c].op = call[c].op /\ call'[c].req = call[c].req
          /\ call'[c].out = "installed"
      BY <1>7, ReturnStep, Zenon DEF Confirmed
    <2>2. /\ secrets' \in [Sessions -> SecretSets \cup {None}] /\ secrets'[Req(c).session] = Req(c)
          /\ \A s \in Sessions : s # Req(c).session => secrets'[s] = secrets[s]
      BY <1>1, <1>2, <1>7, Zenon DEF TypeOK
    <2>3. CallIsSound(c)'
      <3>1. Installed(c)'
        BY <1>2, <2>1, <2>2, Zenon DEF Installed, Req
      <3>. QED  BY <1>1, <1>2, <1>3, <2>1, <3>1, AnswerIsSound, Zenon DEF Confirmed
    <2>4. TypeOK'
      BY <1>1, <1>3, <2>1, <2>2, Zenon DEF TypeOK, Others
    <2>5. Grows
      BY <1>3, <1>7, <2>2, Zenon DEF Grows
    <2>6. \A d \in Digests : BundleIsSound(d)'
      BY <1>3, Zenon DEF InstallInv, BundleIsSound
    <2>7. \A s \in Sessions : secrets'[s] = secrets[s] \/ SecretsAreSound(s)'
      BY <1>2, <1>3, <2>2, Zenon DEF SecretsAreSound
    <2>. QED  BY <1>3, <2>1, <2>3, <2>4, <2>5, <2>6, <2>7, StepKeeps, Zenon
  <1>. QED  BY <1>4, <1>5, <1>6, <1>7, Zenon

\* An object is renamed into place, by its handler or after the handler is gone.
LEMMA PlacedKeeps ==
  ASSUME InstallInv, NEW c \in Callers, call[c].at = "place",
         NEW out \in {"installed", "dropped"}, Return(c, out),
         objects' = [objects EXCEPT ![Req(c)] = call[c].got],
         UNCHANGED <<armed, expired, bundles, writer, staging, modules, bindings, secrets, started>>
  PROVE  InstallInv'
  <1>1. CallIsSound(c) /\ TypeOK
    BY Typed, Zenon
  <1>2. call[c].op = "object" /\ Req(c) \in Objects /\ armed # None /\ call[c].got = "whole"
    BY <1>1, Zenon DEF CallIsSound
  <1>3. /\ call' \in [Callers -> CallState] /\ Others(c)
        /\ call'[c].at = "idle" /\ call'[c].op = call[c].op /\ call'[c].req = call[c].req
        /\ call'[c].out = out
    BY ReturnStep, Zenon DEF Confirmed, Refusals
  <1>4. /\ objects' \in [Objects -> {"none", "partial", "whole"}] /\ objects'[Req(c)] = "whole"
        /\ \A o \in Objects : objects'[o] = objects[o] \/ objects'[o] = "whole"
    BY <1>1, <1>2, Zenon DEF TypeOK
  <1>5. CallIsSound(c)'
    <2>1. Installed(c)'
      BY <1>2, <1>3, <1>4, Zenon DEF Installed, Req
    <2>. QED  BY <1>1, <1>2, <1>3, <2>1, AnswerIsSound, Zenon DEF Confirmed, Refusals
  <1>6. TypeOK'
    BY <1>1, <1>3, <1>4, Zenon DEF TypeOK, Others
  <1>7. Grows
    BY <1>4, Zenon DEF Grows
  <1>8. \A d \in Digests : BundleIsSound(d)'
    BY Zenon DEF InstallInv, BundleIsSound
  <1>. QED  BY <1>3, <1>4, <1>5, <1>6, <1>7, <1>8, StepKeeps, Zenon

\* The stream of an object, its verification and a rename that fails.
LEMMA ObjectKeeps ==
  ASSUME InstallInv, NEW c \in Callers,
         StreamObject(c) \/ VerifyObject(c) \/ PlaceObject(c) \/ PlaceObjectFails(c)
  PROVE  InstallInv'
  <1>1. /\ CallIsSound(c) /\ call[c] \in CallState /\ call \in [Callers -> CallState]
        /\ call[c].at \in {"stream", "verify", "place"}
    BY Typed, Zenon DEF StreamObject, VerifyObject, PlaceObject, PlaceObjectFails
  <1>2. /\ UNCHANGED <<armed, expired, bundles, writer, staging, modules, bindings, secrets, started>>
        /\ call[c].op = "object" /\ Req(c) \in Objects
    BY <1>1, Zenon
    DEF StreamObject, VerifyObject, PlaceObject, PlaceObjectFails, Target, Bundles, CallIsSound
  <1>3. CASE StreamObject(c)
    <2>1. UNCHANGED objects /\ call[c].at = "stream"
      BY <1>3, Zenon DEF StreamObject
    <2>2. CASE Return(c, "failed")
      BY <1>1, <1>2, <2>1, <2>2, QuietAnswer, Zenon DEF Refusals, Confirmed
    <2>3. ASSUME NEW got \in {"partial", "whole"},
                 call' = [call EXCEPT ![c].at = "verify", ![c].got = got]
          PROVE  InstallInv'
      <3>1. call' = [call EXCEPT ![c] = [call[c] EXCEPT !.at = "verify", !.got = got]]
        BY <1>1, <2>3, Zenon DEF CallState
      <3>2. [call[c] EXCEPT !.at = "verify", !.got = got] \in CallState
        BY <1>1, ZenonT(60) DEF CallState
      <3>3. /\ [call[c] EXCEPT !.at = "verify", !.got = got].at = "verify"
            /\ [call[c] EXCEPT !.at = "verify", !.got = got].op = call[c].op
            /\ [call[c] EXCEPT !.at = "verify", !.got = got].req = call[c].req
            /\ [call[c] EXCEPT !.at = "verify", !.got = got].out = call[c].out
        BY <1>1, Zenon DEF CallState
      <3>4. /\ call' \in [Callers -> CallState] /\ Others(c)
            /\ call'[c].at = "verify" /\ call'[c].op = call[c].op /\ call'[c].req = call[c].req
            /\ call'[c].out = call[c].out
        BY <1>1, <3>1, <3>2, <3>3, Zenon DEF Others
      <3>5. CallIsSound(c)'
        BY <1>1, <1>2, <2>1, <3>4, Zenon DEF CallIsSound, Req
      <3>. QED  BY <1>2, <2>1, <3>4, <3>5, QuietKeeps, Zenon
    <2>. QED  BY <1>3, <2>2, <2>3, Zenon DEF StreamObject
  <1>4. CASE VerifyObject(c)
    <2>1. UNCHANGED objects /\ call[c].at = "verify"
      BY <1>4, Zenon DEF VerifyObject
    <2>2. \/ Return(c, "invalid")
          \/ Return(c, "replayed") /\ objects[Req(c)] = "whole"
          \/ Go(c, "place") /\ call[c].got = "whole"
      BY <1>4, Zenon DEF VerifyObject
    <2>3. CASE Return(c, "invalid")
      BY <1>1, <1>2, <2>1, <2>3, QuietAnswer, Zenon DEF Refusals, Confirmed
    <2>4. CASE Return(c, "replayed") /\ objects[Req(c)] = "whole"
      <3>1. Installed(c)
        BY <1>2, <2>4, Zenon DEF Installed
      <3>. QED  BY <1>1, <1>2, <2>1, <2>4, <3>1, QuietAnswer, Zenon DEF Confirmed
    <2>5. CASE Go(c, "place") /\ call[c].got = "whole"
      <3>1. /\ call' \in [Callers -> CallState] /\ Others(c)
            /\ call'[c].at = "place" /\ call'[c].op = call[c].op /\ call'[c].req = call[c].req
            /\ call'[c].out = call[c].out /\ call'[c].got = "whole"
        BY <2>5, GoStep, Zenon DEF Stations
      <3>2. CallIsSound(c)'
        BY <1>1, <1>2, <2>1, <3>1, Zenon DEF CallIsSound, Req
      <3>. QED  BY <1>2, <2>1, <3>1, <3>2, QuietKeeps, Zenon
    <2>. QED  BY <2>2, <2>3, <2>4, <2>5, Zenon
  <1>5. CASE PlaceObject(c)
    BY <1>2, <1>5, PlacedKeeps, Zenon DEF PlaceObject
  <1>6. CASE PlaceObjectFails(c)
    <2>1. /\ UNCHANGED objects /\ call[c].at = "place" /\ call[c].got = "whole"
          /\ \/ Return(c, "unavailable")
             \/ Return(c, "replayed") /\ objects[Req(c)] = "whole"
      BY <1>1, <1>6, Zenon DEF PlaceObjectFails, CallIsSound
    <2>2. CASE Return(c, "unavailable")
      BY <1>2, <2>1, <2>2, QuietAnswer, Zenon DEF Refusals, Confirmed
    <2>3. CASE Return(c, "replayed") /\ objects[Req(c)] = "whole"
      <3>1. Installed(c)
        BY <1>2, <2>3, Zenon DEF Installed
      <3>. QED  BY <1>2, <2>1, <2>3, <3>1, QuietAnswer, Zenon DEF Confirmed
    <2>. QED  BY <2>1, <2>2, <2>3, Zenon
  <1>. QED  BY <1>3, <1>4, <1>5, <1>6, Zenon

\* A handler without the write lock whose connection closes.
LEMMA DropKeeps ==
  ASSUME InstallInv, NEW c \in Callers, Drop(c)
  PROVE  InstallInv'
  <1>1. /\ UNCHANGED <<armed, expired, bundles, writer, staging, modules, bindings, secrets, started>>
        /\ Return(c, "dropped") /\ call[c].at \notin {"idle", "write", "rename"}
    BY Zenon DEF Drop, Target, Bundles
  <1>2. CASE UNCHANGED objects
    BY <1>1, <1>2, QuietAnswer, Zenon DEF Refusals, Confirmed
  <1>3. CASE call[c].at = "place" /\ objects' = [objects EXCEPT ![Req(c)] = call[c].got]
    BY <1>1, <1>3, PlacedKeeps, Zenon
  <1>. QED  BY <1>2, <1>3, Zenon DEF Drop

-----------------------------------------------------------------------------
(* Calls that begin *)

\* The install routes admit a request of the armed target only.
LEMMA RoutesKeep ==
  ASSUME InstallInv, NEW c \in Callers,
         \/ \E d \in Descriptors, exact \in BOOLEAN : BundleCall(c, d, exact)
         \/ \E b \in BindingSeals : BindingCall(c, b)
         \/ \E s \in SecretSets : SecretsCall(c, s)
         \/ \E o \in Objects : ObjectCall(c, o)
  PROVE  InstallInv'
  <1>1. ASSUME NEW d \in Descriptors, NEW exact \in BOOLEAN, BundleCall(c, d, exact)
        PROVE  InstallInv'
    <2>1. \/ Begin(c, "bundle", d, "lock", "none") \/ Begin(c, "bundle", d, "idle", "invalid")
      BY <1>1, Zenon DEF BundleCall, At, Verified
    <2>. QED  BY <2>1, BeginKeeps, Zenon DEF Stations, Refusals
  <1>2. ASSUME NEW b \in BindingSeals, BindingCall(c, b)
        PROVE  InstallInv'
    <2>1. \/ Begin(c, "binding", b, "bundle", "none") /\ b.root = armed.root
          \/ Begin(c, "binding", b, "idle", "sandbox_gone")
          \/ Begin(c, "binding", b, "idle", "conflict")
      BY <1>2, Zenon DEF BindingCall, At, Live
    <2>. QED  BY <2>1, BeginKeeps, Zenon DEF Stations, Refusals
  <1>3. ASSUME NEW s \in SecretSets, SecretsCall(c, s)
        PROVE  InstallInv'
    <2>1. \/ Begin(c, "secrets", s, "required", "none") /\ s.generation = armed.generation
          \/ Begin(c, "secrets", s, "idle", "sandbox_gone")
          \/ Begin(c, "secrets", s, "idle", "conflict")
          \/ Begin(c, "secrets", s, "idle", "invalid")
      BY <1>3, Zenon DEF SecretsCall, At
    <2>. QED  BY <2>1, BeginKeeps, Zenon DEF Stations, Refusals
  <1>4. ASSUME NEW o \in Objects, ObjectCall(c, o)
        PROVE  InstallInv'
    BY <1>4, BeginKeeps, Zenon DEF ObjectCall, Stations, Refusals
  <1>. QED  BY <1>1, <1>2, <1>3, <1>4, Zenon

\* What validate_operation hands to an execution is the binding's own.
LEMMA ValidateKeeps ==
  ASSUME InstallInv, NEW c \in Callers, NEW b \in BindingSeals, ValidateOperation(c, b)
  PROVE  InstallInv'
  <1>1. call \in [Callers -> CallState] /\ call[c].at = "idle" /\ armed # None /\ TypeOK
    BY Typed, Zenon DEF ValidateOperation, Authorized
  <1>2. UNCHANGED <<armed, expired, bundles, writer, staging, modules, bindings, secrets, objects>>
    BY Zenon DEF ValidateOperation, Target, Bundles
  <1>3. PICK out \in Refusals :
           /\ call' = [call EXCEPT ![c] = [op |-> "submit", req |-> b, at |-> "idle", got |-> "none",
                                           out |-> out]]
           /\ \/ started' = started
              \/ /\ bindings[b.ref] # None /\ bindings[b.ref].seal.session = b.session
                 /\ bindings[b.ref].seal.bundle.env # {} => secrets[b.session] # None
                 /\ started' = started \cup
                       {[ref |-> b.ref, uid |-> bindings[b.ref].uid, seal |-> bindings[b.ref].seal,
                         value |-> IF bindings[b.ref].seal.bundle.env = {} THEN None
                                   ELSE secrets[b.session].value]}
    BY Zenon DEF ValidateOperation, Refusals
  <1>4. [op |-> "submit", req |-> b, at |-> "idle", got |-> "none", out |-> out] \in CallState
    <2>1. out \in {"none", "installed", "replayed", "conflict", "invalid", "exhausted",
                   "unavailable", "sandbox_gone", "failed", "dropped", "started"}
      BY <1>3, Zenon DEF Refusals
    <2>. QED  BY <2>1, Zenon DEF CallState
  <1>5. /\ call' \in [Callers -> CallState] /\ Others(c)
        /\ call'[c].op = "submit" /\ call'[c].at = "idle" /\ call'[c].out = out
    BY <1>1, <1>3, <1>4, Zenon DEF Others
  <1>6. CallIsSound(c)'
    BY <1>3, <1>5, Zenon DEF CallIsSound, Refusals
  <1>7. TypeOK'
    BY <1>1, <1>2, <1>5, Zenon DEF TypeOK, Others
  <1>8. Grows /\ \A d \in Digests : BundleIsSound(d)'
    BY <1>2, Zenon DEF Grows, InstallInv, BundleIsSound
  <1>9. ASSUME NEW x \in started', x \notin started
        PROVE  ExecutionIsSound(x)'
    <2>1. /\ bindings[b.ref] # None /\ bindings[b.ref].seal.session = b.session
          /\ bindings[b.ref].seal.bundle.env # {} => secrets[b.session] # None
          /\ x = [ref |-> b.ref, uid |-> bindings[b.ref].uid, seal |-> bindings[b.ref].seal,
                  value |-> IF bindings[b.ref].seal.bundle.env = {} THEN None
                            ELSE secrets[b.session].value]
      BY <1>3, <1>9, Zenon
    <2>2. /\ x.ref = b.ref /\ x.uid = bindings[b.ref].uid /\ x.seal = bindings[b.ref].seal
          /\ bindings[b.ref].seal.bundle.env # {} => x.value = secrets[b.session].value
      BY <2>1, Zenon
    <2>. QED  BY <1>1, <1>2, <2>1, <2>2, Parts, Zenon DEF ExecutionIsSound
  <1>. QED  BY <1>2, <1>5, <1>6, <1>7, <1>8, <1>9, StepKeeps, Zenon

\* Before the generation is armed nothing has begun.
LEMMA TargetKeeps ==
  ASSUME InstallInv, Expire \/ \E p \in Payloads : Arm(p)
  PROVE  InstallInv'
  <1>1. /\ UNCHANGED <<bundles, writer, staging, modules, bindings, secrets, objects, call, started>>
        /\ expired' \in BOOLEAN /\ armed' \in Payloads \cup {None}
        /\ armed # None => armed' = armed
    BY Zenon DEF Expire, Arm, Bundles, InstallInv, TypeOK
  <1>2. TypeOK'
    BY <1>1, Zenon DEF InstallInv, TypeOK
  <1>3. Grows
    BY <1>1, Zenon DEF Grows
  <1>4. \A c \in Callers : CallIsSound(c)'
    BY <1>1, <1>3, OtherKept, Zenon
  <1>5. \A d \in Digests : BundleIsSound(d)'
    BY <1>1, Zenon DEF InstallInv, BundleIsSound
  <1>6. \A r \in Refs : BindingIsSound(r)'
    BY <1>1, Zenon DEF InstallInv, BindingIsSound
  <1>7. \A s \in Sessions : SecretsAreSound(s)'
    BY <1>1, Zenon DEF InstallInv, SecretsAreSound
  <1>8. \A x \in started' : ExecutionIsSound(x)'
    BY <1>1, Zenon DEF InstallInv, ExecutionIsSound
  <1>. QED  BY <1>1, <1>2, <1>4, <1>5, <1>6, <1>7, <1>8, Zenon DEF InstallInv

-----------------------------------------------------------------------------
(* The theorems *)

\* Every step keeps the invariant.
LEMMA InstallStep == InstallInv /\ [Next]_vars => InstallInv'
  <1>. SUFFICES ASSUME InstallInv, [Next]_vars PROVE InstallInv'
    OBVIOUS
  <1>1. CASE Expire \/ \E p \in Payloads : Arm(p)
    BY <1>1, TargetKeeps, Zenon
  <1>2. ASSUME NEW c \in Callers, Start(c) PROVE InstallInv'
    BY <1>2, RoutesKeep, ValidateKeeps, Zenon DEF Start
  <1>3. ASSUME NEW c \in Callers, Step(c) PROVE InstallInv'
    <2>1. CASE \/ StageBundle(c) \/ WriteBundle(c) \/ WriteBundleFails(c) \/ RenameBundle(c)
               \/ RenameBundleFails(c) \/ DropBundle(c)
      BY <2>1, StageKeeps, WriteKeeps, RenameKeeps, Zenon
    <2>2. CASE \/ FindBundle(c) \/ CheckDeclared(c) \/ InsertBinding(c) \/ CheckRequired(c)
               \/ InsertSecrets(c)
      BY <2>2, CheckKeeps, InsertBindingKeeps, InsertSecretsKeeps, Zenon
    <2>3. CASE \/ StreamObject(c) \/ VerifyObject(c) \/ PlaceObject(c) \/ PlaceObjectFails(c)
               \/ Drop(c)
      BY <2>3, ObjectKeeps, DropKeeps, Zenon
    <2>. QED  BY <1>3, <2>1, <2>2, <2>3, Zenon DEF Step
  <1>4. CASE UNCHANGED vars
    <2>1. UNCHANGED <<armed, expired, bundles, writer, staging, modules, bindings, secrets, objects,
                      call, started>>
      BY <1>4, Zenon DEF vars
    <2>2. Grows
      BY <2>1, Zenon DEF Grows
    <2>3. \A c \in Callers : CallIsSound(c)'
      BY <2>1, <2>2, OtherKept, Zenon
    <2>. QED  BY <2>1, <2>3 DEF InstallInv, TypeOK, BundleIsSound, BindingIsSound, SecretsAreSound,
                ExecutionIsSound
  <1>. QED  BY <1>1, <1>2, <1>3, <1>4, Zenon DEF Next

\* The invariant holds throughout.
LEMMA InstallHolds == Spec => []InstallInv
  <1>1. Init => InstallInv
    <2>. SUFFICES ASSUME Init PROVE InstallInv
      OBVIOUS
    <2>1. \A c \in Callers : /\ call[c].at = "idle" /\ call[c].op = "none" /\ call[c].out = "none"
      BY Zenon DEF Init, Idle
    <2>2. \A c \in Callers : CallIsSound(c)
      BY <2>1, Zenon DEF CallIsSound
    <2>3. TypeOK
      BY <2>1, Parts, InstallAssumption, Zenon DEF Init, TypeOK
    <2>. QED  BY <2>2, <2>3, Zenon
              DEF Init, InstallInv, BundleIsSound, BindingIsSound, SecretsAreSound
  <1>. QED  BY <1>1, InstallStep, PTL DEF Spec

\* No partially written module or object is ever visible, and every binding has
\* its module, for any number of concurrent installs, failures and dropped
\* connections.
THEOREM ArtifactsAreWhole == Spec => []WholeOrAbsent
  <1>1. InstallInv => WholeOrAbsent
    BY Zenon DEF InstallInv, WholeOrAbsent, BundleIsSound, BindingIsSound
  <1>. QED  BY <1>1, InstallHolds, PTL

\* What an install receipt confirmed is never taken back or replaced.
THEOREM ReceiptsHold == Spec => []ReceiptHolds
  <1>1. InstallInv => ReceiptHolds
    BY Zenon DEF InstallInv, ReceiptHolds, CallIsSound
  <1>. QED  BY <1>1, InstallHolds, PTL

\* An execution has a kernel identity of its own and the secrets of its own
\* session and generation.
THEOREM ExecutionsAreIsolated == Spec => []ExecutionIsIsolated
  <1>1. InstallInv => ExecutionIsIsolated
    <2>. SUFFICES ASSUME InstallInv PROVE ExecutionIsIsolated
      OBVIOUS
    <2>1. IdentityIsolation
      BY DEF InstallInv, IdentityIsolation, ExecutionIsSound
    <2>2. ExecutionHasItsSecrets
      BY Zenon
      DEF InstallInv, ExecutionHasItsSecrets, ExecutionIsSound, BindingIsSound, SecretsAreSound
    <2>. QED  BY <2>1, <2>2, Zenon DEF InstallInv, ExecutionIsIsolated
  <1>. QED  BY <1>1, InstallHolds, PTL
=============================================================================
