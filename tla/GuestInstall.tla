----------------------------- MODULE GuestInstall -----------------------------
(***************************************************************************)
(* Arming one physical generation and installing its immutable artifacts   *)
(* (hand-guest/src/hand/target.rs, hand/install.rs and the install routes  *)
(* of server.rs): Tool bundles staged on disk, sealed bindings with their  *)
(* kernel identities, session secrets and input objects, and what a        *)
(* submission takes from them (validate_operation).  The write lock of the *)
(* bundle table is held across file I/O; the tables of the bindings and of *)
(* the secrets are locked one after the other, never together, by the two  *)
(* installs that check one against the other.  A handler whose connection  *)
(* closes is dropped at its next await.  Contents are abstracted to        *)
(* "partial" and "whole"; a descriptor, a seal and a value are themselves. *)
(***************************************************************************)
EXTENDS Integers, FiniteSets

CONSTANTS
    Callers,      \* connections of the control plane
    Payloads,     \* run payloads: [target, generation, root, current : BOOLEAN]
    Descriptors,  \* bundle descriptors: [digest, env]
    BindingSeals, \* [ref, root, session, bundle : Descriptors]
    SecretSets,   \* [session, generation, declared, value, fits : BOOLEAN]
    Objects,      \* digests of input objects
    UidOf,        \* the uid a binding_ref hashes to
    MaxBindings,  \* MAX_PREPARED_BINDINGS
    MaxCalls,     \* bound: calls
    None

Digests == {d.digest : d \in Descriptors}
Refs == {b.ref : b \in BindingSeals}
Sessions == {s.session : s \in SecretSets} \cup {b.session : b \in BindingSeals}
Binding == [seal : BindingSeals, uid : {UidOf[r] : r \in Refs}]

ASSUME InstallAssumption ==
    /\ None \notin Callers \cup Payloads \cup Descriptors \cup SecretSets \cup Binding
    /\ \A b \in BindingSeals : b.bundle \in Descriptors

VARIABLES
    armed,    \* None or the payload the generation was armed with
    expired,  \* the hard deadline of the generation has passed
    bundles,  \* [Digests -> None or descriptor]: the table
    writer,   \* None or the caller that holds the table's write lock
    staging,  \* [Digests -> "none", "partial" or "whole"]: the .install file
    modules,  \* [Digests -> the same]: the .mjs file bindings run
    bindings, \* [Refs -> None or [seal, uid]]
    secrets,  \* [Sessions -> None or secret set]
    objects,  \* [Objects -> "none", "partial" or "whole"]: files under object_dir
    call,     \* [Callers -> [op, req, at, got, out]]
    started,  \* ghost: executions that were validated, [ref, uid, env, value]
    calls

vars == <<armed, expired, bundles, writer, staging, modules, bindings, secrets, objects,
          call, started, calls>>

CallState ==
    [op : {"none", "bundle", "binding", "secrets", "object", "submit"},
     req : Descriptors \cup BindingSeals \cup SecretSets \cup Objects \cup {None},
     at : {"idle", "lock", "write", "rename", "bundle", "declared", "insert", "required", "deliver",
           "stream", "verify", "place"},
     got : {"none", "partial", "whole"},
     out : {"none", "installed", "replayed", "conflict", "invalid", "exhausted", "unavailable",
            "sandbox_gone", "failed", "dropped", "started"}]
Idle == [op |-> "none", req |-> None, at |-> "idle", got |-> "none", out |-> "none"]

Init ==
    /\ armed = None /\ expired = FALSE
    /\ bundles = [d \in Digests |-> None] /\ writer = None
    /\ staging = [d \in Digests |-> "none"] /\ modules = [d \in Digests |-> "none"]
    /\ bindings = [r \in Refs |-> None] /\ secrets = [s \in Sessions |-> None]
    /\ objects = [o \in Objects |-> "none"]
    /\ call = [c \in Callers |-> Idle] /\ started = {} /\ calls = 0

Req(c) == call[c].req
Go(c, at) == call' = [call EXCEPT ![c].at = at]
Return(c, out) == call' = [call EXCEPT ![c].at = "idle", ![c].out = out]
Target == <<armed, expired>>
Bundles == <<bundles, writer, staging, modules>>

-----------------------------------------------------------------------------
(* Arming and the target fence *)

\* The provider's run hook; an exact retry and a conflicting one change nothing.
Arm(p) ==
    /\ p.current
    /\ armed' = IF armed = None THEN p ELSE armed
    /\ UNCHANGED <<expired, Bundles, bindings, secrets, objects, call, started, calls>>

Expire ==
    /\ armed # None /\ ~expired /\ expired' = TRUE
    /\ UNCHANGED <<armed, Bundles, bindings, secrets, objects, call, started, calls>>

\* control_authorized: the bearer is the one the generation was armed with.
Authorized == armed # None

\* require_control: the routes below answer only an authorized request.
Begin(c, op, req, at, out) ==
    /\ Authorized /\ call[c].at = "idle" /\ calls < MaxCalls
    /\ calls' = calls + 1
    /\ call' = [call EXCEPT ![c] = [op |-> op, req |-> req, at |-> at, got |-> "none", out |-> out]]
    /\ UNCHANGED <<Target, Bundles, bindings, secrets, objects, started>>

\* require_target, then a check of the request against the armed target.
Live(then, refused) == IF expired THEN "sandbox_gone" ELSE IF then THEN "none" ELSE refused
At(out, at) == IF out = "none" THEN at ELSE "idle"

-----------------------------------------------------------------------------
(* install_bundle *)

\* The bytes and the environment names either match the descriptor or the request is refused.
Verified(exact) == IF exact THEN "none" ELSE "invalid"

BundleCall(c, d, exact) == Begin(c, "bundle", d, At(Verified(exact), "lock"), Verified(exact))

Digest(c) == Req(c).digest

\* Mutant: an installed bundle is staged and installed again.
StageBundle_Reinstalls(c) ==
    /\ call[c].at = "lock" /\ writer = None
    /\ IF staging[Digest(c)] # "none"
       THEN Return(c, "unavailable") /\ UNCHANGED Bundles
       ELSE /\ writer' = c /\ staging' = [staging EXCEPT ![Digest(c)] = "partial"]
            /\ Go(c, "write") /\ UNCHANGED <<bundles, modules>>
    /\ UNCHANGED <<Target, bindings, secrets, objects, started, calls>>

\* With the write lock: a known digest answers; otherwise the staging file is created, which
\* must not exist yet.
StageBundle(c) ==
    /\ call[c].at = "lock" /\ writer = None
    /\ IF bundles[Digest(c)] # None
       THEN /\ Return(c, IF bundles[Digest(c)] = Req(c) THEN "replayed" ELSE "conflict")
            /\ UNCHANGED Bundles
       ELSE IF staging[Digest(c)] # "none"
       THEN Return(c, "unavailable") /\ UNCHANGED Bundles
       ELSE /\ writer' = c /\ staging' = [staging EXCEPT ![Digest(c)] = "partial"]
            /\ Go(c, "write") /\ UNCHANGED <<bundles, modules>>
    /\ UNCHANGED <<Target, bindings, secrets, objects, started, calls>>

WriteBundle(c) ==
    /\ call[c].at = "write"
    /\ staging' = [staging EXCEPT ![Digest(c)] = "whole"]
    /\ Go(c, "rename")
    /\ UNCHANGED <<Target, bundles, writer, modules, bindings, secrets, objects, started, calls>>

\* Mutant: a failed write goes on to the rename.
WriteBundleFails_Ignored(c) ==
    /\ call[c].at = "write"
    /\ Go(c, "rename")
    /\ UNCHANGED <<Target, Bundles, bindings, secrets, objects, started, calls>>

WriteBundleFails(c) ==
    /\ call[c].at = "write"
    /\ staging' = [staging EXCEPT ![Digest(c)] = "none"] /\ writer' = None
    /\ Return(c, "unavailable")
    /\ UNCHANGED <<Target, bundles, modules, bindings, secrets, objects, started, calls>>

Rename(d) ==
    /\ modules' = [modules EXCEPT ![d] = staging[d]]
    /\ staging' = [staging EXCEPT ![d] = "none"]

RenameBundle(c) ==
    /\ call[c].at = "rename"
    /\ Rename(Digest(c))
    /\ bundles' = [bundles EXCEPT ![Digest(c)] = Req(c)] /\ writer' = None
    /\ Return(c, "installed")
    /\ UNCHANGED <<Target, bindings, secrets, objects, started, calls>>

RenameBundleFails(c) ==
    /\ call[c].at = "rename"
    /\ writer' = None /\ Return(c, "unavailable")
    /\ UNCHANGED <<Target, bundles, staging, modules, bindings, secrets, objects, started, calls>>

\* The connection closed: the lock is released and no clean-up runs; a rename already handed to
\* the blocking pool still happens.
DropBundle(c) ==
    /\ call[c].at \in {"write", "rename"}
    /\ writer' = None /\ Return(c, "dropped")
    /\ (call[c].at = "rename" /\ Rename(Digest(c))) \/ UNCHANGED <<staging, modules>>
    /\ UNCHANGED <<Target, bundles, bindings, secrets, objects, started, calls>>

-----------------------------------------------------------------------------
(* install_binding *)

BindingCall(c, b) ==
    LET out == Live(b.root = armed.root, "conflict") IN Begin(c, "binding", b, At(out, "bundle"), out)

FindBundle(c) ==
    /\ call[c].at = "bundle" /\ writer = None
    /\ IF bundles[Req(c).bundle.digest] = Req(c).bundle
       THEN Go(c, "declared") ELSE Return(c, "invalid")
    /\ UNCHANGED <<Target, Bundles, bindings, secrets, objects, started, calls>>

CheckDeclared(c) ==
    /\ call[c].at = "declared"
    /\ LET s == secrets[Req(c).session] IN
       IF s # None => Req(c).bundle.env \subseteq s.declared
       THEN Go(c, "insert") ELSE Return(c, "conflict")
    /\ UNCHANGED <<Target, Bundles, bindings, secrets, objects, started, calls>>

\* Mutant: a uid that another binding has is not refused.
Taken_Unchecked(r) == FALSE

\* BindingIdentityRegistry::allocate: another binding_ref already hashes to the same uid.
Taken(r) == \E q \in Refs : bindings[q] # None /\ bindings[q].uid = UidOf[r]

InsertBinding(c) ==
    LET r == Req(c).ref IN
    /\ call[c].at = "insert"
    /\ IF bindings[r] # None
       THEN /\ Return(c, IF bindings[r].seal = Req(c) THEN "replayed" ELSE "conflict")
            /\ UNCHANGED bindings
       ELSE IF Cardinality({q \in Refs : bindings[q] # None}) >= MaxBindings
       THEN Return(c, "exhausted") /\ UNCHANGED bindings
       ELSE IF Taken(r)
       THEN Return(c, "conflict") /\ UNCHANGED bindings
       ELSE /\ bindings' = [bindings EXCEPT ![r] = [seal |-> Req(c), uid |-> UidOf[r]]]
            /\ Return(c, "installed")
    /\ UNCHANGED <<Target, Bundles, secrets, objects, started, calls>>

-----------------------------------------------------------------------------
(* install_secrets *)

SecretsCall(c, s) ==
    LET out == IF expired THEN "sandbox_gone"
               ELSE IF s.generation # armed.generation THEN "conflict"
               ELSE IF s.fits THEN "none" ELSE "invalid"
    IN Begin(c, "secrets", s, At(out, "required"), out)

CheckRequired(c) ==
    /\ call[c].at = "required"
    /\ IF \A r \in Refs : (bindings[r] # None /\ bindings[r].seal.session = Req(c).session)
                          => bindings[r].seal.bundle.env \subseteq Req(c).declared
       THEN Go(c, "deliver") ELSE Return(c, "invalid")
    /\ UNCHANGED <<Target, Bundles, bindings, secrets, objects, started, calls>>

InsertSecrets(c) ==
    LET s == Req(c).session IN
    /\ call[c].at = "deliver"
    /\ IF secrets[s] = None
       THEN secrets' = [secrets EXCEPT ![s] = Req(c)] /\ Return(c, "installed")
       ELSE /\ Return(c, IF secrets[s] = Req(c) THEN "replayed" ELSE "conflict")
            /\ UNCHANGED secrets
    /\ UNCHANGED <<Target, Bundles, bindings, objects, started, calls>>

-----------------------------------------------------------------------------
(* install_object: a temporary of its own for every request *)

ObjectCall(c, o) == Begin(c, "object", o, "stream", "none")

\* The stream ends with some bytes, or fails with the temporary removed.
StreamObject(c) ==
    /\ call[c].at = "stream"
    /\ \/ \E got \in {"partial", "whole"} : call' = [call EXCEPT ![c].at = "verify", ![c].got = got]
       \/ Return(c, "failed")
    /\ UNCHANGED <<Target, Bundles, bindings, secrets, objects, started, calls>>

VerifyObject(c) ==
    /\ call[c].at = "verify"
    /\ IF call[c].got # "whole" THEN Return(c, "invalid")
       ELSE IF objects[Req(c)] # "none"
       THEN Return(c, IF objects[Req(c)] = call[c].got THEN "replayed" ELSE "invalid")
       ELSE Go(c, "place")
    /\ UNCHANGED <<Target, Bundles, bindings, secrets, objects, started, calls>>

PlaceObject(c) ==
    /\ call[c].at = "place"
    /\ objects' = [objects EXCEPT ![Req(c)] = call[c].got] /\ Return(c, "installed")
    /\ UNCHANGED <<Target, Bundles, bindings, secrets, started, calls>>

\* A failed rename is a replay when another request has placed the object meanwhile.
PlaceObjectFails(c) ==
    /\ call[c].at = "place"
    /\ Return(c, IF objects[Req(c)] = call[c].got THEN "replayed" ELSE "unavailable")
    /\ UNCHANGED <<Target, Bundles, bindings, secrets, objects, started, calls>>

\* The handlers that hold no lock when their connection closes; the rename of an object may
\* already be on its way.
Drop(c) ==
    /\ call[c].at \in {"lock", "bundle", "declared", "insert", "required", "deliver", "stream", "verify", "place"}
    /\ Return(c, "dropped")
    /\ \/ call[c].at = "place" /\ objects' = [objects EXCEPT ![Req(c)] = call[c].got]
       \/ UNCHANGED objects
    /\ UNCHANGED <<Target, Bundles, bindings, secrets, started, calls>>

-----------------------------------------------------------------------------
(* validate_operation: the tables are read with the lock of the bindings held; the checks of *)
(* the resources and of the network change nothing and are left out                          *)

ValidateOperation(c, b) ==
    LET held == bindings[b.ref]
        own == secrets[b.session]
        ready == held.seal.bundle.env = {} \/ (own # None /\ held.seal.bundle.env \subseteq own.declared)
        out == IF expired THEN "sandbox_gone"
               ELSE IF b.root # armed.root \/ held = None THEN "conflict"
               ELSE IF held.seal.session # b.session THEN "conflict"
               ELSE IF ready THEN "started" ELSE "unavailable"
    IN /\ Authorized /\ call[c].at = "idle" /\ calls < MaxCalls
       /\ calls' = calls + 1
       /\ call' = [call EXCEPT ![c] = [op |-> "submit", req |-> b, at |-> "idle", got |-> "none", out |-> out]]
       /\ started' = IF out = "started"
                     THEN started \cup {[ref |-> b.ref, uid |-> held.uid, seal |-> held.seal,
                                         value |-> IF held.seal.bundle.env = {} THEN None ELSE own.value]}
                     ELSE started
       /\ UNCHANGED <<Target, Bundles, bindings, secrets, objects>>

-----------------------------------------------------------------------------
Step(c) ==
    \/ StageBundle(c) \/ WriteBundle(c) \/ WriteBundleFails(c) \/ RenameBundle(c)
    \/ RenameBundleFails(c) \/ DropBundle(c)
    \/ FindBundle(c) \/ CheckDeclared(c) \/ InsertBinding(c)
    \/ CheckRequired(c) \/ InsertSecrets(c)
    \/ StreamObject(c) \/ VerifyObject(c) \/ PlaceObject(c) \/ PlaceObjectFails(c) \/ Drop(c)

Start(c) ==
    \/ \E d \in Descriptors, exact \in BOOLEAN : BundleCall(c, d, exact)
    \/ \E b \in BindingSeals : BindingCall(c, b)
    \/ \E s \in SecretSets : SecretsCall(c, s)
    \/ \E o \in Objects : ObjectCall(c, o)
    \/ \E b \in BindingSeals : ValidateOperation(c, b)

Next ==
    \/ \E p \in Payloads : Arm(p)
    \/ Expire
    \/ \E c \in Callers : Start(c) \/ Step(c)

Spec == Init /\ [][Next]_vars

-----------------------------------------------------------------------------
(* Properties *)

\* TypeOK: what every table holds; the write lock of the bundles is held exactly by a handler
\* between the creation of its staging file and its rename.
TypeOK ==
    /\ armed \in Payloads \cup {None} /\ expired \in BOOLEAN
    /\ bundles \in [Digests -> Descriptors \cup {None}]
    /\ writer \in Callers \cup {None}
    /\ \A c \in Callers : (writer = c) <=> (call[c].at \in {"write", "rename"})
    /\ staging \in [Digests -> {"none", "partial", "whole"}]
    /\ modules \in [Digests -> {"none", "partial", "whole"}]
    /\ bindings \in [Refs -> Binding \cup {None}] /\ call \in [Callers -> CallState]
    /\ secrets \in [Sessions -> SecretSets \cup {None}]
    /\ objects \in [Objects -> {"none", "partial", "whole"}]

\* IdentityIsolation: two bindings of a generation never share a kernel uid, so that an
\* execution never runs under the identity another binding's secrets were given to
\* (BindingIdentityRegistry: a collision is rejected).
IdentityIsolation ==
    /\ \A q, r \in Refs : (bindings[q] # None /\ bindings[r] # None /\ bindings[q].uid = bindings[r].uid)
                          => q = r
    /\ \A x, y \in started : x.uid = y.uid => x.ref = y.ref

Installed(c) ==
    CASE call[c].op = "bundle"  -> bundles[Digest(c)] = Req(c)
      [] call[c].op = "binding" -> bindings[Req(c).ref] # None /\ bindings[Req(c).ref].seal = Req(c)
      [] call[c].op = "secrets" -> secrets[Req(c).session] = Req(c)
      [] call[c].op = "object"  -> objects[Req(c)] = "whole"

\* ReceiptHolds: what an install receipt confirmed, new or replayed, is what the generation still
\* holds, byte for byte, whatever other installs ran meanwhile or since.
ReceiptHolds ==
    \A c \in Callers : call[c].out \in {"installed", "replayed"} => Installed(c)

\* WholeOrAbsent: a module or an object is visible under its digest only with all of its verified
\* bytes, through failed writes, dropped handlers and concurrent installs of the same digest, and
\* every installed binding has its module.
WholeOrAbsent ==
    /\ \A d \in Digests : modules[d] # "partial" /\ (bundles[d] # None => modules[d] = "whole")
    /\ \A o \in Objects : objects[o] # "partial"
    /\ \A r \in Refs : bindings[r] # None => bundles[bindings[r].seal.bundle.digest] = bindings[r].seal.bundle

\* ExecutionHasItsSecrets: an execution that needs environment was given the values installed for
\* the session of its own binding, for the generation the guest was armed with.
ExecutionHasItsSecrets ==
    \A x \in started :
        /\ bindings[x.ref] # None /\ bindings[x.ref].seal = x.seal /\ x.seal.root = armed.root
        /\ x.seal.bundle.env # {} =>
               /\ secrets[x.seal.session] # None
               /\ secrets[x.seal.session].value = x.value
               /\ secrets[x.seal.session].generation = armed.generation

\* ExecutionIsIsolated: what validate_operation hands to an execution is its own: the kernel
\* identity of its binding and the values of its session; every table has its type.
ExecutionIsIsolated == TypeOK /\ IdentityIsolation /\ ExecutionHasItsSecrets

-----------------------------------------------------------------------------
(* The inductive invariant behind them *)

\* What a handler relies on where it is: the checks it has made still hold, because the tables
\* only grow, and the staging file is its own while it has the write lock.
CallIsSound(c) ==
    LET m == call[c] IN
    /\ m.op = "bundle" => Req(c) \in Descriptors
    /\ m.op = "binding" => Req(c) \in BindingSeals
    /\ m.op = "secrets" => Req(c) \in SecretSets
    /\ m.op = "object" => Req(c) \in Objects
    /\ m.at \in {"lock", "write", "rename"} => m.op = "bundle"
    /\ m.at \in {"bundle", "declared", "insert"} => m.op = "binding" /\ Req(c).root = armed.root
    /\ m.at \in {"required", "deliver"} => m.op = "secrets" /\ Req(c).generation = armed.generation
    /\ m.at \in {"stream", "verify", "place"} => m.op = "object"
    /\ m.at # "idle" => armed # None /\ m.out = "none"
    /\ m.out \in {"installed", "replayed"} =>
           armed # None /\ m.op \in {"bundle", "binding", "secrets", "object"} /\ Installed(c)
    /\ m.at \in {"write", "rename"} => bundles[Digest(c)] = None
    /\ m.at = "rename" => staging[Digest(c)] = "whole"
    /\ m.at \in {"declared", "insert"} => bundles[Req(c).bundle.digest] = Req(c).bundle
    /\ m.at = "place" => m.got = "whole"

\* What the tables hold was armed, verified and checked against each other.
BindingIsSound(r) ==
    bindings[r] # None =>
        /\ armed # None
        /\ bindings[r].seal.ref = r /\ bindings[r].seal.root = armed.root
        /\ bindings[r].uid = UidOf[r]
        /\ bundles[bindings[r].seal.bundle.digest] = bindings[r].seal.bundle
SecretsAreSound(s) ==
    secrets[s] # None => armed # None /\ secrets[s].generation = armed.generation
BundleIsSound(d) ==
    modules[d] # "partial" /\ (bundles[d] # None => modules[d] = "whole")

\* An execution has the identity and the values of its binding.
ExecutionIsSound(x) ==
    /\ armed # None /\ x.ref \in Refs /\ bindings[x.ref] # None
    /\ x.seal = bindings[x.ref].seal /\ x.uid = bindings[x.ref].uid
    /\ x.seal.bundle.env # {} =>
           /\ x.seal.session \in Sessions /\ secrets[x.seal.session] # None
           /\ secrets[x.seal.session].value = x.value

InstallInv ==
    /\ TypeOK
    /\ \A c \in Callers : CallIsSound(c)
    /\ \A d \in Digests : BundleIsSound(d)
    /\ \A o \in Objects : objects[o] # "partial"
    /\ \A r \in Refs : BindingIsSound(r)
    /\ \A q, r \in Refs : bindings[q] # None /\ bindings[r] # None
                          /\ bindings[q].uid = bindings[r].uid => q = r
    /\ \A s \in Sessions : SecretsAreSound(s)
    /\ \A x \in started : ExecutionIsSound(x)
=============================================================================
