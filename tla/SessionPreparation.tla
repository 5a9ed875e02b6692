-------------------------- MODULE SessionPreparation --------------------------
(***************************************************************************)
(* Session preparation in the Hand control process: the durable definition *)
(* rows, the fetch admission, and the two LRU caches behind one lock       *)
(* (hand-brain-aws/src/definitions.rs, ports/preparation.rs, cache.rs,     *)
(* transfer.rs).  Each prepare call is a process: it checks its bindings,  *)
(* seals the root and the session durably, reserves and fetches the        *)
(* bundles it misses without the lock, and installs them with the lock     *)
(* held again.  A call may be dropped at any await; the process may crash. *)
(* A last_access stamp is modelled by its rank: the LRU candidate is the   *)
(* head of the order.  Target rows, purged first by purge_tree, are in     *)
(* Materialization.                                                        *)
(***************************************************************************)
EXTENDS Integers, Sequences, FiniteSets, FiniteSetsExt, Functions

CONSTANTS
    Preps,               \* concurrent prepare calls
    Installers,          \* concurrent install_for_operation calls
    Requests,            \* PrepareSessionRequests: [session, root, seal, digest, need, supplied, meta]
    Bytes,               \* [bundle -> sealed descriptor bytes]
    FetchMax,            \* [bundle -> max_bytes of its fetch authority]
    MaxBundleBytes,      \* max_bundle_bytes
    MaxBundles,          \* MAX_CACHED_BUNDLES
    MaxFetchBytes,       \* bundle_fetch_max_bytes
    MaxPreparationBytes, \* max_preparation_bytes
    MaxPreparations,     \* max_preparations
    PageLimit,           \* MAX_TARGETS_PER_PURGE_ATTEMPT
    MaxCalls,            \* bound: prepare calls
    MaxRestarts,         \* bound: crashes of the control process
    Resolved,            \* requests whose bindings were resolved before this process started
    Purgeable,           \* roots that Brain deletes, once no call for them is running
    None

\* What any deployment has: None is no request, and what was resolved was requested.
Parameters == None \notin Requests /\ Resolved \subseteq Requests

ASSUME PreparationAssumption == Parameters

Bundles  == DOMAIN Bytes
Sessions == {r.session : r \in Requests}
Roots    == {r.root : r \in Requests}

VARIABLES
    defs,          \* durable rows [kind, root, id, digest]
    sessions,      \* PreparationStore.sessions: [Sessions -> request or None]
    sessionOrder,  \* sessions by last_access, oldest first
    rootSessions,  \* root_sessions: [Roots -> SUBSET Sessions]
    prepBytes,     \* preparation_bytes
    bundleOrder,   \* cached bundles by last_access, oldest first
    bundleBytes,   \* bundle_bytes
    inFlight,      \* BundleFetchInFlight: [bytes, entries]
    call,          \* [Preps -> prepare call]
    lent,          \* [Installers -> bundle borrowed by install_for_operation, or None]
    purge,         \* [Roots -> "no", "definitions", "cache" or "done"]
    calls, restarts

cacheVars == <<sessions, sessionOrder, rootSessions, prepBytes, bundleOrder, bundleBytes>>
vars == <<defs, cacheVars, inFlight, call, lent, purge, calls, restarts>>

SumOver(f, S) == MapThenSumSet(LAMBDA x : f[x], S)
Cached == Range(bundleOrder)
Orders(S) == Injection(1..Cardinality(S), S)
Without(order, S) == SelectSeq(order, LAMBDA y : y \notin S)
\* A run of get calls: the accessed entries become the most recent, in the order of access.
Touch(order, accessed) == Without(order, Range(accessed)) \o accessed

Idle == [at |-> "idle", req |-> None, borrowed |-> {}, missing |-> {}, out |-> "none"]
\* BundleFetchReservation.bytes: the declared upper bounds, not the sealed sizes.
Reserved(c) == SumOver(FetchMax, c.missing)
Holding == {p \in Preps : call[p].at \in {"fetch", "install", "release"}}

BindingRow(r, b) == [kind |-> "binding", root |-> r.root, id |-> <<r.session, b>>, digest |-> b]

Init ==
    /\ defs = UNION {{BindingRow(r, b) : b \in r.need} : r \in Resolved}
    /\ sessions = [s \in Sessions |-> None] /\ sessionOrder = <<>>
    /\ rootSessions = [r \in Roots |-> {}] /\ prepBytes = 0
    /\ bundleOrder = <<>> /\ bundleBytes = 0 /\ inFlight = [bytes |-> 0, entries |-> 0]
    /\ call = [p \in Preps |-> Idle] /\ lent = [i \in Installers |-> None]
    /\ purge = [r \in Roots |-> "no"] /\ calls = 0 /\ restarts = 0

-----------------------------------------------------------------------------
(* Definition rows: DynamoDefinitionRegistry::install, get, purge_root_page *)

Row(kind, root, id) == {d \in defs : d.kind = kind /\ d.root = root /\ d.id = id}
Put(kind, root, id, digest) ==
    IF Row(kind, root, id) = {}
    THEN defs' = defs \cup {[kind |-> kind, root |-> root, id |-> id, digest |-> digest]}
    ELSE UNCHANGED defs
\* A conditional failure is an exact replay or a Conflict.
Conflicts(kind, root, id, digest) == \E d \in Row(kind, root, id) : d.digest # digest

\* resolve_binding: the reference is the digest of the binding, so it cannot conflict.
ResolveBinding(r, b) ==
    /\ purge[r.root] = "no"
    /\ b \in r.need /\ BindingRow(r, b) \notin defs
    /\ defs' = defs \cup {BindingRow(r, b)}
    /\ UNCHANGED <<cacheVars, inFlight, call, lent, purge, calls, restarts>>

-----------------------------------------------------------------------------
(* prepare *)

Return(p, out) == call' = [call EXCEPT ![p] = [Idle EXCEPT !.out = out]]
DropGuards(p) ==
    inFlight' = IF p \in Holding
                THEN [bytes   |-> inFlight.bytes - Reserved(call[p]),
                      entries |-> inFlight.entries - Cardinality(call[p].missing)]
                ELSE inFlight

\* validate_prepared_bindings: every binding of the request is a durable row of its root.
BindingsResolved(r) == \A b \in r.need : BindingRow(r, b) \in defs

\* validate_prepare_request: a call that fails it has no effect.
Prepare(p, r) ==
    /\ call[p].at = "idle" /\ calls < MaxCalls /\ purge[r.root] = "no"
    /\ r.supplied \subseteq r.need
    /\ BindingsResolved(r)
    /\ calls' = calls + 1
    /\ call' = [call EXCEPT ![p] = [Idle EXCEPT !.at = "seal", !.req = r]]
    /\ UNCHANGED <<defs, cacheVars, inFlight, lent, purge, restarts>>

\* persist_preparation_definitions, first row: the physical root seal.
SealRoot(p) ==
    /\ call[p].at = "seal"
    /\ LET r == call[p].req IN
       IF Conflicts("root_seal", r.root, "physical", r.seal)
       THEN Return(p, "generation_conflict") /\ UNCHANGED defs
       ELSE /\ Put("root_seal", r.root, "physical", r.seal)
            /\ call' = [call EXCEPT ![p].at = "define"]
    /\ UNCHANGED <<cacheVars, inFlight, lent, purge, calls, restarts>>

\* persist_preparation_definitions, second row: the session's public projection.
DefineSession(p) ==
    /\ call[p].at = "define"
    /\ LET r == call[p].req IN
       IF Conflicts("preparation", r.root, r.session, r.digest)
       THEN Return(p, "binding_conflict") /\ UNCHANGED defs
       ELSE /\ Put("preparation", r.root, r.session, r.digest)
            /\ call' = [call EXCEPT ![p].at = "admit"]
    /\ UNCHANGED <<cacheVars, inFlight, lent, purge, calls, restarts>>

\* Arc::strong_count = 1: no call and no installation borrows the cached bytes.
Borrowed == UNION {call[p].borrowed : p \in Preps} \cup {lent[i] : i \in Installers}
\* evict_idle_to_fit: oldest idle entries first, until both bounds fit; a refusal comes
\* after every candidate has been evicted.
Evict(extraBytes, extraEntries, protected) ==
    LET idle == SelectSeq(bundleOrder, LAMBDA b : b \notin protected /\ b \notin Borrowed)
        out(n) == {idle[i] : i \in 1..n}
        fits(n) == /\ bundleBytes - SumOver(Bytes, out(n)) + extraBytes <= MaxBundleBytes
                   /\ Len(bundleOrder) - n + extraEntries <= MaxBundles
        enough == {n \in 0..Len(idle) : fits(n)}
    IN  IF enough = {} THEN [ok |-> FALSE, gone |-> out(Len(idle))]
        ELSE [ok |-> TRUE, gone |-> out(Min(enough))]

\* Mutant: a fetch is admitted without counting the others.
Projected_Alone(fetch) == [bytes |-> SumOver(FetchMax, fetch), entries |-> Cardinality(fetch)]
\* The fetches in flight with this one's declared bounds added.
Projected(fetch) ==
    [bytes   |-> inFlight.bytes + SumOver(FetchMax, fetch),
     entries |-> inFlight.entries + Cardinality(fetch)]

\* BundleFetchReservation::admit, after the eviction that precedes it.
Admitted(fetch, cachedBytes, cachedEntries) ==
    /\ Projected(fetch).bytes <= MaxFetchBytes
    /\ cachedBytes + Projected(fetch).bytes <= MaxBundleBytes
    /\ cachedEntries + Projected(fetch).entries <= MaxBundles

\* Mutant: resident bundles are not borrowed for the time of the fetch.
ResidentBorrows_None(r) == {}
\* cache.bundle clones the Arc of every resident bundle; the clones outlive the fetch.
ResidentBorrows(r) == r.need \cap Cached

\* The section of admit_and_fetch_bundles under the cache lock, when every missing bundle has
\* a usable authority.  HashMap order is arbitrary, so is the order of the accesses.
AdmitFetch(p) ==
    /\ call[p].at = "admit"
    /\ call[p].req.need \ Cached \subseteq call[p].req.supplied
    /\ \E accessed \in Orders(call[p].req.need \cap Cached) :
       LET r == call[p].req
           fetch == r.need \ Cached
           evict == Evict(Projected(fetch).bytes, Projected(fetch).entries, r.need)
           left == Without(Touch(bundleOrder, accessed), evict.gone)
           leftBytes == bundleBytes - SumOver(Bytes, evict.gone)
       IN  /\ bundleOrder' = left /\ bundleBytes' = leftBytes
           /\ IF evict.ok /\ Admitted(fetch, leftBytes, Len(left))
              THEN /\ inFlight' = Projected(fetch)
                   /\ call' = [call EXCEPT ![p].at = "fetch", ![p].missing = fetch,
                                           ![p].borrowed = ResidentBorrows(r)]
              ELSE Return(p, "exhausted") /\ UNCHANGED inFlight
    /\ UNCHANGED <<defs, sessions, sessionOrder, rootSessions, prepBytes, lent, purge, calls, restarts>>

\* The loop stops at a missing bundle without an authority, or with an expired one; the
\* residents met before it were accessed.
AdmitRefused(p) ==
    /\ call[p].at = "admit" /\ ~(call[p].req.need \subseteq Cached)
    /\ \E met \in SUBSET (call[p].req.need \cap Cached) : \E accessed \in Orders(met) :
          bundleOrder' = Touch(bundleOrder, accessed)
    /\ Return(p, IF call[p].req.need \ Cached \subseteq call[p].req.supplied
                 THEN "invalid" ELSE "capability_unavailable")
    /\ UNCHANGED <<defs, sessions, sessionOrder, rootSessions, prepBytes, bundleBytes, inFlight,
                   lent, purge, calls, restarts>>

\* fetch_bundle for every missing digest, eight at a time, without the lock.
FetchBundles(p) ==
    /\ call[p].at = "fetch"
    /\ call' = [call EXCEPT ![p].at = "install"]
    /\ UNCHANGED <<defs, cacheVars, inFlight, lent, purge, calls, restarts>>

\* A transfer fails, its size or digest disagrees, or the caller drops the future at an
\* await: the guards of the call, if any, are dropped with it.
PrepareFails(p) ==
    /\ call[p].at \in {"seal", "define", "admit", "fetch", "install"}
    /\ Return(p, "dropped") /\ DropGuards(p)
    /\ UNCHANGED <<defs, cacheVars, lent, purge, calls, restarts>>

Meta(s) == IF sessions[s] = None THEN 0 ELSE sessions[s].meta
\* evict_preparations_to_fit: oldest other sessions first.
EvictSessions(extraBytes, extraEntries, s) ==
    LET others == Without(sessionOrder, {s})
        out(n) == {others[i] : i \in 1..n}
        fits(n) == /\ prepBytes - MapThenSumSet(Meta, out(n)) + extraBytes <= MaxPreparationBytes
                   /\ Len(sessionOrder) - n + extraEntries <= MaxPreparations
        enough == {n \in 0..Len(others) : fits(n)}
    IN  IF enough = {} THEN [ok |-> FALSE, gone |-> out(Len(others))]
        ELSE [ok |-> TRUE, gone |-> out(Min(enough))]

\* Mutant: the index of the root keeps sessions that are removed.
RemoveSessions_KeepsIndex(S) ==
    /\ sessions' = [s \in Sessions |-> IF s \in S THEN None ELSE sessions[s]]
    /\ sessionOrder' = Without(sessionOrder, S)
    /\ prepBytes' = prepBytes - MapThenSumSet(Meta, S)
    /\ UNCHANGED rootSessions
\* remove_session for every session of a set.
RemoveSessions(S) ==
    /\ sessions' = [s \in Sessions |-> IF s \in S THEN None ELSE sessions[s]]
    /\ sessionOrder' = Without(sessionOrder, S)
    /\ prepBytes' = prepBytes - MapThenSumSet(Meta, S)
    /\ rootSessions' = [r \in Roots |-> rootSessions[r] \ S]

\* The insertion at the end of install; the removed own entry is part of gone.
InsertSession(r, gone) ==
    /\ sessions' = [s \in Sessions |-> IF s = r.session THEN r
                                       ELSE IF s \in gone THEN None ELSE sessions[s]]
    /\ sessionOrder' = Append(Without(sessionOrder, gone \cup {r.session}), r.session)
    /\ prepBytes' = prepBytes - MapThenSumSet(Meta, gone \cup {r.session}) + r.meta
    /\ rootSessions' = [t \in Roots |-> (rootSessions[t] \ (gone \cup {r.session}))
                                        \cup (IF t = r.root THEN {r.session} ELSE {})]

Moved(r) ==
    /\ sessions[r.session] # None
    /\ sessions[r.session].root # r.root \/ sessions[r.session].digest # r.digest

\* PreparationCache::install, under the lock.  A refusal keeps the evictions made before it,
\* and drops the guards.
Install(p) ==
    /\ call[p].at = "install"
    /\ LET r == call[p].req
           missing == r.need \ Cached
           extra == Max({0, r.meta - Meta(r.session)})
           old == EvictSessions(extra, IF sessions[r.session] = None THEN 1 ELSE 0, r.session)
           evict == Evict(SumOver(Bytes, missing), Cardinality(missing), r.need)
           early == CASE Moved(r) -> "binding_conflict"
                      [] ~(missing \subseteq call[p].missing) -> "cache_miss"
                      [] r.meta > MaxPreparationBytes \/ MaxPreparations = 0 -> "metadata_exhausted"
                      [] OTHER -> "none"
           late == CASE early # "none" -> early
                     [] ~old.ok -> "metadata_exhausted"
                     [] ~evict.ok -> "install_exhausted"
                     [] OTHER -> "none"
           goneSessions == IF early = "none" THEN old.gone ELSE {}
           goneBundles == IF early = "none" /\ old.ok THEN evict.gone ELSE {}
           kept == Without(bundleOrder, goneBundles)
           keptBytes == bundleBytes - SumOver(Bytes, goneBundles)
       IN  IF late = "none"
           THEN /\ InsertSession(r, goneSessions)
                /\ \E accessed \in Orders(r.need) : bundleOrder' = Touch(kept, accessed)
                /\ bundleBytes' = keptBytes + SumOver(Bytes, missing)
                /\ call' = [call EXCEPT ![p].at = "release"]
                /\ UNCHANGED inFlight
           ELSE /\ Return(p, late) /\ DropGuards(p)
                /\ RemoveSessions(goneSessions)
                /\ bundleOrder' = kept /\ bundleBytes' = keptBytes
    /\ UNCHANGED <<defs, lent, purge, calls, restarts>>

\* drop(fetched.guards), outside the lock.
Release(p) ==
    /\ call[p].at = "release"
    /\ Return(p, "prepared") /\ DropGuards(p)
    /\ UNCHANGED <<defs, cacheVars, lent, purge, calls, restarts>>

-----------------------------------------------------------------------------
(* Readers of the cache *)

\* AwsHand::preparation: a lookup makes the session the most recent.
LookUp(s) ==
    /\ sessions[s] # None /\ sessionOrder[Len(sessionOrder)] # s
    /\ sessionOrder' = Touch(sessionOrder, <<s>>)
    /\ UNCHANGED <<defs, sessions, rootSessions, prepBytes, bundleOrder, bundleBytes, inFlight,
                   call, lent, purge, calls, restarts>>

\* install_for_operation borrows the bundle while it posts the bytes to the guest.
Borrow(i, b) ==
    /\ lent[i] = None /\ b \in Cached
    /\ lent' = [lent EXCEPT ![i] = b]
    /\ bundleOrder' = Touch(bundleOrder, <<b>>)
    /\ UNCHANGED <<defs, sessions, sessionOrder, rootSessions, prepBytes, bundleBytes, inFlight,
                   call, purge, calls, restarts>>

GiveBack(i) ==
    /\ lent[i] # None
    /\ lent' = [lent EXCEPT ![i] = None]
    /\ UNCHANGED <<defs, cacheVars, inFlight, call, purge, calls, restarts>>

-----------------------------------------------------------------------------
(* purge_tree, after the root's target rows are gone *)

\* purge_root_page lists the first non-empty prefix.
Prefix(r) ==
    LET of(k) == {d \in defs : d.root = r /\ d.kind = k}
    IN  IF of("binding") # {} THEN of("binding")
        ELSE IF of("preparation") # {} THEN of("preparation") ELSE of("root_seal")
\* The listed page, and any part of it when a delete fails or the call is dropped.
Pages(S) == {D \in SUBSET S : Cardinality(D) <= PageLimit}
FullPages(S) == {D \in Pages(S) : Cardinality(D) = Min({PageLimit, Cardinality(S)})}

PurgeStart(r) ==
    /\ r \in Purgeable /\ purge[r] = "no"
    /\ \A p \in Preps : call[p].req # None => call[p].req.root # r
    /\ purge' = [purge EXCEPT ![r] = "definitions"]
    /\ UNCHANGED <<defs, cacheVars, inFlight, call, lent, calls, restarts>>

\* Mutant: a purge infers from a deleted page that no rows are left.
PurgePage_Infers(r) ==
    /\ purge[r] = "definitions" /\ Prefix(r) # {}
    /\ \E D \in FullPages(Prefix(r)) : defs' = defs \ D
    /\ purge' = [purge EXCEPT ![r] = "cache"]
    /\ UNCHANGED <<cacheVars, inFlight, call, lent, calls, restarts>>
\* A page was deleted: the attempt ends, and a later one confirms the absence.
PurgePage(r) ==
    /\ purge[r] = "definitions" /\ Prefix(r) # {}
    /\ \E D \in FullPages(Prefix(r)) : defs' = defs \ D
    /\ UNCHANGED <<cacheVars, inFlight, call, lent, purge, calls, restarts>>

PurgePageFails(r) ==
    /\ purge[r] = "definitions"
    /\ \E D \in Pages(Prefix(r)) \ {{}} : defs' = defs \ D
    /\ UNCHANGED <<cacheVars, inFlight, call, lent, purge, calls, restarts>>

PurgeConfirmed(r) ==
    /\ purge[r] = "definitions" /\ Prefix(r) = {}
    /\ purge' = [purge EXCEPT ![r] = "cache"]
    /\ UNCHANGED <<defs, cacheVars, inFlight, call, lent, calls, restarts>>

\* PreparationStore::purge_root_page; an incomplete page starts the attempt again.
PurgeCache(r) ==
    /\ purge[r] = "cache"
    /\ \E S \in FullPages(rootSessions[r]) :
          /\ RemoveSessions(S)
          /\ purge' = [purge EXCEPT ![r] = IF S = rootSessions[r] THEN "done" ELSE "definitions"]
    /\ UNCHANGED <<defs, bundleOrder, bundleBytes, inFlight, call, lent, calls, restarts>>

-----------------------------------------------------------------------------
\* The control process dies: only the definition rows survive.  Brain repeats its purge.
Restart ==
    /\ restarts < MaxRestarts
    /\ restarts' = restarts + 1
    /\ sessions' = [s \in Sessions |-> None] /\ sessionOrder' = <<>>
    /\ rootSessions' = [r \in Roots |-> {}] /\ prepBytes' = 0
    /\ bundleOrder' = <<>> /\ bundleBytes' = 0
    /\ inFlight' = [bytes |-> 0, entries |-> 0]
    /\ call' = [p \in Preps |-> Idle] /\ lent' = [i \in Installers |-> None]
    /\ purge' = [r \in Roots |-> IF purge[r] = "cache" THEN "definitions" ELSE purge[r]]
    /\ UNCHANGED <<defs, calls>>

PrepareStep(p) ==
    \/ SealRoot(p) \/ DefineSession(p) \/ AdmitFetch(p) \/ FetchBundles(p)
    \/ Install(p) \/ Release(p)

PurgeStep(r) == PurgePage(r) \/ PurgeConfirmed(r) \/ PurgeCache(r)

Next ==
    \/ \E r \in Requests : \E b \in Bundles : ResolveBinding(r, b)
    \/ \E p \in Preps : \/ \E r \in Requests : Prepare(p, r)
                        \/ PrepareStep(p) \/ AdmitRefused(p) \/ PrepareFails(p)
    \/ \E s \in Sessions : LookUp(s)
    \/ \E i \in Installers : GiveBack(i) \/ \E b \in Bundles : Borrow(i, b)
    \/ \E r \in Roots : PurgeStart(r) \/ PurgePageFails(r) \/ PurgeStep(r)
    \/ Restart

Spec == Init /\ [][Next]_vars

\* Brain repeats purge_tree until it succeeds.
Fairness == \A r \in Roots : WF_vars(PurgeStep(r))

FairSpec == Spec /\ Fairness

-----------------------------------------------------------------------------
(* Properties *)

\* Every variable has its shape, and an order lists each cached entry once.
TypeOK ==
    /\ \A s \in Sessions : sessions[s] \in {None} \cup {r \in Requests : r.session = s}
    /\ IsInjective(sessionOrder) /\ Range(sessionOrder) = {s \in Sessions : sessions[s] # None}
    /\ IsInjective(bundleOrder) /\ Cached \subseteq Bundles
    /\ inFlight \in [bytes : Nat, entries : Nat]
    /\ \A p \in Preps :
         /\ call[p].at \in {"idle", "seal", "define", "admit", "fetch", "install", "release"}
         /\ call[p].req \in Requests \cup {None}
         /\ call[p].borrowed \cup call[p].missing \subseteq Bundles
    /\ lent \in [Installers -> Bundles \cup {None}]
    /\ purge \in [Roots -> {"no", "definitions", "cache", "done"}]

\* "This keeps the cache plus every concurrent cold fetch below one process-wide limit even
\* if all servers return their maximum response at once": cached bytes and the declared
\* bounds of the fetches not yet installed stay within the limit, and so do the entries, for
\* every interleaving of admissions, fetches, installations, drops and evictions.
MemoryWithinLimit ==
    LET fetching == {p \in Preps : call[p].at \in {"fetch", "install"}}
        bound(p) == Reserved(call[p])
        count(p) == Cardinality(call[p].missing)
    IN  /\ SumOver(Bytes, Cached) + MapThenSumSet(bound, fetching) <= MaxBundleBytes
        /\ Cardinality(Cached) + MapThenSumSet(count, fetching) <= MaxBundles
        /\ MapThenSumSet(bound, fetching) <= MaxFetchBytes
        /\ MapThenSumSet(Meta, Sessions) <= MaxPreparationBytes
        /\ Len(sessionOrder) <= MaxPreparations

\* The running totals and the root index that evictions, replacements, purges and dropped
\* reservations maintain are the sums and the index of what is held: a drift would refuse
\* preparations, or admit too many, for the life of the process.
AccountingExact ==
    LET bound(p) == Reserved(call[p])
        count(p) == Cardinality(call[p].missing)
    IN  /\ bundleBytes = SumOver(Bytes, Cached)
        /\ prepBytes = MapThenSumSet(Meta, Sessions)
        /\ inFlight = [bytes |-> MapThenSumSet(bound, Holding), entries |-> MapThenSumSet(count, Holding)]
        /\ rootSessions = [r \in Roots |-> {s \in Sessions : sessions[s] # None /\ sessions[s].root = r}]

\* "it cannot turn this exact preparation into a post-fetch cache miss": a prepare whose
\* fetches succeeded is never refused for a missing bundle or for bundle capacity, whatever
\* other preparations evicted while it was fetching.
FetchNeverWasted == \A p \in Preps : call[p].out \notin {"cache_miss", "install_exhausted"}

\* What a session runs with is what was sealed first: every cached preparation agrees with
\* the durable rows of its session and of its root, after any sequence of evictions,
\* concurrent prepares and crashes.
CacheMatchesDefinitions ==
    \A s \in Sessions : sessions[s] # None /\ purge[sessions[s].root] = "no" =>
        /\ \E d \in Row("preparation", sessions[s].root, s) : d.digest = sessions[s].digest
        /\ \E d \in Row("root_seal", sessions[s].root, "physical") : d.digest = sessions[s].seal

\* A purge_tree that returned success left nothing of the root: no binding, preparation or
\* seal row, and no cached session, whatever pages, partial deletes and crashes it took.
PurgedMeansGone ==
    \A r \in Roots : purge[r] = "done" =>
        /\ \A d \in defs : d.root # r
        /\ \A s \in Sessions : sessions[s] # None => sessions[s].root # r

\* A purge that Brain keeps repeating completes, although each attempt deletes one bounded
\* page, may delete only part of it, and starts again after every incomplete page.
PurgeCompletes == \A r \in Roots : purge[r] = "definitions" ~> purge[r] = "done"

\* The caches of the process (PreparationCache and BundleFetchReservation) keep their types, their
\* totals and their limits.
MemoryIsAccounted == TypeOK /\ MemoryWithinLimit /\ AccountingExact

\* The durable rows (DynamoDefinitionRegistry) and the caches tell the same: what is cached is what
\* was sealed, and what is purged is gone from both.
DefinitionsHold == CacheMatchesDefinitions /\ PurgedMeansGone
=============================================================================
