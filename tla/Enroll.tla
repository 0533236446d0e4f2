------------------------------- MODULE Enroll -------------------------------
(***************************************************************************)
(* The enrollment handler of src/unnamed/part_000 (package fleet):        *)
(* EnrollerT.handleEnroll, fetchEnrollmentKeyRecord, decodeEnrollRequest, *)
(* _enroll, updateLocalMetaAgentId and createFleetAgent.                  *)
(*                                                                         *)
(* Each request runs in its own goroutine; requests share the limiter,    *)
(* the cache and the document store, and nothing else.  A request is a   *)
(* sequence of steps, one per call that may block (limiter, the store,    *)
(* API-key creation); the code between two such calls is one step.       *)
(* Store and API-key calls may fail; a call that fails with a timeout may *)
(* still have taken effect.  The cache may evict any entry at any time    *)
(* (it is cost-bounded) and drops an entry once its TTL has passed.       *)
(***************************************************************************)
EXTENDS Integers, FiniteSets, LocalMeta

CONSTANTS
    Requests,        \* enroll requests; each also names the agent id it mints
    EnrollKeys,      \* enrollment API key ids
    RequestInputs,   \* the request bodies and keys a request may carry
    MaxInFlight,     \* EnrollLimit.Max of the limiter
    EnrollTTL,       \* kCacheEnrollmentTTL, in ticks
    MaxTime,         \* bound on the clock
    None,            \* model value: nil / absent
    OldId            \* model value: an agent id already in local metadata

ValidTypes == {"EPHEMERAL", "PERMANENT", "TEMPORARY"}

\* The local metadata blobs: those of the requests (NilBlob or a JSON text
\* of LocalMeta) and their patched forms.
RequestBlobs == {i.local : i \in RequestInputs}

\* updateLocalMetaAgentId of each request blob for each agent id, a
\* constant table (a pure function of its arguments).
LocalMetaPatch == [b \in RequestBlobs, a \in Requests |-> UpdateLocalMetaAgentId(b, a)]

LocalBlobs == RequestBlobs \cup {LocalMetaPatch[b, a].val : b \in RequestBlobs, a \in Requests}

Input == [key : EnrollKeys, type : STRING, shared : BOOLEAN,
          local : LocalBlobs, user : {None, "user"}]

ASSUME RequestInputs \subseteq Input
ASSUME MaxInFlight \in Nat /\ EnrollTTL \in Nat \ {0} /\ MaxTime \in Nat

VARIABLES
    now,        \* time.Now(), in ticks
    ekStore,    \* .fleet-enrollment-api-keys: key id -> active flag
    revokedAt,  \* history: when each key was deactivated, or None
    ekCache,    \* cache of enrollment key records: key -> entry or None
    akCache,    \* access API keys in the cache, by agent id
    apiKeys,    \* access API keys minted, by agent id
    agents,     \* .fleet-agents: agent id -> agent record or None
    inflight,   \* slots of the limiter in use
    req         \* per request: its step, inputs and what it has learnt

vars == <<now, ekStore, revokedAt, ekCache, akCache, apiKeys, agents,
          inflight, req>>

Time == 0..MaxTime + EnrollTTL

CacheEntry == [active : BOOLEAN, expires : Time]

\* model.Agent, abstracted to the fields this handler sets.
Agent == [key : EnrollKeys, type : ValidTypes, local : LocalBlobs,
          user : {None, "user"}, accessKey : Requests]

Steps == {"idle", "auth", "fetch", "fetched", "decode", "enroll", "create", "done"}

\* rec: the active flag of the record the store search read; cached: the
\* enrollment key was accepted from the cache.
ReqState == [pc : Steps, in : Input \cup {None}, slot : BOOLEAN,
             rec : BOOLEAN \cup {None}, cached : BOOLEAN,
             keyOkAt : Time \cup {None}, err : STRING \cup {None}]

TypeOK ==
    /\ now \in 0..MaxTime
    /\ ekStore \in [EnrollKeys -> BOOLEAN]
    /\ revokedAt \in [EnrollKeys -> Time \cup {None}]
    /\ ekCache \in [EnrollKeys -> CacheEntry \cup {None}]
    /\ akCache \subseteq Requests
    /\ apiKeys \subseteq Requests
    /\ agents \in [Requests -> Agent \cup {None}]
    /\ inflight \in 0..MaxInFlight
    /\ req \in [Requests -> ReqState]

\* NewEnrollerT: a fresh limiter with no slot in use and the server's cache,
\* empty at start; every enrollment key active and no agent yet.
Init ==
    /\ now = 0
    /\ ekStore = [k \in EnrollKeys |-> TRUE]
    /\ revokedAt = [k \in EnrollKeys |-> None]
    /\ ekCache = [k \in EnrollKeys |-> None]
    /\ akCache = {}
    /\ apiKeys = {}
    /\ agents = [r \in Requests |-> None]
    /\ inflight = 0
    /\ req = [r \in Requests |->
                [pc |-> "idle", in |-> None, slot |-> FALSE, rec |-> None,
                 cached |-> FALSE, keyOkAt |-> None, err |-> None]]

-----------------------------------------------------------------------------
(* Helpers                                                                 *)

\* cache.GetEnrollmentApiKey: an entry set at tick t with TTL d is served
\* during ticks t .. t+d-1 (a tick is the clock's granularity).
CacheHit(k) == ekCache[k] /= None /\ now < ekCache[k].expires

\* Router.handleEnroll once EnrollerT.handleEnroll has returned: an error
\* is written to the client (its code and message derived from err), and
\* otherwise the response bytes are.  The request is done.
Respond(r, err) ==
    req' = [req EXCEPT ![r].pc = "done", ![r].err = err, ![r].slot = FALSE]

\* Mutant: the slot is given back only on the success path.
FinishLeakOnError(r, err) ==
    /\ Respond(r, err)
    /\ inflight' = IF req[r].slot /\ err = None THEN inflight - 1 ELSE inflight

\* Return from handleEnroll: the deferred limitF() gives the slot back, and
\* the router responds.
Finish(r, err) ==
    /\ Respond(r, err)
    /\ inflight' = IF req[r].slot THEN inflight - 1 ELSE inflight

At(r, step) == req[r].pc = step

Goto(r, step) == req' = [req EXCEPT ![r].pc = step]

-----------------------------------------------------------------------------
(* EnrollerT.handleEnroll                                                  *)

\* Mutant: the limiter admits without looking at its count.
AcquireUnbounded(r) ==
    /\ At(r, "idle")
    /\ \E in \in RequestInputs :
         \/ /\ inflight' = inflight + 1
            /\ req' = [req EXCEPT ![r] = [@ EXCEPT !.pc = "auth", !.in = in,
                                                   !.slot = TRUE]]
         \/ /\ req' = [req EXCEPT ![r] = [@ EXCEPT !.pc = "done", !.in = in,
                                                   !.err = "limit"]]
            /\ UNCHANGED inflight
    /\ UNCHANGED <<now, ekStore, revokedAt, ekCache, akCache, apiKeys, agents>>

\* et.limit.Acquire(): refused when the limiter is full or rate-limited,
\* with no side effect.
Acquire(r) ==
    /\ At(r, "idle")
    /\ \E in \in RequestInputs :
         \/ /\ inflight < MaxInFlight
            /\ inflight' = inflight + 1
            /\ req' = [req EXCEPT ![r] = [@ EXCEPT !.pc = "auth", !.in = in,
                                                   !.slot = TRUE]]
         \/ /\ req' = [req EXCEPT ![r] = [@ EXCEPT !.pc = "done", !.in = in,
                                                   !.err = "limit"]]
            /\ UNCHANGED inflight
    /\ UNCHANGED <<now, ekStore, revokedAt, ekCache, akCache, apiKeys, agents>>

\* authApiKey and validateUserAgent: either may reject the request.
Authenticate(r) ==
    /\ At(r, "auth")
    /\ \/ Goto(r, "fetch") /\ UNCHANGED inflight
       \/ Finish(r, "auth")
    /\ UNCHANGED <<now, ekStore, revokedAt, ekCache, akCache, apiKeys, agents>>

\* fetchEnrollmentKeyRecord up to the store's answer: a cache hit is used
\* as is; on a miss dl.FindEnrollmentAPIKey searches the store, which reads
\* the record when it runs the search, and the answer comes back later.
FetchEnrollmentKeyRecord(r) ==
    LET k == req[r].in.key
    IN /\ At(r, "fetch")
       /\ \/ /\ CacheHit(k)
             /\ req' = [req EXCEPT ![r] = [@ EXCEPT !.pc = "decode",
                                                    !.keyOkAt = now, !.cached = TRUE]]
             /\ UNCHANGED inflight
          \/ /\ ~CacheHit(k)
             /\ Finish(r, "store")
          \/ /\ ~CacheHit(k)
             /\ req' = [req EXCEPT ![r] = [@ EXCEPT !.pc = "fetched", !.rec = ekStore[k]]]
             /\ UNCHANGED inflight
       /\ UNCHANGED <<now, ekStore, revokedAt, ekCache, akCache, apiKeys, agents>>

\* The rest of fetchEnrollmentKeyRecord once the answer is in: an inactive
\* record is refused and not cached; an active one is cached for
\* kCacheEnrollmentTTL from now.
FetchedEnrollmentKeyRecord(r) ==
    LET k == req[r].in.key
    IN /\ At(r, "fetched")
       /\ \/ /\ ~req[r].rec
             /\ Finish(r, "inactive")
             /\ UNCHANGED ekCache
          \/ /\ req[r].rec
             /\ ekCache' = [ekCache EXCEPT ![k] =
                              [active |-> TRUE, expires |-> now + EnrollTTL]]
             /\ req' = [req EXCEPT ![r] = [@ EXCEPT !.pc = "decode", !.keyOkAt = now]]
             /\ UNCHANGED inflight
       /\ UNCHANGED <<now, ekStore, revokedAt, akCache, apiKeys, agents>>

\* decodeEnrollRequest: the type must be one of the three known ones.
DecodeEnrollRequest(r) ==
    /\ At(r, "decode")
    /\ IF req[r].in.type \in ValidTypes
       THEN Goto(r, "enroll") /\ UNCHANGED inflight
       ELSE Finish(r, "unknown enroll type")
    /\ UNCHANGED <<now, ekStore, revokedAt, ekCache, akCache, apiKeys, agents>>

\* Mutant: the shared-id check is made after the key is created.
GenerateAccessApiKeyMintFirst(r) ==
    /\ At(r, "enroll")
    /\ \/ /\ req[r].in.shared
          /\ apiKeys' = apiKeys \cup {r}
          /\ Finish(r, "preexisting")
       \/ /\ ~req[r].in.shared
          /\ apiKeys' = apiKeys \cup {r}
          /\ Goto(r, "create")
          /\ UNCHANGED inflight
       \/ /\ ~req[r].in.shared
          /\ \E minted \in BOOLEAN :
               apiKeys' = IF minted THEN apiKeys \cup {r} ELSE apiKeys
          /\ Finish(r, "apikey")
    /\ UNCHANGED <<now, ekStore, revokedAt, ekCache, akCache, agents>>

\* generateAccessApiKey: apikey.Create for the agent id; minted tells
\* whether the key exists afterwards.
MintAccessKey(r, minted) ==
    apiKeys' = IF minted THEN apiKeys \cup {r} ELSE apiKeys

\* Mutant: the error of generateAccessApiKey is dropped.
GenerateAccessApiKeyIgnoreError(r) ==
    /\ At(r, "enroll")
    /\ \/ /\ req[r].in.shared
          /\ Finish(r, "preexisting")
          /\ UNCHANGED apiKeys
       \/ /\ ~req[r].in.shared
          /\ \E minted \in BOOLEAN : MintAccessKey(r, minted)
          /\ Goto(r, "create")
          /\ UNCHANGED inflight
    /\ UNCHANGED <<now, ekStore, revokedAt, ekCache, akCache, agents>>

\* _enroll up to generateAccessApiKey: a shared id is refused; the access
\* key for the new agent id is created before anything is stored.  A
\* failed call may still have created the key.
GenerateAccessApiKey(r) ==
    /\ At(r, "enroll")
    /\ \/ /\ req[r].in.shared
          /\ Finish(r, "preexisting")
          /\ UNCHANGED apiKeys
       \/ /\ ~req[r].in.shared
          /\ MintAccessKey(r, TRUE)
          /\ Goto(r, "create")
          /\ UNCHANGED inflight
       \/ /\ ~req[r].in.shared
          /\ \E minted \in BOOLEAN : MintAccessKey(r, minted)
          /\ Finish(r, "apikey")
    /\ UNCHANGED <<now, ekStore, revokedAt, ekCache, akCache, agents>>

\* createFleetAgent: create the agent document with refresh; a failed
\* call may still have stored it.
PutAgent(r, agent, stored) ==
    agents' = IF stored THEN [agents EXCEPT ![r] = agent] ELSE agents

\* The rest of _enroll: patch the local metadata, create the agent with
\* refresh, then cache the access key and return the response.
CreateFleetAgent(r) ==
    LET in    == req[r].in
        local == LocalMetaPatch[in.local, r]
        agent == [key |-> in.key, type |-> in.type, local |-> local.val,
                  user |-> None, accessKey |-> r]
    IN /\ At(r, "create")
       /\ \/ /\ local.err /= "nil"
             /\ Finish(r, "localmeta")
             /\ UNCHANGED <<agents, akCache>>
          \/ /\ local.err = "nil"
             /\ PutAgent(r, agent, TRUE)
             /\ akCache' = akCache \cup {r}
             /\ Finish(r, None)
          \/ /\ local.err = "nil"
             /\ \E stored \in BOOLEAN : PutAgent(r, agent, stored)
             /\ Finish(r, "store")
             /\ UNCHANGED akCache
       /\ UNCHANGED <<now, ekStore, revokedAt, ekCache, apiKeys>>

-----------------------------------------------------------------------------
(* The environment                                                         *)

\* An enrollment key is deactivated (outside this code).
Revoke(k) ==
    /\ ekStore[k]
    /\ ekStore' = [ekStore EXCEPT ![k] = FALSE]
    /\ revokedAt' = [revokedAt EXCEPT ![k] = now]
    /\ UNCHANGED <<now, ekCache, akCache, apiKeys, agents, inflight, req>>

\* The cost-bounded cache evicts an entry.
EvictEnrollmentKey(k) ==
    /\ ekCache[k] /= None
    /\ ekCache' = [ekCache EXCEPT ![k] = None]
    /\ UNCHANGED <<now, ekStore, revokedAt, akCache, apiKeys, agents, inflight, req>>

EvictAccessKey(a) ==
    /\ a \in akCache
    /\ akCache' = akCache \ {a}
    /\ UNCHANGED <<now, ekStore, revokedAt, ekCache, apiKeys, agents, inflight, req>>

Tick ==
    /\ now < MaxTime
    /\ now' = now + 1
    /\ UNCHANGED <<ekStore, revokedAt, ekCache, akCache, apiKeys, agents, inflight, req>>

\* Every request has returned; the server goes on idling.
Terminating ==
    /\ \A r \in Requests : At(r, "done")
    /\ UNCHANGED vars

\* The steps a request takes once admitted.
Work(r) ==
    \/ Authenticate(r)
    \/ FetchEnrollmentKeyRecord(r)
    \/ FetchedEnrollmentKeyRecord(r)
    \/ DecodeEnrollRequest(r)
    \/ GenerateAccessApiKey(r)
    \/ CreateFleetAgent(r)

Next ==
    \/ \E r \in Requests : Acquire(r) \/ Work(r)
    \/ \E k \in EnrollKeys : Revoke(k) \/ EvictEnrollmentKey(k)
    \/ \E a \in Requests : EvictAccessKey(a)
    \/ Tick
    \/ Terminating

\* A goroutine that has been admitted keeps running: every store and API
\* key call returns (the request context has a deadline).
Fairness == \A r \in Requests : WF_vars(Work(r))

Spec == Init /\ [][Next]_vars /\ Fairness

-----------------------------------------------------------------------------
(* Properties                                                              *)

\* A deactivated enrollment key admits agents from the cache for at most
\* kCacheEnrollmentTTL after its deactivation: the cache serves a record
\* for a bounded TTL (spec section 4.1 step 2), so a request accepted
\* from the cache is accepted within the TTL of the key's deactivation.
RevokedKeyHonoredWithinTTL ==
    \A r \in Requests :
        req[r].cached /\ revokedAt[req[r].in.key] /= None
        => req[r].keyOkAt < revokedAt[req[r].in.key] + EnrollTTL

\* No access key is minted for a request that an earlier check rejects: a
\* request with an unknown type or a shared id, or whose enrollment key
\* was not accepted, leaves no live credential behind.
MintOnlyForValidRequests ==
    \A r \in apiKeys :
        /\ req[r].keyOkAt /= None
        /\ req[r].in.type \in ValidTypes
        /\ ~req[r].in.shared

\* The agent id inside a stored agent's local metadata, wherever a reader
\* of the blob finds elastic.agent.id, is the agent's own id and never the
\* id the agent sent (spec section 3).
AgentLocalMetaIdMatches ==
    \A a \in Requests :
        agents[a] /= None /\ agents[a].local /= NilBlob
        /\ HasPath(agents[a].local, AgentIdPath)
        => Member(Member(Member(agents[a].local, "elastic"), "agent"), "id") = IdStr(a)

\* The stored local metadata is the request's blob with only
\* elastic.agent.id overwritten, and only where the whole path exists:
\* every other member, however deep or duplicated, reads as it was sent
\* (spec section 4.1 step 5).
AgentLocalMetaPatchedAsSpecified ==
    \A a \in Requests :
        agents[a] /= None
        => SameJson(agents[a].local, ReferencePatch(req[a].in.local, a))

\* What a finished request was told agrees with the store: a success
\* leaves its agent stored and its access key minted, and an agent is
\* stored for a request told it failed only when the failure came from
\* createFleetAgent itself (a timeout the store had already applied).  The
\* key minted before a later failure is left behind, never reported as an
\* enrollment.
EnrollResponseMatchesStore ==
    \A r \in Requests :
        At(r, "done") =>
            /\ req[r].err = None => agents[r] /= None /\ r \in apiKeys
            /\ agents[r] /= None /\ req[r].err /= None => req[r].err = "store"

\* The stored agent keeps the user-provided metadata of its request (the
\* spec's Agent record and enroll response both carry it).
AgentKeepsUserMetadata ==
    \A a \in Requests : agents[a] /= None => agents[a].user = req[a].in.user

\* Limiter slots are never leaked: every admitted request, on every exit
\* path, gives its slot back, so once requests stop arriving the limiter
\* drains to zero.
SlotsEventuallyFree == <>[](inflight = 0)

=============================================================================
