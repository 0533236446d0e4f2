# TLA+ models of the fleet-server coordination core

This directory holds TLA+ models of the two mechanisms described in `spec.md`,
and of the response decoding they rely on, written from the Go sources under
`src/`:

- the **policy-leadership lease**, in `src/internal/pkg/dl/policies_leader.go`,
  with the replicas' periodic monitor that calls it (modelled from the spec),
  and the lazily built query template of `SearchPolicyLeaders`;
- the **enrollment handler**, in `src/unnamed/part_000` (package `fleet`),
  with the patch of the agent's local metadata;
- **the search result types**, in `src/internal/pkg/es/result.go`:
  `Bucket.UnmarshalJSON` and the decoding of a whole search response.

The models are checked with TLC. `PROJECT.json` lists the components, the runs,
the mutants that show each property can fail, the source lines behind every
definition, the findings, and the hazards.

## 1. Inventory

### Components and their state

| Component | Source | State it keeps | Operations |
|---|---|---|---|
| Lease manager | `policies_leader.go` 1-144 | None of its own. It reads and writes one lease document per policy in `.fleet-policies-leader`: the server id and version, and `@timestamp`. | `TakePolicyLeadership`, `ReleasePolicyLeadership`, `SearchPolicyLeaders` |
| Enrollment handler | `part_000` | None of its own. It shares the limiter, the cache (enrollment-key records and access keys) and the store (enrollment keys, agents) with every other request. | `handleEnroll` (router and `EnrollerT`), `fetchEnrollmentKeyRecord`, `decodeEnrollRequest`, `_enroll`, `updateLocalMetaAgentId`, `createFleetAgent`, `generateAccessApiKey` |
| ES result types | `es/result.go` | None. `Bucket.UnmarshalJSON` decodes a bucket into its receiver and splits the sub-aggregations out of it. `json.Unmarshal` fills `Response`, whose aggregations hold slices of buckets. | `Bucket.UnmarshalJSON`, decoding of `Response`, `ResultT` |
| Query template | `policies_leader.go` 18-63 | The package-level template, built once under `sync.Once` | `prepareSearchPolicyLeaders`, the `Do` of the Once, `RenderOne` |
| Policy monitor | not in `src/` | Per replica: the policies it coordinates. | Periodic check, take, renew, release on shutdown. Taken from the spec. |
| External collaborators | not in `src/` | Document store (create fails if the id exists, update, read with refresh, search). Cache (TTL, cost-based eviction). Limiter (a counting slot, plus a rate limit). API-key issuer. | Taken from the spec |
| Tests | `policies_leader.go` 145-553, `part_001` | Tests of the config package and of checkin action conversion. That code is not in `src/`. | None |

### How the components interact

- **Policy monitor and lease manager.** Every replica runs a monitor on a
  timer. It calls `SearchPolicyLeaders`, then `TakePolicyLeadership` for
  each policy whose lease is missing, stale or its own (a renewal). It
  coordinates a policy while its last take returned nil. On shutdown it
  calls `ReleasePolicyLeadership` for what it led. The search runs without
  refresh, so it sees the index as of its last refresh. It sets no size,
  so Elasticsearch returns at most its default page of ten hits.
- **Query template.** The first `SearchPolicyLeaders` call of the process
  builds the template inside `initSearchPolicyLeadersOnce.Do`; concurrent
  calls wait on the Once and then use it.
- **Search result.** `bulker.Search` decodes the response body into
  `es.Response` and hands on its `ResultT`. A bucket that
  `Bucket.UnmarshalJSON` rejects ends the decode of the whole response.
- **Lease manager.** Several fleet-server replicas call it, and they share
  nothing but the store. Each call is a read with refresh followed by a
  write, and another replica may write the same document in between. A
  Take writes `Create` when its read found nothing and `Update` otherwise. A
  Release writes an `Update` of the document it read, with the time moved
  `releaseInterval` into the past.
- **Enrollment handler.** Every HTTP request runs in its own goroutine. The
  steps are:
  1. Acquire a limiter slot.
  2. Authenticate the API key and the user agent.
  3. Fetch the enrollment-key record: cache first, then a store search,
     whose answer comes back some time after the store read the record. On
     a miss the record is cached only if it is active, for the TTL from
     when the answer arrived.
  4. Decode the body and check its type.
  5. Refuse a shared id.
  6. Mint the access key.
  7. Patch the local metadata.
  8. Create the agent with refresh.
  9. Cache the access key.
  10. Return. The deferred release gives the slot back.

### What is hard

- **Interleaving of replicas between a read and a write.** Neither lease
  operation writes conditionally on what it read.
- **Store calls that fail after taking effect** (timeouts): a Take that is
  told it failed may still hold the lease, and an enroll that is told it
  failed may have stored its agent.
- **Time.** The lease's freshness window, the release interval, and the
  enrollment-key cache TTL against a deactivation in the store.
- **Partial failure in enrollment.** The access key is minted before the
  agent is stored, with no compensation.
- **A shared counting resource.** The limiter slot must be released on every
  exit path.

### What makes each component correct

- **Lease.** Each operation acts as the spec's atomic operation: a take by
  another server is never undone by a release.
- **Monitor.** Once failures, crashes and shutdowns stop, exactly one
  replica coordinates each policy for good.
- **Decoding.** A bucket or a response Elasticsearch writes decodes without
  error, whatever its aggregations are called.
- **Template.** A failed preparation of the template is returned, and no
  call renders with a nil template.
- **Enrollment.**
  - A deactivated key stops admitting agents from the cache within the
    cache TTL.
  - Nothing is minted for a request that the code rejects before minting.
  - The local metadata names the new agent, and nothing else in it
    changes.
  - The agent record carries what the request sent.
  - What a request is told agrees with the store: a success has its agent
    and access key, and only a failed create leaves an agent behind.
  - Limiter slots are never leaked.

## 2. Plan

Items marked *done* are built.

1. *done* `PolicyLeader`: the lease operations of concurrent servers over the
   store, checked as `PolicyMonitor` calls them.
2. *done* `Enroll`: concurrent enroll requests over the limiter, the cache and
   the store, with `MC_Enroll` and `MC_EnrollRace`.
3. *done* `EsBucket`: `Bucket.UnmarshalJSON` over bounded JSON texts.
4. *done* `PolicyMonitor`: the lease's caller composing `PolicyLeader`, with
   liveness.
5. *done* `LeaseSpec`: the spec's atomic lease, and the refinement check of
   the monitor's lease calls against it.
6. *done* `LocalMeta`: `updateLocalMetaAgentId` over the JSON texts of
   `EsJson`, composed into `Enroll` and checked against the spec's patch
   (recursive `HasPath`, `SetPath` and `JsonValue`).
7. *not pursued* Retries by the enrolling client: the client is not in the
   repository. `EnrollResponseMatchesStore` states what a retry may rely
   on (the timeout-after-create hazard).
8. *done* More policies in `PolicyMonitor`, with the search page size
   `MaxHits` (the search-size hazard).
9. *done* `SearchTemplate`: the `sync.Once` around the template, with
   concurrent callers.
10. *done* `EsJson` and `EsResponse`: the decoder shared by the bucket and
    response models, and the decoding of a whole search response.
11. A monitor run with more policies than the page and three replicas, if
    a symmetry or a smaller clock makes it finish in minutes.

## 3. Modules

### `PolicyLeader.tla` (lease manager)

| TLA+ | Code |
|---|---|
| `leaders` | The `.fleet-policies-leader` documents, by policy id, or `NotFound`. A lease holds the server id and its `@timestamp` as an age in ticks. |
| `proc[s]` | The call server `s` has in flight: which operation, the policy, whether the read found a document, the age of the time it will write, and whether another write has landed since its read (`dirty`) |
| `outcome[s][p]` | What the last completed call returned, which the monitor acts on |
| `TakePolicyLeadershipRead` | Lines 66-85: read with refresh. A read error other than not-found returns it. The time is taken for the write. |
| `TakePolicyLeadershipWrite` | Lines 86-106: `Create` if the read found nothing, otherwise `Update`. The lease names the caller. |
| `ReleasePolicyLeadershipRead` | Lines 110-129: not found, or a lease naming another server, returns nil. Otherwise the time is set to `now - releaseInterval`. |
| `ReleasePolicyLeadershipWrite` | Lines 130-144: a blind `Update` of the lease read. A version conflict returns nil. |
| `UpdateResults`, `CreateResults` | The store calls, taken from the spec |
| `Tick` | Time passing: every lease and every time about to be written grows a tick older |

- **Update.** `bulker.Update` sends a partial document with no sequence
  number from the read. A version conflict can only come from a write that
  raced it inside the store. The model therefore allows a conflict only
  when some other write has landed since the caller's read.
- **Timeouts.** A store error other than not-found or conflict may or may
  not have been applied.
- **Time.** Only differences of times matter to the code's users, so a
  time is kept as its age, capped at `Horizon = max(LeaderInterval,
  ReleaseInterval)`: every older time compares the same way. A take's time
  is `time.Now()` right after its read, so its age starts at 0 at the read.
  A release's time starts at `ReleaseInterval`. The clock is unbounded,
  which lets liveness be stated.
- **Omissions.** The server version is left out, because no property reads
  it. JSON marshalling of the lease is its identity on the two fields that
  are kept.

### `PolicyMonitor.tla` (the lease's caller)

The caller is not in the repository. It is modelled from spec section 2
("invoked independently and periodically ... to claim, renew, or release
leadership per policy id") and section 4.2. It instantiates `PolicyLeader`
as `PL` and adds:

| TLA+ | Meaning |
|---|---|
| `visible` | The lease documents as a search sees them: the store as of the last index refresh |
| `SearchPolicyLeaders` | `policies_leader.go` 36-63: the leases of the hits; ids with no hit are absent. A search error, or a hit that fails to decode, is an error the caller acts on (`CheckFailed`). |
| `Pages`, `MaxHits` | Lines 48-51: the query has no size, so a search returns any `MaxHits` of the visible documents (Elasticsearch's default is 10), in no order the caller relies on |
| `leading[s]`, `todo[s]` | The policies `s` coordinates; the takes (or, when stopping, releases) its round still has to make |
| `mon[s]` | `running`, `stopping` or `down` |
| `Check`, `ToLead` | A check takes every policy with no lease, its own lease, or a stale lease, and stops coordinating the others |
| `StartTake`, `FinishTake` | The two steps of `TakePolicyLeadership`. The read refreshes the index. `s` coordinates the policy iff the take returned nil. |
| `Stop`, `StartRelease`, `FinishRelease`, `Down` | Shutdown: stop coordinating, then release each policy led |
| `Crash` | The process dies between calls and releases nothing |
| `Refresh`, `Tick` | Elasticsearch refreshes the index; time passes |
| `failures`, `CountFailure` | Store calls that failed, at most `MaxFailures`. A `Create` that meets a document created since its read fails whatever the store does and is not counted. |

**Timing.** A tick is longer than a check round with its store calls and
than the index refresh interval (one second by default). So no call is in
flight and no round is unfinished when a tick passes, and a tick refreshes
the index. A replica's timer fires at most once per tick and at least once
every `CheckInterval` ticks.

`LeaseSpec.tla` is the lease of spec section 4.2 with atomic operations. A
take sets the lease to the caller with the current time. A release moves
the time `releaseInterval` into the past only if the lease names the caller.
`PolicyMonitor` maps it with `INSTANCE LeaseSpec WITH lease <- leaders` and
checks `ImplementsLeaseSpec == Atomic!Spec`. Under the monitor's timing a
take writes age 0 and a release writes age `ReleaseInterval`, which is what
the atomic operations write.

### `SearchTemplate.tla` (the template under `sync.Once`)

Each caller is one goroutine making one `SearchPolicyLeaders` call.

| TLA+ | Code |
|---|---|
| `pc[c]`, `err[c]` | Where the call is; its named result `err` |
| `owner`, `done` | The Once's mutex and done flag (Go's `sync.Once`: a fast path on `done`, else lock, re-check, run, set `done`, unlock) |
| `tmpl` | `tmplSearchPolicyLeaders`, nil or built |
| `Do`, `Lock` | Line 37, the fast and slow paths of `Once.Do` |
| `PrepareSearchPolicyLeaders` | Lines 23-33 and 38-41, run inside the Once. `ResolveMayFail` says whether `Resolve` of the `dsl` package may fail; its signature returns an error. On failure `err` is set and the closure returns, but `SearchPolicyLeaders` goes on. |
| `RenderOne`, `Search` | Lines 44-62. `RenderOne` overwrites `err`; rendering a nil template panics or fails. |

`Do` and `Lock` are Go's `sync.Once`, not code of this repository. They
are kept so that the later callers, which find the Once done, are in the
model: they render the nil template too.

### `EsJson.tla` (the decoder)

The pure part: JSON texts, the Go types of `result.go`, and
`encoding/json`'s decoding into them.

| TLA+ | Code |
|---|---|
| `Null`, `Str`, `Num(c)`, `Obj(pairs)`, `Arr(s)` | JSON texts abstracted to structure. A number is its class for the Go decoder: zero, int, negative, fraction, above 2^53, 2^63-1 and 2^63. An object keeps its members in text order, duplicates included. |
| `HitT`, `HitsT`, `BucketT`, `AggregationT`, `ErrorT`, `ResponseT` | The Go types of lines 13-119 |
| `Decode`, `DecodeMembers` | `encoding/json` decoding into those types: the last duplicate wins, names match case-insensitively (`FoldCase`), a null leaves a string, number or struct field alone, a type error in one member still decodes the others, and an error of an `Unmarshaler` (`BucketRefT`) ends the decode |
| `AggregationNames` | Lines 60-82: the map's entries minus the exact `key` and `doc_count` tags, keeping objects with a `hits` member |
| `ViaInterface` | Lines 83-86: the `interface{}` round trip, which turns numbers into float64 and sorts object keys |
| `DecodeHits` | Lines 83-92 |
| `UnmarshalBucket` | Lines 54-96, a RECURSIVE operator with `Decode`: the receiver is assigned only when every decode succeeded |

### `EsBucket.tla` (`Bucket.UnmarshalJSON`)

One call per behaviour: `data` is the text, `bucket` the receiver (possibly
an element of a reused slice), `err` and `called` what the call returned.
`UnmarshalJSON` is `UnmarshalBucket` of `EsJson`.

### `EsResponse.tla` (a search response)

One decode per behaviour: `UnmarshalResponse` is `json.Unmarshal` of the
body into `Response` (lines 105-119), and `ResultOf` the `ResultT` handed
on (121-124).

### `LocalMeta.tla` (`updateLocalMetaAgentId`)

The blob is `NilBlob` (a nil slice) or a JSON text of `EsJson`; an agent id
is a string `IdStr(r)`.

| TLA+ | Code |
|---|---|
| `UpdateLocalMetaAgentId` | Lines 249-277: nil returned as is; a text that is not an object or `null` fails to unmarshal into a map; otherwise the bytes come back unchanged unless the id is there |
| `HasAgentId` | Lines 259-264: the type-asserted walk through `elastic` and `agent` to `id`, with map lookups that take the last duplicate |
| `SetAgentId`, `Put` | Lines 265-270: the id set on the decoded map, and `json.Marshal` of it, which is the blob read through `interface{}` (`ViaInterface`: duplicates collapsed, keys sorted, numbers as float64) |

`ReferencePatch` is the patch spec.md asks for (section 4.1 step 5): the
value a JSON reader finds at `elastic.agent.id` replaced, and every other
byte left as it was. `SameJson` compares two blobs as an exact reader holds
them (`JsonValue`: members by name, the last duplicate winning, numbers as
written).

### `Enroll.tla` (enrollment handler)

Each request `r` is one goroutine. `r` is also the agent id it mints (a
fresh UUID).

| TLA+ | Code |
|---|---|
| `Acquire` | `et.limit.Acquire()` (lines 110-114). Refused with no side effect, or admitted into a slot. |
| `Authenticate` | `authApiKey` and `validateUserAgent` (116-128) |
| `FetchEnrollmentKeyRecord` | Lines 303-313: a cache hit (`CacheHit`, the lookup with TTL) is used; on a miss `dl.FindEnrollmentAPIKey` runs, and the store reads the record (`rec`) when it runs the search, or the search fails |
| `FetchedEnrollmentKeyRecord` | Lines 315-322, once the answer is in: an inactive record is refused, an active one cached for the TTL from now |
| `DecodeEnrollRequest` | Lines 325-343 |
| `GenerateAccessApiKey` | `_enroll` up to the key (154-178). Minting may fail after the key exists. |
| `CreateFleetAgent` | Lines 180-221, including the access-key cache warm |
| `MintAccessKey`, `PutAgent` | `generateAccessApiKey` (292-295) and `createFleetAgent` (279-290). A failed call may still have taken effect. |
| `LocalMetaPatch` | The call of `updateLocalMetaAgentId` at lines 180-184: `LocalMeta`'s operator, tabled once per blob and agent id |
| `Finish` | The return of `handleEnroll`: the deferred slot release (line 114), then `Respond` |
| `Respond` | `Router.handleEnroll` after the call (74-106): the error, or the response, is written to the client. Codes, messages, logging and counters are left out. |
| `Init` | `NewEnrollerT` (44-64): a fresh limiter and the server's cache, empty at start |
| `Revoke`, `EvictEnrollmentKey`, `EvictAccessKey`, `Tick` | The environment: deactivation by Kibana, cache eviction, time |

A miss is two steps: the store runs the search and reads the record, and
later the answer comes back to the goroutine, which checks it and sets the
cache. Deactivation and time may come in between, as with a real store.

## 4. Runs

| Run | Checks | Shows |
|---|---|---|
| `monitor` (`MC_PolicyMonitor.cfg`) | `TypeOK`, `LeadershipSettles` | Three replicas checking, taking, renewing, stopping and crashing over one policy, with stale searches and a store failure. Leadership always settles on exactly one replica. `TypeOK` includes `PolicyLeader`'s. |
| `monitor_pair` (`MC_PolicyMonitor_pair.cfg`) | `LeadershipSettles` | Two replicas and two policies, every lease on the page. Leadership of each policy settles on one replica. |
| `monitor_page` (`MC_PolicyMonitor_page.cfg`) | `LeadershipSettles` (expected violation) | With a page of one hit and two leases, each check misses one lease, takes that policy from its holder, and the two replicas trade it back and forth for ever |
| `lease_spec` (`MC_PolicyMonitor_spec.cfg`) | `ImplementsLeaseSpec` (expected violation) | A releases its lease; B takes it between A's read and A's update; A's update renames the lease to A. No atomic operation of the spec makes that step. |
| `enroll` (`MC_Enroll.cfg`) | `TypeOK`, `EnrollResponseMatchesStore`, `MintOnlyForValidRequests`, `AgentLocalMetaIdMatches`, `SlotsEventuallyFree` | Every request shape (good bodies with six local-metadata blobs, an unknown type, a shared id) against a one-slot limiter, with deactivation, TTL expiry, eviction, searches answered late and calls that fail after taking effect. What each request is told agrees with the store, nothing is minted for a rejected request, the stored local metadata names the agent, and the limiter drains. |
| `enroll_race` (`MC_EnrollRace.cfg`) | `RevokedKeyHonoredWithinTTL` (expected violation) | A search reads the key active, the key is revoked, the answer is cached a tick later for a full TTL, and a later request is admitted from the cache a full TTL after the revocation (finding 9) |
| `enroll_user_meta` (`MC_Enroll_usermeta.cfg`) | `AgentKeepsUserMetadata` (expected violation) | `_enroll` never copies `req.Meta.User` into the agent (finding 2) |
| `enroll_big_number` (`MC_Enroll_bignum.cfg`) | `AgentLocalMetaPatchedAsSpecified` (expected violation) | A blob holding an integer above 2^53 is stored with the number rounded (finding 7) |
| `es_bucket` (`MC_EsBucket.cfg`) | `DecodeAcceptsElasticBuckets` (expected violation) | A bucket with a sub-aggregation named `Key` fails to decode (finding 3) |
| `search_template` (`MC_SearchTemplate.cfg`) | `NoCallRendersNilTemplate` (expected violation) | When `Resolve` fails, the first call's error is overwritten and every call renders a nil template (finding 8) |
| `es_response` (`MC_EsResponse.cfg`) | `DecodeAcceptsElasticResponses` | Search responses with each kind of hits and terms aggregations of up to two keyword buckets (with top_hits and metric sub-aggregations), and error responses, decode without error |
| `es_response_numeric` (`MC_EsResponse_numeric.cfg`) | `DecodeAcceptsElasticResponses` (expected violation) | A bucket with a numeric key, as a histogram or a terms aggregation on a numeric field writes it, fails the decode of the whole response (finding 6) |

### Bounds

- **Lease and monitor.** A tick is half the leader interval, and a replica
  checks once per tick (`CheckInterval = 1`), so its own lease is renewed
  before it goes stale, as the monitor's settings require.
  `LeaderInterval = ReleaseInterval = 2` sits exactly at the boundary where
  a released lease must already be stale. One store failure lets every kind
  of failure happen once. Three replicas let one stop or crash while two
  contend; the pair run isolates contention between two over two policies.
  Policies are independent in the code. `MaxHits = 10` is the real page,
  larger than any policy set a run can check, and `MaxHits = 1` under two
  policies is the smallest case of a page smaller than the lease documents.
- **Template.** Three callers let one run the function while one waits on
  the mutex and one arrives after `done` is set.
- **Enrollment.** With a TTL of 2 and a clock of 3, an entry can be set,
  the key deactivated, and the entry still be hit, and it also lets the
  entry expire. Two requests with one slot exercise refusal at a full
  limiter. Three requests with two slots exercise concurrent cache fills.
  One enrollment key is enough, since keys are independent. The six blobs
  take every result of `updateLocalMetaAgentId`: nil, an error, `null`,
  a path hidden by a later duplicate, `agent` without `id`, and the path
  present, with a null id, siblings and an id elsewhere. The walk's other
  early returns (no `elastic`, no `agent`, `agent` not an object) return
  the bytes unchanged as these do, and were left out to keep the run under
  two minutes.
- **Decoding.** The bucket run's names `key`, `Key` and `a1`, with
  integer values, are the smallest set that reaches the case fold. The
  response run covers each hits shape, empty and one- and two-bucket
  aggregations over four bucket shapes, and an error body.

### Fairness

- `Enroll` assumes weak fairness of each admitted request's steps. Every
  store and API-key call returns, because the request context carries the
  HTTP server's deadline. Arrivals, deactivation, eviction and time get no
  fairness.
- `PolicyMonitor` assumes weak fairness of each replica's own steps (its
  timer and its calls) and of `Tick`. Shutdown, crash and the index's own
  refresh get none. `PolicyLeader` alone states no liveness property.
- `SearchTemplate` states no liveness property and assumes no fairness.

### Deadlock

- **Lease and monitor.** Servers may call again forever, and time always
  passes, so deadlock cannot happen.
- **Enrollment.** `Terminating` lets the server idle once every request has
  returned.
- **Decoding and template.** One call per caller, so the runs set
  `CHECK_DEADLOCK FALSE`.

## 5. Findings

1. **Release can undo another server's take** (`policies_leader.go:138`).
   The update carries the whole lease that was read, with no
   sequence-number condition. The spec requires a conditional write on the
   release path. The monitor's calls therefore do not implement the atomic
   lease (`lease_spec`).
2. **User-provided metadata is dropped at enrollment**
   (`part_000:186`). The spec's agent record and enroll response carry it
   (`enroll_user_meta`).
3. **A sub-aggregation named `Key` or `DOC_COUNT` breaks decoding**
   (`result.go:56`). The Go decoder matches member names to fields without
   regard to case, so its object is decoded into the `key` string or the
   `doc_count` integer and the bucket fails (`es_bucket`).
4. **The leader search returns one page** (`policies_leader.go:48`). The
   query sets no size, while the comment at line 35 says all the leaders
   are returned. With more lease documents than fit in ten hits, a policy
   left off the page reads as leaderless and is taken from its holder, and
   leadership never settles (`monitor_page`).
5. **Local metadata that is not an object fails the enrollment**
   (`part_000:256`), after the access key was minted. Spec section 9 asks
   for a node of the wrong shape to be treated as path absent. No property
   states the spec's reading; `EnrollResponseMatchesStore` checks that
   such a request is told it failed, and that its key is all it leaves
   behind.
6. **A numeric bucket key fails the whole search** (`result.go:47`).
   `Bucket.Key` is a string; a histogram, or a terms aggregation on a
   numeric field, writes a number (`es_response_numeric`).
7. **Patching the local metadata rewrites its numbers**
   (`part_000:266`). When the id is set, the map is marshalled again from
   `interface{}` values, so an integer above 2^53 anywhere in the blob
   comes back rounded. The spec says every other field is left untouched
   (`enroll_big_number`).
8. **A failed template preparation is lost** (`policies_leader.go:44`).
   `Resolve` returns an error; it is stored in `err` and the closure
   returns, but `SearchPolicyLeaders` goes on and `RenderOne` overwrites
   `err`. Since the Once is done, every later call renders a nil template
   too (`search_template`). Whether the `dsl` package's `Resolve` fails for
   this template is outside `src/`.
9. **The key cache can outlive a revocation by more than its TTL**
   (`part_000:320`). The TTL is counted from when the search's answer is
   cached, not from when the store read the record, so a key revoked
   during a search is honoured from the cache for a full TTL after the
   revocation plus the search's latency. Spec section 4.1 step 2 bounds the
   delay by the TTL (`enroll_race`).

## 6. Not modelled

- **What a replica does while it coordinates a policy.** It is outside the
  code and no property is about it.
- **`generateOutputApiKey`.** It is not used by enrollment.
- **`AckResponse`** of `result.go`. No code of the repository decodes it.
- **Retries by the enrolling client.** The client is not in the repository.
  `EnrollResponseMatchesStore` states what a retry can rely on.
- **How long a client may take to send its body** (`part_000:327`). The
  read holds a limiter slot; its bound is the HTTP server's timeout, set
  outside this code, and the model reads the body in one step.
- **The router's agent-id check** (`part_000:68-72`). A request whose path
  id is not the enrollment's is answered 404 before the handler runs; the
  model's requests are the ones that pass it.
- **Precision of hits inside sub-aggregations** (`result.go:83`). They are
  decoded through `interface{}`, so an integer above 2^53 would be rounded;
  `_seq_no` and `_primary_term` stay far below that in practice.
- **Logging, metrics, HTTP status codes and response bytes.** No property
  is about them.
- **The test files.** They test code that is not in `src/`.
