# static-gateway: TLA+ models, checks and proofs

static-gateway serves static-site releases from object storage. This directory
holds TLA+ modules that model it, TLC
configurations that check them on small instances, and proofs for TLAPS.
Paths below are relative to the repository root; `server.go` is
`internal/server/server.go`, `metrics.go` is `internal/metrics/metrics.go`,
and so on.

## 1. Inventory

| Part | State | Operations | What makes it right |
|---|---|---|---|
| Manifest cache, `internal/server/cache.go` | LRU list, index, byte count, two budgets, one mutex | `get`, `add` (insert or refresh, then `evictToBound`) | list, index and count agree; both budgets hold; the victims are the least recently used and no more than necessary |
| Manifest loading, `loadManifest` in `server.go` | the manifest cache; the singleflight group; one goroutine per request | cache lookup, `Do`, second lookup, `store.Get`, read, `Load`, `add` | one read per release and replica; the right manifest to every waiter; one client's departure harms nobody; everybody is answered |
| Blob cache, `blobCache` in `internal/blobstore/cache.go` | LRU list, index, byte count, one budget, one mutex | `get`, `add` | as above; the eviction loop ends |
| Caching store, `CachingStore` in the same file | the blob cache | `Get` (pass through, hit, stream, buffer and add), `Stat`, `Exists` | invisible to its callers; holds whole and small bodies, of blobs |
| Object store, `blobstore.go`, `gcs.go` | the bucket (external) | `Get`, `Stat`, `Exists`, `mapErr` | `ErrNotExist` exactly for absent objects |
| Per-site metrics, `internal/metrics/metrics.go` | two CounterVecs, the `lastSeen` map of atomic times, one evictor goroutine | `ObserveRequest`, `AddResponseBytes`, `touch`, `evictIdle`; the collector reads | idle series go away, live and unread ones stay, no bytes are lost |
| Request handler, `ServeHTTP`, `serveBlob`, `serveNotFound` | the pool of copy buffers | method gate, `parseSite`, resolution, response headers, conditional requests, streaming | status, body and validators belong together; a broken-off body is recognised; what was sent is counted; a handler ends when its client has left |
| Clean-URL resolution, `internal/resolve` | none | `Resolve` | confined to the release, total, the documented order |
| Release manifest, `internal/manifest` | immutable after `Load` | `Load`, `canonicalizeFileKeys`, `NotFoundDoc`; `Canonical`, `ReleaseSHA` (no caller here) | keys in the form resolution asks for, independent of map order; the 404 document is found by its name |
| Cache headers, `internal/cacheheader` | none | `CacheControl`, `ETag`, `NotModified` | weak comparison, safe default class |
| Content types, `internal/contenttype` | none | `FromPath`, `FromExt` | what publisher and gateway agree is HTML |
| Process wiring, `main.go` | none | reads the environment, builds store, server and evictor | every environment gives arguments the parts work with |

How they interact: `ServeHTTP` counts the request (`metrics`), loads the
manifest (`manifestCache`, singleflight, `Store.Get`, `manifest.Load`),
resolves the path and streams a blob (`CachingStore.Get`), and counts the bytes
(`metrics`). The store under both is one `CachingStore`; manifests pass through
it. The evictor and the Prometheus collector run beside the requests. All state
is in memory and per replica, so there is no crash recovery to model: a restart
is the initial state.

What is hard here: requests that share one store read; a client that goes away
or a deadline that passes while others wait; publishing during a read; a store
that stops in the middle of a blob or never answers; misses of one blob that
race to add it; the accounting of two caches over long call sequences; and
above all the evictor, which takes four unlocked steps to remove a site while
requests count and touch it. `PROJECT.json` lists each of these hazards at its
line.

## 2. Modules

| Module | Models |
|---|---|
| `LruList` | the `container/list` operations both caches use, and sums of sizes over a list |
| `LruPolicy` | abstract: what "least recently used" promises, whatever the budgets |
| `ManifestCache`, `ManifestCacheLru` | `internal/server/cache.go`; the second adds the history of use that the refinement needs |
| `ManifestLoader` | `loadManifest` over `ManifestCache` (by INSTANCE) |
| `BlobCache`, `BlobCacheLru` | `blobCache` in `internal/blobstore/cache.go` |
| `StorageKeys` | `ManifestKey`, `BlobKey`, `isBlobKey` |
| `ObjectStore` | abstract: what `Store.Get` promises |
| `CachingStore` | `CachingStore.Get` over `BlobCache` (by INSTANCE) |
| `Metrics` | `internal/metrics/metrics.go` and the collector |
| `CleanUrl` | `internal/resolve`: paths and their resolution |
| `ContentType` | `internal/contenttype`: the table and its lookup |
| `Manifest` | `internal/manifest`: `Load`, `canonicalizeFileKeys`, `precompute`, `NotFoundDoc` |
| `CacheHeader` | `internal/cacheheader` |
| `Gateway` | `ServeHTTP`, `parseSite`, `serveBlob`, `serveNotFound` and conditional requests, over the four above, between an Ingress that swaps releases and a client that keeps what it was served |
| `Serving` | concurrent requests from `loadManifest` to the last byte: `ManifestLoader` and `ObjectStore` (by INSTANCE), the copy of `serveBlob` and the page of `serveNotFound` |
| `Settings` | `main.go`'s settings and the defaults of the constructors |
| `MC*` | instances for TLC |
| `LruListProofs`, `ManifestCacheProofs`, `BlobCacheProofs`, `ManifestLoaderProofs`, `CachingStoreProofs`, `ServingProofs`, `MetricsProofs`, `GatewayProofs` | theorems and proofs about the module of that name; those about `Settings` are in `CachingStoreProofs` |

**Caches.** A method of either cache holds `c.mu` throughout and is one
action; its eviction loop is computed in one go (`Evictions`, `StopsAfter`: the
number of iterations is the first at which the loop's condition fails). The list
is a sequence of keys, the index a function from keys to entries, the byte count
a number of its own, updated by the code's differences and never recomputed, so
that its drifting from the truth can be observed. `BlobCache`'s loop has no
guard for the empty list; if the count could stay above the budget there, the
loop would not end, which the variable `spinning` records (all later calls are
then disabled, as they would be blocked on `c.mu`).

**ManifestLoader.** A request is a goroutine with a program counter whose steps
are its accesses to shared state. singleflight is modelled from its use: under
the group's mutex a caller joins the call of its key or starts one; when the
closure returns, the call is forgotten and its value *or error* is everyone's
answer. `expired` is the leader's own deadline. The leader's context is detached
from its client (`server.go:191`), so no step of a load reads `connected`: that a
client who leaves harms no waiter holds by construction here, and no property
claims it. `known` remembers the requests that arrived after the publish of
their release; two properties and one finding are about what these are told.
The store may answer, fail, or never answer. What `manifest.Load` makes of an
object is the constant `Object`.

**CachingStore.** Calls of `Get` do not wait for one another. A call looks in
the cache, opens the object, and then either hands the reader on or fills a
buffer and adds it. Bodies are abstracted to their key, their size and whether
they are whole. What an object has (`Size`) and what its reader says it has
(`Reported`) are two constants that need not agree: `io.ReadFull` fails on a body
shorter than its buffer, and fills the buffer with a part of a longer one, which
is then cached and served as if it were the blob (`cache.go:79-85`). The latter
takes a bucket that understates a size; the properties that it would break say
so (`NotUnderstated`). `wrapped` says whether there is a cache at all: with a budget
of 0 `NewCachingStore` returns the store it was given.

**Serving.** What a single module about requests leaves out: the whole handler,
interleaved with others. The manifest comes from `ManifestLoader`, whose steps
are steps of `Serving`; the blob from `ObjectStore`, which `CachingStore` is
shown to implement (`Transparent`), so both stores `main` may build are covered.
A body is a sequence of bytes. `io.CopyBuffer` reads some of them, at most
`copyBufSize`, into its buffer (one step) and writes them (another), so that two
copies in one buffer would be seen. At each step the store may fail or stay
silent and the client may leave; a write to a client that has left may still be
accepted, as a socket does, wholly or in part, and the part is counted. The
built-in page is written in one call and its count added (`WritePage`). Which
blob a path means, and which has none, is the subject of `Gateway`; here it is
any.

**Metrics.** No lock spans the steps of a count or of a removal, so each access
to a vector, a counter, the map or an atomic is a step. A worker that holds a
counter or an entry the evictor has just removed holds an orphan: its write is
lost. Time is discrete; clocks are kept as ages, which saturate where no
comparison can tell them apart. `MaxStall` and `MaxSweep` bound how long one
count and one sweep may take, `Window` is the time between two readings of the
collector (which keeps its last reading), and `Window + MaxStall <= TTL` is the
code's "ttl must comfortably exceed the collector's billing window", which
`main` does not enforce. `raced` remembers sites where a count overlapped a
removal; the passing properties hold for all others, and the violation runs
show what happens to these.

**CleanUrl, ContentType, Manifest, CacheHeader, Gateway.** A path is the
sequence of its segments and a segment is split at its last dot, which is all
that resolution looks at. `normalize`, `Resolve` and `canonicalizeFileKeys` are
operators that compute what the code computes; the last returns every result
the iteration order of Go's maps allows. The publisher stamps a file with
`FromPath`'s content type, and the gateway decides by that type whether a file
is HTML and thus hidden from search engines in previews. `Load` refuses a
manifest without files and one with a file that has no blob (`Refused`); JSON
that does not decode is one of the failures of `NoManifest`. A response is the record of what the properties tell apart: status, body (a blob,
the built-in page, an error text or nothing), entity tag, date, cache class,
noindex. A request is one step of `Gateway` (what its parts share with other
requests is in the modules above); the concurrency here is of requests with
deploys, rollbacks and evictions. The client is external: it stores answers
that carry a Cache-Control, returns the tag - perhaps weakened on the way - or
the date it holds, and on a 304 keeps the status and body it had (RFC 9111).
`Validators` says which it returns. `http.Error` is external too: it replaces
the status and the body and keeps the headers that are set.
`FingerprintAssumption` is what the immutable class means: a path of that class
has one content in all releases.

Operators named `Fault...` are deliberately wrong variants of the definition
that follows them. No specification uses them; with one put in place of its
original, the property it is paired with in `PROJECT.json` fails, which shows
that the property can tell.

## 3. Runs

All runs together take a few minutes on two workers.

| Run | Configuration | Result |
|---|---|---|
| `manifest_cache` | 4 keys, sizes 1, 2, 3, 7; 3 entries or 5 units | passes |
| `manifest_loader` | 3 requests, 2 keys, a cache of one entry, symmetry | passes |
| `manifest_loader_stale` | 2 requests, 1 key | violated: finding |
| `blob_cache` | 4 keys, bodies of 0, 1, 2, 4, 6 bytes, budget 5 | passes |
| `caching_store` | 2 Gets, 8 objects around both limits; with and without a cache | passes |
| `serving` | 2 requests, 2 release keys (one object is no manifest), 3 blobs of up to 3 bytes and the built-in page, 2 buffers of 2 bytes, fairness | passes |
| `metrics` | 1 site, 2 workers, TTL 2, Window 1, fairness | passes |
| `metrics_leak`, `metrics_bytes_read`, `metrics_resets` | 1 site, 1 worker | violated: findings |
| `gateway` | nine releases (three that are not servable), 9 URLs, tags and dates | passes |
| `gateway_errors` | the same | violated: finding |

What each passing run shows is in its `about` in `PROJECT.json`, and what each
property says in the comment above it.

*Bounds.* Four keys with these sizes let one `add` evict none, one, two or
(blobs) four entries, for either budget, and let an entry exceed the byte budget
alone. A loader cache of one entry makes two keys evict each other all the time,
so that a key is read, cached, lost and read again; three requests are a leader,
a waiter, and one that missed early and leads late. The objects of the caching
store are one below, one above and one between each limit, one without a known
size, one whose size is overstated, a manifest, and the manifest of a site that
is named `blobs`. In `serving` one blob has a known size and more bytes than a
buffer (a copy can break off between any two), one has no known size, and one is
not in the bucket; two requests can be leader and waiter in the loader and then copy at the
same time, with a buffer each. Sites do not share metrics state except through the
evictor's position, so one site with two workers has all the races of one
removal; two sites exceed what TLC can enumerate here. The releases of the
gateway differ in every respect the handler looks at: old and new publisher,
own, default and no 404 document and one named with a slash, SPA, preview, no
date, a path in two spellings with slashes, absent, refused by `Load` for either
reason; two of them share a blob at different URLs. The URLs are the root, an
extensionless one, one that climbs out of its prefix, a document and an asset;
what is held for one URL does not depend on another, so a behaviour follows one.

*Fairness.* All of it is weak fairness, and says that Go schedules runnable
goroutines, that timers fire, and that a store operation whose context is done
returns. `Serving` states it for the handler's own steps (including giving up on
a store under a context that is done), for the loader's deadline, and for a
write to a client that has left, which the transport ends. It states none for
the store, for a connected client - who may stop reading for ever, as there is
no write timeout (`main.go:105-108`) - or for the publisher. So
`EveryRequestAnswered` (a manifest or an error, even from a silent store) rests
on the deadline, and `HandlerEndsOnceClientLeaves` on the request's context,
after the deadline has freed it from the load it may be waiting for.
`IdleSitesEvictedUnlessRaced` assumes that goroutines run, the ticker fires, the
collector comes and time passes; whether requests come is open. Deadlock is
checked in every run.

*What the violations show.*
1. `metrics_leak`: a request between the evictor's deletes re-creates a series
   and touches the entry that is deleted next; the series has no entry any more
   and stays until the process restarts or the site is requested again.
2. `metrics_bytes_read`: bytes counted between the idle check and the delete go
   unread, however long the TTL.
3. `metrics_resets`: a series that is removed and comes back may, by the next
   reading, have grown to what it was; `increase()` sees no reset and the bytes
   up to the old value are never attributed.
4. `manifest_loader_stale`: coalescing also shares *absence*; a request that
   arrives after the publish may join a read from before it.
5. `gateway_errors`: the text of a failed blob read is sent with the blob's tag
   and cache class, and may be kept as if it were the blob.

*What the properties except.* Some properties have a condition because without
it the code does not have them. The first three of these cases are in the
instances, so that the rest of each property is checked with them present:
- a `notFound` that is spelled with a leading slash. `Load` heals the keys of
  files and not this name, so a release of the historical publisher that has
  `/404.html` and names it so is answered for with the built-in page, although
  `server.go:295-296` speaks of that page for a release that "has none"
  (`OwnNotFoundDoc` speaks of a document named by its logical path);
- two spellings of one path with leading slashes (`/a` and `//a`) in one release:
  the map's order chooses one at every load, so reloads and replicas of an
  immutable release may differ (`SameReleaseSameContent` has the condition
  `OneSpelling`; `PublishedPathServed` holds of either choice);
- a project or site named `blobs`: `isBlobKey` looks for `/blobs/` anywhere in a
  key and takes its manifests for blobs, although "only blob objects are cached"
  (`cache.go:21-22`). They are immutable too and `Transparent` holds; what is
  lost is memory (`CachesWholeSmallBlobs`);
- clients that revalidate by date only: after a rollback the comparison
  "not after" (`server.go:359`) confirms content of the newer release
  (`Validators = {"date"}` and `ContentIsCurrent`);
- a stored 404 answer whose document the next release serves with 200: the 304
  leaves the client with the content but also with the status 404, which is why
  `ContentIsCurrent` speaks of content only;
- a blob whose size the bucket understates: its first bytes are cached and served
  as the whole (`Transparent`; its theorem has the hypothesis `NotUnderstated`);
- a blob without a known size that breaks off: it is sent without a
  Content-Length and looks complete (`CompleteMeansWhole` speaks of the others).

Two places in words only: `README.md:28` ("rejects `..` / absolute escape") and
`resolve.go:117-118` ("the server layer additionally rejects such inputs
defensively") speak of a rejection that the code does not make; `normalize`
neutralises such paths, which is what `ServesOwnRelease` rests on. And a release
whose keys `Load` healed has another canonical form than the one its publisher
hashed, so a check by `ReleaseSHA`, which `manifest.go:197-198` offers and nothing
in the gateway makes, would refuse it.

## 4. Proofs

Every invariant, action property and refinement that a passing run checks is
also proved with TLAPS, for all values of the constants. What is left to TLC is
liveness: `EveryRequestAnswered`, `HandlerEndsOnceClientLeaves` and
`IdleSitesEvictedUnlessRaced` rest on fairness, which is out of the prover's
reach. Each inductive invariant was checked by TLC on the instance of its run
before it was proved.

**`LruListProofs`.** What pushing to the front, moving to the front and dropping
from the back do to the keys on a list and to the sum of their sizes. The sum is
a recursively defined function; its defining equations are established first
(`SumsExist`, `SumsUnique`, `PrefixBytesIs`), everything else follows from them.
`LeastNumber` takes the place of induction in all these modules: a claim about
all numbers is proved by looking at the least one for which it fails.

**`ManifestCacheProofs`.** `TypeCorrect`, `MirrorAlways`, `BytesAlwaysAccounted`,
`AlwaysWithinBudget`. The inductive invariant is the conjunction of the four
properties: the budgets are compared with the running count, so `WithinBudget`,
which speaks of what entries really retain, needs `BytesAccounted`; that needs
`Mirror`, since a key listed twice would be counted twice; and both need the
types. The core is one lemma about `evictToBound` on any consistent list, index
and count; `refresh` and `insert` only have to deliver such a triple.
`AlwaysEvictsOnlyUnderPressure` is an action property: the loop stops at the
first length that fits, so one entry more would not have. `ImplementsLru` is the
refinement of `LruPolicy`: the list is always the front of the history of use,
so what is dropped from its back was used before all that stays.

**`BlobCacheProofs`.** `TypeCorrect`, `MirrorAlways`, `AlwaysHeldWithinBudget`,
`NeverSpinsAlways`, `ImplementsLru`, along the same lines. The loop ends because
the count is exact: with every entry dropped it would be 0, which is within any
budget.

**`ManifestLoaderProofs`.** `TypeCorrect`, `OneReadPerKeyAlways`,
`AnswersAlwaysTrue`, `LeaderAlwaysCurrent`, `AbsenceNeverContradicted`,
`WaitersAlwaysLed`, for any number of requests and keys. The invariant says that
the singleflight map and the leaders agree in both directions - hence one leader
per key - and that what a leader reads is not in the cache (`ReadsMisses`). The
latter is what the second lookup inside `Do` is for: without it a request that
missed early and leads late would read again, and the invariant fails there.
`AbsenceNeverContradicted` bounds how far the finding about stale absence goes:
since a key has one call at a time, no manifest of a release can be out while a
leader still reports the release absent. The cache's own part of the invariant is not proved again: `Sound` instantiates
`ManifestCacheProofs` with the loader's variables and its lemmas are cited.

**`CachingStoreProofs`.** `ImplementsStore`: the caching store implements the
Store it wraps (`ObjectStore`), step by step - a hit, a fill or a pass-through is
the abstract `Get`, a lookup that misses is a stutter. It needs that every
cached body is what `io.ReadFull` makes of an object that is in the bucket, tells
its size and is small enough (`CachedIsWorthy`) - the whole of it if no size is
understated, which is the hypothesis of `ImplementsStore`. It also gives
`CachesWholeSmallBlobsAlways`; `RacingAddsAlwaysAccounted` follows from the
instantiated `BlobCacheProofs`. The module ends with `main`'s settings:
`EveryEnvironmentAdmissible`, that whatever the variables hold (unset, malformed,
negative) the caches and the evictor get arguments they work with - a positive
blob budget and ceiling or no blob cache, a positive entry budget, a positive TTL
and interval or no evictor (`time.NewTicker` panics on others) - and
`OffOnlyOnRequest`, that a part is off only if its variable was set so. The first
discharges `LimitsAssumption` for the running process.

**`ServingProofs`.** `TypeCorrect`, `OwnBytesAlways`, `CompleteAlwaysWhole`,
`DeliveredAlwaysCounted`, for any number of concurrent requests, all lengths of
bodies and all sizes of buffers. The invariant
relates what a copy has read, what its buffer holds, what it has written and
what the client got; the one fact about two requests is that they have no buffer
in common (`OwnBuffers`). That a buffer can be taken at all is a counting
argument: there are no more copies than requests, and no fewer buffers.

**`MetricsProofs`.** `TypeCorrect`, `SeriesAlwaysTracked`, `BytesAlwaysRead`, for
any number of sites and workers. The argument is about time: bytes that no
reading has seen are still being counted, or the entry of their site is no older
than the last reading plus one stall (`UnreadIsRecent`), which is at most
`Window + MaxStall <= TTL`; so a site the evictor finds idle has no such bytes,
and it stays idle until it is gone unless a count overlaps (`VictimStaysIdle`),
which is what `raced` records (`OverlapIsRaced`, `OrphanIsRaced`).

**`GatewayProofs`.** All properties of the `gateway` run, for all releases and
URLs. The operators come first: what `Load` makes of a release, which file
`Resolve` names, what `serveBlob` and `serveNotFound` answer, that `parseSite`
finds the prefix and the path that the Ingress put together (`PrefixParsed`), and
what `normalize` computes: it is a recursive function, shown to exist and to
leave a logical path as it is (`NormalizeKeeps`). The first invariant says that
the manifest in memory is one that `Load` makes of the live release and that the
last answer is about a file of that release - its 404 document, if the answer is
a 404 - or is the built-in page, and then the release has no such document. From
it follow `TypeCorrect`, `ServesOwnReleaseAlways`, `OwnNotFoundDocAlways` and
`PreviewsAlwaysHidden`. The second (`Client`) is about
what a client holds: an error text, a blob with its own tag, or the built-in page
without validators (`Tagged`). A tag that matches then means that content
matches, in both directions: a 304 confirms only what the release has
(`ContentAlwaysCurrent`, `PublishedPathAlwaysServed`), and what the client has is
always confirmed (`RevalidationAlwaysCheap`). These three have the hypothesis
that the client returns entity tags (`"etag" \in Validators`): with dates alone
they are false (section 3). `PublishedPathAlwaysServed` also supposes that
published paths have no empty or dot segments but for leading slashes
(`LogicalPaths`), which the instance of the run satisfies. `ReleaseAlwaysSame`,
the action property `SameReleaseSameContent`, has no hypothesis; where spellings
of a path agree (`OneSpelling`), `Load` makes one manifest of the release
(`LoadedTwice`).

**Assumptions.** They are in the modules that declare the constants and TLC
evaluates them in every run. Sizes are natural numbers; a `CachingStore` with a
cache has a positive budget and ceiling (`LimitsAssumption`), while the manifest
cache's arguments may be any integers (`CacheAssumption`). `None` is not one of
the values it stands beside (`DistinctAssumption`, `NoneAssumption`).
`ObjectsAssumption`: keys are those of `ManifestKey` and `BlobKey`, for names of
any kind. `BuffersAssumption`: there are no fewer buffers
than requests, since `sync.Pool` makes a new one when it is empty.
`TimesAssumption`: the documented relation of TTL and window. Of the gateway:
the segments of a release prefix are not empty, request paths begin with a slash,
manifests have their six fields, and no blob's digest is one of the gateway's own
texts or `*` (`ReleasesAssumption`, `UrlsAssumption`, `PublishedAssumption`,
`ContentsAssumption`).

**What proving changed.** The bound `MaxAge` of `Metrics` could be negative with
the evictor off (a TTL below 0); it is the bound on stalls there now. `PreviewsHidden` was stated as if a blob
were HTML at all its paths or at none; it now says what holds for one that is
both. `Blobs` in `Gateway` lacked parentheses that the two tools supply
differently.

## 5. Not modelled

- JSON decoding, the sha256 function, HTTP framing, logging, the exact spelling
  of header values, GCS credentials and transport (`OpenGCS`), listeners and
  flags of `main.go`: I/O and libraries.
- `fake.go`: the in-memory store of the tests; `ObjectStore` models the
  interface it stands in for.
- `Stat` and `Exists` of the stores; `Canonical`, `ReleaseSHA` and `SortedPaths`
  of a manifest: no caller in the gateway.
- Shutdown: left to the HTTP server library; all state is in memory.
- `int64` overflow of a duration or a budget in `Settings`: a number beyond 64
  bits does not parse and counts as malformed.
- The sum of `int64` sizes overflowing: the budgets would have to hold 2^63
  bytes first.
- The value of the `Requests` counter: incremented and removed like
  `ResponseBytes`, but not billed by bytes.

## 6. Plan

The order was: the two caches and the proofs about them; the loader; the caching
store; the metrics; the gateway; then serving (the composition of handler,
loader and store), content types, and the settings; then the
proofs of section 4. What is left:

1. that `Serving` implements `ManifestLoader` and `ObjectStore` step by step, so
   that the loader's theorems carry over to it by refinement;
2. that `normalize` returns logical paths for every input, and
   `canonicalizeFileKeys` a result for every release, as theorems of their own.
