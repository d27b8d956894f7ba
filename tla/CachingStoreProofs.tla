------------------------- MODULE CachingStoreProofs -------------------------
(***************************************************************************)
(* The caching store implements the Store it wraps and caches whole, small *)
(* blobs only, for any number of concurrent Gets, all objects and limits.  *)
(***************************************************************************)
EXTENDS CachingStore, TLAPS

(* The blob cache with what is proved about it.  The history variable of   *)
(* its LRU theorem is in none of the facts used here.                      *)
Sound == INSTANCE BlobCacheProofs WITH
    Keys <- Objects, Data <- Buffers,
    Length <- BufferLength, bytesCap <- totalBytes,
    recency <- ll

-----------------------------------------------------------------------------
(* The inductive invariant: Calls, and the cache's own.                    *)

CallTypes ==
    /\ wrapped \in BOOLEAN
    /\ stored \subseteq Objects
    /\ pc \in [Gets -> {"idle", "start", "pass", "open", "fill", "returned"}]
    /\ key \in [Gets -> Objects \cup {None}]
    /\ result \in [Gets -> [key : Objects, size : Int, whole : BOOLEAN]
                            \cup {ErrNotExist, ErrStore, None}]

(* A call has a key while it runs and a result once it has returned. *)
KeyWhileRunning == \A g \in Gets : key[g] # None <=> pc[g] # "idle"
ResultOnReturn == \A g \in Gets : result[g] # None <=> pc[g] = "returned"

(* Only blobs get past the first check, and only what is in the bucket,    *)
(* has a size and is small enough is read into a buffer.                   *)
Worthy(k) ==
    /\ isBlobKey(k) /\ k \in stored
    /\ Reported[k] # Unknown /\ Reported[k] <= maxBlobBytes
MissesAreBlobs == \A g \in Gets : pc[g] = "open" => isBlobKey(key[g])
FillsAreWorthy == \A g \in Gets : pc[g] = "fill" => Worthy(key[g])

(* What is cached filled its buffer, and was worth it. *)
CachedIsWorthy == \A k \in DOMAIN idx :
    idx[k] = FilledBuffer(k) /\ Worthy(k) /\ Reported[k] <= Size[k]

Calls ==
    /\ CallTypes
    /\ KeyWhileRunning /\ ResultOnReturn
    /\ MissesAreBlobs /\ FillsAreWorthy
    /\ CachedIsWorthy

Inv == Sound!Inv /\ Calls

-----------------------------------------------------------------------------
(* The reader of a filled buffer is the bucket's own, if the buffer holds  *)
(* the whole object.                                                       *)
LEMMA Readers ==
    ASSUME NEW k \in Objects
    PROVE  LET data == FilledBuffer(k) IN
           /\ data \in Buffers
           /\ MemoryReader(data) \in [key : Objects, size : Int, whole : BOOLEAN]
           /\ BucketReader(k) \in [key : Objects, size : Int, whole : BOOLEAN]
           /\ Reported[k] # Unknown => BufferLength[data] = Reported[k]
           /\ Reported[k] # Unknown /\ Reported[k] <= Size[k] /\ NotUnderstated(k) =>
                MemoryReader(data) = BucketReader(k)
<1> DEFINE data == FilledBuffer(k)
<1>1. Size[k] \in Nat /\ Reported[k] \in Nat \cup {Unknown} /\ Reported[k] \in Int
  BY SizesAssumption DEF Unknown
<1>2. data \in Buffers /\ data.key = k /\ data.whole = (Reported[k] = Size[k])
  BY DEF FilledBuffer, Buffers
<1>3. BufferLength[data] = IF Reported[k] = Unknown THEN 0 ELSE Reported[k]
  BY <1>2 DEF BufferLength
<1>4. BufferLength[data] \in Int
  BY <1>1, <1>3
<1> HIDE DEF data
<1>5. MemoryReader(data) \in [key : Objects, size : Int, whole : BOOLEAN]
  BY <1>2, <1>4 DEF MemoryReader
<1>6. BucketReader(k) \in [key : Objects, size : Int, whole : BOOLEAN]
  BY <1>1 DEF BucketReader
<1>7. ASSUME Reported[k] # Unknown, Reported[k] <= Size[k], NotUnderstated(k)
      PROVE  MemoryReader(data) = BucketReader(k)
  <2>1. Reported[k] = Size[k]
    BY <1>1, <1>7 DEF NotUnderstated
  <2> QED BY <1>2, <1>3, <1>7, <2>1 DEF MemoryReader, BucketReader
<1> QED BY <1>2, <1>3, <1>5, <1>6, <1>7 DEF data

(* The limits the cache is made with are ones its proofs allow. *)
LEMMA CacheConstants ==
    /\ BufferLength \in [Buffers -> Nat]
    /\ totalBytes \in Nat \ {0}
BY SizesAssumption, LimitsAssumption DEF Buffers, BufferLength

(* The cache of the store is the cache the proofs are about. *)
LEMMA SameCache ==
    ASSUME NEW k
    PROVE  /\ Cache!Init <=> Sound!Init
           /\ Cache!get(k) <=> Sound!get(k)
           /\ \A d : Cache!add(k, d) <=> Sound!add(k, d)
<1> USE DEF Cache!MoveToFront, Sound!MoveToFront, Cache!PushFront, Sound!PushFront,
            Cache!PositionOf, Sound!PositionOf, Cache!DropBack, Sound!DropBack,
            Cache!BackBytes, Sound!BackBytes, Cache!TotalBytes, Sound!TotalBytes,
            Cache!PrefixBytes, Sound!PrefixBytes, Cache!Lengths, Sound!Lengths,
            Cache!Min, Sound!Min, Cache!StopsAfter, Sound!StopsAfter,
            Cache!Victims, Sound!Victims, Cache!evictToBudget, Sound!evictToBudget
<1>1. Cache!Init <=> Sound!Init
  BY DEF Cache!Init, Sound!Init, Cache!newBlobCache, Sound!newBlobCache
<1>2. Cache!get(k) <=> Sound!get(k)
  BY DEF Cache!get, Sound!get
<1>3. ASSUME NEW d PROVE Cache!add(k, d) <=> Sound!add(k, d)
  BY DEF Cache!add, Sound!add, Cache!decline, Sound!decline, Cache!vars, Sound!vars,
         Cache!refresh, Sound!refresh, Cache!insert, Sound!insert
<1> QED BY <1>1, <1>2, <1>3

(* A new cache is consistent; steps that do not touch it, and lookups,     *)
(* keep it so and its index as it is; an add leaves entries as they were.  *)
LEMMA CacheInit == Cache!Init => Sound!Inv
BY CacheConstants, SameCache, Sound!InitInv

(* Steps that do not touch the cache keep it consistent. *)
LEMMA CacheStays == ASSUME Sound!Inv, UNCHANGED <<ll, idx, bytes, spinning>> PROVE Sound!Inv'
BY CacheConstants, Sound!NextInv DEF Sound!vars

(* So does a hit, which leaves the index as it is. *)
LEMMA CacheGet ==
    ASSUME Sound!Inv, NEW k \in Objects, Cache!get(k)
    PROVE  Sound!Inv' /\ idx' = idx /\ k \in DOMAIN idx
<1>1. Sound!Inv'
  BY CacheConstants, SameCache, Sound!GetInv
<1> QED BY <1>1 DEF Cache!get

(* So does an add; entries stay, go, or are what was added. *)
LEMMA CacheAdd ==
    ASSUME Sound!Inv, NEW k \in Objects, NEW d \in Buffers, Cache!add(k, d)
    PROVE  /\ Sound!Inv'
           /\ \A j \in DOMAIN idx' :
                (j \in DOMAIN idx /\ idx'[j] = idx[j]) \/ (j = k /\ idx'[j] = d)
<1>1. Sound!add(k, d)
  BY SameCache
<1>2. Sound!Inv'
  BY <1>1, CacheConstants, Sound!AddInv
<1> QED BY <1>1, <1>2, CacheConstants, Sound!AddContents

-----------------------------------------------------------------------------
(* The initial states satisfy the invariant. *)
LEMMA InitInv == Init => Inv
<1> SUFFICES ASSUME Init PROVE Inv
  OBVIOUS
<1>1. Sound!Inv
  BY CacheInit DEF Init
<1>2. DOMAIN idx = {}
  BY DEF Init, Cache!Init, Cache!newBlobCache
<1> QED BY <1>1, <1>2
  DEF Init, Inv, Calls, CallTypes, KeyWhileRunning, ResultOnReturn, MissesAreBlobs,
      FillsAreWorthy, CachedIsWorthy

(* Uploads, and the steps of a call outside the cache. *)
LEMMA BucketInv ==
    ASSUME Inv,
           \/ \E k \in Objects : Upload(k)
           \/ \E g \in Gets : \/ \E k \in Objects : Call(g, k)
                              \/ Absent(g) \/ Fails(g) \/ Stream(g) \/ Buffer(g)
                              \/ ShortRead(g) \/ Close(g)
    PROVE  Inv'
<1>1. UNCHANGED cacheVars
  BY DEF Upload, Call, Absent, Fails, Stream, Buffer, ShortRead, Close
<1>2. Sound!Inv'
  BY <1>1, CacheStays DEF Inv, cacheVars
<1> USE DistinctAssumption
    DEF Inv, Calls, CallTypes, KeyWhileRunning, ResultOnReturn, MissesAreBlobs,
        FillsAreWorthy, CachedIsWorthy, Worthy, cacheVars, Goto, Return
<1>3. ASSUME NEW k \in Objects, Upload(k) PROVE Inv'
  BY <1>2, <1>3 DEF Upload
<1>4. ASSUME NEW g \in Gets, NEW k \in Objects, Call(g, k) PROVE Inv'
  BY <1>2, <1>4 DEF Call
<1>5. ASSUME NEW g \in Gets, Absent(g) \/ Fails(g) \/ ShortRead(g) PROVE Inv'
  BY <1>2, <1>5 DEF Absent, Fails, ShortRead
<1>6. ASSUME NEW g \in Gets, Stream(g) PROVE Inv'
  BY <1>2, <1>6, Readers DEF Stream
<1>7. ASSUME NEW g \in Gets, Buffer(g) PROVE Inv'
  BY <1>2, <1>7, SizesAssumption DEF Buffer, Cacheable
<1>8. ASSUME NEW g \in Gets, Close(g) PROVE Inv'
  BY <1>2, <1>8 DEF Close
<1> QED BY <1>3, <1>4, <1>5, <1>6, <1>7, <1>8

(* The lookup: a hit returns the cached body, a miss is of a blob. *)
LEMMA StartInv == ASSUME Inv, NEW g \in Gets, Start(g) PROVE Inv'
<1>1. key[g] \in Objects
  BY DEF Start, Inv, Calls, CallTypes, KeyWhileRunning
<1> USE DistinctAssumption
    DEF Inv, Calls, CallTypes, KeyWhileRunning, ResultOnReturn, MissesAreBlobs,
        FillsAreWorthy, CachedIsWorthy, Worthy, Goto, Return, Start
<1>2. CASE Cache!get(key[g]) /\ Return(g, MemoryReader(idx[key[g]]))
  <2>1. Sound!Inv' /\ idx' = idx /\ key[g] \in DOMAIN idx
    BY <1>1, <1>2, CacheGet
  <2>2. idx[key[g]] = FilledBuffer(key[g])
    BY <2>1
  <2>3. MemoryReader(idx[key[g]]) \in [key : Objects, size : Int, whole : BOOLEAN]
    BY <1>1, <2>2, Readers
  <2> QED BY <1>1, <1>2, <2>1, <2>3
<1>3. CASE /\ UNCHANGED <<ll, idx, bytes, spinning>>
           /\ Goto(g, "pass") \/ (isBlobKey(key[g]) /\ Goto(g, "open"))
  <2>1. Sound!Inv'
    BY <1>3, CacheStays
  <2> QED BY <1>1, <1>3, <2>1
<1> QED BY <1>2, <1>3 DEF Cache!getMiss, Cache!vars

(* A filled buffer is added: it was worth it, and racing fills of the same *)
(* key are no different.                                                   *)
LEMMA FilledInv == ASSUME Inv, NEW g \in Gets, Filled(g) PROVE Inv'
<1> DEFINE data == FilledBuffer(key[g])
<1>1. key[g] \in Objects /\ Worthy(key[g]) /\ Reported[key[g]] <= Size[key[g]]
  BY DEF Filled, Inv, Calls, CallTypes, KeyWhileRunning, FillsAreWorthy
<1>2. data \in Buffers
  BY <1>1, Readers
<1>3. /\ Sound!Inv'
      /\ \A j \in DOMAIN idx' :
           (j \in DOMAIN idx /\ idx'[j] = idx[j]) \/ (j = key[g] /\ idx'[j] = data)
  BY <1>1, <1>2, CacheAdd DEF Filled, Inv
<1>4. CachedIsWorthy'
  BY <1>1, <1>3 DEF Filled, Inv, Calls, CachedIsWorthy, Worthy
<1>5. MemoryReader(data) \in [key : Objects, size : Int, whole : BOOLEAN]
  BY <1>1, Readers
<1> QED BY <1>1, <1>3, <1>4, <1>5, DistinctAssumption
  DEF Filled, Return, Inv, Calls, CallTypes, KeyWhileRunning, ResultOnReturn,
      MissesAreBlobs, FillsAreWorthy, Worthy

(* Every step preserves the invariant. *)
LEMMA NextInv == Inv /\ [Next]_vars => Inv'
<1> SUFFICES ASSUME Inv, [Next]_vars PROVE Inv'
  OBVIOUS
<1>1. CASE Next
  BY <1>1, BucketInv, StartInv, FilledInv DEF Next
<1>2. CASE UNCHANGED vars
  <2>1. Sound!Inv'
    BY <1>2, CacheStays DEF Inv, vars, cacheVars
  <2> QED BY <1>2, <2>1
    DEF vars, cacheVars, Inv, Calls, CallTypes, KeyWhileRunning, ResultOnReturn,
        MissesAreBlobs, FillsAreWorthy, CachedIsWorthy, Worthy
<1> QED BY <1>1, <1>2

(* The inductive invariant holds throughout (cache.go:41-87, 115-185). *)
THEOREM Invariance == Spec => []Inv
<1> QED BY InitInv, NextInv, PTL DEF Spec

-----------------------------------------------------------------------------
(* What a step of the caching store is to a caller of Get. *)
LEMMA StepImplements ==
    ASSUME \A k \in Objects : NotUnderstated(k)
    PROVE  Inv /\ [Next]_vars => [Promised!Next]_<<stored, key, result>>
<1> SUFFICES ASSUME Inv, [Next]_vars
             PROVE  Promised!Next \/ UNCHANGED <<stored, key, result>>
  OBVIOUS
<1> USE DEF Inv, Calls, CallTypes, KeyWhileRunning, ResultOnReturn
(* A step that returns v, which the Store may answer, answers it. *)
<1>1. ASSUME NEW g \in Gets, NEW v, pc[g] \notin {"idle", "returned"}, Return(g, v),
             UNCHANGED stored,
             v \in {ErrStore} \cup
                   (IF key[g] \in stored THEN {BucketReader(key[g])} ELSE {ErrNotExist})
      PROVE  Promised!Next
  <2>1. Promised!Answer(g)
    BY <1>1 DEF Promised!Answer, Promised!Reader, BucketReader, Return
  <2> QED BY <2>1 DEF Promised!Next
<1>2. ASSUME NEW k \in Objects, Upload(k) PROVE Promised!Next
  BY <1>2 DEF Upload, Promised!Next, Promised!Upload
<1>3. ASSUME NEW g \in Gets, NEW k \in Objects, Call(g, k) PROVE Promised!Next
  BY <1>3 DEF Call, Promised!Next, Promised!Ask
<1>4. ASSUME NEW g \in Gets, Start(g)
      PROVE  Promised!Next \/ UNCHANGED <<stored, key, result>>
  <2>1. CASE Cache!get(key[g]) /\ Return(g, MemoryReader(idx[key[g]]))
    <3>1. key[g] \in Objects /\ key[g] \in DOMAIN idx
      BY <1>4, <2>1 DEF Start, Cache!get
    <3>2. /\ idx[key[g]] = FilledBuffer(key[g])
          /\ Worthy(key[g]) /\ Reported[key[g]] <= Size[key[g]]
      BY <3>1 DEF CachedIsWorthy
    <3>3. MemoryReader(idx[key[g]]) = BucketReader(key[g]) /\ key[g] \in stored
      BY <3>1, <3>2, Readers DEF Worthy
    <3> QED BY <1>1, <1>4, <2>1, <3>3 DEF Start
  <2> QED BY <1>4, <2>1 DEF Start, Goto
<1>5. ASSUME NEW g \in Gets, Absent(g) \/ Fails(g) \/ Stream(g) \/ ShortRead(g)
      PROVE  Promised!Next
  BY <1>1, <1>5 DEF Absent, Fails, Stream, ShortRead
<1>6. ASSUME NEW g \in Gets, Filled(g) PROVE Promised!Next
  <2> DEFINE data == FilledBuffer(key[g])
  <2>1. key[g] \in Objects /\ Worthy(key[g]) /\ Reported[key[g]] <= Size[key[g]]
    BY <1>6 DEF Filled, FillsAreWorthy
  <2>2. MemoryReader(data) = BucketReader(key[g]) /\ key[g] \in stored
    BY <2>1, Readers DEF Worthy
  <2> QED BY <1>1, <1>6, <2>2 DEF Filled
<1>7. ASSUME NEW g \in Gets, Close(g) PROVE Promised!Next
  BY <1>7 DEF Close, Promised!Next, Promised!Close
<1>8. ASSUME NEW g \in Gets, Buffer(g) PROVE UNCHANGED <<stored, key, result>>
  BY <1>8 DEF Buffer, Goto
<1> QED BY <1>2, <1>3, <1>4, <1>5, <1>6, <1>7, <1>8 DEF Next, vars

(* CachingStore.Get does what the Store it wraps promises: with the cache  *)
(* on or off, through racing misses, evictions and failing reads, no       *)
(* caller can tell it from the bucket (cache.go:55-87) - if the bucket     *)
(* reports no object as shorter than it is, which Get does not check.      *)
THEOREM ImplementsStore ==
    ASSUME \A k \in Objects : NotUnderstated(k)
    PROVE  Spec => Transparent
<1>1. Init => Promised!Init
  BY DEF Init, Promised!Init
<1> QED BY <1>1, Invariance, StepImplements, PTL DEF Spec, Transparent, Promised!Spec

(* The types of the cache and of every call's state (cache.go:41-87). *)
THEOREM TypeCorrect == Spec => []TypeOK
<1>1. Inv => TypeOK
  BY DEF Inv, Calls, CallTypes, ResultOnReturn, TypeOK,
         Cache!TypeOK, Sound!Inv, Sound!TypeOK
<1> QED BY <1>1, Invariance, PTL

(* Every cached body is of its own object and within the ceiling, the      *)
(* whole of it unless its size was understated, and a blob unless its      *)
(* project or site is named "blobs" (cache.go:66-85, 101), however many    *)
(* calls read and add it at once.                                          *)
THEOREM CachesWholeSmallBlobsAlways == Spec => []CachesWholeSmallBlobs
<1>1. ASSUME NEW k \in Objects, isBlobKey(k), "blobs" \notin {k[2], k[3]}
      PROVE  k = BlobKey(k[2], k[3], k[5])
  <2>1. CASE k = ManifestKey(k[2], k[3], k[5])
    <3>1. Len(k) = 5 /\ k[1] = "sites" /\ k[4] = "releases"
      BY <2>1 DEF ManifestKey
    <3>2. PICK i \in 2..4 : k[i] = "blobs"
      BY <1>1, <3>1 DEF isBlobKey
    <3> QED BY <1>1, <3>1, <3>2
  <2> QED BY <2>1, ObjectsAssumption
<1>2. ASSUME Inv, NEW k \in DOMAIN idx
      PROVE  /\ idx[k].key = k
             /\ NotUnderstated(k) => idx[k].whole
             /\ BufferLength[idx[k]] <= maxBlobBytes
             /\ "blobs" \notin {k[2], k[3]} => k = BlobKey(k[2], k[3], k[5])
  <2>1. k \in Objects
    BY <1>2 DEF Inv, Sound!Inv, Sound!TypeOK
  <2>2. idx[k] = FilledBuffer(k) /\ Worthy(k) /\ Reported[k] <= Size[k]
    BY <1>2 DEF Inv, Calls, CachedIsWorthy
  <2>3. NotUnderstated(k) => Reported[k] = Size[k]
    BY <2>1, <2>2, SizesAssumption DEF Worthy, NotUnderstated
  <2>4. BufferLength[idx[k]] = Reported[k]
    BY <2>1, <2>2, Readers DEF Worthy
  <2>5. idx[k].key = k /\ (NotUnderstated(k) => idx[k].whole)
    <3>1. idx[k].key = k
      BY <2>2 DEF FilledBuffer
    <3>2. idx[k].whole = (Reported[k] = Size[k])
      BY <2>2 DEF FilledBuffer
    <3> QED BY <2>3, <3>1, <3>2, Zenon
  <2>6. BufferLength[idx[k]] <= maxBlobBytes /\ isBlobKey(k)
    BY <2>2, <2>4 DEF Worthy
  <2> QED BY <1>1, <2>1, <2>5, <2>6
<1>3. Inv => CachesWholeSmallBlobs
  BY <1>2 DEF CachesWholeSmallBlobs
<1> QED BY <1>3, Invariance, PTL

(* Racing adds of one blob keep the cache's accounting exact and its       *)
(* eviction loop finite (cache.go:85, 154-174).                            *)
THEOREM RacingAddsAlwaysAccounted == Spec => []RacingAddsAccounted
<1>1. Inv => RacingAddsAccounted
  BY DEF Inv, RacingAddsAccounted, Sound!Inv,
         Cache!Mirror, Sound!Mirror, Cache!NoDuplicates, Sound!NoDuplicates,
         Cache!KeysOn, Sound!KeysOn, Cache!HeldWithinBudget, Sound!HeldWithinBudget,
         Cache!TotalBytes, Sound!TotalBytes, Cache!PrefixBytes, Sound!PrefixBytes,
         Cache!Lengths, Sound!Lengths, Cache!NeverSpins, Sound!NeverSpins
<1> QED BY <1>1, Invariance, PTL

-----------------------------------------------------------------------------
(* What main gives the store it builds, and the other components. *)
Wiring == INSTANCE Settings

(* Every environment - variables unset, malformed, zero, negative - gives  *)
(* the components admissible arguments.                                    *)
THEOREM EveryEnvironmentAdmissible ==
    \A env \in [Wiring!Variables -> Wiring!Values] : Wiring!Admissible(Wiring!main(env))
<1> SUFFICES ASSUME NEW env \in [Wiring!Variables -> Wiring!Values]
             PROVE  Wiring!Admissible(Wiring!main(env))
    OBVIOUS
<1>1. /\ env["BLOB_CACHE_BYTES"].n \in Int
      /\ env["MANIFEST_CACHE_BYTES"].n \in Int
      /\ env["METRICS_TTL"].n \in Int
      /\ env["METRICS_SWEEP_INTERVAL"].n \in Int
    BY DEF Wiring!Variables, Wiring!Values
<1>2. Wiring!main(env).store.on =>
          Wiring!main(env).store.totalBytes > 0 /\ Wiring!main(env).store.maxBlobBytes > 0
    BY <1>1 DEF Wiring!main, Wiring!NewCachingStore, Wiring!getenvInt64, Wiring!Off,
                Wiring!defaultBlobCacheBytes, Wiring!DefaultMaxCacheableBlobBytes
<1>3. Wiring!main(env).manifests.cap > 1 /\ Wiring!main(env).manifests.bytesCap >= 0
    BY <1>1 DEF Wiring!main, Wiring!New, Wiring!getenvInt64, Wiring!DefaultManifestCacheCap,
                Wiring!defaultManifestCacheBytes
<1>4. Wiring!main(env).evictor.on =>
          Wiring!main(env).evictor.ttl > 0 /\ Wiring!main(env).evictor.interval > 0
    BY <1>1 DEF Wiring!main, Wiring!StartEvictor, Wiring!getenvDuration, Wiring!Off, Wiring!Hour
<1> QED
    BY <1>2, <1>3, <1>4 DEF Wiring!Admissible

(* "0 disables it" (main.go:32), "METRICS_TTL=0 disables eviction"         *)
(* (main.go:94-95): a cache or the evictor is off only if its variable was *)
(* set to a number that says so; nothing malformed turns it off.           *)
THEOREM OffOnlyOnRequest ==
    \A env \in [Wiring!Variables -> Wiring!Values] :
        /\ ~ Wiring!main(env).store.on =>
             env["BLOB_CACHE_BYTES"].set /\ env["BLOB_CACHE_BYTES"].n = 0
        /\ ~ Wiring!main(env).evictor.on =>
             env["METRICS_TTL"].set /\ env["METRICS_TTL"].ok /\ env["METRICS_TTL"].n <= 0
<1> SUFFICES ASSUME NEW env \in [Wiring!Variables -> Wiring!Values]
             PROVE  /\ ~ Wiring!main(env).store.on =>
                         env["BLOB_CACHE_BYTES"].set /\ env["BLOB_CACHE_BYTES"].n = 0
                    /\ ~ Wiring!main(env).evictor.on =>
                         /\ env["METRICS_TTL"].set /\ env["METRICS_TTL"].ok
                         /\ env["METRICS_TTL"].n <= 0
    OBVIOUS
<1>1. env["BLOB_CACHE_BYTES"].n \in Int /\ env["METRICS_TTL"].n \in Int
    BY DEF Wiring!Variables, Wiring!Values
<1>2. ~ Wiring!main(env).store.on =>
          env["BLOB_CACHE_BYTES"].set /\ env["BLOB_CACHE_BYTES"].n = 0
    BY <1>1 DEF Wiring!main, Wiring!NewCachingStore, Wiring!getenvInt64, Wiring!Off,
                Wiring!defaultBlobCacheBytes
<1>3. ~ Wiring!main(env).evictor.on =>
          env["METRICS_TTL"].set /\ env["METRICS_TTL"].ok /\ env["METRICS_TTL"].n <= 0
    BY <1>1 DEF Wiring!main, Wiring!StartEvictor, Wiring!getenvDuration, Wiring!Off, Wiring!Hour
<1> QED
    BY <1>2, <1>3

=============================================================================
