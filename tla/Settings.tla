------------------------------ MODULE Settings ------------------------------
(***************************************************************************)
(* How main (main.go) turns its environment into the arguments of the      *)
(* caches and of the evictor, and the defaults their constructors put in.  *)
(*                                                                         *)
(* The value of a variable is what the parser makes of it: whether it is   *)
(* set, whether it parses (a number beyond 64 bits does not), and the      *)
(* number, which may be negative.  Durations are in nanoseconds.           *)
(***************************************************************************)
EXTENDS Integers

Variables == {"BLOB_CACHE_BYTES", "MANIFEST_CACHE_BYTES",
              "METRICS_TTL", "METRICS_SWEEP_INTERVAL"}
Values == [set : BOOLEAN, ok : BOOLEAN, n : Int]

Hour == 3600 * 1000000000
defaultManifestCacheBytes == 256 * 1048576
defaultBlobCacheBytes == 128 * 1048576
DefaultMaxCacheableBlobBytes == 1048576
DefaultManifestCacheCap == 1024

getenvInt64(v, def) == IF v.set /\ v.ok /\ v.n >= 0 THEN v.n ELSE def

getenvDuration(v, def) == IF v.set /\ v.ok THEN v.n ELSE def

Off == [on |-> FALSE]

(* The store main serves from: the bucket's own, or a CachingStore. *)
NewCachingStore(totalBytes, maxBlobBytes) ==
    IF totalBytes <= 0 THEN Off
    ELSE [on |-> TRUE, totalBytes |-> totalBytes,
          maxBlobBytes |-> IF maxBlobBytes <= 0 THEN DefaultMaxCacheableBlobBytes
                                                ELSE maxBlobBytes]

(* server.New's manifest cache. *)
New(manifestCacheCap, manifestCacheBytes) ==
    [cap |-> IF manifestCacheCap <= 0 THEN DefaultManifestCacheCap ELSE manifestCacheCap,
     bytesCap |-> manifestCacheBytes]

StartEvictor(ttl, interval) ==
    IF ttl <= 0 THEN Off
    ELSE [on |-> TRUE, ttl |-> ttl, interval |-> IF interval <= 0 THEN Hour ELSE interval]

(* main leaves ManifestCacheCap at its zero value. *)
main(env) ==
    [store |-> NewCachingStore(getenvInt64(env["BLOB_CACHE_BYTES"], defaultBlobCacheBytes),
                               DefaultMaxCacheableBlobBytes),
     manifests |-> New(0, getenvInt64(env["MANIFEST_CACHE_BYTES"], defaultManifestCacheBytes)),
     evictor |-> StartEvictor(getenvDuration(env["METRICS_TTL"], 48 * Hour),
                              getenvDuration(env["METRICS_SWEEP_INTERVAL"], Hour))]

-----------------------------------------------------------------------------
(* What the components take for granted: a CachingStore has a budget and a *)
(* ceiling (CachingStore!LimitsAssumption), the manifest cache holds more  *)
(* than one entry and has no negative byte bound, and the evictor has a    *)
(* TTL, and an interval on which time.NewTicker does not panic.            *)
Admissible(c) ==
    /\ c.store.on => c.store.totalBytes > 0 /\ c.store.maxBlobBytes > 0
    /\ c.manifests.cap > 1 /\ c.manifests.bytesCap >= 0
    /\ c.evictor.on => c.evictor.ttl > 0 /\ c.evictor.interval > 0

=============================================================================
