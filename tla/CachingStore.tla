---------------------------- MODULE CachingStore ----------------------------
(***************************************************************************)
(* CachingStore (internal/blobstore/cache.go) in front of a bucket:        *)
(* concurrent calls of Get, none of which waits for another.  Two misses   *)
(* of one blob both read the bucket and both add.  The steps of a call are *)
(* cache.get, the answer of the bucket, and the end of the read of the     *)
(* body with cache.add.                                                    *)
(***************************************************************************)
EXTENDS StorageKeys, FiniteSets

CONSTANTS
    Gets,           \* callers of Get; a finished one is used again
    Objects,        \* keys of objects
    Size,           \* key -> length of the object
    Reported,       \* key -> the size its reader reports, or Unknown
    totalBytes,     \* NewCachingStore's arguments, where they enable the cache
    maxBlobBytes,
    ErrNotExist,    \* the object is absent
    ErrStore,       \* any other error of the bucket or of a read
    None

Unknown == -1       \* no Size() method, or a negative size

ASSUME SizesAssumption ==
    /\ Size \in [Objects -> Nat]
    /\ Reported \in [Objects -> Nat \cup {Unknown}]
(* Objects are manifests and blobs, of projects and sites of any name. *)
ASSUME ObjectsAssumption == \A k \in Objects :
    k \in {ManifestKey(k[2], k[3], k[5]), BlobKey(k[2], k[3], k[5])}
ASSUME DistinctAssumption ==
    /\ None \notin Objects
    /\ None \notin {ErrNotExist, ErrStore}
    /\ None \notin [key : Objects, size : Int, whole : BOOLEAN]
ASSUME LimitsAssumption == totalBytes \in Nat \ {0} /\ maxBlobBytes \in Nat \ {0}

(* make([]byte, n) where n is what the object's reader reports; it holds   *)
(* the whole object or not.  There is none for an object of unknown size.  *)
Buffers == [key : Objects, whole : BOOLEAN]
BufferLength == [d \in Buffers |-> IF Reported[d.key] = Unknown THEN 0 ELSE Reported[d.key]]

VARIABLES
    ll, idx, bytes, spinning,   \* the blob cache
    wrapped,                    \* NewCachingStore wrapped the bucket's store
    stored,                     \* the objects in the bucket
    pc, key, result             \* each call's position, argument and result

cacheVars == <<ll, idx, bytes, spinning, wrapped>>
vars == <<cacheVars, stored, pc, key, result>>

Cache == INSTANCE BlobCache WITH
    Keys <- Objects, Data <- Buffers,
    Length <- BufferLength, bytesCap <- totalBytes

(* Fault: the reader of cached bytes does not expose their number. *)
FaultMemoryReaderUnsized(d) == [key |-> d.key, size |-> Unknown, whole |-> d.whole]

(* The bucket's own reader, and newBytesReadCloser(data). *)
BucketReader(k) == [key |-> k, size |-> Reported[k], whole |-> TRUE]
MemoryReader(d) == [key |-> d.key, size |-> BufferLength[d], whole |-> d.whole]

Init ==
    /\ Cache!Init
    /\ wrapped \in BOOLEAN          \* a totalBytes of 0 disables the cache
    /\ stored \in SUBSET Objects
    /\ pc = [g \in Gets |-> "idle"]
    /\ key = [g \in Gets |-> None]
    /\ result = [g \in Gets |-> None]

-----------------------------------------------------------------------------
(* An object is written to the bucket; it never changes afterwards. *)
Upload(k) ==
    /\ k \notin stored
    /\ stored' = stored \cup {k}
    /\ UNCHANGED <<cacheVars, pc, key, result>>

Call(g, k) ==
    /\ pc[g] = "idle"
    /\ pc' = [pc EXCEPT ![g] = "start"]
    /\ key' = [key EXCEPT ![g] = k]
    /\ UNCHANGED <<cacheVars, stored, result>>

Goto(g, step) ==
    /\ pc' = [pc EXCEPT ![g] = step]
    /\ UNCHANGED <<key, result>>

Return(g, v) ==
    /\ pc' = [pc EXCEPT ![g] = "returned"]
    /\ result' = [result EXCEPT ![g] = v]
    /\ UNCHANGED key

(* Get up to its first call of the bucket. *)
Start(g) ==
    /\ pc[g] = "start"
    /\ \/ /\ ~ wrapped \/ ~ isBlobKey(key[g])
          /\ Goto(g, "pass")
          /\ UNCHANGED <<ll, idx, bytes, spinning>>
       \/ /\ wrapped /\ isBlobKey(key[g])
          /\ Cache!get(key[g])
          /\ Return(g, MemoryReader(idx[key[g]]))
       \/ /\ wrapped /\ isBlobKey(key[g])
          /\ Cache!getMiss(key[g])
          /\ Goto(g, "open")
    /\ UNCHANGED <<wrapped, stored>>

(* inner.Get finds no object. *)
Absent(g) ==
    /\ pc[g] \in {"pass", "open"}
    /\ key[g] \notin stored
    /\ Return(g, ErrNotExist)
    /\ UNCHANGED <<cacheVars, stored>>

(* inner.Get fails otherwise, a cancelled request included. *)
Fails(g) ==
    /\ pc[g] \in {"pass", "open"}
    /\ Return(g, ErrStore)
    /\ UNCHANGED <<cacheVars, stored>>

(* The object is worth a buffer: its size is known and small enough. *)
Cacheable(n) == n # Unknown /\ n <= maxBlobBytes

(* inner.Get returns a reader that Get hands on. *)
Stream(g) ==
    /\ pc[g] \in {"pass", "open"}
    /\ key[g] \in stored
    /\ pc[g] = "open" => ~ Cacheable(Reported[key[g]])
    /\ Return(g, BucketReader(key[g]))
    /\ UNCHANGED <<cacheVars, stored>>

(* inner.Get returns a reader that Get reads into a buffer. *)
Buffer(g) ==
    /\ pc[g] = "open"
    /\ key[g] \in stored
    /\ Cacheable(Reported[key[g]])
    /\ Goto(g, "fill")
    /\ UNCHANGED <<cacheVars, stored>>

(* What a filled buffer holds: the object, or as much of it as was reported. *)
FilledBuffer(k) == [key |-> k, whole |-> Reported[k] = Size[k]]

(* io.ReadFull fills the buffer, if the object has that many bytes; it is  *)
(* added and served.                                                       *)
Filled(g) ==
    LET data == FilledBuffer(key[g]) IN
    /\ pc[g] = "fill"
    /\ Reported[key[g]] <= Size[key[g]]
    /\ Cache!add(key[g], data)
    /\ Return(g, MemoryReader(data))
    /\ UNCHANGED <<wrapped, stored>>

(* Faults: the error of io.ReadFull is ignored; it is lost on return. *)
FaultShortReadCached(g) ==
    LET data == [key |-> key[g], whole |-> FALSE] IN
    /\ pc[g] = "fill"
    /\ Cache!add(key[g], data)
    /\ Return(g, MemoryReader(data))
    /\ UNCHANGED <<wrapped, stored>>

FaultShortReadNoError(g) ==
    /\ pc[g] = "fill"
    /\ Return(g, None)
    /\ UNCHANGED <<cacheVars, stored>>

(* io.ReadFull fails after a part of the body: the bucket fails, or the    *)
(* body is shorter than reported.                                          *)
ShortRead(g) ==
    /\ pc[g] = "fill"
    /\ Return(g, ErrStore)
    /\ UNCHANGED <<cacheVars, stored>>

(* The caller is done with the result. *)
Close(g) ==
    /\ pc[g] = "returned"
    /\ pc' = [pc EXCEPT ![g] = "idle"]
    /\ key' = [key EXCEPT ![g] = None]
    /\ result' = [result EXCEPT ![g] = None]
    /\ UNCHANGED <<cacheVars, stored>>

Next ==
    \/ \E k \in Objects : Upload(k)
    \/ \E g \in Gets :
        \/ \E k \in Objects : Call(g, k)
        \/ Start(g)
        \/ Absent(g)
        \/ Fails(g)
        \/ Stream(g)
        \/ Buffer(g)
        \/ Filled(g)
        \/ ShortRead(g)
        \/ Close(g)

Spec == Init /\ [][Next]_vars

-----------------------------------------------------------------------------
(* The types of the fields and of each call's local state: Get returns a   *)
(* reader or an error, never neither.                                      *)
TypeOK ==
    /\ Cache!TypeOK
    /\ wrapped \in BOOLEAN
    /\ stored \subseteq Objects
    /\ pc \in [Gets -> {"idle", "start", "pass", "open", "fill", "returned"}]
    /\ key \in [Gets -> Objects \cup {None}]
    /\ result \in [Gets -> [key : Objects, size : Int, whole : BOOLEAN]
                            \cup {ErrNotExist, ErrStore, None}]
    /\ \A g \in Gets : pc[g] = "returned" => result[g] # None

Promised == INSTANCE ObjectStore WITH asked <- key

(* The bucket reports no object as shorter than it is.  Get has no check   *)
(* for one that is longer: io.ReadFull stops at the reported size.         *)
NotUnderstated(k) == Reported[k] = Unknown \/ Reported[k] >= Size[k]

(* The cache is invisible: through it Get still does what a Store promises *)
(* - whole bodies of the right object, with the size the bucket's own      *)
(* reader would report (cache.go:104-106), and ErrNotExist for absent      *)
(* objects only - whatever reads fail or overlap, and whether it is on;    *)
(* for a bucket that understates no size.                                  *)
Transparent == Promised!Spec

(* "Blobs larger than this stream straight through and are never held in   *)
(* memory", "rather than caching a truncated blob", "Only blob objects are *)
(* cached" (cache.go:13, 77, 21): a cached body is of its own object and   *)
(* within the ceiling; it is the whole object unless the bucket understated*)
(* its size; and it is a blob unless its project or site is itself named   *)
(* "blobs" - however many calls missed and read it at once.                *)
CachesWholeSmallBlobs == \A k \in DOMAIN idx :
    /\ idx[k].key = k
    /\ NotUnderstated(k) => idx[k].whole
    /\ BufferLength[idx[k]] <= maxBlobBytes
    /\ "blobs" \notin {k[2], k[3]} => k = BlobKey(k[2], k[3], k[5])

(* Duplicate adds by racing misses keep the byte count exact, the held     *)
(* bodies within BLOB_CACHE_BYTES, and the eviction loop finite.           *)
RacingAddsAccounted ==
    /\ Cache!Mirror
    /\ Cache!HeldWithinBudget
    /\ Cache!NeverSpins

=============================================================================
