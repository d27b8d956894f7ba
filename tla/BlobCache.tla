------------------------------ MODULE BlobCache ------------------------------
(***************************************************************************)
(* blobCache (internal/blobstore/cache.go): the LRU of blob bodies, bound  *)
(* by a budget of bytes alone.  Every method runs under c.mu and is one    *)
(* action.  add's eviction loop repeats until the byte count is within the *)
(* budget, and evict does nothing on an empty list: if the count could     *)
(* ever exceed what the entries hold, the loop would spin with c.mu held   *)
(* and no other call would get in.  spinning records that.                 *)
(***************************************************************************)
EXTENDS LruList, FiniteSetsExt

CONSTANTS
    Keys,       \* storage keys
    Data,       \* byte slices
    Length,     \* len(data)
    bytesCap    \* newBlobCache's argument

ASSUME LengthAssumption == Length \in [Data -> Nat]
ASSUME BytesCapAssumption == bytesCap \in Nat \ {0}

VARIABLES
    ll,         \* the keys of the list's entries, the most recently used first
    idx,        \* key -> the data of the entry it points to
    bytes,      \* the running sum of the entries' lengths
    spinning    \* add is in its eviction loop for ever

vars == <<ll, idx, bytes, spinning>>

newBlobCache ==
    /\ ll = <<>>
    /\ idx = [k \in {} |-> 0]
    /\ bytes = 0
    /\ spinning = FALSE

Lengths(ix) == [k \in DOMAIN ix |-> Length[ix[k]]]

-----------------------------------------------------------------------------
(* Fault: evict does not give back the bytes of the entry it removes. *)
FaultStopsKeepsBytes(s, sz, b) == {n \in 0..Len(s) : b <= bytesCap}

(* The numbers of evictions after which the loop of add would stop. *)
StopsAfter(s, sz, b) == {n \in 0..Len(s) : b - BackBytes(s, sz, n) <= bytesCap}

(* The entries n calls of evict remove. *)
Victims(s, n) == {s[i] : i \in (Len(s) - n + 1)..Len(s)}

(* Fault: evict forgets delete(c.idx, e.key). *)
FaultEvictKeepsIndex(s, ix, b) ==
    LET stops == StopsAfter(s, Lengths(ix), b)
        n == IF stops = {} THEN Len(s) ELSE Min(stops)
    IN  /\ ll' = DropBack(s, n)
        /\ idx' = ix
        /\ bytes' = b - BackBytes(s, Lengths(ix), n)
        /\ spinning' = (stops = {})

(* The whole loop, on the list s, index ix and byte count b add reached. *)
evictToBudget(s, ix, b) ==
    LET stops == StopsAfter(s, Lengths(ix), b)
        n == IF stops = {} THEN Len(s) ELSE Min(stops)
    IN  /\ ll' = DropBack(s, n)
        /\ idx' = [k \in DOMAIN ix \ Victims(s, n) |-> ix[k]]
        /\ bytes' = b - BackBytes(s, Lengths(ix), n)
        /\ spinning' = (stops = {})

(* Fault: a hit does not move its entry to the front. *)
FaultGetKeepsOrder(k) ==
    /\ ~ spinning
    /\ k \in DOMAIN idx
    /\ UNCHANGED vars

(* A get that finds k; what it returns is idx[k]. *)
get(k) ==
    /\ ~ spinning
    /\ k \in DOMAIN idx
    /\ ll' = MoveToFront(ll, PositionOf(ll, k))
    /\ UNCHANGED <<idx, bytes, spinning>>

(* A get that does not. *)
getMiss(k) ==
    /\ ~ spinning
    /\ k \notin DOMAIN idx
    /\ UNCHANGED vars

(* add of a body larger than the whole budget. *)
decline(k, d) ==
    /\ ~ spinning
    /\ Length[d] > bytesCap
    /\ UNCHANGED vars

(* Faults of the refresh's accounting: the old length is not given back;   *)
(* the lengths are swapped; the count is left alone.                       *)
FaultRefreshCounts(k, d, delta) ==
    /\ ~ spinning
    /\ Length[d] <= bytesCap
    /\ k \in DOMAIN idx
    /\ evictToBudget(MoveToFront(ll, PositionOf(ll, k)),
                     [idx EXCEPT ![k] = d], bytes + delta)

FaultRefreshCountsTwice(k, d) == FaultRefreshCounts(k, d, Length[d])
FaultRefreshSwapsLengths(k, d) ==
    k \in DOMAIN idx /\ FaultRefreshCounts(k, d, Length[idx[k]] - Length[d])
FaultRefreshKeepsCount(k, d) == FaultRefreshCounts(k, d, 0)

(* add for a key that has an entry: another miss of k was faster. *)
refresh(k, d) ==
    /\ ~ spinning
    /\ Length[d] <= bytesCap
    /\ k \in DOMAIN idx
    /\ evictToBudget(MoveToFront(ll, PositionOf(ll, k)),
                     [idx EXCEPT ![k] = d],
                     bytes + (Length[d] - Length[idx[k]]))

(* add for a key that has none. *)
insert(k, d) ==
    /\ ~ spinning
    /\ Length[d] <= bytesCap
    /\ k \notin DOMAIN idx
    /\ evictToBudget(PushFront(ll, k),
                     [j \in DOMAIN idx \cup {k} |-> IF j = k THEN d ELSE idx[j]],
                     bytes + Length[d])

add(k, d) == decline(k, d) \/ refresh(k, d) \/ insert(k, d)

-----------------------------------------------------------------------------
Init == newBlobCache

Next == \E k \in Keys :
    \/ get(k)
    \/ getMiss(k)
    \/ \E d \in Data : add(k, d)

Spec == Init /\ [][Next]_vars

-----------------------------------------------------------------------------
(* The types of the fields. *)
TypeOK ==
    /\ ll \in Seq(Keys)
    /\ DOMAIN idx \subseteq Keys
    /\ idx \in [DOMAIN idx -> Data]
    /\ bytes \in Nat
    /\ spinning \in BOOLEAN

(* The list and the index describe one set of entries: an entry that is    *)
(* only in one of them would be counted and unreachable, or served and     *)
(* never evicted.                                                          *)
Mirror ==
    /\ NoDuplicates(ll)
    /\ DOMAIN idx = KeysOn(ll)

(* "exact cache accounting" (cache.go:74-76): what the resident bodies     *)
(* really occupy is what c.bytes says, and never exceeds the budget.       *)
HeldWithinBudget ==
    /\ bytes = TotalBytes(ll, Lengths(idx))
    /\ TotalBytes(ll, Lengths(idx)) <= bytesCap

(* add's eviction loop always ends, and c.mu is released. *)
NeverSpins == ~ spinning

=============================================================================
