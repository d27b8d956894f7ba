---------------------------- MODULE ManifestCache ----------------------------
(***************************************************************************)
(* manifestCache (internal/server/cache.go): the LRU of parsed manifests,  *)
(* bounded by an entry count and by a budget of approximate bytes.  Every  *)
(* method holds c.mu from its first to its last access, so each is one     *)
(* action.  A manifest is a model value with a size; what is in it does    *)
(* not concern the cache.                                                  *)
(***************************************************************************)
EXTENDS LruList, FiniteSetsExt

CONSTANTS
    Keys,           \* storage keys
    Manifests,      \* parsed manifests
    ApproxSize,     \* m.ApproxSize() for every manifest m
    Capacity,       \* newManifestCache's arguments, as configured: any
    BytesCapacity   \*   integers

ASSUME SizeAssumption == ApproxSize \in [Manifests -> Nat]
ASSUME BudgetAssumption == Capacity \in Int /\ BytesCapacity \in Int

VARIABLES
    ll,     \* the keys of the list's entries, the most recently used first
    idx,    \* key -> the entry it points to, less its key
    bytes   \* the running sum of the entries' sizes

vars == <<ll, idx, bytes>>

Entry == [m : Manifests, size : Nat]

(* The budgets newManifestCache settles on; bytesCap = 0 is no byte bound. *)
cap == IF Capacity < 1 THEN 1 ELSE Capacity
bytesCap == IF BytesCapacity < 0 THEN 0 ELSE BytesCapacity

newManifestCache ==
    /\ ll = <<>>
    /\ idx = [k \in {} |-> 0]
    /\ bytes = 0

Sizes(ix) == [k \in DOMAIN ix |-> ix[k].size]

-----------------------------------------------------------------------------
(* Fault: an entry-count budget that is full counts as exceeded. *)
FaultOverBudgetWhenFull(len, b) ==
    /\ len > 1
    /\ len >= cap \/ (bytesCap > 0 /\ b > bytesCap)

(* evictToBound's loop condition for a list of len entries and b bytes. *)
OverBudget(len, b) ==
    /\ len > 1
    /\ len > cap \/ (bytesCap > 0 /\ b > bytesCap)

(* The number of iterations that loop makes: the first n at which its      *)
(* condition fails, n entries having been dropped from the back.           *)
Evictions(s, sz, b) ==
    Min({n \in 0..Len(s) : ~ OverBudget(Len(s) - n, b - BackBytes(s, sz, n))})

(* The entries n calls of evict remove. *)
Victims(s, n) == {s[i] : i \in (Len(s) - n + 1)..Len(s)}

(* Fault: evict forgets delete(c.idx, e.key). *)
FaultEvictKeepsIndex(s, ix, b) ==
    LET n == Evictions(s, Sizes(ix), b) IN
    /\ ll' = DropBack(s, n)
    /\ idx' = ix
    /\ bytes' = b - BackBytes(s, Sizes(ix), n)

(* evictToBound applied to the list s, index ix and byte count b that a    *)
(* method has reached: every iteration's evict, up to the last.            *)
evictToBound(s, ix, b) ==
    LET n == Evictions(s, Sizes(ix), b) IN
    /\ ll' = DropBack(s, n)
    /\ idx' = [k \in DOMAIN ix \ Victims(s, n) |-> ix[k]]
    /\ bytes' = b - BackBytes(s, Sizes(ix), n)

(* Fault: a hit does not move its entry to the front. *)
FaultGetKeepsOrder(k) ==
    /\ k \in DOMAIN idx
    /\ UNCHANGED vars

(* A get that finds k; what it returns is idx[k].m. *)
get(k) ==
    /\ k \in DOMAIN idx
    /\ ll' = MoveToFront(ll, PositionOf(ll, k))
    /\ UNCHANGED <<idx, bytes>>

(* A get that does not. *)
getMiss(k) ==
    /\ k \notin DOMAIN idx
    /\ UNCHANGED vars

(* Faults of the refresh: the old size is not given back; the entry keeps  *)
(* the difference of the sizes; the budgets are not enforced.              *)
FaultRefreshCountsTwice(k, m) ==
    /\ k \in DOMAIN idx
    /\ evictToBound(MoveToFront(ll, PositionOf(ll, k)),
                    [idx EXCEPT ![k] = [m |-> m, size |-> ApproxSize[m]]],
                    bytes + ApproxSize[m])

FaultRefreshStoresDelta(k, m) ==
    /\ k \in DOMAIN idx
    /\ evictToBound(MoveToFront(ll, PositionOf(ll, k)),
                    [idx EXCEPT ![k] = [m |-> m, size |-> ApproxSize[m] - @.size]],
                    bytes + (ApproxSize[m] - idx[k].size))

FaultRefreshUnbounded(k, m) ==
    /\ k \in DOMAIN idx
    /\ ll' = MoveToFront(ll, PositionOf(ll, k))
    /\ idx' = [idx EXCEPT ![k] = [m |-> m, size |-> ApproxSize[m]]]
    /\ bytes' = bytes + (ApproxSize[m] - idx[k].size)

(* add for a key that has an entry. *)
refresh(k, m) ==
    /\ k \in DOMAIN idx
    /\ evictToBound(MoveToFront(ll, PositionOf(ll, k)),
                    [idx EXCEPT ![k] = [m |-> m, size |-> ApproxSize[m]]],
                    bytes + (ApproxSize[m] - idx[k].size))

(* add for a key that has none. *)
insert(k, m) ==
    /\ k \notin DOMAIN idx
    /\ evictToBound(PushFront(ll, k),
                    [j \in DOMAIN idx \cup {k} |->
                        IF j = k THEN [m |-> m, size |-> ApproxSize[m]] ELSE idx[j]],
                    bytes + ApproxSize[m])

add(k, m) == refresh(k, m) \/ insert(k, m)

-----------------------------------------------------------------------------
Init == newManifestCache

Next == \E k \in Keys :
    \/ get(k)
    \/ getMiss(k)
    \/ \E m \in Manifests : add(k, m)

Spec == Init /\ [][Next]_vars

-----------------------------------------------------------------------------
(* The types of the three fields. *)
TypeOK ==
    /\ ll \in Seq(Keys)
    /\ DOMAIN idx \subseteq Keys
    /\ idx \in [DOMAIN idx -> Entry]
    /\ bytes \in Int

(* The list and the index describe one set of entries: an entry dropped    *)
(* from one of them only would be unreachable but counted, or served from  *)
(* the index while it is gone from the list and can never be evicted.      *)
Mirror ==
    /\ NoDuplicates(ll)
    /\ DOMAIN idx = KeysOn(ll)

(* c.bytes is the sum of the resident entries' sizes, through refreshes    *)
(* that change an entry's size and through evictions.                      *)
BytesAccounted == bytes = TotalBytes(ll, Sizes(idx))

(* Between calls the cache is within both budgets, counting what the       *)
(* resident entries really retain; only a lone entry may exceed the byte   *)
(* budget.                                                                 *)
WithinBudget ==
    /\ Len(ll) <= cap
    /\ Len(ll) > 1 /\ bytesCap > 0 => TotalBytes(ll, Sizes(idx)) <= bytesCap

(* What the step evicts is no more than the budgets demand: with the most  *)
(* recently used of the evicted entries put back, one of them would be     *)
(* exceeded.                                                               *)
EvictedUnderPressure ==
    LET gone == {i \in 1..Len(ll) : ll[i] \notin DOMAIN idx'}
    IN  gone # {} =>
          \E i \in gone :
             /\ \A j \in gone : i <= j
             /\ \/ Len(ll') + 1 > cap
                \/ bytesCap > 0 /\ bytes' + idx[ll[i]].size > bytesCap

(* Eviction stops as soon as both budgets hold.  (An entry dropped too     *)
(* many costs an origin read.)                                             *)
EvictsOnlyUnderPressure == [][EvictedUnderPressure]_vars

=============================================================================
