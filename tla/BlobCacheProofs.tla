--------------------------- MODULE BlobCacheProofs ---------------------------
(***************************************************************************)
(* The blob cache counts exactly the bytes it holds, holds no more than    *)
(* its budget, and its eviction loop always ends, for every set of keys,   *)
(* all bodies and every budget.                                            *)
(***************************************************************************)
EXTENDS BlobCacheLru, LruListProofs

(* The inductive invariant.  That the loop ends needs the exact count: an  *)
(* emptied list must leave a count of zero.                                *)
Inv == TypeOK /\ Mirror /\ HeldWithinBudget /\ NeverSpins

(* The lengths of the entries of a list that mirrors an index. *)
LEMMA LengthsNat ==
    ASSUME NEW s, NEW ix, ix \in [DOMAIN ix -> Data], DOMAIN ix = KeysOn(s),
           NEW i \in 1..Len(s)
    PROVE  s[i] \in DOMAIN ix /\ Lengths(ix)[s[i]] = Length[ix[s[i]]]
                              /\ Lengths(ix)[s[i]] \in Nat
BY LengthAssumption DEF Lengths, KeysOn

(* A list with its index and its count, before add's eviction loop:        *)
(* consistent, but perhaps over the budget.                                *)
Consistent(s, ix, b) ==
    /\ s \in Seq(Keys)
    /\ NoDuplicates(s)
    /\ DOMAIN ix = KeysOn(s)
    /\ ix \in [DOMAIN ix -> Data]
    /\ b = TotalBytes(s, Lengths(ix))

(* The eviction loop of add ends, within the budget, and restores the      *)
(* invariant from a consistent, perhaps overfull, cache.                   *)
LEMMA EvictToBudgetInv ==
    ASSUME NEW s, NEW ix, NEW b, Consistent(s, ix, b), evictToBudget(s, ix, b)
    PROVE  Inv'
<1> DEFINE sz == Lengths(ix)
           stops == StopsAfter(s, sz, b)
<1> USE DEF Consistent
<1>1. Len(s) \in Nat /\ \A j \in 1..Len(s) : sz[s[j]] \in Nat
  BY LengthsNat
<1>2. TotalBytes(s, sz) \in Nat
  BY <1>1, TotalBytesType
<1>3. Len(s) \in stops
  <2>1. PrefixBytes(s, sz)[0] = 0
    BY <1>1, PrefixBytesSums DEF Sums
  <2>2. Len(s) - Len(s) = 0 /\ Len(s) \in 0..Len(s)
    BY <1>1
  <2>3. BackBytes(s, sz, Len(s)) = TotalBytes(s, sz)
    BY <1>2, <2>1, <2>2 DEF BackBytes
  <2>4. b - BackBytes(s, sz, Len(s)) <= bytesCap
    BY <1>2, <2>3, BytesCapAssumption
  <2> QED BY <2>2, <2>4 DEF StopsAfter
<1> DEFINE n == Min(stops)
<1>4. n \in stops
  <2>1. stops \subseteq Nat /\ stops # {}
    BY <1>3 DEF StopsAfter
  <2> HIDE DEF stops
  <2>2. \E x \in stops : \A y \in stops : x <= y
    BY <2>1, LeastNumber
  <2> QED BY <2>2 DEF Min
<1>5. n \in 0..Len(s) /\ b - BackBytes(s, sz, n) <= bytesCap
  BY <1>4 DEF StopsAfter
<1>6. /\ ll' = DropBack(s, n)
      /\ idx' = [k \in DOMAIN ix \ Victims(s, n) |-> ix[k]]
      /\ bytes' = b - BackBytes(s, sz, n)
      /\ spinning' = FALSE
  BY <1>3 DEF evictToBudget
<1> HIDE DEF n, stops
<1>7. ll' \in Seq(Keys) /\ Len(ll') = Len(s) - n
  BY <1>5, <1>6, DropBackList
<1>8. NoDuplicates(ll') /\ KeysOn(ll') = KeysOn(s) \ Victims(s, n)
  BY <1>5, <1>6, DropBackKeys DEF Victims
<1>9. DOMAIN idx' = KeysOn(ll') /\ idx' \in [DOMAIN idx' -> Data]
  BY <1>6, <1>8
<1>10. KeysOn(ll') \subseteq Keys
  BY <1>7 DEF KeysOn
<1>11. ASSUME NEW j \in 1..(Len(s) - n) PROVE Lengths(idx')[s[j]] = sz[s[j]]
  <2>1. j \in 1..Len(ll') /\ ll'[j] = s[j] /\ j \in 1..Len(s)
    BY <1>5, <1>6, <1>7, DropBackList
  <2>2. s[j] \in DOMAIN idx' /\ s[j] \in DOMAIN ix
    BY <1>9, <2>1 DEF KeysOn
  <2>3. idx'[s[j]] = ix[s[j]]
    BY <1>6, <2>2
  <2> QED BY <2>2, <2>3 DEF Lengths
<1>12. /\ TotalBytes(ll', Lengths(idx')) = TotalBytes(s, sz) - BackBytes(s, sz, n)
       /\ BackBytes(s, sz, n) \in 0..TotalBytes(s, sz)
  <2> HIDE DEF sz
  <2> QED BY <1>1, <1>5, <1>6, <1>11, DropBackBytes
<1>13. bytes' = TotalBytes(ll', Lengths(idx')) /\ bytes' \in Nat /\ bytes' <= bytesCap
  BY <1>2, <1>5, <1>6, <1>12
<1>14. TypeOK'
  BY <1>6, <1>7, <1>9, <1>10, <1>13 DEF TypeOK
<1>15. Mirror'
  BY <1>8, <1>9 DEF Mirror
<1>16. HeldWithinBudget' /\ NeverSpins'
  BY <1>6, <1>13 DEF HeldWithinBudget, NeverSpins
<1> QED BY <1>14, <1>15, <1>16 DEF Inv

(* What the loop leaves: the front of the list, with at least its first    *)
(* entry when that one fits the budget alone.                              *)
LEMMA EvictToBudgetList ==
    ASSUME NEW s, NEW ix, NEW b, Consistent(s, ix, b), evictToBudget(s, ix, b),
           Len(s) >= 1, Length[ix[s[1]]] <= bytesCap
    PROVE  FrontOf(ll', s) /\ ll' \in Seq(Keys) /\ Len(ll') \in 1..Len(s)
<1> DEFINE sz == Lengths(ix)
           stops == StopsAfter(s, sz, b)
           p == PrefixBytes(s, sz)
           n == Min(stops)
<1> USE DEF Consistent
<1>1. Len(s) \in Nat /\ \A j \in 1..Len(s) : sz[s[j]] \in Nat
  BY LengthsNat
<1>2. TotalBytes(s, sz) \in Nat
  <2> HIDE DEF sz
  <2> QED BY <1>1, TotalBytesType
<1>3. p[1] = Length[ix[s[1]]] /\ p[1] \in Nat
  <2>1. Sums(p, SizesOf(s, sz), Len(s))
    <3> HIDE DEF sz
    <3> QED BY <1>1, PrefixBytesSums
  <2>2. 1 \in 1..Len(s) /\ 1 \in 0..Len(s) /\ 1 - 1 = 0
    BY <1>1
  <2>3. p[1] = p[0] + sz[s[1]] /\ p[0] = 0 /\ p[1] \in Nat
    BY <2>1, <2>2 DEF Sums, SizesOf
  <2>4. sz[s[1]] = Length[ix[s[1]]] /\ sz[s[1]] \in Nat
    BY <2>2, LengthsNat
  <2> QED BY <2>3, <2>4
<1>4. Len(s) - 1 \in stops
  <2>1. Len(s) - (Len(s) - 1) = 1 /\ Len(s) - 1 \in 0..Len(s)
    BY <1>1
  <2>2. BackBytes(s, sz, Len(s) - 1) = TotalBytes(s, sz) - p[1]
    BY <2>1 DEF BackBytes
  <2>3. b = TotalBytes(s, sz)
    OBVIOUS
  <2> HIDE DEF sz, p
  <2>4. b - BackBytes(s, sz, Len(s) - 1) = p[1]
    BY <1>2, <1>3, <2>2, <2>3
  <2> QED BY <1>3, <2>1, <2>4 DEF StopsAfter
<1>5. n \in 0..(Len(s) - 1)
  <2>1. stops \subseteq Nat /\ stops # {}
    BY <1>4 DEF StopsAfter
  <2> HIDE DEF stops
  <2>2. \E x \in stops : \A y \in stops : x <= y
    BY <2>1, LeastNumber
  <2>3. n \in stops /\ \A y \in stops : n <= y
    BY <2>2 DEF Min
  <2> QED BY <1>1, <1>4, <2>1, <2>3
<1>6. ll' = DropBack(s, n)
  BY <1>4 DEF evictToBudget
<1> HIDE DEF n
<1>7. n \in 0..Len(s) /\ FrontOf(s, s)
  BY <1>1, <1>5 DEF FrontOf
<1>8. ll' \in Seq(Keys) /\ Len(ll') = Len(s) - n
  BY <1>6, <1>7, DropBackList
<1>9. FrontOf(ll', s)
  BY <1>6, <1>7, DropBackOfFront
<1> QED BY <1>1, <1>5, <1>8, <1>9

-----------------------------------------------------------------------------
(* A new cache satisfies the invariant. *)
LEMMA InitInv == Init => Inv
<1> SUFFICES ASSUME Init PROVE Inv
  OBVIOUS
<1>1. ll = <<>> /\ idx = [k \in {} |-> 0] /\ bytes = 0 /\ spinning = FALSE
  BY DEF Init, newBlobCache
<1>2. DOMAIN idx = {} /\ Len(ll) = 0 /\ ll \in Seq(Keys)
  BY <1>1
<1>3. TotalBytes(ll, Lengths(idx)) = 0
  <2>1. Sums(PrefixBytes(ll, Lengths(idx)), SizesOf(ll, Lengths(idx)), Len(ll))
    <3>1. \A i \in 1..Len(ll) : Lengths(idx)[ll[i]] \in Nat
      BY <1>2
    <3> QED BY <1>2, <3>1, PrefixBytesSums
  <2> QED BY <1>2, <2>1 DEF TotalBytes, Sums
<1>4. TypeOK
  BY <1>1, <1>2 DEF TypeOK
<1>5. Mirror
  BY <1>2 DEF Mirror, NoDuplicates, KeysOn
<1>6. HeldWithinBudget /\ NeverSpins
  BY <1>1, <1>3, BytesCapAssumption DEF HeldWithinBudget, NeverSpins
<1> QED BY <1>4, <1>5, <1>6 DEF Inv

(* A hit reorders the list and changes nothing else. *)
LEMMA GetInv == ASSUME Inv, NEW k \in Keys, get(k) PROVE Inv'
<1> DEFINE i == PositionOf(ll, k)
<1>1. ll \in Seq(Keys) /\ NoDuplicates(ll) /\ DOMAIN idx = KeysOn(ll)
  BY DEF Inv, TypeOK, Mirror
<1>2. /\ ll' = MoveToFront(ll, i) /\ idx' = idx /\ bytes' = bytes
      /\ spinning' = spinning
  BY DEF get
<1>3. i \in 1..Len(ll)
  BY <1>1, PositionOfKey DEF get
<1> HIDE DEF i
<1>4. ll' \in Seq(Keys) /\ Len(ll') = Len(ll)
  BY <1>1, <1>2, <1>3, MoveToFrontList
<1>5. NoDuplicates(ll') /\ KeysOn(ll') = KeysOn(ll)
  BY <1>1, <1>2, <1>3, MoveToFrontKeys
<1>6. \A j \in 1..Len(ll) : Lengths(idx)[ll[j]] \in Nat
  BY <1>1, LengthsNat DEF Inv, TypeOK
<1>7. TotalBytes(ll', Lengths(idx)) = TotalBytes(ll, Lengths(idx))
  <2>1. TotalBytes(ll', Lengths(idx))
          = TotalBytes(ll, Lengths(idx)) + (Lengths(idx)[ll[i]] - Lengths(idx)[ll[i]])
    BY <1>1, <1>2, <1>3, <1>6, MoveToFrontBytes
  <2>2. TotalBytes(ll, Lengths(idx)) \in Nat /\ Lengths(idx)[ll[i]] \in Nat
    BY <1>1, <1>3, <1>6, TotalBytesType
  <2> QED BY <2>1, <2>2
<1>8. Lengths(idx') = Lengths(idx)
  BY <1>2
<1>9. TypeOK' /\ Mirror'
  BY <1>1, <1>2, <1>4, <1>5 DEF Inv, TypeOK, Mirror
<1>10. HeldWithinBudget' /\ NeverSpins'
  BY <1>2, <1>7, <1>8 DEF Inv, HeldWithinBudget, NeverSpins
<1> QED BY <1>9, <1>10 DEF Inv

(* A second add of a key changes the count by the difference of the lengths. *)
LEMMA RefreshConsistent ==
    ASSUME Inv, NEW k \in Keys, NEW d \in Data, k \in DOMAIN idx
    PROVE  Consistent(MoveToFront(ll, PositionOf(ll, k)), [idx EXCEPT ![k] = d],
                      bytes + (Length[d] - Length[idx[k]]))
<1> DEFINE i == PositionOf(ll, k)
           s == MoveToFront(ll, i)
           ix == [idx EXCEPT ![k] = d]
           b == bytes + (Length[d] - Length[idx[k]])
<1>1. /\ ll \in Seq(Keys) /\ NoDuplicates(ll) /\ DOMAIN idx = KeysOn(ll)
      /\ idx \in [DOMAIN idx -> Data] /\ bytes = TotalBytes(ll, Lengths(idx))
  BY DEF Inv, TypeOK, Mirror, HeldWithinBudget
<1>2. k \in DOMAIN idx
  OBVIOUS
<1>3. i \in 1..Len(ll) /\ ll[i] = k
  BY <1>1, <1>2, PositionOfKey
<1>4. DOMAIN ix = DOMAIN idx /\ ix \in [DOMAIN ix -> Data]
  BY <1>1
<1>5. s \in Seq(Keys)
  <2> HIDE DEF i
  <2> QED BY <1>1, <1>3, MoveToFrontList
<1>6. NoDuplicates(s) /\ KeysOn(s) = KeysOn(ll)
  <2> HIDE DEF i
  <2> QED BY <1>1, <1>3, MoveToFrontKeys
<1>7. /\ \A j \in 1..Len(ll) : Lengths(idx)[ll[j]] \in Nat /\ Lengths(ix)[ll[j]] \in Nat
      /\ Lengths(idx)[k] = Length[idx[k]] /\ Lengths(ix)[k] = Length[d]
  <2>1. Lengths(idx)[k] = Length[idx[k]] /\ Lengths(ix)[k] = Length[d]
    BY <1>2, <1>4 DEF Lengths
  <2> QED BY <1>1, <1>4, <2>1, LengthsNat
<1>8. ASSUME NEW j \in 1..Len(ll), j # i
      PROVE  Lengths(ix)[ll[j]] = Lengths(idx)[ll[j]]
  <2>1. ll[j] # k /\ ll[j] \in DOMAIN idx
    BY <1>1, <1>3, <1>8 DEF NoDuplicates, KeysOn
  <2> QED BY <1>4, <2>1 DEF Lengths
<1>9. TotalBytes(s, Lengths(ix)) = b
  <2> DEFINE old == Lengths(idx)
             new == Lengths(ix)
  <2>1. /\ \A j \in 1..Len(ll) : old[ll[j]] \in Nat /\ new[ll[j]] \in Nat
        /\ \A j \in 1..Len(ll) : j # i => new[ll[j]] = old[ll[j]]
    BY <1>7, <1>8
  <2> HIDE DEF i, ix, old, new
  <2>2. TotalBytes(s, new) = TotalBytes(ll, old) + (new[ll[i]] - old[ll[i]])
    BY <1>1, <1>3, <2>1, MoveToFrontBytes
  <2> QED BY <1>1, <1>3, <1>7, <2>2 DEF old, new
<1> HIDE DEF s, ix, b
<1>10. Consistent(s, ix, b)
  BY <1>1, <1>4, <1>5, <1>6, <1>9 DEF Consistent
<1> QED BY <1>10 DEF s, ix, b

(* An add of a key that is held keeps the invariant. *)
LEMMA RefreshInv ==
    ASSUME Inv, NEW k \in Keys, NEW d \in Data, refresh(k, d) PROVE Inv'
BY RefreshConsistent, EvictToBudgetInv DEF refresh

(* A new entry goes to the front and is counted. *)
LEMMA InsertConsistent ==
    ASSUME Inv, NEW k \in Keys, NEW d \in Data, k \notin DOMAIN idx
    PROVE  Consistent(PushFront(ll, k),
                      [j \in DOMAIN idx \cup {k} |-> IF j = k THEN d ELSE idx[j]],
                      bytes + Length[d])
<1> DEFINE s == PushFront(ll, k)
           ix == [j \in DOMAIN idx \cup {k} |-> IF j = k THEN d ELSE idx[j]]
           b == bytes + Length[d]
<1>1. /\ ll \in Seq(Keys) /\ NoDuplicates(ll) /\ DOMAIN idx = KeysOn(ll)
      /\ idx \in [DOMAIN idx -> Data] /\ bytes = TotalBytes(ll, Lengths(idx))
  BY DEF Inv, TypeOK, Mirror, HeldWithinBudget
<1>2. k \notin DOMAIN idx
  OBVIOUS
<1>3. Length[d] \in Nat
  BY LengthAssumption
<1>4. DOMAIN ix = DOMAIN idx \cup {k} /\ ix \in [DOMAIN ix -> Data]
  BY <1>1
<1>5. s \in Seq(Keys)
  BY <1>1, PushFrontList
<1>6. NoDuplicates(s) /\ KeysOn(s) = KeysOn(ll) \cup {k}
  BY <1>1, <1>2, PushFrontKeys
<1>7. ASSUME NEW j \in 1..Len(ll)
      PROVE  Lengths(idx)[ll[j]] \in Nat /\ Lengths(ix)[ll[j]] = Lengths(idx)[ll[j]]
  <2>1. ll[j] # k /\ ll[j] \in DOMAIN idx
    BY <1>1, <1>2 DEF KeysOn
  <2>2. Lengths(idx)[ll[j]] \in Nat
    BY <1>1, LengthsNat
  <2> QED BY <1>4, <2>1, <2>2 DEF Lengths
<1>8. Lengths(ix)[k] = Length[d]
  BY <1>4 DEF Lengths
<1>9. TotalBytes(s, Lengths(ix)) = b
  <2> HIDE DEF ix
  <2> QED BY <1>1, <1>3, <1>7, <1>8, PushFrontBytes
<1> HIDE DEF s, ix, b
<1>10. Consistent(s, ix, b)
  BY <1>1, <1>4, <1>5, <1>6, <1>9 DEF Consistent
<1> QED BY <1>10 DEF s, ix, b

(* An add of a new key keeps it, whatever it evicts. *)
LEMMA InsertInv ==
    ASSUME Inv, NEW k \in Keys, NEW d \in Data, insert(k, d) PROVE Inv'
BY InsertConsistent, EvictToBudgetInv DEF insert

(* An add of a body that is too large changes nothing; so all adds preserve *)
(* the invariant.                                                          *)
LEMMA AddInv ==
    ASSUME Inv, NEW k \in Keys, NEW d \in Data, add(k, d) PROVE Inv'
<1>1. CASE decline(k, d)
  BY <1>1 DEF decline, vars, Inv, TypeOK, Mirror, HeldWithinBudget, NeverSpins
<1> QED BY <1>1, RefreshInv, InsertInv DEF add

(* What add does to the index, whatever it evicts: the entries it leaves   *)
(* are as they were, or its own.                                           *)
LEMMA AddContents ==
    ASSUME NEW k, NEW d, add(k, d)
    PROVE  \A j \in DOMAIN idx' :
              (j \in DOMAIN idx /\ idx'[j] = idx[j]) \/ (j = k /\ idx'[j] = d)
<1>1. CASE decline(k, d)
  BY <1>1 DEF decline, vars
<1>2. CASE refresh(k, d)
  <2> DEFINE ix == [idx EXCEPT ![k] = d]
  <2>1. PICK gone : idx' = [i \in DOMAIN ix \ gone |-> ix[i]]
    BY <1>2 DEF refresh, evictToBudget
  <2> QED BY <2>1
<1>3. CASE insert(k, d)
  <2> DEFINE ix == [i \in DOMAIN idx \cup {k} |-> IF i = k THEN d ELSE idx[i]]
  <2>1. PICK gone : idx' = [i \in DOMAIN ix \ gone |-> ix[i]]
    BY <1>3 DEF insert, evictToBudget
  <2> QED BY <2>1
<1> QED BY <1>1, <1>2, <1>3 DEF add

(* Every step preserves the invariant. *)
LEMMA NextInv == Inv /\ [Next]_vars => Inv'
<1> SUFFICES ASSUME Inv, [Next]_vars PROVE Inv'
  OBVIOUS
<1>1. ASSUME UNCHANGED vars PROVE Inv'
  BY <1>1 DEF vars, Inv, TypeOK, Mirror, HeldWithinBudget, NeverSpins
<1>2. ASSUME NEW k \in Keys, get(k) PROVE Inv'
  BY <1>2, GetInv
<1>3. ASSUME NEW k \in Keys, getMiss(k) PROVE Inv'
  BY <1>1, <1>3 DEF getMiss
<1>4. ASSUME NEW k \in Keys, NEW d \in Data, add(k, d) PROVE Inv'
  BY <1>4, AddInv
<1> QED BY <1>1, <1>2, <1>3, <1>4 DEF Next

(* The inductive invariant holds after every call (cache.go:141-185). *)
THEOREM Invariance == Spec => []Inv
<1> QED BY InitInv, NextInv, PTL DEF Spec

(* The fields keep their types (blobCache, cache.go:117-123). *)
THEOREM TypeCorrect == Spec => []TypeOK
<1>1. Inv => TypeOK
  BY DEF Inv
<1> QED BY <1>1, Invariance, PTL

(* The list and the index always describe the same entries: no path of     *)
(* get, add or evict (cache.go:141-185) changes one without the other.     *)
THEOREM MirrorAlways == Spec => []Mirror
<1>1. Inv => Mirror
  BY DEF Inv
<1> QED BY <1>1, Invariance, PTL

(* The resident bodies never exceed the byte budget, counted exactly, and  *)
(* a refresh by a racing miss does not disturb the count (cache.go:154-174). *)
THEOREM AlwaysHeldWithinBudget == Spec => []HeldWithinBudget
<1>1. Inv => HeldWithinBudget
  BY DEF Inv
<1> QED BY <1>1, Invariance, PTL

(* The loop of add, which ends only when the count is within the budget    *)
(* (cache.go:171-173, 176-180), never spins on an empty list.              *)
THEOREM NeverSpinsAlways == Spec => []NeverSpins
<1>1. Inv => NeverSpins
  BY DEF Inv
<1> QED BY <1>1, Invariance, PTL

-----------------------------------------------------------------------------
(* The history variable next to the cache: no key is on it twice, and the  *)
(* list is its front.                                                      *)
Ordered ==
    /\ recency \in Seq(Keys)
    /\ NoDuplicates(recency)
    /\ FrontOf(ll, recency)

(* A use, as the policy defines it. *)
LEMMA UsedIsWithFront ==
    ASSUME NEW r, NEW k PROVE Policy!Used(r, k) = WithFront(r, k)
BY DEF Policy!Used, Policy!KeysOn, Policy!MoveToFront, Policy!PositionOf,
       Policy!PushFront, WithFront, KeysOn, MoveToFront, PositionOf, PushFront

(* A hit is the policy's Touch: both lists move the same entry. *)
LEMMA GetTouches ==
    ASSUME Inv, Ordered, NEW k \in Keys, get(k), recency' = Policy!Used(recency, k)
    PROVE  Ordered' /\ Policy!Touch(k)
<1>1. ll \in Seq(Keys) /\ NoDuplicates(ll) /\ DOMAIN idx = KeysOn(ll)
  BY DEF Inv, TypeOK, Mirror
<1>2. k \in KeysOn(ll) /\ ll' = MoveToFront(ll, PositionOf(ll, k))
  BY <1>1 DEF get
<1>3. recency' = WithFront(recency, k)
  BY UsedIsWithFront
<1>4. recency' \in Seq(Keys) /\ NoDuplicates(recency')
  BY <1>3, WithFrontList DEF Ordered
<1>5. FrontOf(ll', recency')
  BY <1>1, <1>2, <1>3, MoveToFrontOfFront DEF Ordered
<1>6. ll' \in Seq(Keys) /\ Len(ll') = Len(ll)
  BY <1>1, <1>2, PositionOfKey, MoveToFrontList
<1>7. ll' = SubSeq(recency', 1, Len(ll))
  BY <1>4, <1>5, <1>6, FrontIsSubSeq
<1> QED BY <1>2, <1>4, <1>5, <1>7 DEF Ordered, Policy!Touch, Policy!KeysOn, KeysOn

(* An add that is not declined is the policy's Admit: evictions take the   *)
(* back of the list, and never the entry just added.                       *)
LEMMA AddAdmits ==
    ASSUME Inv, Ordered, NEW k \in Keys, NEW d \in Data,
           refresh(k, d) \/ insert(k, d), recency' = Policy!Used(recency, k)
    PROVE  Ordered' /\ Policy!Admit(k)
<1>1. /\ ll \in Seq(Keys) /\ NoDuplicates(ll) /\ DOMAIN idx = KeysOn(ll)
      /\ Len(ll) \in Nat
  BY DEF Inv, TypeOK, Mirror
<1>2. recency' = WithFront(recency, k)
  BY UsedIsWithFront
<1>3. recency' \in Seq(Keys) /\ NoDuplicates(recency')
  BY <1>2, WithFrontList DEF Ordered
<1>4. \E s \in Seq(Keys) : /\ FrontOf(s, recency')
                           /\ Len(s) \in 1..(Len(ll) + 1)
                           /\ FrontOf(ll', s)
                           /\ ll' \in Seq(Keys)
                           /\ Len(ll') \in 1..Len(s)
  <2>1. CASE refresh(k, d)
    <3> DEFINE s == MoveToFront(ll, PositionOf(ll, k))
               ix == [idx EXCEPT ![k] = d]
               b == bytes + (Length[d] - Length[idx[k]])
    <3>1. k \in DOMAIN idx /\ evictToBudget(s, ix, b) /\ Length[d] <= bytesCap
      BY <2>1 DEF refresh
    <3>2. Consistent(s, ix, b)
      BY <3>1, RefreshConsistent
    <3>3. FrontOf(s, recency')
      BY <1>1, <1>2, <3>1, MoveToFrontOfFront DEF Ordered
    <3>4. Len(s) = Len(ll) /\ s[1] = k /\ Len(ll) >= 1
      BY <1>1, <3>1, PositionOfKey, MoveToFrontList
    <3>5. ix[s[1]] = d
      BY <3>1, <3>4
    <3> HIDE DEF s, ix, b
    <3>6. FrontOf(ll', s) /\ ll' \in Seq(Keys) /\ Len(ll') \in 1..Len(s)
      BY <3>1, <3>2, <3>4, <3>5, EvictToBudgetList
    <3>7. s \in Seq(Keys)
      BY <3>2 DEF Consistent
    <3> QED BY <1>1, <3>3, <3>4, <3>6, <3>7
  <2>2. CASE insert(k, d)
    <3> DEFINE s == PushFront(ll, k)
               ix == [j \in DOMAIN idx \cup {k} |-> IF j = k THEN d ELSE idx[j]]
               b == bytes + Length[d]
    <3>1. k \notin DOMAIN idx /\ evictToBudget(s, ix, b) /\ Length[d] <= bytesCap
      BY <2>2 DEF insert
    <3>2. Consistent(s, ix, b)
      BY <3>1, InsertConsistent
    <3>3. FrontOf(s, recency')
      BY <1>1, <1>2, <3>1, PushFrontOfFront DEF Ordered
    <3>4. Len(s) = Len(ll) + 1 /\ s[1] = k /\ Len(s) >= 1
      BY <1>1, PushFrontList
    <3>5. ix[s[1]] = d
      BY <3>4
    <3> HIDE DEF s, ix, b
    <3>6. FrontOf(ll', s) /\ ll' \in Seq(Keys) /\ Len(ll') \in 1..Len(s)
      BY <3>1, <3>2, <3>4, <3>5, EvictToBudgetList
    <3>7. s \in Seq(Keys)
      BY <3>2 DEF Consistent
    <3> QED BY <1>1, <3>3, <3>4, <3>6, <3>7
  <2> QED BY <2>1, <2>2
<1>5. PICK s \in Seq(Keys) : /\ FrontOf(s, recency')
                             /\ Len(s) \in 1..(Len(ll) + 1)
                             /\ FrontOf(ll', s)
                             /\ ll' \in Seq(Keys)
                             /\ Len(ll') \in 1..Len(s)
  BY <1>4
<1>6. FrontOf(ll', recency')
  <2>1. Len(ll') \in Nat /\ Len(s) \in Nat /\ Len(recency') \in Nat
    BY <1>3, <1>5
  <2> QED BY <1>5, <2>1 DEF FrontOf
<1>7. ll' = SubSeq(recency', 1, Len(ll'))
  BY <1>3, <1>5, <1>6, FrontIsSubSeq
<1>8. Len(ll') \in 1..(Len(ll) + 1) /\ Len(ll') <= Len(recency')
  BY <1>1, <1>5, <1>6 DEF FrontOf
<1> QED BY <1>3, <1>6, <1>7, <1>8 DEF Ordered, Policy!Admit

(* "evicting least-recently-used entries until within budget"              *)
(* (cache.go:151): the cache implements LruPolicy, whatever its budget and *)
(* the bodies' lengths, and a body that is not declined stays.             *)
THEOREM ImplementsLru == LruSpec => EvictsLeastRecentlyUsed
<1>1. LruInit => Inv /\ Ordered /\ Policy!Init
  <2> SUFFICES ASSUME LruInit PROVE Inv /\ Ordered /\ Policy!Init
    OBVIOUS
  <2>1. Inv /\ ll = <<>> /\ recency = <<>>
    BY InitInv DEF LruInit, Init, newBlobCache
  <2> QED BY <2>1 DEF Ordered, NoDuplicates, FrontOf, Policy!Init
<1>2. Inv /\ Ordered /\ [LruNext]_lruVars
        => Inv' /\ Ordered' /\ [Policy!Next]_<<recency, ll>>
  <2> SUFFICES ASSUME Inv, Ordered, [LruNext]_lruVars
               PROVE  Inv' /\ Ordered' /\ [Policy!Next]_<<recency, ll>>
    OBVIOUS
  <2>1. Inv'
    BY NextInv DEF LruNext, Next, add, lruVars, vars
  <2>2. ASSUME UNCHANGED <<ll, recency>>
        PROVE  Ordered' /\ [Policy!Next]_<<recency, ll>>
    BY <2>2 DEF Ordered
  <2>3. ASSUME NEW k \in Keys, get(k), recency' = Policy!Used(recency, k)
        PROVE  Ordered' /\ [Policy!Next]_<<recency, ll>>
    BY <2>3, GetTouches DEF Policy!Next
  <2>4. ASSUME NEW k \in Keys, NEW d \in Data, refresh(k, d) \/ insert(k, d),
               recency' = Policy!Used(recency, k)
        PROVE  Ordered' /\ [Policy!Next]_<<recency, ll>>
    BY <2>4, AddAdmits DEF Policy!Next
  <2>5. ASSUME NEW k \in Keys, getMiss(k), UNCHANGED recency
        PROVE  Ordered' /\ [Policy!Next]_<<recency, ll>>
    BY <2>2, <2>5 DEF getMiss, vars
  <2>6. ASSUME NEW k \in Keys, NEW d \in Data, decline(k, d), UNCHANGED recency
        PROVE  Ordered' /\ [Policy!Next]_<<recency, ll>>
    BY <2>2, <2>6 DEF decline, vars
  <2> QED BY <2>1, <2>2, <2>3, <2>4, <2>5, <2>6 DEF LruNext, lruVars
<1> QED BY <1>1, <1>2, PTL DEF LruSpec, EvictsLeastRecentlyUsed, Policy!Spec

=============================================================================
