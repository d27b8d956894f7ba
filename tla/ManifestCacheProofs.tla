------------------------- MODULE ManifestCacheProofs -------------------------
(***************************************************************************)
(* The manifest cache keeps its list, its index and its byte count         *)
(* consistent and stays within its budgets, for every set of keys and      *)
(* manifests, all sizes and any configured budgets.                        *)
(***************************************************************************)
EXTENDS ManifestCacheLru, LruListProofs

(* The inductive invariant.  WithinBudget is not inductive alone: that an  *)
(* eviction frees what evictToBound thinks it frees needs the count to be  *)
(* the sum of the sizes, and that needs the list and the index to agree.   *)
Inv == TypeOK /\ Mirror /\ BytesAccounted /\ WithinBudget

(* The clamped budgets are natural numbers, and there is room for an entry. *)
LEMMA CapType == cap \in Nat /\ cap >= 1 /\ bytesCap \in Nat
BY BudgetAssumption DEF cap, bytesCap

(* The sizes of the entries of a list that mirrors an index. *)
LEMMA SizesNat ==
    ASSUME NEW s, NEW ix, ix \in [DOMAIN ix -> Entry], DOMAIN ix = KeysOn(s),
           NEW i \in 1..Len(s)
    PROVE  s[i] \in DOMAIN ix /\ Sizes(ix)[s[i]] = ix[s[i]].size
                              /\ Sizes(ix)[s[i]] \in Nat
BY DEF Sizes, KeysOn, Entry

(* evictToBound's loop ends, at the first point where both budgets hold. *)
LEMMA EvictionsLeast ==
    ASSUME NEW K, NEW s \in Seq(K), NEW sz, NEW b, Len(s) >= 1
    PROVE  LET n == Evictions(s, sz, b)
           IN  /\ n \in 0..Len(s)
               /\ ~ OverBudget(Len(s) - n, b - BackBytes(s, sz, n))
               /\ \A m \in 0..(n - 1) :
                    OverBudget(Len(s) - m, b - BackBytes(s, sz, m))
<1> DEFINE Over(n) == OverBudget(Len(s) - n, b - BackBytes(s, sz, n))
           S == {n \in 0..Len(s) : ~ Over(n)}
<1>1. Len(s) \in Nat
  OBVIOUS
<1>2. Len(s) - 1 \in S
  BY <1>1 DEF OverBudget
<1>3. \E x \in S : \A y \in S : x <= y
  <2>1. S \subseteq Nat /\ S # {}
    BY <1>2
  <2> HIDE DEF S
  <2> QED BY <2>1, LeastNumber
<1>4. Evictions(s, sz, b) = CHOOSE x \in S : \A y \in S : x <= y
  BY DEF Evictions, Min
<1>5. Evictions(s, sz, b) \in S /\ \A y \in S : Evictions(s, sz, b) <= y
  <2> HIDE DEF S
  <2> QED BY <1>3, <1>4
<1>6. ASSUME NEW m \in 0..(Evictions(s, sz, b) - 1) PROVE Over(m)
  BY <1>1, <1>5
<1> QED BY <1>5, <1>6

(* A list with its index and its count, before evictToBound: consistent,   *)
(* but perhaps over the budgets.                                           *)
Consistent(s, ix, b) ==
    /\ s \in Seq(Keys)
    /\ Len(s) >= 1
    /\ NoDuplicates(s)
    /\ DOMAIN ix = KeysOn(s)
    /\ ix \in [DOMAIN ix -> Entry]
    /\ b = TotalBytes(s, Sizes(ix))

(* evictToBound restores the invariant from a consistent, perhaps over-    *)
(* full, cache that holds at least the entry just added.                   *)
LEMMA EvictToBoundInv ==
    ASSUME NEW s, NEW ix, NEW b, Consistent(s, ix, b), evictToBound(s, ix, b)
    PROVE  Inv'
<1> DEFINE sz == Sizes(ix)
           n == Evictions(s, sz, b)
           gone == Victims(s, n)
<1> USE DEF Consistent
<1>1. n \in 0..Len(s) /\ ~ OverBudget(Len(s) - n, b - BackBytes(s, sz, n))
  BY EvictionsLeast
<1>2. /\ ll' = DropBack(s, n)
      /\ idx' = [k \in DOMAIN ix \ gone |-> ix[k]]
      /\ bytes' = b - BackBytes(s, sz, n)
  BY DEF evictToBound
<1> HIDE DEF n
<1>3. ll' \in Seq(Keys) /\ Len(ll') = Len(s) - n
  BY <1>1, <1>2, DropBackList
<1>4. NoDuplicates(ll') /\ KeysOn(ll') = KeysOn(s) \ gone
  BY <1>1, <1>2, DropBackKeys DEF Victims
<1>5. DOMAIN idx' = KeysOn(ll') /\ idx' \in [DOMAIN idx' -> Entry]
  BY <1>2, <1>4
<1>6. KeysOn(ll') \subseteq Keys
  BY <1>3 DEF KeysOn
<1>7. \A j \in 1..Len(s) : sz[s[j]] \in Nat
  BY SizesNat
<1>8. ASSUME NEW j \in 1..(Len(s) - n) PROVE Sizes(idx')[s[j]] = sz[s[j]]
  <2>1. j \in 1..Len(ll') /\ ll'[j] = s[j] /\ j \in 1..Len(s)
    BY <1>1, <1>2, <1>3, DropBackList
  <2>2. s[j] \in DOMAIN idx' /\ s[j] \in DOMAIN ix
    BY <1>5, <2>1 DEF KeysOn
  <2>3. idx'[s[j]] = ix[s[j]]
    BY <1>2, <2>2
  <2> QED BY <2>2, <2>3 DEF Sizes
<1>9. /\ TotalBytes(ll', Sizes(idx')) = TotalBytes(s, sz) - BackBytes(s, sz, n)
      /\ BackBytes(s, sz, n) \in 0..TotalBytes(s, sz)
  <2> HIDE DEF sz
  <2> QED BY <1>1, <1>2, <1>7, <1>8, DropBackBytes
<1>10. TotalBytes(s, sz) \in Nat
  BY <1>7, TotalBytesType
<1>11. bytes' = TotalBytes(ll', Sizes(idx')) /\ bytes' \in Int
  BY <1>2, <1>9, <1>10
<1>12. TypeOK'
  BY <1>3, <1>5, <1>6, <1>11 DEF TypeOK
<1>13. Mirror'
  BY <1>4, <1>5 DEF Mirror
<1>14. BytesAccounted'
  BY <1>11 DEF BytesAccounted
<1>15. WithinBudget'
  <2>1. ~ OverBudget(Len(ll'), TotalBytes(ll', Sizes(idx')))
    BY <1>1, <1>2, <1>3, <1>11
  <2>2. Len(ll') \in Nat /\ cap >= 1 /\ cap \in Nat /\ bytesCap \in Nat
    BY <1>3, CapType
  <2> QED BY <1>11, <2>1, <2>2 DEF WithinBudget, OverBudget
<1> QED BY <1>12, <1>13, <1>14, <1>15 DEF Inv

(* What evictToBound leaves: the front of the list, never empty, and a     *)
(* list that with its most recently used victim put back would exceed one  *)
(* of the budgets.                                                         *)
LEMMA EvictToBoundList ==
    ASSUME NEW s, NEW ix, NEW b, Consistent(s, ix, b), evictToBound(s, ix, b)
    PROVE  LET q == Len(ll')
           IN  /\ q \in 1..Len(s)
               /\ FrontOf(ll', s)
               /\ ll' \in Seq(Keys)
               /\ \A j \in 1..Len(s) : s[j] \notin DOMAIN idx' <=> j > q
               /\ q < Len(s) => \/ q + 1 > cap
                                \/ bytesCap > 0 /\ bytes' + ix[s[q+1]].size > bytesCap
<1> DEFINE sz == Sizes(ix)
           n == Evictions(s, sz, b)
           q == Len(s) - n
           p == PrefixBytes(s, sz)
<1> USE DEF Consistent
<1>1. /\ n \in 0..Len(s)
      /\ \A m \in 0..(n - 1) : OverBudget(Len(s) - m, b - BackBytes(s, sz, m))
  BY EvictionsLeast
<1>2. /\ ll' = DropBack(s, n)
      /\ idx' = [k \in DOMAIN ix \ Victims(s, n) |-> ix[k]]
      /\ bytes' = b - BackBytes(s, sz, n)
  BY DEF evictToBound
<1> HIDE DEF n
<1>3. Len(s) \in Nat /\ n \in Nat /\ n <= Len(s) /\ q \in 0..Len(s)
  BY <1>1
<1>4. n <= Len(s) - 1
  <2>1. ASSUME n = Len(s) PROVE FALSE
    <3>1. Len(s) - 1 \in 0..(n - 1) /\ Len(s) - (Len(s) - 1) = 1
      BY <1>3, <2>1
    <3>2. OverBudget(1, b - BackBytes(s, sz, Len(s) - 1))
      BY <1>1, <3>1
    <3> QED BY <3>2 DEF OverBudget
  <2> QED BY <1>3, <2>1
<1>5. ll' \in Seq(Keys) /\ Len(ll') = q /\ q \in 1..Len(s)
  BY <1>1, <1>2, <1>3, <1>4, DropBackList
<1>6. FrontOf(s, s)
  BY <1>3 DEF FrontOf
<1>7. FrontOf(ll', s)
  BY <1>1, <1>2, <1>6, DropBackOfFront
<1>8. DOMAIN idx' = KeysOn(ll')
  <2>1. KeysOn(ll') = KeysOn(s) \ Victims(s, n)
    BY <1>1, <1>2, DropBackKeys DEF Victims
  <2> QED BY <1>2, <2>1
<1>9. \A j \in 1..Len(s) : s[j] \notin DOMAIN idx' <=> j > q
  <2> SUFFICES ASSUME NEW j \in 1..Len(s) PROVE s[j] \in KeysOn(ll') <=> j <= q
    BY <1>3, <1>8
  <2> HIDE DEF q
  <2>1. CASE j <= q
    <3>1. j \in 1..Len(ll') /\ ll'[j] = s[j]
      BY <1>3, <1>5, <1>7, <2>1 DEF FrontOf
    <3> QED BY <2>1, <3>1 DEF KeysOn
  <2>2. CASE ~ (j <= q)
    <3>1. ASSUME NEW i \in 1..Len(ll'), ll'[i] = s[j] PROVE FALSE
      <4>1. i \in 1..Len(s) /\ s[i] = s[j] /\ i # j
        BY <1>3, <1>5, <1>7, <2>2, <3>1 DEF FrontOf
      <4> QED BY <4>1 DEF NoDuplicates
    <3> QED BY <2>2, <3>1 DEF KeysOn
  <2> QED BY <2>1, <2>2
<1>10. ASSUME q < Len(s)
       PROVE  \/ q + 1 > cap
              \/ bytesCap > 0 /\ bytes' + ix[s[q+1]].size > bytesCap
  <2>1. n - 1 \in 0..(n - 1) /\ Len(s) - (n - 1) = q + 1 /\ q + 1 \in 1..Len(s)
    BY <1>3, <1>10
  <2>2. OverBudget(q + 1, b - BackBytes(s, sz, n - 1))
    BY <1>1, <2>1
  <2>3. \A j \in 1..Len(s) : sz[s[j]] \in Nat /\ sz[s[j]] = ix[s[j]].size
    BY SizesNat
  <2>4. Sums(p, SizesOf(s, sz), Len(s))
    <3> HIDE DEF sz
    <3> QED BY <2>3, PrefixBytesSums
  <2>5. p[q + 1] = p[q] + ix[s[q + 1]].size /\ p[q] \in Nat /\ p[q+1] \in Nat
    <3>1. p[q + 1] = p[(q + 1) - 1] + SizesOf(s, sz)[q + 1]
      BY <2>1, <2>4 DEF Sums
    <3>2. (q + 1) - 1 = q /\ q + 1 \in 0..Len(s)
      BY <1>3, <2>1
    <3>3. SizesOf(s, sz)[q + 1] = ix[s[q + 1]].size
      BY <2>1, <2>3 DEF SizesOf
    <3>4. p[q] \in Nat /\ p[q + 1] \in Nat
      BY <1>3, <2>4, <3>2 DEF Sums
    <3> QED BY <3>1, <3>2, <3>3, <3>4
  <2>6. /\ BackBytes(s, sz, n) = TotalBytes(s, sz) - p[q]
        /\ BackBytes(s, sz, n - 1) = TotalBytes(s, sz) - p[q + 1]
    BY <2>1 DEF BackBytes
  <2>7. TotalBytes(s, sz) \in Nat /\ ix[s[q + 1]].size \in Nat
    <3>1. TotalBytes(s, sz) \in Nat
      <4> HIDE DEF sz
      <4> QED BY <2>3, TotalBytesType
    <3> QED BY <2>1, <2>3, <3>1
  <2> HIDE DEF p, q, sz
  <2>8. b - BackBytes(s, sz, n - 1) = bytes' + ix[s[q + 1]].size
    BY <1>2, <2>5, <2>6, <2>7 DEF sz
  <2> QED BY <2>2, <2>8 DEF OverBudget
<1> QED BY <1>5, <1>7, <1>9, <1>10

-----------------------------------------------------------------------------
(* A new cache satisfies the invariant. *)
LEMMA InitInv == Init => Inv
<1> SUFFICES ASSUME Init PROVE Inv
  OBVIOUS
<1>1. ll = <<>> /\ idx = [k \in {} |-> 0] /\ bytes = 0
  BY DEF Init, newManifestCache
<1>2. DOMAIN idx = {} /\ Len(ll) = 0 /\ ll \in Seq(Keys)
  BY <1>1
<1>3. TotalBytes(ll, Sizes(idx)) = 0
  <2>1. Sums(PrefixBytes(ll, Sizes(idx)), SizesOf(ll, Sizes(idx)), Len(ll))
    <3>1. \A i \in 1..Len(ll) : Sizes(idx)[ll[i]] \in Nat
      BY <1>2
    <3> QED BY <1>2, <3>1, PrefixBytesSums
  <2> QED BY <1>2, <2>1 DEF TotalBytes, Sums
<1>4. TypeOK
  BY <1>1, <1>2 DEF TypeOK
<1>5. Mirror
  BY <1>2 DEF Mirror, NoDuplicates, KeysOn
<1>6. BytesAccounted /\ WithinBudget
  BY <1>1, <1>2, <1>3, CapType DEF BytesAccounted, WithinBudget
<1> QED BY <1>4, <1>5, <1>6 DEF Inv

(* A hit reorders the list and changes nothing else. *)
LEMMA GetInv == ASSUME Inv, NEW k \in Keys, get(k) PROVE Inv'
<1> DEFINE i == PositionOf(ll, k)
<1>1. ll \in Seq(Keys) /\ NoDuplicates(ll) /\ DOMAIN idx = KeysOn(ll)
  BY DEF Inv, TypeOK, Mirror
<1>2. ll' = MoveToFront(ll, i) /\ idx' = idx /\ bytes' = bytes
  BY DEF get
<1>3. i \in 1..Len(ll)
  BY <1>1, PositionOfKey DEF get
<1> HIDE DEF i
<1>4. ll' \in Seq(Keys) /\ Len(ll') = Len(ll)
  BY <1>1, <1>2, <1>3, MoveToFrontList
<1>5. NoDuplicates(ll') /\ KeysOn(ll') = KeysOn(ll)
  BY <1>1, <1>2, <1>3, MoveToFrontKeys
<1>6. \A j \in 1..Len(ll) : Sizes(idx)[ll[j]] \in Nat
  BY <1>1, SizesNat DEF Inv, TypeOK
<1>7. TotalBytes(ll', Sizes(idx)) = TotalBytes(ll, Sizes(idx))
  <2>1. TotalBytes(ll', Sizes(idx))
          = TotalBytes(ll, Sizes(idx)) + (Sizes(idx)[ll[i]] - Sizes(idx)[ll[i]])
    BY <1>1, <1>2, <1>3, <1>6, MoveToFrontBytes
  <2>2. TotalBytes(ll, Sizes(idx)) \in Nat /\ Sizes(idx)[ll[i]] \in Nat
    BY <1>1, <1>3, <1>6, TotalBytesType
  <2> QED BY <2>1, <2>2
<1>8. Sizes(idx') = Sizes(idx)
  BY <1>2
<1>9. TypeOK' /\ Mirror'
  BY <1>1, <1>2, <1>4, <1>5 DEF Inv, TypeOK, Mirror
<1>10. BytesAccounted' /\ WithinBudget'
  BY <1>2, <1>4, <1>7, <1>8 DEF Inv, BytesAccounted, WithinBudget
<1> QED BY <1>9, <1>10 DEF Inv

(* Replacing an entry changes the count by the difference of the sizes. *)
LEMMA RefreshConsistent ==
    ASSUME Inv, NEW k \in Keys, NEW m \in Manifests, k \in DOMAIN idx
    PROVE  Consistent(MoveToFront(ll, PositionOf(ll, k)),
                      [idx EXCEPT ![k] = [m |-> m, size |-> ApproxSize[m]]],
                      bytes + (ApproxSize[m] - idx[k].size))
<1> DEFINE i == PositionOf(ll, k)
           s == MoveToFront(ll, i)
           e == [m |-> m, size |-> ApproxSize[m]]
           ix == [idx EXCEPT ![k] = e]
           b == bytes + (ApproxSize[m] - idx[k].size)
<1>1. /\ ll \in Seq(Keys) /\ NoDuplicates(ll) /\ DOMAIN idx = KeysOn(ll)
      /\ idx \in [DOMAIN idx -> Entry] /\ bytes = TotalBytes(ll, Sizes(idx))
  BY DEF Inv, TypeOK, Mirror, BytesAccounted
<1>2. k \in DOMAIN idx
  OBVIOUS
<1>3. i \in 1..Len(ll) /\ ll[i] = k
  BY <1>1, <1>2, PositionOfKey
<1>4. e \in Entry /\ e.size = ApproxSize[m]
  BY SizeAssumption DEF Entry
<1>5. DOMAIN ix = DOMAIN idx /\ ix \in [DOMAIN ix -> Entry]
  BY <1>1, <1>4
<1>6. s \in Seq(Keys) /\ Len(s) = Len(ll) /\ Len(s) >= 1
  <2> HIDE DEF i
  <2> QED BY <1>1, <1>3, MoveToFrontList
<1>7. NoDuplicates(s) /\ KeysOn(s) = KeysOn(ll)
  <2> HIDE DEF i
  <2> QED BY <1>1, <1>3, MoveToFrontKeys
<1>8. /\ \A j \in 1..Len(ll) : Sizes(idx)[ll[j]] \in Nat /\ Sizes(ix)[ll[j]] \in Nat
      /\ Sizes(idx)[k] = idx[k].size /\ Sizes(ix)[k] = ApproxSize[m]
  <2>1. Sizes(idx)[k] = idx[k].size /\ Sizes(ix)[k] = ApproxSize[m]
    BY <1>2, <1>4, <1>5 DEF Sizes
  <2> QED BY <1>1, <1>5, <2>1, SizesNat
<1>9. ASSUME NEW j \in 1..Len(ll), j # i
      PROVE  Sizes(ix)[ll[j]] = Sizes(idx)[ll[j]]
  <2>1. ll[j] # k /\ ll[j] \in DOMAIN idx
    BY <1>1, <1>3, <1>9 DEF NoDuplicates, KeysOn
  <2> QED BY <1>5, <2>1 DEF Sizes
<1>10. TotalBytes(s, Sizes(ix)) = b
  <2> DEFINE old == Sizes(idx)
             new == Sizes(ix)
  <2>1. /\ \A j \in 1..Len(ll) : old[ll[j]] \in Nat /\ new[ll[j]] \in Nat
        /\ \A j \in 1..Len(ll) : j # i => new[ll[j]] = old[ll[j]]
    BY <1>8, <1>9
  <2> HIDE DEF i, ix, old, new
  <2>2. TotalBytes(s, new) = TotalBytes(ll, old) + (new[ll[i]] - old[ll[i]])
    BY <1>1, <1>3, <2>1, MoveToFrontBytes
  <2> QED BY <1>1, <1>3, <1>8, <2>2 DEF old, new
<1> HIDE DEF s, ix, b
<1>11. Consistent(s, ix, b)
  BY <1>1, <1>5, <1>6, <1>7, <1>10 DEF Consistent
<1> QED BY <1>11 DEF s, ix, b

(* An add of a key that is held keeps the invariant. *)
LEMMA RefreshInv ==
    ASSUME Inv, NEW k \in Keys, NEW m \in Manifests, refresh(k, m) PROVE Inv'
BY RefreshConsistent, EvictToBoundInv DEF refresh

(* A new entry goes to the front and is counted. *)
LEMMA InsertConsistent ==
    ASSUME Inv, NEW k \in Keys, NEW m \in Manifests, k \notin DOMAIN idx
    PROVE  Consistent(PushFront(ll, k),
                      [j \in DOMAIN idx \cup {k} |->
                          IF j = k THEN [m |-> m, size |-> ApproxSize[m]] ELSE idx[j]],
                      bytes + ApproxSize[m])
<1> DEFINE s == PushFront(ll, k)
           e == [m |-> m, size |-> ApproxSize[m]]
           ix == [j \in DOMAIN idx \cup {k} |-> IF j = k THEN e ELSE idx[j]]
           b == bytes + ApproxSize[m]
<1>1. /\ ll \in Seq(Keys) /\ NoDuplicates(ll) /\ DOMAIN idx = KeysOn(ll)
      /\ idx \in [DOMAIN idx -> Entry] /\ bytes = TotalBytes(ll, Sizes(idx))
  BY DEF Inv, TypeOK, Mirror, BytesAccounted
<1>2. k \notin DOMAIN idx
  OBVIOUS
<1>3. e \in Entry /\ e.size = ApproxSize[m] /\ ApproxSize[m] \in Nat
  BY SizeAssumption DEF Entry
<1>4. DOMAIN ix = DOMAIN idx \cup {k} /\ ix \in [DOMAIN ix -> Entry]
  BY <1>1, <1>3
<1>5. s \in Seq(Keys) /\ Len(s) >= 1
  <2>1. s \in Seq(Keys) /\ Len(s) = Len(ll) + 1 /\ Len(ll) \in Nat
    BY <1>1, PushFrontList
  <2> QED BY <2>1
<1>6. NoDuplicates(s) /\ KeysOn(s) = KeysOn(ll) \cup {k}
  BY <1>1, <1>2, PushFrontKeys
<1>7. ASSUME NEW j \in 1..Len(ll)
      PROVE  Sizes(idx)[ll[j]] \in Nat /\ Sizes(ix)[ll[j]] = Sizes(idx)[ll[j]]
  <2>1. ll[j] # k /\ ll[j] \in DOMAIN idx
    BY <1>1, <1>2 DEF KeysOn
  <2>2. Sizes(idx)[ll[j]] \in Nat
    BY <1>1, SizesNat
  <2> QED BY <1>4, <2>1, <2>2 DEF Sizes
<1>8. Sizes(ix)[k] = ApproxSize[m]
  BY <1>3, <1>4 DEF Sizes
<1>9. TotalBytes(s, Sizes(ix)) = b
  <2> HIDE DEF ix
  <2> QED BY <1>1, <1>3, <1>7, <1>8, PushFrontBytes
<1> HIDE DEF s, ix, b
<1>10. Consistent(s, ix, b)
  BY <1>1, <1>4, <1>5, <1>6, <1>9 DEF Consistent
<1> QED BY <1>10 DEF s, ix, b

(* An add of a new key keeps it, whatever it evicts. *)
LEMMA InsertInv ==
    ASSUME Inv, NEW k \in Keys, NEW m \in Manifests, insert(k, m) PROVE Inv'
BY InsertConsistent, EvictToBoundInv DEF insert

(* Either way, add preserves the invariant. *)
LEMMA AddInv ==
    ASSUME Inv, NEW k \in Keys, NEW m \in Manifests, add(k, m) PROVE Inv'
BY RefreshInv, InsertInv DEF add

(* What add does to the index, whatever it evicts: its key gets the new    *)
(* manifest, and the entries that stay are as they were.                   *)
LEMMA AddContents ==
    ASSUME NEW k, NEW m, add(k, m)
    PROVE  /\ DOMAIN idx' \subseteq DOMAIN idx \cup {k}
           /\ \A j \in DOMAIN idx' : IF j = k THEN idx'[j].m = m ELSE idx'[j] = idx[j]
<1> DEFINE e == [m |-> m, size |-> ApproxSize[m]]
<1>1. CASE refresh(k, m)
  <2>1. PICK gone : idx' = [j \in DOMAIN [idx EXCEPT ![k] = e] \ gone |-> [idx EXCEPT ![k] = e][j]]
    BY <1>1 DEF refresh, evictToBound
  <2> QED BY <1>1, <2>1 DEF refresh
<1>2. CASE insert(k, m)
  <2> DEFINE ix == [j \in DOMAIN idx \cup {k} |-> IF j = k THEN e ELSE idx[j]]
  <2>1. PICK gone : idx' = [j \in DOMAIN ix \ gone |-> ix[j]]
    BY <1>2 DEF insert, evictToBound
  <2> QED BY <2>1
<1> QED BY <1>1, <1>2 DEF add

(* Every step preserves the invariant. *)
LEMMA NextInv == Inv /\ [Next]_vars => Inv'
<1> SUFFICES ASSUME Inv, [Next]_vars PROVE Inv'
  OBVIOUS
<1>1. ASSUME NEW k \in Keys, get(k) PROVE Inv'
  BY <1>1, GetInv
<1>2. ASSUME NEW k \in Keys, NEW m \in Manifests, add(k, m) PROVE Inv'
  BY <1>2, AddInv
<1>3. ASSUME UNCHANGED vars PROVE Inv'
  BY <1>3 DEF vars, Inv, TypeOK, Mirror, BytesAccounted, WithinBudget
<1>4. ASSUME NEW k \in Keys, getMiss(k) PROVE Inv'
  BY <1>3, <1>4 DEF getMiss
<1> QED BY <1>1, <1>2, <1>3, <1>4 DEF Next

(* The inductive invariant holds after every call (cache.go:54-103). *)
THEOREM Invariance == Spec => []Inv
<1> QED BY InitInv, NextInv, PTL DEF Spec

(* The fields keep their types (manifestCache, cache.go:23-36). *)
THEOREM TypeCorrect == Spec => []TypeOK
<1>1. Inv => TypeOK
  BY DEF Inv
<1> QED BY <1>1, Invariance, PTL

(* The list and the index always describe the same entries: no path of     *)
(* get, add or evict (cache.go:54-103) changes one without the other.      *)
THEOREM MirrorAlways == Spec => []Mirror
<1>1. Inv => Mirror
  BY DEF Inv
<1> QED BY <1>1, Invariance, PTL

(* c.bytes never drifts from the sum of the resident entries' sizes        *)
(* (cache.go:73, 81, 102).                                                 *)
THEOREM BytesAlwaysAccounted == Spec => []BytesAccounted
<1>1. Inv => BytesAccounted
  BY DEF Inv
<1> QED BY <1>1, Invariance, PTL

(* After every call the cache is within its entry-count budget, and within *)
(* its byte budget unless a lone entry exceeds it (evictToBound,           *)
(* cache.go:88-92).                                                        *)
THEOREM AlwaysWithinBudget == Spec => []WithinBudget
<1>1. Inv => WithinBudget
  BY DEF Inv
<1> QED BY <1>1, Invariance, PTL

-----------------------------------------------------------------------------
(* An add for a resident key: the entries behind it keep their places, the *)
(* ones before it move back by one.                                        *)
LEMMA RefreshPressure ==
    ASSUME Inv, NEW k \in Keys, NEW m \in Manifests, refresh(k, m)
    PROVE  EvictedUnderPressure
<1> DEFINE h == PositionOf(ll, k)
           s == MoveToFront(ll, h)
           ix == [idx EXCEPT ![k] = [m |-> m, size |-> ApproxSize[m]]]
           b == bytes + (ApproxSize[m] - idx[k].size)
           q == Len(ll')
           len == Len(ll)
<1>1. /\ ll \in Seq(Keys) /\ NoDuplicates(ll) /\ DOMAIN idx = KeysOn(ll)
      /\ len \in Nat
  BY DEF Inv, TypeOK, Mirror
<1>2. k \in DOMAIN idx /\ evictToBound(s, ix, b)
  BY DEF refresh
<1>3. h \in 1..len /\ ll[h] = k
  BY <1>1, <1>2, PositionOfKey
<1>4. Consistent(s, ix, b)
  BY <1>2, RefreshConsistent
<1>5. /\ Len(s) = len /\ s[1] = k
      /\ \A j \in 2..h : s[j] = ll[j-1]
      /\ \A j \in (h+1)..len : s[j] = ll[j]
  <2> HIDE DEF h
  <2> QED BY <1>1, <1>3, MoveToFrontList
<1>6. \A j \in 1..len : ll[j] # k => ix[ll[j]] = idx[ll[j]]
  BY <1>1 DEF KeysOn
<1> HIDE DEF s, ix, b, h
<1>7. /\ q \in 1..len
      /\ \A j \in 1..len : s[j] \notin DOMAIN idx' <=> j > q
      /\ q < len => \/ q + 1 > cap
                    \/ bytesCap > 0 /\ bytes' + ix[s[q+1]].size > bytesCap
  BY <1>2, <1>4, <1>5, EvictToBoundList
<1> HIDE DEF q, len
<1> DEFINE at(j) == IF j < h THEN j + 1 ELSE IF j = h THEN 1 ELSE j
           w == IF q + 1 <= h THEN q ELSE q + 1
<1>8. ASSUME NEW j \in 1..len PROVE at(j) \in 1..len /\ s[at(j)] = ll[j]
  <2>1. CASE j < h
    <3>1. j + 1 \in 2..h /\ (j + 1) - 1 = j /\ j + 1 \in 1..len
      BY <1>1, <1>3, <2>1
    <3>2. s[j + 1] = ll[j]
      BY <1>5, <3>1
    <3> QED BY <2>1, <3>1, <3>2
  <2>2. CASE j = h
    BY <1>1, <1>3, <1>5, <2>2
  <2>3. CASE j > h
    <3>1. j \in (h+1)..len /\ at(j) = j
      BY <1>1, <1>3, <2>3
    <3> QED BY <1>5, <3>1
  <2> QED BY <1>1, <1>3, <2>1, <2>2, <2>3
<1>9. \A j \in 1..len : ll[j] \notin DOMAIN idx' <=> at(j) > q
  <2> HIDE DEF at
  <2>1. ASSUME NEW j \in 1..len PROVE ll[j] \notin DOMAIN idx' <=> at(j) > q
    <3>1. at(j) \in 1..len /\ s[at(j)] = ll[j]
      BY <1>8
    <3> QED BY <1>7, <3>1
  <2> QED BY <2>1
<1> SUFFICES ASSUME NEW g \in 1..len, ll[g] \notin DOMAIN idx'
             PROVE  /\ w \in 1..len /\ ll[w] \notin DOMAIN idx'
                    /\ \A j \in 1..len : ll[j] \notin DOMAIN idx' => w <= j
                    /\ \/ Len(ll') + 1 > cap
                       \/ bytesCap > 0 /\ bytes' + idx[ll[w]].size > bytesCap
  <2> HIDE DEF w
  <2> QED BY DEF EvictedUnderPressure, len
<1>10. q < len
  <2>1. at(g) \in 1..len /\ at(g) > q
    BY <1>8, <1>9
  <2> HIDE DEF at
  <2> QED BY <1>1, <1>7, <2>1 DEF len
<1>11. w \in 1..len /\ at(w) = q + 1
  BY <1>1, <1>3, <1>7, <1>10 DEF len
<1>12. s[q + 1] = ll[w] /\ ll[w] \notin DOMAIN idx'
  <2> HIDE DEF at, w
  <2>1. at(w) > q
    BY <1>7, <1>11
  <2> QED BY <1>8, <1>9, <1>11, <2>1
<1>13. ASSUME NEW j \in 1..len, ll[j] \notin DOMAIN idx' PROVE w <= j
  <2>1. at(j) > q
    BY <1>9, <1>13
  <2> QED BY <1>1, <1>3, <1>7, <2>1 DEF len
<1>14. ix[ll[w]] = idx[ll[w]]
  <2>1. w # h
    BY <1>3, <1>7
  <2>2. ll[w] # k
    BY <1>1, <1>3, <1>11, <2>1 DEF NoDuplicates, len
  <2> HIDE DEF w
  <2> QED BY <1>6, <1>11, <2>2
<1> HIDE DEF w
<1> QED BY <1>7, <1>10, <1>11, <1>12, <1>13, <1>14 DEF q

(* An add for a new key: every entry moves back by one. *)
LEMMA InsertPressure ==
    ASSUME Inv, NEW k \in Keys, NEW m \in Manifests, insert(k, m)
    PROVE  EvictedUnderPressure
<1> DEFINE s == PushFront(ll, k)
           ix == [j \in DOMAIN idx \cup {k} |->
                    IF j = k THEN [m |-> m, size |-> ApproxSize[m]] ELSE idx[j]]
           b == bytes + ApproxSize[m]
           q == Len(ll')
           len == Len(ll)
<1>1. ll \in Seq(Keys) /\ DOMAIN idx = KeysOn(ll) /\ len \in Nat
  BY DEF Inv, TypeOK, Mirror
<1>2. k \notin DOMAIN idx /\ evictToBound(s, ix, b)
  BY DEF insert
<1>3. Consistent(s, ix, b)
  BY <1>2, InsertConsistent
<1>4. Len(s) = len + 1 /\ s[1] = k /\ \A j \in 2..(len + 1) : s[j] = ll[j-1]
  BY <1>1, PushFrontList
<1>5. \A j \in 1..len : ix[ll[j]] = idx[ll[j]]
  BY <1>1, <1>2 DEF KeysOn
<1> HIDE DEF s, ix, b
<1>6. /\ q \in 1..(len + 1)
      /\ \A j \in 1..(len + 1) : s[j] \notin DOMAIN idx' <=> j > q
      /\ q < len + 1 => \/ q + 1 > cap
                        \/ bytesCap > 0 /\ bytes' + ix[s[q+1]].size > bytesCap
  BY <1>2, <1>3, <1>4, EvictToBoundList
<1> HIDE DEF q, len
<1>7. ASSUME NEW j \in 1..len
      PROVE  s[j + 1] = ll[j] /\ (ll[j] \notin DOMAIN idx' <=> j >= q)
  <2>1. j + 1 \in 2..(len + 1) /\ (j + 1) - 1 = j /\ j + 1 \in 1..(len + 1)
    BY <1>1
  <2>2. s[j + 1] = ll[j]
    BY <1>4, <2>1
  <2>3. s[j + 1] \notin DOMAIN idx' <=> j + 1 > q
    BY <1>6, <2>1
  <2> QED BY <1>1, <1>6, <2>2, <2>3
<1> SUFFICES ASSUME NEW g \in 1..len, ll[g] \notin DOMAIN idx'
             PROVE  /\ q \in 1..len /\ ll[q] \notin DOMAIN idx'
                    /\ \A j \in 1..len : ll[j] \notin DOMAIN idx' => q <= j
                    /\ \/ Len(ll') + 1 > cap
                       \/ bytesCap > 0 /\ bytes' + idx[ll[q]].size > bytesCap
  BY DEF EvictedUnderPressure, len
<1>8. q \in 1..len
  BY <1>1, <1>6, <1>7
<1>9. s[q + 1] = ll[q] /\ ll[q] \notin DOMAIN idx' /\ q < len + 1
  BY <1>1, <1>7, <1>8
<1>10. \A j \in 1..len : ll[j] \notin DOMAIN idx' => q <= j
  BY <1>1, <1>6, <1>7
<1> QED BY <1>5, <1>6, <1>8, <1>9, <1>10 DEF q

(* evictToBound (cache.go:88-92) evicts no more than the budgets demand:   *)
(* with the most recently used of its victims back, the list would be too  *)
(* long or its bytes too many.                                             *)
THEOREM AlwaysEvictsOnlyUnderPressure == Spec => EvictsOnlyUnderPressure
<1>1. ASSUME Inv, [Next]_vars PROVE [EvictedUnderPressure]_vars
  <2>1. \A i \in 1..Len(ll) : ll[i] \in DOMAIN idx
    BY <1>1 DEF Inv, Mirror, KeysOn
  <2>2. ASSUME idx' = idx PROVE EvictedUnderPressure
    BY <2>1, <2>2 DEF EvictedUnderPressure
  <2>3. ASSUME NEW k \in Keys, get(k) \/ getMiss(k) PROVE EvictedUnderPressure
    BY <2>2, <2>3 DEF get, getMiss, vars
  <2>4. ASSUME NEW k \in Keys, NEW m \in Manifests, add(k, m)
        PROVE  EvictedUnderPressure
    BY <1>1, <2>4, RefreshPressure, InsertPressure DEF add
  <2> QED BY <1>1, <2>3, <2>4 DEF Next
<1> QED BY <1>1, Invariance, PTL DEF Spec, EvictsOnlyUnderPressure

-----------------------------------------------------------------------------
(* The history variable next to the cache: no key is on it twice, and the  *)
(* list is its front.                                                      *)
Ordered ==
    /\ recency \in Seq(Keys)
    /\ NoDuplicates(recency)
    /\ FrontOf(ll, recency)

(* A use, as the policy defines it. *)
LEMMA UsedIsWithFront ==
    ASSUME NEW r, NEW k PROVE Policy!Used(r, k) = WithFront(r, k)
BY DEF Policy!Used, Policy!KeysOn, Policy!MoveToFront, Policy!PositionOf,
       Policy!PushFront, WithFront, KeysOn, MoveToFront, PositionOf, PushFront

(* A hit is the policy's Touch: both lists move the same entry. *)
LEMMA GetTouches ==
    ASSUME Inv, Ordered, NEW k \in Keys, get(k), recency' = Policy!Used(recency, k)
    PROVE  Ordered' /\ Policy!Touch(k)
<1>1. ll \in Seq(Keys) /\ NoDuplicates(ll) /\ DOMAIN idx = KeysOn(ll)
  BY DEF Inv, TypeOK, Mirror
<1>2. k \in KeysOn(ll) /\ ll' = MoveToFront(ll, PositionOf(ll, k))
  BY <1>1 DEF get
<1>3. recency' = WithFront(recency, k)
  BY UsedIsWithFront
<1>4. recency' \in Seq(Keys) /\ NoDuplicates(recency')
  BY <1>3, WithFrontList DEF Ordered
<1>5. FrontOf(ll', recency')
  BY <1>1, <1>2, <1>3, MoveToFrontOfFront DEF Ordered
<1>6. ll' \in Seq(Keys) /\ Len(ll') = Len(ll)
  BY <1>1, <1>2, PositionOfKey, MoveToFrontList
<1>7. ll' = SubSeq(recency', 1, Len(ll))
  BY <1>4, <1>5, <1>6, FrontIsSubSeq
<1> QED BY <1>2, <1>4, <1>5, <1>7 DEF Ordered, Policy!Touch, Policy!KeysOn, KeysOn

(* An add is the policy's Admit: evictions take the back of the list, and  *)
(* never the entry just added.                                             *)
LEMMA AddAdmits ==
    ASSUME Inv, Ordered, NEW k \in Keys, NEW m \in Manifests, add(k, m),
           recency' = Policy!Used(recency, k)
    PROVE  Ordered' /\ Policy!Admit(k)
<1>1. /\ ll \in Seq(Keys) /\ NoDuplicates(ll) /\ DOMAIN idx = KeysOn(ll)
      /\ Len(ll) \in Nat
  BY DEF Inv, TypeOK, Mirror
<1>2. recency' = WithFront(recency, k)
  BY UsedIsWithFront
<1>3. recency' \in Seq(Keys) /\ NoDuplicates(recency')
  BY <1>2, WithFrontList DEF Ordered
<1>4. \E s \in Seq(Keys) : /\ FrontOf(s, recency')
                           /\ Len(s) \in 1..(Len(ll) + 1)
                           /\ FrontOf(ll', s)
                           /\ ll' \in Seq(Keys)
                           /\ Len(ll') \in 1..Len(s)
  <2>1. CASE refresh(k, m)
    <3> DEFINE s == MoveToFront(ll, PositionOf(ll, k))
               ix == [idx EXCEPT ![k] = [m |-> m, size |-> ApproxSize[m]]]
               b == bytes + (ApproxSize[m] - idx[k].size)
    <3>1. k \in DOMAIN idx /\ evictToBound(s, ix, b)
      BY <2>1 DEF refresh
    <3>2. Consistent(s, ix, b)
      BY <3>1, RefreshConsistent
    <3>3. FrontOf(s, recency')
      BY <1>1, <1>2, <3>1, MoveToFrontOfFront DEF Ordered
    <3>4. Len(s) = Len(ll)
      BY <1>1, <3>1, PositionOfKey, MoveToFrontList
    <3> HIDE DEF s, ix, b
    <3>5. FrontOf(ll', s) /\ ll' \in Seq(Keys) /\ Len(ll') \in 1..Len(s)
      BY <3>1, <3>2, EvictToBoundList
    <3>6. s \in Seq(Keys) /\ Len(s) >= 1
      BY <3>2 DEF Consistent
    <3> QED BY <1>1, <3>3, <3>4, <3>5, <3>6
  <2>2. CASE insert(k, m)
    <3> DEFINE s == PushFront(ll, k)
               ix == [j \in DOMAIN idx \cup {k} |->
                        IF j = k THEN [m |-> m, size |-> ApproxSize[m]] ELSE idx[j]]
               b == bytes + ApproxSize[m]
    <3>1. k \notin DOMAIN idx /\ evictToBound(s, ix, b)
      BY <2>2 DEF insert
    <3>2. Consistent(s, ix, b)
      BY <3>1, InsertConsistent
    <3>3. FrontOf(s, recency')
      BY <1>1, <1>2, <3>1, PushFrontOfFront DEF Ordered
    <3>4. Len(s) = Len(ll) + 1
      BY <1>1, PushFrontList
    <3> HIDE DEF s, ix, b
    <3>5. FrontOf(ll', s) /\ ll' \in Seq(Keys) /\ Len(ll') \in 1..Len(s)
      BY <3>1, <3>2, EvictToBoundList
    <3>6. s \in Seq(Keys)
      BY <3>2 DEF Consistent
    <3> QED BY <1>1, <3>3, <3>4, <3>5, <3>6
  <2> QED BY <2>1, <2>2 DEF add
<1>5. PICK s \in Seq(Keys) : /\ FrontOf(s, recency')
                             /\ Len(s) \in 1..(Len(ll) + 1)
                             /\ FrontOf(ll', s)
                             /\ ll' \in Seq(Keys)
                             /\ Len(ll') \in 1..Len(s)
  BY <1>4
<1>6. FrontOf(ll', recency')
  <2>1. Len(ll') \in Nat /\ Len(s) \in Nat /\ Len(recency') \in Nat
    BY <1>3, <1>5
  <2> QED BY <1>5, <2>1 DEF FrontOf
<1>7. ll' = SubSeq(recency', 1, Len(ll'))
  BY <1>3, <1>5, <1>6, FrontIsSubSeq
<1>8. Len(ll') \in 1..(Len(ll) + 1) /\ Len(ll') <= Len(recency')
  BY <1>1, <1>5, <1>6 DEF FrontOf
<1> QED BY <1>3, <1>6, <1>7, <1>8 DEF Ordered, Policy!Admit

(* "Eviction is least-recently-used; a single manifest larger than the     *)
(* whole byte budget is never self-evicted" (cache.go:19-20): the cache    *)
(* implements LruPolicy, whatever its budgets and the manifests' sizes.    *)
THEOREM ImplementsLru == LruSpec => EvictsLeastRecentlyUsed
<1>1. LruInit => Inv /\ Ordered /\ Policy!Init
  <2> SUFFICES ASSUME LruInit PROVE Inv /\ Ordered /\ Policy!Init
    OBVIOUS
  <2>1. Inv /\ ll = <<>> /\ recency = <<>>
    BY InitInv DEF LruInit, Init, newManifestCache
  <2> QED BY <2>1 DEF Ordered, NoDuplicates, FrontOf, Policy!Init
<1>2. Inv /\ Ordered /\ [LruNext]_lruVars
        => Inv' /\ Ordered' /\ [Policy!Next]_<<recency, ll>>
  <2> SUFFICES ASSUME Inv, Ordered, [LruNext]_lruVars
               PROVE  Inv' /\ Ordered' /\ [Policy!Next]_<<recency, ll>>
    OBVIOUS
  <2>1. Inv'
    BY NextInv DEF LruNext, Next, lruVars, vars
  <2>2. ASSUME UNCHANGED <<ll, recency>>
        PROVE  Ordered' /\ [Policy!Next]_<<recency, ll>>
    BY <2>2 DEF Ordered
  <2>3. ASSUME NEW k \in Keys, get(k), recency' = Policy!Used(recency, k)
        PROVE  Ordered' /\ [Policy!Next]_<<recency, ll>>
    BY <2>3, GetTouches DEF Policy!Next
  <2>4. ASSUME NEW k \in Keys, NEW m \in Manifests, add(k, m),
               recency' = Policy!Used(recency, k)
        PROVE  Ordered' /\ [Policy!Next]_<<recency, ll>>
    BY <2>4, AddAdmits DEF Policy!Next
  <2>5. ASSUME NEW k \in Keys, getMiss(k), UNCHANGED recency
        PROVE  Ordered' /\ [Policy!Next]_<<recency, ll>>
    BY <2>2, <2>5 DEF getMiss, vars
  <2> QED BY <2>1, <2>2, <2>3, <2>4, <2>5 DEF LruNext, lruVars
<1> QED BY <1>1, <1>2, PTL DEF LruSpec, EvictsLeastRecentlyUsed, Policy!Spec

=============================================================================
