---------------------------- MODULE LruListProofs ----------------------------
(***************************************************************************)
(* Facts about the list operators of LruList that the proofs of both       *)
(* caches rest on: what PushFront, MoveToFront and DropBack do to the keys *)
(* of a list and to the sum of its sizes.                                  *)
(***************************************************************************)
EXTENDS LruList, SequenceTheorems, WellFoundedInduction, TLAPS

(* Every non-empty set of natural numbers has a least element. *)
LEMMA LeastNumber ==
    ASSUME NEW T, T \subseteq Nat, T # {}
    PROVE  \E x \in T : \A y \in T : x <= y
<1> DEFINE R == {ss \in Nat \X Nat : ss[1] < ss[2]}
<1>1. IsWellFoundedOn(R, Nat)
  BY NatLessThanWellFounded DEF OpToRel
<1>2. PICK x \in T : \A y \in T : ~ (<<y, x>> \in R)
  <2> HIDE DEF R
  <2> QED BY <1>1, WFMin
<1>3. ASSUME NEW y \in T PROVE x <= y
  <2>1. <<y, x>> \in Nat \X Nat /\ <<y, x>>[1] = y /\ <<y, x>>[2] = x
    OBVIOUS
  <2>2. ~ (y < x)
    BY <1>2, <2>1
  <2> QED BY <2>2
<1> QED BY <1>3

(* p holds the partial sums of the numbers a[1], ..., a[n]. *)
Sums(p, a, n) ==
    /\ p \in [0..n -> Nat]
    /\ p[0] = 0
    /\ \A i \in 1..n : p[i] = p[i-1] + a[i]

(* Partial sums exist. *)
LEMMA SumsExist ==
    ASSUME NEW n \in Nat, NEW a, \A i \in 1..n : a[i] \in Nat
    PROVE  \E p : Sums(p, a, n)
<1> DEFINE T == {m \in 0..n : ~ \E p : Sums(p, a, m)}
<1>1. SUFFICES ASSUME T # {} PROVE FALSE
  OBVIOUS
<1>2. PICK m \in T : \A y \in T : m <= y
  <2>1. T \subseteq Nat
    OBVIOUS
  <2> HIDE DEF T
  <2> QED BY <1>1, <2>1, LeastNumber
<1>3. m # 0
  <2>1. Sums([i \in 0..0 |-> 0], a, 0)
    BY DEF Sums
  <2> QED BY <2>1
<1>4. m - 1 \in 0..n /\ m - 1 \notin T
  BY <1>2, <1>3
<1>5. PICK p : Sums(p, a, m - 1)
  BY <1>4
<1> DEFINE q == [i \in 0..m |-> IF i = m THEN p[m-1] + a[m] ELSE p[i]]
<1>6. m \in Nat /\ m <= n /\ m >= 1
  BY <1>3
<1>7. q \in [0..m -> Nat]
  <2>1. a[m] \in Nat
    BY <1>6
  <2> QED BY <1>5, <1>6, <2>1 DEF Sums
<1>8. q[0] = 0
  BY <1>5, <1>6 DEF Sums
<1>9. ASSUME NEW i \in 1..m PROVE q[i] = q[i-1] + a[i]
  <2>1. i \in 0..m /\ i - 1 \in 0..m /\ i - 1 # m
    BY <1>6
  <2>2. q[i-1] = p[i-1]
    BY <2>1
  <2>3. CASE i = m
    BY <2>1, <2>2, <2>3
  <2>4. CASE i # m
    <3>1. i \in 1..(m-1) /\ q[i] = p[i]
      BY <1>6, <2>1, <2>4
    <3> QED BY <1>5, <2>2, <3>1 DEF Sums
  <2> QED BY <2>3, <2>4
<1>10. Sums(q, a, m)
  BY <1>7, <1>8, <1>9 DEF Sums
<1> QED BY <1>10

(* ... and are unique. *)
LEMMA SumsUnique ==
    ASSUME NEW n \in Nat, NEW a, NEW p, NEW q, Sums(p, a, n), Sums(q, a, n)
    PROVE  \A i \in 0..n : p[i] = q[i]
<1> DEFINE T == {m \in 0..n : p[m] # q[m]}
<1>1. SUFFICES ASSUME T # {} PROVE FALSE
  OBVIOUS
<1>2. PICK m \in T : \A y \in T : m <= y
  <2>1. T \subseteq Nat
    OBVIOUS
  <2> HIDE DEF T
  <2> QED BY <1>1, <2>1, LeastNumber
<1>3. m # 0
  BY DEF Sums
<1>4. m - 1 \in 0..n /\ m - 1 \notin T
  BY <1>2, <1>3
<1> QED BY <1>3, <1>4 DEF Sums

(* Partial sums of natural numbers grow. *)
LEMMA SumsMonotonic ==
    ASSUME NEW n \in Nat, NEW a, NEW p, Sums(p, a, n),
           \A i \in 1..n : a[i] \in Nat, NEW i \in 0..n
    PROVE  \A j \in i..n : p[i] <= p[j]
<1> DEFINE T == {m \in i..n : ~ (p[i] <= p[m])}
<1>1. SUFFICES ASSUME T # {} PROVE FALSE
  OBVIOUS
<1>2. PICK m \in T : \A y \in T : m <= y
  <2>1. T \subseteq Nat
    OBVIOUS
  <2> HIDE DEF T
  <2> QED BY <1>1, <2>1, LeastNumber
<1>3. \A j \in 0..n : p[j] \in Nat
  BY DEF Sums
<1>4. m # i
  BY <1>3
<1>5. m - 1 \in i..n /\ m \in 1..n /\ m - 1 \notin T
  BY <1>2, <1>4
<1>6. p[i] <= p[m-1]
  BY <1>5
<1>7. p[m] = p[m-1] + a[m] /\ a[m] \in Nat
  BY <1>5 DEF Sums
<1>8. p[i] \in Nat /\ p[m-1] \in Nat
  BY <1>3, <1>5
<1>9. p[i] <= p[m]
  BY <1>6, <1>7, <1>8
<1> QED BY <1>9

(* The sizes of a list's entries, front to back. *)
SizesOf(s, sz) == [i \in 1..Len(s) |-> sz[s[i]]]

(* PrefixBytes is what its recursive definition says. *)
LEMMA PrefixBytesSums ==
    ASSUME NEW K, NEW s \in Seq(K), NEW sz, \A i \in 1..Len(s) : sz[s[i]] \in Nat
    PROVE  Sums(PrefixBytes(s, sz), SizesOf(s, sz), Len(s))
<1> DEFINE n == Len(s)
           a == SizesOf(s, sz)
           Rec(p) == p = [i \in 0..n |-> IF i = 0 THEN 0 ELSE p[i-1] + sz[s[i]]]
<1>1. n \in Nat /\ \A i \in 1..n : a[i] = sz[s[i]] /\ a[i] \in Nat
  BY DEF SizesOf
<1>2. PICK q : Sums(q, a, n)
  <2> HIDE DEF a, n
  <2> QED BY <1>1, SumsExist
<1>3. Rec(q)
  <2> SUFFICES ASSUME NEW i \in 0..n
               PROVE  q[i] = IF i = 0 THEN 0 ELSE q[i-1] + sz[s[i]]
    BY <1>2 DEF Sums
  <2> QED BY <1>1, <1>2 DEF Sums
<1>4. PrefixBytes(s, sz) = CHOOSE p : Rec(p)
  BY DEF PrefixBytes
<1>5. Rec(PrefixBytes(s, sz))
  <2> HIDE DEF Rec
  <2> QED BY <1>3, <1>4
<1> DEFINE P == PrefixBytes(s, sz)
           T == {m \in 0..n : P[m] # q[m]}
<1>6. /\ P[0] = 0 /\ q[0] = 0
      /\ \A i \in 1..n : P[i] = P[i-1] + sz[s[i]] /\ q[i] = q[i-1] + sz[s[i]]
  <2> DEFINE Body(f) == [i \in 0..n |-> IF i = 0 THEN 0 ELSE f[i-1] + sz[s[i]]]
  <2>1. \A f : /\ Body(f)[0] = 0
              /\ \A i \in 1..n : Body(f)[i] = f[i-1] + sz[s[i]]
    BY <1>1
  <2>2. P = Body(P) /\ q = Body(q)
    BY <1>3, <1>5
  <2> HIDE DEF P, Body
  <2> QED BY <2>1, <2>2
<1>7. ASSUME T # {} PROVE FALSE
  <2>1. PICK m \in T : \A y \in T : m <= y
    <3>1. T \subseteq Nat
      OBVIOUS
    <3> HIDE DEF T
    <3> QED BY <1>7, <3>1, LeastNumber
  <2> HIDE DEF P
  <2>2. m # 0
    BY <1>6
  <2>3. m \in 1..n /\ m - 1 \in 0..n /\ m - 1 \notin T
    BY <2>1, <2>2
  <2> QED BY <1>6, <2>3
<1>8. P = q
  <2> HIDE DEF P
  <2>1. Rec(P)
    BY <1>5 DEF P
  <2>2. \A i \in 0..n : P[i] = q[i]
    BY <1>7
  <2> QED BY <1>3, <2>1, <2>2
<1> QED BY <1>2, <1>8

(* Whatever satisfies the equations of PrefixBytes is PrefixBytes. *)
LEMMA PrefixBytesIs ==
    ASSUME NEW K, NEW s \in Seq(K), NEW sz, \A i \in 1..Len(s) : sz[s[i]] \in Nat,
           NEW q, Sums(q, SizesOf(s, sz), Len(s))
    PROVE  \A i \in 0..Len(s) : PrefixBytes(s, sz)[i] = q[i]
<1>1. Sums(PrefixBytes(s, sz), SizesOf(s, sz), Len(s))
  BY PrefixBytesSums
<1>2. Len(s) \in Nat
  OBVIOUS
<1> QED BY <1>1, <1>2, SumsUnique

(* The sum of the sizes is a natural number. *)
LEMMA TotalBytesType ==
    ASSUME NEW K, NEW s \in Seq(K), NEW sz, \A i \in 1..Len(s) : sz[s[i]] \in Nat
    PROVE  TotalBytes(s, sz) \in Nat
BY PrefixBytesSums DEF TotalBytes, Sums

-----------------------------------------------------------------------------
(* list.PushFront shifts the entries back by one. *)
LEMMA PushFrontList ==
    ASSUME NEW K, NEW s \in Seq(K), NEW k \in K
    PROVE  /\ PushFront(s, k) \in Seq(K)
           /\ Len(PushFront(s, k)) = Len(s) + 1
           /\ PushFront(s, k)[1] = k
           /\ \A i \in 2..(Len(s) + 1) : PushFront(s, k)[i] = s[i-1]
BY DEF PushFront

(* A key that is not on the list yet joins its keys. *)
LEMMA PushFrontKeys ==
    ASSUME NEW K, NEW s \in Seq(K), NEW k \in K, NoDuplicates(s), k \notin KeysOn(s)
    PROVE  /\ NoDuplicates(PushFront(s, k))
           /\ KeysOn(PushFront(s, k)) = KeysOn(s) \cup {k}
<1> DEFINE t == PushFront(s, k)
<1>1. /\ Len(t) = Len(s) + 1 /\ t[1] = k
      /\ \A i \in 2..(Len(s) + 1) : t[i] = s[i-1]
  BY PushFrontList
<1>2. Len(s) \in Nat
  OBVIOUS
<1> HIDE DEF t
<1>3. NoDuplicates(t)
  <2>1. \A i \in 2..Len(t) : i - 1 \in 1..Len(s) /\ t[i] = s[i-1]
    BY <1>1, <1>2
  <2>2. \A i \in 2..Len(t) : t[i] # k
    BY <2>1 DEF KeysOn
  <2> SUFFICES ASSUME NEW i \in 1..Len(t), NEW j \in 1..Len(t), t[i] = t[j]
               PROVE  i = j
    BY DEF NoDuplicates
  <2>3. CASE i = 1 \/ j = 1
    BY <1>1, <1>2, <2>2, <2>3
  <2>4. CASE i # 1 /\ j # 1
    <3>1. i \in 2..Len(t) /\ j \in 2..Len(t)
      BY <1>1, <1>2, <2>4
    <3>2. i - 1 = j - 1
      BY <2>1, <3>1 DEF NoDuplicates
    <3> QED BY <3>2
  <2> QED BY <2>3, <2>4
<1>4. KeysOn(t) \subseteq KeysOn(s) \cup {k}
  <2> SUFFICES ASSUME NEW i \in 1..Len(t) PROVE t[i] \in KeysOn(s) \cup {k}
    BY DEF KeysOn
  <2>1. CASE i = 1
    BY <1>1, <2>1
  <2>2. CASE i # 1
    <3>1. i \in 2..(Len(s) + 1) /\ i - 1 \in 1..Len(s)
      BY <1>1, <1>2, <2>2
    <3>2. t[i] = s[i-1]
      BY <1>1, <3>1
    <3> QED BY <3>1, <3>2 DEF KeysOn
  <2> QED BY <2>1, <2>2
<1>5. k \in KeysOn(t)
  BY <1>1, <1>2 DEF KeysOn
<1>6. ASSUME NEW i \in 1..Len(s) PROVE s[i] \in KeysOn(t)
  <2>1. i + 1 \in 1..Len(t) /\ t[i+1] = s[i]
    BY <1>1, <1>2
  <2> QED BY <2>1 DEF KeysOn
<1>7. KeysOn(s) \subseteq KeysOn(t)
  BY <1>6 DEF KeysOn
<1> QED BY <1>3, <1>4, <1>5, <1>7 DEF t

(* ... and its size joins the sum. *)
LEMMA PushFrontBytes ==
    ASSUME NEW K, NEW s \in Seq(K), NEW k \in K, NEW sz, NEW sz2,
           \A i \in 1..Len(s) : sz[s[i]] \in Nat /\ sz2[s[i]] = sz[s[i]],
           sz2[k] \in Nat
    PROVE  TotalBytes(PushFront(s, k), sz2) = TotalBytes(s, sz) + sz2[k]
<1> DEFINE n == Len(s)
           p == PrefixBytes(s, sz)
           t == PushFront(s, k)
           q == [i \in 0..(n+1) |-> IF i = 0 THEN 0 ELSE sz2[k] + p[i-1]]
<1>1. n \in Nat
  OBVIOUS
<1>2. /\ t \in Seq(K) /\ Len(t) = n + 1 /\ t[1] = k
      /\ \A i \in 2..(n + 1) : t[i] = s[i-1]
  BY DEF PushFront
<1>3. /\ p \in [0..n -> Nat] /\ p[0] = 0
      /\ \A i \in 1..n : p[i] = p[i-1] + sz[s[i]]
  BY PrefixBytesSums DEF Sums, SizesOf
<1> HIDE DEF n, p, t
<1>4. ASSUME NEW i \in 1..(n+1) PROVE sz2[t[i]] \in Nat
  <2>1. CASE i = 1
    BY <1>2, <2>1
  <2>2. CASE i # 1
    <3>1. i \in 2..(n + 1) /\ i - 1 \in 1..Len(s)
      BY <1>1, <2>2 DEF n
    <3> QED BY <1>2, <3>1
  <2> QED BY <2>1, <2>2
<1>5. Sums(q, SizesOf(t, sz2), n + 1)
  <2>1. q \in [0..(n+1) -> Nat] /\ q[0] = 0
    BY <1>1, <1>3
  <2>2. ASSUME NEW i \in 1..(n+1) PROVE q[i] = q[i-1] + SizesOf(t, sz2)[i]
    <3>1. SizesOf(t, sz2)[i] = sz2[t[i]]
      BY <1>2 DEF SizesOf
    <3>2. CASE i = 1
      BY <1>1, <1>2, <1>3, <3>1, <3>2
    <3>3. CASE i # 1
      <4>1. i - 1 \in 1..n /\ i \in 2..(n+1) /\ i - 1 # 0
        BY <1>1, <3>3
      <4>2. q[i] = sz2[k] + p[i-1] /\ q[i-1] = sz2[k] + p[i-2]
        BY <1>1, <4>1
      <4>3. p[i-1] = p[i-2] + sz[s[i-1]]
        BY <1>1, <1>3, <4>1
      <4>4. sz2[t[i]] = sz[s[i-1]] /\ sz[s[i-1]] \in Nat
        BY <1>2, <4>1 DEF n
      <4>5. p[i-2] \in Nat
        BY <1>1, <1>3, <4>1
      <4> QED BY <3>1, <4>2, <4>3, <4>4, <4>5
    <3> QED BY <3>2, <3>3
  <2> QED BY <2>1, <2>2 DEF Sums
<1>6. PrefixBytes(t, sz2)[n+1] = q[n+1]
  <2>1. \A i \in 0..(n+1) : PrefixBytes(t, sz2)[i] = q[i]
    <3> HIDE DEF q
    <3> QED BY <1>2, <1>4, <1>5, PrefixBytesIs
  <2> QED BY <1>1, <2>1
<1>7. q[n+1] = sz2[k] + p[n]
  BY <1>1
<1>8. p[n] \in Nat
  BY <1>1, <1>3
<1> QED BY <1>2, <1>6, <1>7, <1>8 DEF TotalBytes, t, p, n

-----------------------------------------------------------------------------
(* The element an index entry points to is on the list. *)
LEMMA PositionOfKey ==
    ASSUME NEW s, NEW k \in KeysOn(s)
    PROVE  PositionOf(s, k) \in 1..Len(s) /\ s[PositionOf(s, k)] = k
BY DEF PositionOf, KeysOn

(* list.MoveToFront permutes the list. *)
LEMMA MoveToFrontList ==
    ASSUME NEW K, NEW s \in Seq(K), NEW i \in 1..Len(s)
    PROVE  /\ MoveToFront(s, i) \in Seq(K)
           /\ Len(MoveToFront(s, i)) = Len(s)
           /\ MoveToFront(s, i)[1] = s[i]
           /\ \A j \in 2..i : MoveToFront(s, i)[j] = s[j-1]
           /\ \A j \in (i+1)..Len(s) : MoveToFront(s, i)[j] = s[j]
<1> DEFINE t == MoveToFront(s, i)
<1>1. Len(s) \in Nat /\ Len(s) >= 1 /\ i \in Nat
  OBVIOUS
<1>2. t \in [1..Len(s) -> K]
  BY <1>1 DEF MoveToFront
<1>3. t \in Seq(K) /\ Len(t) = Len(s)
  <2> HIDE DEF t
  <2> QED BY <1>1, <1>2
<1>4. t[1] = s[i]
  BY <1>1 DEF MoveToFront
<1>5. ASSUME NEW j \in 2..i PROVE t[j] = s[j-1]
  BY <1>1 DEF MoveToFront
<1>6. ASSUME NEW j \in (i+1)..Len(s) PROVE t[j] = s[j]
  BY <1>1 DEF MoveToFront
<1> QED BY <1>3, <1>4, <1>5, <1>6

(* ... and so keeps its keys. *)
LEMMA MoveToFrontKeys ==
    ASSUME NEW K, NEW s \in Seq(K), NEW i \in 1..Len(s), NoDuplicates(s)
    PROVE  /\ NoDuplicates(MoveToFront(s, i))
           /\ KeysOn(MoveToFront(s, i)) = KeysOn(s)
<1> DEFINE t == MoveToFront(s, i)
           n == Len(s)
           from(j) == IF j = 1 THEN i ELSE IF j <= i THEN j - 1 ELSE j
<1>1. n \in Nat /\ i \in 1..n
  OBVIOUS
<1>2. Len(t) = n
  BY MoveToFrontList
<1>3. ASSUME NEW j \in 1..n PROVE from(j) \in 1..n /\ t[j] = s[from(j)]
  <2>1. /\ t[1] = s[i] /\ \A l \in 2..i : t[l] = s[l-1]
        /\ \A l \in (i+1)..n : t[l] = s[l]
    BY MoveToFrontList
  <2> HIDE DEF t, n
  <2>2. CASE j = 1
    BY <1>1, <2>1, <2>2
  <2>3. CASE j # 1 /\ j <= i
    <3>1. j \in 2..i
      BY <1>1, <2>3
    <3> QED BY <1>1, <2>1, <2>3, <3>1
  <2>4. CASE j > i
    <3>1. j \in (i+1)..n /\ j # 1
      BY <1>1, <2>4
    <3> QED BY <1>1, <2>1, <2>4, <3>1
  <2> QED BY <1>1, <2>2, <2>3, <2>4
<1>4. \A j, l \in 1..n : from(j) = from(l) => j = l
  BY <1>1
<1>5. ASSUME NEW j \in 1..n PROVE \E l \in 1..n : from(l) = j
  <2>1. CASE j = i
    BY <1>1, <2>1
  <2>2. CASE j < i
    <3>1. j + 1 \in 1..n /\ from(j + 1) = j
      BY <1>1, <2>2
    <3> QED BY <3>1
  <2>3. CASE j > i
    BY <1>1, <2>3
  <2> QED BY <1>1, <2>1, <2>2, <2>3
<1> HIDE DEF t, from
<1>6. NoDuplicates(t)
  <2> SUFFICES ASSUME NEW j \in 1..n, NEW l \in 1..n, t[j] = t[l] PROVE j = l
    BY <1>2 DEF NoDuplicates
  <2>1. from(j) = from(l)
    BY <1>3 DEF NoDuplicates
  <2> QED BY <1>4, <2>1
<1>7. KeysOn(t) \subseteq KeysOn(s)
  BY <1>2, <1>3 DEF KeysOn
<1>8. ASSUME NEW j \in 1..n PROVE s[j] \in KeysOn(t)
  <2>1. PICK l \in 1..n : from(l) = j
    BY <1>5
  <2> QED BY <1>2, <1>3, <2>1 DEF KeysOn
<1>9. KeysOn(s) \subseteq KeysOn(t)
  BY <1>8 DEF KeysOn
<1> QED BY <1>6, <1>7, <1>9 DEF t

(* Moving the i-th entry to the front while its size changes changes the   *)
(* sum by the difference of its sizes.                                     *)
LEMMA MoveToFrontBytes ==
    ASSUME NEW K, NEW s \in Seq(K), NEW i \in 1..Len(s), NEW sz, NEW sz2,
           \A j \in 1..Len(s) : sz[s[j]] \in Nat /\ sz2[s[j]] \in Nat,
           \A j \in 1..Len(s) : j # i => sz2[s[j]] = sz[s[j]]
    PROVE  TotalBytes(MoveToFront(s, i), sz2)
             = TotalBytes(s, sz) + (sz2[s[i]] - sz[s[i]])
<1> DEFINE n == Len(s)
           p == PrefixBytes(s, sz)
           t == MoveToFront(s, i)
           new == sz2[s[i]]
           old == sz[s[i]]
           Q(j) == IF j = 0 THEN 0
                   ELSE IF j <= i THEN p[j-1] + new
                   ELSE p[j] + new - old
           q == [j \in 0..n |-> Q(j)]
<1>1. n \in Nat /\ i \in 1..n /\ new \in Nat /\ old \in Nat
  OBVIOUS
<1>2. t \in Seq(K) /\ Len(t) = n /\ t[1] = s[i]
  <2> HIDE DEF p, q
  <2> QED BY MoveToFrontList
<1>2a. /\ \A j \in 2..i : t[j] = s[j-1]
       /\ \A j \in (i+1)..n : t[j] = s[j]
  <2> HIDE DEF p, q
  <2> QED BY MoveToFrontList
<1>3. /\ p \in [0..n -> Nat] /\ p[0] = 0
      /\ \A j \in 1..n : p[j] = p[j-1] + sz[s[j]]
  BY PrefixBytesSums DEF Sums, SizesOf
<1>4. \A j \in 1..n : sz[s[j]] \in Nat /\ (j # i => sz2[s[j]] = sz[s[j]])
  OBVIOUS
<1>4a. p[i] = p[i-1] + old
  BY <1>1, <1>3
<1> HIDE DEF n, p, t, new, old
<1>5. \A j \in i..n : p[i] <= p[j]
  <2>1. Sums(p, SizesOf(s, sz), n)
    BY PrefixBytesSums DEF p, n
  <2>2. \A j \in 1..n : SizesOf(s, sz)[j] \in Nat
    BY <1>4 DEF SizesOf, n
  <2>3. n \in Nat /\ i \in 0..n
    BY <1>1
  <2> HIDE DEF q
  <2> QED BY <2>1, <2>2, <2>3, SumsMonotonic
<1>6. q \in [0..n -> Nat] /\ q[0] = 0
  <2>1. ASSUME NEW j \in 0..n PROVE Q(j) \in Nat
    <3>1. CASE j = 0
      BY <3>1
    <3>2. CASE j # 0 /\ j <= i
      BY <1>1, <1>3, <3>2
    <3>3. CASE j > i
      <4>1. p[j] \in Nat /\ p[i-1] \in Nat /\ p[j] >= p[i-1] + old
        <5>1. j \in i..n
          BY <1>1, <3>3
        <5> QED BY <1>1, <1>3, <1>4a, <1>5, <5>1
      <4>2. Q(j) = p[j] + new - old
        BY <1>1, <3>3
      <4> QED BY <1>1, <4>1, <4>2
    <3> QED BY <1>1, <3>1, <3>2, <3>3
  <2>2. 0 \in 0..n /\ Q(0) = 0
    BY <1>1
  <2> HIDE DEF Q
  <2> QED BY <2>1, <2>2
<1>7. ASSUME NEW j \in 1..n PROVE sz2[t[j]] \in Nat /\ q[j] = q[j-1] + sz2[t[j]]
  <2>0. p[j] \in Nat /\ p[j-1] \in Nat /\ (j >= 2 => p[j-2] \in Nat)
    BY <1>1, <1>3
  <2>1. CASE j = 1
    BY <1>1, <1>2, <1>3, <2>1 DEF new
  <2>2. CASE j # 1 /\ j <= i
    <3>1. j \in 2..i /\ j - 1 \in 1..n /\ j - 1 # i
      BY <1>1, <2>2
    <3>2. t[j] = s[j-1] /\ sz2[s[j-1]] = sz[s[j-1]] /\ sz[s[j-1]] \in Nat
      BY <1>2a, <1>4, <3>1
    <3>3. q[j] = p[j-1] + new /\ q[j-1] = p[j-2] + new
      BY <1>1, <3>1
    <3>4. p[j-1] = p[j-2] + sz[s[j-1]]
      BY <1>3, <3>1
    <3> QED BY <1>1, <2>0, <3>1, <3>2, <3>3, <3>4
  <2>3. CASE j > i
    <3>1. j \in (i+1)..n /\ j # i
      BY <1>1, <2>3
    <3>2. t[j] = s[j] /\ sz2[s[j]] = sz[s[j]] /\ sz[s[j]] \in Nat
      BY <1>2a, <1>4, <3>1
    <3>3. q[j] = p[j] + new - old
      BY <1>1, <3>1
    <3>4. q[j-1] = p[j-1] + new - old
      <4>1. CASE j - 1 = i
        <5>1. q[j-1] = p[i-1] + new
          BY <1>1, <4>1
        <5>2. p[i-1] \in Nat
          BY <1>1, <1>3
        <5> QED BY <1>1, <1>4a, <4>1, <5>1, <5>2
      <4>2. CASE j - 1 # i
        BY <1>1, <3>1, <4>2
      <4> QED BY <4>1, <4>2
    <3>5. p[j] = p[j-1] + sz[s[j]]
      BY <1>3
    <3> QED BY <1>1, <2>0, <3>2, <3>3, <3>4, <3>5
  <2> QED BY <1>1, <2>1, <2>2, <2>3
<1>8. Sums(q, SizesOf(t, sz2), n)
  <2>1. \A j \in 1..n : SizesOf(t, sz2)[j] = sz2[t[j]]
    BY <1>2 DEF SizesOf
  <2> HIDE DEF q
  <2> QED BY <1>6, <1>7, <2>1 DEF Sums
<1>9. PrefixBytes(t, sz2)[n] = q[n]
  <2>1. \A j \in 0..n : PrefixBytes(t, sz2)[j] = q[j]
    <3> HIDE DEF q
    <3> QED BY <1>2, <1>7, <1>8, PrefixBytesIs
  <2> QED BY <1>1, <2>1
<1>10. q[n] = p[n] + (new - old)
  <2>1. p[n] \in Nat /\ p[i-1] \in Nat
    BY <1>1, <1>3
  <2>2. CASE i = n
    BY <1>1, <1>4a, <2>1, <2>2
  <2>3. CASE i # n
    BY <1>1, <2>1, <2>3
  <2> QED BY <2>2, <2>3
<1> QED BY <1>2, <1>9, <1>10 DEF TotalBytes, t, p, n, new, old

-----------------------------------------------------------------------------
(* Dropping n entries from the back keeps the others in place. *)
LEMMA DropBackList ==
    ASSUME NEW K, NEW s \in Seq(K), NEW n \in 0..Len(s)
    PROVE  /\ DropBack(s, n) \in Seq(K)
           /\ Len(DropBack(s, n)) = Len(s) - n
           /\ \A j \in 1..(Len(s) - n) : DropBack(s, n)[j] = s[j]
BY DEF DropBack

(* ... so that what is left is what was there without the victims. *)
LEMMA DropBackKeys ==
    ASSUME NEW K, NEW s \in Seq(K), NEW n \in 0..Len(s), NoDuplicates(s)
    PROVE  /\ NoDuplicates(DropBack(s, n))
           /\ KeysOn(DropBack(s, n))
                = KeysOn(s) \ {s[i] : i \in (Len(s) - n + 1)..Len(s)}
<1> DEFINE t == DropBack(s, n)
           len == Len(s)
<1>1. len \in Nat /\ n \in 0..len
  OBVIOUS
<1>2. Len(t) = len - n /\ \A j \in 1..(len - n) : t[j] = s[j]
  BY DropBackList
<1> HIDE DEF t
<1>3. NoDuplicates(t)
  <2> SUFFICES ASSUME NEW i \in 1..Len(t), NEW j \in 1..Len(t), t[i] = t[j]
               PROVE  i = j
    BY DEF NoDuplicates
  <2>1. i \in 1..len /\ j \in 1..len /\ t[i] = s[i] /\ t[j] = s[j]
    BY <1>1, <1>2
  <2> QED BY <2>1 DEF NoDuplicates
<1>4. ASSUME NEW i \in 1..Len(t)
      PROVE  t[i] \in KeysOn(s) /\ t[i] \notin {s[j] : j \in (len - n + 1)..len}
  <2>1. i \in 1..len /\ i \in 1..(len - n) /\ t[i] = s[i]
    BY <1>1, <1>2
  <2>2. ASSUME NEW j \in (len - n + 1)..len PROVE s[i] # s[j]
    <3>1. j \in 1..len /\ i # j
      BY <1>1, <2>1
    <3> QED BY <2>1, <3>1 DEF NoDuplicates
  <2> QED BY <2>1, <2>2 DEF KeysOn
<1>5. ASSUME NEW i \in 1..len, s[i] \notin {s[j] : j \in (len - n + 1)..len}
      PROVE  s[i] \in KeysOn(t)
  <2>1. i \in 1..Len(t) /\ t[i] = s[i]
    BY <1>1, <1>2, <1>5
  <2> QED BY <2>1 DEF KeysOn
<1>6. KeysOn(t) = KeysOn(s) \ {s[j] : j \in (len - n + 1)..len}
  BY <1>4, <1>5 DEF KeysOn
<1> QED BY <1>3, <1>6 DEF t

(* ... and gives back BackBytes. *)
LEMMA DropBackBytes ==
    ASSUME NEW K, NEW s \in Seq(K), NEW n \in 0..Len(s), NEW sz, NEW sz2,
           \A j \in 1..Len(s) : sz[s[j]] \in Nat,
           \A j \in 1..(Len(s) - n) : sz2[s[j]] = sz[s[j]]
    PROVE  /\ TotalBytes(DropBack(s, n), sz2) = TotalBytes(s, sz) - BackBytes(s, sz, n)
           /\ BackBytes(s, sz, n) \in 0..TotalBytes(s, sz)
<1> DEFINE len == Len(s)
           m == Len(s) - n
           p == PrefixBytes(s, sz)
           t == DropBack(s, n)
           q == [j \in 0..m |-> p[j]]
<1>1. len \in Nat /\ m \in 0..len
  OBVIOUS
<1>2. t \in Seq(K) /\ Len(t) = m /\ \A j \in 1..m : t[j] = s[j]
  BY DEF DropBack
<1>3. Sums(p, SizesOf(s, sz), len)
  BY PrefixBytesSums
<1>4. /\ p \in [0..len -> Nat] /\ p[0] = 0
      /\ \A j \in 1..len : p[j] = p[j-1] + sz[s[j]]
  BY <1>3 DEF Sums, SizesOf
<1> HIDE DEF p, t, m
<1>5. ASSUME NEW j \in 1..m PROVE sz2[t[j]] = sz[s[j]] /\ sz2[t[j]] \in Nat
  BY <1>1, <1>2 DEF m
<1>6. Sums(q, SizesOf(t, sz2), m)
  <2>1. q \in [0..m -> Nat] /\ q[0] = 0
    BY <1>1, <1>4
  <2>2. ASSUME NEW j \in 1..m PROVE q[j] = q[j-1] + SizesOf(t, sz2)[j]
    <3>1. SizesOf(t, sz2)[j] = sz[s[j]]
      BY <1>2, <1>5 DEF SizesOf
    <3>2. q[j] = p[j] /\ q[j-1] = p[j-1] /\ j \in 1..len
      BY <1>1
    <3> QED BY <1>4, <3>1, <3>2
  <2> QED BY <2>1, <2>2 DEF Sums
<1>7. PrefixBytes(t, sz2)[m] = p[m]
  <2>1. \A j \in 0..m : PrefixBytes(t, sz2)[j] = q[j]
    <3> HIDE DEF q
    <3> QED BY <1>2, <1>5, <1>6, PrefixBytesIs
  <2> QED BY <1>1, <2>1
<1>8. p[m] \in Nat /\ p[len] \in Nat /\ p[m] <= p[len]
  <2>1. \A j \in 1..len : SizesOf(s, sz)[j] \in Nat
    BY DEF SizesOf
  <2>2. \A j \in m..len : p[m] <= p[j]
    BY <1>1, <1>3, <2>1, SumsMonotonic
  <2>3. len \in m..len /\ m \in 0..len /\ len \in 0..len
    BY <1>1
  <2> QED BY <1>4, <2>2, <2>3
<1>9. BackBytes(s, sz, n) = p[len] - p[m]
  BY DEF BackBytes, TotalBytes, p, m
<1>10. TotalBytes(s, sz) = p[len] /\ TotalBytes(t, sz2) = p[m]
  BY <1>2, <1>7 DEF TotalBytes, p
<1> QED BY <1>8, <1>9, <1>10 DEF t

-----------------------------------------------------------------------------
(* t is the front of r: what the caches hold of the keys ever used. *)
FrontOf(t, r) == Len(t) <= Len(r) /\ \A j \in 1..Len(t) : t[j] = r[j]

(* r with k as its most recently used key. *)
WithFront(r, k) ==
    IF k \in KeysOn(r) THEN MoveToFront(r, PositionOf(r, k)) ELSE PushFront(r, k)

(* A front is a subsequence. *)
LEMMA FrontIsSubSeq ==
    ASSUME NEW K, NEW t \in Seq(K), NEW r \in Seq(K), FrontOf(t, r)
    PROVE  t = SubSeq(r, 1, Len(t))
<1> DEFINE u == SubSeq(r, 1, Len(t))
<1>1. Len(t) \in Nat /\ Len(r) \in Nat /\ Len(t) <= Len(r)
  BY DEF FrontOf
<1>2. u \in Seq(K) /\ Len(u) = Len(t) /\ \A j \in 1..Len(t) : u[j] = r[j]
  BY <1>1
<1> HIDE DEF u
<1>3. \A j \in 1..Len(t) : t[j] = u[j]
  BY <1>2 DEF FrontOf
<1>4. t = u
  BY <1>2, <1>3, SeqEqual
<1> QED BY <1>4 DEF u

(* Using a key keeps the keys of r distinct, and puts it first. *)
LEMMA WithFrontList ==
    ASSUME NEW K, NEW r \in Seq(K), NEW k \in K, NoDuplicates(r)
    PROVE  /\ WithFront(r, k) \in Seq(K)
           /\ NoDuplicates(WithFront(r, k))
           /\ Len(WithFront(r, k)) >= Len(r)
<1>1. CASE k \in KeysOn(r)
  <2> DEFINE i == PositionOf(r, k)
  <2>1. i \in 1..Len(r)
    BY <1>1, PositionOfKey
  <2>2. WithFront(r, k) = MoveToFront(r, i)
    BY <1>1 DEF WithFront
  <2> HIDE DEF i
  <2>3. NoDuplicates(MoveToFront(r, i))
    BY <2>1, MoveToFrontKeys
  <2>4. MoveToFront(r, i) \in Seq(K) /\ Len(MoveToFront(r, i)) = Len(r)
    BY <2>1, MoveToFrontList
  <2> QED BY <2>2, <2>3, <2>4
<1>2. CASE k \notin KeysOn(r)
  <2>1. WithFront(r, k) = PushFront(r, k)
    BY <1>2 DEF WithFront
  <2>2. NoDuplicates(PushFront(r, k))
    BY <1>2, PushFrontKeys
  <2>3. PushFront(r, k) \in Seq(K) /\ Len(PushFront(r, k)) = Len(r) + 1
    BY PushFrontList
  <2>4. Len(r) \in Nat
    OBVIOUS
  <2> QED BY <2>1, <2>2, <2>3, <2>4
<1> QED BY <1>1, <1>2

(* Moving a key of a front to its front moves it to the front of all. *)
LEMMA MoveToFrontOfFront ==
    ASSUME NEW K, NEW r \in Seq(K), NEW s \in Seq(K), NEW k \in K,
           NoDuplicates(r), FrontOf(s, r), k \in KeysOn(s)
    PROVE  FrontOf(MoveToFront(s, PositionOf(s, k)), WithFront(r, k))
<1> DEFINE i == PositionOf(s, k)
           h == PositionOf(r, k)
           n == Len(s)
<1>1. i \in 1..n /\ s[i] = k
  BY PositionOfKey
<1>2. n \in Nat /\ Len(r) \in Nat /\ n <= Len(r) /\ \A j \in 1..n : s[j] = r[j]
  BY DEF FrontOf
<1>3. i \in 1..Len(r) /\ r[i] = k
  BY <1>1, <1>2
<1>4. k \in KeysOn(r)
  BY <1>3 DEF KeysOn
<1>5. h = i
  <2>1. h \in 1..Len(r) /\ r[h] = k
    BY <1>4, PositionOfKey
  <2> QED BY <1>3, <2>1 DEF NoDuplicates
<1>6. WithFront(r, k) = MoveToFront(r, i)
  BY <1>4, <1>5 DEF WithFront
<1> HIDE DEF i, h
<1> DEFINE t == MoveToFront(s, i)
           u == MoveToFront(r, i)
<1>7. /\ Len(t) = n /\ t[1] = s[i]
      /\ \A j \in 2..i : t[j] = s[j-1]
      /\ \A j \in (i+1)..n : t[j] = s[j]
  BY <1>1, MoveToFrontList
<1>8. /\ Len(u) = Len(r) /\ u[1] = r[i]
      /\ \A j \in 2..i : u[j] = r[j-1]
      /\ \A j \in (i+1)..Len(r) : u[j] = r[j]
  BY <1>3, MoveToFrontList
<1> HIDE DEF t, u, n
<1>9. ASSUME NEW j \in 1..n PROVE t[j] = u[j]
  <2>1. CASE j = 1
    BY <1>1, <1>3, <1>7, <1>8, <2>1
  <2>2. CASE j # 1 /\ j <= i
    <3>1. j \in 2..i /\ j - 1 \in 1..n
      BY <1>1, <1>2, <2>2
    <3> QED BY <1>2, <1>7, <1>8, <3>1
  <2>3. CASE j > i
    <3>1. j \in (i+1)..n /\ j \in (i+1)..Len(r)
      BY <1>1, <1>2, <2>3
    <3> QED BY <1>2, <1>7, <1>8, <3>1
  <2> QED BY <1>1, <1>2, <2>1, <2>2, <2>3
<1>10. FrontOf(t, u)
  BY <1>2, <1>7, <1>8, <1>9 DEF FrontOf
<1> QED BY <1>6, <1>10 DEF t, u, i

(* A key that is not on the front joins it, whether it was used before or  *)
(* not.                                                                    *)
LEMMA PushFrontOfFront ==
    ASSUME NEW K, NEW r \in Seq(K), NEW s \in Seq(K), NEW k \in K,
           NoDuplicates(r), FrontOf(s, r), k \notin KeysOn(s)
    PROVE  FrontOf(PushFront(s, k), WithFront(r, k))
<1> DEFINE n == Len(s)
           t == PushFront(s, k)
           u == WithFront(r, k)
<1>1. n \in Nat /\ Len(r) \in Nat /\ n <= Len(r) /\ \A j \in 1..n : s[j] = r[j]
  BY DEF FrontOf
<1>2. Len(t) = n + 1 /\ t[1] = k /\ \A j \in 2..(n + 1) : t[j] = s[j-1]
  BY PushFrontList
<1>3. CASE k \in KeysOn(r)
  <2> DEFINE i == PositionOf(r, k)
  <2>1. i \in 1..Len(r) /\ r[i] = k
    BY <1>3, PositionOfKey
  <2> HIDE DEF i
  <2>2. i > n
    <3>1. ASSUME i \in 1..n PROVE FALSE
      <4>1. s[i] = k
        BY <1>1, <2>1, <3>1
      <4> QED BY <3>1, <4>1 DEF KeysOn
    <3> QED BY <1>1, <2>1, <3>1
  <2>3. u = MoveToFront(r, i)
    BY <1>3 DEF WithFront, i
  <2>4. Len(u) = Len(r) /\ u[1] = k /\ \A j \in 2..i : u[j] = r[j-1]
    BY <2>1, <2>3, MoveToFrontList
  <2> HIDE DEF t, u, n
  <2>5. ASSUME NEW j \in 1..(n + 1) PROVE t[j] = u[j]
    <3>1. CASE j = 1
      BY <1>2, <2>4, <3>1
    <3>2. CASE j # 1
      <4>1. j \in 2..(n + 1) /\ j \in 2..i /\ j - 1 \in 1..n
        BY <1>1, <2>1, <2>2, <3>2
      <4> QED BY <1>1, <1>2, <2>4, <4>1
    <3> QED BY <3>1, <3>2
  <2>6. n + 1 <= Len(u)
    BY <1>1, <2>1, <2>2, <2>4
  <2> QED BY <1>2, <2>5, <2>6 DEF FrontOf, t, u
<1>4. CASE k \notin KeysOn(r)
  <2>1. u = PushFront(r, k)
    BY <1>4 DEF WithFront
  <2>2. Len(u) = Len(r) + 1 /\ u[1] = k /\ \A j \in 2..(Len(r) + 1) : u[j] = r[j-1]
    BY <2>1, PushFrontList
  <2> HIDE DEF t, u, n
  <2>3. ASSUME NEW j \in 1..(n + 1) PROVE t[j] = u[j]
    <3>1. CASE j = 1
      BY <1>2, <2>2, <3>1
    <3>2. CASE j # 1
      <4>1. j \in 2..(n + 1) /\ j \in 2..(Len(r) + 1) /\ j - 1 \in 1..n
        BY <1>1, <3>2
      <4> QED BY <1>1, <1>2, <2>2, <4>1
    <3> QED BY <3>1, <3>2
  <2>4. n + 1 <= Len(u)
    BY <1>1, <2>2
  <2> QED BY <1>2, <2>3, <2>4 DEF FrontOf, t, u
<1> QED BY <1>3, <1>4

(* Evictions from the back keep a front a front. *)
LEMMA DropBackOfFront ==
    ASSUME NEW K, NEW s \in Seq(K), NEW r \in Seq(K), FrontOf(s, r),
           NEW n \in 0..Len(s)
    PROVE  FrontOf(DropBack(s, n), r)
<1>1. Len(s) \in Nat /\ Len(r) \in Nat
  OBVIOUS
<1>2. Len(DropBack(s, n)) = Len(s) - n /\ \A j \in 1..(Len(s) - n) : DropBack(s, n)[j] = s[j]
  BY DropBackList
<1> QED BY <1>1, <1>2 DEF FrontOf

=============================================================================
