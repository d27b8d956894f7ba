------------------------------- MODULE LruList -------------------------------
(***************************************************************************)
(* The list that both caches of the gateway keep their entries in: Go's    *)
(* container/list, whose front is the most recently used entry.  A list is *)
(* a sequence of cache keys, position 1 the front; an entry is identified  *)
(* by its key because both caches insert a key only when their index does  *)
(* not know it yet.  The sizes of the entries are a function sz on keys.   *)
(***************************************************************************)
EXTENDS Integers, Sequences

(* list.PushFront *)
PushFront(s, k) == <<k>> \o s

(* list.MoveToFront of the i-th element: the elements before it shift back. *)
MoveToFront(s, i) ==
    [j \in 1..Len(s) |-> IF j = 1 THEN s[i] ELSE IF j <= i THEN s[j-1] ELSE s[j]]

(* The element an index entry points to. *)
PositionOf(s, k) == CHOOSE i \in 1..Len(s) : s[i] = k

(* The list after n calls of list.Remove(list.Back()). *)
DropBack(s, n) == SubSeq(s, 1, Len(s) - n)

(* The keys on the list, and that no key is on it twice. *)
KeysOn(s) == {s[i] : i \in 1..Len(s)}
NoDuplicates(s) == \A i, j \in 1..Len(s) : s[i] = s[j] => i = j

(* PrefixBytes(s, sz)[i] is the sum of the sizes of the first i entries.   *)
PrefixBytes(s, sz) ==
    LET p[i \in 0..Len(s)] == IF i = 0 THEN 0 ELSE p[i-1] + sz[s[i]] IN p

TotalBytes(s, sz) == PrefixBytes(s, sz)[Len(s)]

(* The sum of the sizes of the last n entries: what n evictions subtract. *)
BackBytes(s, sz, n) == TotalBytes(s, sz) - PrefixBytes(s, sz)[Len(s) - n]

=============================================================================
