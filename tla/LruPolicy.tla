------------------------------ MODULE LruPolicy ------------------------------
(***************************************************************************)
(* What a least-recently-used cache promises, whatever its budgets: of all *)
(* the keys ever used it holds the most recently used ones, and an entry   *)
(* that is admitted is held when the call that admits it returns.  How     *)
(* many entries are held is left open.                                     *)
(***************************************************************************)
EXTENDS LruList

CONSTANT Keys

VARIABLES
    recency,    \* every key used so far, the most recently used first
    resident    \* the keys the cache holds, the most recently used first

(* k becomes the most recently used key. *)
Used(s, k) ==
    IF k \in KeysOn(s) THEN MoveToFront(s, PositionOf(s, k)) ELSE PushFront(s, k)

Init ==
    /\ recency = <<>>
    /\ resident = <<>>

(* A lookup finds k. *)
Touch(k) ==
    /\ k \in KeysOn(resident)
    /\ recency' = Used(recency, k)
    /\ resident' = SubSeq(recency', 1, Len(resident))

(* k is admitted, or replaced, and older entries give way. *)
Admit(k) ==
    /\ recency' = Used(recency, k)
    /\ \E n \in 1..(Len(resident) + 1) :
         /\ n <= Len(recency')
         /\ resident' = SubSeq(recency', 1, n)

Next == \E k \in Keys : Touch(k) \/ Admit(k)

Spec == Init /\ [][Next]_<<recency, resident>>

=============================================================================
