----------------------------- MODULE ObjectStore -----------------------------
(***************************************************************************)
(* What the Store interface (internal/blobstore/blobstore.go) promises the *)
(* gateway of Get: the answer is a reader of the object asked for, with    *)
(* the size the backend reports for it; or ErrNotExist, and then the       *)
(* object is not in the bucket; or another error.  Objects are immutable.  *)
(***************************************************************************)
CONSTANTS
    Gets,           \* callers of Get
    Objects,        \* keys of objects
    Reported,       \* key -> the size its reader reports, or Unknown
    ErrNotExist, ErrStore,
    None

VARIABLES
    stored,         \* the objects in the bucket
    asked,          \* the key each caller asks for, or None
    result          \* what Get returned to it, or None

Reader(k) == [key |-> k, size |-> Reported[k], whole |-> TRUE]

Init ==
    /\ stored \in SUBSET Objects
    /\ asked = [g \in Gets |-> None]
    /\ result = [g \in Gets |-> None]

Upload(k) ==
    /\ stored' = stored \cup {k}
    /\ UNCHANGED <<asked, result>>

Ask(g, k) ==
    /\ asked[g] = None
    /\ asked' = [asked EXCEPT ![g] = k]
    /\ UNCHANGED <<stored, result>>

Answer(g) ==
    /\ asked[g] # None
    /\ result[g] = None
    /\ \E v \in {ErrStore} \cup
                (IF asked[g] \in stored THEN {Reader(asked[g])} ELSE {ErrNotExist}) :
         result' = [result EXCEPT ![g] = v]
    /\ UNCHANGED <<stored, asked>>

Close(g) ==
    /\ result[g] # None
    /\ asked' = [asked EXCEPT ![g] = None]
    /\ result' = [result EXCEPT ![g] = None]
    /\ UNCHANGED stored

Next ==
    \/ \E k \in Objects : Upload(k)
    \/ \E g \in Gets :
        \/ \E k \in Objects : Ask(g, k)
        \/ Answer(g)
        \/ Close(g)

Spec == Init /\ [][Next]_<<stored, asked, result>>

=============================================================================
