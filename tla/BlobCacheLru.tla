---------------------------- MODULE BlobCacheLru ----------------------------
(***************************************************************************)
(* The blob cache with a history variable that orders the keys by their    *)
(* last use, and the obligation that it is an LRU cache in the sense of    *)
(* LruPolicy.  A body the cache declines is not a use of its key.          *)
(***************************************************************************)
EXTENDS BlobCache

VARIABLE recency    \* history: the keys used so far, last used first

lruVars == <<ll, idx, bytes, spinning, recency>>

Policy == INSTANCE LruPolicy WITH resident <- ll

LruInit == Init /\ recency = <<>>

LruNext == \E k \in Keys :
    \/ get(k) /\ recency' = Policy!Used(recency, k)
    \/ getMiss(k) /\ UNCHANGED recency
    \/ \E d \in Data :
        \/ decline(k, d) /\ UNCHANGED recency
        \/ (refresh(k, d) \/ insert(k, d)) /\ recency' = Policy!Used(recency, k)

LruSpec == LruInit /\ [][LruNext]_lruVars

(* "evicting least-recently-used entries until within budget"              *)
(* (cache.go:151): the resident keys are the most recently used ones, and  *)
(* a body that is not declined stays until a later add needs its room.     *)
EvictsLeastRecentlyUsed == Policy!Spec

=============================================================================
