-------------------------- MODULE ManifestCacheLru --------------------------
(***************************************************************************)
(* The manifest cache with a history variable that orders every key ever   *)
(* used by its last use, and the proof obligation that the cache is an LRU *)
(* cache in the sense of LruPolicy.                                        *)
(***************************************************************************)
EXTENDS ManifestCache

VARIABLE recency    \* history: the keys used so far, last used first

lruVars == <<ll, idx, bytes, recency>>

Policy == INSTANCE LruPolicy WITH resident <- ll

LruInit == Init /\ recency = <<>>

LruNext == \E k \in Keys :
    \/ get(k) /\ recency' = Policy!Used(recency, k)
    \/ getMiss(k) /\ UNCHANGED recency
    \/ (\E m \in Manifests : add(k, m)) /\ recency' = Policy!Used(recency, k)

LruSpec == LruInit /\ [][LruNext]_lruVars

(* "Eviction is least-recently-used; a single manifest larger than the     *)
(* whole byte budget is never self-evicted" (cache.go:19-20): at all times *)
(* the resident keys are exactly the most recently used ones, and an add   *)
(* leaves its own key resident.                                            *)
EvictsLeastRecentlyUsed == Policy!Spec

=============================================================================
