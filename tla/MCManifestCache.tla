--------------------------- MODULE MCManifestCache ---------------------------
(***************************************************************************)
(* Instance of the manifest cache: four keys, manifests of 1, 2, 3 and 7   *)
(* units, room for three entries or five units.  So one add can evict      *)
(* none, one or two entries, for either budget, and the manifest of 7      *)
(* exceeds the byte budget alone.                                          *)
(***************************************************************************)
EXTENDS ManifestCacheLru

CONSTANTS k1, k2, k3, k4, tiny, small, medium, huge

MCKeys == {k1, k2, k3, k4}
MCManifests == {tiny, small, medium, huge}
MCApproxSize ==
    [m \in MCManifests |->
        CASE m = tiny -> 1 [] m = small -> 2 [] m = medium -> 3 [] m = huge -> 7]

=============================================================================
