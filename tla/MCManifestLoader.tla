-------------------------- MODULE MCManifestLoader --------------------------
(***************************************************************************)
(* Instances of the loader.  The cache holds one manifest, so that two     *)
(* releases evict one another and are read again; a third key may hold     *)
(* bytes that do not parse.                                                *)
(***************************************************************************)
EXTENDS ManifestLoader, TLC

CONSTANTS r1, r2, r3, ka, kb, bad, ma, mb

MCManifests == {ma, mb}
MCApproxSize == [m \in MCManifests |-> 1]
MCObject == [k \in Keys |-> CASE k = ka -> ma [] k = kb -> mb [] k = bad -> ErrParse]

RequestSymmetry == Permutations(Requests)

=============================================================================
