--------------------------- MODULE MCCachingStore ---------------------------
(***************************************************************************)
(* Instance of the caching store: a site with its manifest and blobs of    *)
(* several sizes around the two limits, one of which is reported as longer *)
(* than it is, and the manifest of a site that is named "blobs".           *)
(***************************************************************************)
EXTENDS CachingStore

CONSTANTS g1, g2

Manifest == ManifestKey("acme", "docs", "rel1")
TwoBytes == BlobKey("acme", "docs", "two")
ThreeBytes == BlobKey("acme", "docs", "three")
OverBudget == BlobKey("acme", "docs", "five")       \* within the ceiling only
OverCeiling == BlobKey("acme", "docs", "seven")
Unsized == BlobKey("acme", "docs", "unsized")
Overstated == BlobKey("acme", "docs", "overstated")
OfSiteBlobs == ManifestKey("acme", "blobs", "rel1")

MCObjects == {Manifest, TwoBytes, ThreeBytes, OverBudget, OverCeiling, Unsized,
              Overstated, OfSiteBlobs}
MCSize == [k \in MCObjects |->
    CASE k = ThreeBytes -> 3 [] k = OverBudget -> 5 [] k = OverCeiling -> 7
      [] k = Overstated -> 1 [] OTHER -> 2]
MCReported == [k \in MCObjects |->
    CASE k = Unsized -> Unknown [] k = Overstated -> 2 [] OTHER -> MCSize[k]]

=============================================================================
