----------------------------- MODULE StorageKeys -----------------------------
(***************************************************************************)
(* The names of objects in the bucket (internal/blobstore).  A key is the  *)
(* sequence of its path segments.  Segments are ordinary names: path.Join  *)
(* would drop an empty segment or a dot and resolve a double dot, and the  *)
(* control plane hands out no such project, site or digest.                *)
(***************************************************************************)
EXTENDS Integers, Sequences

ManifestKey(project, name, releaseSHA) ==
    <<"sites", project, name, "releases", releaseSHA>>

BlobKey(project, name, blobSHA) ==
    <<"sites", project, name, "blobs", blobSHA>>

(* strings.Contains(key, "/blobs/"): a segment, neither first nor last. *)
isBlobKey(key) == \E i \in 2..(Len(key) - 1) : key[i] = "blobs"

=============================================================================
