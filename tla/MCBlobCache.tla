---------------------------- MODULE MCBlobCache ----------------------------
(***************************************************************************)
(* Instance of the blob cache: four keys, bodies of 0, 1, 2, 4 and 6 bytes *)
(* and a budget of 5, so that one add can evict up to four entries, bodies *)
(* of no bytes are dropped only on the way to others, and the body of 6 is *)
(* declined.                                                               *)
(***************************************************************************)
EXTENDS BlobCacheLru

CONSTANTS k1, k2, k3, k4

MCKeys == {k1, k2, k3, k4}
MCData == {0, 1, 2, 4, 6}
MCLength == [d \in MCData |-> d]

=============================================================================
