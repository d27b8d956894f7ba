------------------------------ MODULE MCServing ------------------------------
(***************************************************************************)
(* An instance of serving: two requests, a release and an object that is   *)
(* no manifest, a blob of three bytes and known size, one of a byte whose  *)
(* size the store does not tell, and one that is not in the bucket.  A     *)
(* buffer takes two bytes, so that a copy needs two reads at least.        *)
(***************************************************************************)
EXTENDS Serving

CONSTANTS r1, r2, ka, bad, ma, page, feed, lost, builtin, b1, b2

MCManifests == {ma}
MCApproxSize == [m \in MCManifests |-> 1]
MCObject == [k \in Keys |-> IF k = ka THEN ma ELSE ErrParse]
MCLength == [b \in Bodies |-> IF b = page THEN 3 ELSE IF b = builtin THEN 2 ELSE 1]

=============================================================================
