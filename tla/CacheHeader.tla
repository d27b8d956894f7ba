---------------------------- MODULE CacheHeader ----------------------------
(***************************************************************************)
(* Cache-Control and validators (internal/cacheheader).  An entity tag is  *)
(* the digest it quotes, with the mark that a proxy has weakened it; an    *)
(* If-None-Match header is the set of its tags, {} when it is absent.      *)
(***************************************************************************)
AnyTag == [tag |-> "*", weak |-> FALSE]        \* If-None-Match: *

Immutable == "max-age=31536000"
Revalidate == "max-age=0"

CacheControl(class) == IF class = "immutable" THEN Immutable ELSE Revalidate

ETag(sha256) == [tag |-> sha256, weak |-> FALSE]

(* Fault: the mark of a weak tag is not stripped. *)
FaultNormalizeNothing(etag) == etag

normalizeETag(etag) == etag.tag

NotModified(ifNoneMatch, etag) ==
    \/ ifNoneMatch = {AnyTag}
    \/ \E candidate \in ifNoneMatch : normalizeETag(candidate) = normalizeETag(etag)

=============================================================================
