------------------------------ MODULE Manifest ------------------------------
(***************************************************************************)
(* What Load (internal/manifest) makes of a published manifest.  The JSON  *)
(* is abstracted to a record: files (a function from the paths as they     *)
(* were published, a leading slash included, to [blob, cache,              *)
(* contentType]), noFiles (it has no object of files, so that the map is   *)
(* nil, as against one without entries), production, spa, notFound (a      *)
(* path, or NoPath) and createdAt (a second, or NoTime or Garbled if it is *)
(* absent or does not parse).                                              *)
(***************************************************************************)
EXTENDS CleanUrl

NoTime == -1
Garbled == -2
NoPath == <<Empty>>                 \* strings.Split("", "/")
NoBlob == ""

DefaultNotFound == <<<<"404", ".html">>>>

Slashed(k) == Len(k) > 1 /\ k[1] = Empty        \* strings.HasPrefix(k, "/")

(* strings.TrimLeft(k, "/") *)
TrimLeft(k) ==
    LET kept == {i \in 1..Len(k) : i = Len(k) \/ k[i] # Empty}
    IN  SubSeq(k, Min(kept), Len(k))

(* Fault: no spelling takes precedence over another. *)
FaultAnySpelling(files, ck) == {k \in DOMAIN files : TrimLeft(k) = ck}

(* The published spellings that may supply the entry of ck: its own, or,   *)
(* if there is none, whichever slash-prefixed one the map yields first.    *)
Spellings(files, ck) ==
    IF ck \in DOMAIN files /\ ~ Slashed(ck) THEN {ck}
    ELSE {k \in DOMAIN files : Slashed(k) /\ TrimLeft(k) = ck}

(* Every result the order of Go's map iteration allows. *)
canonicalizeFileKeys(files) ==
    LET keys == {TrimLeft(k) : k \in DOMAIN files}
        picks == {pick \in [keys -> DOMAIN files] :
                    \A ck \in keys : pick[ck] \in Spellings(files, ck)}
    IN  {[ck \in keys |-> files[pick[ck]]] : pick \in picks}

(* m.Files is nil, or a file has no blob. *)
Refused(published) ==
    published.noFiles \/ \E k \in DOMAIN published.files : published.files[k].blob = NoBlob

(* Fault: the keys are left as they were published. *)
FaultLoadAsPublished(published) ==
    IF Refused(published) THEN {} ELSE {published}

(* The manifests Load may return; none if it refuses the object. *)
Load(published) ==
    IF Refused(published) THEN {}
    ELSE {[published EXCEPT !.files = f] : f \in canonicalizeFileKeys(published.files)}

(* precompute's modTime, of which lastModified is the text. *)
ModTime(m) == IF m.createdAt = Garbled THEN NoTime ELSE m.createdAt

NotFoundDoc(m) == IF m.notFound = NoPath THEN DefaultNotFound ELSE m.notFound

=============================================================================
