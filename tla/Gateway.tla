------------------------------ MODULE Gateway ------------------------------
(***************************************************************************)
(* The request handler (internal/server/server.go) between an Ingress that *)
(* points a host at a release, and a client - a browser or the edge - that *)
(* keeps what it was served and revalidates it.  Releases are deployed and *)
(* rolled back while clients hold content of other releases; manifests are *)
(* evicted and loaded again; reads of blobs fail.                          *)
(*                                                                         *)
(* A request is one step: what its parts share with other requests is the  *)
(* subject of ManifestLoader, CachingStore and Metrics.                    *)
(***************************************************************************)
EXTENDS Manifest, CacheHeader, ContentType

CONSTANTS
    Releases,   \* the release prefixes, <<project, name, release-sha>>, that
                \*   the host may be pointed at
    Published,  \* release prefix -> its manifest as it was published
    Urls,       \* the paths a client may ask for; answers for one do not depend
                \*   on what is held for another
    Probes,     \* paths of requests that do not come through the Ingress
    Validators, \* what clients send back: "etag", "date"
    None

(* A project, a name and a sha are segments of a path, and not empty. *)
ASSUME ReleasesAssumption == \A r \in Releases :
    r \in Seq(STRING \X STRING) /\ Len(r) = 3 /\ \A i \in 1..3 : r[i] # Empty

(* The path of a request begins with a slash. *)
ASSUME UrlsAssumption == \A u \in Urls :
    u \in Seq(STRING \X STRING) /\ Len(u) > 1 /\ u[1] = Empty

ASSUME PublishedAssumption ==
    /\ DOMAIN Published \subseteq Releases
    /\ \A r \in DOMAIN Published :
        LET m == Published[r] IN
        /\ m = [files |-> m.files, production |-> m.production, spa |-> m.spa,
                notFound |-> m.notFound, createdAt |-> m.createdAt, noFiles |-> m.noFiles]
        /\ m.production \in BOOLEAN /\ m.noFiles \in BOOLEAN
        /\ m.createdAt \in Nat \cup {NoTime, Garbled}
        /\ m.files = [k \in DOMAIN m.files |-> m.files[k]]
        /\ \A k \in DOMAIN m.files : k \in Seq(STRING \X STRING) /\ k # <<>>

(* A fingerprinted file's path changes when its content does. *)
ASSUME FingerprintAssumption == \A r, q \in DOMAIN Published :
    \A k \in DOMAIN Published[r].files, j \in DOMAIN Published[q].files :
        /\ TrimLeft(k) = TrimLeft(j)
        /\ Published[r].files[k].cache = "immutable"
        => Published[q].files[j] = Published[r].files[k]

VARIABLES
    live,       \* the release the Ingress points the host at
    loaded,     \* its manifest in the manifest cache, or None; a release that
                \*   comes back may be read again
    url,        \* the path the client asks for, again and again
    held,       \* the response it keeps, or None
    last        \* the last request to the live release and its answer, or None

vars == <<live, loaded, url, held, last>>

-----------------------------------------------------------------------------
(* Responses. *)

NoTag == ETag("")
Page == "built-in 404 page"
Text == "error text"

(* No file is one of the gateway's own texts, or has "*" for its digest. *)
ASSUME ContentsAssumption == \A r \in DOMAIN Published :
    \A k \in DOMAIN Published[r].files :
        Published[r].files[k].blob \notin {Page, Text, AnyTag.tag}

(* The headers as they are when the handler starts. *)
Blank == [status |-> 0, body |-> "", etag |-> NoTag, lastModified |-> NoTime,
          cacheControl |-> "", robots |-> ""]

(* http.Error keeps the headers that are set, but for Content-Type and     *)
(* Content-Length.                                                         *)
Error(hdr, status) == [hdr EXCEPT !.status = status, !.body = Text]

setSecurityHeaders(hdr, m, html) ==
    IF html /\ ~ m.production THEN [hdr EXCEPT !.robots = "noindex"] ELSE hdr

(* Fault: If-Modified-Since is looked at first. *)
FaultDateFirst(req, etag, modTime) ==
    IF req.ifModifiedSince # NoTime /\ modTime # NoTime
    THEN modTime <= req.ifModifiedSince
    ELSE NotModified(req.ifNoneMatch, etag)

(* Times are in seconds, to which modTime is truncated. *)
conditionalNotModified(req, etag, modTime) ==
    IF req.ifNoneMatch # {} THEN NotModified(req.ifNoneMatch, etag)
    ELSE /\ req.ifModifiedSince # NoTime
         /\ modTime # NoTime
         /\ modTime <= req.ifModifiedSince

(* strings.HasPrefix(entry.ContentType, "text/html") *)
isHTML(entry) == entry.contentType = TextHTML

(* read is the outcome of the store's Get of the blob. *)
serveBlob(req, m, entry, status, read) ==
    LET hdr == setSecurityHeaders(
                 [Blank EXCEPT !.status = status, !.etag = ETag(entry.blob),
                               !.cacheControl = CacheControl(entry.cache),
                               !.lastModified = ModTime(m)],
                 m, isHTML(entry))
    IN  IF status = 200 /\ conditionalNotModified(req, ETag(entry.blob), ModTime(m))
        THEN [hdr EXCEPT !.status = 304]
        ELSE CASE req.method = "HEAD" -> hdr
               [] req.method = "GET" /\ read = "ok" -> [hdr EXCEPT !.body = entry.blob]
               [] req.method = "GET" /\ read = "absent" -> Error(hdr, 404)
               [] req.method = "GET" /\ read = "failed" -> Error(hdr, 500)

(* Faults of the 404 page: it is not treated as HTML; the release's own    *)
(* document is only looked for under the default name.                     *)
FaultNotFoundNotHTML(req, m, read) ==
    LET doc == NotFoundDoc(m) IN
    IF doc \in DOMAIN m.files
    THEN serveBlob(req, m, m.files[doc], 404, read)
    ELSE [Blank EXCEPT !.status = 404, !.cacheControl = CacheControl("html"),
                       !.body = IF req.method = "HEAD" THEN "" ELSE Page]

FaultNotFoundDefaultOnly(req, m, read) ==
    IF DefaultNotFound \in DOMAIN m.files
    THEN serveBlob(req, m, m.files[DefaultNotFound], 404, read)
    ELSE [Blank EXCEPT !.status = 404, !.cacheControl = CacheControl("html"),
                       !.body = IF req.method = "HEAD" THEN "" ELSE Page]

serveNotFound(req, m, read) ==
    LET doc == NotFoundDoc(m)
        hdr == setSecurityHeaders(
                 [Blank EXCEPT !.status = 404, !.cacheControl = CacheControl("html")],
                 m, TRUE)
    IN  IF doc \in DOMAIN m.files
        THEN serveBlob(req, m, m.files[doc], 404, read)
        ELSE [hdr EXCEPT !.body = IF req.method = "HEAD" THEN "" ELSE Page]

NoSite == [ok |-> FALSE, release |-> <<>>, rest |-> <<>>]

(* The first three segments of parts, and the rest from its slash on. *)
SiteOf(parts) ==
    [ok |-> TRUE, release |-> SubSeq(parts, 1, 3),
     rest |-> <<Empty>> \o IF Len(parts) > 3 THEN SubSeq(parts, 4, Len(parts))
                                             ELSE <<Empty>>]

(* Fault: the path is cleaned before it is split. *)
FaultParseCleaned(p) ==
    IF Len(normalize(p)) < 3 THEN NoSite ELSE SiteOf(normalize(p))

(* p is r.URL.Path; strings.TrimPrefix(p, "/") is split. *)
parseSite(p) ==
    LET parts == IF Len(p) > 1 /\ p[1] = Empty THEN Tail(p) ELSE p
    IN  IF Len(parts) < 3 \/ (\E i \in 1..3 : parts[i] = Empty) THEN NoSite
        ELSE SiteOf(parts)

(* ServeHTTP once the manifest m is there; p is r.URL.Path. *)
ServeHTTP(req, p, m, read) ==
    LET res == Resolve(parseSite(p).rest, DOMAIN m.files, m.spa)
    IN  IF res.kind = "NotFound" THEN serveNotFound(req, m, read)
        ELSE serveBlob(req, m, m.files[res.path], 200, read)

-----------------------------------------------------------------------------
(* The Ingress and the client. *)

(* The upstream-path annotation: the prefix of the live release, prepended *)
(* to the client's path.                                                   *)
UpstreamPath == <<Empty>> \o live \o Tail(url)

(* The held response may be used without asking. *)
Fresh == held # None /\ held.cacheControl = Immutable

(* The conditional headers a client that holds h sends: its tag, as it was *)
(* or weakened on the way, its date, or both.                              *)
Conditions(h) ==
    LET tags == IF h # None /\ h.etag # NoTag /\ "etag" \in Validators
                THEN {{h.etag}, {[h.etag EXCEPT !.weak = TRUE]}} ELSE {{}}
        dates == IF h # None /\ "date" \in Validators THEN {h.lastModified} ELSE {NoTime}
    IN  {[ifNoneMatch |-> t, ifModifiedSince |-> d] : t \in tags, d \in dates \cup {NoTime}}

(* What the client holds after the answer to a GET: on a 304 the response  *)
(* it had, with the headers of the answer.                                 *)
Kept(h, answer) ==
    IF answer.status = 304
    THEN [answer EXCEPT !.status = h.status, !.body = h.body]
    ELSE answer

-----------------------------------------------------------------------------
Init ==
    /\ live \in Releases
    /\ loaded = None
    /\ url \in Urls
    /\ held = None
    /\ last = None

(* A deploy, or a rollback. *)
Deploy(r) ==
    /\ r # live
    /\ live' = r
    /\ loaded' = None
    /\ last' = None
    /\ UNCHANGED <<url, held>>

(* The manifest cache gives the manifest up. *)
Evict ==
    /\ loaded # None
    /\ loaded' = None
    /\ UNCHANGED <<live, url, held, last>>

(* A request with another method than GET and HEAD. *)
MethodNotAllowed ==
    /\ last' = [method |-> "POST", answer |-> Error(Blank, 405)]
    /\ UNCHANGED <<live, loaded, url, held>>

(* A request without a release prefix. *)
BadRequest(p) ==
    /\ ~ parseSite(p).ok
    /\ last' = [method |-> "GET", answer |-> Error(Blank, 400)]
    /\ UNCHANGED <<live, loaded, url, held>>

(* loadManifest fails: no such release, or it cannot be read or parsed.    *)
(* The answer has no Cache-Control, and the client does not keep it.       *)
NoManifest(method) ==
    /\ ~ Fresh
    /\ loaded = None
    /\ \E status \in IF parseSite(UpstreamPath).release \in DOMAIN Published
                     THEN {500} ELSE {404, 500} :
         last' = [method |-> method, answer |-> Error(Blank, status)]
    /\ UNCHANGED <<live, loaded, url, held>>

(* A request that gets as far as the manifest. *)
Serve(method, read) ==
    LET release == parseSite(UpstreamPath).release IN
    /\ ~ Fresh
    /\ parseSite(UpstreamPath).ok
    /\ release \in DOMAIN Published
    /\ \E m \in IF loaded # None THEN {loaded} ELSE Load(Published[release]) :
         /\ loaded' = m
         /\ \E cond \in Conditions(held) :
              LET req == [method |-> method, ifNoneMatch |-> cond.ifNoneMatch,
                          ifModifiedSince |-> cond.ifModifiedSince]
                  answer == ServeHTTP(req, UpstreamPath, m, read)
              IN  /\ last' = [method |-> method, answer |-> answer]
                  /\ held' = IF method = "GET" THEN Kept(held, answer) ELSE held
    /\ UNCHANGED <<live, url>>

Next ==
    \/ \E r \in Releases : Deploy(r)
    \/ Evict
    \/ MethodNotAllowed
    \/ \E p \in Probes : BadRequest(p)
    \/ \E method \in {"GET", "HEAD"} :
        \/ NoManifest(method)
        \/ \E read \in {"ok", "absent", "failed"} : Serve(method, read)

Spec == Init /\ [][Next]_vars

-----------------------------------------------------------------------------
(* The contents of files, as against Page and Text. *)
Contents(r) == {Published[r].files[k].blob : k \in DOMAIN Published[r].files}
Blobs == (UNION {Contents(r) : r \in DOMAIN Published}) \ {NoBlob}

Responses == [status : {200, 404, 405, 400, 500, 304},
              body : Blobs \cup {"", Page, Text},
              etag : [tag : Blobs \cup {""}, weak : {FALSE}],
              lastModified : Nat \cup {NoTime},
              cacheControl : {Immutable, Revalidate, ""},
              robots : {"noindex", ""}]

(* The types of the variables: a manifest in memory has logical paths      *)
(* only, and a client never holds a bare 304.                              *)
TypeOK ==
    /\ live \in Releases
    /\ loaded # None => /\ live \in DOMAIN Published
                       /\ \A k \in DOMAIN loaded.files : ~ Slashed(k)
    /\ url \in Urls
    /\ held # None => held \in Responses /\ held.status \in {200, 404, 500}
    /\ last # None => /\ last.method \in {"GET", "HEAD", "POST"}
                     /\ last.answer \in Responses

(* The client was just answered, with content or with a 304. *)
JustAnswered ==
    /\ last # None /\ last.method = "GET"
    /\ last.answer.body # Text

(* What the live release serves to a client that holds nothing. *)
Current ==
    LET req == [method |-> "GET", ifNoneMatch |-> {}, ifModifiedSince |-> NoTime]
    IN  ServeHTTP(req, UpstreamPath, loaded, "ok")

(* "must always be revalidated so a pointer swap is visible on the next    *)
(* request" (cacheheader.go:17-18): through any deploys, rollbacks and     *)
(* reloads, when a client that returns entity tags has been answered, the  *)
(* content it shows - just received, or kept on a 304 - is what the live   *)
(* release has at its URL.  Dates it sends besides, older than a rollback, *)
(* do not mislead the handler (server.go:350-351: If-None-Match first).    *)
ContentIsCurrent ==
    JustAnswered /\ loaded # None /\ held.body # Text => held.body = Current.body

(* "the ETag (= blob sha256) turns each revalidation into a cheap 304"     *)
(* (README.md:56-57): no client is sent again the content it returns the   *)
(* tag of, even if a proxy weakened the tag or another release is live.    *)
CheapRevalidation ==
    [][ last' # last /\ last' # None /\ held # None =>
          \/ last'.answer.status # 200
          \/ last'.answer.body \notin Blobs
          \/ last'.answer.body # held.body ]_vars

(* "a crafted path can only ever resolve to a blob the requested release   *)
(* already references" (README.md:69-70): whatever path a client appends   *)
(* to the prefix, it is answered from the release the Ingress chose.       *)
ServesOwnRelease ==
    last # None /\ last.answer.body \in Blobs => last.answer.body \in Contents(live)

(* "the already-canonical entry wins" (manifest.go:163) and slash-prefixed *)
(* releases are healed: a client that asks for exactly a published path,   *)
(* however its publisher spelled it, sees a file published there.          *)
PublishedPathServed == JustAnswered /\ held.body # Text =>
    LET files == Published[live].files IN
    \A k \in DOMAIN files : url = <<Empty>> \o TrimLeft(k) =>
        /\ \E j \in DOMAIN files :
             TrimLeft(j) = TrimLeft(k) /\ held.body = files[j].blob
        /\ ~ Slashed(k) => held.body = files[k].blob

(* serveNotFound answers a miss with the document that the release names,  *)
(* or names by default, if the release has it, and with the built-in page  *)
(* if it has not (server.go:295-313) - even if its files were published    *)
(* with a leading slash, and the document is a page of the site besides.   *)
(* This is about a notFound that is a logical path, as file keys should    *)
(* be; Load rewrites the keys of files, and not notFound.                  *)
OwnNotFoundDoc ==
    LET files == Published[live].files
        doc == NotFoundDoc(Published[live])
        own == {k \in DOMAIN files : TrimLeft(k) = doc}
    IN  JustAnswered /\ last.answer.status = 404 /\ ~ Slashed(doc) =>
          IF own = {} THEN last.answer.body = Page
          ELSE last.answer.body \in {files[k].blob : k \in own}

(* "X-Robots-Tag: noindex on HTML responses" of previews (README.md:57-58) *)
(* and on no other: for pages, their 304s, the answers to HEAD and the     *)
(* built-in 404 page.  Content that is a page at one path and something    *)
(* else at another may have it or not.                                     *)
PreviewsHidden ==
    LET files == Published[live].files
        served == {k \in DOMAIN files : files[k].blob = last.answer.etag.tag}
        html == {k \in served : isHTML(files[k])}
        builtIn == last.answer.etag = NoTag
    IN  last # None /\ live \in DOMAIN Published /\ last.answer.body # Text =>
          /\ last.answer.robots = "noindex" =>
               ~ Published[live].production /\ (builtIn \/ html # {})
          /\ ~ Published[live].production /\ (builtIn \/ html = served) =>
               last.answer.robots = "noindex"

(* No path has two spellings with a leading slash and different entries.   *)
(* Of two such spellings the one the map yields first is taken             *)
(* (manifest.go:183).                                                      *)
OneSpelling(r) ==
    LET files == Published[r].files IN
    \A k, j \in DOMAIN files :
        Slashed(k) /\ Slashed(j) /\ TrimLeft(k) = TrimLeft(j) => files[k] = files[j]

(* "A release-sha is immutable, so the cache never needs invalidation"     *)
(* (README.md:29-30): while one release is live, evicted and loaded again, *)
(* a path serves one content, in whatever order the map yields its keys,   *)
(* if the release has no two slash-prefixed spellings of a path.           *)
SameReleaseSameContent ==
    [][ last # None /\ last' # None
        /\ last.answer.body \in Blobs /\ last'.answer.body \in Blobs
        /\ OneSpelling(live)
          => last'.answer.body = last.answer.body ]_vars

(* ETag is "the strong validator for a blob", and the immutable class is   *)
(* "for fingerprinted/hashed assets" (cacheheader.go:12, 42): no error     *)
(* text is kept as such an asset, or confirmed by a 304.                   *)
ErrorsNotConfirmed ==
    Fresh \/ (JustAnswered /\ last.answer.status = 304) => held.body # Text

=============================================================================
