--------------------------- MODULE GatewayProofs ---------------------------
(***************************************************************************)
(* What the request handler serves, for all releases, whatever their files *)
(* are and in whatever order they are deployed, and all paths.             *)
(***************************************************************************)
EXTENDS Gateway, SequenceTheorems, TLAPS

Lists == INSTANCE LruListProofs

-----------------------------------------------------------------------------
(* The manifests Load makes of a release: they differ from it in the       *)
(* spelling of the paths.                                                  *)
LEMMA LoadedManifest ==
    ASSUME NEW r \in DOMAIN Published, NEW m \in Load(Published[r])
    PROVE  /\ m = [files |-> m.files, production |-> Published[r].production,
                   spa |-> Published[r].spa, notFound |-> Published[r].notFound,
                   createdAt |-> Published[r].createdAt, noFiles |-> Published[r].noFiles]
           /\ m.files = [ck \in DOMAIN m.files |-> m.files[ck]]
           /\ DOMAIN m.files = {TrimLeft(k) : k \in DOMAIN Published[r].files}
           /\ \A ck \in DOMAIN m.files : \E k \in DOMAIN Published[r].files :
                k \in Spellings(Published[r].files, ck) /\ m.files[ck] = Published[r].files[k]
           /\ \A k \in DOMAIN Published[r].files : Published[r].files[k].blob # NoBlob
<1> DEFINE p == Published[r]
           keys == {TrimLeft(k) : k \in DOMAIN p.files}
<1>1. PICK f \in canonicalizeFileKeys(p.files) : m = [p EXCEPT !.files = f]
  BY DEF Load, Refused
<1>2. PICK pick \in [keys -> DOMAIN p.files] :
             /\ \A ck \in keys : pick[ck] \in Spellings(p.files, ck)
             /\ f = [ck \in keys |-> p.files[pick[ck]]]
  BY DEF canonicalizeFileKeys
<1>3. \A k \in DOMAIN p.files : p.files[k].blob # NoBlob
  BY DEF Load, Refused
<1>4. p = [files |-> p.files, production |-> p.production, spa |-> p.spa,
           notFound |-> p.notFound, createdAt |-> p.createdAt, noFiles |-> p.noFiles]
  BY PublishedAssumption
<1>5. m = [files |-> f, production |-> p.production, spa |-> p.spa,
           notFound |-> p.notFound, createdAt |-> p.createdAt, noFiles |-> p.noFiles]
  BY <1>1, <1>4
<1>6. m.files = f
  BY <1>5
<1>7. f = [ck \in DOMAIN f |-> f[ck]]
  BY <1>2
<1> HIDE DEF p
<1> QED BY <1>2, <1>3, <1>5, <1>6, <1>7 DEF p

-----------------------------------------------------------------------------
(* Resolve names a file of the release, or none. *)
LEMMA ResolveFinds ==
    ASSUME NEW p, NEW files, NEW spa, Resolve(p, files, spa).kind # "NotFound"
    PROVE  Resolve(p, files, spa).path \in files
<1> DEFINE c == Candidates(p)
           found == {i \in 1..Len(c) : c[i] \in files}
<1>1. CASE found = {}
  <2>1. Resolve(p, files, spa) = miss(files, spa)
    BY <1>1 DEF Resolve
  <2> QED BY <2>1 DEF miss
<1>2. CASE found # {}
  <2>1. Resolve(p, files, spa) = [kind |-> "Hit", path |-> c[Min(found)]]
    BY <1>2 DEF Resolve
  <2>2. Len(c) \in {1, 3}
    BY DEF Candidates
  <2>3. \E x \in found : \A y \in found : x <= y
    <3>1. found \subseteq {1, 2, 3}
      BY <2>2
    <3> HIDE DEF found
    <3>2. CASE 1 \in found
      BY <3>1, <3>2
    <3>3. CASE 1 \notin found /\ 2 \in found
      BY <3>1, <3>3
    <3>4. CASE 1 \notin found /\ 2 \notin found
      <4>1. found = {3}
        BY <1>2, <3>1, <3>4
      <4> QED BY <4>1
    <3> QED BY <3>2, <3>3, <3>4
  <2>4. Min(found) \in found
    BY <2>3 DEF Min
  <2> QED BY <2>1, <2>4
<1> QED BY <1>1, <1>2

-----------------------------------------------------------------------------
(* normalize, as a walk over the segments of the path. *)

Stepped(w, segment) ==
    CASE segment \in {Empty, Dot} -> w
      [] segment = DotDot -> SubSeq(w, 1, Len(w) - 1)
      [] OTHER -> Append(w, segment)

IsWalk(p, n, w) ==
    w = [i \in 0..n |-> IF i = 0 THEN <<>> ELSE Stepped(w[i-1], p[i])]

(* For every number of segments there is one: by the least for which there *)
(* is none.                                                                *)
LEMMA WalkExists ==
    ASSUME NEW p, NEW n \in Nat
    PROVE  \E w : IsWalk(p, n, w)
<1> DEFINE bad == {k \in Nat : ~ \E w : IsWalk(p, k, w)}
<1> SUFFICES ASSUME bad # {} PROVE FALSE
  OBVIOUS
<1>1. PICK k \in bad : \A j \in bad : k <= j
  <2>1. bad \in SUBSET Nat
    OBVIOUS
  <2> HIDE DEF bad
  <2> QED BY <2>1, Lists!LeastNumber
<1>2. k # 0
  <2>1. IsWalk(p, 0, [i \in 0..0 |-> <<>>])
    BY DEF IsWalk
  <2> QED BY <2>1
<1>3. k \in Nat /\ k - 1 \in Nat /\ k - 1 \notin bad
  BY <1>1, <1>2
<1>4. PICK v : IsWalk(p, k - 1, v)
  BY <1>3
<1> DEFINE w == [i \in 0..k |-> IF i = k THEN Stepped(v[k-1], p[k]) ELSE v[i]]
<1>5. IsWalk(p, k, w)
  BY <1>2, <1>3, <1>4 DEF IsWalk
<1> QED BY <1>1, <1>5

(* normalize returns where it ends. *)
LEMMA NormalizeWalks ==
    ASSUME NEW p, Len(p) \in Nat
    PROVE  \E w : IsWalk(p, Len(p), w) /\ normalize(p) = w[Len(p)]
<1>1. \E w : IsWalk(p, Len(p), w)
  BY WalkExists
<1> DEFINE W == CHOOSE w : IsWalk(p, Len(p), w)
<1>2. IsWalk(p, Len(p), W)
  BY <1>1
<1>3. normalize(p) = W[Len(p)]
  BY DEF normalize, IsWalk, Stepped
<1> QED BY <1>2, <1>3

(* A path that is logical already, asked for from the root. *)
Logical(k) == \A i \in 1..Len(k) : k[i] \notin {Empty, Dot, DotDot}

(* normalize leaves it as it is. *)
LEMMA NormalizeKeeps ==
    ASSUME NEW S, NEW k \in Seq(S), Empty \in S, Logical(k)
    PROVE  normalize(<<Empty>> \o k) = k
<1> DEFINE h == <<Empty>>
           p == h \o k
<1>1. h \in Seq(S) /\ Len(h) = 1 /\ h[1] = Empty
  OBVIOUS
<1> HIDE DEF h
<1>2. /\ p \in Seq(S) /\ Len(p) = Len(h) + Len(k)
      /\ \A i \in 1..Len(h) + Len(k) : p[i] = IF i <= Len(h) THEN h[i] ELSE k[i - Len(h)]
  BY <1>1, ConcatProperties, Zenon
<1> HIDE DEF p
<1> DEFINE n == Len(k)
<1>3. n \in Nat
  OBVIOUS
<1>4. Len(p) = n + 1 /\ p[1] = Empty /\ \A i \in 1..n : p[i + 1] = k[i]
  BY <1>1, <1>2
<1>5. PICK w : IsWalk(p, n + 1, w) /\ normalize(p) = w[n + 1]
  BY <1>3, <1>4, NormalizeWalks
<1>6. w[0] = <<>> /\ \A i \in 1..n + 1 : w[i] = Stepped(w[i - 1], p[i])
  <2> DEFINE N == n + 1
  <2>1. N \in Nat
    BY <1>3
  <2>2. w = [i \in 0..N |-> IF i = 0 THEN <<>> ELSE Stepped(w[i-1], p[i])]
    BY <1>5 DEF IsWalk
  <2> HIDE DEF N
  <2>3. 0 \in 0..N /\ \A i \in 1..N : i \in 0..N /\ i # 0
    BY <2>1
  <2>4. \A i \in 0..N : w[i] = IF i = 0 THEN <<>> ELSE Stepped(w[i-1], p[i])
    BY <2>2, Zenon
  <2>5. w[0] = <<>>
    BY <2>3, <2>4
  <2>6. \A i \in 1..N : w[i] = Stepped(w[i - 1], p[i])
    BY <2>3, <2>4
  <2> QED BY <2>5, <2>6 DEF N
<1>7. w[1] = <<>>
  <2>1. \A v : Stepped(v, Empty) = v
    <3>1. Empty # DotDot
      BY DEF Empty, DotDot
    <3> QED BY <3>1 DEF Stepped
  <2>2. w[1] = Stepped(w[1 - 1], p[1])
    <3>1. 1 \in 1..n + 1
      BY <1>3
    <3> HIDE DEF n
    <3> QED BY <1>6, <3>1, Zenon
  <2>3. 1 - 1 = 0
    OBVIOUS
  <2> QED BY <1>4, <1>6, <2>1, <2>2, <2>3
<1> DEFINE bad == {i \in 0..n : w[i + 1] # SubSeq(k, 1, i)}
<1>8. bad = {}
  <2> SUFFICES ASSUME bad # {} PROVE FALSE
    OBVIOUS
  <2>1. PICK i \in bad : \A j \in bad : i <= j
    <3>1. bad \subseteq Nat
      OBVIOUS
    <3> HIDE DEF bad
    <3> QED BY <3>1, Lists!LeastNumber
  <2>2. i # 0
    <3>1. SubSeq(k, 1, 0) = <<>>
      OBVIOUS
    <3>2. 0 + 1 = 1
      OBVIOUS
    <3>3. i \in bad
      BY <2>1
    <3> QED BY <1>7, <3>1, <3>2, <3>3
  <2>3. i \in 1..n /\ i - 1 \in 0..n /\ i - 1 \notin bad
    <3>1. i \in 0..n
      BY <2>1
    <3>2. i \in 1..n /\ i - 1 \in 0..n /\ ~ (i <= i - 1)
      BY <1>3, <2>2, <3>1
    <3> HIDE DEF bad
    <3> QED BY <2>1, <3>2
  <2>4. w[i] = SubSeq(k, 1, i - 1)
    BY <1>3, <2>3
  <2>5. w[i + 1] = Stepped(w[i], k[i])
    <3>1. i + 1 \in 1..n + 1 /\ i + 1 - 1 = i
      BY <1>3, <2>3
    <3>2. w[i + 1] = Stepped(w[i + 1 - 1], p[i + 1])
      <4> DEFINE j == i + 1
                 N == n + 1
      <4>1. j \in 1..N /\ \A x \in 1..N : w[x] = Stepped(w[x - 1], p[x])
        BY <1>6, <3>1
      <4> HIDE DEF j, N
      <4>2. w[j] = Stepped(w[j - 1], p[j])
        BY <4>1
      <4> QED BY <4>2 DEF j
    <3>3. p[i + 1] = k[i]
      <4> HIDE DEF n
      <4> QED BY <1>4, <2>3, Zenon
    <3> QED BY <3>1, <3>2, <3>3
  <2>6. Stepped(w[i], k[i]) = Append(w[i], k[i])
    BY <2>3 DEF Stepped, Logical
  <2>7. Append(SubSeq(k, 1, i - 1), k[i]) = SubSeq(k, 1, i)
    <3> DEFINE s == SubSeq(k, 1, i - 1)
               t == SubSeq(k, 1, i)
    <3>1. s \in Seq(S) /\ Len(s) = i - 1 /\ \A j \in 1..i - 1 : s[j] = k[j]
      BY <2>3
    <3>2. t \in Seq(S) /\ Len(t) = i /\ \A j \in 1..i : t[j] = k[j]
      BY <2>3
    <3>3. k[i] \in S
      BY <2>3
    <3> HIDE DEF s, t
    <3>4. Append(s, k[i]) \in Seq(S) /\ Len(Append(s, k[i])) = i
      BY <2>3, <3>1, <3>3
    <3>5. \A j \in 1..i : Append(s, k[i])[j] = k[j]
      BY <2>3, <3>1, <3>3
    <3> QED BY <3>2, <3>4, <3>5, SeqEqual DEF s, t
  <2> QED BY <2>1, <2>4, <2>5, <2>6, <2>7
<1>9. w[n + 1] = SubSeq(k, 1, n)
  BY <1>3, <1>8
<1>10. SubSeq(k, 1, n) = k
  OBVIOUS
<1> QED BY <1>5, <1>9, <1>10 DEF p, h

(* And it is the first entry that Resolve asks for. *)
LEMMA LogicalIsFound ==
    ASSUME NEW S, NEW k \in Seq(S), Empty \in S, k # <<>>, Logical(k),
           NEW files, k \in files, NEW spa
    PROVE  Resolve(<<Empty>> \o k, files, spa) = [kind |-> "Hit", path |-> k]
<1> DEFINE h == <<Empty>>
           p == h \o k
           c == Candidates(p)
           found == {i \in 1..Len(c) : c[i] \in files}
<1>1. h \in Seq(S) /\ Len(h) = 1
  OBVIOUS
<1>2. normalize(p) = k
  BY NormalizeKeeps
<1> HIDE DEF h
<1>3. /\ p \in Seq(S) /\ Len(p) = Len(h) + Len(k)
      /\ \A i \in 1..Len(h) + Len(k) : p[i] = IF i <= Len(h) THEN h[i] ELSE k[i - Len(h)]
  BY <1>1, ConcatProperties, Zenon
<1>4. Len(k) \in Nat /\ Len(k) > 0
  OBVIOUS
<1> HIDE DEF p
<1>5. ~ trailingSlash(p)
  <2>1. p[Len(p)] = k[Len(k)]
    BY <1>1, <1>3, <1>4
  <2>2. k[Len(k)] # Empty
    BY <1>4 DEF Logical
  <2> QED BY <2>1, <2>2 DEF trailingSlash
<1>6. c = IF Ext(k) = "" THEN <<k, joinIndex(k), PlusHTML(k)>> ELSE <<k>>
  BY <1>2, <1>5 DEF Candidates
<1> DEFINE a == joinIndex(k)
           b == PlusHTML(k)
<1> HIDE DEF a, b
<1>7. Len(c) \in {1, 3} /\ c[1] = k
  <2>1. CASE Ext(k) = ""
    <3>1. c = <<k, a, b>>
      BY <1>6, <2>1 DEF a, b
    <3> HIDE DEF c
    <3> QED BY <3>1
  <2>2. CASE Ext(k) # ""
    <3>1. c = <<k>>
      BY <1>6, <2>2
    <3> HIDE DEF c
    <3> QED BY <3>1
  <2> QED BY <2>1, <2>2
<1> HIDE DEF c
<1>8. 1 \in found /\ \A i \in found : 1 <= i /\ i \in Nat
  BY <1>7
<1>9. Min(found) = 1
  <2> HIDE DEF found
  <2> QED BY <1>8 DEF Min
<1>10. found # {}
  BY <1>8
<1>11. Resolve(p, files, spa) = [kind |-> "Hit", path |-> c[Min(found)]]
  BY <1>10 DEF Resolve, c
<1> HIDE DEF found
<1> QED BY <1>7, <1>9, <1>11 DEF p, h

-----------------------------------------------------------------------------
(* Responses. *)
NoBody == ""
Response(st, b, e, t, c, rb) ==
    [status |-> st, body |-> b, etag |-> e, lastModified |-> t, cacheControl |-> c,
     robots |-> rb]

WithStatus(u, x) == [u EXCEPT !.status = x]
WithBody(u, x) == [u EXCEPT !.body = x]
WithClass(u, x) == [u EXCEPT !.cacheControl = x]
WithRobots(u, x) == [u EXCEPT !.robots = x]

(* What becomes of one when its status or its body is set. *)
LEMMA ResponseUpdates ==
    ASSUME NEW st, NEW b, NEW e, NEW t, NEW c, NEW rb, NEW x
    PROVE  /\ WithStatus(Response(st, b, e, t, c, rb), x) = Response(x, b, e, t, c, rb)
           /\ WithBody(Response(st, b, e, t, c, rb), x) = Response(st, x, e, t, c, rb)
           /\ WithClass(Response(st, b, e, t, c, rb), x) = Response(st, b, e, t, x, rb)
           /\ WithRobots(Response(st, b, e, t, c, rb), x) = Response(st, b, e, t, c, x)
           /\ Error(Response(st, b, e, t, c, rb), x) = Response(x, Text, e, t, c, rb)
<1> DEFINE u == Response(st, b, e, t, c, rb)
           v == Response(x, b, e, t, c, rb)
<1>1. /\ u \in [status : {st}, body : {b}, etag : {e}, lastModified : {t},
                cacheControl : {c}, robots : {rb}]
      /\ v \in [status : {x}, body : {b}, etag : {e}, lastModified : {t},
                cacheControl : {c}, robots : {rb}]
  BY DEF Response
<1>2. /\ u.status = st /\ u.body = b /\ u.etag = e /\ u.lastModified = t
      /\ u.cacheControl = c /\ u.robots = rb
      /\ v.status = x /\ v.body = b /\ v.etag = e /\ v.lastModified = t
      /\ v.cacheControl = c /\ v.robots = rb
  BY DEF Response
<1> HIDE DEF u, v
<1>3. [u EXCEPT !.status = x] = Response(x, b, e, t, c, rb)
  BY <1>1, <1>2 DEF Response
<1>4. [u EXCEPT !.body = x] = Response(st, x, e, t, c, rb)
  BY <1>1, <1>2 DEF Response
<1>5. /\ [u EXCEPT !.cacheControl = x] = Response(st, b, e, t, x, rb)
      /\ [u EXCEPT !.robots = x] = Response(st, b, e, t, c, x)
  BY <1>1, <1>2 DEF Response
<1>6. [v EXCEPT !.body = Text] = Response(x, Text, e, t, c, rb)
  BY <1>1, <1>2 DEF Response
<1>7. Error(u, x) = [v EXCEPT !.body = Text]
  <2>1. v = [u EXCEPT !.status = x]
    BY <1>3 DEF v
  <2> QED BY <2>1 DEF Error
<1> QED BY <1>3, <1>4, <1>5, <1>6, <1>7
    DEF u, WithStatus, WithBody, WithClass, WithRobots

(* A response about a blob of m, and whether it is a 304. *)
BlobAnswer(m, entry, st, b) ==
    Response(st, b, ETag(entry.blob), ModTime(m), CacheControl(entry.cache),
             IF isHTML(entry) /\ ~ m.production THEN "noindex" ELSE "")
Unmodified(req, m, entry, status) ==
    status = 200 /\ conditionalNotModified(req, ETag(entry.blob), ModTime(m))

(* The answer of serveBlob: a 304, the headers, the blob or an error text, *)
(* always with the headers of the blob.                                    *)
LEMMA ServedBlob ==
    ASSUME NEW req, NEW m, NEW entry, NEW status, NEW read \in {"ok", "absent", "failed"},
           req.method \in {"GET", "HEAD"}
    PROVE  /\ Unmodified(req, m, entry, status) =>
                serveBlob(req, m, entry, status, read) = BlobAnswer(m, entry, 304, NoBody)
           /\ ~ Unmodified(req, m, entry, status) /\ req.method = "HEAD" =>
                serveBlob(req, m, entry, status, read) = BlobAnswer(m, entry, status, NoBody)
           /\ ~ Unmodified(req, m, entry, status) /\ req.method = "GET" =>
                serveBlob(req, m, entry, status, read) =
                  CASE read = "ok" -> BlobAnswer(m, entry, status, entry.blob)
                    [] read = "absent" -> BlobAnswer(m, entry, 404, Text)
                    [] read = "failed" -> BlobAnswer(m, entry, 500, Text)
<1> DEFINE same == status = 200 /\ conditionalNotModified(req, ETag(entry.blob), ModTime(m))
           html == isHTML(entry) /\ ~ m.production
           tag == ETag(entry.blob)
           class == CacheControl(entry.cache)
           time == ModTime(m)
           robots == IF html THEN "noindex" ELSE ""
           Answer(st, b) == Response(st, b, tag, time, class, robots)
           hdr == setSecurityHeaders([Blank EXCEPT !.status = status, !.etag = tag,
                                                   !.cacheControl = class,
                                                   !.lastModified = time],
                                     m, isHTML(entry))
<1>1. serveBlob(req, m, entry, status, read) =
        IF same THEN WithStatus(hdr, 304)
        ELSE CASE req.method = "HEAD" -> hdr
               [] req.method = "GET" /\ read = "ok" -> WithBody(hdr, entry.blob)
               [] req.method = "GET" /\ read = "absent" -> Error(hdr, 404)
               [] req.method = "GET" /\ read = "failed" -> Error(hdr, 500)
  BY DEF serveBlob, WithStatus, WithBody
<1>2. hdr = Answer(status, NoBody)
  <2> HIDE DEF tag, class, time
  <2> QED BY DEF setSecurityHeaders, Blank, Response, NoBody
<1> HIDE DEF same, html, tag, class, time, hdr, robots
<1>3. /\ WithStatus(hdr, 304) = Answer(304, NoBody)
      /\ WithBody(hdr, entry.blob) = Answer(status, entry.blob)
      /\ Error(hdr, 404) = Answer(404, Text) /\ Error(hdr, 500) = Answer(500, Text)
  <2>1. WithStatus(Answer(status, NoBody), 304) = Answer(304, NoBody)
    BY ResponseUpdates
  <2>2. WithBody(Answer(status, NoBody), entry.blob) = Answer(status, entry.blob)
    BY ResponseUpdates
  <2>3. Error(Answer(status, NoBody), 404) = Answer(404, Text)
    BY ResponseUpdates
  <2>4. Error(Answer(status, NoBody), 500) = Answer(500, Text)
    BY ResponseUpdates
  <2> HIDE DEF Answer
  <2> QED BY <1>2, <2>1, <2>2, <2>3, <2>4
<1>4. /\ same => serveBlob(req, m, entry, status, read) = Answer(304, NoBody)
      /\ ~ same /\ req.method = "HEAD" =>
           serveBlob(req, m, entry, status, read) = Answer(status, NoBody)
      /\ ~ same /\ req.method = "GET" /\ read = "ok" =>
           serveBlob(req, m, entry, status, read) = Answer(status, entry.blob)
      /\ ~ same /\ req.method = "GET" /\ read = "absent" =>
           serveBlob(req, m, entry, status, read) = Answer(404, Text)
      /\ ~ same /\ req.method = "GET" /\ read = "failed" =>
           serveBlob(req, m, entry, status, read) = Answer(500, Text)
  <2> HIDE DEF Answer
  <2>1. CASE same
    BY <1>1, <1>3, <2>1
  <2>2. CASE ~ same /\ req.method = "HEAD"
    BY <1>1, <1>2, <2>2
  <2>3. CASE ~ same /\ req.method = "GET"
    <3>1. read = "ok" \/ read = "absent" \/ read = "failed"
      OBVIOUS
    <3> QED BY <1>1, <1>3, <2>3, <3>1
  <2> QED BY <2>1, <2>2, <2>3
<1> QED BY <1>4 DEF same, html, tag, class, time, robots, BlobAnswer, Unmodified

(* The built-in 404 page. *)
BuiltIn(m, method) ==
    Response(404, IF method = "HEAD" THEN "" ELSE Page, NoTag, NoTime, CacheControl("html"),
             IF ~ m.production THEN "noindex" ELSE "")

(* The file and the status that answer a path, if there is the file. *)
Chosen(p, m) ==
    LET res == Resolve(parseSite(p).rest, DOMAIN m.files, m.spa)
    IN  IF res.kind = "NotFound" THEN [path |-> NotFoundDoc(m), status |-> 404]
                                 ELSE [path |-> res.path, status |-> 200]

(* What ServeHTTP answers: the file chosen, or the built-in page. *)
LEMMA Served ==
    ASSUME NEW req, NEW p, NEW m, NEW read
    PROVE  LET c == Chosen(p, m)
               answer == ServeHTTP(req, p, m, read)
           IN  /\ c.status \in {200, 404}
               /\ c.path \in DOMAIN m.files =>
                    answer = serveBlob(req, m, m.files[c.path], c.status, read)
               /\ c.path \notin DOMAIN m.files =>
                    answer = BuiltIn(m, req.method) /\ NotFoundDoc(m) \notin DOMAIN m.files
<1> DEFINE res == Resolve(parseSite(p).rest, DOMAIN m.files, m.spa)
<1>1. ServeHTTP(req, p, m, read) =
        IF res.kind = "NotFound" THEN serveNotFound(req, m, read)
        ELSE serveBlob(req, m, m.files[res.path], 200, read)
  BY DEF ServeHTTP
<1>2. Chosen(p, m) = IF res.kind = "NotFound" THEN [path |-> NotFoundDoc(m), status |-> 404]
                                              ELSE [path |-> res.path, status |-> 200]
  BY DEF Chosen
<1>3. res.kind # "NotFound" => res.path \in DOMAIN m.files
  BY ResolveFinds
<1> HIDE DEF res
<1>4. CASE res.kind # "NotFound"
  BY <1>1, <1>2, <1>3, <1>4
<1>5. CASE res.kind = "NotFound"
  <2>1. Chosen(p, m).path = NotFoundDoc(m) /\ Chosen(p, m).status = 404
    BY <1>2, <1>5
  <2>2. ServeHTTP(req, p, m, read) = serveNotFound(req, m, read)
    BY <1>1, <1>5
  <2>3. NotFoundDoc(m) \in DOMAIN m.files =>
          serveNotFound(req, m, read) = serveBlob(req, m, m.files[NotFoundDoc(m)], 404, read)
    BY DEF serveNotFound
  <2>4. NotFoundDoc(m) \notin DOMAIN m.files => serveNotFound(req, m, read) = BuiltIn(m, req.method)
    <3> DEFINE html == CacheControl("html")
               robots == IF ~ m.production THEN "noindex" ELSE ""
               hdr == setSecurityHeaders(
                        [Blank EXCEPT !.status = 404, !.cacheControl = html], m, TRUE)
               body == IF req.method = "HEAD" THEN "" ELSE Page
               none == ""
    <3>1. NotFoundDoc(m) \notin DOMAIN m.files =>
            serveNotFound(req, m, read) = WithBody(hdr, body)
      BY DEF serveNotFound, WithBody
    <3>2. hdr = Response(404, none, NoTag, NoTime, html, robots)
      <4> HIDE DEF html
      <4> DEFINE plain == WithClass(WithStatus(Blank, 404), html)
                 page == Response(404, none, NoTag, NoTime, html, none)
      <4>1. hdr = IF ~ m.production THEN WithRobots(plain, "noindex") ELSE plain
        BY DEF setSecurityHeaders, WithClass, WithStatus, WithRobots
      <4>2. Blank = Response(0, none, NoTag, NoTime, none, none)
        BY DEF Blank, Response
      <4> HIDE DEF none, hdr
      <4>3. plain = page
        BY <4>2, ResponseUpdates
      <4>4. WithRobots(page, "noindex") = Response(404, none, NoTag, NoTime, html, "noindex")
        BY ResponseUpdates
      <4> HIDE DEF plain
      <4> QED BY <4>1, <4>3, <4>4 DEF none
    <3> HIDE DEF hdr, html, robots, body, none
    <3>3. WithBody(hdr, body) = Response(404, body, NoTag, NoTime, html, robots)
      <4>1. WithBody(Response(404, none, NoTag, NoTime, html, robots), body)
              = Response(404, body, NoTag, NoTime, html, robots)
        BY ResponseUpdates
      <4> QED BY <3>2, <4>1
    <3> QED BY <3>1, <3>3 DEF BuiltIn, html, robots, body
  <2> QED BY <2>1, <2>2, <2>3, <2>4
<1> QED BY <1>4, <1>5

-----------------------------------------------------------------------------
(* The release that parseSite finds in the path the Ingress makes is the   *)
(* one it prepended, and the rest is the path the client asks for.         *)
LEMMA PrefixParsed ==
    ASSUME live \in Releases, url \in Urls
    PROVE  /\ parseSite(UpstreamPath).ok /\ parseSite(UpstreamPath).release = live
           /\ parseSite(UpstreamPath).rest = url
<1> DEFINE T == STRING \X STRING
           S == T \cup {Empty}
           rest == Tail(url)
           h == <<Empty>>
           q == h \o live
           p == q \o rest
           parts == Tail(p)
<1>1. /\ live \in Seq(S) /\ Len(live) = 3 /\ \A i \in 1..3 : live[i] # Empty
      /\ url \in Seq(S) /\ Len(url) > 1 /\ url[1] = Empty
  <2>1. live \in Seq(T) /\ url \in Seq(T)
    BY ReleasesAssumption, UrlsAssumption
  <2> HIDE DEF T
  <2> QED BY <2>1, ReleasesAssumption, UrlsAssumption
<1>2. /\ h \in Seq(S) /\ Len(h) = 1 /\ h[1] = Empty
  OBVIOUS
<1> HIDE DEF S
<1>3. /\ rest \in Seq(S) /\ Len(rest) \in Nat /\ Len(rest) > 0
      /\ Len(url) = Len(rest) + 1 /\ \A i \in 1..Len(rest) : rest[i] = url[i + 1]
  BY <1>1
<1>4. UpstreamPath = p
  BY DEF UpstreamPath
<1> HIDE DEF h, rest
<1>5. q \in Seq(S)
  BY <1>1, <1>2, ConcatProperties, Zenon
<1>6. /\ Len(q) = Len(h) + Len(live)
      /\ \A i \in 1..Len(h) + Len(live) :
           q[i] = IF i <= Len(h) THEN h[i] ELSE live[i - Len(h)]
  BY <1>1, <1>2, ConcatProperties, Zenon
<1> HIDE DEF q
<1>7. /\ p \in Seq(S) /\ Len(p) = Len(q) + Len(rest)
      /\ \A i \in 1..Len(q) + Len(rest) :
           p[i] = IF i <= Len(q) THEN q[i] ELSE rest[i - Len(q)]
  BY <1>3, <1>5, ConcatProperties, Zenon
<1> HIDE DEF p
<1>8. Len(q) = 4 /\ q[1] = Empty /\ \A i \in 1..3 : q[i + 1] = live[i]
  BY <1>1, <1>2, <1>6
<1>9. Len(p) = 4 + Len(rest) /\ p[1] = Empty /\ \A i \in 1..3 : p[i + 1] = live[i]
  BY <1>3, <1>7, <1>8
<1>10. /\ parts \in Seq(S) /\ Len(parts) = 3 + Len(rest)
       /\ \A i \in 1..3 : parts[i] = live[i]
  BY <1>3, <1>7, <1>9
<1>11. parseSite(p) = SiteOf(parts)
  BY <1>1, <1>3, <1>9, <1>10 DEF parseSite
<1> HIDE DEF parts
<1>12. SubSeq(parts, 1, 3) = live
  <2>1. /\ SubSeq(parts, 1, 3) \in Seq(S) /\ Len(SubSeq(parts, 1, 3)) = 3
        /\ \A i \in 1..3 : SubSeq(parts, 1, 3)[i] = parts[i]
    BY <1>3, <1>10
  <2> QED BY <1>1, <1>10, <2>1, SeqEqual
<1>13. SubSeq(parts, 4, Len(parts)) = rest
  <2>1. \A i \in 1..Len(rest) : parts[i + 3] = rest[i]
    BY <1>3, <1>7, <1>8, <1>9 DEF parts
  <2>2. /\ SubSeq(parts, 4, Len(parts)) \in Seq(S)
        /\ Len(SubSeq(parts, 4, Len(parts))) = Len(rest)
        /\ \A i \in 1..Len(rest) : SubSeq(parts, 4, Len(parts))[i] = parts[i + 3]
    BY <1>3, <1>10
  <2> QED BY <1>3, <2>1, <2>2, SeqEqual
<1>14. h \o rest = url
  <2> DEFINE u == h \o rest
  <2>1. /\ u \in Seq(S) /\ Len(u) = Len(h) + Len(rest)
        /\ \A i \in 1..Len(h) + Len(rest) : u[i] = IF i <= Len(h) THEN h[i] ELSE rest[i - Len(h)]
    BY <1>2, <1>3, ConcatProperties, Zenon
  <2> HIDE DEF u
  <2>2. Len(u) = Len(url) /\ \A i \in 1..Len(url) : u[i] = url[i]
    <3>1. Len(u) = Len(url) /\ Len(h) = 1 /\ Len(url) \in Nat
      BY <1>1, <1>2, <1>3, <2>1
    <3>2. u[1] = url[1]
      BY <1>1, <1>2, <1>3, <2>1
    <3>3. ASSUME NEW i \in 2..Len(url)
          PROVE  u[i] = url[i]
      <4>1. i - 1 \in 1..Len(rest) /\ i - 1 + 1 = i /\ ~ (i <= 1)
            /\ i \in 1..Len(h) + Len(rest)
        BY <1>3, <3>1
      <4>2. rest[i - 1] = url[i - 1 + 1]
        BY <1>3, <4>1, Zenon
      <4> QED BY <2>1, <3>1, <4>1, <4>2
    <3>4. \A i \in 1..Len(url) : i = 1 \/ i \in 2..Len(url)
      BY <3>1
    <3> QED BY <3>1, <3>2, <3>3, <3>4
  <2>3. u = url
    BY <1>1, <2>1, <2>2, SeqEqual
  <2> QED BY <2>3 DEF u
<1>15. SiteOf(parts).rest = h \o rest
  <2>1. Len(parts) > 3
    BY <1>3, <1>10
  <2> QED BY <1>13, <2>1 DEF SiteOf, h
<1> QED BY <1>4, <1>11, <1>12, <1>14, <1>15 DEF SiteOf

-----------------------------------------------------------------------------
(* The file that answers a path, and whether a 304 does. *)
Entry(p, m) == m.files[Chosen(p, m).path]
Confirmed(req, p, m) == Unmodified(req, m, Entry(p, m), Chosen(p, m).status)

(* The answer of ServeHTTP when there is a file: its headers always; its   *)
(* content if the client has to be sent it and the store gives it.         *)
LEMMA FileAnswered ==
    ASSUME NEW req, NEW p, NEW m, NEW read \in {"ok", "absent", "failed"},
           req.method \in {"GET", "HEAD"}, Chosen(p, m).path \in DOMAIN m.files
    PROVE  LET entry == Entry(p, m)
               a == ServeHTTP(req, p, m, read)
           IN  /\ a = BlobAnswer(m, entry, a.status, a.body)
               /\ a.status = 304 <=> Confirmed(req, p, m)
               /\ a.status \in {200, 304, 404, 500}
               /\ a.status = 200 => Chosen(p, m).status = 200
               /\ a.status = 404 /\ a.body # Text => Chosen(p, m).status = 404
               /\ a.body = IF Confirmed(req, p, m) \/ req.method = "HEAD" THEN NoBody
                           ELSE IF read = "ok" THEN entry.blob ELSE Text
<1> DEFINE entry == Entry(p, m)
           blob == entry.blob
           st == Chosen(p, m).status
           same == Unmodified(req, m, entry, st)
           Answer(s, b) == BlobAnswer(m, entry, s, b)
           a == ServeHTTP(req, p, m, read)
<1>1. a = serveBlob(req, m, entry, st, read) /\ st \in {200, 404}
  BY Served DEF Entry
<1> HIDE DEF entry, a, st
<1>2. /\ same => a = Answer(304, NoBody)
      /\ ~ same /\ req.method = "HEAD" => a = Answer(st, NoBody)
      /\ ~ same /\ req.method = "GET" /\ read = "ok" => a = Answer(st, blob)
      /\ ~ same /\ req.method = "GET" /\ read = "absent" => a = Answer(404, Text)
      /\ ~ same /\ req.method = "GET" /\ read = "failed" => a = Answer(500, Text)
  <2> DEFINE b == serveBlob(req, m, entry, st, read)
  <2>1. /\ same => b = Answer(304, NoBody)
        /\ ~ same /\ req.method = "HEAD" => b = Answer(st, NoBody)
        /\ ~ same /\ req.method = "GET" =>
             b = CASE read = "ok" -> Answer(st, blob)
                   [] read = "absent" -> Answer(404, Text)
                   [] read = "failed" -> Answer(500, Text)
    BY ServedBlob
  <2> HIDE DEF same, Answer, blob, b
  <2> QED BY <1>1, <2>1 DEF b
<1>3. same <=> Confirmed(req, p, m)
  BY DEF Confirmed, entry, st
<1> HIDE DEF same, blob
<1>4. /\ Answer(304, NoBody).status = 304 /\ Answer(304, NoBody).body = NoBody
      /\ Answer(st, NoBody).status = st /\ Answer(st, NoBody).body = NoBody
      /\ Answer(st, blob).status = st /\ Answer(st, blob).body = blob
      /\ Answer(404, Text).status = 404 /\ Answer(404, Text).body = Text
      /\ Answer(500, Text).status = 500 /\ Answer(500, Text).body = Text
  BY DEF BlobAnswer, Response
<1> HIDE DEF Answer
<1>5. /\ a = Answer(a.status, a.body)
      /\ a.status = 304 <=> same
      /\ a.status \in {200, 304, 404, 500}
      /\ a.status = 200 => st = 200
      /\ a.status = 404 /\ a.body # Text => st = 404
      /\ a.body = IF same \/ req.method = "HEAD" THEN NoBody
                  ELSE IF read = "ok" THEN blob ELSE Text
  <2>1. CASE same
    BY <1>2, <1>4, <2>1
  <2>2. CASE ~ same /\ req.method = "HEAD"
    BY <1>1, <1>2, <1>4, <2>2
  <2>3. CASE ~ same /\ req.method = "GET" /\ read = "ok"
    BY <1>1, <1>2, <1>4, <2>3
  <2>4. CASE ~ same /\ req.method = "GET" /\ read = "absent"
    BY <1>2, <1>4, <2>4
  <2>5. CASE ~ same /\ req.method = "GET" /\ read = "failed"
    BY <1>2, <1>4, <2>5
  <2> QED BY <2>1, <2>2, <2>3, <2>4, <2>5
<1> QED BY <1>3, <1>5 DEF a, blob, entry, st, Answer

(* The tag of a response about a file is that of its content. *)
LEMMA BlobAnswerTag ==
    ASSUME NEW m, NEW entry, NEW st, NEW b
    PROVE  BlobAnswer(m, entry, st, b).etag = ETag(entry.blob)
<1> DEFINE tag == ETag(entry.blob)
           robots == IF isHTML(entry) /\ ~ m.production THEN "noindex" ELSE ""
<1>1. BlobAnswer(m, entry, st, b)
        = Response(st, b, tag, ModTime(m), CacheControl(entry.cache), robots)
  BY DEF BlobAnswer
<1> HIDE DEF tag, robots
<1>2. BlobAnswer(m, entry, st, b).etag = tag
  BY <1>1 DEF Response
<1> QED BY <1>2 DEF tag

(* The fields of the built-in page. *)
LEMMA BuiltInFields ==
    ASSUME NEW m, NEW method
    PROVE  /\ BuiltIn(m, method).status = 404 /\ BuiltIn(m, method).etag = NoTag
           /\ BuiltIn(m, method).lastModified = NoTime
           /\ BuiltIn(m, method).body = IF method = "HEAD" THEN NoBody ELSE Page
           /\ BuiltIn(m, method).cacheControl = CacheControl("html")
           /\ BuiltIn(m, method).robots = IF ~ m.production THEN "noindex" ELSE NoBody
<1> DEFINE body == IF method = "HEAD" THEN NoBody ELSE Page
           robots == IF ~ m.production THEN "noindex" ELSE NoBody
<1>1. BuiltIn(m, method) = Response(404, body, NoTag, NoTime, CacheControl("html"), robots)
  BY DEF BuiltIn, NoBody
<1> HIDE DEF body, robots
<1>2. /\ BuiltIn(m, method).status = 404 /\ BuiltIn(m, method).etag = NoTag
      /\ BuiltIn(m, method).lastModified = NoTime
      /\ BuiltIn(m, method).body = body
      /\ BuiltIn(m, method).cacheControl = CacheControl("html")
      /\ BuiltIn(m, method).robots = robots
  BY <1>1 DEF Response
<1> QED BY <1>2 DEF body, robots

-----------------------------------------------------------------------------
(* strings.TrimLeft. *)

(* A set of positions has a first one. *)
LEMMA FirstPosition ==
    ASSUME NEW S \in SUBSET Nat, S # {}
    PROVE  Min(S) \in S /\ \A y \in S : Min(S) <= y
<1>1. \E x \in S : \A y \in S : x <= y
  BY Lists!LeastNumber
<1> QED BY <1>1 DEF Min

(* A trimmed path has no leading slash. *)
LEMMA TrimmedIsCanonical ==
    ASSUME NEW T, NEW k \in Seq(T), k # <<>>
    PROVE  ~ Slashed(TrimLeft(k))
<1> DEFINE kept == {i \in 1..Len(k) : i = Len(k) \/ k[i] # Empty}
           n == Min(kept)
           t == SubSeq(k, n, Len(k))
<1>1. Len(k) \in Nat /\ Len(k) > 0
  OBVIOUS
<1>2. kept \in SUBSET Nat /\ kept # {}
  <2>1. Len(k) \in kept
    BY <1>1
  <2> QED BY <2>1
<1>3. n \in kept
  BY <1>2, FirstPosition
<1> HIDE DEF n
<1>4. n \in 1..Len(k) /\ (n = Len(k) \/ k[n] # Empty)
  BY <1>3
<1>5. Len(t) = Len(k) - n + 1 /\ t[1] = k[n]
  BY <1>1, <1>4
<1>6. TrimLeft(k) = t
  BY DEF TrimLeft, n
<1> HIDE DEF t
<1> QED BY <1>1, <1>4, <1>5, <1>6 DEF Slashed

(* A path without one stays as it is. *)
LEMMA CanonicalIsKept ==
    ASSUME NEW T, NEW k \in Seq(T), k # <<>>, ~ Slashed(k)
    PROVE  TrimLeft(k) = k
<1> DEFINE kept == {i \in 1..Len(k) : i = Len(k) \/ k[i] # Empty}
<1>1. Len(k) \in Nat /\ Len(k) > 0
  OBVIOUS
<1>2. 1 \in kept
  <2>1. 1 \in 1..Len(k)
    BY <1>1
  <2>2. 1 = Len(k) \/ k[1] # Empty
    <3>1. ~ (Len(k) > 1 /\ k[1] = Empty)
      BY Zenon DEF Slashed
    <3>2. Len(k) = 1 \/ Len(k) > 1
      <4>1. \A n \in Nat : n > 0 => n = 1 \/ n > 1
        OBVIOUS
      <4> QED BY <1>1, <4>1
    <3> QED BY <3>1, <3>2, Zenon
  <2> QED BY <2>1, <2>2
<1>3. \A i \in kept : 1 <= i /\ i \in Nat
  OBVIOUS
<1> HIDE DEF kept
<1>4. Min(kept) = 1
  BY <1>2, <1>3 DEF Min
<1>5. TrimLeft(k) = SubSeq(k, 1, Len(k))
  BY <1>4 DEF TrimLeft, kept
<1> QED BY <1>1, <1>5

-----------------------------------------------------------------------------
(* The inductive invariant: the manifest in memory is one that Load makes  *)
(* of the live release, and the last answer is one of that release's own.  *)

LoadedIsLive ==
    loaded # None => live \in DOMAIN Published /\ loaded \in Load(Published[live])

(* The answer about a file of r, or its built-in 404 page. *)
OfFile(r, a) == \E k \in DOMAIN Published[r].files :
    LET entry == Published[r].files[k] IN
    /\ entry.blob # NoBlob /\ a.etag = ETag(entry.blob)
    /\ a.body \in {NoBody, Text, entry.blob}
    /\ a.status = 404 /\ a.body # Text => TrimLeft(k) = NotFoundDoc(Published[r])
    /\ a.robots = IF isHTML(entry) /\ ~ Published[r].production THEN "noindex" ELSE NoBody

OfNoFile(r, a) ==
    /\ NotFoundDoc(Published[r]) \notin {TrimLeft(k) : k \in DOMAIN Published[r].files}
    /\ a.etag = NoTag /\ a.body \in {NoBody, Page}
    /\ a.robots = IF ~ Published[r].production THEN "noindex" ELSE NoBody

LastIsOwn == last # None =>
    /\ last.method \in {"GET", "HEAD", "POST"} /\ last.answer \in Responses
    /\ last.method = "GET" /\ last.answer.status = 404 => last.answer.body # NoBody
    /\ \/ last.answer.body = Text
       \/ live \in DOMAIN Published /\ (OfFile(live, last.answer) \/ OfNoFile(live, last.answer))

HeldIsResponse == held # None => held \in Responses /\ held.status \in {200, 404, 500}

Inv ==
    /\ live \in Releases /\ url \in Urls
    /\ LoadedIsLive /\ LastIsOwn /\ HeldIsResponse

(* The initial states satisfy it. *)
LEMMA InitInv == Init => Inv
BY DEF Init, Inv, LoadedIsLive, LastIsOwn, HeldIsResponse

-----------------------------------------------------------------------------
(* The types of a response are those of its fields. *)
Statuses == {200, 404, 405, 400, 500, 304}
Bodies == Blobs \cup {NoBody, Page, Text}
Tags == [tag : Blobs \cup {NoBody}, weak : {FALSE}]
Times == Nat \cup {NoTime}
Classes == {Immutable, Revalidate, NoBody}
RobotsValues == {"noindex", NoBody}

(* With fields of these types it is a response. *)
LEMMA ResponseTyped ==
    ASSUME NEW st \in Statuses, NEW b \in Bodies, NEW e \in Tags, NEW t \in Times,
           NEW c \in Classes, NEW rb \in RobotsValues
    PROVE  Response(st, b, e, t, c, rb) \in Responses
<1>1. Responses = [status : Statuses, body : Bodies, etag : Tags, lastModified : Times,
                   cacheControl : Classes, robots : RobotsValues]
  BY DEF Responses, NoBody, Statuses, Bodies, Tags, Times, Classes, RobotsValues
<1> QED BY <1>1 DEF Response

(* The tag of a blob, and none, are tags. *)
LEMMA TagTyped ==
    /\ \A x \in Blobs : ETag(x) \in Tags
    /\ NoTag \in Tags
<1>1. ASSUME NEW x \in Blobs \cup {NoBody}
      PROVE  ETag(x) \in Tags
  BY DEF ETag, Tags
<1>2. NoTag = ETag(NoBody)
  BY DEF NoTag, NoBody
<1> QED BY <1>1, <1>2

(* The content of a file is one of the blobs. *)
LEMMA BlobIsPublished ==
    ASSUME NEW r \in DOMAIN Published, NEW k \in DOMAIN Published[r].files,
           Published[r].files[k].blob # NoBlob
    PROVE  Published[r].files[k].blob \in Blobs
<1>1. Published[r].files[k].blob \in Contents(r)
  BY DEF Contents
<1>2. Published[r].files[k].blob \in UNION {Contents(q) : q \in DOMAIN Published}
  BY <1>1
<1> QED BY <1>2 DEF Blobs

(* An error text, as it is sent before there is a manifest. *)
LEMMA ErrorAnswer ==
    ASSUME NEW status \in {400, 404, 405, 500}
    PROVE  Error(Blank, status) \in Responses /\ Error(Blank, status).body = Text
<1>1. Blank = Response(0, NoBody, NoTag, NoTime, NoBody, NoBody)
  BY DEF Blank, Response, NoBody
<1> DEFINE a == Response(status, Text, NoTag, NoTime, NoBody, NoBody)
<1>2. Error(Blank, status) = a
  BY <1>1, ResponseUpdates
<1>3. a \in Responses
  <2>1. /\ status \in Statuses /\ Text \in Bodies /\ NoTag \in Tags /\ NoTime \in Times
        /\ NoBody \in Classes /\ NoBody \in RobotsValues
    BY TagTyped DEF Statuses, Bodies, Times, Classes, RobotsValues
  <2> QED BY <2>1, ResponseTyped
<1>4. a.body = Text
  BY DEF Response
<1> HIDE DEF a
<1> QED BY <1>2, <1>3, <1>4

(* What ServeHTTP answers with a manifest of r is r's own. *)
LEMMA AnswerIsOwn ==
    ASSUME NEW r \in DOMAIN Published, NEW m \in Load(Published[r]), NEW req, NEW p,
           NEW read \in {"ok", "absent", "failed"}, req.method \in {"GET", "HEAD"}
    PROVE  LET a == ServeHTTP(req, p, m, read)
           IN  /\ OfFile(r, a) \/ OfNoFile(r, a)
               /\ a \in Responses /\ a.status \in {200, 304, 404, 500}
               /\ req.method = "GET" /\ a.status = 404 => a.body # NoBody
<1> DEFINE a == ServeHTTP(req, p, m, read)
           files == Published[r].files
<1>1. /\ m.production = Published[r].production /\ m.notFound = Published[r].notFound
      /\ m.createdAt = Published[r].createdAt
      /\ DOMAIN m.files = {TrimLeft(k) : k \in DOMAIN files}
      /\ \A ck \in DOMAIN m.files : \E k \in DOMAIN files :
           TrimLeft(k) = ck /\ m.files[ck] = files[k]
      /\ \A k \in DOMAIN files : files[k].blob # NoBlob
  <2>1. m = [files |-> m.files, production |-> Published[r].production,
             spa |-> Published[r].spa, notFound |-> Published[r].notFound,
             createdAt |-> Published[r].createdAt, noFiles |-> Published[r].noFiles]
    BY LoadedManifest
  <2>2. /\ m.production = Published[r].production /\ m.notFound = Published[r].notFound
        /\ m.createdAt = Published[r].createdAt
    BY <2>1
  <2>3. DOMAIN m.files = {TrimLeft(k) : k \in DOMAIN files}
    BY LoadedManifest
  <2>4. ASSUME NEW ck \in DOMAIN m.files
        PROVE  \E k \in DOMAIN files : TrimLeft(k) = ck /\ m.files[ck] = files[k]
    <3>1. PICK k \in DOMAIN files : k \in Spellings(files, ck) /\ m.files[ck] = files[k]
      BY LoadedManifest
    <3>2. CASE ck \in DOMAIN files /\ ~ Slashed(ck)
      <4>1. k = ck
        BY <3>1, <3>2 DEF Spellings
      <4>2. ck \in Seq(STRING \X STRING) /\ ck # <<>>
        BY <3>2, PublishedAssumption
      <4> QED BY <3>1, <3>2, <4>1, <4>2, CanonicalIsKept
    <3>3. CASE ~ (ck \in DOMAIN files /\ ~ Slashed(ck))
      BY <3>1, <3>3 DEF Spellings
    <3> QED BY <3>2, <3>3
  <2>5. \A k \in DOMAIN files : files[k].blob # NoBlob
    BY LoadedManifest
  <2> QED BY <2>2, <2>3, <2>4, <2>5
<1>2. m.production \in BOOLEAN /\ ModTime(m) \in Nat \cup {NoTime}
  BY <1>1, PublishedAssumption DEF ModTime
<1>3. CASE Chosen(p, m).path \in DOMAIN m.files
  <2> DEFINE entry == Entry(p, m)
             blob == entry.blob
             tag == ETag(blob)
             time == ModTime(m)
             class == CacheControl(entry.cache)
             robots == IF isHTML(entry) /\ ~ m.production THEN "noindex" ELSE NoBody
  <2>1. PICK k \in DOMAIN files : TrimLeft(k) = Chosen(p, m).path /\ entry = files[k]
    BY <1>1, <1>3 DEF Entry
  <2>2. blob \in Blobs /\ blob # NoBlob
    BY <1>1, <2>1, BlobIsPublished
  <2>3. /\ a = Response(a.status, a.body, tag, time, class, robots)
        /\ a.status \in {200, 304, 404, 500}
        /\ a.body \in {NoBody, blob, Text}
        /\ a.status = 404 /\ a.body # Text => Chosen(p, m).status = 404
        /\ req.method = "GET" /\ a.status = 404 => a.body # NoBody
    <3> HIDE DEF entry, a
    <3>1. /\ a = BlobAnswer(m, entry, a.status, a.body)
          /\ a.status \in {200, 304, 404, 500}
          /\ a.status = 304 <=> Confirmed(req, p, m)
          /\ a.status = 404 /\ a.body # Text => Chosen(p, m).status = 404
          /\ a.body = IF Confirmed(req, p, m) \/ req.method = "HEAD" THEN NoBody
                      ELSE IF read = "ok" THEN entry.blob ELSE Text
      BY <1>3, FileAnswered DEF entry, a
    <3>2. a = Response(a.status, a.body, tag, time, class, robots)
      BY <3>1 DEF BlobAnswer, NoBody
    <3>3. entry.blob # NoBody /\ Text # NoBody
      BY <2>2 DEF NoBody, NoBlob, Text
    <3> QED BY <3>1, <3>2, <3>3
  <2>4. /\ class \in Classes /\ robots \in RobotsValues /\ tag \in Tags /\ time \in Times
    <3> HIDE DEF blob, entry
    <3> QED BY <1>2, <2>2, TagTyped DEF CacheControl, Classes, RobotsValues, Times
  <2>5. a.etag = ETag(files[k].blob) /\ a.body \in {NoBody, Text, files[k].blob}
        /\ a.robots = IF isHTML(files[k]) /\ ~ Published[r].production
                      THEN "noindex" ELSE NoBody
    <3>1. a.etag = tag /\ a.robots = robots
      <4> HIDE DEF a, tag, time, class, robots
      <4> QED BY <2>3 DEF Response
    <3> HIDE DEF a, entry
    <3> QED BY <1>1, <2>1, <2>3, <3>1
  <2>6. a.status = 404 /\ a.body # Text => TrimLeft(k) = NotFoundDoc(Published[r])
    <3> HIDE DEF a
    <3>1. Chosen(p, m).status = 404 => Chosen(p, m).path = NotFoundDoc(m)
      BY DEF Chosen
    <3>2. NotFoundDoc(m) = NotFoundDoc(Published[r])
      BY <1>1 DEF NotFoundDoc
    <3> QED BY <2>1, <2>3, <3>1, <3>2
  <2> HIDE DEF a, tag, time, class, robots, entry, blob
  <2>7. a \in Responses
    <3>1. a.status \in Statuses /\ a.body \in Bodies
      BY <2>2, <2>3 DEF Statuses, Bodies
    <3> QED BY <2>3, <2>4, <3>1, ResponseTyped
  <2>8. OfFile(r, a)
    BY <1>1, <2>5, <2>6 DEF OfFile
  <2> QED BY <2>3, <2>7, <2>8 DEF a
<1>4. CASE Chosen(p, m).path \notin DOMAIN m.files
  <2> DEFINE body == IF req.method = "HEAD" THEN NoBody ELSE Page
             class == CacheControl("html")
             robots == IF ~ m.production THEN "noindex" ELSE NoBody
             b == Response(404, body, NoTag, NoTime, class, robots)
  <2>1. a = BuiltIn(m, req.method) /\ NotFoundDoc(m) \notin DOMAIN m.files
    BY <1>4, Served
  <2>2. NotFoundDoc(Published[r]) \notin {TrimLeft(k) : k \in DOMAIN files}
    BY <1>1, <2>1 DEF NotFoundDoc
  <2>3. BuiltIn(m, req.method) = b
    BY DEF BuiltIn, NoBody
  <2>4. /\ body \in {NoBody, Page} /\ body \in Bodies /\ class \in Classes
        /\ robots \in RobotsValues
        /\ robots = IF ~ Published[r].production THEN "noindex" ELSE NoBody
    BY <1>1 DEF CacheControl, Bodies, Classes, RobotsValues
  <2> HIDE DEF a, body, class, robots
  <2>5. b \in Responses
    <3>1. 404 \in Statuses /\ NoTag \in Tags /\ NoTime \in Times
      BY TagTyped DEF Statuses, Times
    <3> QED BY <2>4, <3>1, ResponseTyped
  <2>6. b.status = 404 /\ b.etag = NoTag /\ b.body = body /\ b.robots = robots
    BY DEF Response
  <2> HIDE DEF b
  <2>7. OfNoFile(r, a)
    BY <2>1, <2>2, <2>3, <2>4, <2>6 DEF OfNoFile
  <2>8. req.method = "GET" => body # NoBody
    BY DEF body, Page, NoBody
  <2> QED BY <2>1, <2>3, <2>5, <2>6, <2>7, <2>8 DEF a
<1> QED BY <1>3, <1>4

-----------------------------------------------------------------------------
(* A client that holds nothing asks without conditions, and is sent no 304. *)
LEMMA NothingToConfirm ==
    ASSUME NEW cond \in Conditions(None), NEW method, NEW etag, NEW modTime
    PROVE  ~ conditionalNotModified([method |-> method, ifNoneMatch |-> cond.ifNoneMatch,
                                     ifModifiedSince |-> cond.ifModifiedSince], etag, modTime)
<1>1. cond.ifNoneMatch = {} /\ cond.ifModifiedSince = NoTime
  BY DEF Conditions
<1> QED BY <1>1 DEF conditionalNotModified

(* What the client holds next is a response, and not a 304, if it was one  *)
(* that it held or the answer is not a 304.                                *)
LEMMA KeptTyped ==
    ASSUME NEW h, NEW a \in Responses, a.status \in {200, 304, 404, 500},
           a.status = 304 => h \in Responses /\ h.status \in {200, 404, 500}
    PROVE  /\ Kept(h, a) \in Responses /\ Kept(h, a).status \in {200, 404, 500}
           /\ a.status = 304 => Kept(h, a).body = h.body
           /\ Kept(h, a).etag = a.etag /\ Kept(h, a).lastModified = a.lastModified
<1>1. Responses = [status : Statuses, body : Bodies, etag : Tags, lastModified : Times,
                   cacheControl : Classes, robots : RobotsValues]
  BY DEF Responses, NoBody, Statuses, Bodies, Tags, Times, Classes, RobotsValues
<1>2. CASE a.status = 304
  <2>1. Kept(h, a) = [a EXCEPT !.status = h.status, !.body = h.body]
    BY <1>2 DEF Kept
  <2>2. h \in Responses /\ h.status \in {200, 404, 500}
    BY <1>2
  <2> DEFINE R == [status : Statuses, body : Bodies, etag : Tags, lastModified : Times,
                   cacheControl : Classes, robots : RobotsValues]
             s == h.status
             b == h.body
             x == [a EXCEPT !.status = s, !.body = b]
  <2>3. a \in R /\ s \in Statuses /\ b \in Bodies
    BY <1>1, <2>2
  <2> HIDE DEF s, b
  <2>4. x \in R /\ x.status = s /\ x.body = b /\ x.etag = a.etag
        /\ x.lastModified = a.lastModified
    BY <2>3
  <2> HIDE DEF x, R
  <2> QED BY <1>1, <2>1, <2>2, <2>4 DEF x, R, s, b
<1>3. CASE a.status # 304
  <2>1. Kept(h, a) = a
    BY <1>3 DEF Kept
  <2> QED BY <1>3, <2>1
<1> QED BY <1>2, <1>3

(* A step of Serve, with the manifest m and the request req: the answer is *)
(* the live release's own.                                                 *)
ServeStep(method, read, m, req) ==
    /\ live \in DOMAIN Published /\ m \in Load(Published[live])
    /\ req.method = method
    /\ \E cond \in Conditions(held) :
         req = [method |-> method, ifNoneMatch |-> cond.ifNoneMatch,
                ifModifiedSince |-> cond.ifModifiedSince]
    /\ loaded' = m /\ live' = live /\ url' = url
    /\ last' = [method |-> method, answer |-> ServeHTTP(req, UpstreamPath, m, read)]
    /\ held' = IF method = "GET" THEN Kept(held, ServeHTTP(req, UpstreamPath, m, read)) ELSE held

(* Every step of Serve is one. *)
LEMMA ServeState ==
    ASSUME Inv, NEW method \in {"GET", "HEAD"}, NEW read \in {"ok", "absent", "failed"},
           Serve(method, read)
    PROVE  \E m, req : ServeStep(method, read, m, req)
<1>1. parseSite(UpstreamPath).release = live
  BY PrefixParsed DEF Inv
<1> DEFINE Req(cond) == [method |-> method, ifNoneMatch |-> cond.ifNoneMatch,
                         ifModifiedSince |-> cond.ifModifiedSince]
<1>2. live \in DOMAIN Published
  BY <1>1 DEF Serve
<1>3. PICK m \in IF loaded # None THEN {loaded} ELSE Load(Published[live]) :
        /\ loaded' = m
        /\ \E cond \in Conditions(held) :
             /\ last' = [method |-> method, answer |-> ServeHTTP(Req(cond), UpstreamPath, m, read)]
             /\ held' = IF method = "GET"
                        THEN Kept(held, ServeHTTP(Req(cond), UpstreamPath, m, read)) ELSE held
  BY <1>1 DEF Serve
<1>4. PICK cond \in Conditions(held) :
        /\ last' = [method |-> method, answer |-> ServeHTTP(Req(cond), UpstreamPath, m, read)]
        /\ held' = IF method = "GET" THEN Kept(held, ServeHTTP(Req(cond), UpstreamPath, m, read))
                   ELSE held
  BY <1>3
<1>5. m \in Load(Published[live])
  BY <1>3 DEF Inv, LoadedIsLive
<1>6. live' = live /\ url' = url
  BY DEF Serve
<1>7. Req(cond).method = method
  OBVIOUS
<1>8. ServeStep(method, read, m, Req(cond))
  BY <1>2, <1>3, <1>4, <1>5, <1>6, <1>7 DEF ServeStep
<1> QED BY <1>8

(* A 304 confirms what the client holds. *)
LEMMA OnlyHeldConfirmed ==
    ASSUME NEW method \in {"GET", "HEAD"}, NEW read \in {"ok", "absent", "failed"},
           NEW m, NEW req, ServeStep(method, read, m, req),
           ServeHTTP(req, UpstreamPath, m, read).status = 304
    PROVE  /\ held # None /\ Chosen(UpstreamPath, m).path \in DOMAIN m.files
           /\ Confirmed(req, UpstreamPath, m)
<1> DEFINE p == UpstreamPath
           a == ServeHTTP(req, p, m, read)
<1>1. req.method \in {"GET", "HEAD"}
  BY DEF ServeStep
<1>2. Chosen(p, m).path \in DOMAIN m.files
  <2> SUFFICES ASSUME Chosen(p, m).path \notin DOMAIN m.files
               PROVE  FALSE
    OBVIOUS
  <2>1. a = BuiltIn(m, req.method)
    BY Served
  <2>2. BuiltIn(m, req.method).status = 404
    BY BuiltInFields
  <2> HIDE DEF a
  <2>3. a.status = 304
    BY DEF a
  <2> QED BY <2>1, <2>2, <2>3
<1>3. Confirmed(req, p, m)
  <2>1. a.status = 304 <=> Confirmed(req, p, m)
    BY <1>1, <1>2, FileAnswered
  <2> QED BY <2>1
<1>4. PICK cond \in Conditions(held) :
        req = [method |-> method, ifNoneMatch |-> cond.ifNoneMatch,
               ifModifiedSince |-> cond.ifModifiedSince]
  BY DEF ServeStep
<1>5. held # None
  <2>1. conditionalNotModified(req, ETag(Entry(p, m).blob), ModTime(m))
    BY <1>3 DEF Confirmed, Unmodified
  <2> QED BY <1>4, <2>1, NothingToConfirm
<1> QED BY <1>2, <1>3, <1>5

(* A request that gets as far as the manifest keeps the invariant. *)
LEMMA ServeInv ==
    ASSUME Inv, NEW method \in {"GET", "HEAD"}, NEW read \in {"ok", "absent", "failed"},
           Serve(method, read)
    PROVE  Inv'
<1>1. PICK m, req : ServeStep(method, read, m, req)
  BY ServeState
<1> DEFINE a == ServeHTTP(req, UpstreamPath, m, read)
<1>2. /\ live \in DOMAIN Published /\ m \in Load(Published[live])
      /\ loaded' = m /\ live' = live /\ url' = url /\ req.method \in {"GET", "HEAD"}
      /\ req.method = method
      /\ last' = [method |-> method, answer |-> a]
      /\ held' = IF method = "GET" THEN Kept(held, a) ELSE held
  BY <1>1 DEF ServeStep
<1>3. /\ OfFile(live, a) \/ OfNoFile(live, a)
      /\ a \in Responses /\ a.status \in {200, 304, 404, 500}
      /\ method = "GET" /\ a.status = 404 => a.body # NoBody
  BY <1>2, AnswerIsOwn
<1>4. a.status = 304 => held # None
  BY <1>1, OnlyHeldConfirmed
<1> HIDE DEF a
<1>5. LoadedIsLive'
  BY <1>2 DEF LoadedIsLive
<1>6. LastIsOwn'
  <2>1. last'.answer = a /\ last'.method = method
    BY <1>2
  <2> QED BY <1>2, <1>3, <2>1 DEF LastIsOwn
<1>7. HeldIsResponse'
  <2>1. CASE method = "GET"
    <3>1. held' = Kept(held, a)
      BY <1>2, <2>1
    <3>2. Kept(held, a) \in Responses /\ Kept(held, a).status \in {200, 404, 500}
      BY <1>3, <1>4, KeptTyped DEF Inv, HeldIsResponse
    <3> QED BY <3>1, <3>2 DEF HeldIsResponse
  <2>2. CASE method # "GET"
    BY <1>2, <2>2 DEF Inv, HeldIsResponse
  <2> QED BY <2>1, <2>2
<1> QED BY <1>2, <1>5, <1>6, <1>7 DEF Inv

(* An answer with an error text keeps it. *)
LEMMA ErrorInv ==
    ASSUME Inv, NEW method \in {"GET", "HEAD", "POST"}, NEW status \in {400, 404, 405, 500},
           last' = [method |-> method, answer |-> Error(Blank, status)],
           UNCHANGED <<live, loaded, url, held>>
    PROVE  Inv'
<1> DEFINE a == Error(Blank, status)
<1>1. a \in Responses /\ a.body = Text
  BY ErrorAnswer
<1>2. Text # NoBody
  BY DEF Text, NoBody
<1> HIDE DEF a
<1>3. last'.method = method /\ last'.answer = a
  BY DEF a
<1>4. LastIsOwn'
  BY <1>1, <1>2, <1>3 DEF LastIsOwn
<1> QED BY <1>4 DEF Inv, LoadedIsLive, HeldIsResponse

(* Every step keeps it. *)
LEMMA NextInv == Inv /\ [Next]_vars => Inv'
<1> SUFFICES ASSUME Inv, [Next]_vars PROVE Inv'
  OBVIOUS
<1>1. ASSUME NEW r \in Releases, Deploy(r) PROVE Inv'
  BY <1>1 DEF Deploy, Inv, LoadedIsLive, LastIsOwn, HeldIsResponse
<1>2. CASE Evict
  BY <1>2 DEF Evict, Inv, LoadedIsLive, LastIsOwn, HeldIsResponse
<1>3. CASE MethodNotAllowed
  BY <1>3, ErrorInv DEF MethodNotAllowed
<1>4. ASSUME NEW p \in Probes, BadRequest(p) PROVE Inv'
  BY <1>4, ErrorInv DEF BadRequest
<1>5. ASSUME NEW method \in {"GET", "HEAD"}, NoManifest(method) PROVE Inv'
  <2>1. PICK status \in {404, 500} :
          last' = [method |-> method, answer |-> Error(Blank, status)]
    BY <1>5 DEF NoManifest
  <2> QED BY <1>5, <2>1, ErrorInv DEF NoManifest
<1>6. ASSUME NEW method \in {"GET", "HEAD"}, NEW read \in {"ok", "absent", "failed"},
             Serve(method, read)
      PROVE  Inv'
  BY <1>6, ServeInv
<1>7. CASE UNCHANGED vars
  BY <1>7 DEF vars, Inv, LoadedIsLive, LastIsOwn, HeldIsResponse
<1> QED BY <1>1, <1>2, <1>3, <1>4, <1>5, <1>6, <1>7 DEF Next

(* The invariant holds in every reachable state. *)
THEOREM Invariance == Spec => []Inv
<1>1. Inv /\ [Next]_vars => Inv'
  BY NextInv
<1> QED BY InitInv, <1>1, PTL DEF Spec

(* No blob is one of the gateway's own texts. *)
LEMMA BlobsAreFiles ==
    ASSUME NEW b \in Blobs
    PROVE  b \notin {NoBody, Page, Text, AnyTag.tag}
<1>1. b \in UNION {Contents(r) : r \in DOMAIN Published} /\ b # NoBlob
  BY DEF Blobs
<1>2. PICK r \in DOMAIN Published : b \in Contents(r)
  BY <1>1
<1>3. PICK k \in DOMAIN Published[r].files : b = Published[r].files[k].blob
  BY <1>2 DEF Contents
<1>4. NoBlob = NoBody
  BY DEF NoBlob, NoBody
<1> QED BY <1>1, <1>3, <1>4, ContentsAssumption

-----------------------------------------------------------------------------
(* What follows from it. *)

(* TypeOK: a manifest in memory has logical paths only, answers are        *)
(* responses, and a client never holds a bare 304, whatever it asked with. *)
THEOREM TypeCorrect == Spec => []TypeOK
<1>1. Inv => TypeOK
  <2> SUFFICES ASSUME Inv PROVE TypeOK
    OBVIOUS
  <2>1. ASSUME loaded # None
        PROVE  live \in DOMAIN Published /\ \A ck \in DOMAIN loaded.files : ~ Slashed(ck)
    <3>1. live \in DOMAIN Published /\ loaded \in Load(Published[live])
      BY <2>1 DEF Inv, LoadedIsLive
    <3>2. DOMAIN loaded.files = {TrimLeft(k) : k \in DOMAIN Published[live].files}
      BY <3>1, LoadedManifest
    <3>3. ASSUME NEW k \in DOMAIN Published[live].files
          PROVE  ~ Slashed(TrimLeft(k))
      <4>1. k \in Seq(STRING \X STRING) /\ k # <<>>
        BY <3>1, PublishedAssumption
      <4> QED BY <4>1, TrimmedIsCanonical
    <3> QED BY <3>1, <3>2, <3>3
  <2> QED BY <2>1 DEF Inv, LastIsOwn, HeldIsResponse, TypeOK
<1> QED BY Invariance, <1>1, PTL

(* ServesOwnRelease (parseSite, resolve): content sent to a client is the  *)
(* content of a file of the release that the Ingress chose, for every path *)
(* a client may append to the prefix.                                      *)
THEOREM ServesOwnReleaseAlways == Spec => []ServesOwnRelease
<1>1. Inv => ServesOwnRelease
  <2> SUFFICES ASSUME Inv, last # None, last.answer.body \in Blobs
               PROVE  last.answer.body \in Contents(live)
    BY DEF ServesOwnRelease
  <2> DEFINE a == last.answer
  <2>1. a.body \notin {NoBody, Page, Text}
    BY BlobsAreFiles
  <2>2. PICK k \in DOMAIN Published[live].files : a.body = Published[live].files[k].blob
    BY <2>1 DEF Inv, LastIsOwn, OfFile, OfNoFile
  <2> QED BY <2>2 DEF Contents
<1> QED BY Invariance, <1>1, PTL

(* OwnNotFoundDoc (serveNotFound): a miss is answered with the document   *)
(* that the release names by its logical path, if it has the document in   *)
(* any spelling, and with the built-in page if it has not.                 *)
THEOREM OwnNotFoundDocAlways == Spec => []OwnNotFoundDoc
<1>1. Inv => OwnNotFoundDoc
  <2> DEFINE files == Published[live].files
             doc == NotFoundDoc(Published[live])
             own == {k \in DOMAIN files : TrimLeft(k) = doc}
             a == last.answer
  <2> SUFFICES ASSUME Inv, JustAnswered, a.status = 404
               PROVE  IF own = {} THEN a.body = Page
                      ELSE a.body \in {files[k].blob : k \in own}
    BY DEF OwnNotFoundDoc
  <2>1. a.body \notin {Text, NoBody} /\ (OfFile(live, a) \/ OfNoFile(live, a))
    BY DEF Inv, LastIsOwn, JustAnswered
  <2>2. CASE OfFile(live, a)
    <3>1. PICK k \in DOMAIN files :
            /\ a.body \in {NoBody, Text, files[k].blob}
            /\ a.status = 404 /\ a.body # Text => TrimLeft(k) = doc
      BY <2>2 DEF OfFile
    <3>2. k \in own /\ a.body = files[k].blob
      BY <2>1, <3>1
    <3> QED BY <3>2
  <2>3. CASE OfNoFile(live, a)
    <3>1. a.body = Page /\ own = {}
      BY <2>1, <2>3 DEF OfNoFile
    <3> QED BY <3>1
  <2> QED BY <2>1, <2>2, <2>3
<1> QED BY Invariance, <1>1, PTL

(* PreviewsHidden (setSecurityHeaders): on a preview's pages, their 304s,  *)
(* the answers to HEAD and the built-in page is noindex, and on no other   *)
(* answer.                                                                 *)
THEOREM PreviewsAlwaysHidden == Spec => []PreviewsHidden
<1>1. Inv => PreviewsHidden
  <2> DEFINE files == Published[live].files
             served == {k \in DOMAIN files : files[k].blob = last.answer.etag.tag}
             html == {k \in served : isHTML(files[k])}
             builtIn == last.answer.etag = NoTag
  <2> SUFFICES ASSUME Inv, last # None, live \in DOMAIN Published, last.answer.body # Text
               PROVE  /\ last.answer.robots = "noindex" =>
                           ~ Published[live].production /\ (builtIn \/ html # {})
                      /\ ~ Published[live].production /\ (builtIn \/ html = served) =>
                           last.answer.robots = "noindex"
    BY DEF PreviewsHidden
  <2>1. NoBody # "noindex"
    BY DEF NoBody
  <2>2. CASE OfNoFile(live, last.answer)
    BY <2>1, <2>2 DEF OfNoFile
  <2>3. CASE OfFile(live, last.answer)
    <3>1. PICK k \in DOMAIN files :
            /\ files[k].blob # NoBlob /\ last.answer.etag = ETag(files[k].blob)
            /\ last.answer.robots = IF isHTML(files[k]) /\ ~ Published[live].production
                                    THEN "noindex" ELSE NoBody
      BY <2>3 DEF OfFile
    <3>2. k \in served /\ ~ builtIn
      <4>1. last.answer.etag.tag = files[k].blob
        BY <3>1 DEF ETag
      <4>2. NoTag.tag = NoBlob
        BY DEF NoTag, ETag, NoBlob
      <4> QED BY <3>1, <4>1, <4>2
    <3>3. isHTML(files[k]) <=> k \in html
      BY <3>2
    <3> HIDE DEF served, builtIn
    <3> QED BY <2>1, <3>1, <3>2, <3>3
  <2> QED BY <2>2, <2>3 DEF Inv, LastIsOwn
<1> QED BY Invariance, <1>1, PTL

-----------------------------------------------------------------------------
(* Revalidation.  A client that returns entity tags holds an error text, a *)
(* blob with its tag, or the built-in page, which has no validators.       *)
Tagged == held # None =>
    \/ held.body = Text
    \/ held.body \in Blobs /\ held.etag = ETag(held.body)
    \/ held.body = Page /\ held.etag = NoTag /\ held.lastModified = NoTime

(* The conditions that a client sends: the tag it has, if it has one. *)
LEMMA ConditionTags ==
    ASSUME "etag" \in Validators, held # None, HeldIsResponse, NEW cond \in Conditions(held)
    PROVE  /\ held.etag # NoTag =>
                \E t : cond.ifNoneMatch = {t} /\ t.tag = held.etag.tag
           /\ held.etag = NoTag => cond.ifNoneMatch = {}
           /\ cond.ifModifiedSince \in {held.lastModified, NoTime}
<1> DEFINE e == held.etag
           weakened == [e EXCEPT !.weak = TRUE]
           tags == IF e # NoTag THEN {{e}, {weakened}} ELSE {{}}
           dates == IF "date" \in Validators THEN {held.lastModified} ELSE {NoTime}
<1>1. Conditions(held) = {[ifNoneMatch |-> t, ifModifiedSince |-> d] :
                             t \in tags, d \in dates \cup {NoTime}}
  BY DEF Conditions
<1>2. weakened.tag = e.tag
  <2>1. e \in Tags
    BY DEF HeldIsResponse, Responses, Tags, NoBody
  <2> HIDE DEF e
  <2> QED BY <2>1 DEF Tags
<1> HIDE DEF e, weakened, tags, dates
<1>3. PICK t \in tags, d \in dates \cup {NoTime} :
        cond = [ifNoneMatch |-> t, ifModifiedSince |-> d]
  BY <1>1
<1>4. cond.ifNoneMatch = t /\ cond.ifModifiedSince = d
  BY <1>3
<1>5. cond.ifModifiedSince \in {held.lastModified, NoTime}
  BY <1>3, <1>4 DEF dates
<1>6. e # NoTag => t = {e} \/ t = {weakened}
  BY <1>3 DEF tags
<1>7. e = NoTag => t = {}
  BY <1>3 DEF tags
<1> QED BY <1>2, <1>4, <1>5, <1>6, <1>7 DEF e

(* A 304 tells the client that it holds the file's content, unless what it *)
(* holds is an error text: NotModified compares digests.                   *)
LEMMA ConfirmedIsHeld ==
    ASSUME "etag" \in Validators, Inv, Tagged, NEW method, NEW read, NEW m, NEW req,
           ServeStep(method, read, m, req), held # None, Confirmed(req, UpstreamPath, m)
    PROVE  held.body = Text \/ held.body = Entry(UpstreamPath, m).blob
<1> DEFINE blob == Entry(UpstreamPath, m).blob
           time == ModTime(m)
<1>1. conditionalNotModified(req, ETag(blob), time)
  BY DEF Confirmed, Unmodified
<1>2. PICK cond \in Conditions(held) :
        req = [method |-> method, ifNoneMatch |-> cond.ifNoneMatch,
               ifModifiedSince |-> cond.ifModifiedSince]
  BY DEF ServeStep
<1> HIDE DEF blob, time
<1>3. /\ cond.ifNoneMatch # {} => NotModified(cond.ifNoneMatch, ETag(blob))
      /\ cond.ifNoneMatch = {} => cond.ifModifiedSince # NoTime
  BY <1>1, <1>2 DEF conditionalNotModified
<1>4. /\ held.etag # NoTag =>
           \E t : cond.ifNoneMatch = {t} /\ t.tag = held.etag.tag
      /\ held.etag = NoTag => cond.ifNoneMatch = {}
      /\ cond.ifModifiedSince \in {held.lastModified, NoTime}
  BY ConditionTags DEF Inv
<1>5. CASE held.body = Page /\ held.etag = NoTag /\ held.lastModified = NoTime
  BY <1>3, <1>4, <1>5
<1>6. CASE held.body \in Blobs /\ held.etag = ETag(held.body)
  <2>1. held.etag.tag = held.body
    BY <1>6 DEF ETag
  <2>2. NoTag.tag = NoBody
    BY DEF NoTag, ETag, NoBody
  <2>3. held.body # NoBody /\ held.body # AnyTag.tag
    BY <1>6, BlobsAreFiles
  <2>4. held.etag # NoTag
    BY <2>1, <2>2, <2>3
  <2>5. PICK t : cond.ifNoneMatch = {t} /\ t.tag = held.body
    BY <1>4, <2>1, <2>4
  <2>6. NotModified({t}, ETag(blob))
    BY <1>3, <2>5
  <2>7. t # AnyTag
    BY <2>3, <2>5
  <2>8. t.tag = ETag(blob).tag
    BY <2>6, <2>7 DEF NotModified, normalizeETag
  <2>9. ETag(blob).tag = blob
    BY DEF ETag
  <2> QED BY <2>5, <2>8, <2>9 DEF blob
<1> QED BY <1>5, <1>6 DEF Tagged

(* And a client that holds the file's content is told so. *)
LEMMA HeldIsConfirmed ==
    ASSUME "etag" \in Validators, Inv, Tagged, NEW method, NEW read, NEW m, NEW req,
           ServeStep(method, read, m, req), held # None,
           held.body \in Blobs, held.body = Entry(UpstreamPath, m).blob,
           Chosen(UpstreamPath, m).status = 200
    PROVE  Confirmed(req, UpstreamPath, m)
<1> DEFINE blob == Entry(UpstreamPath, m).blob
           time == ModTime(m)
<1>1. held.body \notin {NoBody, Page, Text}
  BY BlobsAreFiles
<1>2. held.etag = ETag(held.body)
  BY <1>1 DEF Tagged
<1>3. held.etag.tag = held.body /\ NoTag.tag = NoBody
  BY <1>2 DEF ETag, NoTag, NoBody
<1>4. held.etag # NoTag
  BY <1>1, <1>3
<1>5. PICK cond \in Conditions(held) :
        req = [method |-> method, ifNoneMatch |-> cond.ifNoneMatch,
               ifModifiedSince |-> cond.ifModifiedSince]
  BY DEF ServeStep
<1>6. PICK t : cond.ifNoneMatch = {t} /\ t.tag = held.etag.tag
  BY <1>4, ConditionTags DEF Inv
<1>7. req.ifNoneMatch = {t} /\ t.tag = blob
  BY <1>3, <1>5, <1>6
<1>8. ETag(blob).tag = blob
  BY DEF ETag
<1> HIDE DEF blob, time
<1>9. conditionalNotModified(req, ETag(blob), time)
  BY <1>7, <1>8 DEF conditionalNotModified, NotModified, normalizeETag
<1> QED BY <1>9 DEF Confirmed, Unmodified, blob, time

(* The file that answers is one of the release, and has content. *)
LEMMA EntryPublished ==
    ASSUME NEW r \in DOMAIN Published, NEW m \in Load(Published[r]), NEW p,
           Chosen(p, m).path \in DOMAIN m.files
    PROVE  Entry(p, m).blob \in Blobs
<1>1. PICK k \in DOMAIN Published[r].files : Entry(p, m) = Published[r].files[k]
  BY LoadedManifest DEF Entry
<1>2. Published[r].files[k].blob # NoBlob
  BY LoadedManifest
<1>3. Published[r].files[k].blob \in Blobs
  BY <1>2, BlobIsPublished
<1> QED BY <1>1, <1>3

-----------------------------------------------------------------------------
(* What a client that holds nothing is served at p by m. *)
CurrentAt(p, m) ==
    ServeHTTP([method |-> "GET", ifNoneMatch |-> {}, ifModifiedSince |-> NoTime], p, m, "ok")

(* It is the content of the file chosen, or the built-in page. *)
LEMMA CurrentBody ==
    ASSUME NEW p, NEW m
    PROVE  CurrentAt(p, m).body = IF Chosen(p, m).path \in DOMAIN m.files
                                  THEN Entry(p, m).blob ELSE Page
<1> DEFINE req == [method |-> "GET", ifNoneMatch |-> {}, ifModifiedSince |-> NoTime]
<1>1. req.method = "GET" /\ req.ifNoneMatch = {} /\ req.ifModifiedSince = NoTime
  OBVIOUS
<1> HIDE DEF req
<1> DEFINE a == ServeHTTP(req, p, m, "ok")
<1>2. CurrentAt(p, m) = a
  BY DEF CurrentAt, req
<1>3. ~ Confirmed(req, p, m)
  BY <1>1 DEF Confirmed, Unmodified, conditionalNotModified
<1>4. CASE Chosen(p, m).path \in DOMAIN m.files
  <2>1. a.body = IF Confirmed(req, p, m) \/ req.method = "HEAD" THEN NoBody
                 ELSE IF "ok" = "ok" THEN Entry(p, m).blob ELSE Text
    BY <1>1, <1>4, FileAnswered
  <2> HIDE DEF a
  <2> QED BY <1>1, <1>2, <1>3, <1>4, <2>1
<1>5. CASE Chosen(p, m).path \notin DOMAIN m.files
  <2>1. a = BuiltIn(m, req.method)
    BY <1>5, Served
  <2>2. BuiltIn(m, req.method).body = IF req.method = "HEAD" THEN NoBody ELSE Page
    BY BuiltInFields
  <2> HIDE DEF a
  <2> QED BY <1>1, <1>2, <1>5, <2>1, <2>2
<1> QED BY <1>4, <1>5

(* What a GET leaves with the client: an error text, or what the release   *)
(* has there, with the tag of the content if it is a file's.               *)
LEMMA ServedIsCurrent ==
    ASSUME "etag" \in Validators, Inv, Tagged, NEW read \in {"ok", "absent", "failed"},
           NEW m, NEW req, ServeStep("GET", read, m, req)
    PROVE  /\ held'.body = Text \/ held'.body = CurrentAt(UpstreamPath, m).body
           /\ Tagged'
<1> DEFINE p == UpstreamPath
           a == ServeHTTP(req, p, m, read)
           entry == Entry(p, m)
<1>1. /\ live \in DOMAIN Published /\ m \in Load(Published[live]) /\ req.method = "GET"
      /\ held' = Kept(held, a)
  BY DEF ServeStep
<1>2. a \in Responses /\ a.status \in {200, 304, 404, 500}
  BY <1>1, AnswerIsOwn
<1>3. a.status = 304 => /\ held # None /\ Chosen(p, m).path \in DOMAIN m.files
                        /\ Confirmed(req, p, m)
  BY OnlyHeldConfirmed
<1>4. /\ a.status = 304 => held'.body = held.body
      /\ held'.etag = a.etag /\ held'.lastModified = a.lastModified
  BY <1>1, <1>2, <1>3, KeptTyped DEF Inv, HeldIsResponse
<1>5. a.status # 304 => held' = a
  BY <1>1 DEF Kept
<1>6. CASE Chosen(p, m).path \in DOMAIN m.files
  <2>1. CurrentAt(p, m).body = entry.blob
    BY <1>6, CurrentBody
  <2>2. /\ a = BlobAnswer(m, entry, a.status, a.body)
        /\ a.status = 304 <=> Confirmed(req, p, m)
        /\ a.body = IF Confirmed(req, p, m) \/ req.method = "HEAD" THEN NoBody
                    ELSE IF read = "ok" THEN entry.blob ELSE Text
    BY <1>1, <1>6, FileAnswered
  <2>3. entry.blob \in Blobs
    BY <1>1, <1>6, EntryPublished
  <2>4. held.body = Text \/ held.body = entry.blob \/ a.status # 304
    BY <1>3, ConfirmedIsHeld
  <2> HIDE DEF a, p, entry
  <2>5. a.etag = ETag(entry.blob)
    <3>1. BlobAnswer(m, entry, a.status, a.body).etag = ETag(entry.blob)
      BY BlobAnswerTag
    <3> QED BY <2>2, <3>1
  <2>6. held'.body = Text \/ held'.body = entry.blob
    BY <1>1, <1>4, <1>5, <2>2, <2>4
  <2>7. held'.etag = ETag(entry.blob)
    BY <1>4, <2>5
  <2> QED BY <2>1, <2>3, <2>6, <2>7 DEF Tagged, p
<1>7. CASE Chosen(p, m).path \notin DOMAIN m.files
  <2>1. CurrentAt(p, m).body = Page
    BY <1>7, CurrentBody
  <2>2. a = BuiltIn(m, req.method)
    BY <1>7, Served
  <2> HIDE DEF a
  <2>3. a.body = Page /\ a.etag = NoTag /\ a.lastModified = NoTime /\ a.status = 404
    <3> DEFINE b == BuiltIn(m, req.method)
    <3>1. /\ b.status = 404 /\ b.etag = NoTag /\ b.lastModified = NoTime
          /\ b.body = IF req.method = "HEAD" THEN NoBody ELSE Page
      BY BuiltInFields
    <3> HIDE DEF b
    <3> QED BY <1>1, <2>2, <3>1 DEF b
  <2> QED BY <1>5, <2>1, <2>3 DEF Tagged
<1> QED BY <1>6, <1>7

(* What the client shows after an answer is what some manifest that Load   *)
(* makes of the live release has at its URL: of the one in memory, if it   *)
(* has not been evicted since.                                             *)
ShownFrom(r, p, b) == \E m \in Load(Published[r]) : b = CurrentAt(p, m).body
Shown == JustAnswered /\ held.body # Text =>
    live \in DOMAIN Published /\ ShownFrom(live, UpstreamPath, held.body)

Client == Tagged /\ ContentIsCurrent /\ Shown

(* Every step keeps the client's part of the invariant. *)
LEMMA CurrentNext ==
    ASSUME "etag" \in Validators
    PROVE  Inv /\ Client /\ [Next]_vars => Client'
<1> SUFFICES ASSUME Inv, Tagged, ContentIsCurrent, Shown, [Next]_vars
             PROVE  Client'
  BY DEF Client
<1>1. ASSUME NEW method \in {"GET", "HEAD", "POST"}, NEW status \in {400, 404, 405, 500},
             last' = [method |-> method, answer |-> Error(Blank, status)], held' = held
      PROVE  Client'
  <2>1. last'.answer.body = Text
    BY <1>1, ErrorAnswer
  <2> QED BY <1>1, <2>1 DEF Client, Tagged, ContentIsCurrent, Shown, JustAnswered
<1>2. ASSUME NEW r \in Releases, Deploy(r) PROVE Client'
  BY <1>2 DEF Deploy, Client, Tagged, ContentIsCurrent, Shown, JustAnswered
<1>3. CASE Evict
  BY <1>3 DEF Evict, Client, Tagged, ContentIsCurrent, Shown, JustAnswered, UpstreamPath
<1>4. CASE MethodNotAllowed
  BY <1>1, <1>4 DEF MethodNotAllowed
<1>5. ASSUME NEW p \in Probes, BadRequest(p) PROVE Client'
  BY <1>1, <1>5 DEF BadRequest
<1>6. ASSUME NEW method \in {"GET", "HEAD"}, NoManifest(method)
      PROVE  Client'
  <2>1. PICK status \in {404, 500} :
          last' = [method |-> method, answer |-> Error(Blank, status)]
    BY <1>6 DEF NoManifest
  <2> QED BY <1>1, <1>6, <2>1 DEF NoManifest
<1>7. ASSUME NEW method \in {"GET", "HEAD"}, NEW read \in {"ok", "absent", "failed"},
             Serve(method, read)
      PROVE  Client'
  <2>1. PICK m, req : ServeStep(method, read, m, req)
    BY <1>7, ServeState
  <2>2. last'.method = method /\ loaded' = m /\ live' = live /\ url' = url
    BY <2>1 DEF ServeStep
  <2>3. CASE method = "HEAD"
    <3>1. held' = held
      BY <2>1, <2>3 DEF ServeStep
    <3> QED BY <2>2, <2>3, <3>1 DEF Client, Tagged, ContentIsCurrent, Shown, JustAnswered
  <2>4. CASE method = "GET"
    <3>1. ServeStep("GET", read, m, req)
      BY <2>1, <2>4
    <3>2. /\ held'.body = Text \/ held'.body = CurrentAt(UpstreamPath, m).body
          /\ Tagged'
      BY <3>1, ServedIsCurrent
    <3>3. Current' = CurrentAt(UpstreamPath, m)
      BY <2>2 DEF Current, CurrentAt, UpstreamPath
    <3>4. live \in DOMAIN Published /\ m \in Load(Published[live])
      BY <3>1 DEF ServeStep
    <3>5. Shown'
      <4>1. UpstreamPath' = UpstreamPath
        BY <2>2 DEF UpstreamPath
      <4> QED BY <2>2, <3>2, <3>4, <4>1 DEF Shown, ShownFrom
    <3> QED BY <3>2, <3>3, <3>5 DEF Client, ContentIsCurrent
  <2> QED BY <2>3, <2>4
<1>8. CASE UNCHANGED vars
  <2>1. Tagged'
    BY <1>8 DEF vars, Tagged
  <2>2. ContentIsCurrent'
    BY <1>8 DEF vars, ContentIsCurrent, JustAnswered, Current, UpstreamPath
  <2>3. Shown'
    BY <1>8 DEF vars, Shown, JustAnswered, UpstreamPath
  <2> QED BY <2>1, <2>2, <2>3 DEF Client
<1> QED BY <1>2, <1>3, <1>4, <1>5, <1>6, <1>7, <1>8 DEF Next

(* The client's part of the invariant, for clients that return tags. *)
LEMMA CurrentInvariance ==
    ASSUME "etag" \in Validators
    PROVE  Spec => [](Inv /\ Client)
<1>1. Init => Client
  BY DEF Init, Client, Tagged, ContentIsCurrent, Shown, JustAnswered
<1>2. Inv /\ Client /\ [Next]_vars => Client'
  BY CurrentNext
<1> QED BY Invariance, <1>1, <1>2, PTL DEF Spec

(* ContentIsCurrent (conditionalNotModified, NotModified): the content     *)
(* shown by a client that returns entity tags, just received or confirmed  *)
(* by a 304, is what the live release has at its URL, through any deploys, *)
(* rollbacks, evictions and failed reads.                                  *)
THEOREM ContentAlwaysCurrent ==
    ASSUME "etag" \in Validators
    PROVE  Spec => []ContentIsCurrent
<1>1. Client => ContentIsCurrent
  BY DEF Client
<1> QED BY CurrentInvariance, <1>1, PTL

(* CheapRevalidation: such a client is never sent what it holds.           *)
THEOREM RevalidationAlwaysCheap ==
    ASSUME "etag" \in Validators
    PROVE  Spec => CheapRevalidation
<1> DEFINE Cheap == last' # last /\ last' # None /\ held # None =>
             \/ last'.answer.status # 200
             \/ last'.answer.body \notin Blobs
             \/ last'.answer.body # held.body
<1>1. Inv /\ Tagged /\ [Next]_vars => [Cheap]_vars
  <2> SUFFICES ASSUME Inv, Tagged, Next, last' # last, last' # None, held # None
               PROVE  \/ last'.answer.status # 200
                      \/ last'.answer.body \notin Blobs
                      \/ last'.answer.body # held.body
    OBVIOUS
  <2>1. ASSUME NEW method \in {"GET", "HEAD", "POST"}, NEW status \in {400, 404, 405, 500},
               last' = [method |-> method, answer |-> Error(Blank, status)]
        PROVE  last'.answer.body \notin Blobs
    <3>1. last'.answer.body = Text
      BY <2>1, ErrorAnswer
    <3> QED BY <3>1, BlobsAreFiles
  <2>2. ASSUME NEW method \in {"GET", "HEAD"}, NEW read \in {"ok", "absent", "failed"},
               Serve(method, read), last'.answer.status = 200,
               last'.answer.body \in Blobs, last'.answer.body = held.body
        PROVE  FALSE
    <3>1. PICK m, req : ServeStep(method, read, m, req)
      BY <2>2, ServeState
    <3> DEFINE p == UpstreamPath
               a == ServeHTTP(req, p, m, read)
    <3>2. last'.answer = a /\ req.method \in {"GET", "HEAD"}
      BY <3>1 DEF ServeStep
    <3>3. Chosen(p, m).path \in DOMAIN m.files
      <4> SUFFICES ASSUME Chosen(p, m).path \notin DOMAIN m.files PROVE FALSE
        OBVIOUS
      <4>1. a = BuiltIn(m, req.method)
        BY Served
      <4>2. BuiltIn(m, req.method).status = 404
        BY BuiltInFields
      <4> HIDE DEF a
      <4> QED BY <2>2, <3>2, <4>1, <4>2
    <3>4. /\ a.status = 304 <=> Confirmed(req, p, m)
          /\ a.status = 200 => Chosen(p, m).status = 200
          /\ a.body = IF Confirmed(req, p, m) \/ req.method = "HEAD" THEN NoBody
                      ELSE IF read = "ok" THEN Entry(p, m).blob ELSE Text
      BY <3>2, <3>3, FileAnswered
    <3> HIDE DEF a
    <3>5. a.body \notin {NoBody, Page, Text}
      BY <2>2, <3>2, BlobsAreFiles
    <3>6. held.body = Entry(p, m).blob /\ Chosen(p, m).status = 200
      BY <2>2, <3>2, <3>4, <3>5
    <3>7. Confirmed(req, p, m)
      BY <2>2, <3>1, <3>2, <3>6, HeldIsConfirmed
    <3> QED BY <2>2, <3>2, <3>4, <3>7
  <2>3. ASSUME NEW r \in Releases, Deploy(r) PROVE FALSE
    BY <2>3 DEF Deploy
  <2>4. CASE Evict
    BY <2>4 DEF Evict
  <2>5. CASE MethodNotAllowed
    BY <2>1, <2>5 DEF MethodNotAllowed
  <2>6. ASSUME NEW p \in Probes, BadRequest(p) PROVE last'.answer.body \notin Blobs
    BY <2>1, <2>6 DEF BadRequest
  <2>7. ASSUME NEW method \in {"GET", "HEAD"}, NoManifest(method)
        PROVE  last'.answer.body \notin Blobs
    <3>1. PICK status \in {404, 500} :
            last' = [method |-> method, answer |-> Error(Blank, status)]
      BY <2>7 DEF NoManifest
    <3> QED BY <2>1, <3>1
  <2> QED BY <2>2, <2>3, <2>4, <2>5, <2>6, <2>7 DEF Next
<1>2. CheapRevalidation <=> [][Cheap]_vars
  BY DEF CheapRevalidation
<1>3. Spec => [](Inv /\ Tagged)
  <2>1. Client => Tagged
    BY DEF Client
  <2> QED BY <2>1, CurrentInvariance, PTL
<1> QED BY <1>1, <1>2, <1>3, PTL DEF Spec

(* Only a deploy, which forgets the last answer, changes the path that     *)
(* reaches the gateway.                                                    *)
LEMMA LiveKept ==
    ASSUME [Next]_vars, last' # None
    PROVE  live' = live /\ url' = url
BY DEF Next, vars, Deploy, Evict, MethodNotAllowed, BadRequest, NoManifest, Serve

-----------------------------------------------------------------------------
(* Reloads.  The order in which Go's map yields its keys does not matter   *)
(* where all slash-prefixed spellings of a path have the same entry: Load  *)
(* makes one manifest of the release.                                      *)
LEMMA LoadedTwice ==
    ASSUME NEW r \in DOMAIN Published, OneSpelling(r),
           NEW m \in Load(Published[r]), NEW q \in Load(Published[r])
    PROVE  m = q
<1> DEFINE p == Published[r]
           Rebuilt(f) == [files |-> f, production |-> p.production, spa |-> p.spa,
                          notFound |-> p.notFound, createdAt |-> p.createdAt,
                          noFiles |-> p.noFiles]
<1>1. m = Rebuilt(m.files) /\ q = Rebuilt(q.files)
  BY LoadedManifest
<1>2. DOMAIN m.files = DOMAIN q.files
  BY LoadedManifest
<1>3. m.files = [ck \in DOMAIN m.files |-> m.files[ck]]
      /\ q.files = [ck \in DOMAIN q.files |-> q.files[ck]]
  BY LoadedManifest
<1>4. ASSUME NEW ck \in DOMAIN m.files
      PROVE  m.files[ck] = q.files[ck]
  <2>1. PICK k \in DOMAIN p.files : k \in Spellings(p.files, ck) /\ m.files[ck] = p.files[k]
    BY LoadedManifest
  <2>2. PICK j \in DOMAIN p.files : j \in Spellings(p.files, ck) /\ q.files[ck] = p.files[j]
    <3>1. ck \in DOMAIN q.files
      BY <1>2
    <3> QED BY <3>1, LoadedManifest
  <2>3. CASE ck \in DOMAIN p.files /\ ~ Slashed(ck)
    BY <2>1, <2>2, <2>3 DEF Spellings
  <2>4. CASE ~ (ck \in DOMAIN p.files /\ ~ Slashed(ck))
    <3>1. Slashed(k) /\ Slashed(j) /\ TrimLeft(k) = TrimLeft(j)
      BY <2>1, <2>2, <2>4 DEF Spellings
    <3>2. p.files[k] = p.files[j]
      BY <3>1 DEF OneSpelling
    <3> QED BY <2>1, <2>2, <3>2
  <2> QED BY <2>3, <2>4
<1>5. m.files = q.files
  BY <1>2, <1>3, <1>4
<1> HIDE DEF Rebuilt
<1> QED BY <1>1, <1>5

(* The last content sent is that of the file that answers the URL. *)
SentFrom(r, p, b) == \E m \in Load(Published[r]) : b = Entry(p, m).blob
LastSent == last # None /\ last.answer.body \in Blobs =>
    live \in DOMAIN Published /\ SentFrom(live, UpstreamPath, last.answer.body)

(* Content in the answer of a step of Serve is of the file chosen. *)
LEMMA ServedContent ==
    ASSUME NEW method \in {"GET", "HEAD"}, NEW read \in {"ok", "absent", "failed"},
           NEW m, NEW req, ServeStep(method, read, m, req), last'.answer.body \in Blobs
    PROVE  last'.answer.body = Entry(UpstreamPath, m).blob
<1> DEFINE p == UpstreamPath
           a == ServeHTTP(req, p, m, read)
<1>1. last'.answer = a /\ req.method \in {"GET", "HEAD"}
  BY DEF ServeStep
<1>2. last'.answer.body \notin {NoBody, Page, Text}
  BY BlobsAreFiles
<1>3. CASE Chosen(p, m).path \in DOMAIN m.files
  <2>1. a.body = IF Confirmed(req, p, m) \/ req.method = "HEAD" THEN NoBody
                 ELSE IF read = "ok" THEN Entry(p, m).blob ELSE Text
    BY <1>1, <1>3, FileAnswered
  <2> HIDE DEF a, p
  <2> QED BY <1>1, <1>2, <2>1 DEF p
<1>4. CASE Chosen(p, m).path \notin DOMAIN m.files
  <2>1. a = BuiltIn(m, req.method)
    BY <1>4, Served
  <2>2. BuiltIn(m, req.method).body = IF req.method = "HEAD" THEN NoBody ELSE Page
    BY BuiltInFields
  <2> HIDE DEF a
  <2> QED BY <1>1, <1>2, <2>1, <2>2
<1> QED BY <1>3, <1>4

(* What a step sends next is sent from the live release, or is no content. *)
LEMMA NextSent ==
    ASSUME Inv, Next, last' # None, last' # last, last'.answer.body \in Blobs
    PROVE  /\ live \in DOMAIN Published /\ SentFrom(live, UpstreamPath, last'.answer.body)
           /\ live' = live /\ url' = url
<1>1. ASSUME NEW method \in {"GET", "HEAD", "POST"}, NEW status \in {400, 404, 405, 500},
             last' = [method |-> method, answer |-> Error(Blank, status)]
      PROVE  FALSE
  <2>1. last'.answer.body = Text
    BY <1>1, ErrorAnswer
  <2> QED BY <2>1, BlobsAreFiles
<1>2. ASSUME NEW r \in Releases, Deploy(r) PROVE FALSE
  BY <1>2 DEF Deploy
<1>3. CASE Evict
  BY <1>3 DEF Evict
<1>4. CASE MethodNotAllowed
  BY <1>1, <1>4 DEF MethodNotAllowed
<1>5. ASSUME NEW p \in Probes, BadRequest(p) PROVE FALSE
  BY <1>1, <1>5 DEF BadRequest
<1>6. ASSUME NEW method \in {"GET", "HEAD"}, NoManifest(method) PROVE FALSE
  <2>1. PICK status \in {404, 500} :
          last' = [method |-> method, answer |-> Error(Blank, status)]
    BY <1>6 DEF NoManifest
  <2> QED BY <1>1, <2>1
<1>7. ASSUME NEW method \in {"GET", "HEAD"}, NEW read \in {"ok", "absent", "failed"},
             Serve(method, read)
      PROVE  /\ live \in DOMAIN Published /\ SentFrom(live, UpstreamPath, last'.answer.body)
             /\ live' = live /\ url' = url
  <2>1. PICK m, req : ServeStep(method, read, m, req)
    BY <1>7, ServeState
  <2>2. /\ live \in DOMAIN Published /\ m \in Load(Published[live])
        /\ live' = live /\ url' = url
    BY <2>1 DEF ServeStep
  <2>3. last'.answer.body = Entry(UpstreamPath, m).blob
    BY <2>1, ServedContent
  <2> QED BY <2>2, <2>3 DEF SentFrom
<1> QED BY <1>2, <1>3, <1>4, <1>5, <1>6, <1>7 DEF Next

(* LastSent is an invariant. *)
LEMMA SentInvariance == Spec => [](Inv /\ LastSent)
<1>1. Init => LastSent
  BY DEF Init, LastSent
<1>2. Inv /\ LastSent /\ [Next]_vars => LastSent'
  <2> SUFFICES ASSUME Inv, LastSent, [Next]_vars, last' # None, last'.answer.body \in Blobs
               PROVE  /\ live' \in DOMAIN Published
                      /\ SentFrom(live', UpstreamPath', last'.answer.body)
    BY DEF LastSent
  <2>1. CASE last' # last
    <3>1. Next
      BY <2>1 DEF vars
    <3>2. /\ live \in DOMAIN Published /\ SentFrom(live, UpstreamPath, last'.answer.body)
          /\ live' = live /\ url' = url
      BY <2>1, <3>1, NextSent
    <3>3. UpstreamPath' = UpstreamPath
      BY <3>2 DEF UpstreamPath
    <3> QED BY <3>2, <3>3
  <2>2. CASE last' = last
    <3>1. live' = live /\ url' = url
      BY <2>2, LiveKept
    <3>2. UpstreamPath' = UpstreamPath
      BY <3>1 DEF UpstreamPath
    <3> QED BY <2>2, <3>1, <3>2 DEF LastSent
  <2> QED BY <2>1, <2>2
<1> QED BY Invariance, <1>1, <1>2, PTL DEF Spec

(* SameReleaseSameContent (loadManifest, canonicalizeFileKeys): while one  *)
(* release is live, evicted and loaded again, a path serves one content,   *)
(* if the release has no two slash-prefixed spellings of a path.           *)
THEOREM ReleaseAlwaysSame == Spec => SameReleaseSameContent
<1> DEFINE Same == last # None /\ last' # None
                   /\ last.answer.body \in Blobs /\ last'.answer.body \in Blobs
                   /\ OneSpelling(live)
                     => last'.answer.body = last.answer.body
<1>1. Inv /\ LastSent /\ [Next]_vars => [Same]_vars
  <2> SUFFICES ASSUME Inv, LastSent, Next, last # None, last' # None,
                      last.answer.body \in Blobs, last'.answer.body \in Blobs,
                      OneSpelling(live)
               PROVE  last'.answer.body = last.answer.body
    OBVIOUS
  <2>1. CASE last' = last
    BY <2>1
  <2>2. CASE last' # last
    <3>1. live \in DOMAIN Published /\ SentFrom(live, UpstreamPath, last'.answer.body)
      BY <2>2, NextSent
    <3>2. PICK m \in Load(Published[live]) : last'.answer.body = Entry(UpstreamPath, m).blob
      BY <3>1 DEF SentFrom
    <3>3. PICK q \in Load(Published[live]) : last.answer.body = Entry(UpstreamPath, q).blob
      BY DEF LastSent, SentFrom
    <3>4. m = q
      BY <3>1, LoadedTwice
    <3> QED BY <3>2, <3>3, <3>4
  <2> QED BY <2>1, <2>2
<1>2. SameReleaseSameContent <=> [][Same]_vars
  BY DEF SameReleaseSameContent
<1> QED BY <1>1, <1>2, SentInvariance, PTL DEF Spec

-----------------------------------------------------------------------------
(* Published paths.  Their names have no empty and no dot segments, but    *)
(* for leading slashes: a publisher lists the files of a directory.        *)
LogicalPaths == \A r \in DOMAIN Published : \A k \in DOMAIN Published[r].files :
    Logical(TrimLeft(k))

(* What is left of a path when it is trimmed is a path. *)
LEMMA TrimmedIsPath ==
    ASSUME NEW T, NEW k \in Seq(T), k # <<>>
    PROVE  TrimLeft(k) \in Seq(T) /\ TrimLeft(k) # <<>>
<1> DEFINE kept == {i \in 1..Len(k) : i = Len(k) \/ k[i] # Empty}
           n == Min(kept)
<1>1. Len(k) \in Nat /\ Len(k) > 0
  OBVIOUS
<1>2. kept \in SUBSET Nat /\ kept # {}
  <2>1. Len(k) \in kept
    BY <1>1
  <2> QED BY <2>1
<1>3. n \in 1..Len(k)
  <2>1. n \in kept
    BY <1>2, FirstPosition
  <2> QED BY <2>1
<1>4. TrimLeft(k) = SubSeq(k, n, Len(k))
  BY DEF TrimLeft
<1> HIDE DEF n
<1>5. SubSeq(k, n, Len(k)) \in Seq(T) /\ Len(SubSeq(k, n, Len(k))) = Len(k) - n + 1
  BY <1>1, <1>3
<1>6. Len(SubSeq(k, n, Len(k))) # 0
  BY <1>1, <1>3, <1>5
<1> QED BY <1>4, <1>5, <1>6

(* At a published path, the file that answers is a file published there:   *)
(* the one in that spelling, if there is one.                              *)
LEMMA PublishedIsChosen ==
    ASSUME LogicalPaths, Inv, live \in DOMAIN Published, NEW m \in Load(Published[live]),
           NEW k \in DOMAIN Published[live].files, url = <<Empty>> \o TrimLeft(k)
    PROVE  /\ Chosen(UpstreamPath, m).path \in DOMAIN m.files
           /\ \E j \in DOMAIN Published[live].files :
                /\ TrimLeft(j) = TrimLeft(k)
                /\ Entry(UpstreamPath, m) = Published[live].files[j]
           /\ ~ Slashed(k) => Entry(UpstreamPath, m) = Published[live].files[k]
<1> DEFINE files == Published[live].files
           T == STRING \X STRING
           S == T \cup {Empty}
           ck == TrimLeft(k)
<1>1. k \in Seq(T) /\ k # <<>>
  BY PublishedAssumption
<1>2. ck \in Seq(T) /\ ck # <<>>
  BY <1>1, TrimmedIsPath
<1>3. ck \in Seq(S) /\ Empty \in S
  <2> HIDE DEF T, ck
  <2> QED BY <1>2
<1>4. Logical(ck)
  BY DEF LogicalPaths
<1>5. ck \in DOMAIN m.files
  <2>1. DOMAIN m.files = {TrimLeft(x) : x \in DOMAIN files}
    BY LoadedManifest
  <2> QED BY <2>1
<1>6. parseSite(UpstreamPath).rest = <<Empty>> \o ck
  BY PrefixParsed DEF Inv
<1>7. Resolve(<<Empty>> \o ck, DOMAIN m.files, m.spa) = [kind |-> "Hit", path |-> ck]
  <2> HIDE DEF S, ck
  <2> QED BY <1>2, <1>3, <1>4, <1>5, LogicalIsFound
<1>8. Chosen(UpstreamPath, m).path = ck
  <2> HIDE DEF ck
  <2> QED BY <1>6, <1>7 DEF Chosen
<1>9. PICK j \in DOMAIN files : j \in Spellings(files, ck) /\ m.files[ck] = files[j]
  BY <1>5, LoadedManifest
<1>10. Entry(UpstreamPath, m) = files[j]
  BY <1>8, <1>9 DEF Entry
<1>11. TrimLeft(j) = ck
  <2>1. CASE ck \in DOMAIN files /\ ~ Slashed(ck)
    <3>1. j = ck
      BY <1>9, <2>1 DEF Spellings
    <3>2. TrimLeft(ck) = ck
      <4> HIDE DEF ck
      <4> QED BY <1>2, <2>1, CanonicalIsKept
    <3> QED BY <3>1, <3>2
  <2>2. CASE ~ (ck \in DOMAIN files /\ ~ Slashed(ck))
    BY <1>9, <2>2 DEF Spellings
  <2> QED BY <2>1, <2>2
<1>12. ~ Slashed(k) => j = k
  <2> SUFFICES ASSUME ~ Slashed(k) PROVE j = k
    OBVIOUS
  <2>1. ck = k
    BY <1>1, CanonicalIsKept
  <2> HIDE DEF ck
  <2> QED BY <1>9, <2>1 DEF Spellings
<1> QED BY <1>5, <1>8, <1>10, <1>11, <1>12

(* PublishedPathServed (canonicalizeFileKeys, normalize, Resolve): a       *)
(* client that asks for exactly a published path, however its publisher    *)
(* spelled it, sees a file published there.                                *)
THEOREM PublishedPathAlwaysServed ==
    ASSUME "etag" \in Validators, LogicalPaths
    PROVE  Spec => []PublishedPathServed
<1>1. Inv /\ Client => PublishedPathServed
  <2> DEFINE files == Published[live].files
  <2> SUFFICES ASSUME Inv, Client, JustAnswered, held.body # Text,
                      NEW k \in DOMAIN files, url = <<Empty>> \o TrimLeft(k)
               PROVE  /\ \E j \in DOMAIN files :
                           TrimLeft(j) = TrimLeft(k) /\ held.body = files[j].blob
                      /\ ~ Slashed(k) => held.body = files[k].blob
    BY DEF PublishedPathServed
  <2>1. PICK m \in Load(Published[live]) :
          live \in DOMAIN Published /\ held.body = CurrentAt(UpstreamPath, m).body
    BY DEF Client, Shown, ShownFrom
  <2>2. /\ Chosen(UpstreamPath, m).path \in DOMAIN m.files
        /\ \E j \in DOMAIN files :
             TrimLeft(j) = TrimLeft(k) /\ Entry(UpstreamPath, m) = files[j]
        /\ ~ Slashed(k) => Entry(UpstreamPath, m) = files[k]
    BY <2>1, PublishedIsChosen
  <2>3. held.body = Entry(UpstreamPath, m).blob
    BY <2>1, <2>2, CurrentBody
  <2> QED BY <2>2, <2>3
<1> QED BY CurrentInvariance, <1>1, PTL

============================================================================
