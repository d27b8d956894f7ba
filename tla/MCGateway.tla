----------------------------- MODULE MCGateway -----------------------------
(***************************************************************************)
(* Instances of the gateway: one host, and releases that differ in every   *)
(* respect the handler looks at.                                           *)
(***************************************************************************)
EXTENDS Gateway, TLC

Site(sha) == <<<<"acme", "">>, <<"docs", "">>, <<sha, "">>>>
v1 == Site("v1")
v2 == Site("v2")
v3 == Site("v3")
pr == Site("pr")
gone == Site("gone")    \* not in the bucket
bad == Site("bad")      \* refused by Load: a file without a blob
nofiles == Site("none") \* refused by Load: no files
old == Site("old")      \* by the historical publisher, its notFound slashed too
twice == Site("twice")  \* two spellings of a path, neither of them canonical

Html(stem) == <<stem, ".html">>
Dir(stem) == <<stem, "">>

(* What a publisher makes of a site: files maps paths to blobs, and what   *)
(* is not a document is fingerprinted.                                     *)
Release(files, production, spa, notFound, createdAt) ==
    [files |-> [p \in DOMAIN files |->
        [blob |-> files[p], contentType |-> FromPath(p),
         cache |-> IF FromPath(p) = TextHTML THEN "html" ELSE "immutable"]],
     production |-> production, spa |-> spa,
     notFound |-> notFound, createdAt |-> createdAt, noFiles |-> FALSE]

AppJs == <<<<"app.1", ".js">>>>
NotFoundHtml == <<Html("404")>>
AboutIndex == <<Dir("about"), Html("index")>>
AboutHtml == <<Html("about")>>
Legacy == <<<<"legacy", ".HTML">>>>
Rooted(p) == <<Empty>> \o p             \* "/" + p

Files1 == indexHTML :> "index 1" @@ AboutIndex :> "about 1"
            @@ AppJs :> "script" @@ NotFoundHtml :> "sorry"

(* By the historical publisher, and about.html in both spellings. *)
Files2 == Rooted(indexHTML) :> "index 2" @@ Rooted(AboutHtml) :> "draft"
            @@ AboutHtml :> "about 2" @@ Rooted(Rooted(Legacy)) :> "legacy"

FilesSpa == indexHTML :> "index 2"
FilesPr == AboutIndex :> "about 1" @@ AppJs :> "script" @@ Legacy :> "legacy"
FilesBad == indexHTML :> NoBlob
FilesOld == Rooted(indexHTML) :> "index 1" @@ Rooted(NotFoundHtml) :> "sorry"
FilesTwice == Rooted(AboutHtml) :> "draft" @@ Rooted(Rooted(AboutHtml)) :> "about 2"

MCReleases == {v1, v2, v3, pr, gone, bad, nofiles, old, twice}
MCPublished == [r \in MCReleases \ {gone} |->
    CASE r = v1 -> Release(Files1, TRUE, FALSE, NoPath, 1)
      [] r = v2 -> Release(Files2, TRUE, FALSE, indexHTML, 2)
      [] r = v3 -> Release(FilesSpa, TRUE, TRUE, NoPath, NoTime)
      [] r = pr -> Release(FilesPr, FALSE, FALSE, NoPath, Garbled)
      [] r = bad -> Release(FilesBad, TRUE, FALSE, NoPath, 1)
      [] r = nofiles -> [Release(<<>>, TRUE, FALSE, NoPath, 1) EXCEPT !.noFiles = TRUE]
      [] r = old -> Release(FilesOld, TRUE, FALSE, Rooted(NotFoundHtml), 1)
      [] r = twice -> Release(FilesTwice, TRUE, FALSE, NoPath, 3)]

UrlAbout == <<Empty, Dir("about")>>
UrlAboutHtml == Rooted(AboutHtml)
UrlAppJs == Rooted(AppJs)
UrlEscape == <<Empty, DotDot, <<"v1", "">>, Dir("about"), Empty>>
UrlRoot == <<Empty, Empty>>
UrlLegacy == Rooted(Legacy)
UrlAboutDir == <<Empty, Dir("about"), Empty>>
UrlDots == <<Empty, Empty, Dot, Dir("x"), DotDot, Dir("about")>>
UrlAsDir == <<Empty, Html("index"), Empty>>
MCUrls == {UrlRoot, UrlAbout, UrlAboutHtml, UrlAppJs, UrlEscape, UrlLegacy,
           UrlAboutDir, UrlDots, UrlAsDir}
MCProbes == {<<Empty, Dir("healthz")>>, <<Empty, <<"acme", "">>, Empty, <<"v1", "">>>>}

=============================================================================
