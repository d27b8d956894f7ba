------------------------------ MODULE CleanUrl ------------------------------
(***************************************************************************)
(* Paths, and their resolution against a release (internal/resolve).       *)
(*                                                                         *)
(* A path is the sequence of its segments, as strings.Split(path, "/")     *)
(* cuts it: "/about/" is <<Empty, about, Empty>>.  A segment is the pair   *)
(* of what precedes its last dot and the rest, which is what path.Ext      *)
(* returns for it.  A logical path has none of Empty, Dot and DotDot.      *)
(***************************************************************************)
EXTENDS Integers, Sequences, FiniteSetsExt

Empty == <<"", "">>
Dot == <<"", ".">>
DotDot == <<".", ".">>

indexHTML == <<<<"index", ".html">>>>

(* path.Clean of the rooted path, without its slash; <<>> is the root. *)
normalize(reqPath) ==
    LET walk[i \in 0..Len(reqPath)] ==
          IF i = 0 THEN <<>>
          ELSE CASE reqPath[i] \in {Empty, Dot} -> walk[i-1]
                 [] reqPath[i] = DotDot -> SubSeq(walk[i-1], 1, Len(walk[i-1]) - 1)
                 [] OTHER -> Append(walk[i-1], reqPath[i])
    IN  walk[Len(reqPath)]

trailingSlash(reqPath) == Len(reqPath) > 1 /\ reqPath[Len(reqPath)] = Empty

joinIndex(dir) == dir \o indexHTML

(* path.Ext(logical), and logical + ".html" for a path without one. *)
Ext(logical) == logical[Len(logical)][2]
PlusHTML(logical) == [logical EXCEPT ![Len(logical)][2] = ".html"]

(* The entries Resolve asks the manifest for, in this order. *)
Candidates(reqPath) ==
    LET logical == normalize(reqPath) IN
    CASE logical = <<>> -> <<indexHTML>>
      [] logical # <<>> /\ trailingSlash(reqPath) -> <<joinIndex(logical)>>
      [] logical # <<>> /\ ~ trailingSlash(reqPath) ->
           IF Ext(logical) = ""
           THEN <<logical, joinIndex(logical), PlusHTML(logical)>>
           ELSE <<logical>>

miss(files, spa) ==
    IF spa /\ indexHTML \in files
    THEN [kind |-> "SPAFallback", path |-> indexHTML]
    ELSE [kind |-> "NotFound", path |-> <<>>]

(* files is the set of logical paths of the release. *)
Resolve(reqPath, files, spa) ==
    LET candidates == Candidates(reqPath)
        found == {i \in 1..Len(candidates) : candidates[i] \in files}
    IN  IF found = {} THEN miss(files, spa)
        ELSE [kind |-> "Hit", path |-> candidates[Min(found)]]

=============================================================================
