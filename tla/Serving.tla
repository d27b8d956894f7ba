------------------------------- MODULE Serving -------------------------------
(***************************************************************************)
(* A request from its manifest to its last byte: ServeHTTP and serveBlob   *)
(* (internal/server/server.go) behind loadManifest, for requests that run  *)
(* concurrently, whose clients leave at any time and whose object store    *)
(* may fail, stop in the middle of a blob or never answer.                 *)
(*                                                                         *)
(* The manifest comes from ManifestLoader, the blob from the Store that    *)
(* ObjectStore specifies (and CachingStore implements).  Which blob answers*)
(* which path, and with which headers, is the subject of Gateway; here any *)
(* blob may be asked for, or none, and then the built-in page is sent.  A  *)
(* body is a sequence of bytes, each known by its body and its position.   *)
(***************************************************************************)
EXTENDS Integers, Sequences, FiniteSets

CONSTANTS
    Requests, Keys, Manifests, ApproxSize, Capacity, BytesCapacity, Object,
    ErrParse, ErrNotExist, ErrStore, ErrContext, None,
    Blobs,      \* keys of blobs
    defaultNotFoundBody,    \* the built-in page
    Length,     \* blob or page -> number of its bytes
    copyBufSize,    \* bytes a buffer takes
    Stored,     \* the blobs in the bucket; manifests may refer to others
    Sized,      \* blobs whose reader has a Size() that is not negative
    Buffers     \* the buffers copyBufPool may hand out

Bodies == Blobs \cup {defaultNotFoundBody}

ASSUME LengthAssumption == Length \in [Bodies -> Nat] /\ copyBufSize \in Nat \ {0}
ASSUME BlobsAssumption ==
    /\ Sized \subseteq Blobs /\ Stored \subseteq Blobs
    /\ defaultNotFoundBody \notin Blobs
    /\ None \notin Bodies \cup Buffers
(* The pool makes a new buffer when none is free, so it never runs out. *)
ASSUME BuffersAssumption ==
    /\ IsFiniteSet(Requests) /\ IsFiniteSet(Buffers)
    /\ Cardinality(Requests) <= Cardinality(Buffers)

VARIABLES
    ll, idx, bytes, calls, pc, key, answer, connected, expired, published,
    known,                      \* the state of ManifestLoader
    stored, asked, result,      \* the state of ObjectStore: reads of blobs
    stream,     \* each request's copy of its body to its client
    buf         \* the bytes a buffer holds

loaderVars == <<ll, idx, bytes, calls, pc, key, answer, connected, expired,
                published, known>>
storeVars == <<stored, asked, result>>
vars == <<loaderVars, storeVars, stream, buf>>

Unknown == -1
Reported == [b \in Blobs |-> IF b \in Sized THEN Length[b] ELSE Unknown]

Loader == INSTANCE ManifestLoader
Store == INSTANCE ObjectStore WITH Gets <- Requests, Objects <- Blobs

(* The bytes of a body from after position m to position n. *)
Piece(body, m, n) == [i \in 1..(n - m) |-> <<body, m + i>>]
Whole(body) == Piece(body, 0, Length[body])

(* read, written: bytes taken from rc, accepted by w; received: what the   *)
(* client has; length: the Content-Length; counted: by AddResponseBytes.   *)
NoStream == [body |-> None, buffer |-> None, read |-> 0, written |-> 0,
             received |-> <<>>, length |-> Unknown, counted |-> 0]

Init ==
    /\ Loader!Init
    /\ Store!Init /\ stored = Stored
    /\ stream = [r \in Requests |-> NoStream]
    /\ buf = [b \in Buffers |-> <<>>]

Goto(r, step) == pc' = [pc EXCEPT ![r] = step]

(* A step of the handler that leaves loadManifest's state alone. *)
AfterLoad(r, from, to) ==
    /\ pc[r] = from
    /\ Goto(r, to)
    /\ UNCHANGED <<ll, idx, bytes, calls, key, answer, connected, expired,
                   published, known>>

-----------------------------------------------------------------------------
(* ServeHTTP with loadManifest's answer: an error, a 304 or a HEAD, which  *)
(* have no body to count; the built-in page; or store.Get of a blob, under *)
(* the request's context.  What loadManifest kept for the request is of no *)
(* use any more.                                                           *)
Respond(r) ==
    /\ pc[r] = "answered"
    /\ \/ /\ Goto(r, "done")
          /\ UNCHANGED <<storeVars, stream>>
       \/ /\ answer[r] \in Manifests
          /\ Goto(r, "page")
          /\ stream' = [stream EXCEPT ![r].body = defaultNotFoundBody]
          /\ UNCHANGED storeVars
       \/ /\ answer[r] \in Manifests
          /\ Goto(r, "get")
          /\ \E b \in Blobs : Store!Ask(r, b)
          /\ UNCHANGED stream
    /\ answer' = [answer EXCEPT ![r] = None]
    /\ key' = [key EXCEPT ![r] = None]
    /\ expired' = expired \ {r}
    /\ known' = known \ {r}
    /\ UNCHANGED <<ll, idx, bytes, calls, connected, published, buf>>

(* io.WriteString of the built-in page, and metrics.AddResponseBytes of    *)
(* what w took of it: all, unless the client has left, which then got at   *)
(* most that much.                                                         *)
WritePage(r) ==
    LET body == Whole(defaultNotFoundBody) IN
    /\ AfterLoad(r, "page", "done")
    /\ \E n \in 0..Len(body) : \E m \in 0..n :
        /\ r \in connected => m = Len(body)
        /\ stream' = [stream EXCEPT ![r].written = n, ![r].counted = n,
                                    ![r].received = SubSeq(body, 1, m)]
    /\ UNCHANGED <<storeVars, buf>>

(* Fault: the blob is read under a context that outlives the client. *)
FaultDetachedGet(r) == FALSE

(* r.Context() is done, and what waits for the store under it gives up. *)
ContextDone(r) == r \notin connected

(* store.Get returns because r.Context() is done; an error text is sent. *)
GetAborted(r) ==
    /\ ContextDone(r)
    /\ AfterLoad(r, "get", "done")
    /\ result' = [result EXCEPT ![r] = ErrContext]
    /\ UNCHANGED <<stored, asked, stream, buf>>

(* Fault: copyBufPool hands out buffers that are still in use. *)
FaultBuffersShared == Buffers

(* copyBufPool.Get: a buffer that was put back, or a new one. *)
FreeBuffers == {b \in Buffers : \A q \in Requests : stream[q].buffer # b}

(* Fault: Content-Length is never set. *)
FaultNoLength(rc) == Unknown

(* Content-Length: what Size() says, unless there is none or it is negative. *)
ContentLength(rc) == rc.size

(* store.Get answers.  To an error, an error text is sent; otherwise the   *)
(* headers are written and the copy gets a buffer, whichever.              *)
GetAnswers(r) ==
    /\ Store!Answer(r)
    /\ \/ /\ result'[r] \in {ErrNotExist, ErrStore}
          /\ AfterLoad(r, "get", "done")
          /\ UNCHANGED stream
       \/ /\ result'[r] \notin {ErrNotExist, ErrStore}
          /\ AfterLoad(r, "get", "read")
          /\ stream' = [stream EXCEPT ![r].body = asked[r],
                                      ![r].buffer = CHOOSE b \in FreeBuffers : TRUE,
                                      ![r].length = ContentLength(result'[r])]
    /\ UNCHANGED buf

(* io.CopyBuffer reads the next bytes into its buffer, as many as rc gives *)
(* at once, or meets the end.                                              *)
Read(r) ==
    LET s == stream[r] IN
    /\ pc[r] = "read"
    /\ \/ /\ AfterLoad(r, "read", "write")
          /\ \E n \in 1..copyBufSize :
              /\ s.read + n <= Length[s.body]
              /\ buf' = [buf EXCEPT ![s.buffer] = Piece(s.body, s.read, s.read + n)]
              /\ stream' = [stream EXCEPT ![r].read = s.read + n]
       \/ /\ s.read = Length[s.body]
          /\ AfterLoad(r, "read", "copied")
          /\ UNCHANGED <<stream, buf>>
    /\ UNCHANGED storeVars

(* The read fails: for a reason of the store's, or the client has gone. *)
ReadFails(r) ==
    /\ AfterLoad(r, "read", "copied")
    /\ UNCHANGED <<storeVars, stream, buf>>

ReadAborted(r) == ContextDone(r) /\ ReadFails(r)

(* w accepts all that was read.  Sent to a client that has left, it goes   *)
(* nowhere.                                                                *)
Write(r) ==
    LET p == buf[stream[r].buffer] IN
    /\ AfterLoad(r, "write", "read")
    /\ stream' = [stream EXCEPT
         ![r].written = @ + Len(p),
         ![r].received = IF r \in connected THEN @ \o p ELSE @]
    /\ UNCHANGED <<storeVars, buf>>

(* w reports that the client has left, and how many bytes it had accepted, *)
(* which io.CopyBuffer counts.  Some of them may have reached the client,  *)
(* unless earlier ones were lost.                                          *)
WriteFails(r) ==
    LET p == buf[stream[r].buffer] IN
    /\ r \notin connected
    /\ AfterLoad(r, "write", "copied")
    /\ \E n \in 0..Len(p) : \E m \in 0..n :
        /\ m > 0 => Len(stream[r].received) = stream[r].written
        /\ stream' = [stream EXCEPT ![r].written = @ + n,
                                    ![r].received = @ \o SubSeq(p, 1, m)]
    /\ UNCHANGED <<storeVars, buf>>

(* Fault: the bytes of a copy that ended with an error are not counted. *)
FaultCountOnSuccess(r) ==
    IF stream[r].written = Length[stream[r].body] THEN stream[r].written ELSE 0

(* n, which io.CopyBuffer returns along with its error. *)
BytesCopied(r) == stream[r].written

(* Fault: the buffer of a copy that ended with an error is not put back. *)
FaultPutOnSuccess(r) ==
    /\ AfterLoad(r, "copied", "done")
    /\ stream' = [stream EXCEPT
         ![r].buffer = IF stream[r].written = Length[stream[r].body] THEN None ELSE @,
         ![r].counted = BytesCopied(r)]
    /\ buf' = [buf EXCEPT ![stream[r].buffer] = <<>>]
    /\ UNCHANGED storeVars

(* copyBufPool.Put(buf) - what is left in it, nobody reads - and           *)
(* metrics.AddResponseBytes(n).                                            *)
Copied(r) ==
    /\ AfterLoad(r, "copied", "done")
    /\ stream' = [stream EXCEPT ![r].buffer = None, ![r].counted = BytesCopied(r)]
    /\ buf' = [buf EXCEPT ![stream[r].buffer] = <<>>]
    /\ UNCHANGED storeVars

(* ServeHTTP returns: rc.Close(); the goroutine takes another request. *)
Finish(r) ==
    /\ pc[r] = "done"
    /\ Goto(r, "idle")
    /\ connected' = connected \cup {r}
    /\ asked' = [asked EXCEPT ![r] = None]
    /\ result' = [result EXCEPT ![r] = None]
    /\ stream' = [stream EXCEPT ![r] = NoStream]
    /\ UNCHANGED <<ll, idx, bytes, calls, key, answer, expired, published, known,
                   stored, buf>>

-----------------------------------------------------------------------------
(* The steps of loadManifest, of its store and of clients and publishers. *)
Load(r) == Loader!Goroutine(r) /\ UNCHANGED <<storeVars, stream, buf>>
LoadStore(r) == Loader!Store(r) /\ UNCHANGED <<storeVars, stream, buf>>
LoadDeadline(r) == Loader!DeadlineExpires(r) /\ UNCHANGED <<storeVars, stream, buf>>
LoadAborted(r) == Loader!ReadAborted(r) /\ UNCHANGED <<storeVars, stream, buf>>
Publish(k) == Loader!Publish(k) /\ UNCHANGED <<storeVars, stream, buf>>
Arrive(r, k) == Loader!Arrive(r, k) /\ UNCHANGED <<storeVars, stream, buf>>
Disconnect(r) == Loader!Disconnect(r) /\ UNCHANGED <<storeVars, stream, buf>>

(* What runs without the store, or gives up waiting for it. *)
Handler(r) ==
    \/ Load(r) \/ LoadAborted(r)
    \/ Respond(r) \/ Copied(r) \/ Finish(r)
    \/ GetAborted(r) \/ ReadAborted(r)

Next ==
    \/ \E k \in Keys : Publish(k)
    \/ \E r \in Requests :
        \/ \E k \in Keys : Arrive(r, k)
        \/ Disconnect(r)
        \/ LoadStore(r) \/ LoadDeadline(r)
        \/ Handler(r)
        \/ GetAnswers(r) \/ Read(r) \/ ReadFails(r)
        \/ Write(r) \/ WriteFails(r) \/ WritePage(r)

Spec == Init /\ [][Next]_vars

(* Go runs every runnable goroutine and fires timers, and what waits under *)
(* a context that is done returns.  Nothing makes the store answer, or a   *)
(* connected client take its bytes; a write to one that has left returns.  *)
FairSpec ==
    /\ Spec
    /\ \A r \in Requests :
        /\ WF_vars(Handler(r))
        /\ WF_vars(LoadDeadline(r))
        /\ WF_vars(r \notin connected /\ (Write(r) \/ WriteFails(r) \/ WritePage(r)))

-----------------------------------------------------------------------------
(* What the client of r takes for the whole body when the connection has   *)
(* carried its last byte: net/http ends a response without a length as if  *)
(* it were complete, and breaks the connection of one that is too short.   *)
LooksComplete(r) ==
    /\ pc[r] = "done" /\ r \in connected /\ stream[r].body # None
    /\ stream[r].length \in {Unknown, Len(stream[r].received)}

(* The types of the handler's state.  A request has a buffer exactly while *)
(* it copies.                                                              *)
TypeOK ==
    /\ pc \in [Requests -> Loader!Steps \cup
                           {"page", "get", "read", "write", "copied", "done"}]
    /\ asked \in [Requests -> Blobs \cup {None}]
    /\ \A r \in Requests :
        /\ stream[r].body \in Bodies \cup {None}
        /\ stream[r].read \in Nat /\ stream[r].written \in Nat
        /\ stream[r].buffer \in Buffers <=> pc[r] \in {"read", "write", "copied"}

(* A response is made of its own body, from the start and without gaps,    *)
(* although concurrent copies take their buffers from one pool             *)
(* (server.go:281-283) and any of them may stop early, in the middle of a  *)
(* write too.                                                              *)
OwnBytesOnly == \A r \in Requests :
    LET got == stream[r].received
        body == stream[r].body IN
    IF body = None THEN got = <<>>
                   ELSE Len(got) <= Length[body] /\ got = Piece(body, 0, Len(got))

(* "Content-Length lets the edge and clients size the response"            *)
(* (server.go:268): a response that breaks off after its status was        *)
(* written, because the store failed, is not taken for a complete one if   *)
(* the store knows the size of the blob; nor is the built-in page.         *)
CompleteMeansWhole == \A r \in Requests :
    LooksComplete(r) /\ stream[r].body \in Sized \cup {defaultNotFoundBody} =>
        stream[r].received = Whole(stream[r].body)

(* "Count the bytes actually streamed [...], even on a partial write       *)
(* before a client disconnect" (server.go:285-286): no byte of a blob or   *)
(* of the built-in page that a client got is left uncounted, and nothing   *)
(* is counted for more than it has.                                        *)
DeliveredBytesCounted == \A r \in Requests :
    pc[r] = "done" /\ stream[r].body # None =>
        /\ Len(stream[r].received) <= stream[r].counted
        /\ stream[r].counted <= Length[stream[r].body]

(* Every request gets its manifest or an error, even if the store never    *)
(* answers (server.go:188-191: "bound it with a dedicated timeout").       *)
EveryRequestAnswered == Loader!EveryRequestAnswered

(* A blob is read and written without a deadline (main.go:105-108), but    *)
(* once its client has left, a handler ends and gives back its buffer and  *)
(* its reader, wherever it was and even if the store never answers.        *)
HandlerEndsOnceClientLeaves == \A r \in Requests :
    pc[r] # "idle" /\ r \notin connected ~> pc[r] = "idle"

==============================================================================
