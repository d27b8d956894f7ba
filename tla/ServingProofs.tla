--------------------------- MODULE ServingProofs ---------------------------
(***************************************************************************)
(* The safety properties of a response's copy, for any number of requests, *)
(* bodies and buffers of any length and whatever the store and the clients *)
(* do.                                                                     *)
(***************************************************************************)
EXTENDS Serving, FiniteSetTheorems, SequenceTheorems, TLAPS

-----------------------------------------------------------------------------
(* The inductive invariant: the types, every request's own part, and the   *)
(* one fact about two requests, that they do not share a buffer.           *)

Copying == {"read", "write", "copied"}
Failures == {ErrNotExist, ErrStore, ErrContext}

Bytes == Bodies \X Nat
Stream == [body : Bodies \cup {None}, buffer : Buffers \cup {None}, read : Nat,
           written : Nat, received : Seq(Bytes), length : Nat \cup {Unknown},
           counted : Nat]
HandlerSteps == Loader!Steps \cup {"page", "get", "read", "write", "copied", "done"}

ServingTypes ==
    /\ pc \in [Requests -> HandlerSteps]
    /\ asked \in [Requests -> Blobs \cup {None}]
    /\ result \in [Requests -> Failures \cup {None} \cup {Store!Reader(b) : b \in Blobs}]
    /\ stream \in [Requests -> Stream]
    /\ buf \in [Buffers -> Seq(Bytes)]

(* A blob is asked for when the manifest is there, and it is what a copy   *)
(* copies.                                                                 *)
Asks(r) ==
    /\ pc[r] \in Loader!Steps => asked[r] = None
    /\ pc[r] = "get" => asked[r] \in Blobs
    /\ pc[r] \in Copying => stream[r].body \in Blobs
    /\ pc[r] = "page" => stream[r].body = defaultNotFoundBody

(* Nothing is sent before there is a body to send. *)
Starts(r) ==
    LET s == stream[r] IN
    /\ pc[r] \in Loader!Steps \cup {"get"} => s.body = None
    /\ pc[r] = "page" \/ s.body = None =>
        s.received = <<>> /\ s.read = 0 /\ s.written = 0 /\ s.length = Unknown

(* A request has a buffer exactly while it copies. *)
Holds(r) == stream[r].buffer \in Buffers <=> pc[r] \in Copying

(* What is read and not yet written is in the buffer. *)
Copies(r) ==
    LET s == stream[r] IN
    /\ s.body # None => s.written <= Length[s.body]
    /\ pc[r] \in Copying => s.length = Reported[s.body]
    /\ pc[r] \in {"read", "write"} => s.written <= s.read /\ s.read <= Length[s.body]
    /\ pc[r] = "read" => s.written = s.read
    /\ pc[r] = "write" => buf[s.buffer] = Piece(s.body, s.written, s.read)

(* The client has the bytes written, in their order, as long as it stays.  *)
Delivers(r) ==
    LET s == stream[r] IN
    /\ Len(s.received) <= s.written
    /\ r \in connected => Len(s.received) = s.written
    /\ s.body # None => s.received = Piece(s.body, 0, Len(s.received))

(* What has ended is counted, and its client was told the size of a blob;  *)
(* it has the built-in page unless it left.                                *)
Ends(r) ==
    LET s == stream[r] IN
    pc[r] = "done" /\ s.body # None =>
        /\ s.counted = s.written
        /\ s.body \in Blobs => s.length = Reported[s.body]
        /\ s.body = defaultNotFoundBody /\ r \in connected => s.written = Length[s.body]

RequestInv(r) == Asks(r) /\ Starts(r) /\ Holds(r) /\ Copies(r) /\ Delivers(r) /\ Ends(r)

OwnBuffers == \A r, q \in Requests :
    r # q /\ stream[r].buffer \in Buffers => stream[q].buffer # stream[r].buffer

Inv == ServingTypes /\ OwnBuffers /\ \A r \in Requests : RequestInv(r)

-----------------------------------------------------------------------------
(* The bytes of a body, as sequences. *)
LEMMA PieceIsSeq ==
    ASSUME NEW b \in Bodies, NEW m \in Nat, NEW n \in Nat, m <= n
    PROVE  /\ Piece(b, m, n) \in Seq(Bytes) /\ Len(Piece(b, m, n)) = n - m
           /\ \A i \in 1..(n - m) : Piece(b, m, n)[i] = <<b, m + i>>
BY DEF Piece, Bytes

(* The first bytes of a body. *)
LEMMA PrefixIsSeq ==
    ASSUME NEW b \in Bodies, NEW n \in Nat
    PROVE  /\ Piece(b, 0, n) \in Seq(Bytes) /\ Len(Piece(b, 0, n)) = n
           /\ \A i \in 1..n : Piece(b, 0, n)[i] = <<b, i>>
BY DEF Piece, Bytes

(* A beginning of what follows a beginning makes a longer beginning. *)
LEMMA PieceGrows ==
    ASSUME NEW b \in Bodies, NEW m \in Nat, NEW n \in Nat, m <= n,
           NEW k \in 0..(n - m)
    PROVE  Piece(b, 0, m) \o SubSeq(Piece(b, m, n), 1, k) = Piece(b, 0, m + k)
<1> DEFINE front == Piece(b, 0, m)
           next == SubSeq(Piece(b, m, n), 1, k)
           all == Piece(b, 0, m + k)
<1>1. /\ front \in Seq(Bytes) /\ Len(front) = m
      /\ \A i \in 1..m : front[i] = <<b, i>>
  BY PrefixIsSeq
<1>2. /\ next \in Seq(Bytes) /\ Len(next) = k
      /\ \A i \in 1..k : next[i] = <<b, m + i>>
  <2>1. /\ Piece(b, m, n) \in Seq(Bytes) /\ Len(Piece(b, m, n)) = n - m
        /\ \A i \in 1..(n - m) : Piece(b, m, n)[i] = <<b, m + i>>
    BY PieceIsSeq
  <2> QED BY <2>1
<1>3. /\ all \in Seq(Bytes) /\ Len(all) = m + k
      /\ \A i \in 1..(m + k) : all[i] = <<b, i>>
  <2>1. m + k \in Nat
    OBVIOUS
  <2> QED BY <2>1, PrefixIsSeq
<1> HIDE DEF front, next, all
<1>4. /\ front \o next \in Seq(Bytes) /\ Len(front \o next) = m + k
      /\ \A i \in 1..(m + k) :
           (front \o next)[i] = IF i <= m THEN front[i] ELSE next[i - m]
  BY <1>1, <1>2, ConcatProperties
<1>5. ASSUME NEW i \in 1..(m + k) PROVE (front \o next)[i] = all[i]
  <2>1. CASE i \in 1..m
    <3>1. (front \o next)[i] = front[i]
      BY <1>4, <2>1
    <3> QED BY <1>1, <1>3, <2>1, <3>1
  <2>2. CASE i \notin 1..m
    <3>1. i - m \in 1..k /\ m + (i - m) = i /\ ~(i <= m)
      BY <2>2
    <3>2. (front \o next)[i] = next[i - m]
      BY <1>4, <3>1
    <3> QED BY <1>2, <1>3, <3>1, <3>2
  <2> QED BY <2>1, <2>2
<1>6. front \o next = all
  BY <1>3, <1>4, <1>5, SeqEqual
<1> QED BY <1>6 DEF front, next, all

(* A copy that has not begun is a copy. *)
LEMMA InitStream == NoStream \in Stream
<1>1. <<>> \in Seq(Bytes)
  OBVIOUS
<1> QED BY <1>1 DEF NoStream, Stream, Unknown

(* The initial states satisfy the invariant. *)
LEMMA InitInv == Init => Inv
<1> SUFFICES ASSUME Init PROVE Inv
  OBVIOUS
<1> USE DEF Init, Loader!Init, Store!Init, NoStream
<1>1. NoStream \in Stream
  BY InitStream
<1>2. ServingTypes
  BY <1>1 DEF ServingTypes, HandlerSteps, Loader!Steps
<1>3. OwnBuffers
  BY BlobsAssumption DEF OwnBuffers
<1>4. ASSUME NEW r \in Requests PROVE RequestInv(r)
  BY BlobsAssumption
     DEF RequestInv, Asks, Starts, Holds, Copies, Delivers, Ends, Copying, Loader!Steps
<1> QED BY <1>2, <1>3, <1>4 DEF Inv

-----------------------------------------------------------------------------
(* A request whose own state, and whose bytes on their way, nobody touches *)
(* keeps its part of the invariant, although its client may leave.         *)
LEMMA Frame ==
    ASSUME NEW q \in Requests, RequestInv(q),
           pc'[q] = pc[q], asked'[q] = asked[q], result'[q] = result[q],
           stream'[q] = stream[q], q \in connected' => q \in connected,
           pc[q] = "write" => buf'[stream[q].buffer] = buf[stream[q].buffer]
    PROVE  RequestInv(q)'
<1> USE DEF RequestInv
<1>1. Asks(q)' /\ Starts(q)' /\ Holds(q)' /\ Ends(q)'
  BY DEF Asks, Starts, Holds, Ends, Copying
<1>2. Copies(q)'
  BY DEF Copies, Copying
<1>3. Delivers(q)'
  BY DEF Delivers
<1> QED BY <1>1, <1>2, <1>3

(* The steps of the loader, and of clients and publishers, as the handler  *)
(* sees them: a request moves within loadManifest, and no client returns.  *)
LoaderStep(r) ==
    \/ Load(r) \/ LoadStore(r) \/ LoadDeadline(r) \/ LoadAborted(r)
    \/ Disconnect(r) \/ \E k \in Keys : Arrive(r, k) \/ Publish(k)

(* That is all they do to the variables the handler reads. *)
LEMMA LoaderMoves ==
    ASSUME ServingTypes, NEW r \in Requests, LoaderStep(r)
    PROVE  /\ pc' \in [Requests -> HandlerSteps]
           /\ \A q \in Requests :
                pc'[q] = pc[q] \/ (pc[q] \in Loader!Steps /\ pc'[q] \in Loader!Steps)
           /\ connected' \subseteq connected
<1> USE DEF ServingTypes, HandlerSteps, Loader!Steps
<1>1. CASE Load(r)
  <2> USE DEF Loader!unchangedByCall
  <2>1. CASE Loader!Probe(r) \/ Loader!Recheck(r)
    BY <2>1 DEF Loader!Probe, Loader!Recheck, Loader!Lookup, Loader!Returns, Loader!Goto
  <2>2. CASE Loader!Do(r)
    BY <2>2 DEF Loader!Do, Loader!Goto
  <2>3. CASE Loader!LoadAndAdd(r)
    BY <2>3 DEF Loader!LoadAndAdd, Loader!Returns, Loader!Goto
  <2>4. CASE Loader!Return(r)
    BY <2>4 DEF Loader!Return, Loader!Waiters
  <2> QED BY <1>1, <2>1, <2>2, <2>3, <2>4 DEF Load, Loader!Goroutine
<1>2. CASE LoadStore(r) \/ LoadAborted(r)
  BY <1>2 DEF LoadStore, LoadAborted, Loader!Store, Loader!StoreAnswers, Loader!StoreFails,
              Loader!BodyRead, Loader!ReadAborted, Loader!Reading, Loader!Returns,
              Loader!Goto, Loader!unchangedByCall
<1>3. CASE LoadDeadline(r) \/ Disconnect(r)
  BY <1>3 DEF LoadDeadline, Disconnect, Loader!DeadlineExpires, Loader!Disconnect
<1>4. CASE \E k \in Keys : Arrive(r, k) \/ Publish(k)
  BY <1>4 DEF Arrive, Publish, Loader!Arrive, Loader!Publish
<1> QED BY <1>1, <1>2, <1>3, <1>4 DEF LoaderStep

(* They keep the invariant. *)
LEMMA LoaderInv ==
    ASSUME Inv, NEW r \in Requests, LoaderStep(r)
    PROVE  Inv'
<1>1. UNCHANGED <<stored, asked, result, stream, buf>>
  BY DEF LoaderStep, Load, LoadStore, LoadDeadline, LoadAborted, Disconnect, Arrive,
         Publish, storeVars
<1>2. /\ pc' \in [Requests -> HandlerSteps]
      /\ \A q \in Requests :
           pc'[q] = pc[q] \/ (pc[q] \in Loader!Steps /\ pc'[q] \in Loader!Steps)
      /\ connected' \subseteq connected
  BY LoaderMoves DEF Inv
<1>3. ServingTypes' /\ OwnBuffers'
  BY <1>1, <1>2 DEF Inv, ServingTypes, OwnBuffers
<1>4. ASSUME NEW q \in Requests PROVE RequestInv(q)'
  <2>1. RequestInv(q)
    BY DEF Inv
  <2>2. CASE pc'[q] = pc[q]
    BY <1>1, <1>2, <2>1, <2>2, Frame
  <2>3. CASE pc[q] \in Loader!Steps /\ pc'[q] \in Loader!Steps
    <3> USE <1>1, <2>1, <2>3 DEF RequestInv
    <3>1. Asks(q)' /\ Starts(q)' /\ Holds(q)' /\ Ends(q)'
      BY DEF Asks, Starts, Holds, Ends, Copying, Loader!Steps
    <3>2. Copies(q)'
      BY DEF Copies, Copying, Loader!Steps
    <3>3. Delivers(q)'
      BY <1>2 DEF Delivers
    <3> QED BY <3>1, <3>2, <3>3
  <2> QED BY <1>2, <2>2, <2>3
<1> QED BY <1>3, <1>4 DEF Inv

-----------------------------------------------------------------------------
(* A step of the handler of r: it leaves the other requests alone, if they *)
(* do not use r's buffer.                                                  *)
LEMMA OwnStep ==
    ASSUME Inv, ServingTypes', NEW r \in Requests,
           \A q \in Requests \ {r} :
             /\ pc'[q] = pc[q] /\ asked'[q] = asked[q] /\ result'[q] = result[q]
             /\ stream'[q] = stream[q] /\ (q \in connected' => q \in connected),
           \A b \in Buffers : b # stream[r].buffer => buf'[b] = buf[b],
           stream'[r].buffer \in {None, stream[r].buffer} \cup FreeBuffers,
           RequestInv(r)'
    PROVE  Inv'
<1>1. ASSUME NEW q \in Requests \ {r} PROVE RequestInv(q)'
  <2>1. RequestInv(q)
    BY DEF Inv
  <2>2. pc[q] = "write" => buf'[stream[q].buffer] = buf[stream[q].buffer]
    BY <2>1 DEF Inv, OwnBuffers, RequestInv, Holds, Copying
  <2> QED BY <2>1, <2>2, Frame
<1>2. OwnBuffers'
  BY BlobsAssumption DEF Inv, OwnBuffers, FreeBuffers
<1> QED BY <1>1, <1>2 DEF Inv

(* A request that does not copy finds a free buffer: fewer requests than   *)
(* there are buffers are left to hold one.                                 *)
LEMMA BufferIsFree ==
    ASSUME NEW r \in Requests, stream[r].buffer \notin Buffers
    PROVE  FreeBuffers # {}
<1> SUFFICES ASSUME FreeBuffers = {} PROVE FALSE
  OBVIOUS
<1> DEFINE others == Requests \ {r}
           holder == [b \in Buffers |-> CHOOSE q \in others : stream[q].buffer = b]
<1>1. \A b \in Buffers : \E q \in others : stream[q].buffer = b
  BY DEF FreeBuffers
<1>2. holder \in [Buffers -> others] /\ \A b \in Buffers : stream[holder[b]].buffer = b
  BY <1>1
<1>3. IsFiniteSet(others) /\ Cardinality(others) = Cardinality(Requests) - 1
  BY BuffersAssumption, FS_RemoveElement
<1>4. Cardinality(others) < Cardinality(Buffers)
  BY <1>3, BuffersAssumption, FS_CardinalityType
<1> HIDE DEF holder, others
<1>5. \E b, c \in Buffers : b # c /\ holder[b] = holder[c]
  BY <1>2, <1>3, <1>4, BuffersAssumption, FS_PigeonHole
<1> QED BY <1>2, <1>5

(* What reading does to a stream. *)
LEMMA ReadStream ==
    ASSUME stream \in [Requests -> Stream], NEW r \in Requests, NEW n \in Nat,
           stream' = [stream EXCEPT ![r].read = n]
    PROVE  /\ stream' \in [Requests -> Stream]
           /\ \A q \in Requests \ {r} : stream'[q] = stream[q]
           /\ stream'[r].body = stream[r].body
           /\ stream'[r].buffer = stream[r].buffer /\ stream'[r].length = stream[r].length
           /\ stream'[r].read = n /\ stream'[r].written = stream[r].written
           /\ stream'[r].received = stream[r].received
BY DEF Stream

(* What ending the copy does to it. *)
LEMMA CountedStream ==
    ASSUME stream \in [Requests -> Stream], NEW r \in Requests, NEW n \in Nat,
           stream' = [stream EXCEPT ![r].buffer = None, ![r].counted = n]
    PROVE  /\ stream' \in [Requests -> Stream]
           /\ \A q \in Requests \ {r} : stream'[q] = stream[q]
           /\ stream'[r].body = stream[r].body
           /\ stream'[r].buffer = None /\ stream'[r].length = stream[r].length
           /\ stream'[r].read = stream[r].read /\ stream'[r].written = stream[r].written
           /\ stream'[r].received = stream[r].received /\ stream'[r].counted = n
BY DEF Stream

-----------------------------------------------------------------------------
(* The steps of the handler keep the invariant: an answer without a body.  *)
LEMMA EmptyAnswerInv ==
    ASSUME Inv, NEW r \in Requests, pc[r] = "answered",
           \/ pc' = [pc EXCEPT ![r] = "done"] /\ asked' = asked
           \/ pc' = [pc EXCEPT ![r] = "get"]
              /\ \E b \in Blobs : asked' = [asked EXCEPT ![r] = b],
           UNCHANGED <<result, connected, stream, buf>>
    PROVE  Inv'
<1>1. RequestInv(r) /\ stream[r].body = None
  BY DEF Inv, RequestInv, Starts, Loader!Steps
<1>2. ServingTypes'
  BY DEF Inv, ServingTypes, HandlerSteps
<1>3. pc'[r] \in {"get", "done"} /\ (pc'[r] = "get" => asked'[r] \in Blobs)
  BY DEF Inv, ServingTypes
<1>4. RequestInv(r)'
  <2> USE <1>1, <1>3 DEF RequestInv
  <2>1. Asks(r)' /\ Starts(r)' /\ Holds(r)' /\ Ends(r)'
    BY DEF Asks, Starts, Holds, Ends, Copying, Loader!Steps
  <2>2. Copies(r)' /\ Delivers(r)'
    BY DEF Copies, Delivers, Copying
  <2> QED BY <2>1, <2>2
<1>5. \A q \in Requests \ {r} : pc'[q] = pc[q] /\ asked'[q] = asked[q]
  BY DEF Inv, ServingTypes
<1> QED BY <1>2, <1>4, <1>5, OwnStep DEF Inv

(* The built-in page is chosen. *)
LEMMA PageChosenInv ==
    ASSUME Inv, NEW r \in Requests, pc[r] = "answered",
           pc' = [pc EXCEPT ![r] = "page"],
           stream' = [stream EXCEPT ![r].body = defaultNotFoundBody],
           UNCHANGED <<asked, result, connected, buf>>
    PROVE  Inv'
<1>1. /\ RequestInv(r) /\ stream[r] \in Stream /\ stream[r].body = None
      /\ stream[r].buffer \notin Buffers
      /\ stream[r].received = <<>> /\ stream[r].read = 0 /\ stream[r].written = 0
      /\ stream[r].length = Unknown
  BY DEF Inv, ServingTypes, RequestInv, Starts, Holds, Copying, Loader!Steps
<1>2. /\ stream' \in [Requests -> Stream]
      /\ \A q \in Requests \ {r} : stream'[q] = stream[q]
      /\ stream'[r].body = defaultNotFoundBody /\ stream'[r].buffer = stream[r].buffer
      /\ stream'[r].length = Unknown /\ stream'[r].read = 0 /\ stream'[r].written = 0
      /\ stream'[r].received = <<>>
  BY <1>1 DEF Inv, ServingTypes, Stream, Bodies
<1>3. ServingTypes'
  BY <1>2 DEF Inv, ServingTypes, HandlerSteps
<1>4. pc'[r] = "page" /\ \A q \in Requests \ {r} : pc'[q] = pc[q]
  BY DEF Inv, ServingTypes
<1>5. RequestInv(r)'
  <2> USE <1>1, <1>2, <1>4
  <2>1. Asks(r)' /\ Starts(r)' /\ Holds(r)' /\ Ends(r)'
    BY DEF Asks, Starts, Holds, Ends, Copying, Loader!Steps
  <2>2. Copies(r)'
    BY LengthAssumption DEF Copies, Copying, Bodies
  <2>3. Delivers(r)'
    <3>1. Piece(defaultNotFoundBody, 0, 0) = <<>>
      BY DEF Piece
    <3> QED BY <3>1 DEF Delivers
  <2> QED BY <2>1, <2>2, <2>3 DEF RequestInv
<1> QED BY <1>2, <1>3, <1>4, <1>5, OwnStep

(* The answer to a manifest, whichever. *)
LEMMA RespondInv ==
    ASSUME Inv, NEW r \in Requests, Respond(r)
    PROVE  Inv'
BY EmptyAnswerInv, PageChosenInv DEF Respond, Goto, Store!Ask, storeVars

(* The built-in page is written and counted. *)
LEMMA WritePageInv ==
    ASSUME Inv, NEW r \in Requests, WritePage(r)
    PROVE  Inv'
<1> DEFINE page == defaultNotFoundBody
<1>1. /\ pc[r] = "page" /\ pc' = [pc EXCEPT ![r] = "done"]
      /\ UNCHANGED <<connected, asked, result, buf>>
  BY DEF WritePage, AfterLoad, Goto, storeVars
<1>2. /\ RequestInv(r) /\ page \in Bodies /\ Length[page] \in Nat
      /\ stream[r].body = page /\ stream[r].buffer \notin Buffers
      /\ stream[r].length = Unknown
  BY <1>1, LengthAssumption DEF Inv, RequestInv, Asks, Starts, Holds, Copying, Bodies
<1>3. /\ Whole(page) \in Seq(Bytes) /\ Len(Whole(page)) = Length[page]
  BY <1>2, PrefixIsSeq DEF Whole
<1>a. PICK n \in 0..Length[page] : \E m \in 0..n :
        /\ r \in connected => m = Length[page]
        /\ stream' = [stream EXCEPT ![r].written = n, ![r].counted = n,
                                    ![r].received = SubSeq(Whole(page), 1, m)]
  BY <1>3, Zenon DEF WritePage
<1>b. PICK m \in 0..n :
        /\ r \in connected => m = Length[page]
        /\ stream' = [stream EXCEPT ![r].written = n, ![r].counted = n,
                                    ![r].received = SubSeq(Whole(page), 1, m)]
  BY <1>a
<1>4. n \in Nat /\ m \in Nat /\ m <= n /\ n <= Length[page]
      /\ (r \in connected => m = Length[page])
  BY <1>2, <1>a, <1>b
<1> DEFINE got == SubSeq(Whole(page), 1, m)
<1>5. got = Piece(page, 0, m) /\ got \in Seq(Bytes) /\ Len(got) = m
  <2>1. got \in Seq(Bytes) /\ Len(got) = m
    BY <1>2, <1>3, <1>4
  <2>2. Piece(page, 0, m) \in Seq(Bytes) /\ Len(Piece(page, 0, m)) = m
        /\ \A i \in 1..m : Piece(page, 0, m)[i] = <<page, i>>
    BY <1>2, <1>4, PrefixIsSeq
  <2>3. \A i \in 1..m : got[i] = <<page, i>>
    <3>1. \A i \in 1..Length[page] : Whole(page)[i] = <<page, i>>
      BY <1>2, PrefixIsSeq DEF Whole
    <3> QED BY <1>2, <1>3, <1>4, <3>1
  <2> HIDE DEF got
  <2> QED BY <2>1, <2>2, <2>3, SeqEqual
<1> HIDE DEF got, page
<1>6. /\ stream' \in [Requests -> Stream]
      /\ \A q \in Requests \ {r} : stream'[q] = stream[q]
      /\ stream'[r].body = stream[r].body
      /\ stream'[r].buffer = stream[r].buffer /\ stream'[r].length = stream[r].length
      /\ stream'[r].written = n /\ stream'[r].received = got /\ stream'[r].counted = n
  <2>1. stream' = [stream EXCEPT ![r].written = n, ![r].counted = n, ![r].received = got]
    BY <1>b DEF got
  <2>2. stream \in [Requests -> Stream]
    BY DEF Inv, ServingTypes
  <2> QED BY <1>4, <1>5, <2>1, <2>2 DEF Stream
<1>7. ServingTypes'
  BY <1>1, <1>6 DEF Inv, ServingTypes, HandlerSteps
<1>8. pc'[r] = "done" /\ \A q \in Requests \ {r} : pc'[q] = pc[q]
  BY <1>1 DEF Inv, ServingTypes
<1>9. RequestInv(r)'
  <2> USE <1>1, <1>2, <1>4, <1>5, <1>6, <1>8
  <2>1. Asks(r)' /\ Starts(r)' /\ Holds(r)'
    BY BlobsAssumption DEF Asks, Starts, Holds, Copying, Loader!Steps, Bodies
  <2>2. Copies(r)' /\ Delivers(r)'
    BY DEF Copies, Delivers, Copying
  <2>3. Ends(r)'
    BY BlobsAssumption DEF Ends, page
  <2> QED BY <2>1, <2>2, <2>3 DEF RequestInv
<1>10. stream'[r].buffer = stream[r].buffer
  BY <1>6
<1> QED BY <1>1, <1>6, <1>7, <1>8, <1>9, <1>10, OwnStep

(* store.Get fails: an error text is sent, nothing is copied. *)
LEMMA GetFailsInv ==
    ASSUME Inv, NEW r \in Requests, NEW e \in Failures,
           pc[r] = "get", pc' = [pc EXCEPT ![r] = "done"],
           result' = [result EXCEPT ![r] = e],
           UNCHANGED <<connected, asked, stream, buf>>
    PROVE  Inv'
<1>1. RequestInv(r) /\ stream[r].body = None
  BY DEF Inv, RequestInv, Starts
<1>2. ServingTypes'
  BY DEF Inv, ServingTypes, HandlerSteps
<1>3. pc'[r] = "done"
  BY DEF Inv, ServingTypes
<1>4. RequestInv(r)'
  <2> USE <1>1, <1>3 DEF RequestInv
  <2>1. Asks(r)' /\ Starts(r)' /\ Holds(r)' /\ Ends(r)'
    BY DEF Asks, Starts, Holds, Ends, Copying, Loader!Steps
  <2>2. Copies(r)' /\ Delivers(r)'
    BY DEF Copies, Delivers, Copying
  <2> QED BY <2>1, <2>2
<1>5. \A q \in Requests \ {r} : pc'[q] = pc[q] /\ result'[q] = result[q]
  BY DEF Inv, ServingTypes
<1> QED BY <1>2, <1>4, <1>5, OwnStep DEF Inv

(* store.Get returns a reader: the copy has a buffer of its own. *)
LEMMA GetReaderInv ==
    ASSUME Inv, NEW r \in Requests, NEW b \in FreeBuffers,
           pc[r] = "get", pc' = [pc EXCEPT ![r] = "read"],
           result' = [result EXCEPT ![r] = Store!Reader(asked[r])],
           stream' = [stream EXCEPT ![r].body = asked[r], ![r].buffer = b,
                                    ![r].length = Reported[asked[r]]],
           UNCHANGED <<connected, asked, buf>>
    PROVE  Inv'
<1>1. /\ RequestInv(r) /\ asked[r] \in Blobs /\ stream[r].received = <<>>
      /\ stream[r].read = 0 /\ stream[r].written = 0
  BY DEF Inv, RequestInv, Starts, Asks
<1>2. /\ b \in Buffers /\ Reported[asked[r]] \in Nat \cup {Unknown}
      /\ asked[r] \in Bodies /\ Length[asked[r]] \in Nat
  BY <1>1, LengthAssumption DEF FreeBuffers, Reported, Bodies
<1>3. /\ stream' \in [Requests -> Stream]
      /\ \A q \in Requests \ {r} : stream'[q] = stream[q]
      /\ stream'[r].body = asked[r]
      /\ stream'[r].buffer = b /\ stream'[r].length = Reported[asked[r]]
      /\ stream'[r].read = 0 /\ stream'[r].written = 0 /\ stream'[r].received = <<>>
  <2>1. PICK d \in Bodies, n \in Nat \cup {Unknown}, c \in Buffers \cup {None} :
          d = asked[r] /\ n = Reported[asked[r]] /\ c = b
    BY <1>2
  <2>2. /\ stream \in [Requests -> Stream]
        /\ stream' = [stream EXCEPT ![r].body = d, ![r].buffer = c, ![r].length = n]
    BY <2>1 DEF Inv, ServingTypes
  <2>3. stream' \in [Requests -> Stream]
    <3> DEFINE t == [stream[r] EXCEPT !.body = d, !.buffer = c, !.length = n]
    <3>1. stream[r] \in Stream
      BY ONLY <2>2, r \in Requests
    <3>2. t \in Stream
      BY ONLY <3>1, c \in Buffers \cup {None}, d \in Bodies, n \in Nat \cup {Unknown}
         DEF Stream
    <3>3. stream' = [stream EXCEPT ![r] = t]
      BY ONLY <2>2
    <3> HIDE DEF t
    <3> QED BY ONLY <2>2, <3>2, <3>3, r \in Requests
  <2>4. /\ \A q \in Requests \ {r} : stream'[q] = stream[q]
        /\ stream'[r].body = d /\ stream'[r].buffer = c /\ stream'[r].length = n
        /\ stream'[r].read = stream[r].read /\ stream'[r].written = stream[r].written
        /\ stream'[r].received = stream[r].received
    BY <2>2 DEF Stream
  <2> QED BY <1>1, <2>1, <2>3, <2>4
<1>4. ServingTypes'
  BY <1>1, <1>3 DEF Inv, ServingTypes, HandlerSteps
<1>5. pc'[r] = "read" /\ \A q \in Requests \ {r} : pc'[q] = pc[q] /\ result'[q] = result[q]
  BY DEF Inv, ServingTypes
<1>6. RequestInv(r)'
  <2> USE <1>1, <1>2, <1>3, <1>5, BlobsAssumption
  <2>1. Asks(r)' /\ Starts(r)' /\ Holds(r)' /\ Ends(r)'
    BY DEF Asks, Starts, Holds, Ends, Copying, Loader!Steps, Bodies
  <2>2. Copies(r)'
    BY DEF Copies, Copying
  <2>3. Delivers(r)'
    BY DEF Delivers, Piece
  <2> QED BY <2>1, <2>2, <2>3 DEF RequestInv
<1> QED BY <1>3, <1>4, <1>5, <1>6, OwnStep

(* store.Get returns, whatever it returns. *)
LEMMA GetInv ==
    ASSUME Inv, NEW r \in Requests, GetAnswers(r) \/ GetAborted(r)
    PROVE  Inv'
<1>1. CASE GetAborted(r)
  BY <1>1, GetFailsInv DEF GetAborted, AfterLoad, Goto, Failures
<1>2. CASE GetAnswers(r)
  <2>1. asked' = asked /\ connected' = connected /\ buf' = buf /\ pc[r] = "get"
    BY <1>2 DEF GetAnswers, AfterLoad, Store!Answer
  <2>2. PICK v \in {ErrNotExist, ErrStore, Store!Reader(asked[r])} :
               result' = [result EXCEPT ![r] = v]
    BY <1>2 DEF GetAnswers, Store!Answer
  <2>3. result'[r] = v
    BY <2>2 DEF Inv, ServingTypes
  <2>4. CASE v \in {ErrNotExist, ErrStore}
    BY <1>2, <2>1, <2>2, <2>3, <2>4, GetFailsInv DEF GetAnswers, AfterLoad, Goto, Failures
  <2>5. CASE v \notin {ErrNotExist, ErrStore}
    <3>1. v = Store!Reader(asked[r])
      BY <2>2, <2>5
    <3>2. ContentLength(result'[r]) = Reported[asked[r]]
      BY <2>3, <3>1 DEF ContentLength, Store!Reader
    <3>3. stream[r].buffer \notin Buffers
      BY <2>1 DEF Inv, RequestInv, Holds, Copying
    <3>4. (CHOOSE b \in FreeBuffers : TRUE) \in FreeBuffers
      BY <3>3, BufferIsFree
    <3>5. /\ pc' = [pc EXCEPT ![r] = "read"]
          /\ stream' = [stream EXCEPT ![r].body = asked[r],
                                      ![r].buffer = CHOOSE b \in FreeBuffers : TRUE,
                                      ![r].length = Reported[asked[r]]]
      BY <1>2, <2>3, <2>5, <3>2 DEF GetAnswers, AfterLoad, Goto
    <3> QED BY <2>1, <2>2, <3>1, <3>4, <3>5, GetReaderInv
  <2> QED BY <2>4, <2>5
<1> QED BY <1>1, <1>2

(* The facts about a request that copies. *)
LEMMA CopyFacts ==
    ASSUME Inv, NEW r \in Requests, pc[r] \in Copying
    PROVE  /\ RequestInv(r) /\ stream[r].buffer \in Buffers
           /\ stream[r].body \in Blobs /\ stream[r].body \in Bodies
           /\ stream[r].body # None /\ Length[stream[r].body] \in Nat
           /\ stream[r].read \in Nat /\ stream[r].written \in Nat
           /\ stream[r].written <= Length[stream[r].body]
           /\ stream[r].received \in Seq(Bytes)
           /\ stream[r].length = Reported[stream[r].body]
BY LengthAssumption, BlobsAssumption
   DEF Inv, ServingTypes, Stream, RequestInv, Asks, Holds, Copies, Copying, Bodies

(* The copy takes bytes from the reader into its buffer. *)
LEMMA ReadBytesInv ==
    ASSUME Inv, NEW r \in Requests, NEW n \in Nat,
           pc[r] = "read", stream[r].read < n, n <= Length[stream[r].body],
           pc' = [pc EXCEPT ![r] = "write"],
           buf' = [buf EXCEPT ![stream[r].buffer] = Piece(stream[r].body, stream[r].read, n)],
           stream' = [stream EXCEPT ![r].read = n],
           UNCHANGED <<connected, asked, result>>
    PROVE  Inv'
<1>1. /\ RequestInv(r) /\ stream[r].buffer \in Buffers
      /\ stream[r].body \in Blobs /\ stream[r].body \in Bodies
      /\ stream[r].body # None /\ Length[stream[r].body] \in Nat
      /\ stream[r].read \in Nat /\ stream[r].written \in Nat
      /\ stream[r].written = stream[r].read
      /\ stream[r].length = Reported[stream[r].body]
  BY CopyFacts DEF Copying, RequestInv, Copies
<1>2. /\ stream' \in [Requests -> Stream]
      /\ \A q \in Requests \ {r} : stream'[q] = stream[q]
      /\ stream'[r].body = stream[r].body
      /\ stream'[r].buffer = stream[r].buffer /\ stream'[r].length = stream[r].length
      /\ stream'[r].read = n /\ stream'[r].written = stream[r].written
      /\ stream'[r].received = stream[r].received
  BY ReadStream DEF Inv, ServingTypes
<1>3. Piece(stream[r].body, stream[r].read, n) \in Seq(Bytes)
  BY <1>1, PieceIsSeq
<1>4. ServingTypes'
  BY <1>1, <1>2, <1>3 DEF Inv, ServingTypes, HandlerSteps
<1>5. /\ pc'[r] = "write" /\ \A q \in Requests \ {r} : pc'[q] = pc[q]
      /\ buf'[stream[r].buffer] = Piece(stream[r].body, stream[r].read, n)
      /\ \A b \in Buffers : b # stream[r].buffer => buf'[b] = buf[b]
  BY <1>1 DEF Inv, ServingTypes
<1>6. RequestInv(r)'
  <2> USE <1>1, <1>2, <1>5
  <2>1. Asks(r)' /\ Starts(r)' /\ Holds(r)' /\ Ends(r)'
    BY DEF Asks, Starts, Holds, Ends, Copying, Loader!Steps
  <2>2. Copies(r)'
    BY DEF Copies, Copying
  <2>3. Delivers(r)'
    BY DEF RequestInv, Delivers
  <2> QED BY <2>1, <2>2, <2>3 DEF RequestInv
<1> QED BY <1>2, <1>4, <1>5, <1>6, OwnStep

(* io.CopyBuffer reads. *)
LEMMA ReadInv ==
    ASSUME Inv, NEW r \in Requests, Read(r), pc'[r] # "copied"
    PROVE  Inv'
<1>1. pc[r] = "read" /\ UNCHANGED <<connected, asked, result>>
  BY DEF Read, AfterLoad, storeVars
<1>2. stream[r].read \in Nat /\ pc \in [Requests -> HandlerSteps]
  BY DEF Inv, ServingTypes, Stream
<1>3. PICK n \in 1..copyBufSize :
        /\ pc' = [pc EXCEPT ![r] = "write"]
        /\ stream[r].read + n <= Length[stream[r].body]
        /\ buf' = [buf EXCEPT ![stream[r].buffer] =
                     Piece(stream[r].body, stream[r].read, stream[r].read + n)]
        /\ stream' = [stream EXCEPT ![r].read = stream[r].read + n]
  BY <1>2 DEF Read, AfterLoad, Goto
<1>4. stream[r].read + n \in Nat /\ stream[r].read < stream[r].read + n
  BY <1>2, <1>3, LengthAssumption
<1> QED BY <1>1, <1>3, <1>4, ReadBytesInv

(* The copy ends: at the end of the blob, or because the store failed. *)
LEMMA CopyEndsInv ==
    ASSUME Inv, NEW r \in Requests,
           pc[r] = "read", pc' = [pc EXCEPT ![r] = "copied"],
           UNCHANGED <<connected, asked, result, stream, buf>>
    PROVE  Inv'
<1>1. RequestInv(r)
  BY DEF Inv
<1>2. ServingTypes'
  BY DEF Inv, ServingTypes, HandlerSteps
<1>3. pc'[r] = "copied" /\ \A q \in Requests \ {r} : pc'[q] = pc[q]
  BY DEF Inv, ServingTypes
<1>4. RequestInv(r)'
  <2> USE <1>1, <1>3 DEF RequestInv
  <2>1. Asks(r)' /\ Starts(r)' /\ Holds(r)' /\ Ends(r)'
    BY DEF Asks, Starts, Holds, Ends, Copying, Loader!Steps
  <2>2. Copies(r)'
    BY DEF Copies, Copying
  <2>3. Delivers(r)'
    BY DEF Delivers
  <2> QED BY <2>1, <2>2, <2>3
<1> QED BY <1>2, <1>3, <1>4, OwnStep

(* w accepts n of the bytes in the buffer, and the client gets k of them:  *)
(* all, if it is still there, and none, if it missed some before.          *)
LEMMA AcceptInv ==
    ASSUME Inv, NEW r \in Requests, NEW n \in Nat, NEW k \in Nat, NEW step,
           pc[r] = "write", pc' = [pc EXCEPT ![r] = step],
           k <= n, n <= Len(buf[stream[r].buffer]),
           k > 0 => Len(stream[r].received) = stream[r].written,
           r \in connected => k = n,
           (step = "read" /\ n = Len(buf[stream[r].buffer])) \/ step = "copied",
           stream' = [stream EXCEPT
             ![r].written = @ + n,
             ![r].received = @ \o SubSeq(buf[stream[r].buffer], 1, k)],
           UNCHANGED <<connected, asked, result, buf>>
    PROVE  Inv'
<1> DEFINE s == stream[r]
           p == buf[s.buffer]
           w == s.written + n
           got == s.received \o SubSeq(p, 1, k)
<1>1. /\ RequestInv(r) /\ s.buffer \in Buffers
      /\ s.body \in Blobs /\ s.body \in Bodies /\ s.body # None /\ Length[s.body] \in Nat
      /\ s.read \in Nat /\ s.written \in Nat /\ s.received \in Seq(Bytes)
      /\ s.length = Reported[s.body]
  BY CopyFacts DEF Copying
<1>2. s.written <= s.read /\ s.read <= Length[s.body] /\ p = Piece(s.body, s.written, s.read)
  BY <1>1 DEF RequestInv, Copies
<1>3. p \in Seq(Bytes) /\ Len(p) = s.read - s.written
  BY <1>1, <1>2, PieceIsSeq
<1>4. s.received = Piece(s.body, 0, Len(s.received)) /\ Len(s.received) \in Nat
      /\ Len(s.received) <= s.written /\ (r \in connected => Len(s.received) = s.written)
  BY <1>1 DEF RequestInv, Delivers
<1>5. got \in Seq(Bytes) /\ got = Piece(s.body, 0, Len(s.received) + k)
  <2>1. CASE k = 0
    <3>1. SubSeq(p, 1, k) = <<>>
      BY <1>3, <2>1
    <3> QED BY <1>1, <1>4, <2>1, <3>1
  <2>2. CASE k > 0
    <3>1. Len(s.received) = s.written /\ k \in 0..(s.read - s.written)
      BY <1>1, <1>3, <2>2
    <3>2. Piece(s.body, 0, s.written) \o SubSeq(Piece(s.body, s.written, s.read), 1, k)
            = Piece(s.body, 0, s.written + k)
      <4> HIDE DEF s
      <4> QED BY <1>1, <1>2, <3>1, PieceGrows
    <3>3. got = Piece(s.body, 0, Len(s.received) + k)
      BY <1>2, <1>4, <3>1, <3>2
    <3>4. Len(s.received) + k \in Nat
      BY <1>4
    <3> QED BY <1>1, <3>3, <3>4, PrefixIsSeq
  <2> QED BY <2>1, <2>2
<1>6. Len(got) = Len(s.received) + k
  <2>1. Len(s.received) + k \in Nat
    BY <1>4
  <2> QED BY <1>1, <1>5, <2>1, PrefixIsSeq
<1>7. w \in Nat /\ w <= s.read /\ (n = Len(p) => w = s.read)
  BY <1>1, <1>3
<1>8. stream' = [stream EXCEPT ![r].written = w, ![r].received = got]
  BY DEF Inv, ServingTypes, Stream
<1> HIDE DEF w, got
<1>9. /\ stream' \in [Requests -> Stream]
      /\ \A q \in Requests \ {r} : stream'[q] = stream[q]
      /\ stream'[r].body = s.body
      /\ stream'[r].buffer = s.buffer /\ stream'[r].length = s.length
      /\ stream'[r].read = s.read /\ stream'[r].written = w
      /\ stream'[r].received = got
  <2>1. PICK v \in Nat, g \in Seq(Bytes) : v = w /\ g = got
    BY <1>5, <1>7
  <2>2. /\ stream \in [Requests -> Stream]
        /\ stream' = [stream EXCEPT ![r].written = v, ![r].received = g]
    BY <1>8, <2>1 DEF Inv, ServingTypes
  <2>3. stream' \in [Requests -> Stream]
    <3> DEFINE t == [stream[r] EXCEPT !.written = v, !.received = g]
    <3>1. stream[r] \in Stream
      BY ONLY <2>2, r \in Requests
    <3>2. t \in Stream
      BY ONLY <3>1, v \in Nat, g \in Seq(Bytes) DEF Stream
    <3>3. stream' = [stream EXCEPT ![r] = t]
      BY ONLY <2>2
    <3> HIDE DEF t
    <3> QED BY ONLY <2>2, <3>2, <3>3, r \in Requests
  <2>4. /\ \A q \in Requests \ {r} : stream'[q] = stream[q]
        /\ stream'[r].body = stream[r].body
        /\ stream'[r].buffer = stream[r].buffer /\ stream'[r].length = stream[r].length
        /\ stream'[r].read = stream[r].read /\ stream'[r].written = v
        /\ stream'[r].received = g
    BY ONLY <2>2, r \in Requests, v \in Nat, g \in Seq(Bytes) DEF Stream
  <2> QED BY <2>1, <2>3, <2>4
<1>10. ServingTypes'
  BY <1>9 DEF Inv, ServingTypes, HandlerSteps
<1>11. pc'[r] = step /\ \A q \in Requests \ {r} : pc'[q] = pc[q]
  BY DEF Inv, ServingTypes
<1>12. RequestInv(r)'
  <2> USE <1>1, <1>2, <1>9, <1>11
  <2>1. Asks(r)' /\ Starts(r)' /\ Holds(r)' /\ Ends(r)'
    BY DEF Asks, Starts, Holds, Ends, Copying, Loader!Steps
  <2>2. Copies(r)'
    BY <1>7 DEF Copies, Copying
  <2>3. Delivers(r)'
    <3>1. /\ Len(got) <= w /\ (r \in connected => Len(got) = w)
          /\ got = Piece(s.body, 0, Len(got))
      BY <1>4, <1>5, <1>6 DEF w
    <3> HIDE DEF s
    <3> QED BY <3>1 DEF Delivers
  <2> QED BY <2>1, <2>2, <2>3 DEF RequestInv
<1> QED BY <1>9, <1>10, <1>11, <1>12, OwnStep

(* A write, whole or cut off. *)
LEMMA WriteInv ==
    ASSUME Inv, NEW r \in Requests, Write(r) \/ WriteFails(r)
    PROVE  Inv'
<1> DEFINE s == stream[r]
           p == buf[s.buffer]
<1>1. pc[r] = "write" /\ UNCHANGED <<connected, asked, result, buf>>
  BY DEF Write, WriteFails, AfterLoad, storeVars
<1>2. RequestInv(r) /\ s.received \in Seq(Bytes) /\ p \in Seq(Bytes) /\ Len(p) \in Nat
  BY <1>1, CopyFacts DEF Copying, Inv, ServingTypes
<1>3. r \in connected => Len(s.received) = s.written
  BY <1>2 DEF RequestInv, Delivers
<1>4. CASE Write(r)
  <2>1. /\ pc' = [pc EXCEPT ![r] = "read"]
        /\ stream' = [stream EXCEPT
             ![r].written = @ + Len(p),
             ![r].received = @ \o SubSeq(p, 1, IF r \in connected THEN Len(p) ELSE 0)]
    <3>1. SubSeq(p, 1, Len(p)) = p /\ s.received \o SubSeq(p, 1, 0) = s.received
      BY <1>2
    <3> QED BY <1>4, <3>1 DEF Write, AfterLoad, Goto
  <2>2. PICK n \in Nat, k \in Nat : n = Len(p) /\ k = IF r \in connected THEN n ELSE 0
    BY <1>2
  <2>3. /\ k <= n /\ (k > 0 => Len(s.received) = s.written) /\ (r \in connected => k = n)
        /\ stream' = [stream EXCEPT ![r].written = @ + n,
                                    ![r].received = @ \o SubSeq(p, 1, k)]
    BY <1>2, <1>3, <2>1, <2>2
  <2>4. n <= Len(p) /\ n = Len(p)
    BY <2>2
  <2> QED BY <1>1, <2>1, <2>2, <2>3, <2>4, AcceptInv, Zenon
<1>5. CASE WriteFails(r)
  <2>1. r \notin connected /\ pc' = [pc EXCEPT ![r] = "copied"]
    BY <1>5 DEF WriteFails, AfterLoad, Goto
  <2>a. PICK n \in 0..Len(p) : \E m \in 0..n :
          /\ m > 0 => Len(s.received) = s.written
          /\ stream' = [stream EXCEPT ![r].written = @ + n,
                                      ![r].received = @ \o SubSeq(p, 1, m)]
    BY <1>5, Zenon DEF WriteFails
  <2>2. PICK m \in 0..n :
          /\ m > 0 => Len(s.received) = s.written
          /\ stream' = [stream EXCEPT ![r].written = @ + n,
                                      ![r].received = @ \o SubSeq(p, 1, m)]
    BY <2>a
  <2>3. n \in Nat /\ m \in Nat /\ m <= n /\ n <= Len(p)
    BY <1>2, <2>a, <2>2
  <2> QED BY <1>1, <2>1, <2>2, <2>3, AcceptInv
<1> QED BY <1>4, <1>5

(* The buffer goes back to the pool and the bytes are counted. *)
LEMMA CopiedInv ==
    ASSUME Inv, NEW r \in Requests, Copied(r)
    PROVE  Inv'
<1>1. /\ pc[r] = "copied" /\ pc' = [pc EXCEPT ![r] = "done"]
      /\ stream' = [stream EXCEPT ![r].buffer = None, ![r].counted = stream[r].written]
      /\ buf' = [buf EXCEPT ![stream[r].buffer] = <<>>]
      /\ UNCHANGED <<connected, asked, result>>
  BY DEF Copied, AfterLoad, Goto, storeVars, BytesCopied
<1>2. /\ RequestInv(r) /\ stream[r].buffer \in Buffers
      /\ stream[r].body \in Blobs /\ stream[r].body \in Bodies
      /\ stream[r].body # None
      /\ stream[r].written \in Nat /\ stream[r].length = Reported[stream[r].body]
  BY <1>1, CopyFacts DEF Copying
<1>3. /\ stream' \in [Requests -> Stream]
      /\ \A q \in Requests \ {r} : stream'[q] = stream[q]
      /\ stream'[r].body = stream[r].body
      /\ stream'[r].buffer = None /\ stream'[r].length = stream[r].length
      /\ stream'[r].read = stream[r].read /\ stream'[r].written = stream[r].written
      /\ stream'[r].received = stream[r].received /\ stream'[r].counted = stream[r].written
  BY <1>1, <1>2, CountedStream DEF Inv, ServingTypes
<1>4. ServingTypes'
  <2>1. <<>> \in Seq(Bytes)
    OBVIOUS
  <2> QED BY <1>1, <1>2, <1>3, <2>1 DEF Inv, ServingTypes, HandlerSteps
<1>5. /\ pc'[r] = "done" /\ \A q \in Requests \ {r} : pc'[q] = pc[q]
      /\ \A b \in Buffers : b # stream[r].buffer => buf'[b] = buf[b]
  BY <1>1 DEF Inv, ServingTypes
<1>6. RequestInv(r)'
  <2> USE <1>1, <1>2, <1>3, <1>5, BlobsAssumption
  <2>1. Asks(r)' /\ Starts(r)' /\ Holds(r)' /\ Ends(r)'
    BY DEF Asks, Starts, Holds, Ends, Copying, Loader!Steps
  <2>2. Copies(r)'
    BY DEF RequestInv, Copies, Copying
  <2>3. Delivers(r)'
    BY DEF RequestInv, Delivers
  <2> QED BY <2>1, <2>2, <2>3 DEF RequestInv
<1> QED BY <1>1, <1>3, <1>4, <1>5, <1>6, OwnStep

(* The handler ends and its goroutine takes another request. *)
LEMMA FinishInv ==
    ASSUME Inv, NEW r \in Requests, Finish(r)
    PROVE  Inv'
<1>1. NoStream \in Stream
  BY InitStream
<1>2. /\ pc'[r] = "idle" /\ asked'[r] = None /\ stream'[r] = NoStream /\ buf' = buf
      /\ \A q \in Requests \ {r} :
           /\ pc'[q] = pc[q] /\ asked'[q] = asked[q] /\ result'[q] = result[q]
           /\ stream'[q] = stream[q] /\ (q \in connected' => q \in connected)
  BY DEF Finish, Goto, Inv, ServingTypes
<1>3. ServingTypes'
  BY <1>1 DEF Finish, Goto, Inv, ServingTypes, HandlerSteps, Loader!Steps
<1>4. RequestInv(r)'
  <2> USE <1>2, BlobsAssumption DEF NoStream
  <2>1. Asks(r)' /\ Starts(r)' /\ Holds(r)' /\ Ends(r)'
    BY DEF Asks, Starts, Holds, Ends, Copying
  <2>2. Copies(r)'
    BY DEF Copies, Copying
  <2>3. Delivers(r)'
    BY DEF Delivers
  <2> QED BY <2>1, <2>2, <2>3 DEF RequestInv
<1>5. stream'[r].buffer = None
  BY <1>2 DEF NoStream
<1> QED BY <1>2, <1>3, <1>4, <1>5, OwnStep

-----------------------------------------------------------------------------
(* Every step keeps the invariant. *)
LEMMA NextInv == Inv /\ [Next]_vars => Inv'
<1> SUFFICES ASSUME Inv, [Next]_vars PROVE Inv'
  OBVIOUS
<1>1. CASE UNCHANGED vars
  <2>1. UNCHANGED <<pc, connected, stored, asked, result, stream, buf>>
    BY <1>1 DEF vars, loaderVars, storeVars
  <2>2. ServingTypes' /\ OwnBuffers'
    BY <2>1 DEF Inv, ServingTypes, OwnBuffers
  <2>3. ASSUME NEW q \in Requests PROVE RequestInv(q)'
    BY <2>1, Frame DEF Inv
  <2> QED BY <2>2, <2>3 DEF Inv
<1>2. CASE \E k \in Keys : Publish(k)
  <2>1. CASE \E r \in Requests : TRUE
    BY <1>2, <2>1, LoaderInv DEF LoaderStep
  <2>2. CASE Requests = {}
    BY <1>2, <2>2 DEF Publish, Loader!Publish, storeVars, Inv, ServingTypes, OwnBuffers
  <2> QED BY <2>1, <2>2
<1>3. ASSUME NEW r \in Requests,
             \/ \E k \in Keys : Arrive(r, k)
             \/ Disconnect(r) \/ LoadStore(r) \/ LoadDeadline(r) \/ Load(r) \/ LoadAborted(r)
      PROVE Inv'
  BY <1>3, LoaderInv DEF LoaderStep
<1>4. ASSUME NEW r \in Requests, Read(r) \/ ReadFails(r) \/ ReadAborted(r)
      PROVE Inv'
  <2>1. CASE Read(r) /\ pc'[r] # "copied"
    BY <2>1, ReadInv
  <2>2. CASE Read(r) /\ pc'[r] = "copied"
    <3>1. pc \in [Requests -> HandlerSteps]
      BY DEF Inv, ServingTypes
    <3> QED BY <2>2, <3>1, CopyEndsInv DEF Read, AfterLoad, Goto, storeVars
  <2>3. CASE ReadFails(r) \/ ReadAborted(r)
    BY <2>3, CopyEndsInv DEF ReadFails, ReadAborted, AfterLoad, Goto, storeVars
  <2> QED BY <1>4, <2>1, <2>2, <2>3
<1> QED
  BY <1>1, <1>2, <1>3, <1>4, RespondInv, WritePageInv, GetInv, WriteInv, CopiedInv, FinishInv
     DEF Next, Handler

(* The inductive invariant holds of every behaviour of the handler. *)
THEOREM Invariance == Spec => []Inv
<1> QED BY InitInv, NextInv, PTL DEF Spec

-----------------------------------------------------------------------------
(* The handler's state has its types, and a request has a buffer exactly   *)
(* while it copies, whatever fails.                                        *)
THEOREM TypeCorrect == Spec => []TypeOK
<1>1. Inv => TypeOK
  BY DEF Inv, ServingTypes, HandlerSteps, RequestInv, Holds, Copying, Stream, TypeOK
<1> QED BY <1>1, Invariance, PTL

(* What a client has got is a prefix of the body it is sent, for any       *)
(* number of concurrent copies that take their buffers from the pool,      *)
(* however much a read gives or a write takes (server.go:283-284).         *)
THEOREM OwnBytesAlways == Spec => []OwnBytesOnly
<1>1. Inv => OwnBytesOnly
  <2> SUFFICES ASSUME Inv, NEW r \in Requests
               PROVE  IF stream[r].body = None THEN stream[r].received = <<>>
                      ELSE /\ Len(stream[r].received) <= Length[stream[r].body]
                           /\ stream[r].received
                                = Piece(stream[r].body, 0, Len(stream[r].received))
    BY DEF OwnBytesOnly
  <2>1. CASE stream[r].body = None
    BY <2>1 DEF Inv, RequestInv, Starts
  <2>2. CASE stream[r].body # None
    <3>1. /\ Length[stream[r].body] \in Nat /\ stream[r].written \in Nat
          /\ stream[r].received \in Seq(Bytes)
      BY <2>2, LengthAssumption DEF Inv, ServingTypes, Stream
    <3>2. stream[r].written <= Length[stream[r].body]
      BY <2>2 DEF Inv, RequestInv, Copies
    <3>3. /\ Len(stream[r].received) <= stream[r].written
          /\ stream[r].received = Piece(stream[r].body, 0, Len(stream[r].received))
      BY <2>2 DEF Inv, RequestInv, Delivers
    <3>4. Len(stream[r].received) <= Length[stream[r].body]
      BY <3>1, <3>2, <3>3
    <3> QED BY <2>2, <3>3, <3>4
  <2> QED BY <2>1, <2>2
<1> QED BY <1>1, Invariance, PTL

(* A response that its client takes for complete is the whole body, if the *)
(* store tells the size: a copy that breaks off is noticed                 *)
(* (server.go:268-276).                                                    *)
THEOREM CompleteAlwaysWhole == Spec => []CompleteMeansWhole
<1>1. Inv => CompleteMeansWhole
  <2> SUFFICES ASSUME Inv, NEW r \in Requests, LooksComplete(r),
                      stream[r].body \in Sized \cup {defaultNotFoundBody}
               PROVE  stream[r].received = Whole(stream[r].body)
    BY DEF CompleteMeansWhole
  <2> DEFINE got == stream[r].received
             body == stream[r].body
  <2>1. /\ body # None /\ pc[r] = "done" /\ r \in connected
        /\ Length[body] \in Nat /\ got = Piece(body, 0, Len(got))
        /\ Len(got) = stream[r].written
    BY LengthAssumption, BlobsAssumption
       DEF LooksComplete, Inv, RequestInv, Delivers, Bodies
  <2>2. Len(got) = Length[body]
    <3>1. CASE body \in Sized
      <4>1. stream[r].length = Length[body]
        BY <2>1, <3>1, BlobsAssumption DEF Inv, RequestInv, Ends, Reported
      <4> QED BY <2>1, <4>1 DEF LooksComplete, Unknown
    <3>2. CASE body = defaultNotFoundBody
      BY <2>1, <3>2 DEF Inv, RequestInv, Ends
    <3> QED BY <3>1, <3>2
  <2> QED BY <2>1, <2>2 DEF Whole
<1> QED BY <1>1, Invariance, PTL

(* Every byte of a blob or of the built-in page that a client got is       *)
(* counted, and none for more than it has, although a copy may end         *)
(* anywhere and a write may be cut off (server.go:284-287, 312-313).       *)
THEOREM DeliveredAlwaysCounted == Spec => []DeliveredBytesCounted
<1>1. Inv => DeliveredBytesCounted
  BY DEF Inv, RequestInv, Copies, Delivers, Ends, DeliveredBytesCounted
<1> QED BY <1>1, Invariance, PTL

==============================================================================
