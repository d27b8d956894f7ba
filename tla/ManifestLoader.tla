--------------------------- MODULE ManifestLoader ---------------------------
(***************************************************************************)
(* loadManifest (internal/server/server.go): concurrent requests load the  *)
(* manifest of a release through the manifest cache and, on a miss,        *)
(* through a singleflight group that lets one of them, the leader, read    *)
(* the object store for all.  The leader's read is detached from its       *)
(* client and bounded by a timeout of its own.                             *)
(*                                                                         *)
(* A request is a goroutine that runs ServeHTTP; its steps are the         *)
(* accesses to shared state: cache.get and cache.add (atomic under c.mu),  *)
(* the two critical sections of singleflight.Do, and the answers of the    *)
(* object store.  Releases are published by another program at any time;   *)
(* the object of a release never changes once it is published.             *)
(***************************************************************************)
EXTENDS Integers

CONSTANTS
    Requests,       \* request goroutines; a finished one is used again
    Keys, Manifests, ApproxSize, Capacity, BytesCapacity,
    Object,         \* key -> what manifest.Load makes of the stored bytes
    ErrParse,       \* Load's error
    ErrNotExist,    \* blobstore.ErrNotExist
    ErrStore,       \* any other error of the store
    ErrContext,     \* context.DeadlineExceeded or context.Canceled
    None            \* no request, no key, no answer

Errors == {ErrParse, ErrNotExist, ErrStore, ErrContext}

ASSUME CacheAssumption ==
    ApproxSize \in [Manifests -> Nat] /\ Capacity \in Int /\ BytesCapacity \in Int
ASSUME ObjectAssumption == Object \in [Keys -> Manifests \cup {ErrParse}]
ASSUME DistinctAssumption ==
    /\ None \notin Requests \cup Keys \cup Manifests \cup Errors
    /\ Errors \cap Manifests = {}
    /\ ErrParse \notin {ErrNotExist, ErrStore, ErrContext}
    /\ ErrNotExist \notin {ErrStore, ErrContext}
    /\ ErrStore # ErrContext

VARIABLES
    ll, idx, bytes, \* the manifest cache
    calls,          \* mfGroup: key -> the leader of the call in flight, or None
    pc,             \* where each request is
    key,            \* the storage key it asks for
    answer,         \* the result of loadManifest, or of the leader's closure
    connected,      \* its client has not gone away: r.Context() is not done
    expired,        \* leaders whose loadCtx has passed its deadline
    published,      \* keys whose object is in the bucket
    known           \* history: its key was published when the request arrived

cacheVars == <<ll, idx, bytes>>
vars == <<ll, idx, bytes, calls, pc, key, answer, connected, expired,
          published, known>>

Cache == INSTANCE ManifestCache

Answers == Manifests \cup Errors

(* "probe": before the first cache.get; "do": before mfGroup.Do; "wait": a *)
(* duplicate caller blocked in Do; then the closure, run by a leader:      *)
(* "recheck", "open" (store.Get), "body" (io.ReadAll), "loaded" (Load and  *)
(* cache.add), "return"; "answered": loadManifest has returned.            *)
Steps == {"idle", "probe", "do", "wait", "recheck", "open", "body",
          "loaded", "return", "answered"}
Reading == {"open", "body"}
Leading == {"recheck", "open", "body", "loaded", "return"}

Init ==
    /\ Cache!Init
    /\ calls = [k \in Keys |-> None]
    /\ pc = [r \in Requests |-> "idle"]
    /\ key = [r \in Requests |-> None]
    /\ answer = [r \in Requests |-> None]
    /\ connected = Requests
    /\ expired = {}
    /\ published \in SUBSET Keys
    /\ known = {}

-----------------------------------------------------------------------------
(* The environment. *)

(* A release goes live. *)
Publish(k) ==
    /\ k \notin published
    /\ published' = published \cup {k}
    /\ UNCHANGED <<cacheVars, calls, pc, key, answer, connected, expired, known>>

(* ServeHTTP reaches loadManifest with the key of its site. *)
Arrive(r, k) ==
    /\ pc[r] = "idle"
    /\ pc' = [pc EXCEPT ![r] = "probe"]
    /\ key' = [key EXCEPT ![r] = k]
    /\ known' = IF k \in published THEN known \cup {r} ELSE known
    /\ UNCHANGED <<cacheVars, calls, answer, connected, expired, published>>

(* The client goes away; the handler keeps running. *)
Disconnect(r) ==
    /\ pc[r] # "idle"
    /\ r \in connected
    /\ connected' = connected \ {r}
    /\ UNCHANGED <<cacheVars, calls, pc, key, answer, expired, published, known>>

(* manifestLoadTimeout passes while the leader is in the store. *)
DeadlineExpires(r) ==
    /\ pc[r] \in Reading
    /\ r \notin expired
    /\ expired' = expired \cup {r}
    /\ UNCHANGED <<cacheVars, calls, pc, key, answer, connected, published, known>>

(* ServeHTTP uses the answer and the goroutine ends. *)
Finish(r) ==
    /\ pc[r] = "answered"
    /\ pc' = [pc EXCEPT ![r] = "idle"]
    /\ key' = [key EXCEPT ![r] = None]
    /\ answer' = [answer EXCEPT ![r] = None]
    /\ connected' = connected \cup {r}
    /\ expired' = expired \ {r}
    /\ known' = known \ {r}
    /\ UNCHANGED <<cacheVars, calls, published>>

-----------------------------------------------------------------------------
(* The steps of loadManifest. *)

unchangedByCall == <<key, connected, expired, published, known>>

Goto(r, step) == pc' = [pc EXCEPT ![r] = step]
Returns(r, step, v) ==
    /\ Goto(r, step)
    /\ answer' = [answer EXCEPT ![r] = v]

(* cache.get: a hit goes to step with its manifest, a miss to next. *)
Lookup(r, step, next) ==
    \/ /\ Cache!get(key[r])
       /\ Returns(r, step, idx[key[r]].m)
    \/ /\ Cache!getMiss(key[r])
       /\ Goto(r, next)
       /\ UNCHANGED answer

Probe(r) ==
    /\ pc[r] = "probe"
    /\ Lookup(r, "answered", "do")
    /\ UNCHANGED <<calls, unchangedByCall>>

(* Fault: callers are not coalesced; each one leads a call of its own. *)
FaultDoAlone(r) ==
    /\ pc[r] = "do"
    /\ Goto(r, "recheck")
    /\ calls' = [calls EXCEPT ![key[r]] = r]
    /\ UNCHANGED <<cacheVars, answer, unchangedByCall>>

(* singleflight.Do, first critical section: join the key's call or lead. *)
Do(r) ==
    /\ pc[r] = "do"
    /\ \/ /\ calls[key[r]] # None
          /\ Goto(r, "wait")
          /\ UNCHANGED calls
       \/ /\ calls[key[r]] = None
          /\ Goto(r, "recheck")
          /\ calls' = [calls EXCEPT ![key[r]] = r]
    /\ UNCHANGED <<cacheVars, answer, unchangedByCall>>

(* Fault: the leader reads the store without looking in the cache again. *)
FaultNoRecheck(r) ==
    /\ pc[r] = "recheck"
    /\ Goto(r, "open")
    /\ UNCHANGED <<cacheVars, calls, answer, unchangedByCall>>

(* The leader looks in the cache again before it reads the store. *)
Recheck(r) ==
    /\ pc[r] = "recheck"
    /\ Lookup(r, "return", "open")
    /\ UNCHANGED <<calls, unchangedByCall>>

(* Fault: loadCtx has no deadline. *)
FaultCtxWithoutDeadline(r) == FALSE

(* loadCtx is done: WithTimeout(WithoutCancel(ctx), manifestLoadTimeout).   *)
LoadCtxDone(r) == r \in expired

(* Fault: every error is taken for a missing object. *)
FaultMapAllErrors(code) == ErrNotExist

(* gcsStore.Get's errors by their gcerrors.Code. *)
mapErr(code) == IF code = "NotFound" THEN ErrNotExist ELSE ErrStore

(* store.Get answers: no such object, or a reader of its body. *)
StoreAnswers(r) ==
    /\ pc[r] = "open"
    /\ \/ /\ key[r] \notin published
          /\ Returns(r, "return", mapErr("NotFound"))
       \/ /\ key[r] \in published
          /\ Goto(r, "body")
          /\ UNCHANGED answer
    /\ UNCHANGED <<cacheVars, calls, unchangedByCall>>

(* store.Get, or a read of the body, fails for a reason of the store's. *)
StoreFails(r) ==
    /\ \/ pc[r] = "open" /\ Returns(r, "return", mapErr("Internal"))
       \/ pc[r] = "body" /\ Returns(r, "return", ErrStore)
    /\ UNCHANGED <<cacheVars, calls, unchangedByCall>>

(* store.Get, or a read of the body, gives up because loadCtx is done. *)
ReadAborted(r) ==
    /\ pc[r] \in Reading
    /\ LoadCtxDone(r)
    /\ Returns(r, "return", ErrContext)
    /\ UNCHANGED <<cacheVars, calls, unchangedByCall>>

(* io.ReadAll has the whole body. *)
BodyRead(r) ==
    /\ pc[r] = "body"
    /\ Goto(r, "loaded")
    /\ UNCHANGED <<cacheVars, calls, answer, unchangedByCall>>

(* manifest.Load, and cache.add if it succeeds. *)
LoadAndAdd(r) ==
    /\ pc[r] = "loaded"
    /\ Returns(r, "return", Object[key[r]])
    /\ \/ /\ Object[key[r]] # ErrParse
          /\ Cache!add(key[r], Object[key[r]])
       \/ /\ Object[key[r]] = ErrParse
          /\ UNCHANGED cacheVars
    /\ UNCHANGED <<calls, unchangedByCall>>

(* Faults: the result goes to the waiters of every key, or to none. *)
FaultWaitersOfAllKeys(r) == {w \in Requests : pc[w] = "wait"}
FaultNoWaiters(r) == {}

(* The callers blocked in the call that r leads. *)
Waiters(r) == {w \in Requests : pc[w] = "wait" /\ key[w] = key[r]}

(* Fault: waiters wake without the result of the call. *)
FaultOwnResult(r, w) == answer[w]

(* c.val and c.err, as w reads them. *)
Result(r, w) == answer[r]

(* singleflight.Do, second critical section: the call is forgotten and its *)
(* result, value or error, is the answer of the leader and every waiter.   *)
Return(r) ==
    LET callers == {r} \cup Waiters(r) IN
    /\ pc[r] = "return"
    /\ calls' = [calls EXCEPT ![key[r]] = None]
    /\ pc' = [w \in Requests |-> IF w \in callers THEN "answered" ELSE pc[w]]
    /\ answer' = [w \in Requests |-> IF w \in callers THEN Result(r, w) ELSE answer[w]]
    /\ UNCHANGED <<cacheVars, unchangedByCall>>

Goroutine(r) ==
    \/ Probe(r) \/ Do(r) \/ Recheck(r) \/ LoadAndAdd(r) \/ Return(r)

Store(r) == StoreAnswers(r) \/ StoreFails(r) \/ BodyRead(r)

Next ==
    \/ \E k \in Keys : Publish(k)
    \/ \E r \in Requests :
        \/ \E k \in Keys : Arrive(r, k)
        \/ Disconnect(r)
        \/ DeadlineExpires(r)
        \/ Finish(r)
        \/ Goroutine(r)
        \/ Store(r)
        \/ ReadAborted(r)

(* Go runs every runnable goroutine, timers fire, and a store operation    *)
(* whose context is done returns.  The store itself may never answer: its  *)
(* steps, like those of clients and publishers, have no fairness.          *)
Fairness == \A r \in Requests :
    /\ WF_vars(Goroutine(r))
    /\ WF_vars(DeadlineExpires(r))
    /\ WF_vars(ReadAborted(r))

Spec == Init /\ [][Next]_vars

FairSpec == Spec /\ Fairness

-----------------------------------------------------------------------------
(* The types of the fields, and of a request's local state: loadManifest   *)
(* returns a manifest or an error, never neither.                          *)
TypeOK ==
    /\ Cache!TypeOK
    /\ calls \in [Keys -> Requests \cup {None}]
    /\ pc \in [Requests -> Steps]
    /\ key \in [Requests -> Keys \cup {None}]
    /\ answer \in [Requests -> Answers \cup {None}]
    /\ \A r \in Requests : pc[r] \in {"return", "answered"} => answer[r] # None
    /\ connected \subseteq Requests
    /\ expired \subseteq Requests
    /\ published \subseteq Keys
    /\ known \subseteq Requests

(* "a single GCS read + parse per replica" (server.go:173-174): never two  *)
(* requests read one key, and no key is read that the cache holds - not    *)
(* even by a request that missed it before an earlier leader added it and  *)
(* only then became a leader itself.  So add never takes its refresh path. *)
OneReadPerKey == \A r \in Requests :
    pc[r] \in Reading \cup {"loaded"} =>
        /\ key[r] \notin DOMAIN idx
        /\ \A q \in Requests \ {r} : pc[q] \in Leading => key[q] # key[r]

(* Every answer that is a manifest, to a leader, to a waiter or from the   *)
(* cache after any evictions, is the manifest of the release asked for,    *)
(* and that release is published.                                          *)
AnswersTrue ==
    /\ \A k \in DOMAIN idx : k \in published /\ idx[k].m = Object[k]
    /\ \A r \in Requests :
         answer[r] \in Manifests => key[r] \in published /\ answer[r] = Object[key[r]]

(* A leader answers "release not found" only if the release was not yet    *)
(* published when the leader's request arrived; neither a fault of the     *)
(* store nor an earlier miss is reported as a missing release.             *)
LeaderIsCurrent == \A r \in Requests :
    pc[r] = "return" /\ answer[r] = ErrNotExist => r \notin known

(* "every waiter [...] gets the one true manifest for the key"             *)
(* (server.go:175): while a leader is about to report to its waiters that  *)
(* the release does not exist, nobody has been given its manifest, nobody  *)
(* can find it in the cache, and no request that arrived after the publish *)
(* has been answered yet.  So at most one call is out of date, and once    *)
(* anybody has seen a release, nobody is told any more that it is absent.  *)
AbsenceUncontradicted == \A r, q \in Requests :
    pc[r] = "return" /\ answer[r] = ErrNotExist /\ key[q] = key[r] =>
        /\ key[r] \notin DOMAIN idx
        /\ answer[q] \notin Manifests
        /\ q \in known => pc[q] \in {"probe", "do", "wait"}

(* Whoever waits, waits for a leader that is still going to return. *)
WaitersHaveALeader == \A w \in Requests :
    pc[w] = "wait" =>
        \E r \in Requests :
            calls[key[w]] = r /\ key[r] = key[w] /\ pc[r] \in Leading

(* Every request is answered, even if the store never answers. *)
EveryRequestAnswered == \A r \in Requests :
    pc[r] = "probe" ~> pc[r] = "answered"

(* "coalescing can never serve stale content" (server.go:175-176), read    *)
(* for every answer: no request that arrived after its release was         *)
(* published is told that the release does not exist.                      *)
CoalescedAnswerIsCurrent == \A r \in Requests :
    pc[r] = "answered" /\ answer[r] = ErrNotExist => r \notin known

=============================================================================
