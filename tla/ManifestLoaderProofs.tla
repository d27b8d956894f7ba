------------------------ MODULE ManifestLoaderProofs ------------------------
(***************************************************************************)
(* The safety properties of loadManifest, for any number of concurrent     *)
(* requests, all releases and every configuration of the manifest cache.   *)
(***************************************************************************)
EXTENDS ManifestLoader, TLAPS

(* The manifest cache with what is proved about it.  The history variable  *)
(* of its LRU theorem is in none of the facts used here.                   *)
Sound == INSTANCE ManifestCacheProofs WITH recency <- ll

-----------------------------------------------------------------------------
(* The inductive invariant: Protocol, and the cache's own.                 *)

(* The types of the loader's own variables. *)
LoaderTypes ==
    /\ calls \in [Keys -> Requests \cup {None}]
    /\ pc \in [Requests -> Steps]
    /\ key \in [Requests -> Keys \cup {None}]
    /\ answer \in [Requests -> Answers \cup {None}]
    /\ connected \subseteq Requests
    /\ expired \subseteq Requests
    /\ published \subseteq Keys
    /\ known \subseteq Requests

(* A request has a key while it runs, and an answer once it has returned,  *)
(* not before.                                                             *)
KeyWhileRunning == \A r \in Requests : pc[r] # "idle" => key[r] \in Keys
AnswerOnReturn == \A r \in Requests :
    answer[r] # None <=> pc[r] \in {"return", "answered"}

(* The singleflight group's map and the leaders agree; nobody waits for a  *)
(* call that is not there.  So there is one leader per key.                *)
LeadersRegistered == \A r \in Requests : pc[r] \in Leading => calls[key[r]] = r
CallsLed == \A k \in Keys :
    calls[k] # None => pc[calls[k]] \in Leading /\ key[calls[k]] = k
WaitsOnACall == \A w \in Requests : pc[w] = "wait" => calls[key[w]] # None

(* What is being read is not in the cache: nobody else could have added it. *)
ReadsMisses == \A r \in Requests :
    pc[r] \in Reading \cup {"loaded"} => key[r] \notin DOMAIN idx

(* An object that was found, and one that was there on arrival, stay. *)
FoundIsPublished == \A r \in Requests :
    pc[r] \in {"body", "loaded"} => key[r] \in published
KnownIsPublished == \A r \in known : pc[r] # "idle" /\ key[r] \in published

Protocol ==
    /\ LoaderTypes
    /\ KeyWhileRunning /\ AnswerOnReturn
    /\ LeadersRegistered /\ CallsLed /\ WaitsOnACall
    /\ ReadsMisses
    /\ FoundIsPublished /\ KnownIsPublished
    /\ AnswersTrue /\ AbsenceUncontradicted /\ LeaderIsCurrent

Inv == Sound!Inv /\ Protocol

-----------------------------------------------------------------------------
(* The cache of the loader is the cache the proofs are about. *)
LEMMA SameCache ==
    ASSUME NEW k
    PROVE  /\ Cache!Init <=> Sound!Init
           /\ Cache!get(k) <=> Sound!get(k)
           /\ Cache!getMiss(k) <=> Sound!getMiss(k)
           /\ \A m : Cache!add(k, m) <=> Sound!add(k, m)
<1> USE DEF Cache!MoveToFront, Sound!MoveToFront, Cache!PushFront, Sound!PushFront,
            Cache!PositionOf, Sound!PositionOf, Cache!DropBack, Sound!DropBack,
            Cache!BackBytes, Sound!BackBytes, Cache!TotalBytes, Sound!TotalBytes,
            Cache!PrefixBytes, Sound!PrefixBytes, Cache!Sizes, Sound!Sizes,
            Cache!Min, Sound!Min, Cache!cap, Sound!cap,
            Cache!bytesCap, Sound!bytesCap, Cache!OverBudget, Sound!OverBudget,
            Cache!Evictions, Sound!Evictions, Cache!Victims, Sound!Victims,
            Cache!evictToBound, Sound!evictToBound
<1>1. Cache!Init <=> Sound!Init
  BY DEF Cache!Init, Sound!Init, Cache!newManifestCache, Sound!newManifestCache
<1>2. Cache!get(k) <=> Sound!get(k)
  BY DEF Cache!get, Sound!get
<1>3. Cache!getMiss(k) <=> Sound!getMiss(k)
  BY DEF Cache!getMiss, Sound!getMiss, Cache!vars, Sound!vars
<1>4. ASSUME NEW m PROVE Cache!add(k, m) <=> Sound!add(k, m)
  BY DEF Cache!add, Sound!add, Cache!refresh, Sound!refresh, Cache!insert, Sound!insert
<1> QED BY <1>1, <1>2, <1>3, <1>4

(* A new cache is consistent. *)
LEMMA CacheInit == Cache!Init => Sound!Inv
BY CacheAssumption, SameCache, Sound!InitInv

(* Steps that do not touch the cache, and lookups, keep it consistent and  *)
(* its index as it is.                                                     *)
LEMMA CacheStays == ASSUME Sound!Inv, UNCHANGED cacheVars PROVE Sound!Inv'
BY CacheAssumption, Sound!NextInv DEF cacheVars, Sound!vars

(* So does a hit. *)
LEMMA CacheGet ==
    ASSUME Sound!Inv, NEW k \in Keys, Cache!get(k)
    PROVE  Sound!Inv' /\ idx' = idx /\ k \in DOMAIN idx
<1>1. Sound!Inv'
  BY CacheAssumption, SameCache, Sound!GetInv
<1> QED BY <1>1 DEF Cache!get

(* An add keeps it consistent and adds at most its own key. *)
LEMMA CacheAdd ==
    ASSUME Sound!Inv, NEW k \in Keys, NEW m \in Manifests, Cache!add(k, m)
    PROVE  /\ Sound!Inv'
           /\ DOMAIN idx' \subseteq DOMAIN idx \cup {k}
           /\ \A j \in DOMAIN idx' : IF j = k THEN idx'[j].m = m ELSE idx'[j] = idx[j]
<1>1. Sound!add(k, m)
  BY SameCache
<1>2. Sound!Inv'
  BY <1>1, CacheAssumption, Sound!AddInv
<1> QED BY <1>1, <1>2, CacheAssumption, Sound!AddContents

-----------------------------------------------------------------------------
(* The initial states satisfy the invariant. *)
LEMMA InitInv == Init => Inv
<1> SUFFICES ASSUME Init PROVE Inv
  OBVIOUS
<1>1. Sound!Inv
  BY CacheInit DEF Init
<1>2. DOMAIN idx = {}
  BY DEF Init, Cache!Init, Cache!newManifestCache
<1>3. LoaderTypes /\ AnswersTrue
  BY <1>2, DistinctAssumption
     DEF Init, LoaderTypes, AnswersTrue, Steps, Answers, Errors
<1>4. KeyWhileRunning /\ AnswerOnReturn
  BY DEF Init, KeyWhileRunning, AnswerOnReturn
<1>5. LeadersRegistered /\ CallsLed /\ WaitsOnACall /\ ReadsMisses
  BY DEF Init, LeadersRegistered, CallsLed, WaitsOnACall, ReadsMisses, Leading, Reading
<1>6. FoundIsPublished /\ KnownIsPublished /\ AbsenceUncontradicted /\ LeaderIsCurrent
  BY DEF Init, FoundIsPublished, KnownIsPublished, AbsenceUncontradicted, LeaderIsCurrent
<1> QED BY <1>1, <1>3, <1>4, <1>5, <1>6 DEF Inv, Protocol

(* Clients and timers. *)
LEMMA EnvironmentInv ==
    ASSUME Inv, NEW r \in Requests,
           \/ \E k \in Keys : Arrive(r, k)
           \/ Disconnect(r) \/ DeadlineExpires(r) \/ Finish(r)
    PROVE  Inv'
<1>1. Sound!Inv'
  BY CacheStays DEF Inv, Arrive, Disconnect, DeadlineExpires, Finish
<1> USE DistinctAssumption
    DEF Inv, Protocol, cacheVars, LoaderTypes, KeyWhileRunning, AnswerOnReturn,
        LeadersRegistered, CallsLed, WaitsOnACall, ReadsMisses, FoundIsPublished,
        KnownIsPublished, AnswersTrue, AbsenceUncontradicted, LeaderIsCurrent,
        Steps, Leading, Reading, Answers, Errors
<1>2. ASSUME NEW k \in Keys, Arrive(r, k) PROVE Inv'
  BY <1>1, <1>2 DEF Arrive
<1>3. CASE Disconnect(r)
  BY <1>1, <1>3 DEF Disconnect
<1>4. CASE DeadlineExpires(r)
  BY <1>1, <1>4 DEF DeadlineExpires
<1>5. CASE Finish(r)
  BY <1>1, <1>5 DEF Finish
<1> QED BY <1>2, <1>3, <1>4, <1>5

(* The store's answers, and the end of a read that is out of time.  A read *)
(* is the leader's alone, so that what it found stays absent from the      *)
(* cache until the leader adds it.                                         *)
LEMMA StoreInv ==
    ASSUME Inv, NEW r \in Requests, Store(r) \/ ReadAborted(r)
    PROVE  Inv'
<1>1. Sound!Inv'
  BY CacheStays DEF Inv, Store, StoreAnswers, StoreFails, BodyRead, ReadAborted
<1> USE DistinctAssumption
    DEF Inv, Protocol, cacheVars, LoaderTypes, KeyWhileRunning, AnswerOnReturn,
        LeadersRegistered, CallsLed, WaitsOnACall, ReadsMisses, FoundIsPublished,
        KnownIsPublished, AnswersTrue, AbsenceUncontradicted, LeaderIsCurrent,
        Steps, Leading, Reading, Answers, Errors, Returns, Goto, unchangedByCall
<1>2. CASE StoreAnswers(r)
  BY <1>1, <1>2 DEF StoreAnswers, mapErr
<1>3. CASE StoreFails(r)
  BY <1>1, <1>3 DEF StoreFails, mapErr
<1>4. CASE BodyRead(r)
  BY <1>1, <1>4 DEF BodyRead
<1>5. CASE ReadAborted(r)
  BY <1>1, <1>5 DEF ReadAborted, LoadCtxDone
<1> QED BY <1>2, <1>3, <1>4, <1>5 DEF Store

(* A lookup answers with the manifest of the key, which Protocol says the  *)
(* cache holds; a leader that misses knows that the key is not cached, and *)
(* that it is the only one to lead for it.                                 *)
LEMMA LookupInv ==
    ASSUME Inv, NEW r \in Requests, Probe(r) \/ Recheck(r)
    PROVE  Inv'
<1> DEFINE hit == IF pc[r] = "probe" THEN "answered" ELSE "return"
           miss == IF pc[r] = "probe" THEN "do" ELSE "open"
           v == idx[key[r]].m
<1>1. /\ pc[r] \in {"probe", "recheck"} /\ UNCHANGED <<calls, unchangedByCall>>
      /\ \/ Cache!get(key[r]) /\ Returns(r, hit, v)
         \/ Cache!getMiss(key[r]) /\ Goto(r, miss) /\ UNCHANGED answer
  BY DEF Probe, Recheck, Lookup
<1>2. key[r] \in Keys
  BY <1>1 DEF Inv, Protocol, KeyWhileRunning
<1>3. CASE Cache!get(key[r]) /\ Returns(r, hit, v)
  <2>1. Sound!Inv' /\ idx' = idx /\ key[r] \in DOMAIN idx
    BY <1>2, <1>3, CacheGet DEF Inv
  <2>2. v \in Manifests /\ v = Object[key[r]] /\ key[r] \in published
    BY <2>1 DEF Inv, Protocol, AnswersTrue, Sound!Inv, Sound!TypeOK, Sound!Entry
  <2> HIDE DEF v
  <2> QED BY <1>1, <1>2, <1>3, <2>1, <2>2, DistinctAssumption
    DEF Inv, Protocol, LoaderTypes, KeyWhileRunning, AnswerOnReturn,
        LeadersRegistered, CallsLed, WaitsOnACall, ReadsMisses, FoundIsPublished,
        KnownIsPublished, AnswersTrue, AbsenceUncontradicted, LeaderIsCurrent,
        Steps, Leading, Reading, Answers, Errors, Returns, Goto, unchangedByCall
<1>4. CASE Cache!getMiss(key[r]) /\ Goto(r, miss) /\ UNCHANGED answer
  <2>1. Sound!Inv' /\ idx' = idx /\ key[r] \notin DOMAIN idx
    BY <1>4, CacheStays DEF Inv, Cache!getMiss, Cache!vars, cacheVars
  <2> QED BY <1>1, <1>2, <1>4, <2>1, DistinctAssumption
    DEF Inv, Protocol, LoaderTypes, KeyWhileRunning, AnswerOnReturn,
        LeadersRegistered, CallsLed, WaitsOnACall, ReadsMisses, FoundIsPublished,
        KnownIsPublished, AnswersTrue, AbsenceUncontradicted, LeaderIsCurrent,
        Steps, Leading, Reading, Goto, unchangedByCall
<1> QED BY <1>1, <1>3, <1>4

(* singleflight.Do, first critical section: the group's map keeps one      *)
(* leader per key.                                                         *)
LEMMA DoInv == ASSUME Inv, NEW r \in Requests, Do(r) PROVE Inv'
<1>1. Sound!Inv'
  BY CacheStays DEF Inv, Do
<1> QED BY <1>1, DistinctAssumption
  DEF Inv, Protocol, cacheVars, LoaderTypes, KeyWhileRunning, AnswerOnReturn,
      LeadersRegistered, CallsLed, WaitsOnACall, ReadsMisses, FoundIsPublished,
      KnownIsPublished, AnswersTrue, AbsenceUncontradicted, LeaderIsCurrent,
      Steps, Leading, Reading, Answers, Errors, Do, Goto, unchangedByCall

(* manifest.Load and cache.add: only the leader's own key enters the       *)
(* cache, and no other request reads that key.                             *)
LEMMA LoadAndAddInv == ASSUME Inv, NEW r \in Requests, LoadAndAdd(r) PROVE Inv'
<1> USE DEF Inv, Protocol
<1>1. /\ key[r] \in Keys /\ key[r] \in published /\ calls[key[r]] = r
      /\ Object[key[r]] \in Manifests \cup {ErrParse}
  BY ObjectAssumption
     DEF LoadAndAdd, KeyWhileRunning, FoundIsPublished, LeadersRegistered, Leading
<1>2. /\ Sound!Inv'
      /\ DOMAIN idx' \subseteq DOMAIN idx \cup {key[r]}
      /\ \A j \in DOMAIN idx' : IF j = key[r] /\ Object[key[r]] # ErrParse
                                 THEN idx'[j].m = Object[key[r]] ELSE idx'[j] = idx[j]
      /\ Object[key[r]] = ErrParse => idx' = idx
  <2>1. CASE Object[key[r]] # ErrParse
    BY <1>1, <2>1, CacheAdd DEF LoadAndAdd
  <2>2. CASE Object[key[r]] = ErrParse
    BY <2>2, CacheStays DEF LoadAndAdd, cacheVars
  <2> QED BY <2>1, <2>2
<1>3. /\ pc[r] = "loaded" /\ Returns(r, "return", Object[key[r]])
      /\ UNCHANGED <<calls, unchangedByCall>>
  BY DEF LoadAndAdd
<1>4. AnswersTrue'
  BY <1>1, <1>2, <1>3, DistinctAssumption
     DEF AnswersTrue, LoaderTypes, Returns, Goto, unchangedByCall, Errors
<1>5. ReadsMisses'
  <2> SUFFICES ASSUME NEW q \in Requests, pc'[q] \in Reading \cup {"loaded"}
               PROVE  key[q] \notin DOMAIN idx'
    BY <1>3 DEF ReadsMisses, unchangedByCall
  <2>1. q # r /\ pc[q] \in Reading \cup {"loaded"}
    BY <1>3 DEF Returns, Goto, LoaderTypes, Reading
  <2>2. key[q] # key[r]
    BY <1>1, <2>1 DEF LeadersRegistered, Leading, Reading
  <2> QED BY <1>2, <2>1, <2>2 DEF ReadsMisses
<1>6. LoaderTypes' /\ KeyWhileRunning' /\ AnswerOnReturn' /\ KnownIsPublished'
  BY <1>1, <1>3, DistinctAssumption
     DEF LoaderTypes, KeyWhileRunning, AnswerOnReturn, KnownIsPublished,
         Returns, Goto, unchangedByCall, Steps, Answers, Errors
<1>7. LeadersRegistered' /\ CallsLed' /\ WaitsOnACall' /\ FoundIsPublished'
  BY <1>1, <1>3
     DEF LoaderTypes, LeadersRegistered, CallsLed, WaitsOnACall, FoundIsPublished,
         Returns, Goto, unchangedByCall, Leading
<1>8. ASSUME NEW p \in Requests, pc'[p] = "return", answer'[p] = ErrNotExist
      PROVE  /\ p # r /\ pc[p] = "return" /\ answer[p] = ErrNotExist
             /\ key[p] # key[r]
  <2>1. p # r
    BY <1>1, <1>3, <1>8, DistinctAssumption DEF LoaderTypes, Returns, Errors
  <2>2. pc[p] = "return" /\ answer[p] = ErrNotExist
    BY <1>3, <1>8, <2>1 DEF LoaderTypes, Returns, Goto
  <2> QED BY <1>1, <2>1, <2>2 DEF LeadersRegistered, Leading
<1>9. LeaderIsCurrent'
  BY <1>3, <1>8 DEF LeaderIsCurrent, unchangedByCall
<1>10. AbsenceUncontradicted'
  <2> SUFFICES ASSUME NEW p \in Requests, NEW q \in Requests,
                      pc'[p] = "return", answer'[p] = ErrNotExist, key[q] = key[p]
               PROVE  /\ key[p] \notin DOMAIN idx'
                      /\ answer'[q] \notin Manifests
                      /\ q \in known => pc'[q] \in {"probe", "do", "wait"}
    BY <1>3 DEF AbsenceUncontradicted, unchangedByCall
  <2>1. q # r /\ key[p] # key[r] /\ pc[p] = "return" /\ answer[p] = ErrNotExist
    BY <1>8
  <2>2. pc'[q] = pc[q] /\ answer'[q] = answer[q]
    BY <1>3, <2>1 DEF LoaderTypes, Returns, Goto
  <2> QED BY <1>2, <2>1, <2>2 DEF AbsenceUncontradicted
<1> QED BY <1>2, <1>4, <1>5, <1>6, <1>7, <1>9, <1>10

(* singleflight.Do, second critical section: the waiters of the call have  *)
(* the leader's key, so its answer is true for them as well; the call goes *)
(* and leaves nobody waiting for it.                                       *)
LEMMA ReturnInv == ASSUME Inv, NEW r \in Requests, Return(r) PROVE Inv'
<1> USE DEF Inv, Protocol
<1> DEFINE callers == {r} \cup Waiters(r)
<1>1. /\ pc[r] = "return" /\ key[r] \in Keys /\ calls[key[r]] = r
      /\ answer[r] \in Answers
  BY DistinctAssumption
     DEF Return, KeyWhileRunning, LeadersRegistered, AnswerOnReturn, LoaderTypes, Leading
<1>2. /\ calls' = [calls EXCEPT ![key[r]] = None]
      /\ pc' = [w \in Requests |-> IF w \in callers THEN "answered" ELSE pc[w]]
      /\ answer' = [w \in Requests |-> IF w \in callers THEN answer[r] ELSE answer[w]]
      /\ UNCHANGED <<cacheVars, unchangedByCall>>
  BY DEF Return, Result
<1>3. /\ callers \subseteq Requests
      /\ \A w \in callers : key[w] = key[r] /\ pc[w] \in {"wait", "return"}
      /\ \A w \in Requests : pc[w] = "wait" /\ w \notin callers => key[w] # key[r]
  BY <1>1 DEF Waiters
<1> HIDE DEF callers
<1>4. ASSUME NEW q \in Requests, q \notin callers, pc[q] \in Leading
      PROVE  key[q] # key[r]
  <2>1. q # r
    BY <1>4 DEF callers
  <2> QED BY <1>1, <1>4, <2>1 DEF LeadersRegistered
<1>5. Sound!Inv'
  BY <1>2, CacheStays
<1>6. LoaderTypes' /\ KeyWhileRunning' /\ AnswerOnReturn'
  BY <1>1, <1>2, <1>3, DistinctAssumption
     DEF LoaderTypes, KeyWhileRunning, AnswerOnReturn, unchangedByCall, Steps, Answers
<1>7. LeadersRegistered'
  BY <1>2, <1>4 DEF LeadersRegistered, LoaderTypes, KeyWhileRunning, unchangedByCall, Leading
<1>8. CallsLed'
  BY <1>1, <1>2, <1>3 DEF CallsLed, LoaderTypes, unchangedByCall, Leading
<1>9. WaitsOnACall'
  BY <1>1, <1>2, <1>3 DEF WaitsOnACall, LoaderTypes, KeyWhileRunning, unchangedByCall
<1>10. AnswersTrue'
  BY <1>1, <1>2, <1>3 DEF AnswersTrue, unchangedByCall, cacheVars
<1>11. ReadsMisses' /\ FoundIsPublished' /\ KnownIsPublished'
  BY <1>2 DEF ReadsMisses, FoundIsPublished, KnownIsPublished, LoaderTypes,
              unchangedByCall, cacheVars, Reading
<1>12. ASSUME NEW p \in Requests, pc'[p] = "return"
       PROVE  p \notin callers /\ pc[p] = "return" /\ answer'[p] = answer[p] /\ key[p] # key[r]
  <2>1. p \notin callers /\ pc[p] = "return" /\ answer'[p] = answer[p]
    BY <1>2, <1>12
  <2> QED BY <1>4, <2>1 DEF Leading
<1>13. LeaderIsCurrent'
  BY <1>2, <1>12 DEF LeaderIsCurrent, unchangedByCall
<1>14. AbsenceUncontradicted'
  <2> SUFFICES ASSUME NEW p \in Requests, NEW q \in Requests,
                      pc'[p] = "return", answer'[p] = ErrNotExist, key[q] = key[p]
               PROVE  /\ key[p] \notin DOMAIN idx
                      /\ answer'[q] \notin Manifests
                      /\ q \in known => pc'[q] \in {"probe", "do", "wait"}
    BY <1>2 DEF AbsenceUncontradicted, unchangedByCall, cacheVars
  <2>1. q \notin callers /\ pc[p] = "return" /\ answer[p] = ErrNotExist
    BY <1>3, <1>12
  <2>2. pc'[q] = pc[q] /\ answer'[q] = answer[q]
    BY <1>2, <2>1
  <2> QED BY <2>1, <2>2 DEF AbsenceUncontradicted
<1> QED BY <1>5, <1>6, <1>7, <1>8, <1>9, <1>10, <1>11, <1>13, <1>14

(* Every step preserves the invariant. *)
LEMMA NextInv == Inv /\ [Next]_vars => Inv'
<1> SUFFICES ASSUME Inv, [Next]_vars PROVE Inv'
  OBVIOUS
<1>1. ASSUME NEW k \in Keys, Publish(k) PROVE Inv'
  <2>1. Sound!Inv'
    BY <1>1, CacheStays DEF Inv, Publish
  <2> QED BY <1>1, <2>1
    DEF Publish, Inv, Protocol, cacheVars, LoaderTypes, KeyWhileRunning, AnswerOnReturn,
        LeadersRegistered, CallsLed, WaitsOnACall, ReadsMisses, FoundIsPublished,
        KnownIsPublished, AnswersTrue, AbsenceUncontradicted, LeaderIsCurrent
<1>2. ASSUME NEW r \in Requests, NEW k \in Keys, Arrive(r, k) PROVE Inv'
  BY <1>2, EnvironmentInv
<1>3. ASSUME NEW r \in Requests, Disconnect(r) \/ DeadlineExpires(r) \/ Finish(r) PROVE Inv'
  BY <1>3, EnvironmentInv
<1>4. ASSUME NEW r \in Requests, Goroutine(r) PROVE Inv'
  BY <1>4, LookupInv, DoInv, LoadAndAddInv, ReturnInv DEF Goroutine
<1>5. ASSUME NEW r \in Requests, Store(r) \/ ReadAborted(r) PROVE Inv'
  BY <1>5, StoreInv
<1>6. ASSUME UNCHANGED vars PROVE Inv'
  <2>1. Sound!Inv'
    BY <1>6, CacheStays DEF Inv, vars, cacheVars
  <2> QED BY <1>6, <2>1
    DEF vars, Inv, Protocol, LoaderTypes, KeyWhileRunning, AnswerOnReturn,
        LeadersRegistered, CallsLed, WaitsOnACall, ReadsMisses, FoundIsPublished,
        KnownIsPublished, AnswersTrue, AbsenceUncontradicted, LeaderIsCurrent
<1> QED BY <1>1, <1>2, <1>3, <1>4, <1>5, <1>6 DEF Next

-----------------------------------------------------------------------------
(* The inductive invariant holds throughout (server.go:177-215). *)
THEOREM Invariance == Spec => []Inv
<1> QED BY InitInv, NextInv, PTL DEF Spec

(* The types of the cache and of every request's state; loadManifest       *)
(* returns a manifest or an error, never neither (server.go:177-215).      *)
THEOREM TypeCorrect == Spec => []TypeOK
<1>1. Inv => TypeOK
  BY DEF Inv, Protocol, LoaderTypes, AnswerOnReturn, TypeOK,
         Cache!TypeOK, Cache!Entry, Sound!Inv, Sound!TypeOK, Sound!Entry
<1> QED BY <1>1, Invariance, PTL

(* One store read per release and replica (server.go:182-187), however     *)
(* many requests miss it and whenever they did: what is being read is not  *)
(* cached, and one request reads it.                                       *)
THEOREM OneReadPerKeyAlways == Spec => []OneReadPerKey
<1>1. Inv => OneReadPerKey
  BY DEF Inv, Protocol, OneReadPerKey, ReadsMisses, LeadersRegistered, Reading, Leading
<1> QED BY <1>1, Invariance, PTL

(* Leaders, waiters and the cache hand out the manifest of the release     *)
(* that was asked for, and only if it is published (server.go:177-215).    *)
THEOREM AnswersAlwaysTrue == Spec => []AnswersTrue
<1>1. Inv => AnswersTrue
  BY DEF Inv, Protocol
<1> QED BY <1>1, Invariance, PTL

(* A release that anybody was served, or that was there when an answered   *)
(* request arrived, is not reported absent any more (server.go:182-208):   *)
(* singleflight lets at most one call be out of date.                      *)
THEOREM AbsenceNeverContradicted == Spec => []AbsenceUncontradicted
<1>1. Inv => AbsenceUncontradicted
  BY DEF Inv, Protocol
<1> QED BY <1>1, Invariance, PTL

(* A leader reports "release not found" (server.go:193-196) only of a      *)
(* release that was not there when its request arrived.                    *)
THEOREM LeaderAlwaysCurrent == Spec => []LeaderIsCurrent
<1>1. Inv => LeaderIsCurrent
  BY DEF Inv, Protocol
<1> QED BY <1>1, Invariance, PTL

(* A caller blocked in mfGroup.Do (server.go:182) has a leader of its key  *)
(* that is in the closure or about to return from it.                      *)
THEOREM WaitersAlwaysLed == Spec => []WaitersHaveALeader
<1>1. ASSUME Inv PROVE WaitersHaveALeader
  <2> SUFFICES ASSUME NEW w \in Requests, pc[w] = "wait"
               PROVE  \E r \in Requests :
                         calls[key[w]] = r /\ key[r] = key[w] /\ pc[r] \in Leading
    BY DEF WaitersHaveALeader
  <2>1. key[w] \in Keys /\ calls[key[w]] # None
    BY <1>1 DEF Inv, Protocol, KeyWhileRunning, WaitsOnACall
  <2>2. calls[key[w]] \in Requests
    BY <1>1, <2>1 DEF Inv, Protocol, LoaderTypes
  <2> QED BY <1>1, <2>1, <2>2 DEF Inv, Protocol, CallsLed
<1> QED BY <1>1, Invariance, PTL

=============================================================================
