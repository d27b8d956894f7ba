------------------------------- MODULE Metrics -------------------------------
(***************************************************************************)
(* Per-site metrics and their eviction (internal/metrics/metrics.go).      *)
(* Request goroutines count a request, and later the bytes they streamed,  *)
(* in the Prometheus series of their site; each count is followed by       *)
(* touch.  One evictor goroutine sweeps lastSeen and removes the series of *)
(* idle sites.  Nothing holds a lock across these steps: an access to a    *)
(* CounterVec, a counter, the sync.Map or one of its *atomic.Int64 is one  *)
(* step, and a goroutine that holds a counter or an entry the evictor has  *)
(* removed meanwhile goes on writing to an orphan.                         *)
(*                                                                         *)
(* Time is kept as ages, which stop growing where no comparison can tell   *)
(* them apart any more.  The value of the Requests counter is left out:    *)
(* only ResponseBytes is billed.  A value that is never looked at again is  *)
(* forgotten.                                                              *)
(***************************************************************************)
EXTENDS Integers, FiniteSets

CONSTANTS
    Sites,      \* siteKey values
    Workers,    \* request goroutines; a finished one is used again
    TTL,        \* METRICS_TTL, in ticks; 0 or less disables eviction
    Window,     \* the collector reads every series at least this often
    MaxSweep,   \* bound: ticks one sweep may take
    MaxStall,   \* bound: ticks between two steps of a counting call
    MaxBytes,   \* bound: value of a ResponseBytes counter
    None

ASSUME TimesAssumption ==
    /\ TTL \in Int /\ Window \in Nat \ {0} /\ {MaxSweep, MaxStall, MaxBytes} \subseteq Nat
    /\ TTL > 0 => Window + MaxStall <= TTL  \* "ttl must comfortably exceed [it]"
ASSUME NoneAssumption == None \notin Sites

VARIABLES
    requests,       \* the sites that have a Requests series
    responseBytes,  \* site -> value of its ResponseBytes series
    lastSeen,       \* site -> age of the time stored in its entry
    worker,         \* each request goroutine
    evictor,        \* the evictor goroutine
    sampled,        \* site -> the last value the collector read
    reset,          \* sites whose series was removed since then
    sampleAge,      \* age of the last reading
    raced,          \* history: sites where a count overlapped a removal
    dropped         \* history: sites that lost bytes no reading had seen

series == <<requests, responseBytes>>
collector == <<sampled, reset, sampleAge>>
vars == <<series, lastSeen, worker, evictor, collector, raced, dropped>>

MaxAge == IF TTL > 0 THEN TTL + MaxSweep + 1 ELSE MaxStall
Older(age) == IF age < MaxAge THEN age + 1 ELSE age

With(f, x, v) == [y \in DOMAIN f \cup {x} |-> IF y = x THEN v ELSE f[y]]
Without(f, x) == [y \in DOMAIN f \ {x} |-> f[y]]

(* next: what follows the counting call; live: the counter, or the         *)
(* lastSeen entry, it holds has not been removed; stamp: age of the time n *)
(* it has read in touch, before that, of the call.                         *)
Idle == [pc |-> "idle", site |-> None, next |-> "serving", live |-> TRUE, stamp |-> 0]
Serving(s) == [Idle EXCEPT !.pc = "serving", !.site = s, !.next = "idle"]

(* todo: sites lastSeen.Range has not come to yet; victim: the one being   *)
(* removed; age: of the time cutoff was computed from.                     *)
Asleep == [pc |-> "asleep", todo |-> {}, victim |-> None, age |-> 0]

Init ==
    /\ requests = {}
    /\ responseBytes = [s \in {} |-> 0]
    /\ lastSeen = [s \in {} |-> 0]
    /\ worker = [w \in Workers |-> Idle]
    /\ evictor = Asleep
    /\ sampled = [s \in Sites |-> 0]
    /\ reset = {}
    /\ sampleAge = 0
    /\ raced = {}
    /\ dropped = {}

(* A worker is inside ObserveRequest or AddResponseBytes. *)
Counting(w) == worker[w].pc \notin {"idle", "serving"}
CountingOf(s) == {w \in Workers : worker[w].site = s /\ Counting(w)}

(* A worker enters a counting call for s while s is being removed. *)
MarkRace(s) == raced' = IF evictor.victim = s THEN raced \cup {s} ELSE raced

(* The worker w goes on as v. *)
Becomes(w, v) == worker' = [worker EXCEPT ![w] = v]

-----------------------------------------------------------------------------
(* The request goroutines. *)

(* ObserveRequest: Requests.WithLabelValues(...).Inc() *)
ObserveRequest(w, s) ==
    /\ worker[w].pc = "idle"
    /\ requests' = requests \cup {s}
    /\ Becomes(w, [Idle EXCEPT !.pc = "load", !.site = s])
    /\ MarkRace(s)
    /\ UNCHANGED <<responseBytes, lastSeen, evictor, collector, dropped>>

(* AddResponseBytes: ResponseBytes.WithLabelValues(...) *)
AddResponseBytes(w) ==
    LET s == worker[w].site IN
    /\ worker[w].pc = "serving"
    /\ s \in DOMAIN responseBytes => responseBytes[s] < MaxBytes
    /\ responseBytes' =
         IF s \in DOMAIN responseBytes THEN responseBytes ELSE With(responseBytes, s, 0)
    /\ Becomes(w, [worker[w] EXCEPT !.pc = "add"])
    /\ MarkRace(s)
    /\ UNCHANGED <<requests, lastSeen, evictor, collector, dropped>>

(* AddResponseBytes with n <= 0 (HEAD, 304, an error): nothing is counted. *)
NoBytes(w) ==
    /\ worker[w].pc = "serving"
    /\ Becomes(w, Idle)
    /\ UNCHANGED <<series, lastSeen, evictor, collector, raced, dropped>>

(* Fault: AddResponseBytes does not touch the site. *)
FaultNoTouch(w) == Idle

(* touch(project, name) follows. *)
Touch(w) == [worker[w] EXCEPT !.pc = "load", !.live = TRUE]

(* .Add(float64(n)) on the counter WithLabelValues returned. *)
Add(w, n) ==
    LET s == worker[w].site IN
    /\ worker[w].pc = "add"
    /\ \/ /\ worker[w].live
          /\ responseBytes[s] + n <= MaxBytes
          /\ responseBytes' = [responseBytes EXCEPT ![s] = @ + n]
          /\ UNCHANGED dropped
       \/ /\ ~ worker[w].live
          /\ dropped' = dropped \cup {s}
          /\ UNCHANGED responseBytes
    /\ Becomes(w, Touch(w))
    /\ UNCHANGED <<requests, lastSeen, evictor, collector, raced>>

(* touch: n := now(), then lastSeen.Load(k). *)
Load(w) ==
    /\ worker[w].pc = "load"
    /\ Becomes(w, [worker[w] EXCEPT
         !.pc = IF worker[w].site \in DOMAIN lastSeen THEN "store" ELSE "loadOrStore",
         !.stamp = 0])
    /\ UNCHANGED <<series, lastSeen, evictor, collector, raced, dropped>>

(* touch is over: the handler goes on to serve, or the request ends. *)
Touched(w) == IF worker[w].next = "serving" THEN Serving(worker[w].site) ELSE Idle

(* lastSeen.LoadOrStore(k, ts) *)
LoadOrStore(w) ==
    LET s == worker[w].site IN
    /\ worker[w].pc = "loadOrStore"
    /\ \/ /\ s \notin DOMAIN lastSeen
          /\ lastSeen' = With(lastSeen, s, worker[w].stamp)
          /\ Becomes(w, Touched(w))
       \/ /\ s \in DOMAIN lastSeen
          /\ Becomes(w, [worker[w] EXCEPT !.pc = "store"])
          /\ UNCHANGED lastSeen
    /\ UNCHANGED <<series, evictor, collector, raced, dropped>>

(* Fault: touch stores the time at which the site will be idle. *)
FaultExpiry(w) == worker[w].stamp - TTL

(* n *)
Stamp(w) == worker[w].stamp

(* .Store(n) on the entry Load or LoadOrStore returned. *)
Store(w) ==
    /\ worker[w].pc = "store"
    /\ lastSeen' = IF worker[w].live
                   THEN [lastSeen EXCEPT ![worker[w].site] = Stamp(w)] ELSE lastSeen
    /\ Becomes(w, Touched(w))
    /\ UNCHANGED <<series, evictor, collector, raced, dropped>>

-----------------------------------------------------------------------------
(* The evictor goroutine. *)

(* Fault: the guard of StartEvictor is the wrong way round. *)
FaultDisabled == TTL <= 0

(* StartEvictor starts the goroutine unless ttl <= 0. *)
EvictorRuns == TTL > 0

(* The ticker fires; evictIdle: cutoff := now().Add(-ttl). *)
StartSweep ==
    /\ EvictorRuns
    /\ evictor.pc = "asleep"
    /\ evictor' = [Asleep EXCEPT !.pc = "range", !.todo = Sites]
    /\ UNCHANGED <<series, lastSeen, worker, collector, raced, dropped>>

(* value.Load() < cutoff *)
IsIdle(s) == lastSeen[s] > TTL + evictor.age

(* Range comes to s, whose entry says that s is idle. *)
Visit(s) ==
    /\ evictor.pc = "range"
    /\ s \in evictor.todo \cap DOMAIN lastSeen
    /\ IsIdle(s)
    /\ evictor' = [evictor EXCEPT !.pc = "requests", !.victim = s, !.todo = @ \ {s}]
    /\ raced' = IF CountingOf(s) # {} THEN raced \cup {s} ELSE raced
    /\ UNCHANGED <<series, lastSeen, worker, collector, dropped>>

(* Range passes s: no entry, or a recent one. *)
Pass(s) ==
    /\ evictor.pc = "range"
    /\ s \in evictor.todo
    /\ s \in DOMAIN lastSeen => ~ IsIdle(s)
    /\ evictor' = [evictor EXCEPT !.todo = @ \ {s}]
    /\ UNCHANGED <<series, lastSeen, worker, collector, raced, dropped>>

(* Requests.DeleteLabelValues *)
DeleteRequests ==
    /\ evictor.pc = "requests"
    /\ requests' = requests \ {evictor.victim}
    /\ evictor' = [evictor EXCEPT !.pc = "bytes"]
    /\ UNCHANGED <<responseBytes, lastSeen, worker, collector, raced, dropped>>

(* Those that hold what is removed from under them at step at. *)
Orphaned(at) == [w \in Workers |->
    IF worker[w].site = evictor.victim /\ worker[w].pc = at
    THEN [worker[w] EXCEPT !.live = FALSE] ELSE worker[w]]

(* Fault: only the Requests series is removed. *)
FaultKeepResponseBytes ==
    /\ evictor.pc = "bytes"
    /\ evictor' = [evictor EXCEPT !.pc = "entry"]
    /\ UNCHANGED <<series, lastSeen, worker, collector, raced, dropped>>

(* ResponseBytes.DeleteLabelValues *)
DeleteResponseBytes ==
    LET s == evictor.victim
        read == IF s \in reset THEN 0 ELSE sampled[s]
        unread == s \in DOMAIN responseBytes /\ responseBytes[s] # read IN
    /\ evictor.pc = "bytes"
    /\ responseBytes' = Without(responseBytes, s)
    /\ worker' = Orphaned("add")
    /\ dropped' = IF unread THEN dropped \cup {s} ELSE dropped
    /\ reset' = reset \cup {s}
    /\ evictor' = [evictor EXCEPT !.pc = "entry"]
    /\ UNCHANGED <<requests, lastSeen, sampled, sampleAge, raced>>

(* lastSeen.Delete *)
DeleteEntry ==
    /\ evictor.pc = "entry"
    /\ lastSeen' = Without(lastSeen, evictor.victim)
    /\ worker' = Orphaned("store")
    /\ evictor' = [evictor EXCEPT !.pc = "range", !.victim = None]
    /\ UNCHANGED <<series, collector, raced, dropped>>

EndSweep ==
    /\ evictor.pc = "range"
    /\ evictor.todo = {}
    /\ evictor' = Asleep
    /\ UNCHANGED <<series, lastSeen, worker, collector, raced, dropped>>

-----------------------------------------------------------------------------
(* The collector and the clock. *)

(* The collector reads every ResponseBytes series there is. *)
Scrape ==
    /\ sampled' = [s \in Sites |->
         IF s \in DOMAIN responseBytes THEN responseBytes[s] ELSE sampled[s]]
    /\ reset' = reset \ DOMAIN responseBytes
    /\ sampleAge' = 0
    /\ UNCHANGED <<series, lastSeen, worker, evictor, raced, dropped>>

(* Time passes; the guards are the bounds Window, MaxSweep and MaxStall. *)
Tick ==
    /\ sampleAge < Window
    /\ evictor.pc # "asleep" => evictor.age < MaxSweep
    /\ \A w \in Workers : Counting(w) => worker[w].stamp < MaxStall
    /\ lastSeen' = [s \in DOMAIN lastSeen |-> Older(lastSeen[s])]
    /\ worker' = [w \in Workers |->
         IF Counting(w) THEN [worker[w] EXCEPT !.stamp = @ + 1] ELSE worker[w]]
    /\ evictor' = IF evictor.pc = "asleep" THEN evictor ELSE [evictor EXCEPT !.age = @ + 1]
    /\ sampleAge' = sampleAge + 1
    /\ UNCHANGED <<series, sampled, reset, raced, dropped>>

-----------------------------------------------------------------------------
Count(w) ==
    \/ \E n \in 1..MaxBytes : Add(w, n)
    \/ Load(w) \/ LoadOrStore(w) \/ Store(w)

evictIdle ==
    \/ \E s \in Sites : Visit(s) \/ Pass(s)
    \/ DeleteRequests \/ DeleteResponseBytes \/ DeleteEntry \/ EndSweep

Next ==
    \/ \E w \in Workers :
        \/ \E s \in Sites : ObserveRequest(w, s)
        \/ AddResponseBytes(w)
        \/ NoBytes(w)
        \/ Count(w)
    \/ StartSweep
    \/ evictIdle
    \/ Scrape
    \/ Tick

Spec == Init /\ [][Next]_vars

(* Go runs the goroutines, the ticker fires, the collector comes and time  *)
(* passes.  Whether requests come is up to the clients.                    *)
FairSpec ==
    /\ Spec
    /\ WF_vars(StartSweep) /\ WF_vars(evictIdle)
    /\ WF_vars(Scrape) /\ WF_vars(Tick)
    /\ \A w \in Workers : WF_vars(Count(w))

-----------------------------------------------------------------------------
(* The types of the shared state and of the goroutines' local state. *)
TypeOK ==
    /\ requests \subseteq Sites
    /\ DOMAIN responseBytes \subseteq Sites
    /\ \A s \in DOMAIN responseBytes : responseBytes[s] \in 0..MaxBytes
    /\ DOMAIN lastSeen \subseteq Sites
    /\ \A s \in DOMAIN lastSeen : lastSeen[s] \in 0..MaxAge
    /\ worker \in [Workers ->
         [pc : {"idle", "load", "loadOrStore", "store", "serving", "add"},
          site : Sites \cup {None}, next : {"serving", "idle"},
          live : BOOLEAN, stamp : 0..MaxStall]]
    /\ evictor \in [pc : {"asleep", "range", "requests", "bytes", "entry"},
                    todo : SUBSET Sites, victim : Sites \cup {None}, age : 0..MaxSweep]
    /\ sampled \in [Sites -> 0..MaxBytes]
    /\ sampleAge \in 0..Window
    /\ reset \cup raced \cup dropped \subseteq Sites

HasSeries(s) == s \in requests \cup DOMAIN responseBytes
NoTraffic(s) == \A w \in Workers : worker[w].site # s

(* Outside the counting calls and the removal of a site, its series and    *)
(* its lastSeen entry exist together, so that the evictor finds every      *)
(* series - for sites where no count has overlapped a removal.             *)
SeriesTrackedUnlessRaced == \A s \in Sites :
    s \notin raced /\ CountingOf(s) = {} /\ evictor.victim # s /\ HasSeries(s)
        => s \in DOMAIN lastSeen

(* "a site with same-day billable bytes is never evicted before            *)
(* increase(...[1d]) reads them" (metrics.go:104-106) - for sites where no *)
(* count has overlapped a removal, and even if touches of concurrent       *)
(* requests store their times in the wrong order.                          *)
BytesReadUnlessRaced == dropped \subseteq raced

(* A site that serves no more requests loses its series for good, if no    *)
(* count has overlapped a removal.                                         *)
IdleSitesEvictedUnlessRaced == \A s \in Sites :
    <>[](NoTraffic(s) /\ s \notin raced) => <>[](~ HasSeries(s))

(* "a background sweep that drops the Prometheus label sets of sites idle  *)
(* longer than ttl, bounding the gateway's metric cardinality"             *)
(* (metrics.go:98-99), of every site.                                      *)
IdleSitesEvicted == \A s \in Sites :
    <>[](NoTraffic(s)) => <>[](~ HasSeries(s))

(* "a site with same-day billable bytes is never evicted before            *)
(* increase(...[1d]) reads them" (metrics.go:104-106), of every site.      *)
BytesRead == dropped = {}

(* "a spurious reset [...] is absorbed by increase()'s counter-reset       *)
(* handling" (metrics.go:107-108): increase() takes a value smaller than   *)
(* the one before it for a reset, so whenever the collector may come, a    *)
(* series that was removed and is back reads less than it did.             *)
ResetsAbsorbed == \A s \in reset \cap DOMAIN responseBytes :
    sampled[s] > 0 => responseBytes[s] < sampled[s]

==============================================================================
