---------------------------- MODULE MetricsProofs ----------------------------
(***************************************************************************)
(* What the metrics promise of sites where no count overlaps a removal,    *)
(* for any number of sites and request goroutines, every TTL and window,   *)
(* and however long sweeps and counting calls stall within their bounds.   *)
(***************************************************************************)
EXTENDS Metrics, TLAPS

-----------------------------------------------------------------------------
(* The inductive invariant. *)

(* A request that is under way has a site. *)
SitesNamed == \A w \in Workers : worker[w].pc # "idle" => worker[w].site \in Sites

(* The evictor has a victim while it removes one, and never runs if the    *)
(* TTL disables it.                                                        *)
Removing == evictor.pc \in {"requests", "bytes", "entry"}
VictimWhileRemoving == evictor.victim # None <=> Removing
RunsIfEnabled == evictor.pc # "asleep" => TTL > 0

(* A counter, or an entry, that is held and not removed is there. *)
LiveIsThere == \A w \in Workers : worker[w].live =>
    /\ worker[w].pc = "add" => worker[w].site \in DOMAIN responseBytes
    /\ worker[w].pc = "store" => worker[w].site \in DOMAIN lastSeen

(* Every overlap of a count and a removal is recorded, so that only sites  *)
(* with one have orphans.                                                  *)
OverlapIsRaced == \A w \in Workers :
    Counting(w) /\ worker[w].site = evictor.victim => worker[w].site \in raced
OrphanIsRaced == \A w \in Workers : ~ worker[w].live =>
    worker[w].site \in raced /\ worker[w].pc \in {"add", "store"}

(* An unraced victim stays idle until it is gone, and its series go before *)
(* its entry.                                                              *)
VictimStaysIdle == Removing /\ evictor.victim \notin raced =>
    /\ evictor.victim \in DOMAIN lastSeen /\ lastSeen[evictor.victim] > TTL
    /\ evictor.pc # "requests" => evictor.victim \notin requests
    /\ evictor.pc = "entry" => evictor.victim \notin DOMAIN responseBytes

(* A removed series is a reset, until it is read anew. *)
SampledOrReset == \A s \in Sites :
    s \notin DOMAIN responseBytes /\ s \notin reset => sampled[s] = 0

(* Bytes no reading has seen are recent: they are still being counted, or  *)
(* the entry of their site is no older than the last reading and a stall.  *)
Unread(s) ==
    /\ s \in DOMAIN responseBytes
    /\ responseBytes[s] # IF s \in reset THEN 0 ELSE sampled[s]
UnreadIsRecent == \A s \in Sites : Unread(s) /\ s \notin raced =>
    \/ CountingOf(s) # {}
    \/ s \in DOMAIN lastSeen /\ lastSeen[s] <= sampleAge + MaxStall

Inv ==
    /\ TypeOK /\ SitesNamed /\ VictimWhileRemoving /\ RunsIfEnabled
    /\ LiveIsThere /\ OverlapIsRaced /\ OrphanIsRaced
    /\ VictimStaysIdle /\ SampledOrReset /\ UnreadIsRecent
    /\ SeriesTrackedUnlessRaced /\ BytesReadUnlessRaced

-----------------------------------------------------------------------------
(* The types of the two kinds of goroutines. *)
WorkerState ==
    [pc : {"idle", "load", "loadOrStore", "store", "serving", "add"},
     site : Sites \cup {None}, next : {"serving", "idle"},
     live : BOOLEAN, stamp : 0..MaxStall]
EvictorState ==
    [pc : {"asleep", "range", "requests", "bytes", "entry"},
     todo : SUBSET Sites, victim : Sites \cup {None}, age : 0..MaxSweep]

(* The bounds are numbers, and an age of a stall is a possible age. *)
LEMMA Bounds ==
    /\ TTL \in Int /\ Window \in Nat /\ MaxSweep \in Nat /\ MaxStall \in Nat
    /\ MaxBytes \in Nat /\ MaxAge \in Nat /\ MaxStall <= MaxAge
    /\ TTL > 0 => TTL < MaxAge /\ Window + MaxStall <= TTL
<1>1. /\ TTL \in Int /\ Window \in Nat /\ MaxSweep \in Nat /\ MaxStall \in Nat
      /\ MaxBytes \in Nat
  BY TimesAssumption
<1> QED BY <1>1, TimesAssumption DEF MaxAge

(* The steps of one request goroutine. *)
LEMMA BecomesState ==
    ASSUME TypeOK, NEW w \in Workers, NEW v \in WorkerState, Becomes(w, v)
    PROVE  /\ worker' \in [Workers -> WorkerState]
           /\ worker'[w] = v
           /\ \A x \in Workers : x # w => worker'[x] = worker[x]
BY DEF TypeOK, WorkerState, Becomes

(* What the counting calls make of a request goroutine. *)
LEMMA IdleState ==
    /\ Idle \in WorkerState
    /\ Idle.pc = "idle" /\ Idle.site = None /\ Idle.live = TRUE
BY Bounds DEF Idle, WorkerState

(* On entry to ObserveRequest, before the first Load. *)
LEMMA ObservingState ==
    ASSUME NEW s \in Sites
    PROVE  LET v == [Idle EXCEPT !.pc = "load", !.site = s]
           IN  v \in WorkerState /\ v.pc = "load" /\ v.site = s /\ v.live = TRUE
BY IdleState DEF WorkerState

(* Once the request is counted. *)
LEMMA ServingState ==
    ASSUME NEW s \in Sites
    PROVE  Serving(s) \in WorkerState /\ Serving(s).pc = "serving"
           /\ Serving(s).site = s /\ Serving(s).live = TRUE
BY IdleState DEF Serving, WorkerState

(* On entry to touch. *)
LEMMA TouchState ==
    ASSUME NEW w, worker[w] \in WorkerState
    PROVE  Touch(w) \in WorkerState /\ Touch(w).pc = "load"
           /\ Touch(w).site = worker[w].site /\ Touch(w).live = TRUE
BY DEF Touch, WorkerState

(* On return from touch. *)
LEMMA TouchedState ==
    ASSUME NEW w, worker[w] \in WorkerState, worker[w].site \in Sites
    PROVE  /\ Touched(w) \in WorkerState /\ Touched(w).pc \in {"idle", "serving"}
           /\ Touched(w).pc # "idle" => Touched(w).site = worker[w].site
           /\ Touched(w).live = TRUE
BY IdleState, ServingState DEF Touched

(* Moving on within touch or an observation. *)
LEMMA SteppedState ==
    ASSUME NEW u \in WorkerState,
           NEW p \in {"idle", "load", "loadOrStore", "store", "serving", "add"}
    PROVE  LET v == [u EXCEPT !.pc = p]
           IN  v \in WorkerState /\ v.pc = p /\ v.site = u.site /\ v.live = u.live
BY DEF WorkerState

(* Reading the clock in touch. *)
LEMMA ClockedState ==
    ASSUME NEW u \in WorkerState, NEW p \in {"loadOrStore", "store"}
    PROVE  LET v == [u EXCEPT !.pc = p, !.stamp = 0]
           IN  v \in WorkerState /\ v.pc = p /\ v.site = u.site /\ v.live = u.live
<1>1. u.stamp \in Nat /\ 0 \in 0..MaxStall
  BY Bounds DEF WorkerState
<1> QED BY <1>1 DEF WorkerState

-----------------------------------------------------------------------------
(* A request is counted: its site gets a Requests series. *)
LEMMA ObserveRequestInv ==
    ASSUME Inv, NEW w \in Workers, NEW s \in Sites, ObserveRequest(w, s) PROVE Inv'
<1> DEFINE v == [Idle EXCEPT !.pc = "load", !.site = s]
<1> USE Bounds DEF Inv, Counting, CountingOf, Removing
<1>1. v \in WorkerState /\ v.pc = "load" /\ v.site = s /\ v.live = TRUE
  BY ObservingState
<1>2. /\ worker[w].pc = "idle" /\ Becomes(w, v) /\ MarkRace(s)
      /\ requests' = requests \cup {s}
      /\ UNCHANGED <<responseBytes, lastSeen, evictor, sampled, reset, sampleAge, dropped>>
  BY DEF ObserveRequest, collector
<1> HIDE DEF v
<1>3. /\ worker' \in [Workers -> WorkerState]
      /\ worker'[w] = v
      /\ \A x \in Workers : x # w => worker'[x] = worker[x]
  BY <1>1, <1>2, BecomesState
<1>4. raced \subseteq raced' /\ raced' \subseteq Sites /\ (evictor.victim = s => s \in raced')
  BY <1>2 DEF MarkRace, TypeOK
<1>5. TypeOK'
  BY <1>2, <1>3, <1>4 DEF TypeOK, WorkerState
<1>6. SitesNamed' /\ LiveIsThere' /\ OverlapIsRaced' /\ OrphanIsRaced'
  BY <1>1, <1>2, <1>3, <1>4 DEF SitesNamed, LiveIsThere, OverlapIsRaced, OrphanIsRaced
<1>7. VictimWhileRemoving' /\ RunsIfEnabled' /\ VictimStaysIdle' /\ SampledOrReset'
  BY <1>2, <1>4 DEF VictimWhileRemoving, RunsIfEnabled, VictimStaysIdle, SampledOrReset
<1>8. UnreadIsRecent'
  BY <1>1, <1>2, <1>3, <1>4 DEF UnreadIsRecent, Unread
<1>9. SeriesTrackedUnlessRaced' /\ BytesReadUnlessRaced'
  BY <1>1, <1>2, <1>3, <1>4 DEF SeriesTrackedUnlessRaced, BytesReadUnlessRaced, HasSeries
<1> QED BY <1>5, <1>6, <1>7, <1>8, <1>9

(* AddResponseBytes gets the counter, which is there afterwards. *)
LEMMA AddResponseBytesInv ==
    ASSUME Inv, NEW w \in Workers, AddResponseBytes(w) PROVE Inv'
<1> DEFINE s == worker[w].site
           v == [worker[w] EXCEPT !.pc = "add"]
<1> USE Bounds DEF Inv, Counting, CountingOf, Removing
<1>1. v \in WorkerState /\ v.pc = "add" /\ v.site = s /\ v.live = worker[w].live
  BY SteppedState DEF TypeOK, WorkerState
<1>2. /\ worker[w].pc = "serving" /\ Becomes(w, v) /\ MarkRace(s)
      /\ responseBytes' = IF s \in DOMAIN responseBytes THEN responseBytes
                          ELSE With(responseBytes, s, 0)
      /\ UNCHANGED <<requests, lastSeen, evictor, sampled, reset, sampleAge, dropped>>
  BY DEF AddResponseBytes, collector
<1>3. s \in Sites
  BY <1>2 DEF SitesNamed
<1> HIDE DEF v, s
<1>4. /\ worker' \in [Workers -> WorkerState]
      /\ worker'[w] = v
      /\ \A x \in Workers : x # w => worker'[x] = worker[x]
  BY <1>1, <1>2, BecomesState
<1>5. raced \subseteq raced' /\ raced' \subseteq Sites /\ (evictor.victim = s => s \in raced')
  BY <1>2, <1>3 DEF MarkRace, TypeOK
<1>6. /\ DOMAIN responseBytes' = DOMAIN responseBytes \cup {s}
      /\ \A x \in DOMAIN responseBytes : responseBytes'[x] = responseBytes[x]
      /\ s \notin DOMAIN responseBytes => responseBytes'[s] = 0
  BY <1>2 DEF With
<1>7. TypeOK'
  <2>1. \A x \in DOMAIN responseBytes' : responseBytes'[x] \in 0..MaxBytes
    BY <1>6 DEF TypeOK
  <2> QED BY <1>2, <1>3, <1>4, <1>5, <1>6, <2>1 DEF TypeOK, WorkerState
<1>8. SitesNamed' /\ LiveIsThere' /\ OverlapIsRaced' /\ OrphanIsRaced'
  <2>1. worker[w].site = s
    BY DEF s
  <2> QED BY <1>1, <1>2, <1>3, <1>4, <1>5, <1>6, <2>1
       DEF SitesNamed, LiveIsThere, OverlapIsRaced, OrphanIsRaced
<1>9. VictimWhileRemoving' /\ RunsIfEnabled' /\ VictimStaysIdle' /\ SampledOrReset'
  BY <1>2, <1>5, <1>6 DEF VictimWhileRemoving, RunsIfEnabled, VictimStaysIdle, SampledOrReset
<1>10. UnreadIsRecent'
  <2>1. \A x \in Sites : x = s => CountingOf(x)' # {}
    BY <1>1, <1>4
  <2>2. ASSUME NEW x \in Sites, x # s PROVE CountingOf(x) \subseteq CountingOf(x)'
    BY <1>1, <1>2, <1>4, <2>2
  <2>3. \A x \in Sites : Unread(x)' /\ x # s => Unread(x)
    BY <1>2, <1>6 DEF Unread
  <2> HIDE DEF CountingOf
  <2> QED BY <1>2, <1>5, <2>1, <2>2, <2>3 DEF UnreadIsRecent
<1>11. SeriesTrackedUnlessRaced' /\ BytesReadUnlessRaced'
  BY <1>1, <1>2, <1>4, <1>5, <1>6
  DEF SeriesTrackedUnlessRaced, BytesReadUnlessRaced, HasSeries
<1> QED BY <1>7, <1>8, <1>9, <1>10, <1>11

(* No bytes, no count. *)
LEMMA NoBytesInv ==
    ASSUME Inv, NEW w \in Workers, NoBytes(w) PROVE Inv'
<1> USE Bounds DEF Inv, Counting, CountingOf, Removing
<1>1. /\ worker[w].pc = "serving" /\ Becomes(w, Idle)
      /\ UNCHANGED <<requests, responseBytes, lastSeen, evictor, sampled, reset,
                     sampleAge, raced, dropped>>
  BY DEF NoBytes, series, collector
<1>2. /\ worker' \in [Workers -> WorkerState]
      /\ worker'[w] = Idle
      /\ \A x \in Workers : x # w => worker'[x] = worker[x]
  BY <1>1, IdleState, BecomesState
<1>3. TypeOK'
  BY <1>1, <1>2 DEF TypeOK, WorkerState
<1>4. SitesNamed' /\ LiveIsThere' /\ OverlapIsRaced' /\ OrphanIsRaced'
  BY <1>1, <1>2, IdleState DEF SitesNamed, LiveIsThere, OverlapIsRaced, OrphanIsRaced
<1>5. VictimWhileRemoving' /\ RunsIfEnabled' /\ VictimStaysIdle' /\ SampledOrReset'
  BY <1>1 DEF VictimWhileRemoving, RunsIfEnabled, VictimStaysIdle, SampledOrReset
<1>6. \A x \in Sites : CountingOf(x)' = CountingOf(x)
  BY <1>1, <1>2, IdleState
<1>7. UnreadIsRecent' /\ SeriesTrackedUnlessRaced' /\ BytesReadUnlessRaced'
  BY <1>1, <1>6
  DEF UnreadIsRecent, Unread, SeriesTrackedUnlessRaced, BytesReadUnlessRaced, HasSeries
<1> QED BY <1>3, <1>4, <1>5, <1>7

(* Bytes are added to the counter, or to one that is gone. *)
LEMMA AddCountInv ==
    ASSUME Inv, NEW w \in Workers, NEW n \in 1..MaxBytes, Add(w, n) PROVE Inv'
<1> DEFINE s == worker[w].site
<1> USE Bounds DEF Inv, Counting, CountingOf, Removing
<1>1. /\ worker[w].pc = "add" /\ Becomes(w, Touch(w))
      /\ \/ /\ worker[w].live
            /\ responseBytes[s] + n <= MaxBytes
            /\ responseBytes' = [responseBytes EXCEPT ![s] = @ + n]
            /\ UNCHANGED dropped
         \/ /\ ~ worker[w].live
            /\ dropped' = dropped \cup {s}
            /\ UNCHANGED responseBytes
      /\ UNCHANGED <<requests, lastSeen, evictor, sampled, reset, sampleAge, raced>>
  BY DEF Add, collector
<1>2. s \in Sites /\ worker[w] \in WorkerState
  BY <1>1 DEF SitesNamed, TypeOK, WorkerState
<1>3. Touch(w) \in WorkerState /\ Touch(w).pc = "load" /\ Touch(w).site = s
      /\ Touch(w).live = TRUE
  BY <1>2, TouchState
<1>4. /\ worker' \in [Workers -> WorkerState]
      /\ worker'[w] = Touch(w)
      /\ \A x \in Workers : x # w => worker'[x] = worker[x]
  BY <1>1, <1>3, BecomesState
<1>5. \A x \in Sites : CountingOf(x)' = CountingOf(x)
  BY <1>1, <1>3, <1>4
<1>6. /\ DOMAIN responseBytes' = DOMAIN responseBytes
      /\ \A x \in DOMAIN responseBytes :
           /\ x # s => responseBytes'[x] = responseBytes[x]
           /\ responseBytes'[x] \in 0..MaxBytes
  <2>1. CASE worker[w].live
    <3>1. s \in DOMAIN responseBytes /\ responseBytes[s] \in 0..MaxBytes
      BY <1>1, <2>1 DEF LiveIsThere, TypeOK
    <3>2. responseBytes' = [responseBytes EXCEPT ![s] = responseBytes[s] + n]
          /\ responseBytes[s] + n \in 0..MaxBytes
      BY <1>1, <2>1, <3>1
    <3> HIDE DEF s
    <3> QED BY <3>1, <3>2 DEF TypeOK
  <2>2. CASE ~ worker[w].live
    BY <1>1, <2>2 DEF TypeOK
  <2> QED BY <2>1, <2>2
<1>7. dropped' \subseteq raced
  BY <1>1 DEF OrphanIsRaced, BytesReadUnlessRaced
<1>8. w \in CountingOf(s)
  BY <1>1
<1> HIDE DEF s
<1>9. TypeOK'
  BY <1>1, <1>4, <1>6, <1>7 DEF TypeOK, WorkerState
<1>10. SitesNamed' /\ LiveIsThere' /\ OverlapIsRaced' /\ OrphanIsRaced'
  BY <1>1, <1>2, <1>3, <1>4, <1>6 DEF SitesNamed, LiveIsThere, OverlapIsRaced, OrphanIsRaced, s
<1>11. VictimWhileRemoving' /\ RunsIfEnabled' /\ VictimStaysIdle' /\ SampledOrReset'
  BY <1>1, <1>6 DEF VictimWhileRemoving, RunsIfEnabled, VictimStaysIdle, SampledOrReset
<1>12. UnreadIsRecent'
  <2>1. \A x \in Sites : Unread(x)' /\ x # s => Unread(x)
    BY <1>1, <1>6 DEF Unread
  <2> HIDE DEF CountingOf
  <2> QED BY <1>1, <1>5, <1>8, <2>1 DEF UnreadIsRecent
<1>13. SeriesTrackedUnlessRaced' /\ BytesReadUnlessRaced'
  <2> HIDE DEF CountingOf
  <2> QED BY <1>1, <1>5, <1>6, <1>7 DEF SeriesTrackedUnlessRaced, BytesReadUnlessRaced, HasSeries
<1> QED BY <1>9, <1>10, <1>11, <1>12, <1>13

(* touch has found the entry, or not, and goes on. *)
LEMMA SeekInv ==
    ASSUME Inv, NEW w \in Workers, NEW v \in WorkerState,
           worker[w].pc \in {"load", "loadOrStore"},
           v.site = worker[w].site, v.live = worker[w].live,
           v.pc = IF worker[w].site \in DOMAIN lastSeen THEN "store" ELSE "loadOrStore",
           Becomes(w, v),
           UNCHANGED <<series, lastSeen, evictor, collector, raced, dropped>>
    PROVE  Inv'
<1> USE Bounds DEF Inv, Counting, CountingOf, Removing
<1>1. UNCHANGED <<requests, responseBytes, lastSeen, evictor, sampled, reset,
                  sampleAge, raced, dropped>>
  BY DEF series, collector
<1>2. /\ worker' \in [Workers -> WorkerState]
      /\ worker'[w] = v
      /\ \A x \in Workers : x # w => worker'[x] = worker[x]
  BY BecomesState
<1>3. TypeOK'
  BY <1>1, <1>2 DEF TypeOK, WorkerState
<1>4. SitesNamed' /\ LiveIsThere' /\ OverlapIsRaced' /\ OrphanIsRaced'
  BY <1>1, <1>2 DEF SitesNamed, LiveIsThere, OverlapIsRaced, OrphanIsRaced
<1>5. VictimWhileRemoving' /\ RunsIfEnabled' /\ VictimStaysIdle' /\ SampledOrReset'
  BY <1>1 DEF VictimWhileRemoving, RunsIfEnabled, VictimStaysIdle, SampledOrReset
<1>6. \A x \in Sites : CountingOf(x)' = CountingOf(x)
  BY <1>1, <1>2
<1>7. UnreadIsRecent' /\ SeriesTrackedUnlessRaced' /\ BytesReadUnlessRaced'
  <2> HIDE DEF CountingOf
  <2> QED BY <1>1, <1>6
       DEF UnreadIsRecent, Unread, SeriesTrackedUnlessRaced, BytesReadUnlessRaced, HasSeries
<1> QED BY <1>3, <1>4, <1>5, <1>7

(* touch reads the clock and looks for the entry. *)
LEMMA LoadInv ==
    ASSUME Inv, NEW w \in Workers, Load(w) PROVE Inv'
<1> DEFINE p == IF worker[w].site \in DOMAIN lastSeen THEN "store" ELSE "loadOrStore"
           v == [worker[w] EXCEPT !.pc = p, !.stamp = 0]
<1>1. /\ worker[w].pc = "load" /\ Becomes(w, v)
      /\ UNCHANGED <<series, lastSeen, evictor, collector, raced, dropped>>
  BY DEF Load
<1>2. worker[w] \in WorkerState /\ p \in {"store", "loadOrStore"}
  BY DEF Inv, TypeOK, WorkerState
<1>3. /\ v \in WorkerState /\ v.pc = p
      /\ v.site = worker[w].site /\ v.live = worker[w].live
  <2> HIDE DEF p
  <2> QED BY <1>2, ClockedState
<1> HIDE DEF v
<1> QED BY <1>1, <1>3, SeekInv

(* touch is over: the site has an entry, no older than a stall, unless it  *)
(* was removed meanwhile.                                                  *)
LEMMA TouchedInv ==
    ASSUME Inv, NEW w \in Workers, worker[w].pc \in {"loadOrStore", "store"},
           Becomes(w, Touched(w)),
           DOMAIN lastSeen' = DOMAIN lastSeen
             \cup (IF worker[w].live THEN {worker[w].site} ELSE {}),
           \A x \in DOMAIN lastSeen :
             ~ worker[w].live \/ x # worker[w].site => lastSeen'[x] = lastSeen[x],
           worker[w].live => lastSeen'[worker[w].site] = worker[w].stamp,
           UNCHANGED <<series, evictor, collector, raced, dropped>>
    PROVE  Inv'
<1> USE Bounds DEF Inv, Counting, CountingOf, Removing
<1>1. UNCHANGED <<requests, responseBytes, evictor, sampled, reset, sampleAge,
                  raced, dropped>>
  BY DEF series, collector
<1>2. worker[w].site \in Sites /\ worker[w] \in WorkerState
      /\ worker[w].stamp \in 0..MaxStall
  BY DEF SitesNamed, TypeOK, WorkerState
<1>3. /\ Touched(w) \in WorkerState /\ Touched(w).pc \in {"idle", "serving"}
      /\ Touched(w).pc # "idle" => Touched(w).site = worker[w].site
      /\ Touched(w).live = TRUE
  BY <1>2, TouchedState
<1>4. /\ worker' \in [Workers -> WorkerState]
      /\ worker'[w] = Touched(w)
      /\ \A x \in Workers : x # w => worker'[x] = worker[x]
  BY <1>3, BecomesState
<1>5. TypeOK'
  <2>1. DOMAIN lastSeen' \subseteq Sites
    BY <1>2 DEF TypeOK
  <2>2. \A x \in DOMAIN lastSeen' : lastSeen'[x] \in 0..MaxAge
    BY <1>2 DEF TypeOK
  <2> QED BY <1>1, <1>4, <2>1, <2>2 DEF TypeOK, WorkerState
<1>6. SitesNamed' /\ LiveIsThere' /\ OverlapIsRaced' /\ OrphanIsRaced'
  BY <1>1, <1>2, <1>3, <1>4 DEF SitesNamed, LiveIsThere, OverlapIsRaced, OrphanIsRaced
<1>7. VictimWhileRemoving' /\ RunsIfEnabled' /\ SampledOrReset'
  BY <1>1 DEF VictimWhileRemoving, RunsIfEnabled, SampledOrReset
<1>8. VictimStaysIdle'
  <2>1. evictor.victim \notin raced => evictor.victim # worker[w].site
    BY DEF OverlapIsRaced
  <2> QED BY <1>1, <2>1 DEF VictimStaysIdle
<1>9. ASSUME NEW x \in Sites, x # worker[w].site PROVE CountingOf(x)' = CountingOf(x)
  BY <1>3, <1>4, <1>9
<1>10. worker[w].site \notin raced => worker[w].live
  BY DEF OrphanIsRaced
<1>11. UnreadIsRecent'
  <2>1. sampleAge \in Nat
    BY DEF TypeOK
  <2>2. ASSUME NEW x \in Sites, x = worker[w].site, x \notin raced
        PROVE  x \in DOMAIN lastSeen' /\ lastSeen'[x] <= sampleAge + MaxStall
    BY <1>2, <1>10, <2>1, <2>2
  <2>3. \A x \in Sites : Unread(x)' => Unread(x)
    BY <1>1 DEF Unread
  <2> HIDE DEF CountingOf
  <2> QED BY <1>1, <1>9, <2>2, <2>3 DEF UnreadIsRecent
<1>12. SeriesTrackedUnlessRaced' /\ BytesReadUnlessRaced'
  <2> HIDE DEF CountingOf
  <2> QED BY <1>1, <1>9, <1>10 DEF SeriesTrackedUnlessRaced, BytesReadUnlessRaced, HasSeries
<1> QED BY <1>5, <1>6, <1>7, <1>8, <1>11, <1>12

(* touch without an entry: it is stored, or another request was faster. *)
LEMMA LoadOrStoreInv ==
    ASSUME Inv, NEW w \in Workers, LoadOrStore(w) PROVE Inv'
<1> DEFINE s == worker[w].site
<1>1. worker[w].pc = "loadOrStore" /\ worker[w] \in WorkerState /\ worker[w].live
  BY DEF LoadOrStore, Inv, TypeOK, WorkerState, OrphanIsRaced
<1>2. UNCHANGED <<series, evictor, collector, raced, dropped>>
  BY DEF LoadOrStore
<1>3. CASE s \notin DOMAIN lastSeen
  <2>1. lastSeen' = With(lastSeen, s, worker[w].stamp) /\ Becomes(w, Touched(w))
    BY <1>3 DEF LoadOrStore
  <2>2. /\ DOMAIN lastSeen' = DOMAIN lastSeen \cup {s}
        /\ \A x \in DOMAIN lastSeen : lastSeen'[x] = lastSeen[x]
        /\ lastSeen'[s] = worker[w].stamp
    BY <1>3, <2>1 DEF With
  <2> QED BY <1>1, <1>2, <2>1, <2>2, TouchedInv
<1>4. CASE s \in DOMAIN lastSeen
  <2> DEFINE v == [worker[w] EXCEPT !.pc = "store"]
  <2>1. Becomes(w, v) /\ lastSeen' = lastSeen
    BY <1>4 DEF LoadOrStore
  <2>2. v \in WorkerState /\ v.pc = "store" /\ v.site = s /\ v.live = worker[w].live
    BY <1>1, SteppedState
  <2> HIDE DEF v
  <2> QED BY <1>1, <1>2, <1>4, <2>1, <2>2, SeekInv
<1> QED BY <1>3, <1>4

(* touch with an entry. *)
LEMMA StoreInv ==
    ASSUME Inv, NEW w \in Workers, Store(w) PROVE Inv'
<1>1. /\ worker[w].pc = "store" /\ Becomes(w, Touched(w))
      /\ lastSeen' = IF worker[w].live
                     THEN [lastSeen EXCEPT ![worker[w].site] = worker[w].stamp]
                     ELSE lastSeen
      /\ UNCHANGED <<series, evictor, collector, raced, dropped>>
  BY DEF Store, Stamp
<1>2. worker[w].live => worker[w].site \in DOMAIN lastSeen
  BY <1>1 DEF Inv, LiveIsThere
<1>3. /\ DOMAIN lastSeen' = DOMAIN lastSeen
           \cup (IF worker[w].live THEN {worker[w].site} ELSE {})
      /\ \A x \in DOMAIN lastSeen :
           ~ worker[w].live \/ x # worker[w].site => lastSeen'[x] = lastSeen[x]
      /\ worker[w].live => lastSeen'[worker[w].site] = worker[w].stamp
  <2>1. CASE worker[w].live
    BY <1>1, <1>2, <2>1
  <2>2. CASE ~ worker[w].live
    BY <1>1, <2>2
  <2> QED BY <2>1, <2>2
<1> QED BY <1>1, <1>3, TouchedInv

-----------------------------------------------------------------------------
(* What the steps of a sweep make of the evictor. *)
LEMMA AsleepState ==
    Asleep \in EvictorState /\ Asleep.pc = "asleep" /\ Asleep.victim = None
BY Bounds DEF Asleep, EvictorState

(* At the start of a sweep. *)
LEMMA SweepState ==
    LET e == [Asleep EXCEPT !.pc = "range", !.todo = Sites]
    IN  e \in EvictorState /\ e.pc = "range" /\ e.victim = None
BY AsleepState DEF EvictorState

(* On reaching an idle site. *)
LEMMA VisitState ==
    ASSUME NEW e \in EvictorState, NEW s \in Sites
    PROVE  LET f == [e EXCEPT !.pc = "requests", !.victim = s, !.todo = @ \ {s}]
           IN  f \in EvictorState /\ f.pc = "requests" /\ f.victim = s
BY DEF EvictorState

(* On passing a site that is not idle. *)
LEMMA PassState ==
    ASSUME NEW e \in EvictorState, NEW s
    PROVE  LET f == [e EXCEPT !.todo = @ \ {s}]
           IN  f \in EvictorState /\ f.pc = e.pc /\ f.victim = e.victim
BY DEF EvictorState

(* Between the removals of a site's series. *)
LEMMA RemovalState ==
    ASSUME NEW e \in EvictorState, NEW p \in {"bytes", "entry"}
    PROVE  LET f == [e EXCEPT !.pc = p]
           IN  f \in EvictorState /\ f.pc = p /\ f.victim = e.victim
BY DEF EvictorState

(* Once the site is forgotten. *)
LEMMA RemovedState ==
    ASSUME NEW e \in EvictorState
    PROVE  LET f == [e EXCEPT !.pc = "range", !.victim = None]
           IN  f \in EvictorState /\ f.pc = "range" /\ f.victim = None
BY DEF EvictorState

(* A sweep begins, passes a site or ends: the evictor has no victim. *)
LEMMA SweepInv ==
    ASSUME Inv, ~ Removing, evictor' \in EvictorState,
           evictor'.pc \in {"asleep", "range"}, evictor'.victim = None,
           evictor'.pc = "range" => TTL > 0,
           UNCHANGED <<series, lastSeen, worker, collector, raced, dropped>>
    PROVE  Inv'
<1> USE DEF Inv, Counting, CountingOf, Removing
<1>1. UNCHANGED <<requests, responseBytes, lastSeen, worker, sampled, reset,
                  sampleAge, raced, dropped>>
  BY DEF series, collector
<1>2. evictor.victim = None
  BY DEF VictimWhileRemoving
<1>3. TypeOK'
  BY <1>1 DEF TypeOK, EvictorState
<1>4. SitesNamed' /\ LiveIsThere' /\ OrphanIsRaced'
  BY <1>1 DEF SitesNamed, LiveIsThere, OrphanIsRaced
<1>5. OverlapIsRaced'
  BY <1>1, NoneAssumption DEF OverlapIsRaced, SitesNamed
<1>6. VictimWhileRemoving' /\ RunsIfEnabled' /\ VictimStaysIdle' /\ SampledOrReset'
  BY <1>1 DEF VictimWhileRemoving, RunsIfEnabled, VictimStaysIdle, SampledOrReset
<1>7. \A x \in Sites : CountingOf(x)' = CountingOf(x)
  BY <1>1
<1>8. UnreadIsRecent' /\ SeriesTrackedUnlessRaced' /\ BytesReadUnlessRaced'
  <2> HIDE DEF CountingOf
  <2> QED BY <1>1, <1>2, <1>7, NoneAssumption
       DEF UnreadIsRecent, Unread, SeriesTrackedUnlessRaced, BytesReadUnlessRaced, HasSeries
<1> QED BY <1>3, <1>4, <1>5, <1>6, <1>8

(* The start of a sweep keeps the invariant. *)
LEMMA StartSweepInv == ASSUME Inv, StartSweep PROVE Inv'
<1> DEFINE e == [Asleep EXCEPT !.pc = "range", !.todo = Sites]
<1>1. /\ TTL > 0 /\ evictor.pc = "asleep" /\ evictor' = e
      /\ UNCHANGED <<series, lastSeen, worker, collector, raced, dropped>>
  BY DEF StartSweep, EvictorRuns
<1>2. e \in EvictorState /\ e.pc = "range" /\ e.victim = None
  BY SweepState
<1> HIDE DEF e
<1>3. ~ Removing
  BY <1>1 DEF Removing
<1> QED BY <1>1, <1>2, <1>3, SweepInv

(* So does passing a site. *)
LEMMA PassInv == ASSUME Inv, NEW s \in Sites, Pass(s) PROVE Inv'
<1> DEFINE e == [evictor EXCEPT !.todo = @ \ {s}]
<1>1. /\ evictor.pc = "range" /\ evictor' = e
      /\ UNCHANGED <<series, lastSeen, worker, collector, raced, dropped>>
  BY DEF Pass
<1>2. evictor \in EvictorState /\ evictor.victim = None /\ TTL > 0
  BY <1>1 DEF Inv, TypeOK, EvictorState, VictimWhileRemoving, RunsIfEnabled, Removing
<1>3. e \in EvictorState /\ e.pc = "range" /\ e.victim = None
  BY <1>1, <1>2, PassState
<1> HIDE DEF e
<1>4. ~ Removing
  BY <1>1 DEF Removing
<1> QED BY <1>1, <1>2, <1>3, <1>4, SweepInv

(* So does the end of a sweep. *)
LEMMA EndSweepInv == ASSUME Inv, EndSweep PROVE Inv'
<1>1. /\ evictor.pc = "range" /\ evictor' = Asleep
      /\ UNCHANGED <<series, lastSeen, worker, collector, raced, dropped>>
  BY DEF EndSweep
<1>2. ~ Removing
  BY <1>1 DEF Removing
<1> QED BY <1>1, <1>2, AsleepState, SweepInv

(* The removal of an idle site begins: a count that is under way is an     *)
(* overlap.                                                                *)
LEMMA VisitInv == ASSUME Inv, NEW s \in Sites, Visit(s) PROVE Inv'
<1> DEFINE e == [evictor EXCEPT !.pc = "requests", !.victim = s, !.todo = @ \ {s}]
<1>1. /\ evictor.pc = "range" /\ evictor' = e
      /\ s \in DOMAIN lastSeen /\ lastSeen[s] > TTL + evictor.age
      /\ raced' = IF CountingOf(s) # {} THEN raced \cup {s} ELSE raced
      /\ UNCHANGED <<requests, responseBytes, lastSeen, worker, sampled, reset,
                     sampleAge, dropped>>
  BY DEF Visit, IsIdle, series, collector
<1>2. /\ evictor \in EvictorState /\ evictor.age \in Nat /\ TTL > 0 /\ TTL \in Int
      /\ lastSeen[s] \in Int
  BY <1>1, Bounds DEF Inv, TypeOK, EvictorState, RunsIfEnabled
<1>3. e \in EvictorState /\ e.pc = "requests" /\ e.victim = s
  BY <1>2, VisitState
<1> HIDE DEF e
<1> USE DEF Inv, Counting, Removing
<1>4. raced \subseteq raced' /\ raced' \subseteq Sites
  BY <1>1 DEF TypeOK
<1>5. \A w \in Workers : Counting(w) /\ worker[w].site = s => s \in raced'
  BY <1>1 DEF CountingOf
<1>6. TypeOK'
  BY <1>1, <1>3, <1>4 DEF TypeOK, EvictorState
<1>7. SitesNamed' /\ LiveIsThere' /\ OrphanIsRaced' /\ OverlapIsRaced'
  BY <1>1, <1>3, <1>4, <1>5 DEF SitesNamed, LiveIsThere, OrphanIsRaced, OverlapIsRaced
<1>8. VictimWhileRemoving' /\ RunsIfEnabled' /\ SampledOrReset'
  BY <1>1, <1>2, <1>3, NoneAssumption DEF VictimWhileRemoving, RunsIfEnabled, SampledOrReset
<1>9. VictimStaysIdle'
  BY <1>1, <1>2, <1>3 DEF VictimStaysIdle
<1>10. \A x \in Sites : CountingOf(x)' = CountingOf(x)
  BY <1>1 DEF CountingOf
<1>11. evictor.victim = None
  BY <1>1 DEF VictimWhileRemoving
<1>12. UnreadIsRecent' /\ SeriesTrackedUnlessRaced' /\ BytesReadUnlessRaced'
  BY <1>1, <1>3, <1>4, <1>10, <1>11, NoneAssumption
  DEF UnreadIsRecent, Unread, SeriesTrackedUnlessRaced, BytesReadUnlessRaced, HasSeries
<1> QED BY <1>6, <1>7, <1>8, <1>9, <1>12

(* The removal of a victim's Requests series keeps the invariant. *)
LEMMA DeleteRequestsInv == ASSUME Inv, DeleteRequests PROVE Inv'
<1> DEFINE e == [evictor EXCEPT !.pc = "bytes"]
<1>1. /\ evictor.pc = "requests" /\ evictor' = e
      /\ requests' = requests \ {evictor.victim}
      /\ UNCHANGED <<responseBytes, lastSeen, worker, sampled, reset, sampleAge,
                     raced, dropped>>
  BY DEF DeleteRequests, collector
<1>2. evictor \in EvictorState
  BY DEF Inv, TypeOK, EvictorState
<1>3. e \in EvictorState /\ e.pc = "bytes" /\ e.victim = evictor.victim
  BY <1>2, RemovalState
<1> HIDE DEF e
<1> USE DEF Inv, Counting, Removing
<1>4. TypeOK'
  BY <1>1, <1>3 DEF TypeOK, EvictorState
<1>5. SitesNamed' /\ LiveIsThere' /\ OrphanIsRaced' /\ OverlapIsRaced'
  BY <1>1, <1>3 DEF SitesNamed, LiveIsThere, OrphanIsRaced, OverlapIsRaced
<1>6. VictimWhileRemoving' /\ RunsIfEnabled' /\ VictimStaysIdle' /\ SampledOrReset'
  BY <1>1, <1>3 DEF VictimWhileRemoving, RunsIfEnabled, VictimStaysIdle, SampledOrReset
<1>7. \A x \in Sites : CountingOf(x)' = CountingOf(x)
  BY <1>1 DEF CountingOf
<1>8. UnreadIsRecent' /\ SeriesTrackedUnlessRaced' /\ BytesReadUnlessRaced'
  BY <1>1, <1>3, <1>7
  DEF UnreadIsRecent, Unread, SeriesTrackedUnlessRaced, BytesReadUnlessRaced, HasSeries
<1> QED BY <1>4, <1>5, <1>6, <1>8

(* Those that are orphaned keep their place and their site. *)
LEMMA OrphanedState ==
    ASSUME TypeOK, NEW at, worker' = Orphaned(at)
    PROVE  /\ worker' \in [Workers -> WorkerState]
           /\ \A w \in Workers :
                /\ worker'[w].pc = worker[w].pc /\ worker'[w].site = worker[w].site
                /\ worker'[w].live = IF worker[w].site = evictor.victim /\ worker[w].pc = at
                                     THEN FALSE ELSE worker[w].live
<1>1. ASSUME NEW w \in Workers PROVE worker[w] \in WorkerState
  BY DEF TypeOK, WorkerState
<1>2. ASSUME NEW u \in WorkerState
      PROVE  LET v == [u EXCEPT !.live = FALSE]
             IN  v \in WorkerState /\ v.pc = u.pc /\ v.site = u.site /\ v.live = FALSE
  BY DEF WorkerState
<1>3. ASSUME NEW w \in Workers
      PROVE  /\ worker'[w] \in WorkerState
             /\ worker'[w].pc = worker[w].pc /\ worker'[w].site = worker[w].site
             /\ worker'[w].live = IF worker[w].site = evictor.victim /\ worker[w].pc = at
                                  THEN FALSE ELSE worker[w].live
  <2>1. CASE worker[w].site = evictor.victim /\ worker[w].pc = at
    <3>1. worker'[w] = [worker[w] EXCEPT !.live = FALSE]
      BY <2>1 DEF Orphaned
    <3> QED BY <1>1, <1>2, <2>1, <3>1
  <2>2. CASE ~ (worker[w].site = evictor.victim /\ worker[w].pc = at)
    <3>1. worker'[w] = worker[w]
      BY <2>2 DEF Orphaned
    <3> QED BY <1>1, <2>2, <3>1
  <2> QED BY <2>1, <2>2
<1>4. worker' \in [Workers -> WorkerState]
  BY <1>3 DEF Orphaned
<1> QED BY <1>3, <1>4

(* The ResponseBytes series of an unraced victim has been read to its last *)
(* byte: nobody counts, its entry is older than the TTL, so its last count *)
(* is older than the window, and the collector has come since.             *)
LEMMA DeleteResponseBytesInv == ASSUME Inv, DeleteResponseBytes PROVE Inv'
<1> DEFINE s == evictor.victim
           e == [evictor EXCEPT !.pc = "entry"]
<1>1. /\ evictor.pc = "bytes" /\ evictor' = e
      /\ responseBytes' = Without(responseBytes, s)
      /\ worker' = Orphaned("add")
      /\ dropped' = IF Unread(s) THEN dropped \cup {s} ELSE dropped
      /\ reset' = reset \cup {s}
      /\ UNCHANGED <<requests, lastSeen, sampled, sampleAge, raced>>
  BY DEF DeleteResponseBytes, Unread
<1>2. evictor \in EvictorState /\ TypeOK
  BY DEF Inv, TypeOK, EvictorState
<1>3. e \in EvictorState /\ e.pc = "entry" /\ e.victim = s
  BY <1>2, RemovalState
<1>4. /\ worker' \in [Workers -> WorkerState]
      /\ \A w \in Workers :
           /\ worker'[w].pc = worker[w].pc /\ worker'[w].site = worker[w].site
           /\ worker'[w].live = IF worker[w].site = s /\ worker[w].pc = "add"
                                THEN FALSE ELSE worker[w].live
  BY <1>1, <1>2, OrphanedState
<1>5. s \in Sites /\ TTL > 0
  BY <1>1, <1>2 DEF Inv, VictimWhileRemoving, Removing, RunsIfEnabled, EvictorState
<1>6. /\ DOMAIN responseBytes' = DOMAIN responseBytes \ {s}
      /\ \A x \in DOMAIN responseBytes' : responseBytes'[x] = responseBytes[x]
  BY <1>1 DEF Without
<1> USE DEF Inv, Counting, Removing
<1>7. Unread(s) => s \in raced
  <2> SUFFICES ASSUME Unread(s), s \notin raced PROVE FALSE
    OBVIOUS
  <2>1. CountingOf(s) = {}
    BY DEF OverlapIsRaced, CountingOf
  <2>2. s \in DOMAIN lastSeen /\ lastSeen[s] <= sampleAge + MaxStall
    BY <1>5, <2>1 DEF UnreadIsRecent
  <2>3. lastSeen[s] > TTL
    BY <1>1 DEF VictimStaysIdle
  <2>4. /\ sampleAge \in Nat /\ sampleAge <= Window /\ lastSeen[s] \in Nat
        /\ Window \in Nat /\ MaxStall \in Nat /\ TTL \in Int /\ Window + MaxStall <= TTL
    BY <1>5, <2>2, Bounds DEF TypeOK
  <2> QED BY <2>2, <2>3, <2>4
<1>8. dropped' \subseteq raced
  BY <1>1, <1>7 DEF BytesReadUnlessRaced
<1> HIDE DEF e, s
<1>9. TypeOK'
  BY <1>1, <1>3, <1>4, <1>5, <1>6, <1>8 DEF TypeOK, WorkerState, EvictorState
<1>10. SitesNamed' /\ LiveIsThere' /\ OverlapIsRaced' /\ OrphanIsRaced'
  BY <1>1, <1>3, <1>4, <1>6 DEF SitesNamed, LiveIsThere, OverlapIsRaced, OrphanIsRaced, s
<1>11. VictimWhileRemoving' /\ RunsIfEnabled' /\ VictimStaysIdle' /\ SampledOrReset'
  BY <1>1, <1>3, <1>6
  DEF VictimWhileRemoving, RunsIfEnabled, VictimStaysIdle, SampledOrReset, s
<1>12. \A x \in Sites : CountingOf(x)' = CountingOf(x)
  BY <1>4 DEF CountingOf
<1>13. \A x \in Sites : Unread(x)' => Unread(x)
  BY <1>1, <1>6 DEF Unread
<1>14. UnreadIsRecent'
  BY <1>1, <1>12, <1>13 DEF UnreadIsRecent
<1>15. SeriesTrackedUnlessRaced' /\ BytesReadUnlessRaced'
  BY <1>1, <1>3, <1>6, <1>8, <1>12
  DEF SeriesTrackedUnlessRaced, BytesReadUnlessRaced, HasSeries, s
<1> QED BY <1>9, <1>10, <1>11, <1>14, <1>15

(* An unraced victim has no series left when its entry goes. *)
LEMMA DeleteEntryInv == ASSUME Inv, DeleteEntry PROVE Inv'
<1> DEFINE s == evictor.victim
           e == [evictor EXCEPT !.pc = "range", !.victim = None]
<1>1. /\ evictor.pc = "entry" /\ evictor' = e
      /\ lastSeen' = Without(lastSeen, s)
      /\ worker' = Orphaned("store")
      /\ UNCHANGED <<requests, responseBytes, sampled, reset, sampleAge, raced, dropped>>
  BY DEF DeleteEntry, series, collector
<1>2. evictor \in EvictorState /\ TypeOK
  BY DEF Inv, TypeOK, EvictorState
<1>3. e \in EvictorState /\ e.pc = "range" /\ e.victim = None
  BY <1>2, RemovedState
<1>4. /\ worker' \in [Workers -> WorkerState]
      /\ \A w \in Workers :
           /\ worker'[w].pc = worker[w].pc /\ worker'[w].site = worker[w].site
           /\ worker'[w].live = IF worker[w].site = s /\ worker[w].pc = "store"
                                THEN FALSE ELSE worker[w].live
  BY <1>1, <1>2, OrphanedState
<1>5. s \in Sites /\ TTL > 0
  BY <1>1, <1>2 DEF Inv, VictimWhileRemoving, Removing, RunsIfEnabled, EvictorState
<1>6. /\ DOMAIN lastSeen' = DOMAIN lastSeen \ {s}
      /\ \A x \in DOMAIN lastSeen' : lastSeen'[x] = lastSeen[x]
  BY <1>1 DEF Without
<1> USE DEF Inv, Counting, Removing
<1>7. s \notin raced => s \notin requests /\ s \notin DOMAIN responseBytes
  BY <1>1 DEF VictimStaysIdle
<1> HIDE DEF e, s
<1>8. TypeOK'
  BY <1>1, <1>3, <1>4, <1>6 DEF TypeOK, WorkerState, EvictorState
<1>9. SitesNamed' /\ LiveIsThere' /\ OrphanIsRaced'
  BY <1>1, <1>4, <1>6 DEF SitesNamed, LiveIsThere, OrphanIsRaced, OverlapIsRaced, s
<1>10. OverlapIsRaced'
  <2>1. SitesNamed'
    BY <1>9
  <2> QED BY <1>1, <1>3, <2>1, NoneAssumption DEF SitesNamed, OverlapIsRaced
<1>11. VictimWhileRemoving' /\ RunsIfEnabled' /\ VictimStaysIdle' /\ SampledOrReset'
  BY <1>1, <1>3, <1>5 DEF VictimWhileRemoving, RunsIfEnabled, VictimStaysIdle, SampledOrReset
<1>12. \A x \in Sites : CountingOf(x)' = CountingOf(x)
  BY <1>4 DEF CountingOf
<1>13. UnreadIsRecent'
  BY <1>1, <1>6, <1>7, <1>12 DEF UnreadIsRecent, Unread
<1>14. SeriesTrackedUnlessRaced' /\ BytesReadUnlessRaced'
  BY <1>1, <1>3, <1>6, <1>7, <1>12
  DEF SeriesTrackedUnlessRaced, BytesReadUnlessRaced, HasSeries, s
<1> QED BY <1>8, <1>9, <1>10, <1>11, <1>13, <1>14

-----------------------------------------------------------------------------
(* After a reading nothing is unread. *)
LEMMA ScrapeInv == ASSUME Inv, Scrape PROVE Inv'
<1>1. /\ sampled' = [s \in Sites |->
           IF s \in DOMAIN responseBytes THEN responseBytes[s] ELSE sampled[s]]
      /\ reset' = reset \ DOMAIN responseBytes
      /\ sampleAge' = 0
      /\ UNCHANGED <<requests, responseBytes, lastSeen, worker, evictor, raced, dropped>>
  BY DEF Scrape, series
<1> USE DEF Inv, Counting, Removing
<1>2. TypeOK'
  <2>1. sampled' \in [Sites -> 0..MaxBytes]
    BY <1>1 DEF TypeOK
  <2>2. sampleAge' \in 0..Window
    BY <1>1, Bounds
  <2> QED BY <1>1, <2>1, <2>2 DEF TypeOK
<1>3. SitesNamed' /\ LiveIsThere' /\ OrphanIsRaced' /\ OverlapIsRaced'
  BY <1>1 DEF SitesNamed, LiveIsThere, OrphanIsRaced, OverlapIsRaced
<1>4. VictimWhileRemoving' /\ RunsIfEnabled' /\ VictimStaysIdle' /\ SampledOrReset'
  BY <1>1 DEF VictimWhileRemoving, RunsIfEnabled, VictimStaysIdle, SampledOrReset
<1>5. UnreadIsRecent'
  <2>1. \A s \in Sites : ~ Unread(s)'
    BY <1>1 DEF Unread
  <2> QED BY <2>1 DEF UnreadIsRecent
<1>6. SeriesTrackedUnlessRaced' /\ BytesReadUnlessRaced'
  BY <1>1 DEF SeriesTrackedUnlessRaced, BytesReadUnlessRaced, HasSeries, CountingOf
<1> QED BY <1>2, <1>3, <1>4, <1>5, <1>6

(* All ages grow together, so that recent stays recent. *)
LEMMA TickInv == ASSUME Inv, Tick PROVE Inv'
<1>1. /\ sampleAge < Window
      /\ evictor.pc # "asleep" => evictor.age < MaxSweep
      /\ \A w \in Workers : Counting(w) => worker[w].stamp < MaxStall
      /\ lastSeen' = [s \in DOMAIN lastSeen |-> Older(lastSeen[s])]
      /\ worker' = [w \in Workers |->
           IF Counting(w) THEN [worker[w] EXCEPT !.stamp = @ + 1] ELSE worker[w]]
      /\ evictor' = IF evictor.pc = "asleep" THEN evictor
                    ELSE [evictor EXCEPT !.age = @ + 1]
      /\ sampleAge' = sampleAge + 1
      /\ UNCHANGED <<requests, responseBytes, sampled, reset, raced, dropped>>
  BY DEF Tick, series
<1>2. ASSUME NEW w \in Workers
      PROVE  /\ worker'[w] \in WorkerState /\ worker'[w].pc = worker[w].pc
             /\ worker'[w].site = worker[w].site /\ worker'[w].live = worker[w].live
  <2>1. worker[w] \in WorkerState
    BY DEF Inv, TypeOK, WorkerState
  <2>2. CASE Counting(w)
    <3>1. worker'[w] = [worker[w] EXCEPT !.stamp = worker[w].stamp + 1]
      BY <1>1, <2>2
    <3>2. worker[w].stamp \in 0..MaxStall /\ worker[w].stamp < MaxStall
      BY <1>1, <2>1, <2>2 DEF WorkerState
    <3>3. worker[w].stamp + 1 \in 0..MaxStall
      BY <3>2, Bounds
    <3>4. ASSUME NEW u \in WorkerState, NEW n \in 0..MaxStall
          PROVE  LET v == [u EXCEPT !.stamp = n]
                 IN  v \in WorkerState /\ v.pc = u.pc /\ v.site = u.site /\ v.live = u.live
      BY DEF WorkerState
    <3> QED BY <2>1, <3>1, <3>3, <3>4
  <2>3. CASE ~ Counting(w)
    BY <1>1, <2>1, <2>3
  <2> QED BY <2>2, <2>3
<1>3. worker' \in [Workers -> WorkerState]
  BY <1>1, <1>2
<1>4. evictor' \in EvictorState /\ evictor'.pc = evictor.pc /\ evictor'.victim = evictor.victim
  <2>1. evictor \in EvictorState /\ evictor.age \in 0..MaxSweep
    BY DEF Inv, TypeOK, EvictorState
  <2>2. CASE evictor.pc # "asleep"
    <3>1. evictor' = [evictor EXCEPT !.age = evictor.age + 1]
      BY <1>1, <2>2
    <3>2. evictor.age + 1 \in 0..MaxSweep
      BY <1>1, <2>1, <2>2, Bounds
    <3>3. ASSUME NEW e \in EvictorState, NEW n \in 0..MaxSweep
          PROVE  LET f == [e EXCEPT !.age = n]
                 IN  f \in EvictorState /\ f.pc = e.pc /\ f.victim = e.victim
      BY DEF EvictorState
    <3> QED BY <2>1, <3>1, <3>2, <3>3
  <2> QED BY <1>1, <2>1, <2>2
<1>5. /\ DOMAIN lastSeen' = DOMAIN lastSeen
      /\ \A s \in DOMAIN lastSeen :
           /\ lastSeen'[s] \in 0..MaxAge
           /\ lastSeen'[s] <= lastSeen[s] + 1
           /\ lastSeen[s] > TTL => lastSeen'[s] > TTL
  <2>1. \A s \in DOMAIN lastSeen : lastSeen[s] \in 0..MaxAge
    BY DEF Inv, TypeOK
  <2> QED BY <1>1, <2>1, Bounds DEF Older
<1>6. sampleAge \in Nat /\ sampleAge' \in 0..Window
  BY <1>1, Bounds DEF Inv, TypeOK
<1> USE DEF Inv, Counting, Removing
<1>7. TypeOK'
  BY <1>1, <1>3, <1>4, <1>5, <1>6 DEF TypeOK, WorkerState, EvictorState
<1>8. SitesNamed' /\ LiveIsThere' /\ OrphanIsRaced' /\ OverlapIsRaced'
  <2>1. UNCHANGED <<responseBytes, raced>>
    BY <1>1
  <2> QED BY <1>2, <1>4, <1>5, <2>1 DEF SitesNamed, LiveIsThere, OrphanIsRaced, OverlapIsRaced
<1>9. VictimWhileRemoving' /\ RunsIfEnabled' /\ VictimStaysIdle' /\ SampledOrReset'
  BY <1>1, <1>4, <1>5 DEF VictimWhileRemoving, RunsIfEnabled, VictimStaysIdle, SampledOrReset
<1>10. \A s \in Sites : CountingOf(s)' = CountingOf(s)
  BY <1>2 DEF CountingOf
<1>11. UnreadIsRecent'
  <2>1. \A s \in Sites : Unread(s)' => Unread(s)
    BY <1>1 DEF Unread
  <2>2. ASSUME NEW s \in DOMAIN lastSeen, lastSeen[s] <= sampleAge + MaxStall
        PROVE  lastSeen'[s] <= sampleAge' + MaxStall
    BY <1>1, <1>5, <1>6, <2>2, Bounds DEF TypeOK
  <2> QED BY <1>1, <1>5, <1>10, <2>1, <2>2 DEF UnreadIsRecent
<1>12. SeriesTrackedUnlessRaced' /\ BytesReadUnlessRaced'
  BY <1>1, <1>4, <1>5, <1>10 DEF SeriesTrackedUnlessRaced, BytesReadUnlessRaced, HasSeries
<1> QED BY <1>7, <1>8, <1>9, <1>11, <1>12

-----------------------------------------------------------------------------
(* The initial states satisfy the invariant. *)
LEMMA InitInv == Init => Inv
<1> SUFFICES ASSUME Init PROVE Inv
  OBVIOUS
<1>1. /\ requests = {} /\ reset = {} /\ raced = {} /\ dropped = {}
      /\ sampleAge = 0 /\ evictor = Asleep
      /\ DOMAIN responseBytes = {} /\ DOMAIN lastSeen = {}
      /\ sampled = [s \in Sites |-> 0]
      /\ worker = [w \in Workers |-> Idle]
  BY DEF Init
<1>2. \A w \in Workers : worker[w].pc = "idle" /\ worker[w].live = TRUE
  BY <1>1, IdleState
<1>3. worker \in [Workers -> WorkerState] /\ evictor \in EvictorState
      /\ sampled \in [Sites -> 0..MaxBytes] /\ sampleAge \in 0..Window
  BY <1>1, IdleState, AsleepState, Bounds
<1>4. TypeOK
  BY <1>1, <1>3 DEF TypeOK, WorkerState, EvictorState
<1>5. SitesNamed /\ LiveIsThere /\ OverlapIsRaced /\ OrphanIsRaced
  BY <1>2 DEF SitesNamed, LiveIsThere, OverlapIsRaced, OrphanIsRaced, Counting
<1>6. VictimWhileRemoving /\ RunsIfEnabled /\ VictimStaysIdle
  BY <1>1, AsleepState DEF VictimWhileRemoving, RunsIfEnabled, VictimStaysIdle, Removing
<1>7. SampledOrReset /\ UnreadIsRecent /\ SeriesTrackedUnlessRaced /\ BytesReadUnlessRaced
  BY <1>1 DEF SampledOrReset, UnreadIsRecent, Unread, SeriesTrackedUnlessRaced,
              BytesReadUnlessRaced, HasSeries
<1> QED BY <1>4, <1>5, <1>6, <1>7 DEF Inv

(* Every step keeps it. *)
LEMMA NextInv == Inv /\ [Next]_vars => Inv'
<1> SUFFICES ASSUME Inv, [Next]_vars PROVE Inv'
  OBVIOUS
<1>1. ASSUME NEW w \in Workers, NEW s \in Sites, ObserveRequest(w, s) PROVE Inv'
  BY <1>1, ObserveRequestInv
<1>2. ASSUME NEW w \in Workers, AddResponseBytes(w) PROVE Inv'
  BY <1>2, AddResponseBytesInv
<1>3. ASSUME NEW w \in Workers, NoBytes(w) PROVE Inv'
  BY <1>3, NoBytesInv
<1>4. ASSUME NEW w \in Workers, Count(w) PROVE Inv'
  BY <1>4, AddCountInv, LoadInv, LoadOrStoreInv, StoreInv DEF Count
<1>5. ASSUME StartSweep PROVE Inv'
  BY <1>5, StartSweepInv
<1>6. ASSUME evictIdle PROVE Inv'
  BY <1>6, VisitInv, PassInv, DeleteRequestsInv, DeleteResponseBytesInv,
     DeleteEntryInv, EndSweepInv DEF evictIdle
<1>7. ASSUME Scrape PROVE Inv'
  BY <1>7, ScrapeInv
<1>8. ASSUME Tick PROVE Inv'
  BY <1>8, TickInv
<1>9. CASE UNCHANGED vars
  BY <1>9 DEF Inv, vars, series, collector, TypeOK, SitesNamed, VictimWhileRemoving,
     Removing, RunsIfEnabled, LiveIsThere, OverlapIsRaced, OrphanIsRaced, Counting,
     VictimStaysIdle, SampledOrReset, UnreadIsRecent, Unread, CountingOf,
     SeriesTrackedUnlessRaced, HasSeries, BytesReadUnlessRaced
<1> QED BY <1>1, <1>2, <1>3, <1>4, <1>5, <1>6, <1>7, <1>8, <1>9 DEF Next

(* The inductive invariant holds in every interleaving of requests, the    *)
(* evictor (metrics.go:64-144), the collector and the clock.               *)
THEOREM Invariance == Spec => []Inv
<1> QED BY InitInv, NextInv, PTL DEF Spec

(* The shared state keeps its types, also for a TTL that disables the      *)
(* evictor (metrics.go:110-112).                                           *)
THEOREM TypeCorrect == Spec => []TypeOK
<1>1. Inv => TypeOK
  BY DEF Inv
<1> QED BY <1>1, Invariance, PTL

(* A site that no count overlapped a removal of never has series without   *)
(* the lastSeen entry that lets the evictor find them (touch,              *)
(* metrics.go:64-78, against evictIdle, 133-144).                          *)
THEOREM SeriesAlwaysTracked == Spec => []SeriesTrackedUnlessRaced
<1>1. Inv => SeriesTrackedUnlessRaced
  BY DEF Inv
<1> QED BY <1>1, Invariance, PTL

(* "a site with same-day billable bytes is never evicted before            *)
(* increase(...[1d]) reads them" (metrics.go:104-106): true of every site  *)
(* that no count overlapped a removal of, if the TTL is at least the       *)
(* window and the longest stall of a counting call.                        *)
THEOREM BytesAlwaysRead == Spec => []BytesReadUnlessRaced
<1>1. Inv => BytesReadUnlessRaced
  BY DEF Inv
<1> QED BY <1>1, Invariance, PTL

=============================================================================
