----------------------------- MODULE TripCaches -----------------------------
(***************************************************************************)
(* Looking up the schedule of a trip (Engine.tripSchedule over             *)
(* Store.TripSchedule): two caches, each holding one schedule version at a *)
(* time under its own mutex, in front of the gtfs tables.  Several calls   *)
(* of Process look trips up at once, and the active version changes        *)
(* between a call's reading of it and its last lookup.                     *)
(*                                                                         *)
(* Reconcile takes a lookup to be a function of version and trip: that is  *)
(* AnswersMatchVersion here.                                               *)
(***************************************************************************)
EXTENDS Naturals, FiniteSets

CONSTANTS
    Workers,    \* goroutines inside Process
    Versions,   \* schedule versions
    Trips,      \* trip ids a feed may name
    Known,      \* Known[v]: the trips of version v; the others are ADDED trips
    EngineMax,  \* tripCacheMax of internal/reconcile
    StoreCap,   \* tripCacheCap of internal/store
    NotFound    \* domain.ErrNotFound, a nil entry

ASSUME CachesAssumption ==
    /\ Versions \subseteq Nat \ {0}
    /\ Known \in [Versions -> SUBSET Trips]
    /\ EngineMax \in Nat \ {0} /\ StoreCap \in Nat \ {0}
    /\ NotFound \notin Versions \X Trips

\* What the tables say of a trip: its schedule in that version, or nothing.
Answer(v, t) == IF t \in Known[v] THEN <<v, t>> ELSE NotFound

VARIABLES
    active,   \* the active version, 0 for none
    engine,   \* tripCache: the version it is pinned to and its entries
    store,    \* Store.tripCache and tripCacheVersion
    call      \* what each worker has in hand

vars == <<active, engine, store, call>>

Idle == [pc |-> "idle", ver |-> 0, trip |-> NotFound, ans |-> NotFound]

-----------------------------------------------------------------------------
(* The caches.                                                             *)

RepinnedWithEntries(cache, v) == [cache EXCEPT !.ver = v]   \* variant: not cleared

\* setVersion, and the reset at the top of Store.TripSchedule.
Pinned(cache, v) ==
    IF cache.ver = v THEN cache ELSE [ver |-> v, entries |-> << >>]

Holds(cache, v, t) == cache.ver = v /\ t \in DOMAIN cache.entries

\* The trips that may stay when one arbitrary entry is evicted.
Evicted(entries) == {DOMAIN entries \ {k} : k \in DOMAIN entries}

\* The trips that may stay when t is put: the engine makes room for a new trip
\* only, the store whenever it is full.
EngineStays(t) ==
    IF t \notin DOMAIN engine.entries /\ Cardinality(DOMAIN engine.entries) >= EngineMax
    THEN Evicted(engine.entries) ELSE {DOMAIN engine.entries}

StoreStaysPastCap(t) ==                              \* variant: off by one
    IF Cardinality(DOMAIN store.entries) > StoreCap
    THEN Evicted(store.entries) ELSE {DOMAIN store.entries}

StoreStays(t) ==
    IF Cardinality(DOMAIN store.entries) >= StoreCap
    THEN Evicted(store.entries) ELSE {DOMAIN store.entries}

\* The entries with t put, those of the trips in stay kept.
Put(entries, stay, t, ans) ==
    [k \in stay \cup {t} |-> IF k = t THEN ans ELSE entries[k]]

-----------------------------------------------------------------------------

Init ==
    /\ active = 0
    /\ engine = [ver |-> 0, entries |-> << >>]
    /\ store = [ver |-> 0, entries |-> << >>]
    /\ call = [w \in Workers |-> Idle]

\* Process reads the active version; without one there is nothing to look up.
ReadVersion(w) ==
    /\ call[w].pc = "idle"
    /\ active # 0
    /\ call' = [call EXCEPT ![w] = [Idle EXCEPT !.pc = "read", !.ver = active]]
    /\ UNCHANGED <<active, engine, store>>

\* e.cache.setVersion: by now another version may be active, and pinned.
SetVersion(w) ==
    /\ call[w].pc = "read"
    /\ engine' = Pinned(engine, call[w].ver)
    /\ call' = [call EXCEPT ![w].pc = "ready"]
    /\ UNCHANGED <<active, store>>

\* tripSchedule for the next trip of the snapshot: cache.get.
AskEngine(w, t) ==
    /\ call[w].pc \in {"ready", "answered"}
    /\ call' = [call EXCEPT ![w] =
         IF Holds(engine, @.ver, t)
         THEN [pc |-> "answered", ver |-> @.ver, trip |-> t, ans |-> engine.entries[t]]
         ELSE [pc |-> "missed", ver |-> @.ver, trip |-> t, ans |-> NotFound]]
    /\ UNCHANGED <<active, engine, store>>

\* Store.TripSchedule, its first critical section.
AskStore(w) ==
    /\ call[w].pc = "missed"
    /\ store' = Pinned(store, call[w].ver)
    /\ LET held == store'.entries
           t    == call[w].trip
       IN  call' = IF t \in DOMAIN held
                   THEN [call EXCEPT ![w].pc = "found", ![w].ans = held[t]]
                   ELSE [call EXCEPT ![w].pc = "loading"]
    /\ UNCHANGED <<active, engine>>

\* loadTripSchedule, outside any lock.  ErrNotFound goes straight back.
Load(w) ==
    /\ call[w].pc = "loading"
    /\ LET ans == Answer(call[w].ver, call[w].trip)
       IN  call' = [call EXCEPT ![w].ans = ans,
                                ![w].pc = IF ans = NotFound THEN "found" ELSE "loaded"]
    /\ UNCHANGED <<active, engine, store>>

\* The query fails: Process returns the error.
LoadFails(w) ==
    /\ call[w].pc = "loading"
    /\ call' = [call EXCEPT ![w] = Idle]
    /\ UNCHANGED <<active, engine, store>>

\* Store.TripSchedule, its second critical section.
FillStore(w) ==
    /\ call[w].pc = "loaded"
    /\ IF store.ver = call[w].ver
       THEN \E stay \in StoreStays(call[w].trip) :
              store' = [store EXCEPT !.entries = Put(@, stay, call[w].trip, call[w].ans)]
       ELSE store' = store
    /\ call' = [call EXCEPT ![w].pc = "found"]
    /\ UNCHANGED <<active, engine>>

FillEngineOfAnyVersion(w) ==                         \* variant: put without the check
    /\ call[w].pc = "found"
    /\ \E stay \in EngineStays(call[w].trip) :
         engine' = [engine EXCEPT !.entries = Put(@, stay, call[w].trip, call[w].ans)]
    /\ call' = [call EXCEPT ![w].pc = "answered"]
    /\ UNCHANGED <<active, store>>

\* cache.put, of a schedule or of a nil entry.
FillEngine(w) ==
    /\ call[w].pc = "found"
    /\ IF engine.ver = call[w].ver
       THEN \E stay \in EngineStays(call[w].trip) :
              engine' = [engine EXCEPT !.entries = Put(@, stay, call[w].trip, call[w].ans)]
       ELSE engine' = engine
    /\ call' = [call EXCEPT ![w].pc = "answered"]
    /\ UNCHANGED <<active, store>>

\* The snapshot has no more trips.
Return(w) ==
    /\ call[w].pc \in {"ready", "answered"}
    /\ call' = [call EXCEPT ![w] = Idle]
    /\ UNCHANGED <<active, engine, store>>

\* A schedule load commits.  A deleted active version leaves none.
Activate(v) ==
    /\ v # active
    /\ active' = v
    /\ UNCHANGED <<engine, store, call>>

Next ==
    \/ \E w \in Workers :
         \/ ReadVersion(w)
         \/ SetVersion(w)
         \/ \E t \in Trips : AskEngine(w, t)
         \/ AskStore(w)
         \/ Load(w)
         \/ LoadFails(w)
         \/ FillStore(w)
         \/ FillEngine(w)
         \/ Return(w)
    \/ \E v \in Versions \cup {0} : Activate(v)

Spec == Init /\ [][Next]_vars

-----------------------------------------------------------------------------

\* A cache: a version, and what that version says of some of the trips.
IsCache(cache) ==
    /\ cache.ver \in Versions \cup {0}
    /\ DOMAIN cache.entries \subseteq Trips
    /\ cache.ver = 0 => DOMAIN cache.entries = {}
    /\ \A t \in DOMAIN cache.entries : cache.entries[t] = Answer(cache.ver, t)

\* The caches never mix versions: every entry is what the pinned version says
\* of its trip, whichever calls, with whichever versions in hand, filled them.
CachesHoldOneVersion == IsCache(engine) /\ IsCache(store)

\* A call gets the schedule of the trip in the version it read at its start,
\* nil entries included, although other calls repin both caches meanwhile.
AnswersMatchVersion ==
    \A w \in Workers :
        call[w].pc = "answered" => call[w].ans = Answer(call[w].ver, call[w].trip)

\* The bounds of cache.go and schedulerepo.go hold although the second lock of
\* Store.TripSchedule finds another map than the first left.
CachesStayBounded ==
    /\ Cardinality(DOMAIN engine.entries) <= EngineMax
    /\ Cardinality(DOMAIN store.entries) <= StoreCap
=============================================================================
