-------------------------- MODULE TripCachesProofs --------------------------
(***************************************************************************)
(* A lookup answers for the version it was asked under and the caches keep *)
(* to their bounds, for any number of calls, versions and trips.           *)
(***************************************************************************)
EXTENDS TripCaches, FiniteSetTheorems, TLAPS

Steps == {"idle", "read", "ready", "missed", "loading", "loaded", "found", "answered"}

\* What a call has in hand at each of its steps.
IsCall(c) ==
    /\ c.pc # "idle" => c.ver \in Versions
    /\ c.pc \in {"missed", "loading", "loaded", "found", "answered"} => c.trip \in Trips
    /\ c.pc \in {"loaded", "found", "answered"} => c.ans = Answer(c.ver, c.trip)

CallType ==
    [pc: Steps, ver: Versions \cup {0}, trip: Trips \cup {NotFound},
     ans: (Versions \X Trips) \cup {NotFound}]

CallsOK ==
    /\ DOMAIN call = Workers
    /\ call = [w \in Workers |-> call[w]]
    /\ \A w \in Workers : call[w] \in CallType /\ IsCall(call[w])

\* Records have just the fields the code gives them.
Shapes ==
    /\ active \in Versions \cup {0}
    /\ engine = [ver |-> engine.ver, entries |-> engine.entries]
    /\ store = [ver |-> store.ver, entries |-> store.entries]

Inv == Shapes /\ CachesHoldOneVersion /\ CallsOK

\* Pinning a cache to a version leaves a cache of that version.
LEMMA PinnedIsCache ==
    ASSUME NEW cache, cache = [ver |-> cache.ver, entries |-> cache.entries],
           IsCache(cache), NEW v \in Versions
    PROVE  LET p == Pinned(cache, v)
           IN  IsCache(p) /\ p.ver = v /\ p = [ver |-> p.ver, entries |-> p.entries]
  BY DEF Pinned, IsCache

\* Putting the answer for one more trip, whatever is evicted, leaves a cache.
LEMMA PutIsCache ==
    ASSUME NEW cache, cache = [ver |-> cache.ver, entries |-> cache.entries],
           IsCache(cache), NEW t \in Trips, cache.ver # 0,
           NEW stay \in SUBSET DOMAIN cache.entries
    PROVE  LET p == [cache EXCEPT !.entries = Put(@, stay, t, Answer(cache.ver, t))]
           IN  IsCache(p) /\ p = [ver |-> p.ver, entries |-> p.entries]
  BY DEF Put, IsCache

\* Eviction keeps some of the trips.
LEMMA StaysAreHeld ==
    ASSUME NEW t
    PROVE  /\ \A stay \in EngineStays(t) : stay \subseteq DOMAIN engine.entries
           /\ \A stay \in StoreStays(t) : stay \subseteq DOMAIN store.entries
  BY DEF EngineStays, StoreStays, Evicted

\* The invariant holds at the start: caches pinned to no version are empty.
LEMMA InitInv == Init => Inv
  BY CachesAssumption DEF Init, Inv, Shapes, CachesHoldOneVersion, IsCache, CallsOK,
     CallType, Steps, IsCall, Idle

\* No step mixes versions.
LEMMA NextInv == Inv /\ [Next]_vars => Inv'
<1> SUFFICES ASSUME Inv, [Next]_vars PROVE Inv'
  OBVIOUS
<1> USE DEF Inv
<1>a. ASSUME NEW v, NEW t \in Trips, v \in Versions
      PROVE  Answer(v, t) \in (Versions \X Trips) \cup {NotFound}
  BY <1>a DEF Answer
<1>1. ASSUME NEW w \in Workers, ReadVersion(w) PROVE Inv'
  <2> DEFINE c == [Idle EXCEPT !.pc = "read", !.ver = active]
  <2>1. c \in CallType /\ IsCall(c)
    BY <1>1 DEF ReadVersion, Idle, CallType, Steps, IsCall, Shapes
  <2>2. call' = [call EXCEPT ![w] = c]
    BY <1>1 DEF ReadVersion
  <2> HIDE DEF c
  <2>3. CallsOK'
    BY <2>1, <2>2 DEF CallsOK, IsCall
  <2> QED
    BY <1>1, <2>3 DEF ReadVersion, Shapes, CachesHoldOneVersion, IsCache
<1>2. ASSUME NEW w \in Workers, SetVersion(w) PROVE Inv'
  <2> DEFINE c == [call[w] EXCEPT !.pc = "ready"]
  <2>1. c \in CallType /\ IsCall(c) /\ call[w].ver \in Versions
    BY <1>2 DEF SetVersion, CallsOK, CallType, Steps, IsCall
  <2>2. call' = [call EXCEPT ![w] = c]
    BY <1>2 DEF SetVersion, CallsOK
  <2> HIDE DEF c
  <2>3. CallsOK'
    BY <2>1, <2>2 DEF CallsOK, IsCall
  <2>4. IsCache(engine)' /\ (engine = [ver |-> engine.ver, entries |-> engine.entries])'
    BY <1>2, <2>1, PinnedIsCache DEF SetVersion, Shapes, CachesHoldOneVersion
  <2> QED
    BY <1>2, <2>3, <2>4 DEF SetVersion, Shapes, CachesHoldOneVersion, IsCache
<1>3. ASSUME NEW w \in Workers, NEW t \in Trips, AskEngine(w, t) PROVE Inv'
  <2> DEFINE c == IF Holds(engine, call[w].ver, t)
                  THEN [pc |-> "answered", ver |-> call[w].ver, trip |-> t,
                        ans |-> engine.entries[t]]
                  ELSE [pc |-> "missed", ver |-> call[w].ver, trip |-> t,
                        ans |-> NotFound]
  <2>1. call[w].ver \in Versions
    BY <1>3 DEF AskEngine, CallsOK, IsCall
  <2>2. c \in CallType /\ IsCall(c)
    BY <1>a, <2>1 DEF CallType, Steps, IsCall, Holds, CachesHoldOneVersion, IsCache
  <2>3. call' = [call EXCEPT ![w] = c]
    BY <1>3 DEF AskEngine, CallsOK
  <2> HIDE DEF c
  <2>4. CallsOK'
    BY <2>2, <2>3 DEF CallsOK, IsCall
  <2> QED
    BY <1>3, <2>4 DEF AskEngine, Shapes, CachesHoldOneVersion, IsCache
<1>4. ASSUME NEW w \in Workers, AskStore(w) PROVE Inv'
  <2> DEFINE held == store'.entries
             c == IF call[w].trip \in DOMAIN held
                  THEN [call[w] EXCEPT !.pc = "found", !.ans = held[call[w].trip]]
                  ELSE [call[w] EXCEPT !.pc = "loading"]
  <2>1. call[w].ver \in Versions /\ call[w].trip \in Trips
    BY <1>4 DEF AskStore, CallsOK, IsCall
  <2>2. /\ IsCache(store)' /\ store'.ver = call[w].ver
        /\ (store = [ver |-> store.ver, entries |-> store.entries])'
    BY <1>4, <2>1, PinnedIsCache DEF AskStore, Shapes, CachesHoldOneVersion
  <2>3. c \in CallType /\ IsCall(c)
    BY <1>4, <1>a, <2>1, <2>2 DEF AskStore, CallsOK, CallType, Steps, IsCall, IsCache
  <2>4. call' = [call EXCEPT ![w] = c]
    BY <1>4 DEF AskStore, CallsOK
  <2> HIDE DEF c
  <2>5. CallsOK'
    BY <2>3, <2>4 DEF CallsOK, IsCall
  <2> QED
    BY <1>4, <2>2, <2>5 DEF AskStore, Shapes, CachesHoldOneVersion, IsCache
<1>5. ASSUME NEW w \in Workers, Load(w) PROVE Inv'
  <2> DEFINE ans == Answer(call[w].ver, call[w].trip)
             c == [call[w] EXCEPT !.ans = ans,
                                  !.pc = IF ans = NotFound THEN "found" ELSE "loaded"]
  <2>1. call[w].ver \in Versions /\ call[w].trip \in Trips
    BY <1>5 DEF Load, CallsOK, IsCall
  <2>2. c \in CallType /\ IsCall(c)
    BY <1>5, <1>a, <2>1 DEF Load, CallsOK, CallType, Steps, IsCall
  <2>3. call' = [call EXCEPT ![w] = c]
    BY <1>5 DEF Load, CallsOK
  <2> HIDE DEF c
  <2>4. CallsOK'
    BY <2>2, <2>3 DEF CallsOK, IsCall
  <2> QED
    BY <1>5, <2>4 DEF Load, Shapes, CachesHoldOneVersion, IsCache
<1>6. ASSUME NEW w \in Workers, LoadFails(w) \/ Return(w) PROVE Inv'
  <2>1. Idle \in CallType /\ IsCall(Idle)
    BY DEF Idle, CallType, Steps, IsCall
  <2>2. CallsOK'
    BY <1>6, <2>1 DEF LoadFails, Return, CallsOK, IsCall
  <2> QED
    BY <1>6, <2>2 DEF LoadFails, Return, Shapes, CachesHoldOneVersion, IsCache
<1>7. ASSUME NEW w \in Workers, FillStore(w) PROVE Inv'
  <2> DEFINE c == [call[w] EXCEPT !.pc = "found"]
  <2>1. /\ call[w].ver \in Versions /\ call[w].trip \in Trips
        /\ call[w].ans = Answer(call[w].ver, call[w].trip)
    BY <1>7 DEF FillStore, CallsOK, IsCall
  <2>2. c \in CallType /\ IsCall(c)
    BY <1>7 DEF FillStore, CallsOK, CallType, Steps, IsCall
  <2>3. call' = [call EXCEPT ![w] = c]
    BY <1>7 DEF FillStore, CallsOK
  <2> HIDE DEF c
  <2>4. CallsOK'
    BY <2>2, <2>3 DEF CallsOK, IsCall
  <2>5. IsCache(store)' /\ (store = [ver |-> store.ver, entries |-> store.entries])'
    <3>1. CASE store.ver # call[w].ver
      BY <1>7, <3>1 DEF FillStore, Shapes, CachesHoldOneVersion, IsCache
    <3>2. CASE store.ver = call[w].ver
      <4>1. PICK stay \in StoreStays(call[w].trip) :
              store' = [store EXCEPT !.entries =
                          Put(@, stay, call[w].trip, Answer(store.ver, call[w].trip))]
        BY <1>7, <2>1, <3>2 DEF FillStore
      <4>2. stay \in SUBSET DOMAIN store.entries
        BY <4>1, StaysAreHeld
      <4>3. store.ver # 0
        BY <2>1, <3>2, CachesAssumption
      <4> QED
        BY <2>1, <4>1, <4>2, <4>3, PutIsCache DEF Shapes, CachesHoldOneVersion
    <3> QED
      BY <3>1, <3>2
  <2> QED
    BY <1>7, <2>4, <2>5 DEF FillStore, Shapes, CachesHoldOneVersion, IsCache
<1>8. ASSUME NEW w \in Workers, FillEngine(w) PROVE Inv'
  <2> DEFINE c == [call[w] EXCEPT !.pc = "answered"]
  <2>1. /\ call[w].ver \in Versions /\ call[w].trip \in Trips
        /\ call[w].ans = Answer(call[w].ver, call[w].trip)
    BY <1>8 DEF FillEngine, CallsOK, IsCall
  <2>2. c \in CallType /\ IsCall(c)
    BY <1>8 DEF FillEngine, CallsOK, CallType, Steps, IsCall
  <2>3. call' = [call EXCEPT ![w] = c]
    BY <1>8 DEF FillEngine, CallsOK
  <2> HIDE DEF c
  <2>4. CallsOK'
    BY <2>2, <2>3 DEF CallsOK, IsCall
  <2>5. IsCache(engine)' /\ (engine = [ver |-> engine.ver, entries |-> engine.entries])'
    <3>1. CASE engine.ver # call[w].ver
      BY <1>8, <3>1 DEF FillEngine, Shapes, CachesHoldOneVersion, IsCache
    <3>2. CASE engine.ver = call[w].ver
      <4>1. PICK stay \in EngineStays(call[w].trip) :
              engine' = [engine EXCEPT !.entries =
                          Put(@, stay, call[w].trip, Answer(engine.ver, call[w].trip))]
        BY <1>8, <2>1, <3>2 DEF FillEngine
      <4>2. stay \in SUBSET DOMAIN engine.entries
        BY <4>1, StaysAreHeld
      <4>3. engine.ver # 0
        BY <2>1, <3>2, CachesAssumption
      <4> QED
        BY <2>1, <4>1, <4>2, <4>3, PutIsCache DEF Shapes, CachesHoldOneVersion
    <3> QED
      BY <3>1, <3>2
  <2> QED
    BY <1>8, <2>4, <2>5 DEF FillEngine, Shapes, CachesHoldOneVersion, IsCache
<1>9. ASSUME NEW v \in Versions \cup {0}, Activate(v) PROVE Inv'
  BY <1>9 DEF Activate, Shapes, CachesHoldOneVersion, IsCache, CallsOK, IsCall
<1>10. CASE UNCHANGED vars
  BY <1>10 DEF vars, Shapes, CachesHoldOneVersion, IsCache, CallsOK, IsCall
<1> QED
  BY <1>1, <1>2, <1>3, <1>4, <1>5, <1>6, <1>7, <1>8, <1>9, <1>10 DEF Next

\* Neither cache ever holds an entry of another version than the one it is
\* pinned to, whatever the interleaving of setVersion, get, put and the two
\* critical sections of Store.TripSchedule.
THEOREM CachesCorrect == Spec => []CachesHoldOneVersion
<1>1. Inv => CachesHoldOneVersion
  BY DEF Inv
<1> QED
  BY <1>1, InitInv, NextInv, PTL DEF Spec

\* Every answer a call of tripSchedule returns is that of the version the call
\* of Process read at its start.
THEOREM AnswersCorrect == Spec => []AnswersMatchVersion
<1>1. Inv => AnswersMatchVersion
  BY DEF Inv, CallsOK, IsCall, AnswersMatchVersion
<1> QED
  BY <1>1, InitInv, NextInv, PTL DEF Spec

-----------------------------------------------------------------------------
\* The bounds.

Within(entries, max) ==
    IsFiniteSet(DOMAIN entries) /\ Cardinality(DOMAIN entries) <= max

Bounds == Within(engine.entries, EngineMax) /\ Within(store.entries, StoreCap)

\* Room for one more: nothing new is put, or there was room, or one is evicted.
LEMMA RoomForOne ==
    ASSUME NEW held, IsFiniteSet(held), NEW max \in Nat \ {0}, Cardinality(held) <= max,
           NEW t, NEW stay,
           \/ stay = held /\ (t \in held \/ ~(Cardinality(held) >= max))
           \/ \E k \in held : stay = held \ {k}
    PROVE  IsFiniteSet(stay \cup {t}) /\ Cardinality(stay \cup {t}) <= max
<1>1. /\ IsFiniteSet(stay) /\ IsFiniteSet(stay \cup {t})
      /\ Cardinality(stay) \in Nat /\ Cardinality(held) \in Nat
      /\ Cardinality(stay \cup {t}) =
           IF t \in stay THEN Cardinality(stay) ELSE Cardinality(stay) + 1
  <2>1. IsFiniteSet(stay)
    BY FS_RemoveElement
  <2>2. /\ IsFiniteSet(stay \cup {t})
        /\ Cardinality(stay \cup {t}) =
             IF t \in stay THEN Cardinality(stay) ELSE Cardinality(stay) + 1
    BY <2>1, FS_AddElement
  <2>3. Cardinality(stay) \in Nat /\ Cardinality(held) \in Nat
    BY <2>1, FS_CardinalityType
  <2> QED BY <2>1, <2>2, <2>3
<1>2. CASE stay = held /\ t \in held
  BY <1>1, <1>2
<1>3. CASE stay = held /\ ~(Cardinality(held) >= max)
  BY <1>1, <1>3
<1>4. CASE \E k \in held : stay = held \ {k}
  <2>1. Cardinality(stay) = Cardinality(held) - 1
    BY <1>4, FS_RemoveElement
  <2> QED BY <1>1, <2>1
<1> QED BY <1>2, <1>3, <1>4

\* Both caches' puts keep their bound.
LEMMA PutWithin ==
    ASSUME Bounds, NEW t, NEW ans
    PROVE  /\ \A stay \in EngineStays(t) :
                Within(Put(engine.entries, stay, t, ans), EngineMax)
           /\ \A stay \in StoreStays(t) :
                Within(Put(store.entries, stay, t, ans), StoreCap)
<1>1. ASSUME NEW entries, NEW stay PROVE DOMAIN Put(entries, stay, t, ans) = stay \cup {t}
  BY DEF Put
<1>2. ASSUME NEW stay \in EngineStays(t)
      PROVE  Within(Put(engine.entries, stay, t, ans), EngineMax)
  <2>1. \/ stay = DOMAIN engine.entries
           /\ (t \in DOMAIN engine.entries
               \/ ~(Cardinality(DOMAIN engine.entries) >= EngineMax))
        \/ \E k \in DOMAIN engine.entries : stay = DOMAIN engine.entries \ {k}
    BY <1>2 DEF EngineStays, Evicted
  <2>2. IsFiniteSet(stay \cup {t}) /\ Cardinality(stay \cup {t}) <= EngineMax
    BY <2>1, RoomForOne, CachesAssumption DEF Bounds, Within
  <2> QED BY <1>1, <2>2 DEF Within
<1>3. ASSUME NEW stay \in StoreStays(t)
      PROVE  Within(Put(store.entries, stay, t, ans), StoreCap)
  <2>1. \/ stay = DOMAIN store.entries /\ ~(Cardinality(DOMAIN store.entries) >= StoreCap)
        \/ \E k \in DOMAIN store.entries : stay = DOMAIN store.entries \ {k}
    BY <1>3 DEF StoreStays, Evicted
  <2>2. IsFiniteSet(stay \cup {t}) /\ Cardinality(stay \cup {t}) <= StoreCap
    BY <2>1, RoomForOne, CachesAssumption DEF Bounds, Within
  <2> QED BY <1>1, <2>2 DEF Within
<1> QED BY <1>2, <1>3

\* A cache is emptied or left alone when it is pinned.
LEMMA PinnedWithin ==
    ASSUME NEW cache, NEW v, NEW max \in Nat, Within(cache.entries, max)
    PROVE  Within(Pinned(cache, v).entries, max)
<1>1. IsFiniteSet({}) /\ Cardinality({}) = 0
  BY FS_EmptySet
<1>2. DOMAIN << >> = {}
  OBVIOUS
<1> QED BY <1>1, <1>2 DEF Pinned, Within

\* CachesStayBounded for any bounds and any number of calls: each put finds the
\* room, or makes it, in the map it is put into.
THEOREM CachesBounded == Spec => []CachesStayBounded
<1>1. Init => Bounds
  <2>1. IsFiniteSet({}) /\ Cardinality({}) = 0 /\ DOMAIN << >> = {}
    BY FS_EmptySet
  <2> QED BY <2>1, CachesAssumption DEF Init, Bounds, Within
<1>2. Inv /\ Bounds /\ [Next]_vars => Bounds'
  <2> SUFFICES ASSUME Inv, Bounds, [Next]_vars PROVE Bounds'
    OBVIOUS
  <2>1. EngineMax \in Nat /\ StoreCap \in Nat
    BY CachesAssumption
  <2>2. ASSUME engine' = engine, store' = store PROVE Bounds'
    BY <2>2 DEF Bounds, Within
  <2>3. ASSUME NEW w \in Workers, SetVersion(w) PROVE Bounds'
    BY <2>1, <2>3, PinnedWithin DEF SetVersion, Bounds
  <2>4. ASSUME NEW w \in Workers, AskStore(w) PROVE Bounds'
    BY <2>1, <2>4, PinnedWithin DEF AskStore, Bounds
  <2>5. ASSUME NEW w \in Workers, FillStore(w) PROVE Bounds'
    <3>1. CASE store.ver = call[w].ver
      <4>1. PICK stay \in StoreStays(call[w].trip) :
              store'.entries = Put(store.entries, stay, call[w].trip, call[w].ans)
        BY <2>5, <3>1 DEF FillStore, Inv, Shapes
      <4>2. Within(store'.entries, StoreCap)
        BY <4>1, PutWithin
      <4> QED BY <2>5, <4>2 DEF FillStore, Bounds
    <3>2. CASE store.ver # call[w].ver
      BY <2>2, <2>5, <3>2 DEF FillStore
    <3> QED BY <3>1, <3>2
  <2>6. ASSUME NEW w \in Workers, FillEngine(w) PROVE Bounds'
    <3>1. CASE engine.ver = call[w].ver
      <4>1. PICK stay \in EngineStays(call[w].trip) :
              engine'.entries = Put(engine.entries, stay, call[w].trip, call[w].ans)
        BY <2>6, <3>1 DEF FillEngine, Inv, Shapes
      <4>2. Within(engine'.entries, EngineMax)
        BY <4>1, PutWithin
      <4> QED BY <2>6, <4>2 DEF FillEngine, Bounds
    <3>2. CASE engine.ver # call[w].ver
      BY <2>2, <2>6, <3>2 DEF FillEngine
    <3> QED BY <3>1, <3>2
  <2>7. ASSUME NEW w \in Workers,
               \/ ReadVersion(w) \/ \E t \in Trips : AskEngine(w, t)
               \/ Load(w) \/ LoadFails(w) \/ Return(w)
        PROVE  Bounds'
    BY <2>2, <2>7 DEF ReadVersion, AskEngine, Load, LoadFails, Return
  <2>8. ASSUME NEW v \in Versions \cup {0}, Activate(v) PROVE Bounds'
    BY <2>2, <2>8 DEF Activate
  <2>9. CASE UNCHANGED vars
    BY <2>2, <2>9 DEF vars
  <2> QED
    BY <2>3, <2>4, <2>5, <2>6, <2>7, <2>8, <2>9 DEF Next
<1>3. Bounds => CachesStayBounded
  BY DEF Bounds, Within, CachesStayBounded
<1> QED
  BY <1>1, <1>2, <1>3, InitInv, NextInv, PTL DEF Spec
=============================================================================
