-------------------------- MODULE TripUpdatesProofs --------------------------
(***************************************************************************)
(* The reconciliation of a trip update, for every schedule, feed and poll: *)
(* contract rule 2, the delays of stop events are predicted minus scheduled;*)
(* contract rule 1, the noon rule and the day and hour an event is kept    *)
(* under, for every zone with one transition, every set of dates and stop  *)
(* times, and every drift; and the names of weeks, for every year.         *)
(***************************************************************************)
EXTENDS TripUpdatesLoop, EventKeys, TripUpdatesLemmas

-----------------------------------------------------------------------------
\* The loops.

\* What is decoded has the shape reconcileTrip expects, however long the
\* entity grows (decodeTripUpdate).
THEOREM DecodedTypeOK == LoopSpec => []LoopTypeOK
<1>1. LoopInit => LoopTypeOK
  BY DEF LoopInit, LoopTypeOK
<1>2. LoopTypeOK /\ [LoopNext]_loopVars => LoopTypeOK'
  <2> SUFFICES ASSUME LoopTypeOK, [LoopNext]_loopVars PROVE LoopTypeOK'
    OBVIOUS
  <2>1. CASE UNCHANGED loopVars
    BY <2>1 DEF LoopTypeOK, loopVars
  <2>2. ASSUME NEW stu \in StopUpdates, DecodeStopTimeUpdate(stu) PROVE LoopTypeOK'
    BY <2>2 DEF DecodeStopTimeUpdate, LoopTypeOK
  <2> QED BY <2>1, <2>2 DEF LoopNext
<1> QED
  BY <1>1, <1>2, PTL DEF LoopSpec

\* A well-typed state holds a schedule and an update the lemmas speak of.
LEMMA DecodedShape ==
    ASSUME LoopTypeOK
    PROVE  IsTripSchedule(ts) /\ IsTripUpdate(tu) /\ polledAt \in Int
<1>1. Len(tu.stus) \in Nat /\ \A n \in 1..Len(tu.stus) : tu.stus[n] \in StopUpdates
  BY DEF LoopTypeOK
<1>2. \A n \in 1..Len(tu.stus) : IsStopTimeUpdate(tu.stus[n])
  BY <1>1, LoopAssumption
<1>3. tu.startDate \in StartDates /\ tu.delay \in TripDelays /\ tu.canceled \in BOOLEAN
  BY DEF LoopTypeOK
<1>4. tu.ts \in Nat
  BY DEF LoopTypeOK
<1> QED
  BY <1>1, <1>2, <1>3, <1>4, LoopAssumption DEF LoopTypeOK, IsTripUpdate

\* DelayIsPredictedMinusScheduled in every reachable state: the delay of a
\* stop event, read from the feed, computed from an explicit time or carried
\* over from another stop, is its prediction minus its schedule
\* (predictionFromUpdate and the loop of reconcileTrip).
THEOREM DelayCorrect == LoopSpec => []DelayIsPredictedMinusScheduled
<1>1. LoopTypeOK => DelayIsPredictedMinusScheduled
  <2> SUFFICES ASSUME LoopTypeOK, NEW e \in ReconcileTrip(tu, ts, 1, 1, polledAt)
               PROVE  /\ e.delay # None => /\ e.pred # None
                                           /\ e.sched # None
                                           /\ e.delay = e.pred - e.sched
                      /\ e.pred # None /\ e.sched # None => e.delay # None
                      /\ e.skipped <=> e.pred = None
    BY DEF DelayIsPredictedMinusScheduled
  <2>1. IsEventOf(e, tu, ts, 1)
    BY DecodedShape, EventSound
  <2>2. PICK pred \in Time, sched \in Time, skipped \in BOOLEAN :
          /\ e.pred = pred /\ e.sched = sched /\ e.skipped = skipped
          /\ e.delay = IF pred = None \/ sched = None THEN None ELSE pred - sched
          /\ skipped <=> pred = None
    BY <2>1 DEF IsEventOf
  <2> QED BY <2>2, NoneAssumption DEF Time
<1> QED
  BY <1>1, DecodedTypeOK, PTL

-----------------------------------------------------------------------------
\* The loops come to what TripUpdates says without loops.  A loop is a function
\* of the number of rounds, the CHOOSE of one that satisfies its equation: each
\* proof exhibits one, round by round, and any two agree.

\* Functions that begin alike and go on alike are alike: else there would be a
\* first round in which they differ.
LEMMA LoopsAlike ==
    ASSUME NEW n \in Nat, NEW f, NEW g, f[0] = g[0],
           \A m \in 1..n : f[m - 1] = g[m - 1] => f[m] = g[m]
    PROVE  f[n] = g[n]
<1> DEFINE S == {m \in 1..n : f[m] # g[m]}
<1>1. SUFFICES ASSUME S # {} PROVE FALSE
  <2>1. n \in 1..n \/ n = 0
    OBVIOUS
  <2> QED BY <2>1
<1>2. Min(S) \in S /\ \A y \in S : Min(S) <= y
  <2>1. S \subseteq 1..n
    OBVIOUS
  <2> HIDE DEF S
  <2> QED BY <1>1, <2>1, MinIndex
<1>3. PICK m \in 1..n : f[m] # g[m] /\ \A y \in 1..n : f[y] # g[y] => m <= y
  BY <1>2
<1>4. m - 1 = 0 \/ m - 1 \in 1..n
  BY <1>3
<1>5. f[m - 1] = g[m - 1]
  BY <1>3, <1>4
<1> QED BY <1>3, <1>5

\* The greatest and the least of a set of rounds, one round later.
LEMMA MaxGrows ==
    ASSUME NEW n \in Nat \ {0}, NEW S \in SUBSET (1..n), n \in S
    PROVE  Max(S) = n
<1>1. Max(S) \in S /\ n <= Max(S)
  BY MaxIndex
<1>2. Max(S) \in 1..n
  BY <1>1
<1> HIDE DEF Max
<1> QED BY <1>1, <1>2

LEMMA MinGrows ==
    ASSUME NEW n \in Nat \ {0}, NEW S \in SUBSET (1..n)
    PROVE  /\ S \cap 1..(n-1) # {} => Min(S) = Min(S \cap 1..(n-1))
           /\ S \cap 1..(n-1) = {} /\ n \in S => Min(S) = n
<1> DEFINE T == S \cap 1..(n-1)
<1>1. ASSUME T # {} PROVE Min(S) = Min(T)
  <2>1. Min(T) \in T /\ \A y \in T : Min(T) <= y
    BY <1>1, MinIndex
  <2>2. Min(S) \in S /\ \A y \in S : Min(S) <= y
    BY <1>1, MinIndex
  <2>3. \A y \in S : y \in T \/ y = n
    OBVIOUS
  <2>4. \A y \in T : y \in S /\ y <= n - 1 /\ y \in Int
    OBVIOUS
  <2> HIDE DEF T
  <2> DEFINE a == Min(S)
             b == Min(T)
  <2>5. a \in S /\ b \in T /\ a <= b /\ b <= n - 1 /\ b \in Int /\ (a \in T => b <= a)
    BY <2>1, <2>2, <2>4
  <2>6. a \in Int /\ a # n
    <3>1. S \subseteq Int
      OBVIOUS
    <3> HIDE DEF a, b
    <3> QED BY <2>5, <3>1
  <2>7. a \in T
    BY <2>3, <2>5, <2>6
  <2> HIDE DEF a, b
  <2>8. a = b
    BY <2>5, <2>6, <2>7
  <2> QED BY <2>8 DEF a, b
<1>2. ASSUME T = {}, n \in S PROVE Min(S) = n
  <2>1. Min(S) \in S
    BY <1>2, MinIndex
  <2>2. \A y \in S : y = n
    BY <1>2
  <2> QED BY <2>1, <2>2
<1> QED BY <1>1, <1>2

\* A round of the loop over the updates, and what it has come to.
MatchStep(prev, n) ==
    LET idx == StopIndex(ts, tu.stus[n])
    IN  IF idx = 0 THEN prev ELSE [prev EXCEPT ![idx] = tu.stus[n]]

MatchUpTo(n, i) ==
    LET named == {m \in 1..n : StopIndex(ts, tu.stus[m]) = i}
    IN  IF named = {} THEN None ELSE tu.stus[Max(named)]

LEMMA MatchUpToStep ==
    ASSUME NEW n \in Nat \ {0}, NEW i
    PROVE  MatchUpTo(n, i) = IF StopIndex(ts, tu.stus[n]) = i
                             THEN tu.stus[n] ELSE MatchUpTo(n - 1, i)
<1> DEFINE named(m) == {k \in 1..m : StopIndex(ts, tu.stus[k]) = i}
<1>1. CASE StopIndex(ts, tu.stus[n]) = i
  <2>1. n \in named(n) /\ named(n) \in SUBSET (1..n)
    BY <1>1
  <2>2. Max(named(n)) = n
    <3> HIDE DEF named
    <3> QED BY <2>1, MaxGrows
  <2> QED BY <1>1, <2>1, <2>2 DEF MatchUpTo
<1>2. CASE StopIndex(ts, tu.stus[n]) # i
  <2>1. named(n) = named(n - 1)
    <3>1. \A k \in 1..n : k \in 1..(n-1) \/ k = n
      OBVIOUS
    <3>2. \A k \in 1..(n-1) : k \in 1..n
      OBVIOUS
    <3> QED BY <1>2, <3>1, <3>2
  <2> QED BY <1>2, <2>1 DEF MatchUpTo
<1> QED BY <1>1, <1>2

\* Overwriting leaves each stop the last update that names it (matches in
\* reconcileTrip).
LEMMA MatchLoopIsMatch ==
    ASSUME LoopTypeOK
    PROVE  MatchLoop = [i \in 1..Len(ts.stops) |-> Match(tu, ts, i)]
<1> DEFINE L == Len(tu.stus)
           N == Len(ts.stops)
           none == [i \in 1..N |-> None]
           W == [n \in 0..L |-> [i \in 1..N |-> MatchUpTo(n, i)]]
<1>1. L \in Nat /\ N \in Nat /\ \A n : StopIndex(ts, tu.stus[n]) \in 0..N
  BY DecodedShape, StopIndexType DEF IsTripUpdate, IsTripSchedule
<1>2. W[0] = none
  <2>1. \A i : MatchUpTo(0, i) = None
    BY DEF MatchUpTo
  <2> QED BY <1>1, <2>1
<1>3. ASSUME NEW n \in 1..L PROVE W[n] = MatchStep(W[n - 1], n)
  <2> DEFINE idx == StopIndex(ts, tu.stus[n])
  <2>1. /\ n \in 0..L /\ n - 1 \in 0..L /\ n \in Nat \ {0}
        /\ idx \in 0..N
    BY <1>1
  <2>2. /\ W[n] = [i \in 1..N |-> MatchUpTo(n, i)]
        /\ W[n - 1] = [i \in 1..N |-> MatchUpTo(n - 1, i)]
    BY <2>1
  <2>3. \A i \in 1..N : MatchUpTo(n, i) = IF idx = i THEN tu.stus[n] ELSE MatchUpTo(n - 1, i)
    BY <2>1, MatchUpToStep
  <2> HIDE DEF W, idx
  <2>4. CASE idx = 0
    <3>1. W[n] = W[n - 1]
      BY <1>1, <2>2, <2>3, <2>4
    <3> QED BY <2>4, <3>1 DEF MatchStep, idx
  <2>5. CASE idx # 0
    <3>1. W[n] = [W[n - 1] EXCEPT ![idx] = tu.stus[n]]
      BY <1>1, <2>1, <2>2, <2>3, <2>5
    <3> QED BY <2>5, <3>1 DEF MatchStep, idx
  <2> QED BY <2>4, <2>5
<1>4. W = [n \in 0..L |-> IF n = 0 THEN none ELSE MatchStep(W[n - 1], n)]
  <2>1. \A n \in 0..L : W[n] = IF n = 0 THEN none ELSE MatchStep(W[n - 1], n)
    <3>1. \A n \in 0..L : n = 0 \/ n \in 1..L
      BY <1>1
    <3> HIDE DEF W, none
    <3> QED BY <1>2, <1>3, <3>1
  <2>2. W = [n \in 0..L |-> W[n]]
    OBVIOUS
  <2> HIDE DEF W, none
  <2> QED BY <2>1, <2>2
<1>5. PICK f : /\ f = [n \in 0..L |-> IF n = 0 THEN none ELSE MatchStep(f[n - 1], n)]
               /\ MatchLoop = f[L]
  <2> HIDE DEF W
  <2> QED BY <1>4 DEF MatchLoop, MatchStep
<1>6. f[L] = W[L]
  <2>1. f[0] = W[0]
    BY <1>1, <1>2, <1>5
  <2>2. \A m \in 1..L : f[m - 1] = W[m - 1] => f[m] = W[m]
    <3> HIDE DEF W, none
    <3> QED BY <1>1, <1>3, <1>5
  <2> HIDE DEF W, L
  <2> QED BY <1>1, <2>1, <2>2, LoopsAlike
<1>7. W[L] = [i \in 1..N |-> Match(tu, ts, i)]
  <2>1. \A i : MatchUpTo(L, i) = Match(tu, ts, i)
    BY DEF MatchUpTo, Match
  <2> QED BY <1>1, <2>1
<1> QED BY <1>5, <1>6, <1>7

\* A round of the scan for the reference, and what it has come to.
RefStep(prev, n) ==
    LET stu == tu.stus[n]
        idx == StopIndex(ts, stu)
        at  == FirstPositive(stu.arr, stu.dep)
    IN  IF prev.stopped \/ idx = 0 THEN prev
        ELSE LET best == BestSecs(ts.stops[idx])
             IN  IF best < 0 THEN prev
                 ELSE IF at > 0 THEN [secs |-> best, at |-> at, stopped |-> TRUE]
                 ELSE IF prev.secs < 0 THEN [prev EXCEPT !.secs = best]
                 ELSE prev

AnchorSecs(n) == BestSecs(ts.stops[StopIndex(ts, tu.stus[n])])

Explicit(n) == FirstPositive(tu.stus[n].arr, tu.stus[n].dep)

AnchorsTo(n) == Anchors(tu, ts) \cap 1..n

TimedTo(n) == TimedAnchors(tu, ts) \cap 1..n

RefUpTo(n) ==
    [secs    |-> IF TimedTo(n) # {} THEN AnchorSecs(Min(TimedTo(n)))
                 ELSE IF AnchorsTo(n) # {} THEN AnchorSecs(Min(AnchorsTo(n))) ELSE -1,
     at      |-> IF TimedTo(n) # {} THEN Explicit(Min(TimedTo(n))) ELSE polledAt,
     stopped |-> TimedTo(n) # {}]

LEMMA AnchorsGrow ==
    ASSUME LoopTypeOK, NEW n \in 1..Len(tu.stus)
    PROVE  /\ n \in Nat \ {0}
           /\ AnchorsTo(n) \in SUBSET (1..n) /\ AnchorsTo(n) \cap 1..(n-1) = AnchorsTo(n - 1)
           /\ TimedTo(n) \in SUBSET (1..n) /\ TimedTo(n) \cap 1..(n-1) = TimedTo(n - 1)
           /\ n \in AnchorsTo(n) <=> StopIndex(ts, tu.stus[n]) # 0 /\ AnchorSecs(n) >= 0
           /\ n \in TimedTo(n) <=> n \in AnchorsTo(n) /\ Explicit(n) > 0
           /\ n \notin AnchorsTo(n) => AnchorsTo(n) = AnchorsTo(n - 1)
           /\ n \notin TimedTo(n) => TimedTo(n) = TimedTo(n - 1)
<1>1. n \in Nat \ {0}
  BY DecodedShape DEF IsTripUpdate
<1>2. \A k \in 1..n : k \in 1..(n-1) \/ k = n
  BY <1>1
<1>3. \A k \in 1..(n-1) : k \in 1..n /\ k # n
  BY <1>1
<1>4. n \in 1..n /\ n \notin 1..(n-1)
  BY <1>1
<1>5. /\ n \in Anchors(tu, ts) <=> StopIndex(ts, tu.stus[n]) # 0 /\ AnchorSecs(n) >= 0
      /\ n \in TimedAnchors(tu, ts) <=> n \in Anchors(tu, ts) /\ Explicit(n) > 0
  BY DEF Anchors, TimedAnchors, AnchorSecs, Explicit
<1>6. AnchorsTo(n) \cap 1..(n-1) = AnchorsTo(n - 1)
  BY <1>3 DEF AnchorsTo
<1>7. TimedTo(n) \cap 1..(n-1) = TimedTo(n - 1)
  BY <1>3 DEF TimedTo
<1>8. n \notin AnchorsTo(n) => AnchorsTo(n) = AnchorsTo(n - 1)
  BY <1>2, <1>3 DEF AnchorsTo
<1>9. n \notin TimedTo(n) => TimedTo(n) = TimedTo(n - 1)
  BY <1>2, <1>3 DEF TimedTo
<1> QED
  BY <1>1, <1>4, <1>5, <1>6, <1>7, <1>8, <1>9 DEF AnchorsTo, TimedTo

\* Until the scan stops it holds the first usable scheduled time; it stops at
\* the first explicit one.
LEMMA RefUpToStep ==
    ASSUME LoopTypeOK, NEW n \in 1..Len(tu.stus)
    PROVE  RefUpTo(n) = RefStep(RefUpTo(n - 1), n)
<1> DEFINE idx == StopIndex(ts, tu.stus[n])
           before == RefUpTo(n - 1)
<1>1. /\ n \in AnchorsTo(n) <=> idx # 0 /\ AnchorSecs(n) >= 0
      /\ n \in TimedTo(n) <=> n \in AnchorsTo(n) /\ Explicit(n) > 0
      /\ n \notin AnchorsTo(n) => AnchorsTo(n) = AnchorsTo(n - 1)
      /\ n \notin TimedTo(n) => TimedTo(n) = TimedTo(n - 1)
  BY AnchorsGrow
<1>2. /\ AnchorsTo(n - 1) # {} => AnchorsTo(n) # {} /\ Min(AnchorsTo(n)) = Min(AnchorsTo(n - 1))
      /\ AnchorsTo(n - 1) = {} /\ n \in AnchorsTo(n) => Min(AnchorsTo(n)) = n
      /\ TimedTo(n - 1) # {} => TimedTo(n) # {} /\ Min(TimedTo(n)) = Min(TimedTo(n - 1))
      /\ TimedTo(n - 1) = {} /\ n \in TimedTo(n) => Min(TimedTo(n)) = n
  <2>1. /\ n \in Nat \ {0} /\ AnchorsTo(n) \in SUBSET (1..n) /\ TimedTo(n) \in SUBSET (1..n)
        /\ AnchorsTo(n) \cap 1..(n-1) = AnchorsTo(n - 1)
        /\ TimedTo(n) \cap 1..(n-1) = TimedTo(n - 1)
    BY AnchorsGrow
  <2>2. /\ AnchorsTo(n) \cap 1..(n-1) # {} => Min(AnchorsTo(n)) = Min(AnchorsTo(n) \cap 1..(n-1))
        /\ AnchorsTo(n) \cap 1..(n-1) = {} /\ n \in AnchorsTo(n) => Min(AnchorsTo(n)) = n
    BY <2>1, MinGrows
  <2>3. /\ TimedTo(n) \cap 1..(n-1) # {} => Min(TimedTo(n)) = Min(TimedTo(n) \cap 1..(n-1))
        /\ TimedTo(n) \cap 1..(n-1) = {} /\ n \in TimedTo(n) => Min(TimedTo(n)) = n
    BY <2>1, MinGrows
  <2> QED BY <2>1, <2>2, <2>3
<1>3. TimedTo(n - 1) = {} => (before.secs < 0 <=> AnchorsTo(n - 1) = {})
  <2>1. ASSUME AnchorsTo(n - 1) # {} PROVE AnchorSecs(Min(AnchorsTo(n - 1))) >= 0
    <3>1. n - 1 \in Nat /\ AnchorsTo(n - 1) \subseteq 1..(n - 1)
      BY AnchorsGrow DEF AnchorsTo
    <3>2. Min(AnchorsTo(n - 1)) \in AnchorsTo(n - 1)
      BY <2>1, <3>1, MinIndex
    <3> QED BY <3>2 DEF AnchorsTo, Anchors, AnchorSecs
  <2>2. ASSUME TimedTo(n - 1) = {}, AnchorsTo(n - 1) # {}
        PROVE  before.secs = AnchorSecs(Min(AnchorsTo(n - 1))) /\ before.secs \in Int
    <3>1. n - 1 \in Nat /\ AnchorsTo(n - 1) \subseteq 1..(n - 1)
      BY AnchorsGrow DEF AnchorsTo
    <3>2. Min(AnchorsTo(n - 1)) \in AnchorsTo(n - 1)
      BY <2>2, <3>1, MinIndex
    <3>3. StopIndex(ts, tu.stus[Min(AnchorsTo(n - 1))]) \in 1..Len(ts.stops)
      <4>1. \A m \in Anchors(tu, ts) : StopIndex(ts, tu.stus[m]) # 0
        BY DEF Anchors
      <4>2. \A m : StopIndex(ts, tu.stus[m]) \in 0..Len(ts.stops)
        BY DecodedShape, StopIndexType
      <4>3. \A m \in Anchors(tu, ts) : StopIndex(ts, tu.stus[m]) \in 1..Len(ts.stops)
        BY <4>1, <4>2, DecodedShape DEF IsTripSchedule
      <4> QED BY <3>2, <4>3 DEF AnchorsTo
    <3>4. AnchorSecs(Min(AnchorsTo(n - 1))) \in Int
      BY <3>3, DecodedShape, BestSecsType DEF AnchorSecs
    <3> QED BY <2>2, <3>4 DEF RefUpTo
  <2>3. TimedTo(n - 1) = {} /\ AnchorsTo(n - 1) = {} => before.secs = -1
    BY DEF RefUpTo
  <2> QED BY <2>1, <2>2, <2>3
<1>4. /\ before.stopped <=> TimedTo(n - 1) # {}
      /\ before.at = IF TimedTo(n - 1) # {} THEN Explicit(Min(TimedTo(n - 1))) ELSE polledAt
      /\ before = [secs |-> before.secs, at |-> before.at, stopped |-> before.stopped]
  BY DEF RefUpTo
<1>5. AnchorSecs(n) < 0 \/ AnchorSecs(n) >= 0 \/ idx = 0
  <2>1. idx \in 0..Len(ts.stops) /\ Len(ts.stops) \in Nat
    BY DecodedShape, StopIndexType DEF IsTripSchedule
  <2>2. CASE idx # 0
    <3>1. AnchorSecs(n) \in Int
      BY <2>1, <2>2, DecodedShape, BestSecsType DEF AnchorSecs
    <3> QED BY <3>1
  <2> QED BY <2>2
<1>6. RefStep(before, n) =
        IF before.stopped \/ idx = 0 \/ AnchorSecs(n) < 0 THEN before
        ELSE IF Explicit(n) > 0
             THEN [secs |-> AnchorSecs(n), at |-> Explicit(n), stopped |-> TRUE]
        ELSE IF before.secs < 0
             THEN [secs |-> AnchorSecs(n), at |-> before.at, stopped |-> before.stopped]
        ELSE before
  <2> HIDE DEF before
  <2>1. [before EXCEPT !.secs = AnchorSecs(n)]
          = [secs |-> AnchorSecs(n), at |-> before.at, stopped |-> before.stopped]
    BY <1>4
  <2> QED BY <2>1 DEF RefStep, AnchorSecs, Explicit
<1>7. CASE before.stopped
  BY <1>2, <1>4, <1>6, <1>7 DEF RefUpTo
<1>8. CASE ~before.stopped /\ (idx = 0 \/ AnchorSecs(n) < 0)
  <2>1. n \notin AnchorsTo(n)
    <3>1. CASE idx = 0
      BY <1>1, <3>1
    <3>2. CASE idx # 0 /\ AnchorSecs(n) < 0
      <4>1. idx \in 1..Len(ts.stops)
        BY <3>2, DecodedShape, StopIndexType DEF IsTripSchedule
      <4>2. AnchorSecs(n) \in Int
        BY <4>1, DecodedShape, BestSecsType DEF AnchorSecs
      <4> QED BY <1>1, <3>2, <4>2
    <3> QED BY <1>8, <3>1, <3>2
  <2>2. AnchorsTo(n) = AnchorsTo(n - 1) /\ TimedTo(n) = TimedTo(n - 1)
    BY <1>1, <2>1
  <2> QED BY <1>6, <1>8, <2>2 DEF RefUpTo
<1>9. CASE ~before.stopped /\ idx # 0 /\ ~(AnchorSecs(n) < 0)
  <2>1. n \in AnchorsTo(n)
    BY <1>1, <1>5, <1>9
  <2>2. TimedTo(n - 1) = {}
    BY <1>4, <1>9
  <2>3. CASE Explicit(n) > 0
    <3>1. n \in TimedTo(n) /\ Min(TimedTo(n)) = n
      BY <1>1, <1>2, <2>1, <2>2, <2>3
    <3> QED BY <1>6, <1>9, <2>3, <3>1 DEF RefUpTo
  <2>4. CASE ~(Explicit(n) > 0)
    <3>1. TimedTo(n) = {}
      BY <1>1, <2>2, <2>4
    <3>2. CASE AnchorsTo(n - 1) = {}
      <4>1. before.secs < 0 /\ Min(AnchorsTo(n)) = n
        BY <1>2, <1>3, <2>1, <2>2, <3>2
      <4>2. before.at = polledAt /\ before.stopped = FALSE
        BY <2>2 DEF RefUpTo
      <4>3. RefStep(before, n) = [secs |-> AnchorSecs(n), at |-> polledAt, stopped |-> FALSE]
        BY <1>6, <1>9, <2>4, <4>1, <4>2
      <4> QED BY <2>1, <3>1, <4>1, <4>3 DEF RefUpTo
    <3>3. CASE AnchorsTo(n - 1) # {}
      <4>1. ~(before.secs < 0) /\ AnchorsTo(n) # {} /\ Min(AnchorsTo(n)) = Min(AnchorsTo(n - 1))
        BY <1>2, <1>3, <2>2, <3>3
      <4>2. RefStep(before, n) = before
        BY <1>6, <1>9, <2>4, <4>1
      <4> QED BY <2>2, <3>1, <3>3, <4>1, <4>2 DEF RefUpTo
    <3> QED BY <3>2, <3>3
  <2> QED BY <2>3, <2>4
<1> QED BY <1>7, <1>8, <1>9

LEMMA ReferenceLoopIsReference ==
    ASSUME LoopTypeOK
    PROVE  ReferenceLoop = RefUpTo(Len(tu.stus))
<1> DEFINE L == Len(tu.stus)
           first == [secs |-> -1, at |-> polledAt, stopped |-> FALSE]
           W == [n \in 0..L |-> RefUpTo(n)]
<1>1. L \in Nat
  BY DecodedShape DEF IsTripUpdate
<1>2. W[0] = first
  <2>1. AnchorsTo(0) = {} /\ TimedTo(0) = {}
    BY DEF AnchorsTo, TimedTo
  <2>2. RefUpTo(0) = first
    BY <2>1 DEF RefUpTo
  <2>3. 0 \in 0..L
    BY <1>1
  <2> HIDE DEF first
  <2> QED BY <2>2, <2>3
<1>3. \A n \in 1..L : W[n] = RefStep(W[n - 1], n)
  <2> SUFFICES ASSUME NEW n \in 1..L PROVE W[n] = RefStep(W[n - 1], n)
    OBVIOUS
  <2>1. n \in 0..L /\ n - 1 \in 0..L
    BY <1>1
  <2> QED BY <2>1, RefUpToStep
<1>4. W = [n \in 0..L |-> IF n = 0 THEN first ELSE RefStep(W[n - 1], n)]
  <2>1. \A n \in 0..L : W[n] = IF n = 0 THEN first ELSE RefStep(W[n - 1], n)
    <3>1. \A n \in 0..L : n = 0 \/ n \in 1..L
      BY <1>1
    <3> HIDE DEF W, first
    <3> QED BY <1>2, <1>3, <3>1
  <2>2. W = [n \in 0..L |-> W[n]]
    OBVIOUS
  <2> HIDE DEF W, first
  <2> QED BY <2>1, <2>2
<1>5. PICK f : /\ f = [n \in 0..L |-> IF n = 0 THEN first ELSE RefStep(f[n - 1], n)]
               /\ ReferenceLoop = f[L]
  <2> HIDE DEF W
  <2> QED BY <1>4 DEF ReferenceLoop, RefStep
<1>6. f[L] = W[L]
  <2>1. f[0] = W[0]
    BY <1>1, <1>2, <1>5
  <2>2. \A m \in 1..L : f[m - 1] = W[m - 1] => f[m] = W[m]
    <3> HIDE DEF W, first
    <3> QED BY <1>1, <1>3, <1>5
  <2> HIDE DEF W, L
  <2> QED BY <1>1, <2>1, <2>2, LoopsAlike
<1> QED BY <1>1, <1>5, <1>6

\* ReferenceAgreesWithScan in every reachable state: the scan of
\* resolveServiceDate, with its early exit and its fallbacks, compares the
\* schedule with the first explicit time, else with the first usable update.
THEOREM ReferenceIsScanned == LoopSpec => []ReferenceAgreesWithScan
<1>1. LoopTypeOK => ReferenceAgreesWithScan
  <2> SUFFICES ASSUME LoopTypeOK PROVE ReferenceAgreesWithScan
    OBVIOUS
  <2> DEFINE L == Len(tu.stus)
             scan == ReferenceLoop
             ref == DateReference(tu, ts, polledAt)
             timed == TimedAnchors(tu, ts)
             anchors == Anchors(tu, ts)
             stops == TimedStops(ts)
  <2>1. L \in Nat /\ anchors \subseteq 1..L /\ timed \subseteq anchors
    BY DecodedShape DEF IsTripUpdate, Anchors, TimedAnchors
  <2>2. scan = [secs    |-> IF timed # {} THEN AnchorSecs(Min(timed))
                            ELSE IF anchors # {} THEN AnchorSecs(Min(anchors)) ELSE -1,
                at      |-> IF timed # {} THEN Explicit(Min(timed)) ELSE polledAt,
                stopped |-> timed # {}]
    <3>1. TimedTo(L) = timed /\ AnchorsTo(L) = anchors
      BY <2>1 DEF TimedTo, AnchorsTo
    <3> QED BY <3>1, ReferenceLoopIsReference DEF RefUpTo
  <2>3. ref = IF timed # {} THEN [secs |-> AnchorSecs(Min(timed)), at |-> Explicit(Min(timed))]
              ELSE [secs |-> IF anchors # {} THEN AnchorSecs(Min(anchors))
                             ELSE IF stops # {} THEN BestSecs(ts.stops[Min(stops)]) ELSE -1,
                    at   |-> polledAt]
    BY DEF DateReference, AnchorSecs, Explicit
  <2>4. \A n \in anchors : AnchorSecs(n) >= 0
    BY DEF Anchors, AnchorSecs
  <2>5. /\ timed # {} => Min(timed) \in timed
        /\ anchors # {} => Min(anchors) \in anchors
    <3>1. timed \subseteq 1..L
      BY <2>1
    <3> HIDE DEF timed, anchors, L
    <3> QED BY <2>1, <3>1, MinIndex
  <2>6. stops # {} => Min(stops) = CHOOSE i \in 1..Len(ts.stops) :
                                     /\ BestSecs(ts.stops[i]) >= 0
                                     /\ \A j \in 1..(i-1) : BestSecs(ts.stops[j]) < 0
    <3> SUFFICES ASSUME stops # {} PROVE Min(stops) = CHOOSE i \in 1..Len(ts.stops) :
                                     /\ BestSecs(ts.stops[i]) >= 0
                                     /\ \A j \in 1..(i-1) : BestSecs(ts.stops[j]) < 0
      OBVIOUS
    <3> DEFINE first(i) == /\ BestSecs(ts.stops[i]) >= 0
                           /\ \A j \in 1..(i-1) : BestSecs(ts.stops[j]) < 0
    <3>1. /\ Len(ts.stops) \in Nat
          /\ \A i \in 1..Len(ts.stops) : BestSecs(ts.stops[i]) \in Int
          /\ \A i \in 1..Len(ts.stops) : i \in stops <=> BestSecs(ts.stops[i]) >= 0
          /\ stops \subseteq 1..Len(ts.stops)
      BY DecodedShape, BestSecsType DEF IsTripSchedule, TimedStops
    <3> DEFINE least == Min(stops)
    <3>2. least \in stops /\ \A y \in stops : least <= y
      <4> HIDE DEF stops
      <4> QED BY <3>1, MinIndex
    <3>3. least \in 1..Len(ts.stops)
      BY <3>1, <3>2
    <3> HIDE DEF least, stops
    <3>4. first(least)
      <4>1. ASSUME NEW j \in 1..(least - 1) PROVE BestSecs(ts.stops[j]) < 0
        <5>1. j \in 1..Len(ts.stops) /\ ~(least <= j)
          BY <3>1, <3>3
        <5>2. j \notin stops
          BY <3>2, <5>1
        <5> QED BY <3>1, <5>1, <5>2
      <4> QED BY <3>1, <3>2, <3>3, <4>1
    <3>5. ASSUME NEW i \in 1..Len(ts.stops), first(i) PROVE i = least
      <4>1. i \in stops
        BY <3>1, <3>5
      <4>2. least <= i
        BY <3>2, <4>1
      <4>3. least \notin 1..(i - 1)
        BY <3>1, <3>2, <3>3, <3>5
      <4> QED BY <3>1, <3>3, <4>2, <4>3
    <3> QED BY <3>3, <3>4, <3>5 DEF least
  <2>7. stops # {} <=> \E i \in 1..Len(ts.stops) : BestSecs(ts.stops[i]) >= 0
    BY DEF TimedStops
  <2> HIDE DEF timed, anchors, stops
  <2>8. CASE timed # {}
    <3>1. scan.secs = AnchorSecs(Min(timed)) /\ scan.at = Explicit(Min(timed)) /\ scan.secs >= 0
      BY <2>1, <2>2, <2>4, <2>5, <2>8
    <3> HIDE DEF scan, ref
    <3>2. ref = [secs |-> scan.secs, at |-> scan.at]
      BY <2>3, <2>8, <3>1
    <3> QED BY <3>1, <3>2 DEF ReferenceAgreesWithScan, scan, ref
  <2>9. CASE timed = {} /\ anchors # {}
    <3>1. scan.secs = AnchorSecs(Min(anchors)) /\ scan.at = polledAt /\ scan.secs >= 0
      BY <2>1, <2>2, <2>4, <2>5, <2>9
    <3> HIDE DEF scan, ref
    <3>2. ref = [secs |-> scan.secs, at |-> scan.at]
      BY <2>3, <2>9, <3>1
    <3> QED BY <3>1, <3>2 DEF ReferenceAgreesWithScan, scan, ref
  <2>10. CASE timed = {} /\ anchors = {}
    <3>1. scan.secs = -1
      BY <2>2, <2>10
    <3>2. /\ ref.at = polledAt
          /\ ref.secs = IF stops # {} THEN BestSecs(ts.stops[Min(stops)]) ELSE -1
      BY <2>3, <2>10
    <3> HIDE DEF scan, ref
    <3>3. ~(scan.secs >= 0)
      BY <3>1
    <3> QED BY <2>6, <2>7, <3>2, <3>3 DEF ReferenceAgreesWithScan, scan, ref
  <2> QED BY <2>8, <2>9, <2>10
<1> QED
  BY <1>1, DecodedTypeOK, PTL

\* The loop over the stops starts where StartIndex says: at the first matched
\* stop, or at the first of all under a delay of the whole trip.
LoopStart ==
    CHOOSE s \in 1..(Len(ts.stops) + 1) :
        /\ \A i \in 1..(s-1) : MatchLoop[i] = None
        /\ s <= Len(ts.stops) => MatchLoop[s] # None

LoopFrom == IF tu.delay # None /\ LoopStart > Len(ts.stops) THEN 1 ELSE LoopStart

LEMMA LoopFromIsStart ==
    ASSUME LoopTypeOK
    PROVE  LoopFrom = StartIndex(tu, ts) /\ LoopFrom \in Nat \ {0}
<1> DEFINE N == Len(ts.stops)
           M == Matched(tu, ts)
           first == IF M # {} THEN Min(M) ELSE N + 1
           begins(s) == /\ \A i \in 1..(s-1) : MatchLoop[i] = None
                        /\ s <= N => MatchLoop[s] # None
<1>1. /\ N \in Nat /\ M \subseteq 1..N
      /\ \A i \in 1..N : MatchLoop[i] = None <=> i \notin M
  BY DecodedShape, MatchLoopIsMatch DEF IsTripSchedule, Matched
<1>2. M # {} => Min(M) \in M /\ \A y \in M : Min(M) <= y
  <2> HIDE DEF M
  <2> QED BY <1>1, MinIndex
<1>3. first \in 1..(N + 1) /\ (first <= N <=> M # {})
  <2> DEFINE least == Min(M)
  <2>1. M # {} => least \in 1..N
    BY <1>1, <1>2
  <2> HIDE DEF M, least
  <2>2. first = IF M # {} THEN least ELSE N + 1
    BY DEF least
  <2> HIDE DEF first
  <2> QED BY <1>1, <2>1, <2>2
<1>4. begins(first)
  <2>1. ASSUME NEW i \in 1..(first - 1) PROVE MatchLoop[i] = None
    <3>1. i \in 1..N /\ ~(first <= i)
      BY <1>1, <1>3
    <3>2. i \notin M
      BY <1>2, <3>1
    <3> QED BY <1>1, <3>1, <3>2
  <2>2. first <= N => MatchLoop[first] # None
    <3> SUFFICES ASSUME M # {} PROVE MatchLoop[first] # None
      BY <1>3
    <3>1. first \in M /\ first \in 1..N
      BY <1>1, <1>2
    <3> QED BY <1>1, <3>1
  <2> HIDE DEF first
  <2> QED BY <2>1, <2>2
<1>5. ASSUME NEW s \in 1..(N + 1), begins(s) PROVE s = first
  <2>1. CASE s < first
    <3>1. s \in 1..(first - 1) /\ s <= N
      BY <1>1, <1>3, <2>1
    <3> QED BY <1>4, <1>5, <3>1
  <2>2. CASE first < s
    <3>1. first \in 1..(s - 1) /\ first <= N
      BY <1>1, <1>3, <2>2
    <3> QED BY <1>4, <1>5, <3>1
  <2> HIDE DEF first
  <2> QED BY <1>1, <1>3, <2>1, <2>2
<1>6. LoopStart = first
  <2> HIDE DEF first
  <2> QED BY <1>3, <1>4, <1>5 DEF LoopStart
<1>7. LoopFrom = StartIndex(tu, ts)
  <2>1. CASE M # {}
    <3>1. LoopStart \in 1..N /\ LoopStart = Min(M)
      BY <1>1, <1>2, <1>6, <2>1
    <3>2. ~(LoopStart > N)
      BY <1>1, <3>1
    <3> QED BY <2>1, <3>1, <3>2 DEF LoopFrom, StartIndex
  <2>2. CASE M = {}
    <3>1. LoopStart = N + 1 /\ LoopStart > N
      BY <1>1, <1>6, <2>2
    <3> QED BY <2>2, <3>1 DEF LoopFrom, StartIndex
  <2> QED BY <2>1, <2>2
<1> QED BY <1>7, DecodedShape, StartIndexType

\* What stop i changes of the running delay: a prediction with a delay sets
\* it, NO_DATA ends it, everything else leaves it.
LEMMA CarriedDelayStep ==
    ASSUME LoopTypeOK, NEW day \in Int,
           NEW i \in 1..Len(ts.stops), StartIndex(tu, ts) <= i
    PROVE  CarriedDelay(tu, ts, day, i + 1)
             = IF IsNoData(tu, ts, i) THEN None
               ELSE IF /\ OwnPrediction(tu, ts, day, i) # None
                       /\ OwnPrediction(tu, ts, day, i).delay # None
                    THEN OwnPrediction(tu, ts, day, i).delay
               ELSE CarriedDelay(tu, ts, day, i)
<1> DEFINE Own(j) == OwnPrediction(tu, ts, day, j)
           decides(j) == \/ IsNoData(tu, ts, j)
                         \/ Own(j) # None /\ Own(j).delay # None
           from == StartIndex(tu, ts)
           decisive(m) == {j \in from..(m - 1) : decides(j)}
<1>1. from \in Nat \ {0} /\ i \in Nat \ {0} /\ from <= i
  BY DecodedShape, StartIndexType DEF IsTripSchedule
<1>2. /\ (i + 1) - 1 = i
      /\ i \in from..i
      /\ \A j \in from..i : j \in from..(i - 1) \/ j = i
      /\ \A j \in from..(i - 1) : j \in from..i
  BY <1>1
<1>3. CASE decides(i)
  <2>1. decisive(i + 1) # {} /\ Max(decisive(i + 1)) = i
    <3>1. i \in decisive(i + 1) /\ decisive(i + 1) \in SUBSET (1..i)
      <4>1. \A j \in from..i : j \in 1..i
        BY <1>1
      <4> HIDE DEF decides, from
      <4> QED BY <1>2, <1>3, <4>1
    <3> HIDE DEF decisive
    <3> QED BY <1>1, <3>1, MaxGrows
  <2>2. CarriedDelay(tu, ts, day, i + 1)
          = IF IsNoData(tu, ts, i) THEN None ELSE Own(i).delay
    BY <2>1 DEF CarriedDelay
  <2> QED BY <1>3, <2>2
<1>4. CASE ~decides(i)
  <2>1. decisive(i + 1) = decisive(i)
    <3> HIDE DEF decides, from
    <3> QED BY <1>2, <1>4
  <2>2. CarriedDelay(tu, ts, day, i + 1) = CarriedDelay(tu, ts, day, i)
    BY <2>1 DEF CarriedDelay
  <2> QED BY <1>4, <2>2
<1> QED BY <1>3, <1>4

\* What the loop has come to after stop i: the delay that reaches the next
\* stop, and what the stops so far are foretold.
Reports(day, i) == IsSkipped(tu, ts, i) \/ StopPrediction(tu, ts, day, i) # None

Foretells(day, i) ==
    {<<j, Foretold(tu, ts, day, j)>> :
        j \in {k \in StartIndex(tu, ts)..i : Reports(day, k)}}

StopUpTo(day, i) ==
    [prop |-> CarriedDelay(tu, ts, day, i + 1), out |-> Foretells(day, i)]

LEMMA ForetellsStep ==
    ASSUME LoopTypeOK, NEW day \in Int,
           NEW i \in 1..Len(ts.stops), StartIndex(tu, ts) <= i
    PROVE  /\ Reports(day, i) =>
                Foretells(day, i)
                  = Foretells(day, i - 1) \cup {<<i, Foretold(tu, ts, day, i)>>}
           /\ ~Reports(day, i) => Foretells(day, i) = Foretells(day, i - 1)
<1> DEFINE from == StartIndex(tu, ts)
<1>1. from \in Nat \ {0} /\ i \in Nat \ {0} /\ from <= i
  BY DecodedShape, StartIndexType DEF IsTripSchedule
<1>2. /\ i \in from..i
      /\ \A j \in from..i : j \in from..(i - 1) \/ j = i
      /\ \A j \in from..(i - 1) : j \in from..i
  BY <1>1
<1> HIDE DEF from
<1>3. Foretells(day, i) = {<<j, Foretold(tu, ts, day, j)>> :
                              j \in {k \in from..i : Reports(day, k)}}
  BY DEF Foretells, from
<1>4. Foretells(day, i - 1) = {<<j, Foretold(tu, ts, day, j)>> :
                              j \in {k \in from..(i - 1) : Reports(day, k)}}
  BY DEF Foretells, from
<1> QED BY <1>2, <1>3, <1>4

\* A record of a prediction is not the absence of one.
LEMMA PredictionIsNotNone ==
    ASSUME NEW p \in Int, NEW d \in Int
    PROVE  [pred |-> p, delay |-> d] # None
<1>1. [pred |-> p, delay |-> d] \in [pred: Int, delay: Int \cup {None}]
  OBVIOUS
<1> QED BY <1>1, NoneAssumption

\* A stop of the loop.
LEMMA StopUpToStep ==
    ASSUME LoopTypeOK, ~tu.canceled, NEW day \in Int,
           NEW i \in 1..Len(ts.stops), StartIndex(tu, ts) <= i
    PROVE  StopUpTo(day, i) = Visit(StopUpTo(day, i - 1), day, i, Match(tu, ts, i))
<1> DEFINE stu     == Match(tu, ts, i)
           sched   == Sched(ts, day, i)
           carried == CarriedDelay(tu, ts, day, i)
           next    == CarriedDelay(tu, ts, day, i + 1)
           own     == OwnPrediction(tu, ts, day, i)
           before  == StopUpTo(day, i - 1)
           old     == Foretells(day, i - 1)
           new     == Foretells(day, i)
           foretold == Foretold(tu, ts, day, i)
<1>1. before = [prop |-> carried, out |-> old]
  <2>1. (i - 1) + 1 = i
    BY DecodedShape DEF IsTripSchedule
  <2> QED BY <2>1 DEF StopUpTo
<1>2. StopUpTo(day, i) = [prop |-> next, out |-> new]
  BY DEF StopUpTo
<1>3. next = IF IsNoData(tu, ts, i) THEN None
             ELSE IF own # None /\ own.delay # None THEN own.delay ELSE carried
  BY CarriedDelayStep
<1>4. /\ Reports(day, i) => new = old \cup {<<i, foretold>>}
      /\ ~Reports(day, i) => new = old
  BY ForetellsStep
<1>5. /\ IsSkipped(tu, ts, i) <=> stu # None /\ stu.rel = "SKIPPED"
      /\ IsNoData(tu, ts, i) <=> stu # None /\ stu.rel = "NO_DATA"
      /\ own = IF stu = None THEN None
               ELSE IF stu.rel \in {"SKIPPED", "NO_DATA"} THEN None
               ELSE Prediction(stu, tu, sched)
      /\ StopPrediction(tu, ts, day, i)
           = IF stu # None THEN own
             ELSE IF carried = None \/ sched = None THEN None
             ELSE [pred |-> sched + carried, delay |-> carried]
      /\ foretold = IF IsSkipped(tu, ts, i) THEN None ELSE StopPrediction(tu, ts, day, i)
      /\ Reports(day, i) <=> IsSkipped(tu, ts, i) \/ StopPrediction(tu, ts, day, i) # None
  BY DEF IsSkipped, IsNoData, OwnPrediction, StopPrediction, Foretold, Reports
<1>6. Visit(before, day, i, stu)
        = IF stu # None
          THEN CASE stu.rel = "SKIPPED" -> [prop |-> carried, out |-> old \cup {<<i, None>>}]
                 [] stu.rel = "NO_DATA" -> [prop |-> None, out |-> old]
                 [] OTHER ->
                      IF Prediction(stu, tu, sched) = None THEN [prop |-> carried, out |-> old]
                      ELSE [prop |-> IF Prediction(stu, tu, sched).delay # None
                                     THEN Prediction(stu, tu, sched).delay ELSE carried,
                            out  |-> old \cup {<<i, Prediction(stu, tu, sched)>>}]
          ELSE IF carried = None \/ sched = None THEN [prop |-> carried, out |-> old]
          ELSE [prop |-> carried,
                out  |-> old \cup {<<i, [pred |-> sched + carried, delay |-> carried]>>}]
  <2>1. before.prop = carried /\ before.out = old /\ [before EXCEPT !.prop = None] = [prop |-> None, out |-> old]
    <3> HIDE DEF before, carried, old
    <3> QED BY <1>1
  <2> HIDE DEF before, carried, old, stu
  <2> QED BY <1>1, <2>1 DEF Visit
<1>7. carried # None /\ sched # None => [pred |-> sched + carried, delay |-> carried] # None
  <2>1. carried \in Time /\ sched \in Time
    BY DecodedShape, CarriedDelayType, SchedType
  <2> HIDE DEF carried, sched
  <2>2. carried # None /\ sched # None => carried \in Int /\ sched + carried \in Int
    BY <2>1 DEF Time
  <2> QED BY <2>2, PredictionIsNotNone
<1> HIDE DEF stu, sched, carried, next, own, before, old, new, foretold
<1>8. CASE stu # None /\ stu.rel = "SKIPPED"
  BY <1>2, <1>3, <1>4, <1>5, <1>6, <1>8 DEF stu, before
<1>9. CASE stu # None /\ stu.rel = "NO_DATA"
  BY <1>2, <1>3, <1>4, <1>5, <1>6, <1>9 DEF stu, before
<1>10. CASE stu # None /\ stu.rel \notin {"SKIPPED", "NO_DATA"}
  <2>1. own = Prediction(stu, tu, sched) /\ ~IsNoData(tu, ts, i) /\ ~IsSkipped(tu, ts, i)
    BY <1>5, <1>10
  <2>2. foretold = own /\ (Reports(day, i) <=> own # None)
    BY <1>5, <1>10, <2>1
  <2>3. Visit(before, day, i, stu)
          = IF own = None THEN [prop |-> carried, out |-> old]
            ELSE [prop |-> IF own.delay # None THEN own.delay ELSE carried,
                  out  |-> old \cup {<<i, own>>}]
    BY <1>6, <1>10, <2>1
  <2>4. CASE own = None
    BY <1>2, <1>3, <1>4, <2>1, <2>2, <2>3, <2>4 DEF stu, before
  <2>5. CASE own # None
    BY <1>2, <1>3, <1>4, <2>1, <2>2, <2>3, <2>5 DEF stu, before
  <2> QED BY <2>4, <2>5
<1>11. CASE stu = None
  <2>1. /\ own = None /\ ~IsNoData(tu, ts, i) /\ ~IsSkipped(tu, ts, i) /\ next = carried
        /\ foretold = StopPrediction(tu, ts, day, i)
        /\ Reports(day, i) <=> StopPrediction(tu, ts, day, i) # None
    BY <1>3, <1>5, <1>11
  <2>2. CASE carried = None \/ sched = None
    BY <1>2, <1>4, <1>5, <1>6, <1>11, <2>1, <2>2 DEF stu, before
  <2>3. CASE carried # None /\ sched # None
    <3>1. foretold = [pred |-> sched + carried, delay |-> carried] /\ Reports(day, i)
      BY <1>5, <1>7, <1>11, <2>1, <2>3
    <3>2. Visit(before, day, i, stu) = [prop |-> carried, out |-> old \cup {<<i, foretold>>}]
      BY <1>6, <1>11, <2>3, <3>1
    <3> QED BY <1>2, <1>4, <2>1, <3>1, <3>2 DEF stu, before
  <2> QED BY <2>2, <2>3
<1> QED BY <1>8, <1>9, <1>10, <1>11

\* The loop over the stops puts out what each stop from the first is foretold.
LEMMA StopLoopForetells ==
    ASSUME LoopTypeOK, ~tu.canceled, NEW day \in Int
    PROVE  StopLoop(day) = Foretells(day, Len(ts.stops))
<1> DEFINE N == Len(ts.stops)
           none == [prop |-> tu.delay, out |-> {}]
           W == [i \in 0..N |-> StopUpTo(day, i)]
<1>1. N \in Nat /\ LoopFrom = StartIndex(tu, ts) /\ LoopFrom \in Nat \ {0}
  BY DecodedShape, LoopFromIsStart DEF IsTripSchedule
<1>2. ASSUME NEW i \in 0..N, i < LoopFrom PROVE W[i] = none
  <2>1. StartIndex(tu, ts)..((i + 1) - 1) = {} /\ StartIndex(tu, ts)..i = {}
    BY <1>1, <1>2
  <2>2. CarriedDelay(tu, ts, day, i + 1) = tu.delay
    BY <2>1 DEF CarriedDelay
  <2>3. Foretells(day, i) = {}
    BY <2>1 DEF Foretells
  <2> QED BY <2>2, <2>3 DEF StopUpTo
<1>3. ASSUME NEW i \in 0..N, ~(i < LoopFrom)
      PROVE  i \in 1..N /\ W[i] = Visit(W[i - 1], day, i, MatchLoop[i])
  <2>1. i \in 1..N /\ i - 1 \in 0..N /\ StartIndex(tu, ts) <= i
    BY <1>1, <1>3
  <2>2. MatchLoop[i] = Match(tu, ts, i)
    BY <2>1, MatchLoopIsMatch
  <2>3. W[i] = StopUpTo(day, i) /\ W[i - 1] = StopUpTo(day, i - 1)
    BY <2>1
  <2> HIDE DEF W
  <2> QED BY <2>1, <2>2, <2>3, StopUpToStep
<1>4. W = [i \in 0..N |-> IF i < LoopFrom THEN none
                          ELSE Visit(W[i - 1], day, i, MatchLoop[i])]
  <2>1. W = [i \in 0..N |-> W[i]]
    OBVIOUS
  <2> HIDE DEF W, none
  <2> QED BY <1>2, <1>3, <2>1
<1>5. PICK f : /\ f = [i \in 0..N |-> IF i < LoopFrom THEN none
                                      ELSE Visit(f[i - 1], day, i, MatchLoop[i])]
               /\ StopLoop(day) = f[N].out
  <2> HIDE DEF W
  <2> QED BY <1>4 DEF StopLoop, LoopFrom, LoopStart
<1>6. f[N] = W[N]
  <2>1. f[0] = W[0]
    <3>1. 0 \in 0..N /\ 0 < LoopFrom
      BY <1>1
    <3> HIDE DEF W, none
    <3> QED BY <1>2, <1>5, <3>1
  <2>2. \A m \in 1..N : f[m - 1] = W[m - 1] => f[m] = W[m]
    <3> SUFFICES ASSUME NEW m \in 1..N, f[m - 1] = W[m - 1] PROVE f[m] = W[m]
      OBVIOUS
    <3>1. m \in 0..N
      BY <1>1
    <3>2. f[m] = IF m < LoopFrom THEN none ELSE Visit(f[m - 1], day, m, MatchLoop[m])
      <4> HIDE DEF W, none
      <4> QED BY <1>5, <3>1
    <3> HIDE DEF W, none
    <3> QED BY <1>2, <1>3, <3>1, <3>2
  <2> HIDE DEF W, N
  <2> QED BY <1>1, <2>1, <2>2, LoopsAlike
<1>7. W[N] = StopUpTo(day, N)
  BY <1>1
<1>8. StopUpTo(day, N).out = Foretells(day, N)
  BY DEF StopUpTo
<1> HIDE DEF W
<1> QED BY <1>5, <1>6, <1>7, <1>8

\* EventsAgreeWithLoop in every reachable state, however long the trip and the
\* update: the running delay of reconcileTrip, the skips it survives and the
\* NO_DATA stops that end it come to the nearest earlier stop that decides.
THEOREM EventsAreLooped == LoopSpec => []EventsAgreeWithLoop
<1>1. LoopTypeOK => EventsAgreeWithLoop
  <2> DEFINE day == ServiceDate(tu, ts, polledAt)
             N == Len(ts.stops)
             reported == ReportedStops(tu, ts, day)
             Ev(i) == Event(tu, ts, day, 1, 1, polledAt, i, Foretold(tu, ts, day, i))
             Row(e) == <<e.key[3], e.skipped, e.pred, e.delay>>
             Put(out) == LET p == out[2]
                         IN  IF p = None THEN <<ts.stops[out[1]].seq, TRUE, None, None>>
                             ELSE <<ts.stops[out[1]].seq, FALSE, p.pred, p.delay>>
             Said(i) == <<i, Foretold(tu, ts, day, i)>>
  <2> SUFFICES ASSUME LoopTypeOK, day # None, ~tu.canceled
               PROVE  {Row(e) : e \in ReconcileTrip(tu, ts, 1, 1, polledAt)}
                        = {Put(out) : out \in StopLoop(day)}
    BY DEF EventsAgreeWithLoop
  <2>1. day \in Int
    BY DecodedShape, ServiceDateType DEF Time
  <2>2. ReconcileTrip(tu, ts, 1, 1, polledAt) = {Ev(i) : i \in reported}
    <3>1. {ServiceDate(tu, ts, polledAt)} \ {None} = {day}
      OBVIOUS
    <3> QED BY <3>1 DEF ReconcileTrip
  <2>3. StopLoop(day) = {Said(i) : i \in reported}
    <3>1. reported = {i \in StartIndex(tu, ts)..N : Reports(day, i)}
      BY DEF ReportedStops, Reports
    <3> HIDE DEF day
    <3> QED BY <2>1, <3>1, StopLoopForetells DEF Foretells
  <2>4. ASSUME NEW i \in reported PROVE Row(Ev(i)) = Put(Said(i))
    <3> DEFINE p == Foretold(tu, ts, day, i)
    <3>1. Row(Ev(i)) = <<ts.stops[i].seq, IsSkipped(tu, ts, i),
                         IF p = None THEN None ELSE p.pred,
                         IF p = None THEN None ELSE p.delay>>
      BY DEF Event
    <3>2. Put(Said(i)) = IF p = None THEN <<ts.stops[i].seq, TRUE, None, None>>
                         ELSE <<ts.stops[i].seq, FALSE, p.pred, p.delay>>
      OBVIOUS
    <3>3. IsSkipped(tu, ts, i) = (p = None)
      BY DEF ReportedStops, Foretold, IsSkipped
    <3> HIDE DEF p
    <3>4. CASE p = None
      BY <3>1, <3>2, <3>3, <3>4
    <3>5. CASE p # None
      BY <3>1, <3>2, <3>3, <3>5
    <3> QED BY <3>4, <3>5
  <2> HIDE DEF day, reported, Ev, Row, Put, Said
  <2> QED BY <2>2, <2>3, <2>4
<1> QED
  BY <1>1, DecodedTypeOK, PTL

-----------------------------------------------------------------------------
\* The calendar.

\* Years follow one another, 365 or 366 days long.
LEMMA YearsFollow ==
    ASSUME NEW y \in Nat \ {0}
    PROVE  /\ Jan1(y) \in Int /\ Jan1(y + 1) \in Int
           /\ Jan1(y) + 365 <= Jan1(y + 1) /\ Jan1(y + 1) <= Jan1(y) + 366
           /\ 365 * (y - 1) <= Jan1(y) /\ Jan1(y + 1) <= 366 * y
BY DEF Jan1

LEMMA LaterYears ==
    ASSUME NEW y \in Nat \ {0}, NEW z \in Nat, y < z
    PROVE  Jan1(y + 1) <= Jan1(z)
BY DEF Jan1

\* YearOf gives the one year a day is in.
LEMMA YearFound ==
    ASSUME NEW y \in Nat \ {0}, NEW d \in Int, Jan1(y) <= d, d < Jan1(y + 1)
    PROVE  YearOf(d) = y
<1>1. /\ Jan1(y) \in Int /\ Jan1(y + 1) \in Int
      /\ 365 * (y - 1) <= d /\ d < 366 * y
  <2>1. /\ Jan1(y) \in Int /\ Jan1(y + 1) \in Int
        /\ 365 * (y - 1) <= Jan1(y) /\ Jan1(y + 1) <= 366 * y
    BY YearsFollow
  <2> DEFINE a == Jan1(y)
             b == Jan1(y + 1)
  <2>2. a \in Int /\ b \in Int /\ 365 * (y - 1) <= a /\ b <= 366 * y /\ a <= d /\ d < b
    BY <2>1
  <2> HIDE DEF a, b
  <2>3. 365 * (y - 1) <= d /\ d < 366 * y
    BY <2>2
  <2> QED BY <2>1, <2>3
<1>2. y \in (d \div 366)..(d \div 365 + 1)
  <2>1. d \div 366 \in Int /\ d \div 365 \in Int
    OBVIOUS
  <2>2. d \div 366 <= y
    BY <1>1
  <2>3. y <= d \div 365 + 1
    BY <1>1
  <2> QED BY <2>1, <2>2, <2>3
<1>3. ASSUME NEW z \in (d \div 366)..(d \div 365 + 1), Jan1(z) <= d, d < Jan1(z + 1)
      PROVE  z = y
  <2>1. z \in Nat
    <3>1. d \in Nat
      BY <1>1
    <3> QED BY <1>3, <3>1
  <2>2. z # 0
    <3>1. Jan1(0 + 1) = 0
      BY DEF Jan1
    <3>2. 0 <= d
      BY <1>1
    <3> QED BY <1>3, <3>1, <3>2
  <2>3. Jan1(z) \in Int /\ Jan1(z + 1) \in Int
    BY <2>1, <2>2, YearsFollow
  <2>4. CASE y < z
    <3>1. Jan1(y + 1) <= Jan1(z)
      BY <2>1, <2>4, LaterYears
    <3> QED BY <1>1, <1>3, <2>3, <3>1
  <2>5. CASE z < y
    <3>1. Jan1(z + 1) <= Jan1(y)
      BY <2>1, <2>2, <2>5, LaterYears
    <3> QED BY <1>1, <1>3, <2>3, <3>1
  <2> QED BY <2>1, <2>4, <2>5
<1> QED
  BY <1>2, <1>3 DEF YearOf

\* The Monday of a week, from its year and number.
LEMMA WeekFromNumber ==
    ASSUME NEW week \in Int, week % 7 = 0, NEW first \in Int, NEW days \in Nat,
           week + 3 = first + days
    PROVE  ((first + 3) - ((first + 3) % 7)) + ((days \div 7 + 1) - 1) * 7 = week
OBVIOUS

\* parsePartitionName inverts partitionName on every week, whichever year its
\* Thursday is in.
LEMMA WeekNamed ==
    ASSUME NEW y \in NamedYears, NEW d \in Int, Jan1(y) <= d, d < Jan1(y + 1)
    PROVE  ParsePartitionName(PartitionName(WeekStart(d))) = {WeekStart(d)}
<1> DEFINE week == WeekStart(d)
           th   == week + 3
<1>1. y \in 1001..9998
  BY DEF NamedYears
<1>2. /\ Jan1(y - 1) \in Int /\ Jan1(y) \in Int /\ Jan1(y + 1) \in Int /\ Jan1(y + 2) \in Int
      /\ Jan1(y - 1) + 365 <= Jan1(y) /\ Jan1(y + 1) + 365 <= Jan1(y + 2)
  <2>1. (y - 1) + 1 = y /\ y - 1 \in Nat \ {0} /\ y \in Nat \ {0} /\ y + 1 \in Nat \ {0}
        /\ (y + 1) + 1 = y + 2
    BY <1>1
  <2>2. /\ Jan1(y - 1) \in Int /\ Jan1((y - 1) + 1) \in Int
        /\ Jan1(y - 1) + 365 <= Jan1((y - 1) + 1)
    BY <2>1, YearsFollow
  <2>3. /\ Jan1(y + 1) \in Int /\ Jan1((y + 1) + 1) \in Int
        /\ Jan1(y + 1) + 365 <= Jan1((y + 1) + 1)
    BY <2>1, YearsFollow
  <2> QED BY <2>1, <2>2, <2>3
<1>3. d \in Int
  OBVIOUS
<1>4. /\ week \in Int /\ week % 7 = 0 /\ week <= d /\ d <= week + 6
      /\ WeekStart(week) = week
  <2>1. week \in Int /\ week % 7 = 0 /\ week <= d /\ d <= week + 6
    BY <1>3 DEF WeekStart, Weekday
  <2> HIDE DEF week
  <2> QED BY <2>1 DEF WeekStart, Weekday
<1> HIDE DEF week
<1>5. PICK z \in {y - 1, y, y + 1} : Jan1(z) <= th /\ th < Jan1(z + 1)
  <2>1. d >= Jan1(y) /\ d < Jan1(y + 1)
    BY <1>2
  <2>2. CASE th < Jan1(y)
    BY <1>1, <1>2, <1>3, <1>4, <2>1, <2>2, (y - 1) + 1 = y
  <2>3. CASE Jan1(y) <= th /\ th < Jan1(y + 1)
    BY <2>3
  <2>4. CASE Jan1(y + 1) <= th
    BY <1>1, <1>2, <1>3, <1>4, <2>1, <2>4, (y + 1) + 1 = y + 2
  <2> QED BY <1>2, <1>4, <2>2, <2>3, <2>4
<1>6. z \in 1000..9999 /\ z \in Nat \ {0} /\ Jan1(z) \in Int /\ Jan1(z + 1) \in Int
      /\ Jan1(z + 1) <= Jan1(z) + 366
  <2>1. z \in 1000..9999
    BY <1>1, <1>5
  <2>2. z \in Nat \ {0}
    BY <2>1
  <2>3. Jan1(z) \in Int /\ Jan1(z + 1) \in Int /\ Jan1(z + 1) <= Jan1(z) + 366
    BY <2>2, YearsFollow
  <2> QED BY <2>1, <2>2, <2>3
<1> DEFINE k == (th - Jan1(z)) \div 7 + 1
<1>7. PartitionName(week) = <<z, k>>
  <2>1. YearOf(th) = z
    BY <1>4, <1>5, <1>6, YearFound
  <2> QED BY <1>4, <2>1 DEF PartitionName, ISOWeek
<1>8. k \in 0..99
  <2> DEFINE days == th - Jan1(z)
  <2>1. days \in 0..365
    BY <1>4, <1>5, <1>6
  <2>2. days \div 7 + 1 \in 0..99
    <3> HIDE DEF days
    <3> QED BY <2>1
  <2> QED BY <2>2
<1>9. IsoWeekStart(z, k) = week
  <2> DEFINE days == th - Jan1(z)
  <2>1. days \in Nat /\ week + 3 = Jan1(z) + days
    BY <1>4, <1>5, <1>6
  <2>2. ((Jan1(z) + 3) - ((Jan1(z) + 3) % 7)) + ((days \div 7 + 1) - 1) * 7 = week
    <3> HIDE DEF days
    <3> QED BY <1>4, <1>6, <2>1, WeekFromNumber
  <2> QED BY <2>2 DEF IsoWeekStart, WeekStart, Weekday
<1> HIDE DEF k
<1>10. /\ <<z, k>>[1] = z /\ <<z, k>>[2] = k
  OBVIOUS
<1> QED
  BY <1>6, <1>7, <1>8, <1>9, <1>10 DEF ParsePartitionName, week

-----------------------------------------------------------------------------
\* Service dates and keys.

\* The feed's revisions stay within the drift.
THEOREM DriftTypeOK == Spec => []TypeOK
<1>1. Init => TypeOK
  BY ServiceDatesAssumption DEF Init, TypeOK
<1>2. TypeOK /\ [Next]_vars => TypeOK'
  BY DEF TypeOK, Next, Revise, vars
<1> QED
  BY <1>1, <1>2, PTL DEF Spec

\* NamesTellTheWeek on every date of a year of four digits.
THEOREM NamesCorrect == Spec => []NamesTellTheWeek
<1>1. TypeOK => NamesTellTheWeek
  <2> SUFFICES ASSUME TypeOK PROVE NamesTellTheWeek
    OBVIOUS
  <2>1. date \in Dates
    BY DEF TypeOK
  <2>2. PICK y \in NamedYears : Jan1(y) <= date /\ date < Jan1(y + 1)
    BY <2>1, YearsAssumption
  <2>3. date \in Int
    BY <2>1, ServiceDatesAssumption
  <2> QED BY <2>2, <2>3, WeekNamed DEF NamesTellTheWeek
<1> QED
  BY <1>1, DriftTypeOK, PTL

\* WallClockKept in every reachable state: a GTFS time on the noon side of the
\* transition is what the zone's clocks show (NoonMinus12, ScheduledTime).
THEOREM WallClockCorrect == Spec => []WallClockKept
<1>1. TypeOK => WallClockKept
  <2> SUFFICES ASSUME TypeOK,
                      Offset(ScheduledTime(date, secs)) = Offset(Noon(date))
               PROVE  ScheduledTime(date, secs) + Offset(ScheduledTime(date, secs))
                        = date * Day + secs
    BY DEF WallClockKept
  <2> DEFINE noon == Noon(date)
             half == Day \div 2
             wall == date * Day
             t    == ScheduledTime(date, secs)
  <2>1. half \in Int /\ wall \in Int /\ secs \in Int
    BY ZoneAssumption, ServiceDatesAssumption DEF TypeOK
  <2>2. noon \in Int
    <3> HIDE DEF half
    <3> QED BY <2>1, ZoneAssumption DEF Noon
  <2>3. noon + Offset(noon) = wall + half
    BY ServiceDatesAssumption DEF TypeOK
  <2>4. t = noon - half + secs
    BY DEF ScheduledTime, NoonMinus12
  <2>5. Offset(noon) \in Int
    BY ZoneAssumption DEF Offset
  <2> HIDE DEF noon, half, wall, t
  <2>6. t + Offset(noon) = wall + secs
    BY <2>1, <2>2, <2>3, <2>4, <2>5
  <2> QED BY <2>6 DEF t, noon, wall
<1> QED
  BY <1>1, DriftTypeOK, PTL

\* A GTFS time is the wall-clock time under one of the zone's two offsets.
LEMMA ScheduleOffset ==
    ASSUME NEW d \in Int, NEW s \in Int
    PROVE  \E off \in {OffBefore, OffAfter} : ScheduledTime(d, s) = d * Day + s - off
<1> DEFINE half == Day \div 2
           day  == d * Day
<1>1. half \in Int /\ day \in Int
  BY ZoneAssumption
<1>2. Noon(d) = day + half - OffBefore \/ Noon(d) = day + half - OffAfter
  <2>1. Noon(d) = IF (day + half) - OffBefore < SwitchAt THEN (day + half) - OffBefore
                  ELSE (day + half) - OffAfter
    BY Zenon DEF Noon
  <2> HIDE DEF day, half
  <2> QED BY <1>1, <2>1, ZoneAssumption
<1>3. PICK off \in {OffBefore, OffAfter} : Noon(d) = day + half - off
  BY <1>2
<1>4. ScheduledTime(d, s) = Noon(d) - half + s
  BY DEF ScheduledTime, NoonMinus12
<1> HIDE DEF half, day
<1>5. ScheduledTime(d, s) = day + s - off
  BY <1>1, <1>3, <1>4, ZoneAssumption
<1> QED
  BY <1>5 DEF day

\* The schedules of two neighbouring dates are a day apart, give or take the
\* change of the clocks.
LEMMA NeighbouringDates ==
    ASSUME NEW d \in Int, NEW next \in Int, next = d + 1, NEW s \in Int
    PROVE  /\ ScheduledTime(d, s) \in Int
           /\ ScheduledTime(next, s) \in Int
           /\ ScheduledTime(next, s) - ScheduledTime(d, s) >= Day - Distance(OffBefore, OffAfter)
<1> DEFINE day  == d * Day
           that == next * Day
<1>1. day \in Int /\ that \in Int /\ that - day = Day
  BY ZoneAssumption
<1>2. PICK off \in {OffBefore, OffAfter} : ScheduledTime(d, s) = day + s - off
  BY ScheduleOffset
<1>3. PICK nextOff \in {OffBefore, OffAfter} : ScheduledTime(next, s) = that + s - nextOff
  BY ScheduleOffset
<1> HIDE DEF day, that
<1> QED
  BY <1>1, <1>2, <1>3, ZoneAssumption DEF Distance

\* resolveServiceDate finds the date: the true date is a candidate, and the
\* other candidate is farther from the prediction.
LEMMA CandidateChosen ==
    ASSUME NEW d \in Int, NEW s \in Nat, NEW drift \in Int,
           NEW ref, ref = [secs |-> s, at |-> ScheduledTime(d, s) + drift],
           NEW upd, NEW trip, NEW poll,
           upd.startDate = None, DateReference(upd, trip, poll) = ref,
           CivilDate(ref.at) \in {d, d + 1},
           Distance(drift, 0) < Day \div 2 - Distance(OffBefore, OffAfter)
    PROVE  ServiceDate(upd, trip, poll) = d
<1> DEFINE at   == ScheduledTime(d, s) + drift
           S(x) == ScheduledTime(x, s)
           change == Distance(OffBefore, OffAfter)
           half == Day \div 2
<1>1. /\ S(d) \in Int /\ S(d - 1) \in Int /\ S(d) - S(d - 1) >= Day - change
      /\ S(d + 1) \in Int /\ S(d + 1) - S(d) >= Day - change
  <2> DEFINE prev == d - 1
             next == d + 1
  <2>1. prev \in Int /\ d = prev + 1 /\ next \in Int /\ next = d + 1 /\ s \in Int
    OBVIOUS
  <2> HIDE DEF prev, next
  <2>2. S(d) \in Int /\ S(prev) \in Int /\ S(d) - S(prev) >= Day - change
    BY <2>1, NeighbouringDates
  <2>3. S(next) \in Int /\ S(next) - S(d) >= Day - change
    BY <2>1, NeighbouringDates
  <2> QED BY <2>2, <2>3 DEF prev, next
<1>2. change \in Int /\ change >= 0 /\ half \in Int /\ half + half <= Day /\ Day \in Int
  BY ZoneAssumption DEF Distance
<1>3. /\ Distance(drift, 0) < half - change
      /\ Distance(drift, 0) >= 0 /\ Distance(drift, 0) \in Int
  BY DEF Distance
<1>4. ServiceDate(upd, trip, poll) =
        LET today == CivilDate(at) IN
        IF Distance(S(today), at) < Distance(S(today - 1), at) THEN today ELSE today - 1
  BY DEF ServiceDate
<1>5. at = S(d) + drift /\ at \in Int
  BY <1>1
<1> HIDE DEF at, S, change, half
<1>6. CASE CivilDate(at) = d
  <2>1. Distance(S(d), at) < Distance(S(d - 1), at)
    BY <1>1, <1>2, <1>3, <1>5 DEF Distance
  <2> QED BY <1>4, <1>6, <2>1
<1>7. CASE CivilDate(at) = d + 1
  <2>1. ~(Distance(S(d + 1), at) < Distance(S(d), at))
    BY <1>1, <1>2, <1>3, <1>5 DEF Distance
  <2>2. (d + 1) - 1 = d
    OBVIOUS
  <2> QED BY <1>4, <1>7, <2>1, <2>2
<1>8. CivilDate(at) \in {d, d + 1}
  BY DEF at
<1> QED
  BY <1>6, <1>7, <1>8

\* The schedule and the update of the trip, field by field, and that the
\* update names its one stop.
LEMMA UpdateOfTrip ==
    ASSUME TypeOK
    PROVE  /\ date \in Int /\ secs \in Nat /\ late \in Int
           /\ ScheduledTime(date, secs) \in Int /\ Predicted \in Int /\ Predicted > 0
           /\ Predicted = ScheduledTime(date, secs) + late
           /\ Update.stus = <<Update.stus[1]>> /\ Len(Update.stus) = 1
           /\ Update.stus[1].arr = Predicted /\ Update.stus[1].dep = 0
           /\ Update.stus[1].arrDelay = None /\ Update.stus[1].depDelay = None
           /\ Update.stus[1].rel = "SCHEDULED" /\ Update.stus[1] # None
           /\ Update.startDate = None /\ ~Update.canceled /\ Update.delay = None
           /\ Len(Trip.stops) = 1 /\ Trip.stops[1].seq = 1
           /\ BestSecs(Trip.stops[1]) = secs
           /\ StopIndex(Trip, Update.stus[1]) = 1
<1> DEFINE stu   == Update.stus[1]
           sched == ScheduledTime(date, secs)
           stop  == Trip.stops[1]
<1>1. /\ date \in Int /\ secs \in Nat /\ late \in Int
      /\ sched \in Int /\ Predicted \in Int /\ Predicted > 0 /\ Predicted = sched + late
  <2>1. /\ date \in Dates /\ date \in Int /\ secs \in StopTimes /\ secs \in Nat
        /\ MaxDrift \in Nat /\ late \in -MaxDrift..MaxDrift
    BY ServiceDatesAssumption DEF TypeOK
  <2>2. sched > MaxDrift
    BY <2>1, ServiceDatesAssumption
  <2>3. sched \in Int
    BY <2>1, ScheduledTimeType
  <2>4. Predicted = sched + late
    BY DEF Predicted
  <2> HIDE DEF sched
  <2> QED BY <2>1, <2>2, <2>3, <2>4
<1>2. /\ Update.stus = <<stu>> /\ Len(Update.stus) = 1
      /\ stu.seq = 1 /\ stu.stop = None /\ stu.arr = Predicted /\ stu.dep = 0
      /\ stu.arrDelay = None /\ stu.depDelay = None /\ stu.rel = "SCHEDULED"
      /\ Update.startDate = None /\ ~Update.canceled /\ Update.delay = None
  BY DEF Update
<1>3. /\ Len(Trip.stops) = 1 /\ stop.seq = 1 /\ stop.arr = secs /\ stop.dep = secs
  BY DEF Trip
<1>4. BestSecs(stop) = secs
  BY <1>1, <1>3 DEF BestSecs
<1>5. stu # None
  <2>1. stu \in [seq: Int, stop: {None}, arr: Int, dep: Int, arrDelay: {None},
                depDelay: {None}, rel: {"SCHEDULED"}]
    BY <1>1 DEF Update
  <2> QED BY <2>1, ServiceDatesAssumption
<1> HIDE DEF stu, sched, stop
<1>6. StopIndex(Trip, stu) = 1
  <2>1. {i \in 1..Len(Trip.stops) :
           IF stu.seq >= 0 THEN Trip.stops[i].seq = stu.seq
                           ELSE stu.stop # None /\ Trip.stops[i].stop = stu.stop} = {1}
    BY <1>2, <1>3 DEF stop
  <2>2. Min({1}) = 1
    <3>1. 1..1 = {1}
      OBVIOUS
    <3> QED BY <3>1, MinIndex
  <2> QED BY <2>1, <2>2 DEF StopIndex
<1> QED
  BY <1>1, <1>2, <1>3, <1>4, <1>5, <1>6 DEF stu, sched, stop

\* resolveServiceDate gives the trip's service date back, within the drift.
LEMMA UpdateFindsDate ==
    ASSUME TypeOK, CivilDate(Predicted) \in {date, date + 1},
           Distance(late, 0) < Day \div 2 - Distance(OffBefore, OffAfter)
    PROVE  /\ ServiceDate(Update, Trip, Predicted) = date
           /\ date # None
           /\ Sched(Trip, date, 1) = ScheduledTime(date, secs)
<1> DEFINE stu == Update.stus[1]
<1>1. DateReference(Update, Trip, Predicted) = [secs |-> secs, at |-> Predicted]
  <2>1. 1..1 = {1} /\ Min({1}) = 1 /\ Max({1}) = 1
    BY MinIndex, MaxIndex
  <2>2. Anchors(Update, Trip) = {1}
    BY <2>1, UpdateOfTrip DEF Anchors
  <2>3. FirstPositive(stu.arr, stu.dep) = Predicted
    BY UpdateOfTrip DEF FirstPositive
  <2>4. TimedAnchors(Update, Trip) = {1}
    BY <2>2, <2>3, UpdateOfTrip DEF TimedAnchors
  <2> QED BY <2>1, <2>3, <2>4, UpdateOfTrip DEF DateReference
<1>2. ServiceDate(Update, Trip, Predicted) = date
  BY <1>1, UpdateOfTrip, CandidateChosen
<1>3. Sched(Trip, date, 1) = ScheduledTime(date, secs)
  BY UpdateOfTrip DEF Sched, ScheduledOrZero
<1> QED
  BY <1>2, <1>3, UpdateOfTrip, NoneAssumption

\* The one update is that of the one stop, from which the stop loop starts.
LEMMA OneUpdateMatches ==
    ASSUME TypeOK
    PROVE  /\ Match(Update, Trip, 1) = Update.stus[1]
           /\ StartIndex(Update, Trip) = 1
<1>1. 1..1 = {1} /\ Min({1}) = 1 /\ Max({1}) = 1
  BY MinIndex, MaxIndex
<1>2. Match(Update, Trip, 1) = Update.stus[1]
  <2>1. {n \in 1..Len(Update.stus) : StopIndex(Trip, Update.stus[n]) = 1} = {1}
    BY <1>1, UpdateOfTrip
  <2> QED BY <1>1, <2>1 DEF Match
<1>3. Matched(Update, Trip) = {1}
  BY <1>1, <1>2, UpdateOfTrip DEF Matched
<1> QED
  BY <1>1, <1>2, <1>3 DEF StartIndex

\* DriftKeepsServiceDate in every reachable state, for every zone, date, stop
\* time and drift: while the prediction is within half a day of the schedule
\* on its own civil day or the next, the event lands on the trip's service
\* date with the delay the feed meant (resolveServiceDate, reconcileTrip).
THEOREM DriftCorrect == Spec => []DriftKeepsServiceDate
<1>1. TypeOK => DriftKeepsServiceDate
  <2> SUFFICES ASSUME TypeOK, CivilDate(Predicted) \in {date, date + 1},
                      Distance(late, 0) < Day \div 2 - Distance(OffBefore, OffAfter)
               PROVE  \E e \in ReconcileTrip(Update, Trip, 1, 1, Predicted) :
                        e.key[1] = date /\ e.delay = late
    BY DEF DriftKeepsServiceDate
  <2> DEFINE stu   == Update.stus[1]
             sched == ScheduledTime(date, secs)
  <2>1. /\ date \in Int /\ sched \in Int /\ late \in Int /\ Predicted = sched + late
        /\ Predicted > 0 /\ Predicted \in Int
    BY UpdateOfTrip
  <2>2. /\ Update.stus = <<stu>> /\ Len(Update.stus) = 1
        /\ stu.arr = Predicted /\ stu.dep = 0
        /\ stu.arrDelay = None /\ stu.depDelay = None /\ stu.rel = "SCHEDULED"
        /\ Update.startDate = None /\ ~Update.canceled /\ Update.delay = None
    BY UpdateOfTrip
  <2>3. Len(Trip.stops) = 1 /\ stu # None /\ StopIndex(Trip, stu) = 1
    BY UpdateOfTrip
  <2>4. /\ ServiceDate(Update, Trip, Predicted) = date /\ date # None
        /\ Sched(Trip, date, 1) = sched
    BY UpdateFindsDate
  <2> HIDE DEF stu, sched
  <2>5. 1..1 = {1} /\ Min({1}) = 1 /\ Max({1}) = 1
    BY MinIndex, MaxIndex
  <2>6. Match(Update, Trip, 1) = stu /\ StartIndex(Update, Trip) = 1
    BY OneUpdateMatches DEF stu
  <2>7. sched # None /\ Predicted - sched = late
    BY <2>1, NoneAssumption
  <2>8. Prediction(stu, Update, sched) = [pred |-> Predicted, delay |-> late]
    BY <2>1, <2>2, <2>7 DEF Prediction, FirstPositive
  <2> DEFINE p == [pred |-> Predicted, delay |-> late]
  <2>9. p # None /\ p.delay = late
    BY <2>1, NoneAssumption
  <2> HIDE DEF p
  <2>10. StopPrediction(Update, Trip, date, 1) = p
    <3>1. OwnPrediction(Update, Trip, date, 1) = p
      BY <2>2, <2>3, <2>4, <2>6, <2>8 DEF OwnPrediction, p
    <3> QED BY <2>3, <2>6, <3>1 DEF StopPrediction
  <2>11. ~IsSkipped(Update, Trip, 1)
    BY <2>2, <2>6 DEF IsSkipped
  <2>12. 1 \in ReportedStops(Update, Trip, date)
    BY <2>2, <2>3, <2>5, <2>6, <2>9, <2>10 DEF ReportedStops
  <2>13. Foretold(Update, Trip, date, 1) = p
    BY <2>10, <2>11 DEF Foretold
  <2> DEFINE e == Event(Update, Trip, date, 1, 1, Predicted, 1, p)
  <2>14. e \in ReconcileTrip(Update, Trip, 1, 1, Predicted)
    BY <2>4, <2>12, <2>13 DEF ReconcileTrip
  <2>15. e.key[1] = date /\ e.delay = late
    BY <2>9 DEF Event
  <2> QED BY <2>14, <2>15
<1> QED
  BY <1>1, DriftTypeOK, PTL

\* DeparturesKeepTheirKey in every reachable state: within the drift, the SQL
\* of the rollups files the event under the departure and the class of day of
\* the timetable, in every zone with one transition (scheduledSecsExpr).
THEOREM DeparturesCorrect == Spec => []DeparturesKeepTheirKey
<1>1. TypeOK => DeparturesKeepTheirKey
  <2> SUFFICES ASSUME TypeOK, CivilDate(Predicted) \in {date, date + 1},
                      Distance(late, 0) < Day \div 2 - Distance(OffBefore, OffAfter),
                      NEW e \in ReconcileTrip(Update, Trip, 1, 1, Predicted)
               PROVE  /\ ScheduledSecs(e.key[1], e.sched) = secs
                      /\ DayClass(e.key[1]) = DayClass(date)
    BY DEF DeparturesKeepTheirKey
  <2>1. PICK i \in ReportedStops(Update, Trip, date) :
               e = Event(Update, Trip, date, 1, 1, Predicted, i,
                         Foretold(Update, Trip, date, i))
    BY UpdateFindsDate DEF ReconcileTrip
  <2>2. i = 1
    <3>1. Len(Trip.stops) = 1 /\ ~Update.canceled
      BY UpdateOfTrip
    <3>2. i \in StartIndex(Update, Trip)..1
      BY <2>1, <3>1 DEF ReportedStops
    <3>3. StartIndex(Update, Trip) = 1
      BY OneUpdateMatches
    <3> QED BY <3>2, <3>3
  <2>3. e.key[1] = date /\ e.sched = ScheduledTime(date, secs)
    BY <2>1, <2>2, UpdateFindsDate DEF Event
  <2>4. ScheduledSecs(date, ScheduledTime(date, secs)) = secs
    <3> DEFINE origin == Noon(date) - Day \div 2
    <3>1. ScheduledTime(date, secs) = origin + secs /\ origin + secs \in Int /\ secs \in Int
      BY UpdateOfTrip DEF ScheduledTime, NoonMinus12
    <3>2. ScheduledSecs(date, origin + secs) = (origin + secs) - origin
      BY DEF ScheduledSecs
    <3>3. origin \in Int
      <4>1. Noon(date) \in Int /\ Day \div 2 \in Int
        BY UpdateOfTrip, ZoneAssumption DEF Noon
      <4> QED BY <4>1
    <3> HIDE DEF origin
    <3> QED BY <3>1, <3>2, <3>3
  <2> QED BY <2>3, <2>4
<1> QED
  BY <1>1, DriftTypeOK, PTL

-----------------------------------------------------------------------------
(* The hour of the week.                                                   *)

\* What division by any positive number is.
LEMMA Divided ==
    ASSUME NEW n \in Nat \ {0}, NEW a \in Int
    PROVE  /\ a \div n \in Int /\ a % n \in 0..(n - 1)
           /\ a = n * (a \div n) + (a % n)
<1>1. a \div n \in Int /\ a % n \in 0..(n - 1)
  OBVIOUS
<1>2. a = n * (a \div n) + (a % n)
  OBVIOUS
<1> QED BY <1>1, <1>2

LEMMA DividedBack ==
    ASSUME NEW n \in Nat \ {0}, NEW q \in Int, NEW r \in 0..(n - 1)
    PROVE  (n * q + r) \div n = q /\ (n * q + r) % n = r
<1>1. (n * q + r) \div n = q
  BY SMTT(20)
<1>2. (n * q + r) % n = r
  BY SMTT(20)
<1> QED BY <1>1, <1>2

\* The hour of the week at a wall-clock time that the timetable shows, beyond
\* 24:00 or Sunday's end too.
LEMMA HourOfWall ==
    ASSUME NEW n \in Nat \ {0}, NEW d \in Int, NEW s \in Nat, NEW wall, wall = d * n + s
    PROVE  Weekday(wall \div n) * 24 + ((wall % n) * 24) \div n
             = (Weekday(d) * 24 + (s * 24) \div n) % (7 * 24)
<1> DEFINE q == s \div n
           r == s % n
           h == (r * 24) \div n
           m == (r * 24) % n
<1>1. q \in Int /\ r \in 0..(n - 1) /\ s = n * q + r
  BY Divided
<1>2. r * 24 \in Int
  <2> HIDE DEF r
  <2> QED BY <1>1
<1>3. h \in Int /\ m \in 0..(n - 1) /\ r * 24 = n * h + m
  <2> HIDE DEF r
  <2> QED BY <1>2, Divided
<1> HIDE DEF q, r, h, m
<1>4. wall \div n = d + q /\ wall % n = r
  <2> DEFINE e == d + q
  <2>1. e \in Int /\ n * e = d * n + n * q
    BY <1>1
  <2> HIDE DEF e
  <2>2. wall = n * e + r
    <3> DEFINE day == d * n
               days == n * e
               all == n * q
    <3>1. day \in Int /\ days \in Int /\ all \in Int
      BY <1>1, <2>1
    <3>2. wall = day + s /\ s = all + r /\ days = day + all /\ r \in Int
      BY <1>1, <2>1
    <3> HIDE DEF day, days, all
    <3>3. wall = days + r
      BY <3>1, <3>2
    <3> QED BY <3>3 DEF days
  <2>3. wall \div n = e /\ wall % n = r
    BY <1>1, <2>1, <2>2, DividedBack
  <2> QED BY <2>3 DEF e
<1>5. h \in 0..23
  <2>1. ASSUME h > 23 PROVE FALSE
    <3>1. PICK k \in Nat : h = 24 + k
      BY <1>3, <2>1
    <3>2. n * h = n * 24 + n * k /\ n * k >= 0
      BY <3>1
    <3> QED BY <1>1, <1>3, <3>2
  <2>2. ASSUME h < 0 PROVE FALSE
    <3>1. PICK k \in Nat : h = -1 - k
      BY <1>3, <2>2
    <3>2. n * h = -n - n * k /\ n * k >= 0
      BY <3>1
    <3> QED BY <1>1, <1>3, <3>2
  <2> QED BY <1>3, <2>1, <2>2
<1>6. (s * 24) \div n = 24 * q + h
  <2>1. s * 24 = n * (24 * q + h) + m
    <3>1. s * 24 = (n * q) * 24 + n * h + m
      BY <1>1, <1>3
    <3>2. n * (24 * q + h) = (n * q) * 24 + n * h
      BY <1>1, <1>3
    <3> QED BY <3>1, <3>2
  <2> QED BY <1>1, <1>3, <2>1, DividedBack
<1>7. (Weekday(d) * 24 + 24 * q + h) % 168 = Weekday(d + q) * 24 + h
  BY <1>1, <1>5 DEF Weekday
<1>8. (r * 24) \div n = h
  BY DEF h
<1>9. Weekday(d) \in Int
  BY DEF Weekday
<1>10. Weekday(d) * 24 + (24 * q + h) = Weekday(d) * 24 + 24 * q + h
  BY <1>1, <1>3, <1>9
<1> QED BY <1>4, <1>6, <1>7, <1>8, <1>10

\* HoursAreOfTheClock in every reachable state: hourOfWeekExpr files a stop on
\* the noon side of a transition under the hour its timetable shows, stops
\* beyond 24:00 under the next day's and Sunday's under Monday's.
THEOREM HoursCorrect == Spec => []HoursAreOfTheClock
<1>1. ASSUME TypeOK, WallClockKept,
             Offset(ScheduledTime(date, secs)) = Offset(Noon(date))
      PROVE  HourOfWeek(ScheduledTime(date, secs))
               = (Weekday(date) * 24 + (secs * 24) \div Day) % (7 * 24)
  <2> DEFINE t    == ScheduledTime(date, secs)
             wall == t + Offset(t)
  <2>1. wall = date * Day + secs
    BY <1>1 DEF WallClockKept
  <2>2. Day \in Nat \ {0} /\ date \in Int /\ secs \in Nat
    BY <1>1, ZoneAssumption, ServiceDatesAssumption DEF TypeOK
  <2>3. HourOfWeek(t) = Weekday(wall \div Day) * 24 + ((wall % Day) * 24) \div Day
    BY DEF HourOfWeek
  <2> HIDE DEF wall
  <2> QED BY <2>1, <2>2, <2>3, HourOfWall
<1>2. TypeOK /\ WallClockKept => HoursAreOfTheClock
  BY <1>1 DEF HoursAreOfTheClock
<1> QED
  BY <1>2, DriftTypeOK, WallClockCorrect, PTL
=============================================================================
