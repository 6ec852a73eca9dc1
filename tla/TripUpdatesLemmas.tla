------------------------- MODULE TripUpdatesLemmas -------------------------
(***************************************************************************)
(* Facts about the operators of TripUpdates, for every schedule and every  *)
(* trip update of the right shape: what they return, and that delays,      *)
(* predictions and schedules agree.                                        *)
(***************************************************************************)
EXTENDS TripUpdates, FiniteSetTheorems, TLAPS

-----------------------------------------------------------------------------
(* Least and greatest elements, for the Min and Max of index sets: by the  *)
(* well-foundedness of the initial (final) segments they cut off 1..n.     *)

\* A nonempty set of indexes has a least element (StopIndex, StartIndex and
\* DateReference take the first match).
LEMMA MinIndex ==
    ASSUME NEW n \in Nat, NEW S, S \subseteq 1..n, S # {}
    PROVE  Min(S) \in S /\ \A y \in S : Min(S) <= y
<1> DEFINE T == {1..x : x \in S}
<1>1. IsWellFoundedOn(StrictSubsetOrdering(1..n), SUBSET (1..n))
  <2>1. IsFiniteSet(1..n)
    BY FS_Interval
  <2> QED BY <2>1, FS_FiniteSubsetsOfFinite, FS_StrictSubsetOrderingWellFounded
<1>2. T \subseteq SUBSET (1..n) /\ T # {}
  <2>1. \A x \in S : 1..x \in SUBSET (1..n)
    OBVIOUS
  <2>2. PICK x \in S : TRUE
    OBVIOUS
  <2>3. 1..x \in T
    OBVIOUS
  <2> QED BY <2>1, <2>3
<1>3. PICK s \in T : \A t \in T : <<t, s>> \notin StrictSubsetOrdering(1..n)
  <2> HIDE DEF T
  <2> QED BY <1>1, <1>2, WFMin
<1>4. PICK x \in S : s = 1..x
  BY <1>3
<1>5. \A y \in S : x <= y
  <2> SUFFICES ASSUME NEW y \in S, y < x PROVE FALSE
    OBVIOUS
  <2>1. 1..y \in T
    OBVIOUS
  <2>2. 1..y \subseteq 1..x /\ 1..y # 1..x
    <3>1. x \in 1..x /\ x \notin 1..y
      OBVIOUS
    <3> QED BY <3>1
  <2> QED BY <1>3, <1>4, <2>1, <2>2, <1>2 DEF StrictSubsetOrdering
<1> QED
  BY <1>5 DEF Min

\* A nonempty set of indexes has a greatest element (Match takes the last
\* update, CarriedDelay the nearest earlier stop).
LEMMA MaxIndex ==
    ASSUME NEW n \in Nat, NEW S, S \subseteq 1..n, S # {}
    PROVE  Max(S) \in S /\ \A y \in S : y <= Max(S)
<1> DEFINE T == {x..n : x \in S}
<1>1. IsWellFoundedOn(StrictSubsetOrdering(1..n), SUBSET (1..n))
  <2>1. IsFiniteSet(1..n)
    BY FS_Interval
  <2> QED BY <2>1, FS_FiniteSubsetsOfFinite, FS_StrictSubsetOrderingWellFounded
<1>2. T \subseteq SUBSET (1..n) /\ T # {}
  <2>1. \A x \in S : x..n \in SUBSET (1..n)
    OBVIOUS
  <2>2. PICK x \in S : TRUE
    OBVIOUS
  <2>3. x..n \in T
    OBVIOUS
  <2> QED BY <2>1, <2>3
<1>3. PICK s \in T : \A t \in T : <<t, s>> \notin StrictSubsetOrdering(1..n)
  <2> HIDE DEF T
  <2> QED BY <1>1, <1>2, WFMin
<1>4. PICK x \in S : s = x..n
  BY <1>3
<1>5. \A y \in S : y <= x
  <2> SUFFICES ASSUME NEW y \in S, x < y PROVE FALSE
    OBVIOUS
  <2>1. y..n \in T
    OBVIOUS
  <2>2. y..n \subseteq x..n /\ y..n # x..n
    <3>1. x \in x..n /\ x \notin y..n
      OBVIOUS
    <3> QED BY <3>1
  <2> QED BY <1>3, <1>4, <2>1, <2>2, <1>2 DEF StrictSubsetOrdering
<1> QED
  BY <1>5 DEF Max

-----------------------------------------------------------------------------
(* Times.                                                                  *)

\* The instant of a GTFS time is an integer, on any day of the zone.
LEMMA ScheduledTimeType ==
    ASSUME NEW d \in Int, NEW secs \in Int
    PROVE  ScheduledTime(d, secs) \in Int
<1>1. Day \in Int /\ Day \div 2 \in Int /\ d * Day \in Int
  BY ZoneAssumption
<1>2. Noon(d) \in Int
  BY <1>1, ZoneAssumption DEF Noon
<1> QED
  BY <1>1, <1>2 DEF ScheduledTime, NoonMinus12

\* scheduledOrZero is an instant or the zero time.
LEMMA ScheduledOrZeroType ==
    ASSUME NEW d \in Int, NEW secs \in Int
    PROVE  ScheduledOrZero(d, secs) \in Time
BY ScheduledTimeType DEF ScheduledOrZero, Time

\* CivilDate is a day.
LEMMA CivilDateType ==
    ASSUME NEW t \in Int
    PROVE  CivilDate(t) \in Int
<1>1. t + Offset(t) \in Int
  BY ZoneAssumption DEF Offset
<1> QED
  BY <1>1, ZoneAssumption DEF CivilDate

-----------------------------------------------------------------------------
(* Stops and updates.                                                      *)

\* BestSecs of a scheduled stop is a GTFS time or -1.
LEMMA BestSecsType ==
    ASSUME NEW ts, IsTripSchedule(ts), NEW i \in 1..Len(ts.stops)
    PROVE  BestSecs(ts.stops[i]) \in Int
BY DEF IsTripSchedule, BestSecs

\* resolveStopIndex returns a stop of the schedule, or 0.
LEMMA StopIndexType ==
    ASSUME NEW ts, IsTripSchedule(ts), NEW stu
    PROVE  StopIndex(ts, stu) \in 0..Len(ts.stops)
<1> DEFINE Named == {i \in 1..Len(ts.stops) :
                       IF stu.seq >= 0 THEN ts.stops[i].seq = stu.seq
                                       ELSE stu.stop # None /\ ts.stops[i].stop = stu.stop}
<1>1. Len(ts.stops) \in Nat /\ Named \subseteq 1..Len(ts.stops)
  BY DEF IsTripSchedule
<1>2. Named # {} => Min(Named) \in 1..Len(ts.stops)
  <2> HIDE DEF Named
  <2> QED BY <1>1, MinIndex
<1>3. StopIndex(ts, stu) = IF Named = {} THEN 0 ELSE Min(Named)
  BY DEF StopIndex
<1> HIDE DEF Named
<1> QED
  BY <1>1, <1>2, <1>3

\* The update matched to a stop, if any, is one of the entity's updates.
LEMMA MatchType ==
    ASSUME NEW tu, IsTripUpdate(tu), NEW ts, NEW i
    PROVE  \/ Match(tu, ts, i) = None
           \/ IsStopTimeUpdate(Match(tu, ts, i))
<1> DEFINE named == {n \in 1..Len(tu.stus) : StopIndex(ts, tu.stus[n]) = i}
<1>1. Len(tu.stus) \in Nat /\ named \subseteq 1..Len(tu.stus)
  BY DEF IsTripUpdate
<1>2. named # {} => Max(named) \in 1..Len(tu.stus)
  <2> HIDE DEF named
  <2> QED BY <1>1, MaxIndex
<1>3. Match(tu, ts, i) = IF named = {} THEN None ELSE tu.stus[Max(named)]
  BY DEF Match
<1> HIDE DEF named
<1> QED
  BY <1>2, <1>3 DEF IsTripUpdate

\* Where the predictions start is a stop of the schedule or one past its end.
LEMMA StartIndexType ==
    ASSUME NEW tu, NEW ts, IsTripSchedule(ts)
    PROVE  StartIndex(tu, ts) \in Nat \ {0}
<1>1. Len(ts.stops) \in Nat /\ Matched(tu, ts) \subseteq 1..Len(ts.stops)
  BY DEF IsTripSchedule, Matched
<1>2. Matched(tu, ts) # {} => Min(Matched(tu, ts)) \in 1..Len(ts.stops)
  BY <1>1, MinIndex
<1> QED
  BY <1>1, <1>2 DEF StartIndex

-----------------------------------------------------------------------------
(* Predictions.                                                            *)

\* p is a prediction that agrees with the scheduled time sched: the delay is
\* predicted minus scheduled, and is missing exactly when the schedule is.
IsPrediction(p, sched) ==
    /\ p.pred \in Int
    /\ p.delay = IF sched = None THEN None ELSE p.pred - sched

\* predictionFromUpdate computes such a prediction, or none.
LEMMA PredictionSound ==
    ASSUME NEW tu, IsTripUpdate(tu), NEW stu, IsStopTimeUpdate(stu),
           NEW sched \in Time
    PROVE  \/ Prediction(stu, tu, sched) = None
           \/ IsPrediction(Prediction(stu, tu, sched), sched)
<1> DEFINE at == FirstPositive(stu.arr, stu.dep)
           d  == IF stu.arrDelay # None THEN stu.arrDelay
                 ELSE IF stu.depDelay # None THEN stu.depDelay
                 ELSE tu.delay
<1>1. at \in Int /\ d \in Time
  BY DEF FirstPositive, IsStopTimeUpdate, IsTripUpdate
<1>2. CASE at > 0
  <2>1. Prediction(stu, tu, sched) =
          [pred |-> at, delay |-> IF sched = None THEN None ELSE at - sched]
    BY <1>2 DEF Prediction
  <2> QED BY <2>1, <1>1 DEF IsPrediction
<1>3. CASE ~(at > 0) /\ (d = None \/ sched = None)
  BY <1>3 DEF Prediction
<1>4. CASE ~(at > 0) /\ d # None /\ sched # None
  <2>1. Prediction(stu, tu, sched) = [pred |-> sched + d, delay |-> d]
    BY <1>4 DEF Prediction
  <2>2. d \in Int /\ sched \in Int
    BY <1>1, <1>4 DEF Time
  <2> HIDE DEF d
  <2> QED BY <2>1, <2>2, <1>4 DEF IsPrediction
<1> QED
  BY <1>2, <1>3, <1>4

\* The scheduled time of a stop is an instant or the zero time.
LEMMA SchedType ==
    ASSUME NEW ts, IsTripSchedule(ts), NEW date \in Int, NEW i \in 1..Len(ts.stops)
    PROVE  Sched(ts, date, i) \in Time
BY BestSecsType, ScheduledOrZeroType DEF Sched

\* A stop's own update predicts nothing, or predicts soundly: delay, prediction
\* and schedule agree (the match branch of the loop of reconcileTrip).
LEMMA OwnPredictionSound ==
    ASSUME NEW tu, IsTripUpdate(tu), NEW ts, IsTripSchedule(ts),
           NEW date \in Int, NEW i \in 1..Len(ts.stops)
    PROVE  \/ OwnPrediction(tu, ts, date, i) = None
           \/ IsPrediction(OwnPrediction(tu, ts, date, i), Sched(ts, date, i))
<1>1. CASE Match(tu, ts, i) = None
  BY <1>1 DEF OwnPrediction
<1>2. CASE IsStopTimeUpdate(Match(tu, ts, i))
  BY <1>2, SchedType, PredictionSound DEF OwnPrediction
<1> QED
  BY <1>1, <1>2, MatchType

\* A delay carried to a stop of the trip is a number, or there is none.
LEMMA CarriedDelayType ==
    ASSUME NEW tu, IsTripUpdate(tu), NEW ts, IsTripSchedule(ts),
           NEW date \in Int, NEW i \in 1..Len(ts.stops)
    PROVE  CarriedDelay(tu, ts, date, i) \in Time
<1> DEFINE Own(j)   == OwnPrediction(tu, ts, date, j)
           decisive == {j \in StartIndex(tu, ts)..(i-1) :
                          \/ IsNoData(tu, ts, j)
                          \/ Own(j) # None /\ Own(j).delay # None}
           last     == Max(decisive)
<1>1. decisive \subseteq 1..Len(ts.stops) /\ Len(ts.stops) \in Nat
  BY StartIndexType DEF IsTripSchedule
<1>2. decisive # {} => last \in decisive
  <2> HIDE DEF decisive
  <2> QED BY <1>1, MaxIndex
<1>3. CarriedDelay(tu, ts, date, i) =
        IF decisive = {} THEN tu.delay
        ELSE IF IsNoData(tu, ts, last) THEN None ELSE Own(last).delay
  BY DEF CarriedDelay
<1>4. CASE decisive = {}
  BY <1>3, <1>4 DEF IsTripUpdate
<1>5. CASE decisive # {} /\ IsNoData(tu, ts, last)
  BY <1>3, <1>5 DEF Time
<1>6. CASE decisive # {} /\ ~IsNoData(tu, ts, last)
  <2>1. last \in 1..Len(ts.stops) /\ Own(last) # None
    BY <1>1, <1>2, <1>6
  <2>2. IsPrediction(Own(last), Sched(ts, date, last))
    BY <2>1, OwnPredictionSound
  <2>3. Own(last).delay \in Time
    BY <2>1, <2>2, SchedType DEF IsPrediction, Time
  <2> QED BY <1>3, <1>6, <2>3
<1> QED
  BY <1>4, <1>5, <1>6

\* Whether from its own update or carried over, what is foretold of a stop
\* agrees with its schedule.
LEMMA StopPredictionSound ==
    ASSUME NEW tu, IsTripUpdate(tu), NEW ts, IsTripSchedule(ts),
           NEW date \in Int, NEW i \in 1..Len(ts.stops)
    PROVE  \/ StopPrediction(tu, ts, date, i) = None
           \/ IsPrediction(StopPrediction(tu, ts, date, i), Sched(ts, date, i))
<1> DEFINE carried == CarriedDelay(tu, ts, date, i)
           sched   == Sched(ts, date, i)
<1>1. CASE Match(tu, ts, i) # None
  BY <1>1, OwnPredictionSound DEF StopPrediction
<1>2. CASE Match(tu, ts, i) = None /\ (carried = None \/ sched = None)
  BY <1>2 DEF StopPrediction
<1>3. CASE Match(tu, ts, i) = None /\ carried # None /\ sched # None
  <2>1. carried \in Int /\ sched \in Int
    BY <1>3, CarriedDelayType, SchedType DEF Time
  <2>2. StopPrediction(tu, ts, date, i) = [pred |-> sched + carried, delay |-> carried]
    BY <1>3 DEF StopPrediction
  <2> HIDE DEF carried, sched
  <2>3. IsPrediction([pred |-> sched + carried, delay |-> carried], sched)
    BY <2>1, <1>3 DEF IsPrediction
  <2> QED BY <2>2, <2>3 DEF sched
<1> QED
  BY <1>1, <1>2, <1>3

-----------------------------------------------------------------------------
(* The service date.                                                       *)

\* The reference of the service date is a GTFS time, or -1, and an instant.
LEMMA DateReferenceType ==
    ASSUME NEW tu, IsTripUpdate(tu), NEW ts, IsTripSchedule(ts), NEW polledAt \in Int
    PROVE  /\ DateReference(tu, ts, polledAt).secs \in Int
           /\ DateReference(tu, ts, polledAt).at \in Int
<1> DEFINE Secs(n) == BestSecs(ts.stops[StopIndex(ts, tu.stus[n])])
           timed   == TimedAnchors(tu, ts)
           anchors == Anchors(tu, ts)
           stops   == TimedStops(ts)
<1>1. Len(tu.stus) \in Nat /\ Len(ts.stops) \in Nat
  BY DEF IsTripUpdate, IsTripSchedule
<1>2. \A n \in anchors : n \in 1..Len(tu.stus) /\ Secs(n) \in Int
  BY StopIndexType, BestSecsType DEF Anchors
<1>3. timed \subseteq anchors /\ anchors \subseteq 1..Len(tu.stus)
  BY DEF TimedAnchors, Anchors
<1>4. /\ timed # {} => Min(timed) \in timed
      /\ anchors # {} => Min(anchors) \in anchors
  <2> HIDE DEF timed, anchors
  <2> QED BY <1>1, <1>3, MinIndex
<1>5. stops # {} => BestSecs(ts.stops[Min(stops)]) \in Int
  <2>1. stops \subseteq 1..Len(ts.stops)
    BY DEF TimedStops
  <2> HIDE DEF stops
  <2> QED BY <2>1, <1>1, MinIndex, BestSecsType
<1>6. CASE timed # {}
  <2>1. DateReference(tu, ts, polledAt) =
          [secs |-> Secs(Min(timed)),
           at |-> FirstPositive(tu.stus[Min(timed)].arr, tu.stus[Min(timed)].dep)]
    BY <1>6 DEF DateReference
  <2>2. IsStopTimeUpdate(tu.stus[Min(timed)])
    BY <1>3, <1>4, <1>6 DEF IsTripUpdate
  <2>3. Secs(Min(timed)) \in Int
    BY <1>2, <1>3, <1>4, <1>6
  <2> HIDE DEF timed, Secs
  <2> QED BY <2>1, <2>2, <2>3 DEF FirstPositive, IsStopTimeUpdate
<1>7. CASE timed = {}
  <2>1. DateReference(tu, ts, polledAt) =
          [secs |-> IF anchors # {} THEN Secs(Min(anchors))
                    ELSE IF stops # {} THEN BestSecs(ts.stops[Min(stops)]) ELSE -1,
           at   |-> polledAt]
    BY <1>7 DEF DateReference
  <2>2. anchors # {} => Secs(Min(anchors)) \in Int
    BY <1>2, <1>4
  <2> HIDE DEF anchors, stops, Secs
  <2> QED BY <2>1, <2>2, <1>5
<1> QED
  BY <1>6, <1>7

\* resolveServiceDate returns a day, or the error.
LEMMA ServiceDateType ==
    ASSUME NEW tu, IsTripUpdate(tu), NEW ts, IsTripSchedule(ts), NEW polledAt \in Int
    PROVE  ServiceDate(tu, ts, polledAt) \in Time
<1> DEFINE ref   == DateReference(tu, ts, polledAt)
           today == CivilDate(ref.at)
<1>1. CASE tu.startDate # None
  BY <1>1 DEF ServiceDate, IsTripUpdate, Time
<1>2. CASE tu.startDate = None
  <2>1. today \in Int
    BY DateReferenceType, CivilDateType
  <2>2. ServiceDate(tu, ts, polledAt) \in {None, today, today - 1}
    BY <1>2 DEF ServiceDate
  <2> HIDE DEF today
  <2> QED BY <2>1, <2>2 DEF Time
<1> QED
  BY <1>1, <1>2

-----------------------------------------------------------------------------
(* The events of an update.                                                *)

\* What every event of reconcileTrip is: an observation of one scheduled stop
\* on one service date, with the stamp of its feed, whose delay, prediction
\* and schedule belong together, and which is a skip exactly when it predicts
\* nothing.
IsEventOf(e, tu, ts, ver) ==
    \E date \in Int, i \in 1..Len(ts.stops), sched \in Time, pred \in Time,
       delay \in Time, skipped \in BOOLEAN, stamp \in Nat, due \in Int :
        /\ e = [key     |-> <<date, tu.trip, ts.stops[i].seq>>,
                ver     |-> ver,
                stop    |-> ts.stops[i].stop,
                sched   |-> sched,
                pred    |-> pred,
                delay   |-> delay,
                skipped |-> skipped,
                ts      |-> stamp,
                due     |-> due]
        /\ sched = Sched(ts, date, i)
        /\ delay = IF pred = None \/ sched = None THEN None ELSE pred - sched
        /\ skipped <=> pred = None

\* Every event of an update belongs to the trip and the version, is timed and
\* has delay, prediction and schedule that agree (reconcileTrip).
LEMMA EventSound ==
    ASSUME NEW tu, IsTripUpdate(tu), NEW ts, IsTripSchedule(ts), NEW ver,
           NEW feedTS \in Nat, NEW polledAt \in Int,
           NEW e \in ReconcileTrip(tu, ts, ver, feedTS, polledAt)
    PROVE  IsEventOf(e, tu, ts, ver)
<1>1. PICK date \in {ServiceDate(tu, ts, polledAt)} \ {None} :
        \E i \in ReportedStops(tu, ts, date) :
          e = Event(tu, ts, date, feedTS, ver, polledAt, i, Foretold(tu, ts, date, i))
  BY DEF ReconcileTrip
<1>1b. PICK i \in ReportedStops(tu, ts, date) :
        e = Event(tu, ts, date, feedTS, ver, polledAt, i, Foretold(tu, ts, date, i))
  BY <1>1
<1>2. date \in Int
  BY <1>1, ServiceDateType DEF Time
<1>3. i \in 1..Len(ts.stops)
  BY <1>1b, StartIndexType DEF ReportedStops, IsTripSchedule
<1> DEFINE p     == Foretold(tu, ts, date, i)
           sched == Sched(ts, date, i)
           pred  == IF p = None THEN None ELSE p.pred
           delay == IF p = None THEN None ELSE p.delay
<1>4. sched \in Time
  BY <1>2, <1>3, SchedType
<1>5. p = None \/ IsPrediction(p, sched)
  BY <1>2, <1>3, StopPredictionSound DEF Foretold
<1>6. IsSkipped(tu, ts, i) <=> p = None
  BY <1>1b DEF ReportedStops, Foretold
<1>7. /\ pred \in Time /\ delay \in Time
      /\ delay = IF pred = None \/ sched = None THEN None ELSE pred - sched
      /\ pred = None <=> p = None
  <2> HIDE DEF p, sched
  <2> QED BY <1>4, <1>5, NoneAssumption DEF IsPrediction, Time
<1>8. EventTimestamp(tu, feedTS) \in Nat
  BY DEF EventTimestamp, IsTripUpdate
<1>9. DueInstant(sched, pred, polledAt) \in Int
  <2> HIDE DEF p, sched, pred
  <2> QED BY <1>4, <1>7 DEF DueInstant, Time
<1>10. IsSkipped(tu, ts, i) \in BOOLEAN
  BY DEF IsSkipped, IsTripUpdate
<1>11. sched = Sched(ts, date, i)
  OBVIOUS
<1> DEFINE skipped == IsSkipped(tu, ts, i)
           stamp   == EventTimestamp(tu, feedTS)
           due     == DueInstant(sched, pred, polledAt)
<1>12. e = [key     |-> <<date, tu.trip, ts.stops[i].seq>>,
            ver     |-> ver,
            stop    |-> ts.stops[i].stop,
            sched   |-> sched,
            pred    |-> pred,
            delay   |-> delay,
            skipped |-> skipped,
            ts      |-> stamp,
            due     |-> due]
  BY <1>1b DEF Event
<1>13. /\ skipped \in BOOLEAN /\ stamp \in Nat /\ due \in Int
       /\ skipped <=> pred = None
  BY <1>6, <1>7, <1>8, <1>9, <1>10
<1> HIDE DEF p, sched, pred, delay, skipped, stamp, due
<1> QED
  <2> USE <1>4, <1>7, <1>13 DEF IsEventOf
  <2> WITNESS date \in Int, i \in 1..Len(ts.stops), sched \in Time, pred \in Time,
              delay \in Time, skipped \in BOOLEAN, stamp \in Nat, due \in Int
  <2> QED BY <1>11, <1>12
=============================================================================
