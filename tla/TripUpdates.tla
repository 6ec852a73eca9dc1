---------------------------- MODULE TripUpdates ----------------------------
(***************************************************************************)
(* Reconciling one GTFS-realtime TripUpdate against the static schedule    *)
(* (internal/reconcile/process.go): which scheduled stop an update names,  *)
(* which service date the trip runs on, and the stop events the update     *)
(* expands into.  Pure operators; Reconcile composes them with the store.  *)
(*                                                                         *)
(* Data.  A schedule of a trip is                                          *)
(*   [stops |-> <<[seq, stop, arr, dep], ...>>]  arr, dep: GTFS time or -1 *)
(* and a trip update is                                                    *)
(*   [trip, startDate, canceled, ts, delay, stus]                          *)
(* where startDate is a day, Malformed, or None; delay is None unless      *)
(* DelaySet; and stus is a sequence of stop-time updates                   *)
(*   [seq, stop, arr, dep, arrDelay, depDelay, rel]                        *)
(* seq = -1 and stop = None when absent, arr, dep = 0 when absent, the     *)
(* delays None when unset.  A zero time.Time or a nil *int is None.        *)
(* Route, direction, headsign and vehicle are carried along by the code    *)
(* and decide nothing here; they are left out, and so is start_time, which *)
(* only extends the name of a trip.                                        *)
(***************************************************************************)
EXTENDS GtfsTime, Sequences, FiniteSetsExt

CONSTANTS
    None,       \* nil pointer, zero time.Time, absent string
    Malformed   \* a start_date ParseServiceDate rejects

ASSUME NoneAssumption ==
    /\ None \notin Int /\ Malformed \notin Int /\ None # Malformed
    /\ None \notin [pred: Int, delay: Int \cup {None}]

\* The shape of the data: what the loader stores and the decoder hands over.
Time == Int \cup {None}

IsTripSchedule(ts) ==
    /\ Len(ts.stops) \in Nat
    /\ \A i \in 1..Len(ts.stops) :
         LET stop == ts.stops[i] IN stop.seq \in Int /\ stop.arr \in Int /\ stop.dep \in Int

IsStopTimeUpdate(stu) ==
    /\ stu.seq \in Int /\ stu.arr \in Int /\ stu.dep \in Int
    /\ stu.arrDelay \in Time /\ stu.depDelay \in Time

IsTripUpdate(tu) ==
    /\ tu.startDate \in Time \cup {Malformed}
    /\ tu.canceled \in BOOLEAN
    /\ tu.ts \in Nat
    /\ tu.delay \in Time
    /\ Len(tu.stus) \in Nat
    /\ \A n \in 1..Len(tu.stus) : IsStopTimeUpdate(tu.stus[n])

-----------------------------------------------------------------------------
(* Helpers of the schedule.                                                *)

FirstPositive(a, b) == IF a > 0 THEN a ELSE b

\* ScheduledStop.BestSecs: arrival if present, else departure, else -1.
BestSecs(stop) == IF stop.arr >= 0 THEN stop.arr ELSE stop.dep

\* scheduledOrZero
ScheduledOrZero(date, secs) == IF secs < 0 THEN None ELSE ScheduledTime(date, secs)

\* resolveStopIndex: by stop_sequence when the update has one, else by
\* stop_id; the first stop that matches, 0 when none does (-1 in the code).
StopIndex(ts, stu) ==
    LET Named == {i \in 1..Len(ts.stops) :
                    IF stu.seq >= 0 THEN ts.stops[i].seq = stu.seq
                                    ELSE stu.stop # None /\ ts.stops[i].stop = stu.stop}
    IN  IF Named = {} THEN 0 ELSE Min(Named)

-----------------------------------------------------------------------------
(* The service date.                                                       *)

\* Updates that can anchor the date: they name a stop with a scheduled time.
Anchors(tu, ts) ==
    {n \in 1..Len(tu.stus) :
        LET i == StopIndex(ts, tu.stus[n])
        IN  i # 0 /\ BestSecs(ts.stops[i]) >= 0}

TimedAnchors(tu, ts) ==
    {n \in Anchors(tu, ts) : FirstPositive(tu.stus[n].arr, tu.stus[n].dep) > 0}

TimedStops(ts) == {i \in 1..Len(ts.stops) : BestSecs(ts.stops[i]) >= 0}

FirstAnchorReference(tu, ts, polledAt) ==            \* variant: no scan past the first
    LET n   == Min(Anchors(tu, ts))
        at  == FirstPositive(tu.stus[n].arr, tu.stus[n].dep)
    IN  IF Anchors(tu, ts) = {} THEN [secs |-> -1, at |-> polledAt]
        ELSE [secs |-> BestSecs(ts.stops[StopIndex(ts, tu.stus[n])]),
              at   |-> IF at > 0 THEN at ELSE polledAt]

\* Reference: a scheduled time and the instant it is compared with.  The first
\* update with an explicit time; else the first usable update, else the first
\* timed stop, against the poll time.
DateReference(tu, ts, polledAt) ==
    LET Secs(n)  == BestSecs(ts.stops[StopIndex(ts, tu.stus[n])])
        timed    == TimedAnchors(tu, ts)
        anchors  == Anchors(tu, ts)
        stops    == TimedStops(ts)
    IN  IF timed # {}
        THEN LET stu == tu.stus[Min(timed)]
             IN  [secs |-> Secs(Min(timed)), at |-> FirstPositive(stu.arr, stu.dep)]
        ELSE [secs |-> IF anchors # {} THEN Secs(Min(anchors))
                       ELSE IF stops # {} THEN BestSecs(ts.stops[Min(stops)]) ELSE -1,
              at   |-> polledAt]

Distance(a, b) == IF a < b THEN b - a ELSE a - b

CivilServiceDate(tu, ts, polledAt) ==                \* variant: always today
    IF tu.startDate = Malformed THEN None
    ELSE IF tu.startDate # None THEN tu.startDate
    ELSE CivilDate(DateReference(tu, ts, polledAt).at)

\* resolveServiceDate: start_date wins; else yesterday or today, whichever puts
\* the reference stop closest to the reference instant (yesterday on a tie).
\* None stands for the error return.
ServiceDate(tu, ts, polledAt) ==
    IF tu.startDate # None
    THEN IF tu.startDate = Malformed THEN None ELSE tu.startDate
    ELSE LET ref   == DateReference(tu, ts, polledAt)
             today == CivilDate(ref.at)
             off(d) == Distance(ScheduledTime(d, ref.secs), ref.at)
         IN  IF ref.secs < 0 THEN None
             ELSE IF off(today) < off(today - 1) THEN today ELSE today - 1

-----------------------------------------------------------------------------
(* Predictions.                                                            *)

TrustingPrediction(stu, tu, sched) ==                \* variant: the feed's delay as is
    LET at == FirstPositive(stu.arr, stu.dep)
        d  == IF stu.arrDelay # None THEN stu.arrDelay ELSE tu.delay
    IN  IF at > 0 THEN [pred |-> at, delay |-> d]
        ELSE IF d = None \/ sched = None THEN None
        ELSE [pred |-> sched + d, delay |-> d]

\* predictionFromUpdate: the explicit arrival, else departure time; else the
\* stop's or the trip's delay applied to the schedule.  None when unusable.
Prediction(stu, tu, sched) ==
    LET at == FirstPositive(stu.arr, stu.dep)
        d  == IF stu.arrDelay # None THEN stu.arrDelay
              ELSE IF stu.depDelay # None THEN stu.depDelay
              ELSE tu.delay
    IN  IF at > 0
        THEN [pred |-> at, delay |-> IF sched = None THEN None ELSE at - sched]
        ELSE IF d = None \/ sched = None THEN None
        ELSE [pred |-> sched + d, delay |-> d]

\* The update for stop i: the last one that resolves to it, None if none does.
Match(tu, ts, i) ==
    LET named == {n \in 1..Len(tu.stus) : StopIndex(ts, tu.stus[n]) = i}
    IN  IF named = {} THEN None ELSE tu.stus[Max(named)]

Matched(tu, ts) == {i \in 1..Len(ts.stops) : Match(tu, ts, i) # None}

\* Stops before the first one the update speaks of have been served; a
\* trip-level delay alone covers the whole trip.
StartIndex(tu, ts) ==
    IF Matched(tu, ts) # {} THEN Min(Matched(tu, ts))
    ELSE IF tu.delay # None THEN 1
    ELSE Len(ts.stops) + 1

Sched(ts, date, i) == ScheduledOrZero(date, BestSecs(ts.stops[i]))

\* What stop i's own update predicts; None without a usable update.
OwnPrediction(tu, ts, date, i) ==
    LET stu == Match(tu, ts, i)
    IN  IF stu = None THEN None
        ELSE IF stu.rel \in {"SKIPPED", "NO_DATA"} THEN None
        ELSE Prediction(stu, tu, Sched(ts, date, i))

IsNoData(tu, ts, i) == Match(tu, ts, i) # None /\ Match(tu, ts, i).rel = "NO_DATA"

CarriedPastNoData(tu, ts, date, i) ==                \* variant: NO_DATA does not end it
    LET Own(j)   == OwnPrediction(tu, ts, date, j)
        decisive == {j \in StartIndex(tu, ts)..(i-1) : Own(j) # None /\ Own(j).delay # None}
    IN  IF decisive = {} THEN tu.delay ELSE Own(Max(decisive)).delay

\* The delay that reaches stop i: that of the nearest earlier stop that
\* predicted one, none past a NO_DATA stop, the trip's delay before either.
CarriedDelay(tu, ts, date, i) ==
    LET Own(j)   == OwnPrediction(tu, ts, date, j)
        decisive == {j \in StartIndex(tu, ts)..(i-1) :
                        \/ IsNoData(tu, ts, j)
                        \/ Own(j) # None /\ Own(j).delay # None}
    IN  IF decisive = {} THEN tu.delay
        ELSE IF IsNoData(tu, ts, Max(decisive)) THEN None
        ELSE Own(Max(decisive)).delay

\* The predictions of stop i: its own or the carried delay; None: no event.
StopPrediction(tu, ts, date, i) ==
    LET carried == CarriedDelay(tu, ts, date, i)
        sched   == Sched(ts, date, i)
    IN  IF Match(tu, ts, i) # None THEN OwnPrediction(tu, ts, date, i)
        ELSE IF carried = None \/ sched = None THEN None
        ELSE [pred |-> sched + carried, delay |-> carried]

-----------------------------------------------------------------------------
(* The stop events of one update.                                          *)

EventTimestamp(tu, feedTS) == IF tu.ts > 0 THEN tu.ts ELSE feedTS

IsSkipped(tu, ts, i) ==
    \/ tu.canceled
    \/ Match(tu, ts, i) # None /\ Match(tu, ts, i).rel = "SKIPPED"

\* The instant a live event counts from when it ages out: its prediction, else
\* its schedule, else the poll that observed it.
DueWithoutPoll(sched, pred, polledAt) ==             \* variant: no last resort
    IF pred # None THEN pred ELSE sched

DueInstant(sched, pred, polledAt) ==
    IF pred # None THEN pred ELSE IF sched # None THEN sched ELSE polledAt

Event(tu, ts, date, feedTS, ver, polledAt, i, p) ==
    LET sched == Sched(ts, date, i)
        pred  == IF p = None THEN None ELSE p.pred
    IN  [key     |-> <<date, tu.trip, ts.stops[i].seq>>,
         ver     |-> ver,
         stop    |-> ts.stops[i].stop,
         sched   |-> sched,
         pred    |-> pred,
         delay   |-> IF p = None THEN None ELSE p.delay,
         skipped |-> IsSkipped(tu, ts, i),
         ts      |-> EventTimestamp(tu, feedTS),
         due     |-> DueInstant(sched, pred, polledAt)]

\* What the update foretells of stop i: a skip, or a prediction of its own or
\* carried over.
Foretold(tu, ts, date, i) ==
    IF IsSkipped(tu, ts, i) THEN None ELSE StopPrediction(tu, ts, date, i)

ReportedStops(tu, ts, date) ==
    {i \in (IF tu.canceled THEN 1 ELSE StartIndex(tu, ts))..Len(ts.stops) :
        IsSkipped(tu, ts, i) \/ StopPrediction(tu, ts, date, i) # None}

\* reconcileTrip: one event per stop that is canceled, skipped or predicted.
\* A trip without a service date counts as unmatched and yields nothing.
ReconcileTrip(tu, ts, ver, feedTS, polledAt) ==
    UNION {{Event(tu, ts, date, feedTS, ver, polledAt, i, Foretold(tu, ts, date, i)) :
               i \in ReportedStops(tu, ts, date)} :
           date \in {ServiceDate(tu, ts, polledAt)} \ {None}}

=============================================================================
