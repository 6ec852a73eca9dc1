-------------------------- MODULE TripUpdatesLoop --------------------------
(***************************************************************************)
(* The loops of internal/reconcile/process.go as they run, stop by stop:   *)
(* the running delay of reconcileTrip, the overwriting of matches, the     *)
(* scan of resolveServiceDate.  TripUpdates states the same results        *)
(* without loops; a run checks that the two agree.  A trip update is       *)
(* decoded update by update, so the state is the entity read so far.       *)
(***************************************************************************)
EXTENDS TripUpdates

CONSTANTS
    Schedules,    \* trip schedules to try
    StopUpdates,  \* stop-time updates an entity may hold
    StartDates,   \* start dates an entity may carry
    TripDelays,   \* trip-level delays, None for unset
    PollTimes,    \* instants of the poll
    MaxUpdates    \* bound: stop-time updates in one entity

ASSUME LoopAssumption ==
    /\ \A s \in Schedules : IsTripSchedule(s)
    /\ \A u \in StopUpdates : IsStopTimeUpdate(u)
    /\ StartDates \subseteq Time \cup {Malformed}
    /\ TripDelays \subseteq Time
    /\ PollTimes \subseteq Int
    /\ MaxUpdates \in Nat

VARIABLES
    tu,        \* the trip update decoded so far
    ts,        \* the trip's schedule
    polledAt   \* when the snapshot was polled

loopVars == <<tu, ts, polledAt>>

-----------------------------------------------------------------------------
(* matches[idx] = stu, for every update in turn.                           *)

MatchLoop ==
    LET After[n \in 0..Len(tu.stus)] ==
            IF n = 0 THEN [i \in 1..Len(ts.stops) |-> None]
            ELSE LET idx == StopIndex(ts, tu.stus[n])
                 IN  IF idx = 0 THEN After[n-1]
                     ELSE [After[n-1] EXCEPT ![idx] = tu.stus[n]]
    IN  After[Len(tu.stus)]

\* The scan for the reference: it stops at the first explicit time and keeps
\* the first usable scheduled time as a fallback.
ReferenceLoop ==
    LET After[n \in 0..Len(tu.stus)] ==
            IF n = 0 THEN [secs |-> -1, at |-> polledAt, stopped |-> FALSE]
            ELSE LET prev == After[n-1]
                     stu  == tu.stus[n]
                     idx  == StopIndex(ts, stu)
                     at   == FirstPositive(stu.arr, stu.dep)
                 IN  IF prev.stopped \/ idx = 0 THEN prev
                     ELSE LET secs == BestSecs(ts.stops[idx])
                          IN  IF secs < 0 THEN prev
                              ELSE IF at > 0
                                   THEN [secs |-> secs, at |-> at, stopped |-> TRUE]
                              ELSE IF prev.secs < 0 THEN [prev EXCEPT !.secs = secs]
                              ELSE prev
    IN  After[Len(tu.stus)]

\* The body of the loop over the stops: st carries propDelay (None: not set)
\* and the predictions put out so far.
Visit(st, date, i, stu) ==
    LET sched == Sched(ts, date, i)
        Emit(p, prop) == [prop |-> prop, out |-> st.out \cup {<<i, p>>}]
    IN  IF stu # None
        THEN CASE stu.rel = "SKIPPED" -> Emit(None, st.prop)
               [] stu.rel = "NO_DATA" -> [st EXCEPT !.prop = None]
               [] OTHER ->
                    LET p == Prediction(stu, tu, sched)
                    IN  IF p = None THEN st
                        ELSE Emit(p, IF p.delay # None THEN p.delay ELSE st.prop)
        ELSE IF st.prop = None \/ sched = None THEN st
        ELSE Emit([pred |-> sched + st.prop, delay |-> st.prop], st.prop)

StopLoop(date) ==
    LET matches == MatchLoop
        start   == CHOOSE s \in 1..(Len(ts.stops) + 1) :
                     /\ \A i \in 1..(s-1) : matches[i] = None
                     /\ s <= Len(ts.stops) => matches[s] # None
        from    == IF tu.delay # None /\ start > Len(ts.stops) THEN 1 ELSE start
        After[i \in 0..Len(ts.stops)] ==
            IF i < from THEN [prop |-> tu.delay, out |-> {}]
            ELSE Visit(After[i-1], date, i, matches[i])
    IN  After[Len(ts.stops)].out

-----------------------------------------------------------------------------

LoopTypeOK ==
    /\ ts \in Schedules
    /\ polledAt \in PollTimes
    /\ tu \in [trip: {"trip"}, startDate: StartDates, canceled: BOOLEAN, ts: {0},
               delay: TripDelays, stus: Seq(StopUpdates)]

LoopInit ==
    /\ ts \in Schedules
    /\ polledAt \in PollTimes
    /\ \E d \in StartDates, c \in BOOLEAN, td \in TripDelays :
         tu = [trip |-> "trip", startDate |-> d, canceled |-> c, ts |-> 0,
               delay |-> td, stus |-> <<>>]

\* decodeTripUpdate appends the entity's updates in feed order.
DecodeStopTimeUpdate(stu) ==
    /\ Len(tu.stus) < MaxUpdates
    /\ tu' = [tu EXCEPT !.stus = Append(@, stu)]
    /\ UNCHANGED <<ts, polledAt>>

LoopNext == \E stu \in StopUpdates : DecodeStopTimeUpdate(stu)

LoopSpec == LoopInit /\ [][LoopNext]_loopVars

-----------------------------------------------------------------------------
(* Properties.                                                             *)

\* The stop events of an update are the ones the loop over the stops emits:
\* the running delay, the skips it survives and the NO_DATA stops that end it
\* (reconcileTrip) come to the same as "the nearest earlier stop that decides".
EventsAgreeWithLoop ==
    LET date == ServiceDate(tu, ts, polledAt)
    IN  date # None /\ ~tu.canceled =>
          {<<e.key[3], e.skipped, e.pred, e.delay>> :
              e \in ReconcileTrip(tu, ts, 1, 1, polledAt)}
          = {LET p == out[2]
             IN  IF p = None THEN <<ts.stops[out[1]].seq, TRUE, None, None>>
                             ELSE <<ts.stops[out[1]].seq, FALSE, p.pred, p.delay>> :
              out \in StopLoop(date)}

\* The reference of the service date is the one the scan with its early exit
\* finds (resolveServiceDate): a later explicit time beats an earlier update
\* without one, and only then do the poll time and the trip's first stop count.
ReferenceAgreesWithScan ==
    LET scan == ReferenceLoop
        ref  == DateReference(tu, ts, polledAt)
    IN  IF scan.secs >= 0 THEN ref = [secs |-> scan.secs, at |-> scan.at]
        ELSE ref.at = polledAt
             /\ ref.secs = IF \E i \in 1..Len(ts.stops) : BestSecs(ts.stops[i]) >= 0
                           THEN BestSecs(ts.stops[CHOOSE i \in 1..Len(ts.stops) :
                                     /\ BestSecs(ts.stops[i]) >= 0
                                     /\ \A j \in 1..(i-1) : BestSecs(ts.stops[j]) < 0])
                           ELSE -1

\* Rule 2 of the contracts: a delay is always predicted minus scheduled time,
\* whether it was read from the feed, computed, or carried over from another
\* stop; and nothing invents a delay where there is no prediction or schedule.
DelayIsPredictedMinusScheduled ==
    \A e \in ReconcileTrip(tu, ts, 1, 1, polledAt) :
        /\ e.delay # None => e.pred # None /\ e.sched # None /\ e.delay = e.pred - e.sched
        /\ e.pred # None /\ e.sched # None => e.delay # None
        /\ e.skipped <=> e.pred = None
=============================================================================
