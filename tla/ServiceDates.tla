---------------------------- MODULE ServiceDates ----------------------------
(***************************************************************************)
(* Rule 1 of docs/CONTRACTS.md around a daylight-saving transition: a feed *)
(* without start_date predicts one stop of a trip of a known service date, *)
(* and revises the prediction from poll to poll; resolveServiceDate has to *)
(* find the date again from each prediction.                               *)
(***************************************************************************)
EXTENDS TripUpdates

CONSTANTS
    Dates,      \* service dates around the transition
    StopTimes,  \* GTFS times of the stop, beyond 24:00 too
    MaxDrift    \* bound: how far a prediction strays from the schedule

\* Clocks do not change at noon, no prediction reaches back to the epoch, whose
\* instant the code takes for "no time", and an update is not its absence.
ASSUME ServiceDatesAssumption ==
    /\ Dates \subseteq Int /\ StopTimes \subseteq Nat /\ MaxDrift \in Nat
    /\ \A d \in Dates : Noon(d) + Offset(Noon(d)) = d * Day + Day \div 2
    /\ \A d \in Dates, s \in StopTimes : ScheduledTime(d, s) > MaxDrift
    /\ None \notin [seq: Int, stop: {None}, arr: Int, dep: Int, arrDelay: {None},
                   depDelay: {None}, rel: {"SCHEDULED"}]

VARIABLES
    date,   \* the service date the trip really runs on
    secs,   \* the stop's GTFS time
    late    \* predicted minus scheduled in the latest poll

vars == <<date, secs, late>>

Predicted == ScheduledTime(date, secs) + late

Trip == [stops |-> <<[seq |-> 1, stop |-> "a", arr |-> secs, dep |-> secs]>>]

\* The update the feed sends: an explicit arrival time and no start_date.
Update ==
    [trip |-> "trip", startDate |-> None, canceled |-> FALSE, ts |-> 0, delay |-> None,
     stus |-> <<[seq |-> 1, stop |-> None, arr |-> Predicted, dep |-> 0,
                 arrDelay |-> None, depDelay |-> None, rel |-> "SCHEDULED"]>>]

TypeOK == date \in Dates /\ secs \in StopTimes /\ late \in -MaxDrift..MaxDrift

Init == date \in Dates /\ secs \in StopTimes /\ late = 0

\* The next poll moves the prediction by one unit, either way.
Revise(by) ==
    /\ late + by \in -MaxDrift..MaxDrift
    /\ late' = late + by
    /\ UNCHANGED <<date, secs>>

Next == \E by \in {-1, 1} : Revise(by)

Spec == Init /\ [][Next]_vars

-----------------------------------------------------------------------------

\* Rule 1: whatever the feed predicts, within half a day of the schedule, on
\* the trip's own day or the civil day after it, the event lands on the
\* trip's service date, with the delay the feed meant -- after midnight and
\* across a 23- or 25-hour day.  (A vehicle predicted before midnight for a
\* stop just after it is out of reach of "yesterday and today": the README
\* says more.)
DriftKeepsServiceDate ==
    /\ CivilDate(Predicted) \in {date, date + 1}
    /\ Distance(late, 0) < Day \div 2 - Distance(OffBefore, OffAfter)
    => \E e \in ReconcileTrip(Update, Trip, 1, 1, Predicted) :
          e.key[1] = date /\ e.delay = late

\* gtfstime.go: "anchoring there is what keeps 08:00:00 meaning 8 AM wall
\* clock on those days": a GTFS time that falls on the noon side of the
\* transition is what the zone's clocks show at that instant.
WallClockKept ==
    LET t == ScheduledTime(date, secs)
    IN  Offset(t) = Offset(Noon(date)) => t + Offset(t) = date * Day + secs
=============================================================================
