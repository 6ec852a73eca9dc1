------------------------------ MODULE EventKeys ------------------------------
(***************************************************************************)
(* Under which keys the event of ServiceDates is filed: the week that its  *)
(* row's partition is named for (internal/store/partitions.go), and what   *)
(* the nightly rollups (internal/rollup/rollup.go) compute from the row in *)
(* SQL, the departure of the timetable, its class of day, the hour of the  *)
(* week.  The zone is that of GtfsTime, the calendar that of Weeks.        *)
(***************************************************************************)
EXTENDS ServiceDates, Weeks

\* Names of partitions have years of four digits.
ASSUME YearsAssumption ==
    \A d \in Dates : \E y \in NamedYears : Jan1(y) <= d /\ d < Jan1(y + 1)

HourAtFixedOffset(t) ==                              \* variant: without summer time
    LET wall == t + OffBefore
    IN  Weekday(wall \div Day) * 24 + ((wall % Day) * 24) \div Day

\* hourOfWeekExpr: of the clock in the agency's zone, Monday 00:00 being 0.
HourOfWeek(t) ==
    LET wall == t + Offset(t)
    IN  Weekday(wall \div Day) * 24 + ((wall % Day) * 24) \div Day

SecsSinceMidnight(d, t) == t - CivilMidnight(d)      \* variant: since local midnight

\* scheduledSecsExpr: noon of the service date in the zone, minus 12 hours, is
\* the origin here, too.
ScheduledSecs(d, t) == t - (Noon(d) - Day \div 2)

\* dayClassExpr
DayClass(d) ==
    CASE Weekday(d) = 5 -> "saturday"
      [] Weekday(d) = 6 -> "sunday"
      [] OTHER -> "weekday"

-----------------------------------------------------------------------------

\* "keeps a stop scheduled at 08:12 wall clock at the same scheduled_secs
\* across DST transitions": whatever the feed predicts within the drift of
\* rule 1, the observation is filed under the departure the timetable has, on
\* a 23- or 25-hour day as on any other -- although the row was given its
\* schedule by the engine, from a service date it had to find, and the key is
\* recomputed in SQL.
DeparturesKeepTheirKey ==
    /\ CivilDate(Predicted) \in {date, date + 1}
    /\ Distance(late, 0) < Day \div 2 - Distance(OffBefore, OffAfter)
    => \A e \in ReconcileTrip(Update, Trip, 1, 1, Predicted) :
          <<ScheduledSecs(e.key[1], e.sched), DayClass(e.key[1])>> = <<secs, DayClass(date)>>

\* "Monday 00:00 .. Sunday 23:00 in the agency timezone": a stop on the noon
\* side of a transition is filed under the hour its timetable shows, a stop
\* beyond 24:00 under the next day's, and Sunday's under Monday's.
HoursAreOfTheClock ==
    LET t == ScheduledTime(date, secs)
    IN  Offset(t) = Offset(Noon(date)) =>
          HourOfWeek(t) = (Weekday(date) * 24 + (secs * 24) \div Day) % (7 * 24)

\* "parsePartitionName inverts partitionName": the partition made for the week
\* of a row is found again, as that week's, by its name, which is the only
\* record of it -- around New Year and in years of 53 weeks too.  A name read as
\* another week would drop rows that must stay, one not read at all would keep
\* them for ever.
NamesTellTheWeek ==
    ParsePartitionName(PartitionName(WeekStart(date))) = {WeekStart(date)}
=============================================================================
