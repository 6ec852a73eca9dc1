------------------------------ MODULE GtfsTime ------------------------------
(***************************************************************************)
(* GTFS time (internal/domain/gtfstime.go): instants, civil dates of the   *)
(* agency's zone and the "noon minus 12 hours" origin of a service date.   *)
(*                                                                         *)
(* An instant is an integer number of time units since some epoch; a       *)
(* service date (YYYYMMDD in the code) is the number of its day, so that   *)
(* AddDays is the successor in the calendar.  The zone has two UTC         *)
(* offsets and one instant at which it moves from the first to the second: *)
(* a year around one daylight-saving transition.                           *)
(***************************************************************************)
EXTENDS Integers

CONSTANTS
    Day,        \* time units in 24 hours
    OffBefore,  \* UTC offset of the zone before the transition
    OffAfter,   \* UTC offset of the zone from the transition on
    SwitchAt    \* instant of the transition

ASSUME ZoneAssumption ==
    /\ Day \in Nat \ {0}
    /\ Day % 2 = 0
    /\ OffBefore \in Int
    /\ OffAfter \in Int
    /\ SwitchAt \in Int

-----------------------------------------------------------------------------

\* The offset Go's time.Location applies to instant t.
Offset(t) == IF t < SwitchAt THEN OffBefore ELSE OffAfter

\* CivilDate: the calendar date of instant t in the zone.
CivilDate(t) == (t + Offset(t)) \div Day

\* time.Date(y, m, d, 12, 0, 0, 0, loc): the instant at which the zone's
\* clocks show noon of day d.  (Noon is never skipped or repeated by a
\* transition; the offset that holds at the resulting instant is the one used.)
Noon(d) ==
    LET wall == d * Day + Day \div 2
    IN  IF wall - OffBefore < SwitchAt THEN wall - OffBefore ELSE wall - OffAfter

CivilMidnight(d) ==                                  \* variant: local midnight
    LET wall == d * Day
    IN  IF wall - OffBefore < SwitchAt THEN wall - OffBefore ELSE wall - OffAfter

\* The origin of GTFS times of service date d.
NoonMinus12(d) == Noon(d) - Day \div 2

\* The instant of GTFS time secs (it may exceed a day) of service date d.
ScheduledTime(d, secs) == NoonMinus12(d) + secs

=============================================================================
