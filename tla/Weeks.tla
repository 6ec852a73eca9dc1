-------------------------------- MODULE Weeks --------------------------------
(***************************************************************************)
(* The weeks by which stop_events and vehicle_positions are partitioned    *)
(* (internal/store/partitions.go).  A partition's name is the only record  *)
(* of its week: retention reads the week back from it.                     *)
(*                                                                         *)
(* A date is the number of days since Monday, 1 January of year 1; a name  *)
(* is <<year, week>> of the parent's name_yYYYYwWW.                        *)
(***************************************************************************)
EXTENDS Integers

\* Years whose weeks are all of years of four digits.
NamedYears == 1001..9998

\* 1 January: 365 days a year and the leap days before it.
Jan1(y) == 365 * (y - 1) + (y - 1) \div 4 - (y - 1) \div 100 + (y - 1) \div 400

YearOf(d) == CHOOSE y \in (d \div 366)..(d \div 365 + 1) : Jan1(y) <= d /\ d < Jan1(y + 1)

\* Monday = 0.
Weekday(d) == d % 7

WeekStart(d) == d - Weekday(d)

\* January 4 is always inside ISO week 1 of its year.
IsoWeekStart(y, w) == WeekStart(Jan1(y) + 3) + (w - 1) * 7

\* time.ISOWeek: a week is of the year its Thursday is in.
ISOWeek(d) ==
    LET thursday == WeekStart(d) + 3
        y        == YearOf(thursday)
    IN  <<y, (thursday - Jan1(y)) \div 7 + 1>>

NameOfMonday(week) ==                                \* variant: the Monday's own year
    LET y == YearOf(week) IN <<y, (week - Jan1(y)) \div 7 + 1>>

PartitionName(week) == ISOWeek(week)

\* The week of a name, if the name is of one: nonsense weeks do not round-trip.
ParsePartitionName(name) ==
    {week \in {IsoWeekStart(name[1], name[2])} :
        /\ name[1] \in 1000..9999 /\ name[2] \in 0..99
        /\ PartitionName(week) = name}
=============================================================================
