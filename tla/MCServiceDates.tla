--------------------------- MODULE MCServiceDates ---------------------------
(***************************************************************************)
(* EventKeys, and ServiceDates with it, with time in hours, in a zone five *)
(* hours west of UTC whose clocks go forward at two in the morning of      *)
(* Sunday, 8 March 2026: the days about it, and those of New Years between *)
(* years of 52 and 53 weeks, common and leap, of a century that begins     *)
(* with a leap year and of one that does not.                              *)
(***************************************************************************)
EXTENDS EventKeys

SpringForward == 739682
NewYears      == {2000, 2016, 2020, 2021, 2025, 2027, 2100}
MCDates       == ((SpringForward - 2)..(SpringForward + 2))
                 \cup UNION {(Jan1(y) - 3)..(Jan1(y) + 3) : y \in NewYears}
MCStopTimes   == 0..31
MCSwitchAt    == SpringForward * 24 + 7
West5         == -5
West4         == -4
=============================================================================
