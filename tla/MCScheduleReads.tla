--------------------------- MODULE MCScheduleReads ---------------------------
(***************************************************************************)
(* A small instance of ScheduleReads: the schedules of MCScheduleLoads,    *)
(* one loader, and a rider who asks about what one of them lacks.          *)
(***************************************************************************)
EXTENDS MCScheduleLoads, ScheduleReads

MCRequests ==
    {[kind |-> "search", of |-> "Pa"], [kind |-> "bbox", of |-> {<<"0", "0">>}],
     [kind |-> "stop", of |-> "C"], [kind |-> "upcoming", of |-> "B"],
     [kind |-> "stopReliability", of |-> "P"], [kind |-> "routes", of |-> ""],
     [kind |-> "routeReliability", of |-> "r2"], [kind |-> "subscribe", of |-> "B"]}

MCMatches == {<<"Pa", "Park">>}

Observed(of, n) == [of |-> of, n |-> n]
MCRollups ==
    LET rows == {Observed("P", 2), Observed("B", 5), Observed("C", 5)}
    IN  [StopHourly |-> rows, StopDepartures |-> rows]
=============================================================================
