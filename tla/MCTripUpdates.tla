--------------------------- MODULE MCTripUpdates ---------------------------
(***************************************************************************)
(* TripUpdatesLoop with time in hours.  Two trips that run past midnight:  *)
(* a loop that calls twice at the same stop and has a stop without a time, *)
(* and one whose stops give only an arrival or only a departure.           *)
(***************************************************************************)
EXTENDS TripUpdatesLoop

Stop(seq, stop, arr, dep) == [seq |-> seq, stop |-> stop, arr |-> arr, dep |-> dep]

MCSchedules ==
    {[stops |-> <<Stop(1, "a", 22, 22), Stop(2, "b", -1, -1), Stop(3, "a", 25, 26)>>],
     [stops |-> <<Stop(1, "a", -1, 23), Stop(4, "b", 24, 25), Stop(6, "c", 26, -1)>>]}

\* What an update says of its stop: an explicit time, delays, nothing usable,
\* SKIPPED, NO_DATA.
Said ==
    {[arr |-> 47, dep |-> 48, arrDelay |-> 2, depDelay |-> None, rel |-> "SCHEDULED"],
     [arr |-> 0, dep |-> 51, arrDelay |-> None, depDelay |-> None, rel |-> "SCHEDULED"],
     [arr |-> 0, dep |-> 0, arrDelay |-> 3, depDelay |-> 1, rel |-> "SCHEDULED"],
     [arr |-> 0, dep |-> 0, arrDelay |-> None, depDelay |-> -1, rel |-> "SCHEDULED"],
     [arr |-> 0, dep |-> 0, arrDelay |-> None, depDelay |-> None, rel |-> "SCHEDULED"],
     [arr |-> 49, dep |-> 0, arrDelay |-> None, depDelay |-> None, rel |-> "SKIPPED"],
     [arr |-> 0, dep |-> 0, arrDelay |-> None, depDelay |-> None, rel |-> "NO_DATA"]}

\* How it names the stop: by sequence, by id, by both, by neither.
Names == {<<1, None>>, <<-1, "b">>, <<3, "b">>, <<-1, "a">>, <<-1, None>>}

MCStopUpdates ==
    {[seq |-> n[1], stop |-> n[2], arr |-> s.arr, dep |-> s.dep,
      arrDelay |-> s.arrDelay, depDelay |-> s.depDelay, rel |-> s.rel] :
        n \in Names, s \in Said}

MCStartDates == {None, Malformed, 1}
MCTripDelays == {None, 2}
MCPollTimes  == {47, 72}
MCMinusFive  == -5
MCMinusFour  == -4
=============================================================================
