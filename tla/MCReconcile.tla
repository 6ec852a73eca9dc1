---------------------------- MODULE MCReconcile ----------------------------
(***************************************************************************)
(* Small instances of Reconcile.  One trip of one day with two stops; a    *)
(* new schedule version moves the second one; the feed has a handful of    *)
(* things to say of the trip.                                              *)
(***************************************************************************)
EXTENDS Reconcile, TLC

Stop(seq, stop, secs) == [seq |-> seq, stop |-> stop, arr |-> secs, dep |-> secs]

Timed   == [t1 |-> [stops |-> <<Stop(1, "a", 1), Stop(2, "b", 2)>>]]
Moved   == [t1 |-> [stops |-> <<Stop(1, "a", 1), Stop(2, "c", 3)>>]]
Untimed == [t1 |-> [stops |-> <<Stop(1, "a", 1), Stop(2, "b", -1)>>]]

MCSchedule      == (1 :> Timed) @@ (2 :> Moved)
MCScheduleVague == 1 :> Untimed

\* What a stop-time update says of a stop.
Says(seq, arr, delay, rel) ==
    [seq |-> seq, stop |-> None, arr |-> arr, dep |-> 0,
     arrDelay |-> delay, depDelay |-> None, rel |-> rel]

Trip(stus) ==
    [trip |-> "t1", startDate |-> 0, canceled |-> FALSE, ts |-> 0, delay |-> None,
     stus |-> stus]

Feed(ts, tu) == [feedTs |-> ts, updates |-> {tu}]

OnTime    == Feed(1, Trip(<<Says(1, 1, None, "SCHEDULED")>>))
SkipsTwo  == Feed(2, Trip(<<Says(1, 2, None, "SCHEDULED"), Says(2, 0, None, "SKIPPED")>>))
LaterTwo  == Feed(3, Trip(<<Says(2, 4, None, "SCHEDULED")>>))
Canceled  == Feed(3, [Trip(<< >>) EXCEPT !.canceled = TRUE])
Stranger  == Feed(3, [Trip(<< >>) EXCEPT !.trip = "added"])

FeedSkip     == {OnTime, SkipsTwo}
FeedRevised  == {OnTime, LaterTwo}
FeedCanceled == {OnTime, Canceled, Stranger}

\* Pollers are alike.
Symmetric == Permutations(Pollers)
=============================================================================
