--------------------------- MODULE MCScheduleLoads ---------------------------
(***************************************************************************)
(* Small instances of ScheduleLoads.  "a" is a bus and a rail zip, with    *)
(* the shapes ParseZip copes with: a nested copy of a file, no calendar, a *)
(* header without a column, a ragged row, an empty time.  "b" is its       *)
(* successor in one zip, without the rail stop and with no trip to C.  "bad" has a time that     *)
(* cannot be read behind rows that can, "twice" a stop in both its zips.   *)
(***************************************************************************)
EXTENDS ScheduleLoads, TLC

File(cols, rows) == [header |-> TRUE, cols |-> cols, rows |-> rows]
Entry(base, file) == [dir |-> "", base |-> base, file |-> file]

Agency(tz) == Entry("agency", File({"agency_timezone"}, <<[agency_timezone |-> tz]>>))

RoutesOf(ids) ==
    Entry("routes", File({"route_id"}, [i \in DOMAIN ids |-> [route_id |-> ids[i]]]))

StopRow(id, parent) == [stop_id |-> id, parent_station |-> parent]
StationRow == [stop_id |-> "P", stop_name |-> "Park", location_type |-> "1"]
DoorRow == [stop_id |-> "D", stop_name |-> "Park", location_type |-> "2", parent_station |-> "P"]
StopsFile(stops) == File({"stop_id", "stop_name", "location_type", "parent_station"}, stops)
StopsOf(stops) == Entry("stops", StopsFile(stops))

TripsOf(route, ids) ==
    Entry("trips", File({"trip_id", "route_id", "service_id"},
        [i \in DOMAIN ids |-> [trip_id |-> ids[i], route_id |-> route, service_id |-> "wk"]]))

Passes(trip, seq, stop, time) ==
    [trip_id |-> trip, stop_sequence |-> seq, stop_id |-> stop, arrival_time |-> time]
StopTimes(rows) ==
    Entry("stop_times", File({"trip_id", "stop_sequence", "stop_id", "arrival_time"}, rows))

Calendar ==
    Entry("calendar", File({"service_id", "start_date", "end_date"},
        <<[service_id |-> "wk", start_date |-> "20260101", end_date |-> "20261231"]>>))

Bus ==
    <<Agency("ET"), RoutesOf(<<"r1">>),
      [dir |-> "__MACOSX", base |-> "stops", file |-> StopsFile(<< >>)],
      StopsOf(<<StationRow, StopRow("A", "P"), DoorRow, [stop_id |-> "C"]>>),
      TripsOf("r1", <<"t1", "t2">>), Calendar,
      StopTimes(<<Passes("t1", "1", "A", "08:00"), Passes("t1", "2", "C", ""),
                  Passes("t2", "1", "A", "09:00")>>)>>

Rail ==
    <<RoutesOf(<<"r2">>), StopsOf(<<StopRow("B", "P")>>), Agency("ET"),
      TripsOf("r2", <<"t3">>), StopTimes(<<Passes("t3", "1", "B", "24:10")>>)>>

Next1 ==
    <<Agency("ET"), RoutesOf(<<"r1">>), StopsOf(<<StationRow, StopRow("A", "P"), StopRow("C", "")>>),
      TripsOf("r1", <<"t1">>), Calendar, StopTimes(<<Passes("t1", "1", "A", "08:05")>>)>>

Broken ==
    <<Agency("ET"), RoutesOf(<<"r1">>), StopsOf(<<StationRow, StopRow("A", "P")>>),
      TripsOf("r1", <<"t1">>),
      StopTimes(<<Passes("t1", "1", "A", "08:05"), Passes("t1", "2", "A", "09:00"),
                  Passes("t1", "3", "A", Malformed)>>)>>

MCZips ==
    [a |-> <<Bus, Rail>>, b |-> <<Next1>>, bad |-> <<Broken>>,
     twice |-> <<Next1, Rail, Next1>>]

\* Loaders are alike.
Symmetric == Permutations(Loaders)
=============================================================================
