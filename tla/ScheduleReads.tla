---------------------------- MODULE ScheduleReads ----------------------------
(***************************************************************************)
(* API requests (internal/api/handlers.go) that read the active schedule   *)
(* (internal/store/queries.go) while ScheduleLoads replaces it.            *)
(*                                                                         *)
(* A handler asks the store several things in turn, and most of them are   *)
(* two statements of the pool: one finds the active version, the other     *)
(* reads that version's rows.  Each statement sees what is committed by    *)
(* then.  Columns that are only shown, orders and LIMITs are left out.     *)
(***************************************************************************)
EXTENDS ScheduleLoads

CONSTANTS
    Readers,          \* requests served at once
    Requests,         \* what is asked: [kind, of]
    Matches,          \* <<q, name>>: the search text is found in the name
    Rollups,          \* rows of the tables StopHourly, StopDepartures, RouteHourly
    MinObservations   \* domain.MinObservations

\* What each handler asks the store, in order.
Handlers ==
    [search           |-> <<"SearchStops">>,
     bbox             |-> <<"StopsInBBox">>,
     stop             |-> <<"Stop", "RoutesServingStop">>,
     upcoming         |-> <<"Stop", "RoutesServingStop">>,
     stopReliability  |-> <<"Stop", "StopHourly", "StopDepartures", "RoutesServingStop">>,
     routes           |-> <<"Routes">>,
     routeReliability |-> <<"Route", "RouteHourly">>,
     subscribe        |-> <<"Stop", "SaveSubscription">>]

ASSUME ReadsAssumption ==
    /\ \A q \in Requests : q.kind \in DOMAIN Handlers
    /\ MinObservations \in Nat
    /\ "" \notin Shas

VARIABLE reader   \* what each request is doing

readVars == <<vars, reader>>

\* at: the query it is at; id: the version it has found active, 0 for none;
\* answer: that of the query, once it has one; seen (history): the schedules
\* that were active at some moment of the request, "" for none.
Waiting ==
    [pc |-> "waiting", kind |-> "", of |-> "", at |-> 1, id |-> 0,
     answer |-> << >>, status |-> 0, seen |-> {}]

Query(r) == Handlers[reader[r].kind][reader[r].at]

Unversioned == {"RouteHourly", "SaveSubscription"}

\* One row or ErrNotFound.
Single == {"Stop", "Route"}

\* Queries that do without an active version, and those whose error a handler
\* passes over.
Expanding == {"StopHourly", "StopDepartures"}
Tolerated(r) == Query(r) = "RoutesServingStop" /\ reader[r].kind # "stop"

-----------------------------------------------------------------------------
(* The gtfs tables: rows of every version.                                 *)

Tagged(v, rows) == {[v |-> v, table |-> row.table, cells |-> row.cells] : row \in rows}

Gtfs == UNION {Tagged(i, versions[i].rows) : i \in Ids}

CellsOf(db, v, t) == {row.cells : row \in {x \in db : x.v = v /\ x.table = t}}

\* location_type <= 1: no entrances, no nodes.
Shown(stops) == {c \in stops : c.location_type \in {"0", "1"}}

SearchStops(db, v, q) ==
    {c.stop_id : c \in {x \in Shown(CellsOf(db, v, "stops")) :
                          x.stop_id = q \/ <<q, x.stop_name>> \in Matches}}

\* box: the places <<stop_lat, stop_lon>> in it.
StopsInBBox(db, v, box) ==
    {c.stop_id : c \in {x \in Shown(CellsOf(db, v, "stops")) :
                          <<x.stop_lat, x.stop_lon>> \in box}}

Stop(db, v, id) == {c \in CellsOf(db, v, "stops") : c.stop_id = id}
Route(db, v, id) == {c \in CellsOf(db, v, "routes") : c.route_id = id}
Routes(db, v) == CellsOf(db, v, "routes")

\* A station's own id and its platforms'.
Family(db, v, id) ==
    {id} \cup {c.stop_id : c \in {x \in CellsOf(db, v, "stops") : x.parent_station = id}}

JoinAcrossVersions(db, v, id) ==                     \* variant: joined by id alone
    {r.cells.route_id : r \in {x \in db :
        /\ x.v = v /\ x.table = "routes"
        /\ \E t, s \in db : /\ t.table = "trips" /\ t.cells.route_id = x.cells.route_id
                            /\ s.table = "stop_times" /\ s.cells.trip_id = t.cells.trip_id
                            /\ s.cells.stop_id \in Family(db, v, id)}}

RoutesServingStop(db, v, id) ==
    {r.cells.route_id : r \in {x \in db :
        /\ x.v = v /\ x.table = "routes"
        /\ \E t, s \in db : /\ t.table = "trips" /\ t.v = x.v
                            /\ t.cells.route_id = x.cells.route_id
                            /\ s.table = "stop_times" /\ s.v = t.v
                            /\ s.cells.trip_id = t.cells.trip_id
                            /\ s.cells.stop_id \in Family(db, v, id)}}

\* Rollup rows have no version; their stop is expanded by the active one.
StopRollup(db, v, table, id) ==
    {row \in Rollups[table] : row.of \in Family(db, v, id) /\ row.n >= MinObservations}

\* What a query answers about version v in the tables db.
Answer(query, of, db, v) ==
    CASE query = "SearchStops" -> SearchStops(db, v, of)
      [] query = "StopsInBBox" -> StopsInBBox(db, v, of)
      [] query = "Stop" -> Stop(db, v, of)
      [] query = "Route" -> Route(db, v, of)
      [] query = "Routes" -> Routes(db, v)
      [] query = "RoutesServingStop" -> RoutesServingStop(db, v, of)
      [] query \in Expanding -> StopRollup(db, v, query, of)

-----------------------------------------------------------------------------

Sha(table) ==
    IF Active(table) = {} THEN "" ELSE table[CHOOSE i \in Active(table) : TRUE].sha

ReadInit == Init /\ reader = [r \in Readers |-> Waiting]

\* A request arrives.
Ask(r, q) ==
    /\ reader[r].pc \in {"waiting", "answered"}
    /\ reader' = [reader EXCEPT ![r] =
                    [Waiting EXCEPT !.pc = "asking", !.kind = q.kind, !.of = q.of,
                                    !.seen = {Sha(versions)}]]
    /\ UNCHANGED vars

\* The query is answered; the handler goes on with the next or is done.
Answers(r, answer) ==
    LET last == reader[r].at = Len(Handlers[reader[r].kind])
    IN  reader' = [reader EXCEPT
            ![r].answer = <<Query(r), answer>>,
            ![r].at = IF last THEN @ ELSE @ + 1,
            ![r].id = 0,
            ![r].pc = IF last THEN "answered" ELSE "asking",
            ![r].status = IF last THEN 200 ELSE 0]

\* writeError: the request is over.
Refuses404(r) ==
    reader' = [reader EXCEPT ![r].pc = "answered", ![r].status = 404, ![r].id = 0,
                             ![r].answer = <<Query(r), {}>>]

Refuses500(r) ==
    reader' = [reader EXCEPT ![r].pc = "answered", ![r].status = 500, ![r].id = 0,
                             ![r].answer = << >>]

NewestVersion ==                                     \* variant: the newest one, loaded or not
    IF Ids = {} THEN 0 ELSE CHOOSE i \in Ids : \A j \in Ids : j <= i

\* activeVersionID.
ActiveVersion == IF Active(versions) = {} THEN 0 ELSE CHOOSE i \in Active(versions) : TRUE

\* The first statement.  Without an active version a list is empty, a single
\* row is not found, and a station is not expanded.
FindVersion(r) ==
    /\ reader[r].pc = "asking"
    /\ Query(r) \notin Unversioned
    /\ CASE ActiveVersion # 0 \/ Query(r) \in Expanding ->
              reader' = [reader EXCEPT ![r].pc = "reading", ![r].id = ActiveVersion]
         [] OTHER -> IF Query(r) \in Single THEN Refuses404(r) ELSE Answers(r, {})
    /\ UNCHANGED vars

\* The second statement, about the version found then.
ReadRows(r) ==
    /\ reader[r].pc = "reading"
    /\ LET answer == Answer(Query(r), reader[r].of, Gtfs, reader[r].id)
       IN  IF Query(r) \in Single /\ answer = {} THEN Refuses404(r) ELSE Answers(r, answer)
    /\ UNCHANGED vars

\* RouteHourly, or SaveSubscription (PushAlerts has the table).
ReadUnversioned(r) ==
    /\ reader[r].pc = "asking"
    /\ Query(r) \in Unversioned
    /\ Answers(r, {})
    /\ UNCHANGED vars

\* The handler does without the route names.
Namelessly(r) ==
    reader' = [reader EXCEPT ![r].pc = "answered", ![r].status = 200, ![r].id = 0,
                             ![r].answer = << >>]

ErrorIsNotFound(r) ==                                \* variant: any error of Stop is a 404
    /\ reader[r].pc \in {"asking", "reading"}
    /\ CASE Tolerated(r) -> Namelessly(r)
         [] Query(r) \in Single -> Refuses404(r)
         [] OTHER -> Refuses500(r)
    /\ UNCHANGED vars

\* A statement fails.
ReadFails(r) ==
    /\ reader[r].pc \in {"asking", "reading"}
    /\ IF Tolerated(r) THEN Namelessly(r) ELSE Refuses500(r)
    /\ UNCHANGED vars

Read(r) ==
    \/ \E q \in Requests : Ask(r, q)
    \/ FindVersion(r)
    \/ ReadRows(r)
    \/ ReadUnversioned(r)
    \/ ReadFails(r)

\* Requests under way notice which schedule a load makes the active one.
Notice ==
    reader' = [r \in Readers |->
        IF reader[r].pc \in {"asking", "reading"}
        THEN [reader[r] EXCEPT !.seen = @ \cup {Sha(versions')}]
        ELSE reader[r]]

\* A request's version id is in use, too.
Held == {reader[r].id : r \in Readers}

ReadNext ==
    \/ \E sha \in Shas : Publish(sha) /\ Notice
    \/ \E l \in Loaders : LookUp(l) /\ Notice
    \/ \E l \in Loaders : Proceeds(l, Fresh(Known \cup Held)) /\ Notice
    \/ \E l \in Loaders : (CommitUnacknowledged(l) \/ Fails(l) \/ Dies(l)) /\ Notice
    \/ \E r \in Readers : Read(r)

ReadSpec == ReadInit /\ [][ReadNext]_readVars

ReadFairness ==
    \A l \in Loaders :
        /\ WF_readVars(LookUp(l) /\ Notice)
        /\ WF_readVars(Proceeds(l, Fresh(Known \cup Held)) /\ Notice)

FairReadSpec == ReadSpec /\ ReadFairness

-----------------------------------------------------------------------------

\* The tables as they would be with one schedule in them, as version 1.
Only(sha) == IF sha = "" THEN {} ELSE Tagged(1, Whole(sha))

AnswerFor(query, of, sha) == Answer(query, of, Only(sha), IF sha = "" THEN 0 ELSE 1)

\* "Reference data (stops, routes) is always read from the active schedule
\* version": every answer is what one schedule says that was active at some
\* moment of the request, as if it were the only one there -- though finding
\* the version and reading its rows are two statements, the version may be
\* replaced between them, and a load may be filling another one meanwhile.
AnswersAreOfASchedule ==
    \A r \in Readers :
        reader[r].answer # << >> /\ reader[r].answer[1] \notin Unversioned
        => \E sha \in reader[r].seen :
              reader[r].answer[2] = AnswerFor(reader[r].answer[1], reader[r].of, sha)

\* "single-row lookups return domain.ErrNotFound": a rider is told that a stop
\* or route is not found only if a schedule of that time does not have it, and
\* is answered, or subscribed, only if one does; a failing database is neither.
NotFoundIsTrue ==
    \A r \in Readers :
        /\ reader[r].status \in {200, 404}
        /\ Handlers[reader[r].kind][1] \in Single
        => \E sha \in reader[r].seen :
              (AnswerFor(Handlers[reader[r].kind][1], reader[r].of, sha) = {})
                 <=> reader[r].status = 404
=============================================================================
