------------------------------- MODULE GtfsZip -------------------------------
(***************************************************************************)
(* A static GTFS zip and what ParseZip (internal/gtfsstatic/parse.go)      *)
(* hands of it to the writer of internal/store/scheduleload.go.            *)
(*                                                                         *)
(* A zip is a sequence of entries [dir, base, file], in archive order, dir *)
(* being "" at the root.  A file is [header, cols, rows]: whether it has a *)
(* header line at all, the column names of that line, and rows that map    *)
(* the columns they reach to cells (a ragged row reaches fewer).  A cell   *)
(* is text; Malformed is text that is no number, time or date where one is *)
(* asked for, and stands for a row the CSV reader cannot read, too.        *)
(***************************************************************************)
EXTENDS Integers, Sequences

CONSTANT Malformed

\* The tables that have rows, and the files a zip cannot be without.
Tables == {"routes", "stops", "trips", "calendar", "calendar_dates", "stop_times"}
Required == {"agency", "stops", "routes", "trips", "stop_times"}

\* Columns whose absence from the header is an error.
Needed ==
    [agency |-> {"agency_timezone"}, routes |-> {"route_id"}, stops |-> {"stop_id"},
     trips |-> {"trip_id", "route_id", "service_id"}, calendar |-> {"service_id"},
     calendar_dates |-> {"service_id", "date"},
     stop_times |-> {"trip_id", "stop_id", "stop_sequence"}]

\* Cells with a meaning of their own when they are empty; they must read well
\* otherwise.  -1 is "unknown" and "not specified".
Defaults ==
    [routes |-> [route_type |-> "0", route_sort_order |-> "0"],
     stops |-> [stop_lat |-> "0", stop_lon |-> "0", location_type |-> "0"],
     trips |-> [direction_id |-> "-1"],
     calendar |-> << >>,
     calendar_dates |-> [exception_type |-> "0"],
     stop_times |-> [arrival_time |-> "-1", departure_time |-> "-1"]]

\* Cells that must be there and read well: the parser's stop_sequence, the
\* dates the writer converts.
Exact ==
    [routes |-> {}, stops |-> {}, trips |-> {}, calendar |-> {"start_date", "end_date"},
     calendar_dates |-> {"date"}, stop_times |-> {"stop_sequence"}]

\* Cells taken as they are.  (Most names, colours, shapes and weekdays are left out.)
Texts ==
    [routes |-> {"route_id"}, stops |-> {"stop_id", "stop_name", "parent_station"},
     trips |-> {"trip_id", "route_id", "service_id"}, calendar |-> {"service_id"},
     calendar_dates |-> {"service_id"}, stop_times |-> {"trip_id", "stop_id"}]

\* PRIMARY KEY of each gtfs table, within a schedule version.
KeyColumns ==
    [routes |-> {"route_id"}, stops |-> {"stop_id"}, trips |-> {"trip_id"},
     calendar |-> {"service_id"}, calendar_dates |-> {"service_id", "date"},
     stop_times |-> {"trip_id", "stop_sequence"}]

-----------------------------------------------------------------------------

Entries(zip, base) == {i \in DOMAIN zip : zip[i].base = base}

\* The entry of that base name: the first one at the root, or else the first.
Member(zip, base) ==
    LET named  == Entries(zip, base)
        rooted == {i \in named : zip[i].dir = ""}
        among  == IF rooted # {} THEN rooted ELSE named
    IN  zip[CHOOSE i \in among : \A j \in among : i <= j].file

Has(zip, base) == Entries(zip, base) # {}

\* table.str: "" when the header lacks the column or the row does not reach it.
Cell(file, row, col) == IF col \in file.cols \cap DOMAIN row THEN row[col] ELSE ""

FirstCell(file, col) == IF file.rows = << >> THEN "" ELSE Cell(file, file.rows[1], col)

AgencyTZ(zip) == FirstCell(Member(zip, "agency"), "agency_timezone")

\* ParseZip up to Meta: files, the agency's time zone, a readable feed_info.
Opens(zip) ==
    /\ \A base \in Required : Has(zip, base)
    /\ Member(zip, "agency").header
    /\ Needed.agency \subseteq Member(zip, "agency").cols
    /\ AgencyTZ(zip) \notin {"", Malformed}
    /\ Has(zip, "feed_info") => /\ Member(zip, "feed_info").header
                                /\ FirstCell(Member(zip, "feed_info"), "feed_version") # Malformed

RefusesKeysOnly(t, file, row) ==                     \* variant: other cells are let pass
    \E col \in Exact[t] : Cell(file, row, col) \in {"", Malformed}

\* A row the parser of its table, or the writer's callback, refuses.
Refuses(t, file, row) ==
    \/ \E col \in DOMAIN Defaults[t] : Cell(file, row, col) = Malformed
    \/ \E col \in Exact[t] : Cell(file, row, col) \in {"", Malformed}

\* The row the callback is called with.
Parsed(t, file, row) ==
    [table |-> t,
     cells |-> [col \in Texts[t] \cup Exact[t] \cup DOMAIN Defaults[t] |->
                  IF Cell(file, row, col) = "" /\ col \in DOMAIN Defaults[t]
                  THEN Defaults[t][col]
                  ELSE Cell(file, row, col)]]

Key(row) == <<row.table, [col \in KeyColumns[row.table] |-> row.cells[col]]>>

\* The files that may be missing have no rows then.
Rows(zip, t) ==
    IF Has(zip, t)
    THEN [i \in DOMAIN Member(zip, t).rows |->
            Parsed(t, Member(zip, t), Member(zip, t).rows[i])]
    ELSE << >>

\* ParseZip returns no error of its own: it gets past Meta and through every table.
Reads(zip) ==
    /\ Opens(zip)
    /\ \A t \in Tables : Has(zip, t) =>
         LET file == Member(zip, t)
         IN  /\ file.header
             /\ Needed[t] \subseteq file.cols
             /\ \A i \in DOMAIN file.rows : ~Refuses(t, file, file.rows[i])
=============================================================================
