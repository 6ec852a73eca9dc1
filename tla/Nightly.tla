------------------------------ MODULE Nightly ------------------------------
(***************************************************************************)
(* Weekly partitions, retention and rollups                                *)
(* (internal/store/partitions.go, internal/rollup/rollup.go, startNightly  *)
(* and the partitions of runServe and runReplay in cmd/ridewatch/main.go). *)
(*                                                                         *)
(* The serving process creates partitions when it starts, and every minute *)
(* looks whether the day's rollup or the day's retention is due.  Its      *)
(* statements commit one by one; any may fail, the process may die between *)
(* two, and a rollup may outlast its hour.  Pollers write meanwhile, and a *)
(* replay creates partitions of its own and writes old days.               *)
(*                                                                         *)
(* The clock counts hours in UTC.  Of the rows of a service day it only    *)
(* matters that there are some, and where.                                 *)
(***************************************************************************)
EXTENDS Integers, Sequences, FiniteSetsExt

CONSTANTS
    HoursPerDay, DaysPerWeek,
    RollupHour,    \* ROLLUP_HOUR_UTC
    Lag,           \* hours the agency's clock is behind UTC
    Parents,       \* partitionedTables, in their order; the first is stop_events
    Keep,          \* weeks of retention, by table; 0 keeps for ever
    Window,        \* ROLLUP_WINDOW_WEEKS
    Ahead,         \* weeks of partitions created ahead
    Rollups,       \* how many rollup tables there are
    Serviced,      \* the service days that have any rows, by table
    StartHour,     \* the clock at the beginning
    MaxTime,       \* bound: the clock stops here
    MaxFailures    \* bound: statements that fail, and hours that are overrun

Tables == {Parents[i] : i \in DOMAIN Parents}
Events == Parents[1]
ServiceDays == UNION {Serviced[t] : t \in Tables}

ASSUME NightlyAssumption ==
    /\ HoursPerDay \in Nat \ {0, 1} /\ DaysPerWeek \in Nat \ {0}
    /\ RollupHour \in 0..(HoursPerDay - 1)
    /\ Parents \in Seq(Tables) /\ Parents # << >>
    /\ Lag \in Int /\ Lag <= StartHour    \* the agency's day 0 has begun
    /\ Keep \in [Tables -> Nat]
    /\ Window \in Nat /\ Ahead \in Nat /\ Rollups \in Nat
    /\ Serviced \in [Tables -> SUBSET Int]
    /\ StartHour \in Nat /\ MaxTime \in Nat /\ MaxFailures \in Nat

VARIABLES
    now,       \* the clock
    part,      \* part[t]: attached week -> the service days its partition holds
    deflt,     \* deflt[t]: the days of the DEFAULT partition
    stray,     \* stray[t]: weeks whose table is detached and not dropped
    serve,     \* the serving process, the nightly job in particular
    latch,     \* rollupDay and retentionDay, of this life of the process
    replay,    \* a replay: the day it is about, the partitions it has to create
    rollups,   \* what each rollup table was computed over
    failures,  \* spent of MaxFailures
    written    \* history: the days ever written, by table

vars == <<now, part, deflt, stray, serve, latch, replay, rollups, failures, written>>

-----------------------------------------------------------------------------
(* Days and weeks.                                                         *)

HoursPerWeek  == HoursPerDay * DaysPerWeek
Day(h)        == h \div HoursPerDay
Hour(h)       == h % HoursPerDay
AgencyDay(h)  == Day(h - Lag)
WeekOf(d)     == d \div DaysPerWeek
WeekAt(h)     == WeekOf(Day(h))

RetentionHour == (RollupHour + 1) % HoursPerDay

-----------------------------------------------------------------------------
(* The tables.                                                             *)

\* EnsurePartitions: week by week, table by table.
EnsureNothingAhead(from, to) ==                      \* variant: the end forgotten
    [i \in 1..Len(Parents) |-> [week |-> from, table |-> Parents[i]]]

EnsureList(from, to) ==
    LET n == Len(Parents)
    IN  [i \in 1..((to - from + 1) * n) |->
            [week |-> from + ((i - 1) \div n), table |-> Parents[((i - 1) % n) + 1]]]

\* CREATE TABLE IF NOT EXISTS ... PARTITION OF.  A table of that name, even a
\* detached one, is left as it is; rows of that week in the DEFAULT partition
\* refuse it (SQLSTATE 23514), which is logged and skipped.
Creates(c) ==
    part' = IF \/ c.week \in DOMAIN part[c.table] \cup stray[c.table]
               \/ \E d \in deflt[c.table] : WeekOf(d) = c.week
            THEN part
            ELSE [part EXCEPT ![c.table] =
                    [w \in DOMAIN @ \cup {c.week} |-> IF w = c.week THEN {} ELSE @[w]]]

\* The days readers of a table find.
Held(t) == deflt[t] \cup UNION {part[t][w] : w \in DOMAIN part[t]}

\* A row of service day d is written to table t and routed to its partition.
Routes(t, d) ==
    /\ IF WeekOf(d) \in DOMAIN part[t]
       THEN /\ part' = [part EXCEPT ![t][WeekOf(d)] = @ \cup {d}]
            /\ deflt' = deflt
       ELSE /\ deflt' = [deflt EXCEPT ![t] = @ \cup {d}]
            /\ part' = part
    /\ written' = [written EXCEPT ![t] = @ \cup {d}]

\* dropOldPartitions: the whole week is older than the cutoff.
ExpiredByStart(t, w, at) ==                          \* variant: begun before the cutoff
    Keep[t] > 0 /\ w * HoursPerWeek <= at - Keep[t] * HoursPerWeek

Expired(t, w, at) ==
    Keep[t] > 0 /\ (w + 1) * HoursPerWeek <= at - Keep[t] * HoursPerWeek

-----------------------------------------------------------------------------

Down == [pc |-> "down", at |-> 0, todo |-> << >>, tables |-> {}, table |-> "",
         weeks |-> {}, end |-> 0, built |-> 0]
Idle == [Down EXCEPT !.pc = "idle"]
NoLatch  == [rollup |-> -1, retention |-> -1]
NoReplay == [pc |-> "idle", day |-> 0, todo |-> << >>]

Init ==
    /\ now = StartHour
    /\ part = [t \in Tables |-> << >>]
    /\ deflt = [t \in Tables |-> {}]
    /\ stray = [t \in Tables |-> {}]
    /\ serve = Down
    /\ latch = NoLatch
    /\ replay = NoReplay
    /\ rollups = [i \in 1..Rollups |-> [end |-> 0, days |-> {}]]
    /\ failures = 0
    /\ written = [t \in Tables |-> {}]

Serving == serve.pc \notin {"down", "boot"}

Fallible == failures < MaxFailures /\ failures' = failures + 1

\* runServe: partitions from a week ago, before anything is polled.
Boot ==
    /\ serve.pc = "down"
    /\ serve' = [Down EXCEPT !.pc = "boot",
                             !.todo = EnsureList(WeekAt(now - HoursPerWeek),
                                                 WeekAt(now + Ahead * HoursPerWeek))]
    /\ latch' = NoLatch
    /\ UNCHANGED <<now, part, deflt, stray, replay, rollups, failures, written>>

\* The next CREATE of EnsurePartitions, at boot or in the night.
CreatePartition ==
    /\ serve.pc \in {"boot", "ensure"} /\ serve.todo # << >>
    /\ Creates(Head(serve.todo))
    /\ serve' = [serve EXCEPT !.todo = Tail(@)]
    /\ UNCHANGED <<now, deflt, stray, latch, replay, rollups, failures, written>>

Booted ==
    /\ serve.pc = "boot" /\ serve.todo = << >>
    /\ serve' = Idle
    /\ UNCHANGED <<now, part, deflt, stray, latch, replay, rollups, failures, written>>

-----------------------------------------------------------------------------
(* The nightly job.                                                        *)

RollupDue    == Hour(now) = RollupHour /\ latch.rollup # Day(now)
RetentionDue == Hour(now) = RetentionHour /\ latch.retention # Day(now)

\* The day's rollup begins: the latch, then the window, read once.
StartRollup ==
    /\ serve.pc = "idle" /\ RollupDue
    /\ latch' = [latch EXCEPT !.rollup = Day(now)]
    /\ serve' = [serve EXCEPT !.pc = "rollup", !.end = AgencyDay(now), !.built = 0]
    /\ UNCHANGED <<now, part, deflt, stray, replay, rollups, failures, written>>

\* No version is active: the day's rollup is skipped, and its latch stays.
SkipRollup ==
    /\ serve.pc = "idle" /\ RollupDue
    /\ latch' = [latch EXCEPT !.rollup = Day(now)]
    /\ UNCHANGED <<now, part, deflt, stray, serve, replay, rollups, failures, written>>

InWindow(end) == {d \in Held(Events) : end - Window * DaysPerWeek <= d /\ d < end}

RebuildsToDate ==                                    \* variant: the window read per table
    /\ serve.pc = "rollup" /\ serve.built < Rollups
    /\ rollups' = [rollups EXCEPT ![serve.built + 1] =
                     [end |-> AgencyDay(now), days |-> InWindow(AgencyDay(now))]]
    /\ serve' = [serve EXCEPT !.built = @ + 1]
    /\ UNCHANGED <<now, part, deflt, stray, latch, replay, failures, written>>

\* rebuild: DELETE and INSERT of one rollup table, in a transaction.
Rebuild ==
    /\ serve.pc = "rollup" /\ serve.built < Rollups
    /\ rollups' = [rollups EXCEPT ![serve.built + 1] =
                     [end |-> serve.end, days |-> InWindow(serve.end)]]
    /\ serve' = [serve EXCEPT !.built = @ + 1]
    /\ UNCHANGED <<now, part, deflt, stray, latch, replay, failures, written>>

RollupDone ==
    /\ serve.pc = "rollup" /\ serve.built = Rollups
    /\ serve' = Idle
    /\ UNCHANGED <<now, part, deflt, stray, latch, replay, rollups, failures, written>>

\* The day's retention begins with the partitions ahead.
StartRetention ==
    /\ serve.pc = "idle" /\ RetentionDue
    /\ latch' = [latch EXCEPT !.retention = Day(now)]
    /\ serve' = [serve EXCEPT !.pc = "ensure",
                              !.todo = EnsureList(WeekAt(now),
                                                  WeekAt(now + Ahead * HoursPerWeek))]
    /\ UNCHANGED <<now, part, deflt, stray, replay, rollups, failures, written>>

\* DropOldPartitions, with a clock reading of its own, whether or not
\* EnsurePartitions went well; tables in any order.
Drops == [serve EXCEPT !.pc = "drop", !.at = now, !.todo = << >>, !.weeks = {},
                       !.tables = {t \in Tables : Keep[t] > 0}]

StartDropping ==
    /\ serve.pc = "ensure" /\ serve.todo = << >>
    /\ serve' = Drops
    /\ UNCHANGED <<now, part, deflt, stray, latch, replay, rollups, failures, written>>

\* childPartitions of the next table, and those of them that are too old.
ListPartitions(t) ==
    /\ serve.pc = "drop" /\ serve.weeks = {}
    /\ t \in serve.tables
    /\ serve' = [serve EXCEPT !.tables = @ \ {t}, !.table = t,
                              !.weeks = {w \in DOMAIN part[t] : Expired(t, w, serve.at)}]
    /\ UNCHANGED <<now, part, deflt, stray, latch, replay, rollups, failures, written>>

\* DETACH of the oldest of them: its rows are no longer the table's.
Detach ==
    /\ serve.pc = "drop" /\ serve.weeks # {}
    /\ LET w == Min(serve.weeks)
       IN  /\ part' = [part EXCEPT ![serve.table] = [v \in DOMAIN @ \ {w} |-> @[v]]]
           /\ stray' = [stray EXCEPT ![serve.table] = @ \cup {w}]
    /\ serve' = [serve EXCEPT !.pc = "detached"]
    /\ UNCHANGED <<now, deflt, latch, replay, rollups, failures, written>>

DropTable ==
    /\ serve.pc = "detached"
    /\ stray' = [stray EXCEPT ![serve.table] = @ \ {Min(serve.weeks)}]
    /\ serve' = [serve EXCEPT !.pc = "drop", !.weeks = @ \ {Min(@)}]
    /\ UNCHANGED <<now, part, deflt, latch, replay, rollups, failures, written>>

RetentionDone ==
    /\ serve.pc = "drop" /\ serve.weeks = {} /\ serve.tables = {}
    /\ serve' = Idle
    /\ UNCHANGED <<now, part, deflt, stray, latch, replay, rollups, failures, written>>

\* A statement fails: runServe returns, EnsurePartitions goes over to dropping,
\* the rollup or the dropping is given up for the day.
StatementFails ==
    /\ Fallible
    /\ serve' = CASE serve.pc = "boot" -> Down
                  [] serve.pc = "ensure" -> Drops
                  [] OTHER -> Idle
    /\ serve.pc \in {"boot", "ensure", "rollup", "drop", "detached"}
    /\ UNCHANGED <<now, part, deflt, stray, latch, replay, rollups, written>>

Dies ==
    /\ serve.pc # "down"
    /\ serve' = Down
    /\ UNCHANGED <<now, part, deflt, stray, latch, replay, rollups, failures, written>>

-----------------------------------------------------------------------------
(* Writers.                                                                *)

\* A poller writes rows of today's trips, of yesterday's past midnight, and of
\* tomorrow's that the feed already names.
WriteLive(t, d) ==
    /\ Serving
    /\ d \in Serviced[t] \cap ((AgencyDay(now) - 1)..(AgencyDay(now) + 1))
    /\ Routes(t, d)
    /\ UNCHANGED <<now, stray, serve, latch, replay, rollups, failures>>

\* runReplay of one past day: partitions from the day before to a week after.
StartReplay(d) ==
    /\ replay.pc = "idle"
    /\ d < AgencyDay(now)
    /\ replay' = [pc |-> "running", day |-> d,
                  todo |-> EnsureList(WeekOf(d - 1), WeekOf(d + DaysPerWeek))]
    /\ UNCHANGED <<now, part, deflt, stray, serve, latch, rollups, failures, written>>

ReplayCreates ==
    /\ replay.pc = "running" /\ replay.todo # << >>
    /\ Creates(Head(replay.todo))
    /\ replay' = [replay EXCEPT !.todo = Tail(@)]
    /\ UNCHANGED <<now, deflt, stray, serve, latch, rollups, failures, written>>

ReplayWrites(t) ==
    /\ replay.pc = "running" /\ replay.todo = << >>
    /\ replay.day \in Serviced[t]
    /\ Routes(t, replay.day)
    /\ UNCHANGED <<now, stray, serve, latch, replay, rollups, failures>>

\* It returns, fails or is killed.
ReplayEnds ==
    /\ replay.pc = "running"
    /\ replay' = NoReplay
    /\ UNCHANGED <<now, part, deflt, stray, serve, latch, rollups, failures, written>>

-----------------------------------------------------------------------------

\* The minute ticker lets no hour pass in which work is due and the job free.
Tick ==
    /\ now < MaxTime
    /\ serve.pc = "idle" => ~RollupDue /\ ~RetentionDue
    /\ IF serve.pc \in {"idle", "down"} THEN failures' = failures ELSE Fallible
    /\ now' = now + 1
    /\ UNCHANGED <<part, deflt, stray, serve, latch, replay, rollups, written>>

Next ==
    \/ Boot
    \/ CreatePartition
    \/ Booted
    \/ StartRollup
    \/ SkipRollup
    \/ Rebuild
    \/ RollupDone
    \/ StartRetention
    \/ StartDropping
    \/ \E t \in Tables : ListPartitions(t)
    \/ Detach
    \/ DropTable
    \/ RetentionDone
    \/ StatementFails
    \/ Dies
    \/ \E t \in Tables, d \in ServiceDays : WriteLive(t, d)
    \/ \E d \in ServiceDays : StartReplay(d)
    \/ ReplayCreates
    \/ \E t \in Tables : ReplayWrites(t)
    \/ ReplayEnds
    \/ Tick

Spec == Init /\ [][Next]_vars

-----------------------------------------------------------------------------

\* Retention takes whole weeks and none too early: a day written, by a poller
\* or a replay, is found until its week is older than the weeks to keep,
\* wherever the nightly job failed, died or was late.
KeptForRetention ==
    \A t \in Tables : \A d \in written[t] :
        \/ d \in Held(t)
        \/ Keep[t] > 0 /\ now >= (WeekOf(d) + 1 + Keep[t]) * HoursPerWeek

\* README: the partitions are "created ahead of need".  What a poller writes
\* finds its week's partition, as long as fewer nights fail than are covered
\* ahead: only days longer past, written by a replay, come to the DEFAULT
\* partition, where retention never reaches them.
LiveRowsArePartitioned ==
    [][\A t \in Tables : \A d \in deflt'[t] \ deflt[t] : d < AgencyDay(now) - 1]_vars

\* The rollup tables are rebuilt one after the other over one window: however a
\* run ends, and over however many nights, a table is never computed over a
\* later window than one that is rebuilt before it.
WindowsDescend ==
    \A i, j \in 1..Rollups : i < j => rollups[i].end >= rollups[j].end

\* A rollup misses nothing of its window: with a window no longer than the
\* retention of stop_events, and a retention that is over before its day is, no
\* day it is about has been dropped.
RollupsMissNothing ==
    [][\A i \in 1..Rollups : rollups'[i] # rollups[i] =>
          {d \in written[Events] : rollups'[i].end - Window * DaysPerWeek <= d
                                   /\ d < rollups'[i].end} \subseteq rollups'[i].days]_vars
=============================================================================
