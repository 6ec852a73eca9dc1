----------------------------- MODULE Reconcile -----------------------------
(***************************************************************************)
(* The reconciliation engine and the stop_events table it writes           *)
(* (internal/reconcile/engine.go, process.go; internal/store/events.go).   *)
(*                                                                         *)
(* Pollers of the serving process and replay processes each run Process on *)
(* one snapshot at a time, concurrently with each other, with the sweeper  *)
(* and with loads of a new static schedule.  Process reads the active      *)
(* schedule version and builds events; writes them as one batch (an        *)
(* implicit transaction); mirrors them into the live map under the         *)
(* engine's mutex; and takes the mutex again to note the feed's header.    *)
(* Between any two of these steps other actors move, the write may fail,   *)
(* or succeed without the answer arriving, and the serving process may     *)
(* stop and start again with its memory gone.                              *)
(*                                                                         *)
(* A snapshot holds at most one update of a trip; the trip cache is        *)
(* transparent (a version's schedule never changes), so a lookup is a      *)
(* function of version and trip.                                           *)
(***************************************************************************)
EXTENDS TripUpdates

CONSTANTS
    Pollers,     \* goroutines of the serving process that call Process
    Replayers,   \* `ridewatch replay` processes: their own engine, same store
    Versions,    \* schedule versions that may be loaded; 0 is no version
    Schedule,    \* Schedule[v][trip]: the trips of version v
    Snapshots,   \* [feedTs, updates]: what the feed may serve
    ArchivedAt,  \* poll times of the snapshots a replay reads back
    Grace,       \* FinalizeGrace
    MaxTime      \* bound: the clock stops here

ASSUME ReconcileAssumption ==
    /\ Pollers \cap Replayers = {}
    /\ Versions \subseteq Nat \ {0}
    /\ \A v \in Versions : \A t \in DOMAIN Schedule[v] : IsTripSchedule(Schedule[v][t])
    /\ \A s \in Snapshots :
         /\ s.feedTs \in Nat
         /\ \A tu \in s.updates : IsTripUpdate(tu)
         /\ \A tu, u \in s.updates : tu.trip = u.trip => tu = u
    /\ ArchivedAt \subseteq 0..MaxTime
    /\ Grace \in Nat
    /\ MaxTime \in Nat

Workers == Pollers \cup Replayers

VARIABLES
    rows,      \* the stop_events table: natural key -> row
    live,      \* Engine.liveEvents: natural key -> event
    header,    \* Engine.feedHeader of trip updates, None before the first
    active,    \* the active schedule version, 0 for none
    loaded,    \* the versions whose load has committed
    job,       \* what each worker's call of Process has in hand
    sweepAt,   \* the instant a Sweep under way read from the clock, else None
    now,       \* the clock
    offered    \* history: the events written while their row was open

vars == <<rows, live, header, active, loaded, job, sweepAt, now, offered>>

-----------------------------------------------------------------------------
(* The store.                                                              *)

\* The row an INSERT makes of an event.
NewRow(e) ==
    [ver |-> e.ver, stop |-> e.stop, sched |-> e.sched,
     pred |-> e.pred, delay |-> e.delay, skipped |-> e.skipped, ts |-> e.ts,
     final |-> FALSE, actual |-> None]

\* ON CONFLICT DO UPDATE: the columns it sets, and the guard of its WHERE.
AdvancedButDelay(row, e) ==                          \* variant: delay_secs forgotten
    [row EXCEPT !.pred = e.pred, !.skipped = e.skipped, !.ts = e.ts]

Advanced(row, e) ==
    [row EXCEPT !.pred = e.pred, !.delay = e.delay, !.skipped = e.skipped, !.ts = e.ts]

AdmitsAnyTimestamp(row, e) == ~row.final             \* variant: no timestamp guard
AdmitsFinal(row, e) == row.ts < e.ts                 \* variant: final rows reopen
Admits(row, e) == row.ts < e.ts /\ ~row.final

\* UpsertStopEvents: the table after a batch.
Upserted(table, events) ==
    LET EventOf(k) == CHOOSE e \in events : e.key = k
        touched    == {e.key : e \in events}
    IN  [k \in DOMAIN table \cup touched |->
            IF k \notin DOMAIN table THEN NewRow(EventOf(k))
            ELSE IF k \in touched /\ Admits(table[k], EventOf(k))
                 THEN Advanced(table[k], EventOf(k))
            ELSE table[k]]

\* COALESCE(predicted_arrival, scheduled_arrival)
BestKnown(row) == IF row.pred # None THEN row.pred ELSE row.sched

\* FinalizeDue: NULL < cutoff is not true, so a row without any time stays.
IsDueByPrediction(row, at) ==                        \* variant: no COALESCE
    ~row.final /\ row.pred # None /\ row.pred < at - Grace

IsDue(row, at) ==
    /\ ~row.final
    /\ BestKnown(row) # None
    /\ BestKnown(row) < at - Grace

FinalizedOnTime(table, at) ==                        \* variant: fabricates arrivals
    [k \in DOMAIN table |->
        IF IsDue(table[k], at)
        THEN [table[k] EXCEPT !.final = TRUE, !.actual = BestKnown(table[k])]
        ELSE table[k]]

Finalized(table, at) ==
    [k \in DOMAIN table |->
        IF IsDue(table[k], at)
        THEN [table[k] EXCEPT !.final = TRUE, !.actual = table[k].pred]
        ELSE table[k]]

-----------------------------------------------------------------------------
(* The engine.                                                             *)

\* The events of a snapshot under version v: reconcileTrip for every update of
\* a trip the schedule knows; without a version every trip is unmatched.
EventsOf ==
    [s \in Snapshots |-> [v \in Versions \cup {0} |-> [polledAt \in 0..MaxTime |->
        IF v = 0 THEN {}
        ELSE UNION {ReconcileTrip(tu, Schedule[v][tu.trip], v, s.feedTs, polledAt) :
                    tu \in {u \in s.updates : u.trip \in DOMAIN Schedule[v]}}]]]

\* The header time of a snapshot: FeedHeader.timestamp, else the poll time.
HeaderOf(s, polledAt) == IF s.feedTs > 0 THEN s.feedTs ELSE polledAt

\* The live map after mirroring a batch: newer entries are kept.
Mirrored(events) ==
    LET EventOf(k) == CHOOSE e \in events : e.key = k
        touched    == {e.key : e \in events}
    IN  [k \in DOMAIN live \cup touched |->
            IF k \in touched /\ (k \in DOMAIN live => live[k].ts <= EventOf(k).ts)
            THEN EventOf(k)
            ELSE live[k]]

Idle == [pc |-> "idle", events |-> {}, header |-> None]

-----------------------------------------------------------------------------

Init ==
    /\ rows = << >>
    /\ live = << >>
    /\ header = None
    /\ active = 0
    /\ loaded = {}
    /\ job = [w \in Workers |-> Idle]
    /\ sweepAt = None
    /\ now = 0
    /\ offered = {}

\* Process: ActiveVersion and the schedule lookups.  A lookup that fails ends
\* the call with nothing done, as if it had not begun.  A snapshot without
\* events skips the write.
Process(w, s, polledAt) ==
    /\ job[w] = Idle
    /\ LET events == EventsOf[s][active][polledAt]
       IN  job' = [job EXCEPT ![w] =
                     [pc |-> IF events = {} THEN "written" ELSE "built",
                      events |-> events, header |-> HeaderOf(s, polledAt)]]
    /\ UNCHANGED <<rows, live, header, active, loaded, sweepAt, now, offered>>

\* The batch commits.
Write(w) ==
    /\ job[w].pc = "built"
    /\ rows' = Upserted(rows, job[w].events)
    /\ offered' = offered \cup {e \in job[w].events :
                                  e.key \in DOMAIN rows => ~rows[e.key].final}
    /\ UNCHANGED <<live, header, active, loaded, sweepAt, now>>

WriteAcknowledged(w) ==
    /\ Write(w)
    /\ job' = [job EXCEPT ![w].pc = "written"]

\* The batch commits, but Process sees an error (a connection lost before the
\* answer, a cancelled context) and returns without mirroring.
WriteUnacknowledged(w) ==
    /\ Write(w)
    /\ job' = [job EXCEPT ![w] = Idle]

WriteFailsUnnoticed(w) ==                            \* variant: error ignored
    /\ job[w].pc = "built"
    /\ job' = [job EXCEPT ![w].pc = "written"]
    /\ UNCHANGED <<rows, live, header, active, loaded, sweepAt, now, offered>>

\* The batch is rolled back and Process returns the error.
WriteFails(w) ==
    /\ job[w].pc = "built"
    /\ job' = [job EXCEPT ![w] = Idle]
    /\ UNCHANGED <<rows, live, header, active, loaded, sweepAt, now, offered>>

\* The mirror, in the serving process.  A replay mirrors into an engine of its
\* own that nobody reads.
Mirror(w) ==
    /\ job[w].pc = "written"
    /\ live' = IF w \in Pollers THEN Mirrored(job[w].events) ELSE live
    /\ job' = [job EXCEPT ![w].pc = "mirrored"]
    /\ UNCHANGED <<rows, header, active, loaded, sweepAt, now, offered>>

\* The end of Process: the newest header wins.
NoteHeader(w) ==
    /\ job[w].pc = "mirrored"
    /\ header' = IF w \in Pollers /\ (header # None => job[w].header > header)
                 THEN job[w].header ELSE header
    /\ job' = [job EXCEPT ![w] = Idle]
    /\ UNCHANGED <<rows, live, active, loaded, sweepAt, now, offered>>

\* Sweep, first half: read the clock and age out live events, under the mutex.
SweepLive ==
    /\ sweepAt = None
    /\ sweepAt' = now
    /\ live' = [k \in {j \in DOMAIN live : now - live[j].due <= Grace} |-> live[k]]
    /\ UNCHANGED <<rows, header, active, loaded, job, now, offered>>

\* Sweep, second half: FinalizeDue with the instant read then.
SweepStore ==
    /\ sweepAt # None
    /\ rows' = Finalized(rows, sweepAt)
    /\ sweepAt' = None
    /\ UNCHANGED <<live, header, active, loaded, job, now, offered>>

SweepStoreFails ==
    /\ sweepAt # None
    /\ sweepAt' = None
    /\ UNCHANGED <<rows, live, header, active, loaded, job, now, offered>>

\* A replay ends with a FinalizeDue of its own.
ReplayFinalize(r) ==
    /\ job[r] = Idle
    /\ rows' = Finalized(rows, now)
    /\ UNCHANGED <<live, header, active, loaded, job, sweepAt, now, offered>>

\* A schedule load commits and its version becomes the active one.  A version
\* is loaded once; loads may commit in another order than they began.
Activate(v) ==
    /\ v \notin loaded
    /\ active' = v
    /\ loaded' = loaded \cup {v}
    /\ UNCHANGED <<rows, live, header, job, sweepAt, now, offered>>

\* The serving process stops, wherever its goroutines are, and starts again.
Restart ==
    /\ live' = << >>
    /\ header' = None
    /\ job' = [w \in Workers |-> IF w \in Pollers THEN Idle ELSE job[w]]
    /\ sweepAt' = None
    /\ UNCHANGED <<rows, active, loaded, now, offered>>

Tick ==
    /\ now < MaxTime
    /\ now' = now + 1
    /\ UNCHANGED <<rows, live, header, active, loaded, job, sweepAt, offered>>

\* A poller processes what it has just fetched; a replay what was archived.
Poll(w)   == w \in Pollers /\ \E s \in Snapshots : Process(w, s, now)
Replay(w) == w \in Replayers /\ \E s \in Snapshots, t \in ArchivedAt :
                                        t <= now /\ Process(w, s, t)

Next ==
    \/ \E w \in Workers :
         \/ Poll(w)
         \/ Replay(w)
         \/ WriteAcknowledged(w)
         \/ WriteUnacknowledged(w)
         \/ WriteFails(w)
         \/ Mirror(w)
         \/ NoteHeader(w)
    \/ SweepLive
    \/ SweepStore
    \/ SweepStoreFails
    \/ \E r \in Replayers : ReplayFinalize(r)
    \/ \E v \in Versions : Activate(v)
    \/ Restart
    \/ Tick

Spec == Init /\ [][Next]_vars

\* Time passes, the sweeper's ticker fires, and the database, however often it
\* fails or the process is restarted in mid-sweep, does not fail every sweep
\* for ever.  Nothing is assumed of the feed or of the pollers.
Fairness == WF_vars(Tick) /\ WF_vars(SweepLive) /\ SF_vars(SweepStore)

FairSpec == Spec /\ Fairness

-----------------------------------------------------------------------------
(* Types.                                                                  *)

Trips == UNION {DOMAIN Schedule[v] : v \in Versions}

\* stop_sequence and stop_id of the scheduled stops.
StopFields(field) ==
    UNION {UNION {{Schedule[v][t].stops[i][field] : i \in 1..Len(Schedule[v][t].stops)} :
                  t \in DOMAIN Schedule[v]} : v \in Versions}

KeyType == Int \X Trips \X StopFields("seq")

EventType ==
    [key: KeyType, ver: Versions, stop: StopFields("stop"), sched: Time,
     pred: Time, delay: Time, skipped: BOOLEAN, ts: Nat, due: Int]

RowType ==
    [ver: Versions, stop: StopFields("stop"), sched: Time, pred: Time, delay: Time,
     skipped: BOOLEAN, ts: Nat, final: BOOLEAN, actual: Time]

JobType ==
    [pc: {"idle", "built", "written", "mirrored"}, events: SUBSET EventType, header: Time]

TypeOK ==
    /\ DOMAIN rows \subseteq KeyType /\ rows \in [DOMAIN rows -> RowType]
    /\ DOMAIN live \subseteq KeyType /\ live \in [DOMAIN live -> EventType]
    /\ header \in Time
    /\ active \in Versions \cup {0}
    /\ loaded \subseteq Versions
    /\ DOMAIN job = Workers /\ \A w \in Workers : job[w] \in JobType
    /\ sweepAt \in Time
    /\ now \in 0..MaxTime
    /\ offered \subseteq EventType

-----------------------------------------------------------------------------
(* Safety.                                                                 *)

\* What was written of key k while its row was open.
OfferedOf(k) == {e \in offered : e.key = k}

\* README: the guard "makes repeated polls, out-of-order applies, and full
\* replays idempotent".  Writing any event again, in any order, alone, changes
\* nothing: whatever raced with its first write, the table already holds it or
\* something newer, or is history.
RewritesChangeNothing == \A e \in offered : Upserted(rows, {e}) = rows

\* The row of a stop, final or not, holds one of the observations written
\* while it was open, and none of those was newer -- so the outcome depends on
\* what was observed, not on the order pollers and replays wrote it in.  The
\* actual arrival of a final row is that observation's prediction, missing when
\* it had none: "never a fabricated on time".
NewestObservationWins ==
    \A k \in DOMAIN rows :
        \E e \in OfferedOf(k) :
            /\ rows[k].ts = e.ts /\ rows[k].pred = e.pred
            /\ rows[k].delay = e.delay /\ rows[k].skipped = e.skipped
            /\ rows[k].actual = IF rows[k].final THEN e.pred ELSE None
            /\ \A f \in OfferedOf(k) : f.ts <= e.ts

\* What riders see of a stop is backed by the store: the row exists and, until
\* it is final, is no older than the live event -- also while a write is in
\* flight, has failed, or was committed without an answer.
LiveIsBackedByStore ==
    \A k \in DOMAIN live :
        /\ k \in DOMAIN rows
        /\ ~rows[k].final => live[k].ts <= rows[k].ts

\* db/migrations/0001_init.sql:135: delay_secs is "(best-known arrival -
\* scheduled)": the three columns of a row belong together.
RowDelayMatchesRow ==
    \A k \in DOMAIN rows :
        /\ rows[k].pred = None => rows[k].delay = None
        /\ rows[k].pred # None /\ rows[k].sched # None =>
             rows[k].delay = rows[k].pred - rows[k].sched

-----------------------------------------------------------------------------
(* The store keeps its promise.                                            *)

Ledger == INSTANCE StopEventLedger WITH
    ledger <- [k \in DOMAIN rows |->
        [basis  |-> <<rows[k].ver, rows[k].stop, rows[k].sched>>,
         seen   |-> <<IF rows[k].final THEN rows[k].actual ELSE rows[k].pred,
                      rows[k].delay, rows[k].skipped>>,
         ts     |-> rows[k].ts,
         frozen |-> rows[k].final]]

\* interfaces.go, EventStore: a row only changes for a strictly newer
\* timestamp, rows already final are never reopened, and finalizing freezes
\* the prediction the row holds.
KeepsLedger == Ledger!Spec

-----------------------------------------------------------------------------
(* Liveness, under FairSpec.                                               *)

\* Contract rule 5: a vehicle that never returns "gets its remaining events
\* finalized": a row with a predicted or scheduled time, all of which lie well
\* within the modelled time, does not stay open for ever, whatever pollers,
\* failed sweeps and restarts do in between.
RowsWithATimeSettle ==
    []<>(\A k \in DOMAIN rows : BestKnown(rows[k]) # None => rows[k].final)
=============================================================================
