-------------------------- MODULE ReconcileProofs --------------------------
(***************************************************************************)
(* Theorems about Reconcile, for any pollers, replays, schedule versions,  *)
(* snapshots and grace: types, the newest observation wins, riders see     *)
(* only what the store holds, and the store implements StopEventLedger.    *)
(***************************************************************************)
EXTENDS Reconcile, TripUpdatesLemmas

-----------------------------------------------------------------------------
(* What Process builds.                                                    *)

\* A scheduled arrival of the stop of key k, in some version.
IsTimeOf(k, sched) ==
    \E v \in Versions : k[2] \in DOMAIN Schedule[v] /\
        \E i \in 1..Len(Schedule[v][k[2]].stops) :
            /\ Schedule[v][k[2]].stops[i].seq = k[3]
            /\ sched = Sched(Schedule[v][k[2]], k[1], i)

\* Schedule, prediction and delay of the stop of key k belong together.
Timed(k, x) ==
    /\ IsTimeOf(k, x.sched)
    /\ x.delay = IF x.pred = None \/ x.sched = None THEN None ELSE x.pred - x.sched

\* Every event of a snapshot is well typed and timed, and two events of one
\* stop carry the same timestamp: a snapshot speaks of a trip once.
BatchOK(events) ==
    /\ events \in SUBSET EventType
    /\ \A e, f \in events : e.key = f.key => e.ts = f.ts
    /\ \A e \in events : Timed(e.key, e)

\* StopFields names the fields of every scheduled stop.
LEMMA StopFieldsOf ==
    ASSUME NEW v \in Versions, NEW t \in DOMAIN Schedule[v],
           NEW i \in 1..Len(Schedule[v][t].stops)
    PROVE  /\ Schedule[v][t].stops[i].seq \in StopFields("seq")
           /\ Schedule[v][t].stops[i].stop \in StopFields("stop")
<1> DEFINE Here(field) == {Schedule[v][t].stops[j][field] : j \in 1..Len(Schedule[v][t].stops)}
           In(u, field) == UNION {{Schedule[u][r].stops[j][field] :
                                     j \in 1..Len(Schedule[u][r].stops)} :
                                  r \in DOMAIN Schedule[u]}
<1>1. Schedule[v][t].stops[i].seq \in Here("seq") /\ Schedule[v][t].stops[i].stop \in Here("stop")
  OBVIOUS
<1>2. \A field : Here(field) \subseteq In(v, field)
  OBVIOUS
<1>3. \A field : StopFields(field) = UNION {In(u, field) : u \in Versions}
  BY DEF StopFields
<1> HIDE DEF Here, In
<1>4. \A field : In(v, field) \subseteq StopFields(field)
  BY <1>3
<1> QED
  BY <1>1, <1>2, <1>4

\* An event of reconcileTrip under a loaded version is of the event type.
LEMMA TripEventType ==
    ASSUME NEW v \in Versions, NEW s \in Snapshots, NEW tu \in s.updates,
           tu.trip \in DOMAIN Schedule[v], NEW polledAt \in 0..MaxTime,
           NEW e \in ReconcileTrip(tu, Schedule[v][tu.trip], v, s.feedTs, polledAt)
    PROVE  e \in EventType /\ e.key[2] = tu.trip /\ Timed(e.key, e)
<1> DEFINE ts == Schedule[v][tu.trip]
<1>1. IsTripUpdate(tu) /\ IsTripSchedule(ts) /\ s.feedTs \in Nat /\ polledAt \in Int
  BY ReconcileAssumption
<1>2. IsEventOf(e, tu, ts, v)
  BY <1>1, EventSound
<1>3. \A i \in 1..Len(ts.stops) :
        ts.stops[i].seq \in StopFields("seq") /\ ts.stops[i].stop \in StopFields("stop")
  BY StopFieldsOf
<1>4. tu.trip \in Trips
  BY DEF Trips
<1> HIDE DEF ts
<1>5. PICK date \in Int, i \in 1..Len(ts.stops), sched \in Time, pred \in Time,
           delay \in Time, skipped \in BOOLEAN, stamp \in Nat, due \in Int :
        /\ e = [key     |-> <<date, tu.trip, ts.stops[i].seq>>,
                ver     |-> v,
                stop    |-> ts.stops[i].stop,
                sched   |-> sched,
                pred    |-> pred,
                delay   |-> delay,
                skipped |-> skipped,
                ts      |-> stamp,
                due     |-> due]
        /\ sched = Sched(ts, date, i)
        /\ delay = IF pred = None \/ sched = None THEN None ELSE pred - sched
        /\ skipped <=> pred = None
  BY <1>2, Zenon DEF IsEventOf
<1>6. e.key = <<date, tu.trip, ts.stops[i].seq>> /\ e.key \in KeyType
  BY <1>3, <1>4, <1>5 DEF KeyType
<1>7. Timed(e.key, e)
  <2>1. /\ e.key[1] = date /\ e.key[2] = tu.trip /\ e.key[3] = ts.stops[i].seq
        /\ e.sched = Sched(ts, date, i) /\ e.delay = delay /\ e.pred = pred /\ e.sched = sched
    BY <1>5
  <2>2. IsTimeOf(e.key, e.sched)
    BY <2>1 DEF IsTimeOf, ts
  <2> QED BY <1>5, <2>1, <2>2 DEF Timed
<1> QED
  BY <1>3, <1>5, <1>6, <1>7 DEF EventType

\* The batch a snapshot becomes.
LEMMA EventsOfOK ==
    ASSUME NEW s \in Snapshots, NEW v \in Versions \cup {0}, NEW polledAt \in 0..MaxTime
    PROVE  BatchOK(EventsOf[s][v][polledAt])
<1> DEFINE known     == {u \in s.updates : u.trip \in DOMAIN Schedule[v]}
           Of(tu)    == ReconcileTrip(tu, Schedule[v][tu.trip], v, s.feedTs, polledAt)
           events    == EventsOf[s][v][polledAt]
<1>1. events = IF v = 0 THEN {} ELSE UNION {Of(tu) : tu \in known}
  BY DEF EventsOf
<1> SUFFICES BatchOK(events)
  OBVIOUS
<1>2. CASE v = 0
  <2> HIDE DEF events
  <2> QED BY <1>1, <1>2 DEF BatchOK
<1>3. CASE v # 0
  <2>1. v \in Versions
    BY <1>3
  <2>2. \A tu \in known : \A e \in Of(tu) :
          e \in EventType /\ e.key[2] = tu.trip /\ Timed(e.key, e)
    BY <2>1, TripEventType
  <2>3. \A tu \in known : \A e \in Of(tu) : e.ts = EventTimestamp(tu, s.feedTs)
    BY DEF ReconcileTrip, Event
  <2>4. \A tu, u \in known : tu.trip = u.trip => tu = u
    BY ReconcileAssumption
  <2>5. \A e \in events : \E tu \in known : e \in Of(tu)
    <3> HIDE DEF known, Of, events
    <3> QED BY <1>1, <1>3
  <2> HIDE DEF known, Of, events
  <2>6. \A e \in events : e \in EventType /\ Timed(e.key, e)
    BY <2>2, <2>5
  <2>7. ASSUME NEW e \in events, NEW f \in events, e.key = f.key PROVE e.ts = f.ts
    <3>1. PICK tu \in known : e \in Of(tu)
      BY <2>5
    <3>2. PICK u \in known : f \in Of(u)
      BY <2>5
    <3>3. tu.trip = u.trip
      BY <2>2, <2>7, <3>1, <3>2
    <3> QED BY <2>3, <2>4, <3>1, <3>2, <3>3
  <2> QED BY <2>6, <2>7 DEF BatchOK
<1> QED
  BY <1>2, <1>3

-----------------------------------------------------------------------------
(* The operators of the store and of the live map.                         *)

\* What a batch makes of the row of key k: nothing, when it does not speak of
\* it; a new row; or the row that one event of it was offered to, admitted or
\* not (upsertStopEventSQL).
UpsertOutcome(table, events, k, row) ==
    \/ k \in DOMAIN table /\ k \notin {e.key : e \in events} /\ row = table[k]
    \/ k \notin DOMAIN table /\ \E e \in events : e.key = k /\ row = NewRow(e)
    \/ k \in DOMAIN table /\ \E e \in events :
         /\ e.key = k
         /\ row = IF Admits(table[k], e) THEN Advanced(table[k], e) ELSE table[k]

\* What a batch does to the table: it adds the keys of its events, and each
\* row is as UpsertOutcome says (the ON CONFLICT clause of the upsert).
LEMMA UpsertedRows ==
    ASSUME NEW table, NEW events
    PROVE  /\ DOMAIN Upserted(table, events) = DOMAIN table \cup {e.key : e \in events}
           /\ \A k \in DOMAIN Upserted(table, events) :
                UpsertOutcome(table, events, k, Upserted(table, events)[k])
<1> DEFINE EventOf(k) == CHOOSE e \in events : e.key = k
           touched    == {e.key : e \in events}
           U          == Upserted(table, events)
<1> SUFFICES /\ DOMAIN U = DOMAIN table \cup touched
             /\ \A k \in DOMAIN U : UpsertOutcome(table, events, k, U[k])
  OBVIOUS
<1>1. \A k \in touched : EventOf(k) \in events /\ EventOf(k).key = k
  OBVIOUS
<1>2. /\ DOMAIN U = DOMAIN table \cup touched
      /\ \A k \in DOMAIN table \cup touched :
           U[k] = IF k \notin DOMAIN table THEN NewRow(EventOf(k))
                  ELSE IF k \in touched /\ Admits(table[k], EventOf(k))
                       THEN Advanced(table[k], EventOf(k))
                  ELSE table[k]
  BY DEF Upserted
<1>3. ASSUME NEW k \in DOMAIN table \cup touched
      PROVE  UpsertOutcome(table, events, k, U[k])
  <2> HIDE DEF EventOf, touched, U
  <2>1. CASE k \notin DOMAIN table
    BY <1>1, <1>2, <2>1 DEF UpsertOutcome
  <2>2. CASE k \in DOMAIN table /\ k \in touched
    BY <1>1, <1>2, <2>2 DEF UpsertOutcome
  <2>3. CASE k \in DOMAIN table /\ k \notin touched
    BY <1>2, <2>3 DEF UpsertOutcome, touched
  <2> QED BY <2>1, <2>2, <2>3
<1> HIDE DEF EventOf, touched, U
<1> QED
  BY <1>2, <1>3

\* The live map after a mirrored batch: an entry it had, or an event of the
\* batch (the loop of processTripUpdates under the mutex).
LEMMA MirroredEvents ==
    ASSUME NEW events
    PROVE  /\ DOMAIN Mirrored(events) = DOMAIN live \cup {e.key : e \in events}
           /\ \A k \in DOMAIN Mirrored(events) :
                \/ k \in DOMAIN live /\ Mirrored(events)[k] = live[k]
                \/ \E e \in events : e.key = k /\ Mirrored(events)[k] = e
<1> DEFINE EventOf(k) == CHOOSE e \in events : e.key = k
           touched    == {e.key : e \in events}
           M          == Mirrored(events)
           Outcome(k) == \/ k \in DOMAIN live /\ M[k] = live[k]
                         \/ \E e \in events : e.key = k /\ M[k] = e
<1> SUFFICES DOMAIN M = DOMAIN live \cup touched /\ \A k \in DOMAIN M : Outcome(k)
  OBVIOUS
<1>1. \A k \in touched : EventOf(k) \in events /\ EventOf(k).key = k
  OBVIOUS
<1>2. /\ DOMAIN M = DOMAIN live \cup touched
      /\ \A k \in DOMAIN live \cup touched :
           M[k] = IF k \in touched /\ (k \in DOMAIN live => live[k].ts <= EventOf(k).ts)
                  THEN EventOf(k) ELSE live[k]
  BY DEF Mirrored
<1>3. ASSUME NEW k \in DOMAIN live \cup touched PROVE Outcome(k)
  <2> HIDE DEF EventOf, touched, M
  <2> QED BY <1>1, <1>2
<1> HIDE DEF EventOf, touched, M, Outcome
<1> QED
  BY <1>2, <1>3

\* FinalizeDue leaves a row alone or makes it history, in place.
Frozen(row) == [row EXCEPT !.final = TRUE, !.actual = row.pred]

FinalizeOutcome(old, new) == new = old \/ (~old.final /\ new = Frozen(old))

\* FinalizeDue keeps every row, as it is or frozen with its prediction.
LEMMA FinalizedRows ==
    ASSUME NEW table, NEW at
    PROVE  /\ DOMAIN Finalized(table, at) = DOMAIN table
           /\ \A k \in DOMAIN table : FinalizeOutcome(table[k], Finalized(table, at)[k])
<1> DEFINE F == Finalized(table, at)
<1>1. F = [k \in DOMAIN table |->
             IF IsDue(table[k], at) THEN Frozen(table[k]) ELSE table[k]]
  BY Zenon DEF Finalized, Frozen
<1> HIDE DEF F
<1>2. DOMAIN F = DOMAIN table
  BY <1>1
<1>3. \A k \in DOMAIN table : FinalizeOutcome(table[k], F[k])
  BY <1>1, Zenon DEF IsDue, FinalizeOutcome
<1> QED
  BY <1>2, <1>3 DEF F

-----------------------------------------------------------------------------
(* Types.                                                                  *)

IsTable(table) ==
    DOMAIN table \subseteq KeyType /\ table \in [DOMAIN table -> RowType]

\* Inserting, advancing and freezing a row leave it a row of its type.
LEMMA RowOperations ==
    /\ \A e \in EventType : e.key \in KeyType /\ NewRow(e) \in RowType
    /\ \A row \in RowType, e \in EventType : Advanced(row, e) \in RowType
    /\ \A row \in RowType : Frozen(row) \in RowType
  BY DEF EventType, RowType, NewRow, Advanced, Frozen, Time

\* The upsert of a batch turns a table into a table.
LEMMA UpsertedType ==
    ASSUME NEW table, IsTable(table), NEW events \in SUBSET EventType
    PROVE  IsTable(Upserted(table, events))
<1> DEFINE U == Upserted(table, events)
<1> SUFFICES IsTable(U)
  OBVIOUS
<1>1. /\ DOMAIN U = DOMAIN table \cup {e.key : e \in events}
      /\ \A k \in DOMAIN U : UpsertOutcome(table, events, k, U[k])
  BY UpsertedRows
<1>2. U = [k \in DOMAIN U |-> U[k]]
  BY DEF Upserted
<1> HIDE DEF U
<1>3. ASSUME NEW k \in DOMAIN U PROVE U[k] \in RowType
  BY <1>1, RowOperations DEF UpsertOutcome, IsTable
<1> QED
  BY <1>1, <1>2, <1>3, RowOperations DEF IsTable

\* FinalizeDue turns a table into a table.
LEMMA FinalizedType ==
    ASSUME NEW table, IsTable(table), NEW at
    PROVE  IsTable(Finalized(table, at))
<1> DEFINE F == Finalized(table, at)
<1> SUFFICES IsTable(F)
  OBVIOUS
<1>1. /\ DOMAIN F = DOMAIN table
      /\ \A k \in DOMAIN table : FinalizeOutcome(table[k], F[k])
  BY FinalizedRows
<1>2. F = [k \in DOMAIN F |-> F[k]]
  BY DEF Finalized
<1> HIDE DEF F
<1> QED
  BY <1>1, <1>2, RowOperations DEF IsTable, FinalizeOutcome

IsLiveMap(map) ==
    DOMAIN map \subseteq KeyType /\ map \in [DOMAIN map -> EventType]

\* Mirroring a batch turns a live map into a live map.
LEMMA MirroredType ==
    ASSUME IsLiveMap(live), NEW events \in SUBSET EventType
    PROVE  IsLiveMap(Mirrored(events))
<1> DEFINE M == Mirrored(events)
<1> SUFFICES IsLiveMap(M)
  OBVIOUS
<1>1. DOMAIN M = DOMAIN live \cup {e.key : e \in events}
  BY MirroredEvents
<1>2. \A k \in DOMAIN M :
        \/ k \in DOMAIN live /\ M[k] = live[k]
        \/ \E e \in events : e.key = k /\ M[k] = e
  BY MirroredEvents
<1>3. M = [k \in DOMAIN M |-> M[k]]
  BY DEF Mirrored
<1> HIDE DEF M
<1> QED
  BY <1>1, <1>2, <1>3, RowOperations DEF IsLiveMap

\* TypeOK in terms of the two notions above.
LEMMA TypeOKParts ==
    TypeOK <=> /\ IsTable(rows)
               /\ IsLiveMap(live)
               /\ header \in Time
               /\ active \in Versions \cup {0}
               /\ loaded \subseteq Versions
               /\ DOMAIN job = Workers /\ \A w \in Workers : job[w] \in JobType
               /\ sweepAt \in Time
               /\ now \in 0..MaxTime
               /\ offered \subseteq EventType
  BY DEF TypeOK, IsTable, IsLiveMap

\* What a call of Process takes in hand is a batch and a header time.
LEMMA JobOf ==
    ASSUME TypeOK, NEW s \in Snapshots, NEW polledAt \in 0..MaxTime
    PROVE  /\ BatchOK(EventsOf[s][active][polledAt])
           /\ HeaderOf(s, polledAt) \in Time
<1>1. active \in Versions \cup {0}
  BY DEF TypeOK
<1>2. HeaderOf(s, polledAt) \in Int
  BY ReconcileAssumption DEF HeaderOf
<1> QED
  BY <1>1, <1>2, EventsOfOK DEF Time

\* An empty table and a serving process that has just started are well typed.
LEMMA InitTypeOK == Init => TypeOK
  BY NoneAssumption, ReconcileAssumption DEF Init, TypeOK, Idle, JobType, Time, Workers

\* The state always has its type: rows and live events are what the schedule
\* and reconcileTrip allow, whatever pollers, replays and restarts do.
THEOREM TypeCorrect == Spec => []TypeOK
<1>1. Init => TypeOK
  BY InitTypeOK
<1>2. TypeOK /\ [Next]_vars => TypeOK'
  <2> SUFFICES ASSUME TypeOK, [Next]_vars PROVE TypeOK'
    OBVIOUS
  <2>1. CASE UNCHANGED vars
    BY <2>1 DEF TypeOK, vars
  <2>2. ASSUME NEW w \in Workers, NEW s \in Snapshots, NEW polledAt \in 0..MaxTime,
               Process(w, s, polledAt)
        PROVE  TypeOK'
    <3> DEFINE events == EventsOf[s][active][polledAt]
               new    == [pc |-> IF events = {} THEN "written" ELSE "built",
                          events |-> events, header |-> HeaderOf(s, polledAt)]
    <3>1. new \in JobType
      BY JobOf DEF BatchOK, JobType
    <3>2. job' = [job EXCEPT ![w] = new]
      BY <2>2 DEF Process
    <3> HIDE DEF new, events
    <3>3. DOMAIN job' = Workers /\ \A v \in Workers : job'[v] \in JobType
      BY <3>1, <3>2 DEF TypeOK
    <3> QED BY <2>2, <3>3 DEF Process, TypeOK
  <2>3. ASSUME NEW w \in Workers, Poll(w) PROVE TypeOK'
    BY <2>2, <2>3 DEF Poll, TypeOK
  <2>4. ASSUME NEW w \in Workers, Replay(w) PROVE TypeOK'
    BY <2>2, <2>4, ReconcileAssumption DEF Replay
  <2>5. ASSUME NEW w \in Workers, Write(w), job'[w] \in JobType,
               job' = [job EXCEPT ![w] = job'[w]]
        PROVE  TypeOK'
    <3>1. job[w].events \in SUBSET EventType
      BY DEF TypeOK, JobType
    <3>2. IsTable(rows)'
      BY <2>5, <3>1, UpsertedType, TypeOKParts DEF Write, IsTable
    <3>3. offered' \subseteq EventType
      BY <2>5, <3>1 DEF Write, TypeOK
    <3>4. DOMAIN job' = Workers /\ \A v \in Workers : job'[v] \in JobType
      BY <2>5 DEF TypeOK
    <3> QED BY <2>5, <3>2, <3>3, <3>4 DEF Write, TypeOK, IsTable
  <2>6. ASSUME NEW w \in Workers, WriteAcknowledged(w) PROVE TypeOK'
    <3>1. job'[w] = [job[w] EXCEPT !.pc = "written"] /\ job' = [job EXCEPT ![w] = job'[w]]
      BY <2>6 DEF WriteAcknowledged, TypeOK
    <3>2. [job[w] EXCEPT !.pc = "written"] \in JobType
      BY DEF TypeOK, JobType
    <3> QED BY <2>5, <2>6, <3>1, <3>2 DEF WriteAcknowledged
  <2>7. Idle \in JobType
    BY DEF Idle, JobType, Time
  <2>8. ASSUME NEW w \in Workers, WriteUnacknowledged(w) PROVE TypeOK'
    <3>1. job'[w] = Idle /\ job' = [job EXCEPT ![w] = job'[w]]
      BY <2>8 DEF WriteUnacknowledged, TypeOK
    <3> QED BY <2>5, <2>7, <2>8, <3>1 DEF WriteUnacknowledged
  <2>9. ASSUME NEW w \in Workers, WriteFails(w) PROVE TypeOK'
    BY <2>7, <2>9 DEF WriteFails, TypeOK
  <2>10. ASSUME NEW w \in Workers, Mirror(w) PROVE TypeOK'
    <3>1. job[w].events \in SUBSET EventType /\ [job[w] EXCEPT !.pc = "mirrored"] \in JobType
      BY DEF TypeOK, JobType
    <3>2. IsLiveMap(live)'
      BY <2>10, <3>1, MirroredType, TypeOKParts DEF Mirror, IsLiveMap
    <3>3. DOMAIN job' = Workers /\ \A v \in Workers : job'[v] \in JobType
      BY <2>10, <3>1 DEF Mirror, TypeOK
    <3> QED BY <2>10, <3>2, <3>3 DEF Mirror, TypeOK, IsLiveMap
  <2>11. ASSUME NEW w \in Workers, NoteHeader(w) PROVE TypeOK'
    <3>1. job[w].header \in Time
      BY DEF TypeOK, JobType
    <3> QED BY <2>7, <2>11, <3>1 DEF NoteHeader, TypeOK
  <2>12. CASE SweepLive
    <3>1. IsLiveMap(live)'
      BY <2>12, TypeOKParts DEF SweepLive, IsLiveMap
    <3> QED BY <2>12, <3>1 DEF SweepLive, TypeOK, IsLiveMap, Time
  <2>13. ASSUME NEW at, rows' = Finalized(rows, at),
                UNCHANGED <<live, header, active, loaded, job, now, offered>>, sweepAt' \in Time
         PROVE  TypeOK'
    <3>1. IsTable(rows)'
      BY <2>13, FinalizedType, TypeOKParts DEF IsTable
    <3> QED BY <2>13, <3>1 DEF TypeOK, IsTable
  <2>14. CASE SweepStore
    BY <2>13, <2>14 DEF SweepStore, Time
  <2>15. CASE SweepStoreFails
    BY <2>15 DEF SweepStoreFails, TypeOK, Time
  <2>16. ASSUME NEW r \in Replayers, ReplayFinalize(r) PROVE TypeOK'
    BY <2>13, <2>16 DEF ReplayFinalize, TypeOK
  <2>17. ASSUME NEW v \in Versions, Activate(v) PROVE TypeOK'
    BY <2>17 DEF Activate, TypeOK
  <2>18. CASE Restart
    BY <2>7, <2>18 DEF Restart, TypeOK, Time
  <2>19. CASE Tick
    BY <2>19, ReconcileAssumption DEF Tick, TypeOK
  <2> QED
    BY <2>1, <2>3, <2>4, <2>6, <2>8, <2>9, <2>10, <2>11, <2>12, <2>14, <2>15,
       <2>16, <2>17, <2>18, <2>19 DEF Next
<1> QED
  BY <1>1, <1>2, PTL DEF Spec

-----------------------------------------------------------------------------
(* The newest observation wins.                                            *)

\* The batches under way agree with themselves (see BatchOK).
BatchesOK == \A w \in Workers : BatchOK(job[w].events)

\* What was offered to an open row has a row.
OfferedHasRow == \A e \in offered : e.key \in DOMAIN rows

\* A row is one of the observations offered to it, none of which is newer:
\* NewestObservationWins for one row.
RowHolds(row, e) ==
    /\ row.ts = e.ts /\ row.pred = e.pred
    /\ row.delay = e.delay /\ row.skipped = e.skipped
    /\ row.actual = IF row.final THEN e.pred ELSE None

NewestIn(row, observed) ==
    \E e \in observed : RowHolds(row, e) /\ \A f \in observed : f.ts <= e.ts

\* NewestObservationWins, row by row.
LEMMA NewestOfRows ==
    NewestObservationWins <=> \A k \in DOMAIN rows : NewestIn(rows[k], OfferedOf(k))
  BY DEF NewestObservationWins, NewestIn, RowHolds

\* The inductive invariant of the store.
StoreInv == TypeOK /\ BatchesOK /\ OfferedHasRow /\ NewestObservationWins

\* A new row holds the event it was made of; an open row that admits an event
\* holds it from then on; a frozen row holds what it held.
LEMMA RowHoldsAfter ==
    /\ \A e \in EventType : RowHolds(NewRow(e), e)
    /\ \A row \in RowType, e, f \in EventType :
         ~row.final /\ RowHolds(row, f) => RowHolds(Advanced(row, e), e)
    /\ \A row \in RowType, e \in EventType :
         ~row.final /\ RowHolds(row, e) => RowHolds(Frozen(row), e)
  BY DEF RowType, EventType, RowHolds, NewRow, Advanced, Frozen

\* The committed batch: each row it speaks of still holds the newest of what
\* was offered, now with the batch among it.
LEMMA WriteKeepsNewest ==
    ASSUME StoreInv, NEW w \in Workers, Write(w)
    PROVE  OfferedHasRow' /\ NewestObservationWins'
<1> DEFINE events == job[w].events
           U      == Upserted(rows, events)
           open   == {e \in events : e.key \in DOMAIN rows => ~rows[e.key].final}
           Of(k)  == {e \in offered : e.key = k}
           New(k) == {e \in open : e.key = k}
<1>1. BatchOK(events) /\ events \in SUBSET EventType
  BY DEF StoreInv, BatchesOK, BatchOK
<1>2. rows' = U /\ offered' = offered \cup open
  BY DEF Write
<1>3. /\ DOMAIN U = DOMAIN rows \cup {e.key : e \in events}
      /\ \A k \in DOMAIN U : UpsertOutcome(rows, events, k, U[k])
  BY UpsertedRows
<1>4. OfferedHasRow'
  <2> HIDE DEF U
  <2> QED BY <1>2, <1>3 DEF StoreInv, OfferedHasRow
<1>5. IsTable(rows) /\ offered \subseteq EventType /\ \A e \in offered : e.key \in DOMAIN rows
  BY TypeOKParts DEF StoreInv, OfferedHasRow
<1>6. \A k \in DOMAIN rows : NewestIn(rows[k], Of(k))
  BY NewestOfRows DEF StoreInv, OfferedOf
<1> HIDE DEF U, Of
<1>7. ASSUME NEW k \in DOMAIN U PROVE NewestIn(U[k], Of(k) \cup New(k))
  <2>1. CASE k \notin DOMAIN rows
    <3>1. PICK e \in events : e.key = k /\ U[k] = NewRow(e)
      BY <1>3, <2>1 DEF UpsertOutcome
    <3>2. Of(k) = {} /\ e \in New(k)
      BY <1>5, <2>1, <3>1 DEF Of
    <3>3. \A f \in New(k) : f.ts <= e.ts
      BY <1>1, <3>1 DEF BatchOK, EventType
    <3>4. RowHolds(U[k], e)
      BY <1>1, <3>1, RowHoldsAfter
    <3> HIDE DEF New
    <3> QED BY <3>2, <3>3, <3>4 DEF NewestIn
  <2>2. CASE k \in DOMAIN rows /\ k \notin {e.key : e \in events}
    <3>1. U[k] = rows[k] /\ New(k) = {}
      BY <1>3, <2>2 DEF UpsertOutcome
    <3> HIDE DEF New
    <3> QED BY <1>6, <2>2, <3>1
  <2>3. CASE k \in DOMAIN rows /\ k \in {e.key : e \in events}
    <3>1. PICK e \in events :
            /\ e.key = k
            /\ U[k] = IF Admits(rows[k], e) THEN Advanced(rows[k], e) ELSE rows[k]
      BY <1>3, <2>3 DEF UpsertOutcome
    <3>2. PICK o \in Of(k) : RowHolds(rows[k], o) /\ \A f \in Of(k) : f.ts <= o.ts
      BY <1>6, <2>3 DEF NewestIn
    <3>3. rows[k] \in RowType /\ o \in EventType /\ e \in EventType
      BY <1>1, <1>5, <2>3 DEF IsTable, Of
    <3>4. \A f \in New(k) : f.ts = e.ts
      BY <1>1, <3>1 DEF BatchOK
    <3>5. e.ts \in Nat /\ rows[k].ts = o.ts /\ rows[k].ts \in Nat /\ rows[k].final \in BOOLEAN
      BY <3>2, <3>3 DEF EventType, RowType, RowHolds
    <3>6. \A f \in Of(k) : f.ts \in Nat
      BY <1>5 DEF Of, EventType
    <3>7. CASE Admits(rows[k], e)
      <4>1. ~rows[k].final /\ rows[k].ts < e.ts /\ U[k] = Advanced(rows[k], e)
        BY <3>1, <3>7 DEF Admits
      <4>2. e \in New(k) /\ RowHolds(U[k], e)
        BY <2>3, <3>1, <3>2, <3>3, <4>1, RowHoldsAfter
      <4>3. \A f \in Of(k) \cup New(k) : f.ts <= e.ts
        <5> HIDE DEF New
        <5> QED BY <3>2, <3>4, <3>5, <3>6, <4>1
      <4> HIDE DEF New
      <4> QED BY <4>2, <4>3 DEF NewestIn
    <3>8. CASE ~Admits(rows[k], e)
      <4>1. U[k] = rows[k]
        BY <3>1, <3>8
      <4>2. \A f \in New(k) : f.ts <= o.ts
        <5>1. New(k) # {} => ~rows[k].final
          BY <2>3
        <5> HIDE DEF New
        <5> QED BY <3>4, <3>5, <3>8, <5>1 DEF Admits
      <4> HIDE DEF New
      <4> QED BY <3>2, <4>1, <4>2 DEF NewestIn
    <3> QED BY <3>7, <3>8
  <2> QED BY <2>1, <2>2, <2>3
<1>8. \A k : Of(k) \cup New(k) = OfferedOf(k)'
  BY <1>2 DEF Of, OfferedOf
<1>9. \A k \in DOMAIN rows' : NewestIn(rows'[k], OfferedOf(k)')
  <2> HIDE DEF New, open
  <2> QED BY <1>2, <1>7, <1>8
<1> QED
  BY <1>4, <1>9 DEF NewestObservationWins, NewestIn, RowHolds

\* Finalizing, by the sweeper or a replay, keeps the observation of each row.
LEMMA FinalizeKeepsNewest ==
    ASSUME StoreInv, NEW at, rows' = Finalized(rows, at), offered' = offered
    PROVE  OfferedHasRow' /\ NewestObservationWins'
<1> DEFINE F == Finalized(rows, at)
<1>1. DOMAIN F = DOMAIN rows /\ \A k \in DOMAIN rows : FinalizeOutcome(rows[k], F[k])
  BY FinalizedRows
<1>2. rows' = F /\ IsTable(rows) /\ offered \subseteq EventType
  BY TypeOKParts DEF StoreInv
<1>3. \A k \in DOMAIN rows : NewestIn(rows[k], OfferedOf(k))
  BY NewestOfRows DEF StoreInv
<1>4. \A k : OfferedOf(k)' = OfferedOf(k)
  BY DEF OfferedOf
<1> HIDE DEF F
<1>5. ASSUME NEW k \in DOMAIN rows PROVE NewestIn(F[k], OfferedOf(k))
  <2>1. PICK e \in OfferedOf(k) : RowHolds(rows[k], e) /\ \A f \in OfferedOf(k) : f.ts <= e.ts
    BY <1>3 DEF NewestIn
  <2>2. e \in EventType /\ rows[k] \in RowType
    BY <1>2 DEF OfferedOf, IsTable
  <2>3. RowHolds(F[k], e)
    BY <1>1, <2>1, <2>2, RowHoldsAfter DEF FinalizeOutcome
  <2> QED BY <2>1, <2>3 DEF NewestIn
<1>6. \A k \in DOMAIN rows' : NewestIn(rows'[k], OfferedOf(k)')
  BY <1>1, <1>2, <1>4, <1>5
<1>7. OfferedHasRow'
  BY <1>1, <1>2 DEF StoreInv, OfferedHasRow
<1> QED
  BY <1>6, <1>7 DEF NewestObservationWins, NewestIn, RowHolds

\* Every call of Process works on one batch, taken at its start.
LEMMA BatchesStayOK ==
    ASSUME TypeOK, BatchesOK, [Next]_vars
    PROVE  BatchesOK'
<1>1. ASSUME NEW w \in Workers, job'[w].events = job[w].events \/ job'[w].events = {}
      PROVE  BatchOK(job'[w].events)
  BY <1>1 DEF BatchesOK, BatchOK
<1>2. ASSUME NEW w \in Workers, NEW s \in Snapshots, NEW polledAt \in 0..MaxTime,
             Process(w, s, polledAt), NEW v \in Workers
      PROVE  BatchOK(job'[v].events)
  <2> DEFINE events == EventsOf[s][active][polledAt]
  <2>1. job'[v].events = IF v = w THEN events ELSE job[v].events
    <3> DEFINE new == [pc |-> IF events = {} THEN "written" ELSE "built",
                       events |-> events, header |-> HeaderOf(s, polledAt)]
    <3>1. job' = [job EXCEPT ![w] = new] /\ new.events = events
      BY <1>2 DEF Process
    <3> HIDE DEF new, events
    <3> QED BY <3>1 DEF TypeOK
  <2>2. BatchOK(events)
    BY JobOf
  <2> HIDE DEF events
  <2> QED BY <2>1, <2>2 DEF BatchesOK
<1>3. ASSUME NEW w \in Workers, NEW v \in Workers, \/ Poll(w)
                                                \/ Replay(w)
      PROVE  BatchOK(job'[v].events)
  <2>1. ASSUME Poll(w) PROVE BatchOK(job'[v].events)
    BY <1>2, <2>1 DEF Poll, TypeOK
  <2>2. ASSUME Replay(w) PROVE BatchOK(job'[v].events)
    BY <1>2, <2>2, ReconcileAssumption DEF Replay
  <2> QED BY <1>3, <2>1, <2>2
<1>4. ASSUME NEW w \in Workers, NEW v \in Workers,
             \/ WriteAcknowledged(w) \/ WriteUnacknowledged(w) \/ WriteFails(w)
             \/ Mirror(w) \/ NoteHeader(w)
      PROVE  BatchOK(job'[v].events)
  <2>1. \/ job' = [job EXCEPT ![w] = Idle]
        \/ \E pc : job' = [job EXCEPT ![w].pc = pc]
    BY <1>4 DEF WriteAcknowledged, WriteUnacknowledged, WriteFails, Mirror, NoteHeader
  <2>2. Idle.events = {} /\ job[w] \in JobType
    BY DEF Idle, TypeOK
  <2>3. job'[v].events = job[v].events \/ job'[v].events = {}
    BY <2>1, <2>2 DEF TypeOK, JobType
  <2> QED BY <1>1, <2>3
<1>5. ASSUME NEW v \in Workers,
             \/ SweepLive \/ SweepStore \/ SweepStoreFails \/ Tick \/ UNCHANGED vars
             \/ \E r \in Replayers : ReplayFinalize(r)
             \/ \E u \in Versions : Activate(u)
      PROVE  BatchOK(job'[v].events)
  BY <1>1, <1>5 DEF SweepLive, SweepStore, SweepStoreFails, Tick, vars, ReplayFinalize, Activate
<1>6. ASSUME NEW v \in Workers, Restart PROVE BatchOK(job'[v].events)
  BY <1>1, <1>6 DEF Restart, Idle
<1> QED
  BY <1>3, <1>4, <1>5, <1>6 DEF BatchesOK, Next

\* The steps that leave the table and what was offered to it alone.
LEMMA StoreUntouched ==
    ASSUME StoreInv, UNCHANGED <<rows, offered>>
    PROVE  OfferedHasRow' /\ NewestObservationWins'
  BY DEF StoreInv, OfferedHasRow, NewestObservationWins, OfferedOf

\* Every step is a committed batch, a finalization, or leaves the store alone.
LEMMA StoreSteps ==
    ASSUME [Next]_vars
    PROVE  \/ \E w \in Workers : Write(w)
           \/ \E at : rows' = Finalized(rows, at) /\ offered' = offered
           \/ UNCHANGED <<rows, offered>>
<1>1. ASSUME NEW w \in Workers,
             \/ Poll(w) \/ Replay(w) \/ WriteFails(w) \/ Mirror(w) \/ NoteHeader(w)
      PROVE  UNCHANGED <<rows, offered>>
  BY <1>1 DEF Poll, Replay, Process, WriteFails, Mirror, NoteHeader
<1>2. ASSUME NEW w \in Workers, WriteAcknowledged(w) \/ WriteUnacknowledged(w)
      PROVE  Write(w)
  BY <1>2 DEF WriteAcknowledged, WriteUnacknowledged
<1>3. ASSUME SweepStore \/ \E r \in Replayers : ReplayFinalize(r)
      PROVE  \E at : rows' = Finalized(rows, at) /\ offered' = offered
  BY <1>3 DEF SweepStore, ReplayFinalize
<1>4. ASSUME \/ SweepLive \/ SweepStoreFails \/ Restart \/ Tick \/ UNCHANGED vars
             \/ \E v \in Versions : Activate(v)
      PROVE  UNCHANGED <<rows, offered>>
  BY <1>4 DEF SweepLive, SweepStoreFails, Restart, Tick, vars, Activate
<1> QED
  BY <1>1, <1>2, <1>3, <1>4 DEF Next

\* The invariant of the store holds in every reachable state.
THEOREM StoreCorrect == Spec => []StoreInv
<1>1. Init => StoreInv
  <2> SUFFICES ASSUME Init PROVE StoreInv
    OBVIOUS
  <2>1. TypeOK
    BY InitTypeOK
  <2>2. BatchesOK
    BY DEF Init, BatchesOK, BatchOK, Idle
  <2> QED BY <2>1, <2>2 DEF Init, StoreInv, OfferedHasRow, NewestObservationWins
<1>2. StoreInv /\ TypeOK' /\ [Next]_vars => StoreInv'
  <2> SUFFICES ASSUME StoreInv, TypeOK', [Next]_vars PROVE StoreInv'
    OBVIOUS
  <2>1. BatchesOK'
    BY BatchesStayOK DEF StoreInv
  <2>2. OfferedHasRow' /\ NewestObservationWins'
    BY StoreSteps, WriteKeepsNewest, FinalizeKeepsNewest, StoreUntouched
  <2> QED BY <2>1, <2>2 DEF StoreInv
<1> QED
  BY <1>1, <1>2, TypeCorrect, PTL DEF Spec

\* NewestObservationWins for any number of pollers and replays, any feed and
\* any sequence of schedule versions: the row of a stop is the newest of the
\* observations written while it was open, and its actual arrival is that
\* observation's prediction (upsertStopEventSQL, FinalizeDue).
THEOREM NewestWins == Spec => []NewestObservationWins
<1>1. StoreInv => NewestObservationWins
  BY DEF StoreInv
<1> QED
  BY <1>1, StoreCorrect, PTL

\* RewritesChangeNothing in every reachable state: polls, out-of-order applies
\* and replays of anything already written are idempotent.
THEOREM RewritesIdempotent == Spec => []RewritesChangeNothing
<1>1. StoreInv => RewritesChangeNothing
  <2> SUFFICES ASSUME StoreInv, NEW e \in offered PROVE Upserted(rows, {e}) = rows
    BY DEF RewritesChangeNothing
  <2> DEFINE U == Upserted(rows, {e})
  <2>1. IsTable(rows) /\ e \in EventType /\ e.key \in DOMAIN rows
    BY TypeOKParts DEF StoreInv, OfferedHasRow
  <2>2. NewestIn(rows[e.key], OfferedOf(e.key)) /\ offered \subseteq EventType
    BY <2>1, NewestOfRows, TypeOKParts DEF StoreInv
  <2>3. PICK o \in OfferedOf(e.key) :
          RowHolds(rows[e.key], o) /\ \A f \in OfferedOf(e.key) : f.ts <= o.ts
    BY <2>2 DEF NewestIn
  <2>4. ~Admits(rows[e.key], e)
    <3>1. e.ts <= o.ts /\ rows[e.key].ts = o.ts
      BY <2>3 DEF OfferedOf, RowHolds
    <3>2. e.ts \in Nat /\ o.ts \in Nat
      BY <2>1, <2>2 DEF OfferedOf, EventType
    <3> QED BY <3>1, <3>2 DEF Admits
  <2>5. /\ DOMAIN U = DOMAIN rows \cup {f.key : f \in {e}}
        /\ \A k \in DOMAIN U : UpsertOutcome(rows, {e}, k, U[k])
    BY UpsertedRows
  <2>6. U = [k \in DOMAIN U |-> U[k]]
    BY DEF Upserted
  <2> HIDE DEF U
  <2>7. DOMAIN U = DOMAIN rows
    BY <2>1, <2>5
  <2>8. ASSUME NEW k \in DOMAIN rows PROVE U[k] = rows[k]
    <3>1. UpsertOutcome(rows, {e}, k, U[k])
      BY <2>5, <2>7
    <3> QED BY <2>4, <3>1 DEF UpsertOutcome
  <2>9. rows = [k \in DOMAIN rows |-> rows[k]]
    BY <2>1 DEF IsTable
  <2>10. U = rows
    BY <2>6, <2>7, <2>8, <2>9
  <2> QED BY <2>10 DEF U
<1> QED
  BY <1>1, StoreCorrect, PTL

-----------------------------------------------------------------------------
(* The columns of a row belong together.                                   *)

\* No version gives a stop of a trip another time than another version does, or
\* lists the stop twice at different times.
TimesAgree ==
    \A k, a, b : k \in KeyType /\ IsTimeOf(k, a) /\ IsTimeOf(k, b) => a = b

RowsTimed == TimesAgree => \A k \in DOMAIN rows : Timed(k, rows[k])

\* Inserting, advancing and freezing a row leave it timed.
LEMMA TimedAfter ==
    /\ \A e \in EventType : Timed(e.key, e) => Timed(e.key, NewRow(e))
    /\ \A row \in RowType, e \in EventType :
         Timed(e.key, row) /\ Timed(e.key, e) /\ row.sched = e.sched
         => Timed(e.key, Advanced(row, e))
    /\ \A row \in RowType, k \in KeyType : Timed(k, row) => Timed(k, Frozen(row))
<1>1. ASSUME NEW e \in EventType
      PROVE  NewRow(e).sched = e.sched /\ NewRow(e).pred = e.pred /\ NewRow(e).delay = e.delay
  BY DEF NewRow
<1>2. ASSUME NEW row \in RowType, NEW e \in EventType
      PROVE  /\ Advanced(row, e).sched = row.sched /\ Advanced(row, e).pred = e.pred
             /\ Advanced(row, e).delay = e.delay
  BY DEF RowType, Advanced
<1>3. ASSUME NEW row \in RowType
      PROVE  /\ Frozen(row).sched = row.sched /\ Frozen(row).pred = row.pred
             /\ Frozen(row).delay = row.delay
  BY DEF RowType, Frozen
<1> QED
  BY <1>1, <1>2, <1>3 DEF Timed

\* A batch is written over rows that have the times its events have.
LEMMA WriteKeepsTimed ==
    ASSUME StoreInv, TimesAgree, \A k \in DOMAIN rows : Timed(k, rows[k]),
           NEW w \in Workers, NEW k \in DOMAIN Upserted(rows, job[w].events)
    PROVE  Timed(k, Upserted(rows, job[w].events)[k])
<1> DEFINE events == job[w].events
           U      == Upserted(rows, events)
<1> SUFFICES Timed(k, U[k])
  OBVIOUS
<1>1. events \in SUBSET EventType /\ \A e \in events : Timed(e.key, e)
  BY DEF StoreInv, BatchesOK, BatchOK
<1>2. UpsertOutcome(rows, events, k, U[k])
  BY UpsertedRows
<1>3. IsTable(rows)
  BY TypeOKParts DEF StoreInv
<1> HIDE DEF events, U
<1>4. CASE k \notin DOMAIN rows
  <2>1. PICK e \in events : e.key = k /\ U[k] = NewRow(e)
    BY <1>2, <1>4 DEF UpsertOutcome
  <2> QED BY <1>1, <2>1, TimedAfter
<1>5. CASE k \in DOMAIN rows /\ U[k] = rows[k]
  BY <1>5
<1>6. CASE k \in DOMAIN rows /\ U[k] # rows[k]
  <2>1. PICK e \in events : e.key = k /\ U[k] = Advanced(rows[k], e)
    BY <1>2, <1>6 DEF UpsertOutcome
  <2>2. rows[k] \in RowType /\ e \in EventType /\ k \in KeyType
    BY <1>1, <1>3, <1>6 DEF IsTable
  <2>3. rows[k].sched = e.sched
    BY <1>1, <1>6, <2>1, <2>2 DEF Timed, TimesAgree
  <2> QED BY <1>1, <1>6, <2>1, <2>2, <2>3, TimedAfter
<1> QED BY <1>4, <1>5, <1>6

\* RowDelayMatchesRow, as long as schedules do not retime a stop: the upsert
\* takes prediction and delay of the event and leaves the scheduled arrival of
\* the first insert.  (MCReconcileVersions shows what becomes of it otherwise.)
THEOREM DelaysAgree == Spec => [](TimesAgree => RowDelayMatchesRow)
<1>1. Init => RowsTimed
  BY DEF Init, RowsTimed
<1>2. StoreInv /\ RowsTimed /\ [Next]_vars => RowsTimed'
  <2> SUFFICES ASSUME StoreInv, RowsTimed, [Next]_vars, TimesAgree,
                      NEW k \in DOMAIN rows'
               PROVE  Timed(k, rows'[k])
    BY DEF RowsTimed, TimesAgree, Timed
  <2>1. \A j \in DOMAIN rows : Timed(j, rows[j])
    BY DEF RowsTimed
  <2>2. CASE \E w \in Workers : Write(w)
    BY <2>1, <2>2, WriteKeepsTimed DEF Write
  <2>3. CASE \E at : rows' = Finalized(rows, at)
    <3>1. IsTable(rows)
      BY TypeOKParts DEF StoreInv
    <3>2. k \in DOMAIN rows /\ FinalizeOutcome(rows[k], rows'[k])
      BY <2>3, FinalizedRows
    <3>3. rows[k] \in RowType /\ k \in KeyType
      BY <3>1, <3>2 DEF IsTable
    <3> QED BY <2>1, <3>2, <3>3, TimedAfter DEF FinalizeOutcome
  <2>4. CASE UNCHANGED <<rows, offered>>
    BY <2>1, <2>4
  <2> QED BY <2>2, <2>3, <2>4, StoreSteps
<1>3. RowsTimed => (TimesAgree => RowDelayMatchesRow)
  BY DEF RowsTimed, RowDelayMatchesRow, Timed
<1> QED
  BY <1>1, <1>2, <1>3, StoreCorrect, PTL DEF Spec

-----------------------------------------------------------------------------
(* Riders see what the store holds.                                        *)

\* The table has a row for k which is history, or no older than the stamp.
Backed(table, k, stamp) == k \in DOMAIN table /\ (~table[k].final => stamp <= table[k].ts)

\* A batch on its way from the store to the live map is in the store.
WrittenIsBacked ==
    \A w \in Workers : job[w].pc = "written" =>
        \A e \in job[w].events : Backed(rows, e.key, e.ts)

\* What a batch or a finalization does to the table takes no backing away.
LEMMA BackingStays ==
    ASSUME IsTable(rows), NEW k, NEW stamp \in Nat, Backed(rows, k, stamp),
           \/ \E events \in SUBSET EventType : rows' = Upserted(rows, events)
           \/ \E at : rows' = Finalized(rows, at)
           \/ rows' = rows
    PROVE  Backed(rows', k, stamp)
<1>1. k \in DOMAIN rows /\ rows[k] \in RowType
  BY DEF Backed, IsTable
<1>2. ASSUME NEW events \in SUBSET EventType, rows' = Upserted(rows, events)
      PROVE  Backed(rows', k, stamp)
  <2>1. k \in DOMAIN rows' /\ UpsertOutcome(rows, events, k, rows'[k])
    BY <1>1, <1>2, UpsertedRows
  <2>2. CASE rows'[k] = rows[k]
    BY <2>1, <2>2 DEF Backed
  <2>3. CASE \E e \in events : Admits(rows[k], e) /\ rows'[k] = Advanced(rows[k], e)
    <3>1. PICK e \in events : Admits(rows[k], e) /\ rows'[k] = Advanced(rows[k], e)
      BY <2>3
    <3>2. rows'[k].ts = e.ts /\ e.ts \in Nat /\ rows[k].ts \in Nat
      BY <1>1, <3>1 DEF Advanced, RowType, EventType
    <3>3. rows[k].ts < e.ts /\ stamp <= rows[k].ts
      BY <1>1, <3>1 DEF Admits, Backed, RowType
    <3> QED BY <2>1, <3>2, <3>3 DEF Backed
  <2> QED BY <1>1, <2>1, <2>2, <2>3 DEF UpsertOutcome
<1>3. ASSUME NEW at, rows' = Finalized(rows, at) PROVE Backed(rows', k, stamp)
  <2>1. k \in DOMAIN rows' /\ FinalizeOutcome(rows[k], rows'[k])
    BY <1>1, <1>3, FinalizedRows
  <2>2. Frozen(rows[k]).final
    BY <1>1 DEF Frozen, RowType
  <2> QED BY <2>1, <2>2 DEF FinalizeOutcome, Backed
<1>4. ASSUME rows' = rows PROVE Backed(rows', k, stamp)
  BY <1>4
<1> QED
  BY <1>2, <1>3, <1>4

\* The batch just committed is backed.
LEMMA WriteBacks ==
    ASSUME TypeOK, BatchesOK, NEW w \in Workers, Write(w), NEW e \in job[w].events
    PROVE  Backed(rows', e.key, e.ts)
<1>1. rows' = Upserted(rows, job[w].events) /\ BatchOK(job[w].events)
  BY DEF Write, BatchesOK
<1>2. e.key \in DOMAIN rows' /\ UpsertOutcome(rows, job[w].events, e.key, rows'[e.key])
  BY <1>1, UpsertedRows
<1>3. e \in EventType /\ e.ts \in Nat
  BY <1>1 DEF BatchOK, EventType
<1>4. CASE e.key \notin DOMAIN rows
  <2>1. PICK f \in job[w].events : f.key = e.key /\ rows'[e.key] = NewRow(f)
    BY <1>2, <1>4 DEF UpsertOutcome
  <2>2. f.ts = e.ts /\ rows'[e.key].ts = f.ts
    BY <1>1, <2>1 DEF BatchOK, NewRow
  <2> QED BY <1>2, <1>3, <2>2 DEF Backed
<1>5. CASE e.key \in DOMAIN rows
  <2>1. rows[e.key] \in RowType
    BY <1>5, TypeOKParts DEF IsTable
  <2>2. PICK f \in job[w].events :
          /\ f.key = e.key
          /\ rows'[e.key] = IF Admits(rows[e.key], f) THEN Advanced(rows[e.key], f)
                            ELSE rows[e.key]
    BY <1>2, <1>5 DEF UpsertOutcome
  <2>3. f.ts = e.ts
    BY <1>1, <2>2 DEF BatchOK
  <2>4. Advanced(rows[e.key], f).ts = f.ts
    BY <2>1 DEF Advanced, RowType
  <2>5. rows[e.key].ts \in Nat /\ rows[e.key].final \in BOOLEAN
    BY <2>1 DEF RowType
  <2>6. CASE Admits(rows[e.key], f)
    BY <1>2, <1>3, <2>2, <2>3, <2>4, <2>6 DEF Backed
  <2>7. CASE ~Admits(rows[e.key], f)
    BY <1>2, <1>3, <2>2, <2>3, <2>5, <2>7 DEF Backed, Admits
  <2> QED BY <2>6, <2>7
<1> QED
  BY <1>4, <1>5

\* LiveIsBackedByStore, live event by live event.
LEMMA LiveBacked ==
    LiveIsBackedByStore <=> \A k \in DOMAIN live : Backed(rows, k, live[k].ts)
  BY DEF LiveIsBackedByStore, Backed

LiveInv == TypeOK /\ BatchesOK /\ WrittenIsBacked /\ LiveIsBackedByStore

\* The table moves by batches of events and by finalizations only.
LEMMA RowSteps ==
    ASSUME TypeOK, [Next]_vars
    PROVE  \/ \E events \in SUBSET EventType : rows' = Upserted(rows, events)
           \/ \E at : rows' = Finalized(rows, at)
           \/ rows' = rows
<1>1. ASSUME NEW w \in Workers, Write(w)
      PROVE  \E events \in SUBSET EventType : rows' = Upserted(rows, events)
  <2>1. job[w].events \in SUBSET EventType
    BY DEF TypeOK, JobType
  <2> QED BY <1>1, <2>1 DEF Write
<1> QED
  BY <1>1, StoreSteps

\* A job that is "written" after a step was so before, has just been
\* committed, or is empty.
LEMMA WrittenSteps ==
    ASSUME TypeOK, [Next]_vars, NEW v \in Workers, job'[v].pc = "written"
    PROVE  \/ job[v].pc = "written" /\ job'[v].events = job[v].events
           \/ Write(v) /\ job'[v].events = job[v].events
           \/ job'[v].events = {}
<1> DEFINE Goal == \/ job[v].pc = "written" /\ job'[v].events = job[v].events
                   \/ Write(v) /\ job'[v].events = job[v].events
                   \/ job'[v].events = {}
<1>1. job[v] \in JobType /\ DOMAIN job = Workers
  BY DEF TypeOK
<1>2. ASSUME job'[v] = job[v] PROVE Goal
  BY <1>2
<1>3. ASSUME NEW w \in Workers, NEW s \in Snapshots, NEW polledAt, Process(w, s, polledAt)
      PROVE  Goal
  <2> DEFINE events == EventsOf[s][active][polledAt]
             new    == [pc |-> IF events = {} THEN "written" ELSE "built",
                        events |-> events, header |-> HeaderOf(s, polledAt)]
  <2>1. job' = [job EXCEPT ![w] = new]
    BY <1>3 DEF Process
  <2>2. new.pc = "written" => new.events = {}
    OBVIOUS
  <2> HIDE DEF new, events
  <2> QED BY <1>1, <2>1, <2>2
<1>4. ASSUME NEW w \in Workers, Poll(w) \/ Replay(w) PROVE Goal
  BY <1>3, <1>4 DEF Poll, Replay
<1>5. ASSUME NEW w \in Workers, WriteAcknowledged(w) PROVE Goal
  BY <1>1, <1>5 DEF WriteAcknowledged, JobType
<1>6. ASSUME NEW w \in Workers, WriteUnacknowledged(w) \/ WriteFails(w) \/ NoteHeader(w)
      PROVE  Goal
  BY <1>1, <1>6 DEF WriteUnacknowledged, WriteFails, NoteHeader, Idle
<1>7. ASSUME NEW w \in Workers, Mirror(w) PROVE Goal
  BY <1>1, <1>7 DEF Mirror, JobType
<1>8. ASSUME \/ SweepLive \/ SweepStore \/ SweepStoreFails \/ Tick \/ UNCHANGED vars
             \/ \E r \in Replayers : ReplayFinalize(r)
             \/ \E u \in Versions : Activate(u)
      PROVE  Goal
  BY <1>2, <1>8 DEF SweepLive, SweepStore, SweepStoreFails, Tick, vars, ReplayFinalize, Activate
<1>9. ASSUME Restart PROVE Goal
  BY <1>1, <1>9 DEF Restart, Idle
<1> QED
  BY <1>4, <1>5, <1>6, <1>7, <1>8, <1>9 DEF Next

\* Where an entry of the live map comes from.
LEMMA LiveSteps ==
    ASSUME [Next]_vars, NEW k \in DOMAIN live'
    PROVE  \/ k \in DOMAIN live /\ live'[k] = live[k]
           \/ \E w \in Workers : /\ job[w].pc = "written"
                                /\ \E e \in job[w].events : e.key = k /\ live'[k] = e
<1> DEFINE Goal == \/ k \in DOMAIN live /\ live'[k] = live[k]
                   \/ \E w \in Workers :
                        /\ job[w].pc = "written"
                        /\ \E e \in job[w].events : e.key = k /\ live'[k] = e
<1>1. ASSUME live' = live PROVE Goal
  BY <1>1
<1>2. ASSUME NEW w \in Workers, Mirror(w) PROVE Goal
  <2>1. job[w].pc = "written" /\ (live' = live \/ live' = Mirrored(job[w].events))
    BY <1>2 DEF Mirror
  <2>2. ASSUME live' = Mirrored(job[w].events) PROVE Goal
    BY <2>1, <2>2, MirroredEvents
  <2> QED BY <1>1, <2>1, <2>2
<1>3. ASSUME SweepLive PROVE Goal
  BY <1>3 DEF SweepLive
<1>4. ASSUME Restart PROVE Goal
  BY <1>4 DEF Restart
<1>5. ASSUME \/ SweepStore \/ SweepStoreFails \/ Tick \/ UNCHANGED vars
             \/ \E r \in Replayers : ReplayFinalize(r)
             \/ \E u \in Versions : Activate(u)
             \/ \E w \in Workers : \/ Poll(w) \/ Replay(w) \/ WriteFails(w)
                                  \/ WriteAcknowledged(w) \/ WriteUnacknowledged(w)
                                  \/ NoteHeader(w)
      PROVE  Goal
  <2>1. live' = live
    BY <1>5 DEF SweepStore, SweepStoreFails, Tick, vars, ReplayFinalize, Activate, Poll,
                Replay, Process, WriteFails, WriteAcknowledged, WriteUnacknowledged, Write,
                NoteHeader
  <2> QED BY <1>1, <2>1
<1> QED
  BY <1>2, <1>3, <1>4, <1>5 DEF Next

\* LiveIsBackedByStore in every reachable state: with any interleaving of
\* polls, failed or unanswered writes, sweeps, replays and restarts, riders
\* see nothing the store does not hold (processTripUpdates writes first and
\* mirrors after).
THEOREM LiveCorrect == Spec => []LiveIsBackedByStore
<1>1. Init => LiveInv
  <2> SUFFICES ASSUME Init PROVE LiveInv
    OBVIOUS
  <2>1. TypeOK
    BY InitTypeOK
  <2>2. BatchesOK /\ WrittenIsBacked
    BY DEF Init, BatchesOK, BatchOK, WrittenIsBacked, Idle
  <2> QED BY <2>1, <2>2 DEF Init, LiveInv, LiveIsBackedByStore
<1>2. LiveInv /\ TypeOK' /\ [Next]_vars => LiveInv'
  <2> SUFFICES ASSUME LiveInv, TypeOK', [Next]_vars PROVE LiveInv'
    OBVIOUS
  <2>1. IsTable(rows) /\ IsLiveMap(live) /\ TypeOK /\ BatchesOK
    BY TypeOKParts DEF LiveInv
  <2>2. \A w \in Workers : \A e \in job[w].events : e.ts \in Nat
    BY <2>1 DEF BatchesOK, BatchOK, EventType
  <2>3. \A w \in Workers : job[w].pc = "written" =>
          \A e \in job[w].events : Backed(rows', e.key, e.ts)
    BY <2>1, <2>2, RowSteps, BackingStays DEF LiveInv, WrittenIsBacked
  <2>4. WrittenIsBacked'
    <3>1. ASSUME NEW v \in Workers, job'[v].pc = "written", NEW e \in job'[v].events
          PROVE  Backed(rows', e.key, e.ts)
      BY <2>1, <2>3, <3>1, WrittenSteps, WriteBacks
    <3> QED BY <3>1 DEF WrittenIsBacked, Backed
  <2>5. LiveIsBackedByStore'
    <3>1. ASSUME NEW k \in DOMAIN live' PROVE Backed(rows', k, live'[k].ts)
      <4>1. ASSUME k \in DOMAIN live, live'[k] = live[k] PROVE Backed(rows', k, live'[k].ts)
        <5>1. live[k].ts \in Nat /\ Backed(rows, k, live[k].ts)
          BY <2>1, <4>1, LiveBacked DEF IsLiveMap, EventType, LiveInv
        <5> QED BY <2>1, <4>1, <5>1, RowSteps, BackingStays
      <4> QED BY <2>3, <4>1, LiveSteps
    <3> QED BY <3>1 DEF LiveIsBackedByStore, Backed
  <2>6. BatchesOK'
    BY <2>1, BatchesStayOK
  <2> QED BY <2>4, <2>5, <2>6 DEF LiveInv
<1>3. LiveInv => LiveIsBackedByStore
  BY DEF LiveInv
<1> QED
  BY <1>1, <1>2, <1>3, TypeCorrect, PTL DEF Spec

-----------------------------------------------------------------------------
(* The store implements the ledger.                                        *)

\* The entry of the ledger a row stands for, as in the refinement mapping.
Entry(row) ==
    [basis  |-> <<row.ver, row.stop, row.sched>>,
     seen   |-> <<IF row.final THEN row.actual ELSE row.pred, row.delay, row.skipped>>,
     ts     |-> row.ts,
     frozen |-> row.final]

\* An open row takes a newer event as an entry advances, keeping its basis;
\* a frozen row keeps what was seen.
LEMMA EntrySteps ==
    /\ \A row \in RowType, e \in EventType :
         Admits(row, e) => Ledger!Advances(Entry(row), Entry(Advanced(row, e)))
    /\ \A row \in RowType :
         ~row.final => Ledger!Freezes(Entry(row), Entry(Frozen(row)))
    /\ \A e \in EventType : ~Entry(NewRow(e)).frozen
<1>1. ASSUME NEW row \in RowType, NEW e \in EventType, Admits(row, e)
      PROVE  Ledger!Advances(Entry(row), Entry(Advanced(row, e)))
  BY <1>1 DEF Ledger!Advances, Entry, Advanced, Admits, RowType, EventType
<1>2. ASSUME NEW row \in RowType, ~row.final
      PROVE  Ledger!Freezes(Entry(row), Entry(Frozen(row)))
  <2> DEFINE basis == <<row.ver, row.stop, row.sched>>
             seen  == <<row.pred, row.delay, row.skipped>>
  <2>1. Entry(row) = [basis |-> basis, seen |-> seen, ts |-> row.ts, frozen |-> FALSE]
    BY <1>2 DEF Entry, RowType
  <2>2. /\ Frozen(row).final = TRUE /\ Frozen(row).actual = row.pred
        /\ Frozen(row).ver = row.ver /\ Frozen(row).stop = row.stop
        /\ Frozen(row).sched = row.sched /\ Frozen(row).delay = row.delay
        /\ Frozen(row).skipped = row.skipped /\ Frozen(row).ts = row.ts
    BY DEF Frozen, RowType
  <2>3. Entry(Frozen(row)) =
          [basis |-> basis, seen |-> seen, ts |-> row.ts, frozen |-> TRUE]
    BY <2>2 DEF Entry
  <2> HIDE DEF basis, seen
  <2> QED BY <2>1, <2>3 DEF Ledger!Freezes
<1>3. ASSUME NEW e \in EventType PROVE ~Entry(NewRow(e)).frozen
  BY DEF Entry, NewRow
<1> QED
  BY <1>1, <1>2, <1>3

\* The table seen as a ledger.
LedgerOf(table) == [k \in DOMAIN table |-> Entry(table[k])]

\* One step of the ledger, between two tables.
LedgerStep(old, new) ==
    /\ DOMAIN old \subseteq DOMAIN new
    /\ \A k \in DOMAIN old :
         \/ Entry(new[k]) = Entry(old[k])
         \/ Ledger!Advances(Entry(old[k]), Entry(new[k]))
         \/ Ledger!Freezes(Entry(old[k]), Entry(new[k]))
    /\ \A k \in DOMAIN new \ DOMAIN old : ~Entry(new[k]).frozen

\* Every step moves the table as the ledger allows: the upsert and FinalizeDue
\* are the only statements that write it.
LEMMA TableSteps ==
    ASSUME TypeOK, [Next]_vars
    PROVE  LedgerStep(rows, rows')
<1>1. IsTable(rows) /\ \A k \in DOMAIN rows : rows[k] \in RowType
  BY TypeOKParts DEF IsTable
<1>2. ASSUME NEW events \in SUBSET EventType, rows' = Upserted(rows, events)
      PROVE  LedgerStep(rows, rows')
  <2>1. /\ DOMAIN rows' = DOMAIN rows \cup {e.key : e \in events}
        /\ \A k \in DOMAIN rows' : UpsertOutcome(rows, events, k, rows'[k])
    BY <1>2, UpsertedRows
  <2>2. ASSUME NEW k \in DOMAIN rows
        PROVE  rows'[k] = rows[k] \/ Ledger!Advances(Entry(rows[k]), Entry(rows'[k]))
    <3>1. UpsertOutcome(rows, events, k, rows'[k])
      BY <2>1
    <3> QED BY <1>1, <3>1, EntrySteps DEF UpsertOutcome
  <2>3. ASSUME NEW k \in DOMAIN rows' \ DOMAIN rows PROVE ~Entry(rows'[k]).frozen
    <3>1. PICK e \in events : rows'[k] = NewRow(e)
      BY <2>1 DEF UpsertOutcome
    <3> QED BY <3>1, EntrySteps
  <2> QED BY <2>1, <2>2, <2>3 DEF LedgerStep
<1>3. ASSUME NEW at, rows' = Finalized(rows, at) PROVE LedgerStep(rows, rows')
  <2>1. /\ DOMAIN rows' = DOMAIN rows
        /\ \A k \in DOMAIN rows : FinalizeOutcome(rows[k], rows'[k])
    BY <1>3, FinalizedRows
  <2>2. ASSUME NEW k \in DOMAIN rows
        PROVE  rows'[k] = rows[k] \/ Ledger!Freezes(Entry(rows[k]), Entry(rows'[k]))
    BY <1>1, <2>1, EntrySteps DEF FinalizeOutcome
  <2> QED BY <2>1, <2>2 DEF LedgerStep
<1>4. ASSUME rows' = rows PROVE LedgerStep(rows, rows')
  BY <1>4 DEF LedgerStep
<1> QED
  BY <1>2, <1>3, <1>4, RowSteps

\* KeepsLedger: the stop_events table implements StopEventLedger, whoever
\* writes to it -- it advances open entries to strictly newer observations on
\* the same basis, freezes them with what they hold, and never loses or
\* reopens one (the contract of domain.EventStore).
THEOREM StoreImplementsLedger == Spec => KeepsLedger
<1>1. Init => Ledger!Init
  BY DEF Init, Ledger!Init
<1>2. TypeOK /\ [Next]_vars => [Ledger!Next]_(LedgerOf(rows))
  <2> SUFFICES ASSUME TypeOK, [Next]_vars PROVE Ledger!Next
    OBVIOUS
  <2>1. LedgerStep(rows, rows')
    BY TableSteps
  <2> QED BY <2>1 DEF LedgerStep, Ledger!Next, Entry
<1> QED
  BY <1>1, <1>2, TypeCorrect, PTL DEF Spec, KeepsLedger, Ledger!Spec, LedgerOf, Entry
=============================================================================
