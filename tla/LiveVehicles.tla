---------------------------- MODULE LiveVehicles ----------------------------
(***************************************************************************)
(* Vehicles on the live map and their history                              *)
(* (processVehiclePositions, Sweep, Store.InsertVehiclePositions).         *)
(*                                                                         *)
(* A call of Process writes the positions of a snapshot to                 *)
(* vehicle_positions as one batch and then, under the engine's mutex,      *)
(* refreshes the map.  Several pollers and replays do so at once, writes   *)
(* fail or go unanswered, the sweeper ages vehicles out, the process       *)
(* restarts.                                                               *)
(*                                                                         *)
(* Headsign and route, which the schedule may add to a vehicle, change     *)
(* nothing here and are left out, and so is the delay joined to it on      *)
(* reading.  A snapshot has at most one position of a vehicle.             *)
(***************************************************************************)
EXTENDS Integers, FiniteSets

CONSTANTS
    Pollers,     \* goroutines of the serving process that call Process
    Replayers,   \* replays: their own engine, same store
    Snapshots,   \* sets of [veh, ts, pos]; ts is 0 where the feed has none
    NoVehicle,   \* the empty vehicle id
    TTL,         \* vehicleTTL
    LastPoll,    \* bound: nothing is polled later
    MaxTime      \* bound: the clock stops here

ASSUME VehiclesAssumption ==
    /\ Pollers \cap Replayers = {}
    /\ \A s \in Snapshots : \A p \in s : p.ts \in Nat
    /\ \A s \in Snapshots : \A p, q \in s : p.veh = q.veh => p = q
    /\ TTL \in Nat /\ LastPoll \in Nat /\ MaxTime \in Nat

Workers  == Pollers \cup Replayers
Vehicles == {p.veh : p \in UNION Snapshots} \ {NoVehicle}

VARIABLES
    now,       \* the clock
    vehicles,  \* Engine.vehicles: id -> [ts, pos, updated]
    history,   \* vehicle_positions: <<id, ts>> -> position
    job,       \* what each call of Process has in hand
    silent     \* the vehicles the feed has stopped to report

vars == <<now, vehicles, history, job, silent>>

Idle == [pc |-> "idle", batch |-> {}, at |-> 0]

\* The positions InsertVehiclePositions queues: those that have a time.
Queued(batch) == {p \in batch : p.ts > 0}

\* INSERT ... ON CONFLICT (vehicle_id, ts) DO NOTHING, as one batch.
Inserted(batch) ==
    LET key(p) == <<p.veh, p.ts>>
        new    == {key(p) : p \in Queued(batch)} \ DOMAIN history
    IN  [k \in DOMAIN history \cup new |->
            IF k \in new THEN (CHOOSE p \in Queued(batch) : key(p) = k).pos
            ELSE history[k]]

\* The map's entry for a position of a snapshot polled at the instant at.
Entry(p, at) == [ts |-> p.ts, pos |-> p.pos, updated |-> IF p.ts > 0 THEN p.ts ELSE at]

\* The map refreshed with a batch: "an out-of-order apply never regresses a
\* vehicle", and positions without a vehicle id are not shown.
Refreshed(batch, at) ==
    LET shown == {p.veh : p \in batch} \ {NoVehicle}
        new(v) == Entry(CHOOSE p \in batch : p.veh = v, at)
    IN  [v \in DOMAIN vehicles \cup shown |->
            IF v \in shown /\ (v \in DOMAIN vehicles => vehicles[v].updated <= new(v).updated)
            THEN new(v)
            ELSE vehicles[v]]

-----------------------------------------------------------------------------

Init ==
    /\ now = 0
    /\ vehicles = << >>
    /\ history = << >>
    /\ job = [w \in Workers |-> Idle]
    /\ silent = {}

\* A snapshot arrives, from the feed or from the archive.  With nothing to
\* insert the store is not asked.
Process(w, s) ==
    /\ job[w] = Idle
    /\ now <= LastPoll
    /\ w \in Pollers => \A p \in s : p.veh \notin silent
    /\ job' = [job EXCEPT ![w] = [pc |-> IF Queued(s) = {} THEN "inserted" ELSE "decoded",
                                  batch |-> s, at |-> now]]
    /\ UNCHANGED <<now, vehicles, history, silent>>

\* InsertVehiclePositions commits, and the answer arrives or is lost.
Insert(w) ==
    /\ job[w].pc = "decoded"
    /\ history' = Inserted(job[w].batch)
    /\ job' = [job EXCEPT ![w].pc = "inserted"]
    /\ UNCHANGED <<now, vehicles, silent>>

InsertUnacknowledged(w) ==
    /\ job[w].pc = "decoded"
    /\ history' = Inserted(job[w].batch)
    /\ job' = [job EXCEPT ![w] = Idle]
    /\ UNCHANGED <<now, vehicles, silent>>

InsertFailsUnnoticed(w) ==                           \* variant: error ignored
    /\ job[w].pc = "decoded"
    /\ job' = [job EXCEPT ![w].pc = "inserted"]
    /\ UNCHANGED <<now, vehicles, history, silent>>

\* The batch is rolled back and Process returns the error.
InsertFails(w) ==
    /\ job[w].pc = "decoded"
    /\ job' = [job EXCEPT ![w] = Idle]
    /\ UNCHANGED <<now, vehicles, history, silent>>

\* The map, under the mutex.  A replay refreshes one that nobody reads.
Refresh(w) ==
    /\ job[w].pc = "inserted"
    /\ vehicles' = IF w \in Pollers THEN Refreshed(job[w].batch, job[w].at) ELSE vehicles
    /\ job' = [job EXCEPT ![w] = Idle]
    /\ UNCHANGED <<now, history, silent>>

SweepSparesUntimed ==                                \* variant: positions without a time stay
    /\ vehicles' = [v \in {u \in DOMAIN vehicles :
                             vehicles[u].ts = 0 \/ now - vehicles[u].updated <= TTL} |->
                      vehicles[v]]
    /\ UNCHANGED <<now, history, job, silent>>

\* Sweep ages vehicles out.
Sweep ==
    /\ vehicles' = [v \in {u \in DOMAIN vehicles : now - vehicles[u].updated <= TTL} |->
                      vehicles[v]]
    /\ UNCHANGED <<now, history, job, silent>>

\* The serving process stops and starts again.
Restart ==
    /\ vehicles' = << >>
    /\ job' = [w \in Workers |-> IF w \in Pollers THEN Idle ELSE job[w]]
    /\ UNCHANGED <<now, history, silent>>

\* The feed stops reporting a vehicle.
Vanish(v) ==
    /\ v \notin silent
    /\ silent' = silent \cup {v}
    /\ UNCHANGED <<now, vehicles, history, job>>

Tick ==
    /\ now < MaxTime
    /\ now' = now + 1
    /\ UNCHANGED <<vehicles, history, job, silent>>

Next ==
    \/ \E w \in Workers :
         \/ \E s \in Snapshots : Process(w, s)
         \/ Insert(w)
         \/ InsertUnacknowledged(w)
         \/ InsertFails(w)
         \/ Refresh(w)
    \/ Sweep
    \/ Restart
    \/ \E v \in Vehicles : Vanish(v)
    \/ Tick

Spec == Init /\ [][Next]_vars

\* Time passes and the sweeper's ticker fires.
FairSpec == Spec /\ WF_vars(Tick) /\ WF_vars(Sweep)

-----------------------------------------------------------------------------

\* Whatever riders see of a vehicle that tells its time is in the history, or
\* the feed's second story of that instant is, although writes fail, go
\* unanswered and race: a position shown is never one that was lost.
ShownIsRecorded ==
    \A v \in DOMAIN vehicles :
        vehicles[v].ts > 0 => <<v, vehicles[v].ts>> \in DOMAIN history

\* Contract rule 5, vanishing vehicles: "live entries age out".  A vehicle the
\* feed stops reporting leaves the map for good, with or without a time of its
\* own, although snapshots that name it are still in flight and polls of the
\* others go on.
SilentVehiclesLeave == <>[](\A v \in silent : v \notin DOMAIN vehicles)
=============================================================================
