---------------------------- MODULE RidersProofs -----------------------------
(***************************************************************************)
(* What reaches riders, for any number of them: what the map of vehicles   *)
(* shows is in the history, for any pollers, replays, feeds and clocks; one*)
(* alert is sent per subscription, trip instance and stop, and no pass skips*)
(* a rider, for any subscriptions, wishes and events.                      *)
(***************************************************************************)
EXTENDS LiveVehicles, PushAlerts, TLAPS

-----------------------------------------------------------------------------
\* Live vehicles.

\* A call between its write and its refresh holds only positions whose keys
\* the history has: nothing is deleted meanwhile.
InsertedIsRecorded ==
    \A w \in Workers : job[w].pc = "inserted" =>
        \A p \in Queued(job[w].batch) : <<p.veh, p.ts>> \in DOMAIN history

JobsOK ==
    /\ job = [w \in Workers |-> job[w]]
    /\ \A w \in Workers : /\ job[w] = [pc |-> job[w].pc, batch |-> job[w].batch, at |-> job[w].at]
                          /\ \A p \in job[w].batch : p.ts \in Nat

VehiclesInv == JobsOK /\ InsertedIsRecorded /\ ShownIsRecorded

\* A batch inserted leaves the history it finds and adds its timed positions.
LEMMA InsertedHasKeys ==
    ASSUME NEW batch
    PROVE  /\ DOMAIN history \subseteq DOMAIN Inserted(batch)
           /\ \A p \in Queued(batch) : <<p.veh, p.ts>> \in DOMAIN Inserted(batch)
  BY DEF Inserted

\* Nothing is shown at the start.
LEMMA VehiclesInitInv == Init => VehiclesInv
  BY DEF Init, VehiclesInv, JobsOK, InsertedIsRecorded, ShownIsRecorded, Idle, Queued

\* Every step keeps the invariant.
LEMMA VehiclesNextInv == VehiclesInv /\ [Next]_vars => VehiclesInv'
<1> SUFFICES ASSUME VehiclesInv, [Next]_vars PROVE VehiclesInv'
  OBVIOUS
<1> USE DEF VehiclesInv
<1>1. ASSUME NEW w \in Workers, NEW s \in Snapshots, Process(w, s) PROVE VehiclesInv'
  <2>1. JobsOK'
    BY <1>1, VehiclesAssumption DEF Process, JobsOK
  <2>2. InsertedIsRecorded'
    BY <1>1 DEF Process, InsertedIsRecorded, JobsOK
  <2> QED
    BY <1>1, <2>1, <2>2 DEF Process, ShownIsRecorded
<1>2. ASSUME NEW w \in Workers, Insert(w) \/ InsertUnacknowledged(w) PROVE VehiclesInv'
  <2>1. history' = Inserted(job[w].batch)
    BY <1>2 DEF Insert, InsertUnacknowledged
  <2>2. /\ DOMAIN history \subseteq DOMAIN history'
        /\ \A p \in Queued(job[w].batch) : <<p.veh, p.ts>> \in DOMAIN history'
    BY <2>1, InsertedHasKeys
  <2>3. JobsOK'
    BY <1>2 DEF Insert, InsertUnacknowledged, JobsOK, Idle
  <2>4. \A u \in Workers : job'[u].pc = "inserted" =>
          /\ job'[u].batch = job[u].batch
          /\ u # w => job[u].pc = "inserted"
    BY <1>2 DEF Insert, InsertUnacknowledged, JobsOK, Idle
  <2>5. InsertedIsRecorded'
    BY <2>2, <2>4 DEF InsertedIsRecorded
  <2> QED
    BY <1>2, <2>2, <2>3, <2>5 DEF Insert, InsertUnacknowledged, ShownIsRecorded
<1>3. ASSUME NEW w \in Workers, InsertFails(w) PROVE VehiclesInv'
  <2>1. JobsOK' /\ InsertedIsRecorded'
    BY <1>3 DEF InsertFails, JobsOK, InsertedIsRecorded, Idle
  <2> QED
    BY <1>3, <2>1 DEF InsertFails, ShownIsRecorded
<1>4. ASSUME NEW w \in Workers, Refresh(w) PROVE VehiclesInv'
  <2>1. JobsOK' /\ InsertedIsRecorded'
    BY <1>4 DEF Refresh, JobsOK, InsertedIsRecorded, Idle
  <2>2. ASSUME NEW v \in DOMAIN vehicles', vehicles'[v].ts > 0
        PROVE  <<v, vehicles'[v].ts>> \in DOMAIN history
    <3> DEFINE batch == job[w].batch
               p == CHOOSE q \in batch : q.veh = v
    <3>1. CASE v \in DOMAIN vehicles /\ vehicles'[v] = vehicles[v]
      BY <2>2, <3>1 DEF ShownIsRecorded
    <3>2. CASE ~(v \in DOMAIN vehicles /\ vehicles'[v] = vehicles[v])
      <4>1. v \in {q.veh : q \in batch} /\ vehicles'[v] = Entry(p, job[w].at)
        BY <1>4, <2>2, <3>2 DEF Refresh, Refreshed
      <4>2. p \in batch /\ p.veh = v
        BY <4>1
      <4>3. p \in Queued(batch)
        BY <2>2, <4>1, <4>2 DEF Entry, Queued
      <4> QED
        BY <1>4, <4>1, <4>2, <4>3 DEF Refresh, InsertedIsRecorded, Entry
    <3> QED
      BY <3>1, <3>2
  <2> QED
    BY <1>4, <2>1, <2>2 DEF Refresh, ShownIsRecorded
<1>5. CASE Sweep
  BY <1>5 DEF Sweep, JobsOK, InsertedIsRecorded, ShownIsRecorded
<1>6. CASE Restart
  <2>1. JobsOK'
    BY <1>6 DEF Restart, JobsOK, Idle
  <2>2. InsertedIsRecorded'
    BY <1>6 DEF Restart, InsertedIsRecorded, Idle
  <2> QED
    BY <1>6, <2>1, <2>2 DEF Restart, ShownIsRecorded
<1>7. CASE (\E v \in Vehicles : Vanish(v)) \/ Tick \/ UNCHANGED vars
  BY <1>7 DEF Vanish, Tick, vars, JobsOK, InsertedIsRecorded, ShownIsRecorded
<1> QED
  BY <1>1, <1>2, <1>3, <1>4, <1>5, <1>6, <1>7 DEF Next

\* Every vehicle on the map that tells its time has a row in
\* vehicle_positions, whatever writes fail or race.
THEOREM ShownCorrect == Spec => []ShownIsRecorded
<1>1. VehiclesInv => ShownIsRecorded
  BY DEF VehiclesInv
<1> QED
  BY <1>1, VehiclesInitInv, VehiclesNextInv, PTL DEF Spec

-----------------------------------------------------------------------------
\* Push alerts.

\* The fields of a pass.
PassShape ==
    pass = [pc |-> pass.pc, todo |-> pass.todo, sub |-> pass.sub, asks |-> pass.asks,
            queue |-> pass.queue, event |-> pass.event, due |-> pass.due,
            tried |-> pass.tried]

\* Ids are given out once, and what is kept is about ids given out.
IdsOK ==
    /\ used \in 0..MaxId
    /\ DOMAIN subs \subseteq 1..used
    /\ sent \subseteq {c \in Claims : c[1] \in 1..used}

\* No further alert can be claimed: it has been, or its subscription is gone
\* for good.
Spent(c) == c \in sent \/ c[1] \in (1..used) \ DOMAIN subs

\* An alert was sent, or is about to be, under a claim that is spent: the row
\* in push_sent is written before the send, and outlives it.
AlertsOK ==
    /\ alerts \in [Claims -> 0..1]
    /\ \A c \in Claims : alerts[c] = 1 => Spent(c)
    /\ pass.queue \subseteq Events
    /\ pass.pc = "sending" =>
         /\ <<pass.sub, pass.event>> \in Claims
         /\ Spent(<<pass.sub, pass.event>>)
         /\ alerts[<<pass.sub, pass.event>>] = 0

PushInv == PassShape /\ IdsOK /\ AlertsOK

\* A spent claim stays spent when ids are only added and rows only removed
\* together with their subscription.
LEMMA SpentStays ==
    ASSUME IdsOK, used' \in {used, used + 1}, DOMAIN subs' \subseteq DOMAIN subs \cup {used + 1},
           \A c \in sent : c \in sent' \/ c[1] \notin DOMAIN subs',
           NEW c, Spent(c)
    PROVE  Spent(c)'
  BY DEF IdsOK, Spent

\* What a step that leaves the evaluator's claim and the history alone keeps.
LEMMA SubscriptionsMove ==
    ASSUME PushInv, IdsOK', UNCHANGED <<alerts, pass>>,
           used' \in {used, used + 1}, DOMAIN subs' \subseteq DOMAIN subs \cup {used + 1},
           \A c \in sent : c \in sent' \/ c[1] \notin DOMAIN subs'
    PROVE  PushInv'
<1>1. \A c : Spent(c) => Spent(c)'
  BY SpentStays DEF PushInv
<1> QED BY <1>1 DEF PushInv, PassShape, AlertsOK

\* What a step that moves the evaluator, to anywhere but a send, keeps.
LEMMA PassMoves ==
    ASSUME PushInv, UNCHANGED <<subs, used, sent, alerts>>, PassShape', pass'.pc # "sending",
           pass'.queue \subseteq Events
    PROVE  PushInv'
  BY DEF PushInv, IdsOK, AlertsOK, Spent

\* Subscriptions that go take their rows with them.
LEMMA RemoveKeeps ==
    ASSUME IdsOK, NEW ids, Remove(ids), used' = used
    PROVE  /\ IdsOK'
           /\ DOMAIN subs' \subseteq DOMAIN subs
           /\ \A c \in sent : c \in sent' \/ c[1] \notin DOMAIN subs'
  BY DEF IdsOK, Remove

\* What a live subscription may claim.
LEMMA ClaimsOfLive ==
    ASSUME IdsOK, NEW i \in DOMAIN subs, NEW ev \in Events
    PROVE  <<i, ev.key>> \in Claims /\ i \in 1..used
<1>1. i \in 1..used /\ i \in 1..MaxId
  BY PushAssumption DEF IdsOK
<1>2. ev.key \in {e.key : e \in Events}
  OBVIOUS
<1> QED BY <1>1, <1>2 DEF Claims

LEMMA PushInitInv == PushInit => PushInv
<1> SUFFICES ASSUME PushInit PROVE PushInv
  OBVIOUS
<1>1. PassShape /\ pass.pc = "idle" /\ pass.queue = {}
  BY DEF PushInit, PassShape, NoPass
<1>2. IdsOK
  BY PushAssumption DEF PushInit, IdsOK
<1>3. AlertsOK
  BY <1>1 DEF PushInit, AlertsOK
<1> QED BY <1>1, <1>2, <1>3 DEF PushInv

LEMMA PushNextInv == PushInv /\ [PushNext]_pushVars => PushInv'
<1> SUFFICES ASSUME PushInv, [PushNext]_pushVars PROVE PushInv'
  OBVIOUS
<1>1. ASSUME NEW endpoint, NEW asks, Save(endpoint, asks) PROVE PushInv'
  <2>1. used' \in {used, used + 1} /\ DOMAIN subs' \subseteq DOMAIN subs \cup {used + 1}
    BY <1>1 DEF Save
  <2>2. IdsOK'
    <3>1. CASE Of(endpoint) = {}
      <4>1. used' = used + 1 /\ used' \in 0..MaxId /\ DOMAIN subs' = DOMAIN subs \cup {used'}
        BY <1>1, <3>1, PushAssumption DEF Save, PushInv, IdsOK
      <4>2. 1..used \subseteq 1..used' /\ used' \in 1..used'
        BY <4>1, PushAssumption DEF PushInv, IdsOK
      <4> QED BY <1>1, <4>1, <4>2 DEF Save, PushInv, IdsOK
    <3>2. CASE Of(endpoint) # {}
      BY <1>1, <3>2 DEF Save, PushInv, IdsOK
    <3> QED BY <3>1, <3>2
  <2> QED BY <1>1, <2>1, <2>2, SubscriptionsMove DEF Save
<1>2. ASSUME NEW endpoint, Unsubscribe(endpoint) PROVE PushInv'
  BY <1>2, RemoveKeeps, SubscriptionsMove DEF Unsubscribe, PushInv
<1>3. CASE Begin
  BY <1>3, PassMoves DEF Begin, NoPass, PassShape
<1>4. ASSUME NEW upcoming \in SUBSET Events, NextSubscription(upcoming) PROVE PushInv'
  BY <1>4, PassMoves DEF NextSubscription, PushInv, PassShape
<1>5. ASSUME NEW ev \in pass.queue, Ignore(ev) \/ ClaimStale(ev) PROVE PushInv'
  BY <1>5, PassMoves DEF Ignore, ClaimStale, Tries, PushInv, PassShape, AlertsOK
<1>6. ASSUME NEW ev \in pass.queue, ClaimFresh(ev) PROVE PushInv'
  <2> DEFINE mine == <<pass.sub, ev.key>>
  <2>1. /\ pass'.sub = pass.sub /\ pass'.event = ev.key /\ PassShape'
        /\ pass'.queue \subseteq Events
    BY <1>6 DEF ClaimFresh, Tries, PushInv, PassShape, AlertsOK
  <2>2. /\ mine \in Claims /\ mine[1] \in 1..used
        /\ mine \notin sent /\ mine[1] \in DOMAIN subs
    <3>1. pass.sub \in DOMAIN subs /\ ev \in Events /\ mine \notin sent
      BY <1>6 DEF ClaimFresh, Claim, PushInv, AlertsOK
    <3>2. mine \in Claims /\ pass.sub \in 1..used
      BY <3>1, ClaimsOfLive DEF PushInv
    <3> QED BY <3>1, <3>2
  <2>3. IdsOK'
    BY <1>6, <2>2 DEF ClaimFresh, Claim, PushInv, IdsOK
  <2>4. alerts[mine] = 0
    BY <2>2 DEF PushInv, AlertsOK, Spent
  <2>5. \A c : c = mine \/ Spent(c) => Spent(c)'
    <3>1. sent' = sent \cup {mine} /\ used' = used /\ subs' = subs
      BY <1>6 DEF ClaimFresh, Claim
    <3> HIDE DEF mine
    <3> QED BY <3>1 DEF Spent
  <2>6. AlertsOK'
    <3>1. <<pass'.sub, pass'.event>> = mine /\ alerts' = alerts
      BY <1>6, <2>1 DEF ClaimFresh
    <3>2. \A c \in Claims : alerts'[c] = 1 => Spent(c)'
      BY <2>5, <3>1 DEF PushInv, AlertsOK
    <3> QED BY <2>1, <2>2, <2>4, <2>5, <3>1, <3>2 DEF PushInv, AlertsOK, Claims
  <2> QED BY <2>1, <2>3, <2>6 DEF PushInv
<1>7. ASSUME NEW ev \in pass.queue, ClaimFails(ev) PROVE PushInv'
  <2> DEFINE mine == <<pass.sub, ev.key>>
  <2>1. PassShape' /\ pass'.pc = "subscription" /\ pass'.queue \subseteq Events
    BY <1>7 DEF ClaimFails, Tries, PushInv, PassShape, AlertsOK
  <2>2. pass.sub \in DOMAIN subs => mine \in Claims /\ mine[1] \in 1..used
    <3>1. ev \in Events
      BY <1>7 DEF PushInv, AlertsOK
    <3>2. pass.sub \in DOMAIN subs => mine \in Claims /\ pass.sub \in 1..used
      BY <3>1, ClaimsOfLive DEF PushInv
    <3> QED BY <3>2
  <2>3. IdsOK'
    BY <1>7, <2>2 DEF ClaimFails, Claim, PushInv, IdsOK
  <2>4. \A c : Spent(c) => Spent(c)'
    BY <1>7 DEF ClaimFails, Spent
  <2>5. AlertsOK'
    BY <1>7, <2>1, <2>4 DEF ClaimFails, PushInv, AlertsOK
  <2> QED BY <2>1, <2>3, <2>5 DEF PushInv
<1>8. ASSUME NEW outcome \in {"answered", "gone"}, Send(outcome) PROVE PushInv'
  <2>1. PassShape' /\ pass'.pc = outcome /\ pass'.queue = pass.queue
    BY <1>8 DEF Send, PushInv, PassShape
  <2>2. IdsOK' /\ \A c : Spent(c)' = Spent(c)
    BY <1>8 DEF Send, PushInv, IdsOK, Spent
  <2>3. AlertsOK'
    <3>1. /\ <<pass.sub, pass.event>> \in Claims /\ Spent(<<pass.sub, pass.event>>)
          /\ alerts[<<pass.sub, pass.event>>] = 0
      BY <1>8 DEF Send, PushInv, AlertsOK
    <3>2. alerts' = [alerts EXCEPT ![<<pass.sub, pass.event>>] = 1]
      BY <1>8, <3>1 DEF Send, PushInv, AlertsOK
    <3> QED BY <2>1, <2>2, <3>1, <3>2 DEF PushInv, AlertsOK
  <2> QED BY <2>1, <2>2, <2>3 DEF PushInv
<1>9. CASE RecordResult
  <2>1. PassShape' /\ pass'.pc = "subscription" /\ pass'.queue = pass.queue
    BY <1>9 DEF RecordResult, PushInv, PassShape
  <2>2. CASE pass.pc = "gone"
    <3>1. /\ IdsOK' /\ DOMAIN subs' \subseteq DOMAIN subs
          /\ \A c \in sent : c \in sent' \/ c[1] \notin DOMAIN subs'
      BY <1>9, <2>2, RemoveKeeps DEF RecordResult, PushInv
    <3>2. \A c : Spent(c) => Spent(c)'
      BY <1>9, <3>1, SpentStays DEF RecordResult, PushInv
    <3> QED BY <1>9, <2>1, <3>1, <3>2 DEF RecordResult, PushInv, AlertsOK
  <2>3. CASE pass.pc # "gone"
    BY <1>9, <2>1, <2>3, PassMoves DEF RecordResult, PushInv, AlertsOK
  <2> QED BY <2>2, <2>3
<1>10. CASE RecordResultFails \/ SubscriptionDone \/ Return
  BY <1>10, PassMoves DEF RecordResultFails, SubscriptionDone, Return, PushInv, PassShape, AlertsOK
<1>11. CASE Stop
  BY <1>11, PassMoves DEF Stop, NoPass, PassShape
<1>12. CASE UNCHANGED pushVars
  BY <1>12 DEF pushVars, PushInv, PassShape, IdsOK, AlertsOK, Spent
<1> QED
  BY <1>1, <1>2, <1>3, <1>4, <1>5, <1>6, <1>7, <1>8, <1>9, <1>10, <1>11, <1>12 DEF PushNext

\* No rider is sent one alert twice: the claim is in push_sent before the send,
\* and goes only with a subscription whose id is never given again.
THEOREM OneAlert == PushSpec => []AtMostOneAlert
<1>1. PushInv => AtMostOneAlert
  BY DEF PushInv, AlertsOK, AtMostOneAlert
<1> QED
  BY <1>1, PushInitInv, PushNextInv, PTL DEF PushSpec

-----------------------------------------------------------------------------

\* An alert that is due and not tried is of an event still in the queue.
QueueHoldsDue ==
    \A c \in pass.due \ pass.tried :
        /\ pass.pc \notin {"passing", "returned"}
        /\ \E ev \in pass.queue : Wants(pass.asks, ev) /\ c = <<pass.sub, ev.key>>

\* A pass that returns has tried all it should, whatever failed on the way.
THEOREM EveryoneTried == PushSpec => []PassTriesEveryone
<1>1. PushInit => QueueHoldsDue
  BY DEF PushInit, NoPass, QueueHoldsDue
<1>2. PushInv /\ QueueHoldsDue /\ [PushNext]_pushVars => QueueHoldsDue'
  <2> SUFFICES ASSUME PassShape, QueueHoldsDue, [PushNext]_pushVars PROVE QueueHoldsDue'
    BY DEF PushInv
  <2>1. CASE pass' = pass
    BY <2>1 DEF QueueHoldsDue
  <2>2. CASE Begin \/ Stop
    <3>1. pass'.due = {}
      <4> DEFINE all == {[id |-> i, asks |-> subs[i].asks] : i \in DOMAIN subs}
      <4>1. pass' = NoPass \/ pass' = [NoPass EXCEPT !.pc = "passing", !.todo = all]
        BY <2>2 DEF Begin, Stop
      <4> HIDE DEF all
      <4>2. NoPass.due = {} /\ [NoPass EXCEPT !.pc = "passing", !.todo = all].due = {}
        BY DEF NoPass
      <4> QED BY <4>1, <4>2
    <3> QED BY <3>1 DEF QueueHoldsDue
  <2>3. ASSUME NEW upcoming, NextSubscription(upcoming) PROVE QueueHoldsDue'
    <3>1. pass.due \subseteq pass.tried
      BY <2>3 DEF NextSubscription, QueueHoldsDue
    <3> DEFINE first == CHOOSE s \in pass.todo : \A t \in pass.todo : s.id <= t.id
               atStop == {ev \in upcoming : ev.stop = first.asks.stop}
    <3>2. /\ pass'.pc = "subscription" /\ pass'.sub = first.id /\ pass'.asks = first.asks
          /\ pass'.queue = atStop /\ pass'.tried = pass.tried
          /\ pass'.due = pass.due \cup
               {<<first.id, ev.key>> : ev \in {e \in atStop : Wants(first.asks, e)}}
      BY <2>3 DEF NextSubscription, PassShape
    <3> HIDE DEF first
    <3> QED BY <3>1, <3>2 DEF QueueHoldsDue
  <2>4. ASSUME NEW ev \in pass.queue, Ignore(ev) PROVE QueueHoldsDue'
    BY <2>4 DEF Ignore, PassShape, QueueHoldsDue
  <2>5. ASSUME NEW ev \in pass.queue, ClaimFresh(ev) \/ ClaimStale(ev) \/ ClaimFails(ev)
        PROVE  QueueHoldsDue'
    <3>1. /\ pass'.due = pass.due /\ pass'.tried = pass.tried \cup {<<pass.sub, ev.key>>}
          /\ pass'.queue = pass.queue \ {ev} /\ pass'.sub = pass.sub /\ pass'.asks = pass.asks
          /\ pass'.pc \in {"sending", "subscription"}
      BY <2>5 DEF ClaimFresh, ClaimStale, ClaimFails, Tries, Claim, PassShape
    <3> QED BY <3>1 DEF QueueHoldsDue
  <2>6. ASSUME NEW outcome \in {"answered", "gone"}, Send(outcome) PROVE QueueHoldsDue'
    BY <2>6 DEF Send, PassShape, QueueHoldsDue
  <2>7. CASE RecordResult \/ RecordResultFails \/ SubscriptionDone \/ Return
    BY <2>7 DEF RecordResult, RecordResultFails, SubscriptionDone, Return, PassShape,
       QueueHoldsDue
  <2> QED
    BY <2>1, <2>2, <2>3, <2>4, <2>5, <2>6, <2>7 DEF PushNext, Save, Unsubscribe, pushVars
<1>3. QueueHoldsDue => PassTriesEveryone
  BY DEF QueueHoldsDue, PassTriesEveryone
<1> QED
  BY <1>1, <1>2, <1>3, PushInitInv, PushNextInv, PTL DEF PushSpec
=============================================================================
