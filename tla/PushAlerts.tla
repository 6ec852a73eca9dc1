----------------------------- MODULE PushAlerts -----------------------------
(***************************************************************************)
(* Delay alerts (internal/push/push.go, internal/store/subscriptions.go).  *)
(* Every minute the serving process makes one pass over a list of the      *)
(* subscriptions; for each it looks at the upcoming events of its stop,    *)
(* claims an alert in push_sent, sends it and books the result.  Riders    *)
(* subscribe and unsubscribe meanwhile, statements and sends fail, and the *)
(* process may die between the claim and the send.                         *)
(*                                                                         *)
(* What a rider asks for (route, direction, threshold) is one value, and   *)
(* so is an upcoming event: Wants relates them.                            *)
(***************************************************************************)
EXTENDS Integers, FiniteSets

CONSTANTS
    Endpoints,   \* browsers, by their push endpoint
    Criteria,    \* [stop, route, direction, threshold] a rider may ask for
    Events,      \* [key, stop, route, direction, delay]: events with a delay
    AnyRoute,    \* no route: any route at the stop
    MaxId        \* bound: subscriptions ever made

ASSUME PushAssumption == MaxId \in Nat

VARIABLES
    subs,     \* push_subscriptions: id -> [endpoint, asks]
    used,     \* ids handed out
    sent,     \* push_sent: <<subscription id, event key>>
    alerts,   \* history: how often an alert was sent, by the same pairs
    pass      \* the evaluator's pass

pushVars == <<subs, used, sent, alerts, pass>>

\* todo: copies of the subscriptions still to evaluate; queue: the events of
\* the one in hand; due, tried: history, the alerts the pass should claim and
\* those it did try to claim.
NoPass == [pc |-> "idle", todo |-> {}, sub |-> 0, asks |-> AnyRoute, queue |-> {},
           event |-> 0, due |-> {}, tried |-> {}]

\* The filters of evaluateSubscription, UpcomingAtStop's among them.
Wants(asks, ev) ==
    /\ asks.stop = ev.stop
    /\ asks.route \in {AnyRoute, ev.route}
    /\ asks.direction >= 0 => asks.direction = ev.direction
    /\ ev.delay >= asks.threshold

Claims == (1..MaxId) \X {ev.key : ev \in Events}

Of(endpoint) == {i \in DOMAIN subs : subs[i].endpoint = endpoint}

-----------------------------------------------------------------------------

PushInit ==
    /\ subs = << >>
    /\ used = 0
    /\ sent = {}
    /\ alerts = [c \in Claims |-> 0]
    /\ pass = NoPass

\* SaveSubscription: a new endpoint gets a row, a known one keeps its id, and
\* with it the alerts it has had.
Save(endpoint, asks) ==
    /\ IF Of(endpoint) = {}
       THEN /\ used < MaxId
            /\ used' = used + 1
            /\ subs' = [i \in DOMAIN subs \cup {used'} |->
                          IF i = used' THEN [endpoint |-> endpoint, asks |-> asks]
                          ELSE subs[i]]
       ELSE /\ subs' = [i \in DOMAIN subs |->
                          IF i \in Of(endpoint) THEN [subs[i] EXCEPT !.asks = asks]
                          ELSE subs[i]]
            /\ used' = used
    /\ UNCHANGED <<sent, alerts, pass>>

\* Deleting a row takes its push_sent rows with it (ON DELETE CASCADE).
Remove(ids) ==
    /\ subs' = [i \in DOMAIN subs \ ids |-> subs[i]]
    /\ sent' = {c \in sent : c[1] \notin ids}

\* DeleteSubscription
Unsubscribe(endpoint) ==
    /\ Of(endpoint) # {}
    /\ Remove(Of(endpoint))
    /\ UNCHANGED <<used, alerts, pass>>

-----------------------------------------------------------------------------
(* The evaluator.                                                          *)

\* Evaluate: AllSubscriptions.
Begin ==
    /\ pass.pc = "idle"
    /\ pass' = [NoPass EXCEPT !.pc = "passing",
                              !.todo = {[id |-> i, asks |-> subs[i].asks] : i \in DOMAIN subs}]
    /\ UNCHANGED <<subs, used, sent, alerts>>

\* The next subscription by id; the live source holds some of the events.
NextSubscription(upcoming) ==
    /\ pass.pc = "passing" /\ pass.todo # {}
    /\ LET first == CHOOSE s \in pass.todo : \A t \in pass.todo : s.id <= t.id
           atStop == {ev \in upcoming : ev.stop = first.asks.stop}
       IN  pass' = [pass EXCEPT
             !.pc = "subscription", !.todo = @ \ {first}, !.sub = first.id,
             !.asks = first.asks, !.queue = atStop,
             !.due = @ \cup {<<first.id, ev.key>> : ev \in {e \in atStop : Wants(first.asks, e)}}]
    /\ UNCHANGED <<subs, used, sent, alerts>>

\* An event the rider did not ask for.
Ignore(ev) ==
    /\ pass.pc = "subscription" /\ ev \in pass.queue
    /\ ~Wants(pass.asks, ev)
    /\ pass' = [pass EXCEPT !.queue = @ \ {ev}]
    /\ UNCHANGED <<subs, used, sent, alerts>>

Claim(ev) == <<pass.sub, ev.key>>

\* The pass tries to claim ev and goes on as pc says.
Tries(ev, pc) ==
    /\ pass.pc = "subscription" /\ ev \in pass.queue
    /\ Wants(pass.asks, ev)
    /\ pass' = [pass EXCEPT !.pc = pc, !.queue = @ \ {ev}, !.tried = @ \cup {Claim(ev)},
                            !.event = ev.key]

ClaimsAgain(ev) ==                                   \* variant: fresh not looked at
    /\ Tries(ev, "sending")
    /\ pass.sub \in DOMAIN subs
    /\ sent' = sent \cup {Claim(ev)}
    /\ UNCHANGED <<subs, used, alerts>>

\* MarkPushSent inserts the row: the subscription still exists.
ClaimFresh(ev) ==
    /\ Tries(ev, "sending")
    /\ pass.sub \in DOMAIN subs
    /\ Claim(ev) \notin sent
    /\ sent' = sent \cup {Claim(ev)}
    /\ UNCHANGED <<subs, used, alerts>>

\* ON CONFLICT DO NOTHING: claimed before, by this pass or an earlier one.
ClaimStale(ev) ==
    /\ Tries(ev, "subscription")
    /\ Claim(ev) \in sent
    /\ UNCHANGED <<subs, used, sent, alerts>>

ErrorEndsPass(ev) ==                                 \* variant: returns the error
    /\ pass.pc = "subscription" /\ ev \in pass.queue
    /\ Wants(pass.asks, ev)
    /\ pass' = [pass EXCEPT !.pc = "returned"]
    /\ UNCHANGED <<subs, used, sent, alerts>>

\* The statement fails, as it must when the subscription is gone; the pass
\* goes on to the next event.  Its row may have been inserted all the same.
ClaimFails(ev) ==
    /\ Tries(ev, "subscription")
    /\ \/ sent' = sent
       \/ pass.sub \in DOMAIN subs /\ sent' = sent \cup {Claim(ev)}
    /\ UNCHANGED <<subs, used, alerts>>

\* deliver: the send, which may fail or not, and the outcome it books.
Send(outcome) ==
    /\ pass.pc = "sending"
    /\ alerts' = [alerts EXCEPT ![<<pass.sub, pass.event>>] = @ + 1]
    /\ pass' = [pass EXCEPT !.pc = outcome]
    /\ UNCHANGED <<subs, used, sent>>

\* RecordPushResult: an endpoint that is gone loses its subscription; last
\* success and the failure count, which nothing reads, are left out.
RecordResult ==
    /\ pass.pc \in {"answered", "gone"}
    /\ IF pass.pc = "gone" THEN Remove({pass.sub}) ELSE UNCHANGED <<subs, sent>>
    /\ pass' = [pass EXCEPT !.pc = "subscription"]
    /\ UNCHANGED <<used, alerts>>

RecordResultFails ==
    /\ pass.pc \in {"answered", "gone"}
    /\ pass' = [pass EXCEPT !.pc = "subscription"]
    /\ UNCHANGED <<subs, used, sent, alerts>>

SubscriptionDone ==
    /\ pass.pc = "subscription" /\ pass.queue = {}
    /\ pass' = [pass EXCEPT !.pc = "passing"]
    /\ UNCHANGED <<subs, used, sent, alerts>>

Return ==
    /\ pass.pc = "passing" /\ pass.todo = {}
    /\ pass' = [pass EXCEPT !.pc = "returned"]
    /\ UNCHANGED <<subs, used, sent, alerts>>

\* The next pass may begin; or the process is stopped, wherever it is.
Stop ==
    /\ pass.pc # "idle"
    /\ pass' = NoPass
    /\ UNCHANGED <<subs, used, sent, alerts>>

PushNext ==
    \/ \E endpoint \in Endpoints :
         \/ \E asks \in Criteria : Save(endpoint, asks)
         \/ Unsubscribe(endpoint)
    \/ Begin
    \/ \E upcoming \in SUBSET Events : NextSubscription(upcoming)
    \/ \E ev \in pass.queue :
         \/ Ignore(ev)
         \/ ClaimFresh(ev)
         \/ ClaimStale(ev)
         \/ ClaimFails(ev)
    \/ \E outcome \in {"answered", "gone"} : Send(outcome)
    \/ RecordResult
    \/ RecordResultFails
    \/ SubscriptionDone
    \/ Return
    \/ Stop

PushSpec == PushInit /\ [][PushNext]_pushVars

-----------------------------------------------------------------------------

\* 0001_init.sql: "One alert per (subscription, trip instance, stop)": passes
\* that overlap riders' edits, failed claims and restarts never send it twice.
AtMostOneAlert == \A c \in Claims : alerts[c] <= 1

\* push.go: "One subscription's failure never aborts the pass": a pass that
\* returns has tried every alert that was due.
PassTriesEveryone == pass.pc = "returned" => pass.due \subseteq pass.tried
=============================================================================
