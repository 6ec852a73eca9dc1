---------------------------- MODULE MCPushAlerts ----------------------------
(***************************************************************************)
(* Two riders at one stop, one of them choosy, and two late buses.         *)
(***************************************************************************)
EXTENDS PushAlerts, TLC

Asks(route, threshold) ==
    [stop |-> "s", route |-> route, direction |-> -1, threshold |-> threshold]

Late(key, route, delay) ==
    [key |-> key, stop |-> "s", route |-> route, direction |-> 0, delay |-> delay]

MCCriteria == {Asks(AnyRoute, 3), Asks("r1", 5)}
MCEvents   == {Late(1, "r1", 4), Late(2, "r1", 6)}
=============================================================================
