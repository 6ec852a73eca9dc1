-------------------------- MODULE MCLiveVehicles --------------------------
(***************************************************************************)
(* A small instance of LiveVehicles: two stories of one instant, a vehicle *)
(* that does not tell its time, and a position without a vehicle.          *)
(***************************************************************************)
EXTENDS LiveVehicles, TLC

Seen(v, ts, pos) == [veh |-> v, ts |-> ts, pos |-> pos]

MCSnapshots ==
    {{Seen("v1", 1, "here"), Seen("v2", 0, "here")},
     {Seen("v1", 1, "there"), Seen("", 1, "here")},
     {Seen("v1", 2, "there")}}
=============================================================================
