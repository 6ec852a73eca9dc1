----------------------------- MODULE MCNightly -----------------------------
(***************************************************************************)
(* A small instance of Nightly: days of three hours, weeks of two days.    *)
(***************************************************************************)
EXTENDS Nightly, TLC

MCParents  == <<"stop_events", "vehicle_positions">>
MCServiced == ("stop_events" :> {3, 8}) @@ ("vehicle_positions" :> {8})
MCKeep     == ("stop_events" :> 1) @@ ("vehicle_positions" :> 0)
=============================================================================
