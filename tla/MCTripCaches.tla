---------------------------- MODULE MCTripCaches ----------------------------
(***************************************************************************)
(* Two calls, two versions that disagree about two of three trips, and     *)
(* caches of two entries.                                                  *)
(***************************************************************************)
EXTENDS TripCaches, TLC

MCKnown == (1 :> {"t1", "t2", "t3"}) @@ (2 :> {"t2"})
MCTrips == {"t1", "t2", "t3"}
Symmetric == Permutations(Workers)
=============================================================================
