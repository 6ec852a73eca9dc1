---------------------------- MODULE MCRawArchive ----------------------------
(***************************************************************************)
(* A small instance of RawArchive: one URL of one feed.                    *)
(***************************************************************************)
EXTENDS RawArchive, TLC

CONSTANT p1

OneFeed  == p1 :> "trip_updates"

MCRanges == {[from |-> 0, to |-> 1]}
=============================================================================
