-------------------------- MODULE StopEventLedger --------------------------
(***************************************************************************)
(* What the event store promises (domain.EventStore in                     *)
(* internal/domain/interfaces.go), whoever writes to it and in whatever    *)
(* order: a ledger of what was observed of each stop of each trip.         *)
(*                                                                         *)
(* An entry is [basis, seen, ts, frozen]: the schedule it is compared      *)
(* with, the observation it holds, that observation's feed timestamp, and  *)
(* whether it is history.  A step may move any number of entries, since a  *)
(* snapshot is written as one batch.                                       *)
(***************************************************************************)
EXTENDS Naturals

VARIABLE ledger   \* a function from the keys observed so far to their entries

\* An open entry takes a strictly newer observation; its basis stays.
Advances(old, new) ==
    /\ ~old.frozen /\ ~new.frozen
    /\ new.basis = old.basis
    /\ new.ts > old.ts

\* An open entry becomes history: it keeps the observation it holds.
Freezes(old, new) ==
    /\ ~old.frozen /\ new.frozen
    /\ <<new.basis, new.seen, new.ts>> = <<old.basis, old.seen, old.ts>>

Init == ledger = << >>

Next ==
    /\ DOMAIN ledger \subseteq DOMAIN ledger'
    /\ \A k \in DOMAIN ledger :
         \/ ledger'[k] = ledger[k]
         \/ Advances(ledger[k], ledger'[k])
         \/ Freezes(ledger[k], ledger'[k])
    /\ \A k \in DOMAIN ledger' \ DOMAIN ledger : ~ledger'[k].frozen

Spec == Init /\ [][Next]_ledger
=============================================================================
