---------------------------- MODULE RankingLedger ----------------------------
(***************************************************************************)
(* What the ranking pipeline promises about one class and session, with no *)
(* queue, worker, handler or transaction in sight: a ledger of snapshot    *)
(* versions 1, 2, 3, ... in which a new version and the lock appear in one *)
(* step and nothing already written ever changes, a lock that can be taken *)
(* away, one audit row per generation, and readers that are served some    *)
(* version of the ledger, not always the last one.                         *)
(***************************************************************************)
EXTENDS Naturals, Sequences

VARIABLES
  ledger,     \* the versions of the snapshots, oldest first
  locked,     \* the ranking is locked
  generated,  \* audit rows for generations
  served      \* the version readers get from the cache, 0 when there is none

vars == <<ledger, locked, generated, served>>

Init ==
  /\ ledger = <<>>
  /\ locked = FALSE
  /\ generated = 0
  /\ served = 0

Generate ==
  /\ ledger' = Append(ledger, Len(ledger) + 1)
  /\ locked' = TRUE
  /\ generated' = generated + 1
  /\ UNCHANGED served

\* Unlocking a ranking that is not locked, or does not exist yet, stutters.
Unlock ==
  /\ locked' = FALSE
  /\ UNCHANGED <<ledger, generated, served>>

Serve ==
  /\ served' \in 0 .. Len(ledger)
  /\ UNCHANGED <<ledger, locked, generated>>

Next == Generate \/ Unlock \/ Serve

Spec == Init /\ [][Next]_vars
=============================================================================
