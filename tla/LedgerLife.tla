----------------------------- MODULE LedgerLife ------------------------------
(***************************************************************************)
(* What the ledgers promise of a scan: Fabric commits it, then its anchor  *)
(* on Ethereum is attached, and neither is ever taken back.                *)
(***************************************************************************)
CONSTANT Scans
VARIABLE stage      \* stage[s]: "unknown", "committed" or "anchored"

Init == stage = [s \in Scans |-> "unknown"]

Commit(s) ==
  /\ stage[s] = "unknown"
  /\ stage' = [stage EXCEPT ![s] = "committed"]

Anchor(s) ==
  /\ stage[s] = "committed"
  /\ stage' = [stage EXCEPT ![s] = "anchored"]

Next == \E s \in Scans : Commit(s) \/ Anchor(s)

Spec == Init /\ [][Next]_stage
=============================================================================
