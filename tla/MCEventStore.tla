---------------------------- MODULE MCEventStore -----------------------------
(* Instances of EventStore for TLC.  A run explores several scenarios side *)
(* by side: each spends the bounds of the configuration on something else. *)
EXTENDS EventStore, TLC

CONSTANTS Scenarios, FirstScan, FirstStatus

VARIABLE scenario

Symmetry == Permutations(Writers)

Alone       == \A p, q \in Procs : pc'[p] # "idle" /\ pc'[q] # "idle" => p = q
OneScan     == \A w \in Writers : call'[w].scan \in {FirstScan, NONE}
OneStatus   == \A w \in Writers : call'[w].status \in {FirstStatus, NONE}

(* "turn":    two threads append to one scan over the turn of a month.     *)
(* "rebuild": a rebuild runs beside two threads that append.               *)
(* "alone":   calls for two scans, one after the other.                    *)
Within ==
  \/ scenario = "turn" /\ OneScan /\ OneStatus /\ appends' <= 3 /\ rebuilds' = 0
  \/ scenario = "rebuild" /\ OneScan /\ appends' <= 2 /\ month' = 1
  \/ scenario = "alone" /\ Alone /\ rebuilds' = 0 /\ month' = 1

MCInit     == Init /\ scenario \in Scenarios
MCNext     == Next /\ Within /\ UNCHANGED scenario
MCSpec     == MCInit /\ [][MCNext]_<<vars, scenario>>
MCFairSpec == MCSpec /\ Fairness

(* What one writer at a time may count on.  With a second one, or a        *)
(* rebuild beside it, the projections can stay behind their journals.      *)

(* When no two calls overlap, the snapshot and scan_index show the last    *)
(* event of each journal once the calls are over.                          *)
LatestAlone == scenario = "alone" => SnapshotLatest /\ IndexLatest
=============================================================================
