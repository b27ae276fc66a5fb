-------------------------- MODULE MCPufChallenges ----------------------------
(* Instances of PufChallenges for TLC.  A run explores two scenarios side  *)
(* by side: each spends the bounds of the configuration on something else. *)
EXTENDS PufChallenges, TLC

CONSTANTS FirstProc, FirstDevice

VARIABLE scenario

(* "race":  a device is enrolled, then two threads issue and authenticate  *)
(*          with it; it is enrolled anew, or a call dies or writes short.  *)
(* "enrol": enrolments of two devices race with other calls.               *)
Within ==
  \/ /\ scenario = "race" /\ enrolments' + faults' <= 2
     /\ \A p \in Procs : call'[p].device \in {FirstDevice, NONE}
     /\ profile[FirstDevice] = 0 => /\ now' = 0 /\ faults' = 0
                                    /\ \A p \in Procs \ {FirstProc} : pc'[p] = "idle"
                                    /\ enrolments' <= 1
  \/ scenario = "enrol" /\ calls' <= 4 /\ now' <= 1 /\ faults' = 0

MCInit     == Init /\ scenario \in {"race", "enrol"}
MCNext     == Next /\ Within /\ UNCHANGED scenario
MCSpec     == MCInit /\ [][MCNext]_<<vars, scenario>>
MCFairSpec == MCSpec /\ Fairness
=============================================================================
