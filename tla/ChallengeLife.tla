---------------------------- MODULE ChallengeLife ----------------------------
(***************************************************************************)
(* What the challenge ledger promises (docstring of ChallengeLedger): a    *)
(* challenge goes from absent to issued to consumed, and never back.       *)
(***************************************************************************)
CONSTANT Challenges
VARIABLE stage      \* stage[c]: "absent", "issued" or "consumed"

Init == stage = [c \in Challenges |-> "absent"]

Issue(c) ==
  /\ stage[c] = "absent"
  /\ stage' = [stage EXCEPT ![c] = "issued"]

Consume(c) ==
  /\ stage[c] = "issued"
  /\ stage' = [stage EXCEPT ![c] = "consumed"]

Next == \E c \in Challenges : Issue(c) \/ Consume(c)

Spec == Init /\ [][Next]_stage
=============================================================================
