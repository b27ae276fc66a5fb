--------------------------- MODULE MCPipelineRuns ----------------------------
(* Instances of PipelineRuns for TLC.  A run explores several scenarios    *)
(* side by side: each spends the bounds of the configuration on something  *)
(* else.                                                                   *)
EXTENDS PipelineRuns, TLC

CONSTANTS f1, f2

VARIABLE scenario

(* One fact of a file changed, to either side of its bound.                *)
Supplier(country) ==
  [country |-> country, custody |-> 100, certificate |-> 100, sbom |-> 100,
   threat |-> 120, counterfeit |-> 0, distress |-> 0]

Variation(s, i) ==
  CASE i = 1 -> s
    [] i = 2 -> [s EXCEPT !.fabric = FALSE]
    [] i = 3 -> [s EXCEPT !.sbomMatch = FALSE]
    [] i = 4 -> [s EXCEPT !.authentication = FALSE]
    [] i = 5 -> [s EXCEPT !.rootOfTrust = FALSE]
    [] i = 6 -> [s EXCEPT !.twinMatch = FALSE]
    [] i = 7 -> [s EXCEPT !.simulation = FALSE]
    [] i = 8 -> [s EXCEPT !.usml = TRUE]
    [] i = 9 -> [s EXCEPT !.military = TRUE]
    [] i = 10 -> [s EXCEPT !.defense = TRUE]
    [] i = 11 -> [s EXCEPT !.restricted = TRUE]
    [] i = 12 -> [s EXCEPT !.prohibited = TRUE]
    [] i = 13 -> [s EXCEPT !.militaryUser = TRUE]
    [] i = 14 -> [s EXCEPT !.stability = 84]
    [] i = 15 -> [s EXCEPT !.stability = 85]
    [] i = 16 -> [s EXCEPT !.hamming = 20]
    [] i = 17 -> [s EXCEPT !.hamming = 21]
    [] i = 18 -> [s EXCEPT !.custodyGap = 20]
    [] i = 19 -> [s EXCEPT !.custodyGap = 21]
    [] i = 20 -> [s EXCEPT !.sbomMismatch = 10]
    [] i = 21 -> [s EXCEPT !.sbomMismatch = 11]
    [] i = 22 -> [s EXCEPT !.simulationFailure = 2]
    [] i = 23 -> [s EXCEPT !.simulationFailure = 3]
    [] i = 24 -> [s EXCEPT !.rareNets = 10]
    [] i = 25 -> [s EXCEPT !.rareNets = 11]
    [] i = 26 -> [s EXCEPT !.netlistDelta = 10]
    [] i = 27 -> [s EXCEPT !.netlistDelta = 11]
    [] i = 28 -> [s EXCEPT !.eccn = "none"]
    [] i = 29 -> [s EXCEPT !.eccn = "controlled"]
    [] i = 30 -> [s EXCEPT !.party = "POSSIBLE_MATCH"]
    [] i = 31 -> [s EXCEPT !.party = "MATCH"]
    [] i = 32 -> [s EXCEPT !.supplier = Supplier(13)]
    [] i = 33 -> [s EXCEPT !.supplier = Supplier(14)]
    [] i = 34 -> [s EXCEPT !.supplier = Supplier(25)]
    [] i = 36 -> [s EXCEPT !.json = FALSE]
    [] i = 37 -> [s EXCEPT !.chip = FALSE]
    [] i = 35 -> [s EXCEPT !.supplier = Supplier(26)]

Scenarios ==
  {"GOOD_CHIP", "HIGH_RISK_SUPPLIER", "HARDWARE_TROJAN", "WEAK_PUF", "SUPPLY_CHAIN_TAMPERING",
   "COUNTERFEIT_CHIP", "SANCTIONED_MANUFACTURER", "FAKE_BLOCKCHAIN_PROVENANCE", "UNKNOWN"}

AllContents == Scenarios \X (1..37)
AllFacts    == [c \in AllContents |-> Variation([Clean EXCEPT !.scenario = c[1]], c[2])]

Good        == <<"GOOD_CHIP", 1>>
Counterfeit == <<"COUNTERFEIT_CHIP", 1>>
FewContents == {"GOOD_CHIP"} \X (1..3)

Sorted  == <<f1, f2>>
AllDirectories == {(f1 :> c) @@ (f2 :> Good) : c \in AllContents}

Alone(q)      == \A p \in Procs : pc'[p] # "idle" => p = q
OneFile       == \A p \in Procs : Len(call'[p].todo) <= 1
Single        == \A p \in Procs : call'[p].todo \in {<<>>, <<f1>>}
NoScans       == \A p \in Procs : call'[p].kind # "scan"
Fresh         == \A p \in Procs : pc[p] = "idle" /\ pc'[p] # "idle" => scan = [r \in Runs |-> NONE]
First         == CHOOSE p \in Procs : TRUE

(* Nobody starts a command that could not submit a scan any more.          *)
RunsLeft == \A p \in Procs : pc[p] = "idle" /\ pc'[p] # "idle" => Free \cap (1..2) # {}

(* "rules": one command on one file, for every content.                    *)
(* "race":  two processes run one file, which is edited meanwhile, between *)
(*          their two reads of it too, and an operator resumes.            *)
(* "batch": one process at a time, a directory of two files, without       *)
(*          Ethereum.                                                      *)
Within ==
  \/ scenario = "rules" /\ Alone(First) /\ Single /\ Fresh /\ edits' = 0 /\ faults' = 0
  \/ scenario = "race" /\ Single /\ NoScans /\ RunsLeft /\ scan'[3] = NONE
  \/ /\ scenario = "batch" /\ Alone(First) /\ file' = file
     /\ \A p \in Procs : call'[p].kind = "scan" => Len(call'[p].todo) > 1 \/ pc[p] # "idle"

MCInit ==
  /\ Init
  /\ \/ scenario = "rules"
     \/ scenario = "race" /\ ethereum /\ file[f1] = Good
     \/ scenario = "batch" /\ ~ethereum /\ file[f1] = Counterfeit

MCNext == Next /\ Within /\ UNCHANGED scenario

(* A process gets on with its command; an operator who finds runs that are *)
(* not completed resumes one when a terminal is free.                      *)
MCFairness ==
  /\ \A p \in Procs : WF_vars(scenario = "race" /\ Step(p))
  /\ WF_vars(/\ scenario = "race" /\ Free \cap (1..2) # {}
             /\ \E p \in Procs, r \in Runs : ResumeScan(p, r))

MCFairSpec == MCInit /\ [][MCNext]_<<vars, scenario>> /\ MCFairness

(* Under an operator who resumes what was not completed, a run of a chip   *)
(* nothing speaks against, once begun, leads to a completed run of it,     *)
(* after finitely many faults, unless its file is edited.                  *)
RunsRecover ==
  scenario = "race" /\ (\E r \in Runs : disk[r] # NONE) ~>
    edits > 0 \/ \E r \in Runs : disk[r] # NONE /\ disk[r].status = "COMPLETED"
=============================================================================
