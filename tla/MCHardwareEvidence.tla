-------------------------- MODULE MCHardwareEvidence --------------------------
(* Instances of HardwareEvidence for TLC: designs to either side of the    *)
(* policy's bounds, and scenarios that each spend the bounds of the        *)
(* configuration on something else.                                        *)
EXTENDS HardwareEvidence

CONSTANTS m1, m2, r1, r2

VARIABLE scenario

Netlist(cells) ==
  [cells |-> cells, wires |-> 8, wireBits |-> 20, publicWires |-> 4, memoryBits |-> 0,
   cellTypes |-> [t \in {"$dff", "$mux"} |-> cells \div 2]]

Passes == [failed |-> FALSE, assertions |-> 4, cycles |-> 30, reset |-> TRUE, checks |-> TRUE,
           marker |-> TRUE]

Made(metrics, output) == [metrics |-> metrics, output |-> output]

(* edge: at every bound.  large, latch, unlike: beyond one.  failing,      *)
(* silent: the testbench fails, or says nothing.  empty: no cells.         *)
AllDesigns == {"clean", "edge", "large", "latch", "unlike", "failing", "silent", "empty"}

AllDesign ==
  [d \in AllDesigns |->
    CASE d = "edge"    -> Made(Netlist(10), [Passes EXCEPT !.assertions = 1, !.cycles = 1])
      [] d = "large"   -> Made(Netlist(11), Passes)
      [] d = "latch"   -> Made([Netlist(8) EXCEPT !.cellTypes = [t \in {"$dlatch"} |-> 8]], Passes)
      [] d = "failing" -> Made(Netlist(8), [Passes EXCEPT !.failed = TRUE])
      [] d = "silent"  -> Made(Netlist(8), [Passes EXCEPT !.assertions = -1, !.marker = FALSE])
      [] d = "empty"   -> Made(Netlist(0), Passes)
      [] OTHER         -> Made(Netlist(8), Passes)]

AllLikeness ==
  [pair \in AllDesigns \X AllDesigns |->
    CASE pair[1] = pair[2]  -> [correlation |-> 900, high |-> 200, spread |-> 300]
      [] "unlike" \in {pair[1], pair[2]} -> [correlation |-> 699, high |-> 0, spread |-> 0]
      [] OTHER -> [correlation |-> 700, high |-> 500, spread |-> 300]]

Configured ==
  [maximumSkew |-> 0, maximumAge |-> 2, allowedStates |-> {"DEV", "PROD", "PROD_END"},
   trustedFirmware |-> {"simulated"}, minimumCounter |-> 0, minimumNonce |-> 16,
   maximumCells |-> 10, maximumWireBits |-> 20, maximumMemoryBits |-> 0,
   forbidden |-> {"$dlatch"}, required |-> {}, sequential |-> {"$dff", "$dlatch"}, control |-> {"$mux"},
   maximumDelta |-> [cells |-> 2, wireBits |-> 24, publicWires |-> 2, sequential |-> 1, control |-> 3],
   anomalyThreshold |-> 350, allowedSources |-> {"SIMULATED_TRACE"}]

(* calm; suspicious, to be blocked, too risky for policy and for the AI     *)
(* stage, each at its bound; and models that are not sure.                 *)
Output(level, confidence) ==
  [base |-> level, cnn |-> [score |-> level, confidence |-> confidence],
   anomaly |-> [score |-> level, confidence |-> confidence]]

AllOutputs == {Output(level, 95) : level \in {4, 35, 65, 80, 85}} \cup {Output(4, 10)}

(* What the theorems about causes and mints assume of a configuration.     *)
ASSUME ConfigurationAdmits == AllMatched /\ AdmitsMinted

Calm ==
  \A r \in Runs : run'[r].ai # NONE /\ run'[r].ai.decision # NONE =>
    run'[r].ai.decision.classification = "CLEAN" /\ run'[r].ai.decision.confidence > 600000

TwinFields == {"chip_id", "puf_identity_hash", "rtl_digest", "netlist_digest", "firmware_digest",
               "sbom_digest"}

Apart1(p, q) == pc'[q] # "idle" => pc[p] \in Over \ {"idle"} \/ pc[q] # "idle"
InTurn       == (pc'[m2] # "idle" => pc'[m1] # "idle") /\ (pc'[r2] # "idle" => pc'[r1] # "idle")
Usual        == \A m \in Mints : mint'[m].attempts = 0
Responsive   == \A m \in Mints : mint'[m].envelope # NONE => mint'[m].envelope.matches
Without(p)   == pc'[p] = "idle"

(* "replay":  two runs of what one mint has made, as time passes.          *)
(* "race":    two mints, one after the other, and two runs.                *)
(* "remint":  a mint may die, then another one, and a run.                 *)
(* "overlap": two mints at once, and a run.                                *)
(* "edit":    the same one after the other, with an edit at any time.      *)
(* "undo":    a mint and a run, with two edits, the second of which may    *)
(*            take the first one back.                                     *)
(* "designs": one mint and one run of every design, with every output.     *)
(* In "race", "overlap", "edit" and "undo" every device responds as it should. *)
Within ==
  /\ InTurn
  /\ scenario = "designs" \/ Calm
  /\ scenario \in {"replay", "remint", "designs"} \/ Responsive
  /\ \/ scenario = "replay" /\ Without(m2) /\ Usual /\ edits' = 0
     \/ scenario = "race" /\ Apart1(m1, m2) /\ Usual /\ edits' = 0 /\ faults' = 0 /\ clock' = 0
     \/ scenario = "remint" /\ Apart1(m1, m2) /\ Usual /\ Without(r2) /\ edits' = 0 /\ clock' = 0
     \/ scenario = "overlap" /\ Usual /\ Without(r2) /\ edits' = 0 /\ faults' = 0 /\ clock' = 0
     \/ scenario = "edit" /\ Apart1(m1, m2) /\ Usual /\ Without(r2) /\ faults' = 0 /\ clock' = 0
        /\ edits' < 2 /\ rtl' \in {"clean", "edge", "failing"}
     \/ scenario = "undo" /\ Without(m2) /\ Usual /\ Without(r2) /\ faults' = 0 /\ clock' = 0
        /\ rtl' \in {"clean", "edge", "failing"}
     \/ scenario = "designs" /\ Without(m2) /\ Without(r2) /\ edits' = 0 /\ faults' = 0 /\ clock' = 0

MCInit ==
  /\ Init
  /\ \/ scenario \in {"replay", "race", "remint", "overlap", "edit", "undo"} /\ specific /\ rtl = "clean"
     \/ scenario = "designs"

MCNext == Next /\ Within /\ UNCHANGED scenario

(* FairSpec, within the scenario.                                          *)
MCFairSpec == MCInit /\ [][MCNext]_<<vars, scenario>> /\ WF_vars(Work /\ Within)
=============================================================================
