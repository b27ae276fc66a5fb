----------------------------- MODULE AiEvidence ------------------------------
(***************************************************************************)
(* The contract between the hardware stage and the models                  *)
(* (app/integration/adapters.py and evidence_features.py): when the results *)
(* of a hardware run may be given to the models, and what they are given.  *)
(*                                                                         *)
(* hw: the results of a run: completed, the stages it completed; capture   *)
(* and compared, the candidate trace it analysed and its digest; metrics;  *)
(* ratio, the structural delta or NONE; output, what the simulation told.  *)
(***************************************************************************)
EXTENDS HardwareRules

Stages == {"opentitan", "chipwhisperer", "yosys", "verilator", "sbom", "digital_twin"}

StagesVerified(hw) == Stages \subseteq hw.completed

(* The digest of the power trace must be the one ChipWhisperer reported,   *)
(* and its source the one of the samples analysed; the EM and timing       *)
(* traces are bound to nothing.                                            *)
TraceUsable(trace) == trace.source # "PHYSICAL_CAPTURE"

BoundToCapture(power, digest, hw) == digest = hw.compared /\ power.source = hw.capture.source

CountsSound(metrics) ==
  /\ metrics.cells > 0
  /\ Min({metrics.wires, metrics.wireBits, metrics.publicWires, metrics.memoryBits}) >= 0
  /\ metrics.publicWires <= metrics.wires

PufVerified(puf) == puf.passed /\ puf.source = "VERIFIED_PUF_STAGE"

-----------------------------------------------------------------------------
(* The features that only a reference or a simulation yields; NONE where   *)
(* they were not measured, which is not the same as zero.                  *)
NetlistDelta(hw) ==
  IF hw.ratio = NONE THEN NONE ELSE [hw.ratio EXCEPT !.over = Min({@, hw.ratio.of})]

FailedAssertions(hw) ==
  CASE "SIMULATION_ASSERTION_FAILURE" \in VerilatorReasons(hw.output) -> [count |-> 1, exact |-> FALSE]
    [] VerilatorReasons(hw.output) = {} -> [count |-> 0, exact |-> TRUE]
    [] OTHER -> NONE

SimulationFailure(hw) ==
  LET failed == FailedAssertions(hw)
  IN  IF failed = NONE \/ hw.output.assertions <= 0 THEN NONE
      ELSE [over |-> Min({failed.count, hw.output.assertions}), of |-> hw.output.assertions,
            exact |-> failed.exact]

Derived(schema) ==
  CASE schema = "1.0" -> {"yosys.gate_count", "yosys.unused_logic_ratio", "yosys.rare_net_count",
                          "yosys.netlist_delta_ratio"}
    [] schema = "2.0" -> {}
    [] schema = "2.1" -> {"yosys.netlist_delta_ratio", "verilator.failed_assertions"}

Unmeasured(hw) ==
  {"yosys.unused_logic_ratio", "yosys.rare_net_count", "yosys.gate_count"} \cup
  {f \in {"yosys.netlist_delta_ratio"} : NetlistDelta(hw) = NONE} \cup
  {f \in {"verilator.failed_assertions"} : SimulationFailure(hw) = NONE}

MissingFeatures(schema, hw, puf) ==
  (Derived(schema) \cap Unmeasured(hw)) \cup
  {f \in {"puf.verified_authentication"} : ~PufVerified(puf)}

(* The weighted share of verified classes of evidence, in hundredths.      *)
EvidenceQuality(hw, puf) ==
  LET share(verified, weight) == IF verified THEN weight ELSE 0
  IN  share("yosys" \in hw.completed, 15) + share("verilator" \in hw.completed, 15)
        + share("chipwhisperer" \in hw.completed, 15) + share("opentitan" \in hw.completed, 15)
        + share("digital_twin" \in hw.completed, 10) + share(PufVerified(puf), 20)
        + share(hw.ratio # NONE, 5)

(* What stands against giving a run to the models, digest being the power  *)
(* trace's: any of it raises an AdapterError and stops the run.            *)
Refusals(hw, power, digest, em, timing, puf, schema) ==
  Failing([HARDWARE_NOT_VERIFIED |-> ~StagesVerified(hw),
           TRACE_NOT_VALIDATED   |-> \E trace \in {power, em, timing} : ~TraceUsable(trace),
           POWER_TRACE_NOT_BOUND |-> ~BoundToCapture(power, digest, hw),
           COUNTS_NOT_SOUND      |-> ~CountsSound(hw.metrics),
           NO_ASSERTIONS         |-> hw.output.assertions <= 0,
           NO_STABILITY          |-> puf.stability < 0 \/ puf.stability > 1000])
  \cup MissingFeatures(schema, hw, puf)

(* The evidence and the controls that AIPipelineService.analyze receives.  *)
Evidence(hw, power, em, timing, puf) ==
  [power |-> power, em |-> em, timing |-> timing, delta |-> NetlistDelta(hw),
   failure |-> SimulationFailure(hw), quality |-> EvidenceQuality(hw, puf)]

Controls(hw, puf, schema) ==
  [fail_closed |-> TRUE, puf_authenticated |-> PufVerified(puf),
   hardware_ai_contract_complete |-> MissingFeatures(schema, hw, puf) = {},
   opentitan_verified |-> "opentitan" \in hw.completed,
   digital_twin_verified |-> "digital_twin" \in hw.completed]
=============================================================================
