--------------------------- MODULE HardwareRules ----------------------------
(***************************************************************************)
(* What the stages of app/hardware conclude from what they measured: the   *)
(* attestation verifier, Yosys, the side-channel analysis, Verilator, the  *)
(* SBOM and the digital twin.  A verdict is the set of reasons against the *)
(* chip; the stage passes when it is empty.  Ratios and correlations are   *)
(* in thousandths; a digest is the content it was computed from.           *)
(***************************************************************************)
EXTENDS Integers, FiniteSets, FiniteSetsExt

CONSTANT NONE  \* what is not there, or was not measured

(* The checks (a record of booleans, named for the reason) that object.    *)
Failing(checks) == {reason \in DOMAIN checks : checks[reason]}

-----------------------------------------------------------------------------
(* The adapters are not built with a configuration that would disarm them. *)
VerifierSound(p) ==
  /\ p.trustedFirmware # {} /\ "zero" \notin p.trustedFirmware /\ p.allowedStates # {}
  /\ p.minimumCounter >= 0 /\ p.minimumNonce >= 16 /\ p.maximumAge >= 1 /\ p.maximumSkew >= 0

AnalysisSound(p) == "PHYSICAL_CAPTURE" \notin p.allowedSources

TwinAttributes ==
  {"chip_id", "puf_identity_hash", "rtl_digest", "netlist_digest", "firmware_digest", "sbom_digest"}

FieldsSound(fields) == fields # {} /\ fields \subseteq TwinAttributes

-----------------------------------------------------------------------------
(* OpenTitan.  e: the evidence; p: the verifier's configuration.           *)
NonceValid(nonce, p) ==
  /\ nonce.hexadecimal /\ nonce.digits % 2 = 0
  /\ nonce.digits \div 2 \in p.minimumNonce..64

TimestampChecks(e, now, p) ==
  LET future == e.stamp > now + p.maximumSkew
  IN  [ATTESTATION_FROM_FUTURE |-> future,
       STALE_ATTESTATION |-> ~future /\ now - e.stamp > p.maximumAge]

AttestationReasons(e, now, p) ==
  Failing(TimestampChecks(e, now, p)) \cup
  Failing([INVALID_DEVICE_ID            |-> ~e.named,
           INVALID_DIGEST               |-> ~e.digested,
           LIFECYCLE_STATE_NOT_ALLOWED  |-> e.lifecycle \notin p.allowedStates,
           UNTRUSTED_FIRMWARE           |-> e.firmware \notin p.trustedFirmware,
           ROLLBACK_COUNTER             |-> e.counter < p.minimumCounter,
           INVALID_ATTESTATION_NONCE    |-> ~NonceValid(e.nonce, p),
           CERTIFICATE_CHAIN_UNVERIFIED |-> e.chain,
           INVALID_ATTESTATION_SIGNATURE |-> ~e.signed])

-----------------------------------------------------------------------------
(* Yosys.  Metrics of a netlist: counts and cellTypes, cells by type.      *)
YosysReasons(metrics, p) ==
  Failing([CELLS_LIMIT_EXCEEDED       |-> metrics.cells > p.maximumCells,
           WIRE_BITS_LIMIT_EXCEEDED   |-> metrics.wireBits > p.maximumWireBits,
           MEMORY_BITS_LIMIT_EXCEEDED |-> metrics.memoryBits > p.maximumMemoryBits,
           FORBIDDEN_CELL_TYPE        |-> p.forbidden \cap DOMAIN metrics.cellTypes # {},
           REQUIRED_CELL_TYPE_MISSING |-> ~(p.required \subseteq DOMAIN metrics.cellTypes)])

FamilyCount(metrics, family) ==
  LET types == family \cap DOMAIN metrics.cellTypes
  IN  MapThenSumSet(LAMBDA type : metrics.cellTypes[type], types)

Apart(a, b) == Max({a - b, b - a})
Added(a, b) == Max({0, b - a})

StructuralDelta(reference, candidate, p) ==
  [cells       |-> Apart(reference.cells, candidate.cells),
   wireBits    |-> Apart(reference.wireBits, candidate.wireBits),
   publicWires |-> Apart(reference.publicWires, candidate.publicWires),
   sequential  |-> Added(FamilyCount(reference, p.sequential), FamilyCount(candidate, p.sequential)),
   control     |-> Added(FamilyCount(reference, p.control), FamilyCount(candidate, p.control))]

(* Reported to the reviewers and to the model, never a reason to fail.     *)
StructuralReasons(reference, candidate, p) ==
  LET delta == StructuralDelta(reference, candidate, p)
  IN  {measure \in DOMAIN delta : delta[measure] > p.maximumDelta[measure]}

(* The share of cells by which the candidate departs from the reference,   *)
(* of the larger of the two; kept as a fraction.                           *)
DeltaRatio(reference, candidate) ==
  [over |-> Apart(reference.cells, candidate.cells),
   of   |-> Max({1, reference.cells, candidate.cells})]

-----------------------------------------------------------------------------
(* The side-channel traces.  likeness: how the candidate compares with the *)
(* reference (correlation, high-frequency share, departure from unit       *)
(* deviation, the latter two within 0..1000).                              *)
Anomaly(likeness) ==
  Max({0, Min({1000,
    (550 * (1000 - likeness.correlation) + 250 * likeness.high + 200 * likeness.spread) \div 1000})})

TraceReasons(likeness, p) ==
  Failing([LOW_REFERENCE_CORRELATION |-> likeness.correlation < 700,
           SIDE_CHANNEL_ANOMALY      |-> Anomaly(likeness) > p.anomalyThreshold])

SourceAllowed(trace, p) == trace.source # "PHYSICAL_CAPTURE" /\ trace.source \in p.allowedSources

-----------------------------------------------------------------------------
(* Verilator.  output: what the testbench printed; a summary line that is  *)
(* missing counts as -1.                                                   *)
VerilatorReasons(output) ==
  Failing([SIMULATION_ASSERTION_FAILURE |-> output.failed,
           ASSERTION_SUMMARY_MISSING    |-> output.assertions = -1,
           ASSERTION_COUNT_INSUFFICIENT |-> output.assertions = 0,
           CYCLE_SUMMARY_MISSING        |-> output.cycles = -1,
           CYCLE_COUNT_INSUFFICIENT     |-> output.cycles = 0,
           RESET_COMPLETION_MISSING     |-> ~output.reset,
           REQUIRED_CHECKS_MISSING      |-> ~output.checks,
           PASS_MARKER_MISSING          |-> ~output.marker])

-----------------------------------------------------------------------------
(* The digest of the canonical document is a function of the chip and of   *)
(* the contents of the artefacts, not of time, path or serial number.      *)
DocumentDigest(chip, artifacts) == [chip |-> chip, artifacts |-> artifacts]

-----------------------------------------------------------------------------
(* The digital twin against the evidence of a run, over the fields that    *)
(* the configuration names.                                                *)
TwinReasons(twin, evidence, fields) ==
  {<<field, "ABSENT_FROM_EVIDENCE">> : field \in fields \ DOMAIN evidence} \cup
  {<<field, "MISMATCH">> : field \in {f \in fields \cap DOMAIN evidence : twin[f] # evidence[f]}}
=============================================================================
