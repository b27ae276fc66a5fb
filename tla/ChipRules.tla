------------------------------ MODULE ChipRules ------------------------------
(***************************************************************************)
(* What the platform concludes from a chip's simulation file: the security *)
(* gate, the AI profile of its scenario, supplier risk, export control and *)
(* compliance policy.  A file is a record of the facts the rules look at;  *)
(* ratios and scores are in hundredths.                                    *)
(*                                                                         *)
(* Definitions headed "Fault:" are plausible bugs the properties notice.   *)
(***************************************************************************)
EXTENDS Integers

Limit(x) == IF x < 0 THEN 0 ELSE IF x > 100 THEN 100 ELSE x

(* What the rules may find in a file.                                      *)
SupplierFacts ==
  [country : Int, custody : Int, certificate : Int, sbom : Int, threat : Int,
   counterfeit : Int, distress : Int]

ChipFacts ==
  [json : BOOLEAN, chip : BOOLEAN, scenario : STRING,
   authentication : BOOLEAN, stability : Int, hamming : Int, rootOfTrust : BOOLEAN,
   twinMatch : BOOLEAN, sbomMatch : BOOLEAN, custodyGap : Int, sbomMismatch : Int,
   simulation : BOOLEAN, simulationFailure : Int, rareNets : Int, netlistDelta : Int,
   usml : BOOLEAN, military : BOOLEAN, defense : BOOLEAN,
   eccn : {"other", "controlled", "none"},
   restricted : BOOLEAN, prohibited : BOOLEAN, militaryUser : BOOLEAN,
   party : {"CLEAR", "POSSIBLE_MATCH", "MATCH"}, supplier : SupplierFacts, fabric : BOOLEAN]

(* A file in which nothing speaks against the chip.  json: it can be read; *)
(* chip: it names its chip; usml: it gives a category of the munitions     *)
(* list; military: the flag or a telling word; fabric: the Fabric result   *)
(* the file itself expects is a COMMIT_.                                   *)
Clean ==
  [json |-> TRUE, chip |-> TRUE, scenario |-> "GOOD_CHIP",
   authentication |-> TRUE, stability |-> 100, hamming |-> 0, rootOfTrust |-> TRUE,
   twinMatch |-> TRUE, sbomMatch |-> TRUE, custodyGap |-> 0, sbomMismatch |-> 0,
   simulation |-> TRUE, simulationFailure |-> 0, rareNets |-> 0, netlistDelta |-> 0,
   usml |-> FALSE, military |-> FALSE, defense |-> FALSE, eccn |-> "other",
   restricted |-> FALSE, prohibited |-> FALSE, militaryUser |-> FALSE, party |-> "CLEAR",
   supplier |-> [country |-> 10, custody |-> 0, certificate |-> 0, sbom |-> 0,
                 threat |-> 0, counterfeit |-> 0, distress |-> 0],
   fabric |-> TRUE]

-----------------------------------------------------------------------------
(* _permanent_rejection: scenarios the orchestrator refuses unseen.        *)
PermanentRejection(s) ==
  s.scenario \in {"COUNTERFEIT_CHIP", "SANCTIONED_MANUFACTURER", "FAKE_BLOCKCHAIN_PROVENANCE"}

RejectionStage(s) ==
  CASE s.scenario = "COUNTERFEIT_CHIP"        -> "COUNTERFEIT_AND_CERTIFICATE_VERIFICATION"
    [] s.scenario = "SANCTIONED_MANUFACTURER" -> "RESTRICTED_PARTY_SCREENING"
    [] OTHER                                  -> "BLOCKCHAIN_PROVENANCE_RECONCILIATION"

(* evaluate_simulation_gate: the first gate that fails, in pipeline order. *)
SimulationGate(s) ==
  CASE ~s.authentication \/ s.stability < 85 \/ s.hamming > 20 -> "PUF_AUTHENTICATION"
    [] ~s.rootOfTrust -> "OPENTITAN"
    [] ~s.twinMatch \/ ~s.sbomMatch \/ s.custodyGap > 20 \/ s.sbomMismatch > 10 ->
         "DIGITAL_TWIN_AND_SBOM"
    [] ~s.simulation \/ s.simulationFailure > 2 \/ s.rareNets > 10 \/ s.netlistDelta > 10 ->
         "HARDWARE_TROJAN_ANALYSIS"
    [] OTHER -> "PASSED"

(* Fault: the classification is taken for the decision.                    *)
GateClassification(gate) ==
  CASE gate = "PUF_AUTHENTICATION"    -> "PUF_AUTHENTICATION_FAILED"
    [] gate = "DIGITAL_TWIN_AND_SBOM" -> "SUPPLY_CHAIN_TAMPERED"
    [] gate = "PASSED"                -> "SECURITY_GATES_PASSED"
    [] OTHER                          -> "HARDWARE_TROJAN"

GateDecision(gate) ==
  CASE gate = "PUF_AUTHENTICATION"    -> "HOLD_FOR_RETEST_OR_REJECT"
    [] gate = "DIGITAL_TWIN_AND_SBOM" -> "DENIED_AND_INCIDENT_RESPONSE_OPENED"
    [] gate = "PASSED"                -> "CONTINUE_TO_COMPLIANCE"
    [] OTHER                          -> "DENIED_AND_QUARANTINED"

-----------------------------------------------------------------------------
(* The AI result the terminal hands to compliance: a table by scenario.    *)
Profile(risk, confidence) == [risk |-> risk, confidence |-> confidence]

(* simulated_ai_result, of the scan command.                               *)
SimulatedAiResult(s) ==
  CASE s.scenario = "GOOD_CHIP"              -> Profile(8, 96)
    [] s.scenario = "HARDWARE_TROJAN"        -> Profile(98, 99)
    [] s.scenario = "WEAK_PUF"               -> Profile(99, 99)
    [] s.scenario = "SUPPLY_CHAIN_TAMPERING" -> Profile(91, 97)
    [] s.scenario = "HIGH_RISK_SUPPLIER"     -> Profile(20, 92)
    [] OTHER                                 -> Profile(75, 40)

(* _ai_result, of the orchestrator.                                        *)
AiResult(s) ==
  CASE s.scenario = "HARDWARE_TROJAN"        -> Profile(99, 99)
    [] s.scenario = "SUPPLY_CHAIN_TAMPERING" -> Profile(97, 98)
    [] OTHER                                 -> SimulatedAiResult(s)

-----------------------------------------------------------------------------
(* SupplierRiskEngine.evaluate, in ten thousandths; the weights add up.    *)
SupplierRisk(f, ai) ==
  15 * Limit(f.country) + 15 * Limit(f.custody) + 10 * Limit(f.certificate)
    + 15 * Limit(f.sbom) + 15 * Limit(f.threat) + 10 * Limit(f.counterfeit)
    + 5 * Limit(f.distress) + 15 * Limit(ai.risk)

Itar(item) ==
  CASE item.usml -> "ITAR_CONTROLLED" [] item.military -> "POTENTIALLY_ITAR"
    [] OTHER -> "NOT_INDICATED"

Ear(item, tx) ==
  CASE tx.prohibited                     -> "PROHIBITED_END_USE"
    [] tx.restricted \/ tx.militaryUser  -> "LICENSE_REQUIRED"
    [] item.eccn = "controlled"          -> "LICENSE_REVIEW"
    [] item.eccn = "none"                -> "EAR99_CANDIDATE"
    [] OTHER                             -> "ECCN_REVIEWED"

(* ExportControlEngine.evaluate                                            *)
ExportControl(item, tx, party) ==
  CASE party = "MATCH" \/ tx.prohibited -> "DENIED"
    [] Itar(item) = "ITAR_CONTROLLED" \/ Ear(item, tx) \in {"LICENSE_REQUIRED", "LICENSE_REVIEW"} ->
         "LICENSE_REQUIRED"
    [] \/ Itar(item) = "POTENTIALLY_ITAR" \/ party = "POSSIBLE_MATCH"
       \/ Ear(item, tx) = "EAR99_CANDIDATE" -> "MANUAL_REVIEW"
    [] OTHER -> "APPROVED"

(* PolicyEngine.decide                                                     *)
PolicyDecision(export, supplierRisk, ai) ==
  CASE export = "DENIED" \/ ai.risk >= 80                  -> "DENIED"
    [] export = "LICENSE_REQUIRED"                         -> "LICENSE_REQUIRED"
    [] supplierRisk >= 6000                                -> "HOLD"
    [] ai.confidence < 60 \/ export = "MANUAL_REVIEW"      -> "MANUAL_REVIEW"
    [] OTHER                                               -> "APPROVED"

Recommendation(decision) ==
  CASE decision = "APPROVED" -> "DEPLOY"
    [] decision = "DENIED"   -> "BLOCK"
    [] OTHER                 -> "DO_NOT_DEPLOY_PENDING_REVIEW"

(* The request to compliance, as the orchestrator and scan write it.       *)
Payload(s, ai, anchor) ==
  [item        |-> [usml |-> s.usml, military |-> s.military, defense |-> s.defense,
                    eccn |-> s.eccn],
   transaction |-> [restricted |-> s.restricted, prohibited |-> s.prohibited,
                    militaryUser |-> s.militaryUser],
   party |-> s.party, supplier |-> s.supplier, ai |-> ai, anchor |-> anchor]

CompliancePayload(s, anchor)      == Payload(s, AiResult(s), anchor)
BuildCompliancePayload(s, anchor) == Payload(s, SimulatedAiResult(s), anchor)

(* The decision of ComplianceService.evaluate.                             *)
Compliance(p) ==
  PolicyDecision(ExportControl(p.item, p.transaction, p.party), SupplierRisk(p.supplier, p.ai), p.ai)

-----------------------------------------------------------------------------
(* Written down without the order the code asks in: every reason there is  *)
(* not to deploy a chip.                                                   *)
Objections(s) ==
  {why \in {"identity", "root of trust", "supply chain", "trojan", "scenario", "party",
            "end use", "licence", "classification", "supplier"} :
    CASE why = "identity"       -> ~(s.authentication /\ s.stability >= 85 /\ s.hamming <= 20)
      [] why = "root of trust"  -> ~s.rootOfTrust
      [] why = "supply chain"   -> ~(s.twinMatch /\ s.sbomMatch)
                                     \/ s.custodyGap > 20 \/ s.sbomMismatch > 10
      [] why = "trojan"         -> ~s.simulation \/ s.simulationFailure > 2
                                     \/ s.rareNets > 10 \/ s.netlistDelta > 10
      [] why = "scenario"       -> s.scenario \notin {"GOOD_CHIP", "HIGH_RISK_SUPPLIER"}
      [] why = "party"          -> s.party # "CLEAR"
      [] why = "end use"        -> s.prohibited
      [] why = "licence"        -> s.usml \/ s.restricted \/ s.militaryUser
                                     \/ s.eccn = "controlled"
      [] why = "classification" -> s.military \/ s.eccn = "none"
      [] why = "supplier"       -> SupplierRisk(s.supplier, AiResult(s)) >= 6000}
=============================================================================
