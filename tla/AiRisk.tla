-------------------------------- MODULE AiRisk --------------------------------
(***************************************************************************)
(* What app/ai/risk_engine makes of the outputs of the models, and what    *)
(* the AI stage of the integrated pipeline makes of that.                  *)
(*                                                                         *)
(* models: base, the probability of the risk model; cnn and anomaly, score *)
(* and confidence of the classifier and of the autoencoder; all of them in *)
(* hundredths.  A fused risk is in ten thousandths, a confidence in        *)
(* millionths, so that no weight is rounded.                               *)
(***************************************************************************)
EXTENDS Integers, FiniteSetsExt

Set(controls, name) == name \in DOMAIN controls /\ controls[name]

(* fuse: the weighted risk, raised by what must not be outvoted.  Nothing  *)
(* in the pipeline sets the last two controls.                             *)
MandatoryControls ==
  {"puf_authenticated", "opentitan_verified", "digital_twin_verified",
   "hardware_ai_contract_complete"}

Fuse(models, controls) ==
  Max({45 * models.base + 30 * models.cnn.score + 25 * models.anomaly.score}
      \cup {9500 : name \in {n \in MandatoryControls : ~Set(controls, n)}}
      \cup {8000 : name \in {n \in {"sbom_mismatch"} : Set(controls, n)}}
      \cup {9000 : name \in {n \in {"custody_tampered"} : Set(controls, n)}})

Separation(risk) == Max({2 * risk - 10000, 10000 - 2 * risk})

ConfidenceScore(models, risk, quality) ==
  3000 * models.cnn.confidence + 2500 * models.anomaly.confidence
    + 25 * Separation(risk) + 2000 * quality

Classification(risk) ==
  CASE risk >= 6500                 -> "COMPROMISED"
    [] risk >= 3500 /\ risk < 6500 -> "SUSPICIOUS"
    [] OTHER                        -> "CLEAN"

DeploymentRecommendation(risk) ==
  CASE risk >= 6500                 -> "BLOCK"
    [] risk >= 3500 /\ risk < 6500 -> "MANUAL_REVIEW"
    [] OTHER                        -> "PROCEED_TO_COMPLIANCE"

(* RiskEngineService.decide                                                *)
Decide(models, controls, quality) ==
  LET risk == Fuse(models, controls)
  IN  [classification |-> Classification(risk), risk |-> risk,
       confidence |-> ConfidenceScore(models, risk, quality),
       recommendation |-> DeploymentRecommendation(risk)]

(* run_ai_pipeline: the stage looks at the class and at the risk.  The     *)
(* classes it denies are the classifier's labels and older words.          *)
DeniedLabels == {"TROJAN", "TAMPERED", "MALICIOUS", "CRITICAL_ANOMALY", "DENIED", "QUARANTINED"}

AiPassed(decision) == decision.classification \notin DeniedLabels /\ decision.risk < 8500

(* What compliance is told, in hundredths like its thresholds.             *)
Told(decision) == [risk |-> decision.risk \div 100, confidence |-> decision.confidence \div 10000]
=============================================================================
