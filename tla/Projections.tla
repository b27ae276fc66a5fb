---------------------------- MODULE Projections ------------------------------
(***************************************************************************)
(* What a scan looks like to a reader: the summary the REST API makes of   *)
(* an event journal and a run file (app/api/routes/scan_queries.py), and   *)
(* what the browser makes of such summaries and of single events           *)
(* (app/dashboard/static/js/dashboard.js).  No state, only rules.          *)
(*                                                                         *)
(* A view is a summary cut down to what the status and the risk shown      *)
(* depend on.  Words are compared in the code by substring; the sets below *)
(* hold the words this system writes, sorted by the test they meet.        *)
(***************************************************************************)
EXTENDS Integers, Sequences, FiniteSets

CONSTANTS
  NONE,
  Statuses  \* the words an event may give as its status

Review      == {"LICENSE_REQUIRED", "DO_NOT_DEPLOY_PENDING_REVIEW",
                "DO_NOT_DEPLOY_PENDING_LICENSE_AND_HUMAN_REVIEW"}
Approving   == {"DEPLOY", "APPROVED", "APPROVED_FOR_CRITICAL_INFRASTRUCTURE"}
Quarantining == {"DENIED_AND_QUARANTINED"}
Refusing    == {"BLOCK", "HOLD_FOR_RETEST_OR_REJECT", "REJECTED_PERMANENTLY",
                "DENIED_AND_INCIDENT_RESPONSE_OPENED"}
Words       == Review \cup Approving \cup Quarantining \cup Refusing
                 \cup {"HOLD_PENDING_BLOCKCHAIN_RECOVERY"}
RunStatuses == {"RUNNING", "COMPLETED", "STOPPED", "REJECTED", "MANUAL_REVIEW",
                "INFRASTRUCTURE_HOLD"}

(* An event as the projections read it, and one saved state of a run.      *)
(* "failed" says of each stage of the run whether it stopped the run.      *)
Event(type, status) == [type |-> type, status |-> status, expected |-> NONE]
NoRun == [status |-> NONE, decision |-> NONE, quarantined |-> FALSE,
          recommendation |-> NONE, risk |-> NONE, failed |-> <<>>]

Events == [type : STRING, status : Statuses \cup {NONE}, expected : Words \cup {NONE}]

(* The run files the pipelines write: one that waits for a person has a    *)
(* decision that says so, and one on hold for its blockchain a status.     *)
RunStates ==
  {run \in [status : RunStatuses, decision : Words \cup {NONE}, quarantined : BOOLEAN,
            recommendation : Words \cup {NONE}, risk : Int \cup {NONE},
            failed : Seq(BOOLEAN)] :
     /\ run.status = "MANUAL_REVIEW" => run.decision \in Review
     /\ run.decision = "HOLD_PENDING_BLOCKCHAIN_RECOVERY" => run.status = "INFRASTRUCTURE_HOLD"}

(* What the page may show, and the views it is taken from.                 *)
ShownStatuses ==
  Statuses \cup RunStatuses
    \cup {"UNKNOWN", "PROCESSING", "APPROVED", "REJECTED", "QUARANTINED", "FAILED"}

Views == [status : ShownStatuses, decision : Words \cup {NONE}, quarantined : BOOLEAN,
          recommendation : Words \cup {NONE}, risk : Int \cup {NONE}]

First(a, b) == IF a # NONE THEN a ELSE b

(* Scores are in hundredths: a score of one, and one percent.  A score     *)
(* that is null in a summary or a view is read as the number 0 and stands  *)
(* as 0 here; NONE is a score that is not there at all.                    *)
Whole == 100

-----------------------------------------------------------------------------
(* statusOf: the one word shown for a scan.  A hold for a person outranks  *)
(* a quarantine, and both outrank every other decision.                    *)
StatusOf(view) ==
  LET decision == First(view.decision, view.recommendation)
      stopped  == view.status \in {"STOPPED", "FAILED"}
  IN  IF view.status \in {"MANUAL_REVIEW", "LICENSE_REQUIRED"} \/ decision \in Review
      THEN "MANUAL_REVIEW"
      ELSE IF view.quarantined THEN "QUARANTINED"
      ELSE IF decision \in Approving THEN "APPROVED"
      ELSE IF decision \in Quarantining \/ view.status = "QUARANTINED" THEN "QUARANTINED"
      ELSE IF decision \in Refusing \/ stopped THEN "REJECTED"
      ELSE IF view.status = NONE THEN "UNKNOWN" ELSE view.status

(* normalizeScore: a share of one is taken for a percentage, and nothing   *)
(* lies outside of those.                                                  *)
Normalized(score) ==
  LET percentage == IF 0 <= score /\ score <= Whole THEN 100 * score ELSE score
  IN  CASE percentage < 0 -> 0 [] percentage > 100 * Whole -> 100 * Whole
        [] OTHER -> percentage

MeasuredRisk(view) == IF view.risk = NONE THEN NONE ELSE Normalized(view.risk)

(* effectiveRisk: a refused chip has the risk its refusal implies, however *)
(* early it was stopped.                                                   *)
DecisionRisk(status) ==
  CASE status = "REJECTED" -> 100 * Whole [] status = "QUARANTINED" -> 99 * Whole
    [] status = "MANUAL_REVIEW" -> 60 * Whole [] OTHER -> NONE

EffectiveRisk(view) ==
  LET implied  == DecisionRisk(StatusOf(view))
      measured == MeasuredRisk(view)
  IN  IF implied = NONE \/ measured = NONE THEN First(measured, implied)
      ELSE IF measured > implied THEN measured ELSE implied

(* One of the scans the tile HIGH-RISK ACTIVE counts.                      *)
HighRisk(view) ==
  /\ EffectiveRisk(view) # NONE /\ EffectiveRisk(view) >= 70 * Whole
  /\ StatusOf(view) # "APPROVED"

-----------------------------------------------------------------------------
(* The server: the snapshot of a journal, and the same overlaid with what  *)
(* the run file says.                                                      *)
Snapshot(event) ==
  [status |-> First(event.status, "UNKNOWN"), decision |-> NONE, quarantined |-> FALSE,
   recommendation |-> NONE, risk |-> NONE]

Enriched(event, run) ==
  IF run = NoRun THEN Snapshot(event)
  ELSE [status |-> run.status, decision |-> run.decision, quarantined |-> run.quarantined,
        recommendation |-> run.recommendation, risk |-> First(run.risk, 0)]

-----------------------------------------------------------------------------
(* mergeIntegratedRun: the browser lays a run over a summary once more.    *)
MergedRun(view, run) ==
  IF run = NoRun THEN view
  ELSE [status |-> First(run.status, view.status),
        decision |-> First(run.decision, view.decision),
        quarantined |-> run.quarantined \/ view.quarantined,
        recommendation |-> run.recommendation, risk |-> First(run.risk, 0)]

(* { ...cached, ...meta }: a list entry without a run leaves alone what an *)
(* earlier hydration knew of the decision.                                 *)
Overlaid(cached, entry, run) ==
  IF cached = NONE \/ run # NoRun THEN entry ELSE [cached EXCEPT !.status = entry.status]

(* What the accepted scan itself said the outcome should be, if its event  *)
(* is among those shown.                                                   *)
Expected(events) ==
  LET accepted == {e \in events : e.type = "scan.accepted"}
  IN  IF accepted = {} THEN NONE ELSE (CHOOSE e \in accepted : TRUE).expected

(* deriveScan: the view the page shows.  Without a decision it takes the   *)
(* recommendation of the policy, and without that the expected one.        *)
Derived(view, events) ==
  LET decision == First(First(view.decision, view.recommendation), Expected(events))
      decided  == [view EXCEPT !.decision = decision,
                     !.quarantined = @ \/ decision \in Quarantining]
  IN  [decided EXCEPT !.risk = First(EffectiveRisk(view), 0), !.status = StatusOf(decided)]

(* The status that the kind of an event stands for.                        *)
EventStatus(event) ==
  CASE event.type = "deployment.approved" -> "APPROVED"
    [] event.type = "deployment.rejected" -> "REJECTED"
    [] event.type = "chip.quarantined"    -> "QUARANTINED"
    [] event.type = "stage.failed"        -> "FAILED"
    [] OTHER                              -> event.status

(* mergeSocketEvent: an event changes the status and keeps the rest.       *)
SocketView(existing, event) ==
  LET known == IF existing = NONE THEN Snapshot(Event("none", NONE)) ELSE existing
      old   == IF existing = NONE THEN "PROCESSING" ELSE existing.status
  IN  [known EXCEPT !.status = First(EventStatus(event), old)]
=============================================================================
