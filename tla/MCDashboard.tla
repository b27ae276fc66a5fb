----------------------------- MODULE MCDashboard ------------------------------
(* Instances of Dashboard for TLC.  Each scan has a script of its own, and *)
(* a scenario lets some of them happen.                                    *)
EXTENDS Dashboard

CONSTANTS w1, w2, cli, deployed, denied, trojan, held, licence, doubtful, unseen

VARIABLE scenario

Running(failed) == [NoRun EXCEPT !.status = "RUNNING", !.failed = failed]
Ended(status, decision, quarantined, recommendation, risk, failed) ==
  [status |-> status, decision |-> decision, quarantined |-> quarantined,
   recommendation |-> recommendation, risk |-> risk, failed |-> failed]

Received    == Event("scan.accepted", "RECEIVED")
Promised(d) == [Received EXCEPT !.expected = d]
Compliance(status) == Event("compliance.completed", status)

(* deployed: every stage passed.  denied: the PUF failed, before any risk  *)
(* was measured, of a chip that was expected to be deployed.  trojan: a    *)
(* later stage found a low risk and stopped the run.  held: a person is to *)
(* look at it.  licence: so it is, but the blockchain was out of reach.    *)
(* doubtful: the export rules ask for a review, the policy denies.         *)
Scripts ==
  [s \in Scans |->
    CASE s = deployed -> <<Received, Compliance("PASSED")>>
      [] s = denied   -> <<Promised("DEPLOY"), Event("stage.failed", "FAILED")>>
      [] s = trojan   -> <<Received, Event("stage.completed", "PASSED")>>
      [] s = held     -> <<Received, Compliance("HOLD")>>
      [] s = licence  -> <<Received, Event("export_control.completed", "LICENSE_REQUIRED")>>
      [] s = doubtful -> <<Received, Event("export_control.completed", "MANUAL_REVIEW")>>
      [] OTHER        -> <<Received, Event("stage.started", "STARTED")>>]

Saves ==
  [s \in Scans |->
    CASE s = deployed ->
           <<Running(<<FALSE>>),
             Ended("COMPLETED", "DEPLOY", FALSE, "DEPLOY", 5, <<FALSE, FALSE>>)>>
      [] s = denied ->
           <<Running(<<>>),
             Ended("STOPPED", "HOLD_FOR_RETEST_OR_REJECT", TRUE, NONE, NONE, <<TRUE>>)>>
      [] s = trojan ->
           <<Running(<<FALSE>>),
             Ended("STOPPED", "DENIED_AND_QUARANTINED", TRUE, NONE, 10, <<FALSE, TRUE>>)>>
      [] s = held ->
           <<Ended("MANUAL_REVIEW", "DO_NOT_DEPLOY_PENDING_REVIEW", FALSE,
                   "DO_NOT_DEPLOY_PENDING_REVIEW", 65, <<FALSE>>)>>
      [] s = licence ->
           <<[Running(<<FALSE>>) EXCEPT !.recommendation = "DO_NOT_DEPLOY_PENDING_REVIEW",
                                        !.risk = 65],
             Ended("INFRASTRUCTURE_HOLD", "HOLD_PENDING_BLOCKCHAIN_RECOVERY", FALSE,
                   "DO_NOT_DEPLOY_PENDING_REVIEW", 65, <<FALSE>>)>>
      [] s = doubtful ->
           <<Ended("STOPPED", "DENIED_AND_QUARANTINED", TRUE,
                   "DO_NOT_DEPLOY_PENDING_REVIEW", 40, <<FALSE>>)>>
      [] OTHER -> <<>>]

Exists(list) ==
  /\ recent = list
  /\ log = [s \in Scans |-> IF s \in Known(list) THEN 1 ELSE 0]
  /\ snapshot = log

NoRequests == requests' = requests
NoBrowser  == ~loaded' /\ saved' = saved /\ appends' = appends
NoFault    == drops' + failures' + tries' = 0
OneFault   == drops' + failures' + tries' <= 1

(* The appends under way are in the server; a scan goes on, and refreshes  *)
(* begin, once the page is connected.                                      *)
InServer   == \A a \in appends' : a.here
Watched    == wire' # NONE \/ UNCHANGED <<requests, log, saved, refresh>>

Requests(list) == \A t \in Threads : call'[t].scan \in list \cup {NONE}
Still          == now' = 0 /\ day' = 1 /\ diskFaults' = 0

(* "rate":   ill-formed submissions to two threads, as the clock ticks.    *)
(* "submit": two submissions of one scan, by a thread and a process, over  *)
(*           midnight, with an audit write that falls short or fails.      *)
(* "arrive": the server accepts a scan under the eyes of a page.           *)
(* "two":    two scans emit events, one of them in the server, the other   *)
(*           in a process of its own, and one scan is hydrated.            *)
(* a scan:   that scan is under way in the server; denied may also be in a *)
(*           process of its own, or else one fault strikes.                *)
Within ==
  \/ /\ scenario = "rate" /\ NoBrowser /\ day' = 1 /\ diskFaults' = 0
     /\ log' = log /\ Requests({unseen}) /\ pc'[cli] = "idle"
     /\ \A t \in Threads : pc'[t] # "append" /\ call'[t].code # 409
  \/ /\ scenario = "submit" /\ NoBrowser /\ now' = 0 /\ requests' <= 2
     /\ Requests({unseen}) /\ pc'[w2] = "idle" /\ (log' # log => pc' # pc)
  \/ /\ scenario = "arrive" /\ Still /\ requests' <= 1 /\ saved' = saved
     /\ pc'[w2] = "idle" /\ pc'[cli] = "idle" /\ NoFault /\ Requests({unseen})
     /\ InServer /\ Watched
  \/ /\ scenario = "two" /\ NoRequests /\ Still /\ NoFault /\ Watched /\ saved' = saved
     /\ \A a \in appends' : a.here <=> a.scan = deployed
  \/ /\ scenario \in Scans /\ NoRequests /\ Still /\ OneFault
     /\ scenario # denied => NoFault /\ Watched
     /\ InServer \/ (scenario = denied /\ NoFault)

Scenarios == {"rate", "submit", "arrive", "two"} \cup (Scans \ {unseen})

MCInit ==
  /\ scenario \in Scenarios
  /\ IF scenario \in Scans THEN Exists(<<scenario>>)
     ELSE IF scenario = "two" THEN Exists(<<deployed, denied>>)
     ELSE Exists(<<>>)
  /\ ServerRest /\ PageInit

MCNext == Next /\ Within /\ UNCHANGED scenario

(* Nobody opens the page where the scenario has none.                      *)
MCFairSpec ==
  /\ MCInit /\ [][MCNext]_<<vars, scenario>>
  /\ ServerFairness
  /\ WF_<<loaded, refresh, hydration>>(scenario \notin {"rate", "submit"} /\ RefreshStep)
  /\ WF_wire(Deliver)
=============================================================================
