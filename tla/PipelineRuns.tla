---------------------------- MODULE PipelineRuns -----------------------------
(***************************************************************************)
(* The terminal: the manage.py commands that put simulation files through  *)
(* the platform (scan, scan-all, pipeline-run, pipeline-all, resume-scan), *)
(* Phase3Orchestrator.run, and the files PipelineRuntimeStore keeps.       *)
(*                                                                         *)
(* Every command is a process of its own.  A run lives in the memory of    *)
(* its process; its file is written twice, after ingestion and at the end. *)
(* The store's lock covers one operation, never a run.  Operators edit     *)
(* simulation files.  A file's content stands for its SHA-256 too.         *)
(*                                                                         *)
(* What compliance and the gate conclude is computed by ChipRules; what    *)
(* recording on the ledgers promises is LedgerLife's.  An error of the     *)
(* infrastructure, a death and a save that fails are counted as faults;    *)
(* so is a ledger that does not answer, or Fabric switched off.            *)
(*                                                                         *)
(* Definitions headed "Fault:" are plausible bugs the properties notice.   *)
(***************************************************************************)
EXTENDS Naturals, Sequences, ChipRules

CONSTANTS
  Procs,        \* terminal processes
  Files,        \* simulation files
  Order,        \* Order: the files of a directory, sorted by name
  Contents,     \* contents a file may have
  Facts,        \* Facts[c]: what content c says of its chip
  Directories,  \* what the files hold at first
  Edits,        \* contents an operator may put into a file
  MaxRuns,      \* bound on accepted scans
  MaxFaults,    \* bound on deaths and infrastructure errors
  MaxEdits,     \* bound on edits of files
  NONE

ASSUME TerminalAssumption ==
  /\ Order \in Seq(Files) /\ Order # <<>>
  /\ Facts \in [Contents -> ChipFacts]
  /\ Directories \subseteq [Files -> Contents] /\ Edits \subseteq Contents
  /\ MaxRuns \in Nat /\ MaxFaults \in Nat /\ MaxEdits \in Nat

Runs == 1..MaxRuns

VARIABLES
  file,       \* file[f]: what simulation file f holds
  scan,       \* scan[r]: the content submitted with scan r, or NONE
  disk,       \* disk[r]: run.json of scan r, or NONE
  index,      \* index[h]: the run registered for hash h
  refused,    \* refused[r]: the decision in the quarantine record of r, or NONE
  evaluated,  \* evaluated[r]: the decision in the compliance file of r, or NONE
  ledger,     \* ledger[r]: what the ledgers hold of scan r
  pc,         \* pc[p]: the step p takes next
  call,       \* call[p]: p's command and its local variables
  ethereum,   \* whether the platform is configured to anchor on Ethereum
  mixed,      \* the scans of commands whose file was edited between its two reads
  faults, edits

stores == <<scan, disk, index, refused, evaluated, ledger>>
vars   == <<file, stores, pc, call, ethereum, mixed, faults, edits>>

-----------------------------------------------------------------------------
(* kind: which family of commands; todo: files still to do; stop: give up  *)
(* at the first failure; comply, anchor: --no-compliance, --(no-)anchor;   *)
(* error: the blockchain_error of compliance's answer; edited: the file    *)
(* was edited between the two reads.                                       *)
NoCall ==
  [kind |-> "none", todo |-> <<>>, force |-> FALSE, stop |-> TRUE, from |-> NONE,
   comply |-> TRUE, anchor |-> NONE, sim |-> NONE, hash |-> NONE, edited |-> FALSE,
   id |-> 0, run |-> NONE, error |-> FALSE]

Init ==
  /\ file \in Directories
  /\ scan = [r \in Runs |-> NONE] /\ disk = scan /\ refused = scan /\ evaluated = scan
  /\ index = <<>>
  /\ ledger = [r \in Runs |-> "unknown"]
  /\ pc = [p \in Procs |-> "idle"]
  /\ call = [p \in Procs |-> NoCall]
  /\ ethereum \in BOOLEAN /\ mixed = {}
  /\ faults = 0 /\ edits = 0

Goto(p, to) == pc' = [pc EXCEPT ![p] = to]
At(p, step) == pc[p] = step

Source(p) == Head(call[p].todo)

End(p) == Goto(p, "idle") /\ call' = [call EXCEPT ![p] = NoCall]

(* The loop of command_pipeline_all and command_scan_all.                  *)
NextFile(p) ==
  IF Len(call[p].todo) = 1 THEN End(p)
  ELSE /\ Goto(p, "read")
       /\ call' = [call EXCEPT ![p] = [NoCall EXCEPT
                     !.kind = call[p].kind, !.todo = Tail(call[p].todo),
                     !.force = call[p].force, !.stop = call[p].stop,
                     !.comply = call[p].comply, !.anchor = call[p].anchor]]

(* The call for one file raises: a batch goes on unless told to stop.      *)
Raise(p) == IF call[p].stop THEN End(p) ELSE NextFile(p)

Fault == faults < MaxFaults /\ faults' = faults + 1

-----------------------------------------------------------------------------
(* Commands.                                                               *)

Begin(p, c) ==
  /\ At(p, "idle")
  /\ call' = [call EXCEPT ![p] = c]
  /\ Goto(p, "read")
  /\ UNCHANGED <<file, stores, faults, edits, ethereum, mixed>>

PipelineRun(p, f, force) ==
  Begin(p, [NoCall EXCEPT !.kind = "run", !.todo = <<f>>, !.force = force])

PipelineAll(p, force, stop) ==
  Begin(p, [NoCall EXCEPT !.kind = "run", !.todo = Order, !.force = force, !.stop = stop])

Scan(p, f, comply, anchor) ==
  Begin(p, [NoCall EXCEPT !.kind = "scan", !.todo = <<f>>, !.comply = comply, !.anchor = anchor])

ScanAll(p, comply, anchor, stop) ==
  Begin(p, [NoCall EXCEPT !.kind = "scan", !.todo = Order, !.comply = comply,
                          !.anchor = anchor, !.stop = stop])

(* Fault: what was interrupted is not taken up, only what was refused.     *)
ResumeFinished(p, r) ==
  /\ disk[r] # NONE /\ disk[r].status \notin {"COMPLETED", "RUNNING"}
  /\ Begin(p, [NoCall EXCEPT !.kind = "run", !.todo = <<disk[r].source>>,
                             !.force = TRUE, !.from = r])

(* resume: an unfinished or refused run is done again, as a new run.       *)
ResumeScan(p, r) ==
  /\ disk[r] # NONE /\ disk[r].status # "COMPLETED"
  /\ Begin(p, [NoCall EXCEPT !.kind = "run", !.todo = <<disk[r].source>>,
                             !.force = TRUE, !.from = r])

-----------------------------------------------------------------------------
(* The file is read twice: for its JSON, then for its hash.                *)
ReadFile(p) ==
  /\ At(p, "read")
  /\ IF Facts[file[Source(p)]].json
     THEN call' = [call EXCEPT ![p].sim = file[Source(p)]] /\ Goto(p, "hash")
     ELSE Raise(p)
  /\ UNCHANGED <<file, stores, faults, edits, ethereum, mixed>>

HashFile(p) ==
  /\ At(p, "hash")
  /\ call' = [call EXCEPT ![p].hash = file[Source(p)]]
  /\ Goto(p, IF call[p].kind = "run" THEN "find" ELSE "submit")
  /\ UNCHANGED <<file, stores, faults, edits, ethereum, mixed>>

(* find_by_file_hash                                                       *)
FindByHash(p) ==
  /\ At(p, "find")
  /\ Goto(p, IF call[p].hash \in DOMAIN index /\ ~call[p].force THEN "replay" ELSE "submit")
  /\ UNCHANGED <<file, stores, call, faults, edits, ethereum, mixed>>

Healthy(run) == \A i \in 1..Len(run.stages) :
  run.stages[i] # <<"BLOCKCHAIN", "INFRASTRUCTURE_ERROR">>

(* The earlier run is the answer if it was completed and its BLOCKCHAIN    *)
(* stage was not broken by the infrastructure.                             *)
Replay(p) ==
  LET previous == disk[index[call[p].hash]]
  IN  /\ At(p, "replay")
      /\ IF previous.status = "COMPLETED" /\ Healthy(previous)
         THEN NextFile(p)
         ELSE Goto(p, "submit") /\ UNCHANGED call
      /\ UNCHANGED <<file, stores, faults, edits, ethereum, mixed>>

(* _scan_submission makes the request of the content; a file that names no *)
(* chip cannot be submitted.                                               *)
Unnamed(p) ==
  /\ At(p, "submit") /\ ~Facts[call[p].sim].chip
  /\ Raise(p)
  /\ UNCHANGED <<file, stores, faults, edits, ethereum, mixed>>

(* POST /api/v1/scans: every submission is a scan of its own.  The request *)
(* may fail before its event is appended or after.                         *)
Free == {r \in Runs : scan[r] = NONE}

Submit(p) ==
  LET r == CHOOSE q \in Free : TRUE
  IN  /\ At(p, "submit") /\ Facts[call[p].sim].chip /\ Free # {}
      /\ scan' = [scan EXCEPT ![r] = call[p].sim]
      /\ mixed' = IF call[p].edited THEN mixed \cup {r} ELSE mixed
      /\ \/ /\ call' = [call EXCEPT ![p].id = r]
            /\ Goto(p, IF call[p].kind = "run" THEN "ingest" ELSE "gate")
            /\ UNCHANGED faults
         \/ Fault /\ Raise(p)
      /\ UNCHANGED <<file, disk, index, refused, evaluated, ledger, edits, ethereum>>

SubmitFails(p) ==
  /\ At(p, "submit") /\ Facts[call[p].sim].chip
  /\ Fault /\ Raise(p)
  /\ UNCHANGED <<file, stores, edits, ethereum, mixed>>

NewRun(p) ==
  [source |-> Source(p), hash |-> call[p].hash, status |-> "RUNNING", stopped |-> NONE,
   from |-> call[p].from, stages |-> <<<<"INGESTION", "PASSED">>>>, decision |-> NONE,
   quarantined |-> FALSE]

SaveRun(p, run) == disk' = [disk EXCEPT ![call[p].id] = run]

(* The INGESTION stage has passed: the first save.                         *)
Ingest(p) ==
  /\ At(p, "ingest")
  /\ SaveRun(p, NewRun(p))
  /\ call' = [call EXCEPT ![p].run = NewRun(p)]
  /\ Goto(p, "gate")
  /\ UNCHANGED <<file, scan, index, refused, evaluated, ledger, faults, edits, ethereum, mixed>>

-----------------------------------------------------------------------------
(* PRE_COMPLIANCE_SECURITY_GATES.  The scan command asks the gate only.    *)
Refuse(p, status, stage, decision, quarantined) ==
  LET run == call[p].run
  IN  /\ call' = [call EXCEPT
           ![p].run = [run EXCEPT
             !.status = status, !.stopped = stage, !.decision = decision,
             !.quarantined = quarantined, !.stages = Append(run.stages, <<stage, "FAILED">>)]]
      /\ Goto(p, "quarantine")

Gate(p) ==
  LET sim  == Facts[call[p].sim]
      gate == SimulationGate(sim)
  IN  /\ At(p, "gate") /\ call[p].kind = "run"
      /\ IF PermanentRejection(sim)
         THEN Refuse(p, "REJECTED", RejectionStage(sim), "REJECTED_PERMANENTLY", FALSE)
         ELSE IF gate # "PASSED" THEN Refuse(p, "STOPPED", gate, GateDecision(gate), TRUE)
         ELSE /\ call' = [call EXCEPT ![p].run.stages =
                             Append(@, <<"PRE_COMPLIANCE_SECURITY_GATES", "PASSED">>)]
              /\ Goto(p, "evaluate")
      /\ UNCHANGED <<file, stores, faults, edits, ethereum, mixed>>

ScanGate(p) ==
  /\ At(p, "gate") /\ call[p].kind = "scan"
  /\ IF SimulationGate(Facts[call[p].sim]) = "PASSED" /\ call[p].comply
     THEN Goto(p, "evaluate") /\ UNCHANGED call
     ELSE NextFile(p)
  /\ UNCHANGED <<file, stores, faults, edits, ethereum, mixed>>

(* Whether the scan is to be recorded on the ledgers: an option of scan,   *)
(* else what the file expects of itself (scenario_should_anchor).          *)
MustAnchor(p) == IF call[p].anchor = NONE THEN Facts[call[p].sim].fabric ELSE call[p].anchor

Request(p) ==
  IF call[p].kind = "run" THEN CompliancePayload(Facts[call[p].sim], MustAnchor(p))
  ELSE BuildCompliancePayload(Facts[call[p].sim], MustAnchor(p))

(* POST /compliance/evaluate, which decides, notes it in the journal and   *)
(* reports; it may fail on the way.                                        *)
Evaluate(p) ==
  /\ At(p, "evaluate")
  /\ \/ Goto(p, IF Request(p).anchor THEN "anchor" ELSE "decide") /\ UNCHANGED <<call, faults>>
     \/ Fault /\ Raise(p)
  /\ UNCHANGED <<file, stores, edits, ethereum, mixed>>

(* What a scan is on the ledgers once record_scan has returned: without    *)
(* Ethereum in the configuration it ends with the commit to Fabric, and    *)
(* that is a success too.                                                  *)
Recorded == IF ethereum THEN "anchored" ELSE "committed"

(* Its record_scan: an exception, after whichever ledger took the scan,    *)
(* becomes the blockchain_error of the result.                             *)
Anchor(p) ==
  /\ At(p, "anchor")
  /\ \/ /\ ledger' = [ledger EXCEPT ![call[p].id] = Recorded]
        /\ UNCHANGED <<call, faults>>
     \/ /\ Fault
        /\ \E s \in {"unknown", "committed", Recorded} :
             ledger' = [ledger EXCEPT ![call[p].id] = s]
        /\ call' = [call EXCEPT ![p].error = TRUE]
  /\ Goto(p, "decide")
  /\ UNCHANGED <<file, scan, disk, index, refused, evaluated, edits, ethereum, mixed>>

(* The decision's file is written and the response sent.                   *)
WriteDecision(p) ==
  /\ At(p, "decide")
  /\ \/ /\ evaluated' = [evaluated EXCEPT ![call[p].id] = Compliance(Request(p))]
        /\ IF call[p].kind = "run" THEN Goto(p, "deploy") /\ UNCHANGED call ELSE NextFile(p)
        /\ UNCHANGED faults
     \/ Fault /\ Raise(p) /\ UNCHANGED evaluated
  /\ UNCHANGED <<file, scan, disk, index, refused, ledger, edits, ethereum, mixed>>

ComplianceStage(decision) ==
  <<"SUPPLIER_RISK_AND_COMPLIANCE",
    CASE decision = "APPROVED" -> "PASSED" [] decision = "LICENSE_REQUIRED" -> "MANUAL_REVIEW"
      [] OTHER -> "FAILED">>

BlockchainStage(p) ==
  <<"BLOCKCHAIN",
    CASE call[p].error -> "INFRASTRUCTURE_ERROR" [] ~Request(p).anchor -> "SKIPPED"
      [] OTHER -> "PASSED">>

(* Fault: the blockchain's outcome does not count.                         *)
VerdictUnanchored(decision, failedClosed) ==
  CASE decision = "APPROVED" -> [status |-> "COMPLETED", stopped |-> NONE, stage |-> "PASSED"]
    [] decision = "LICENSE_REQUIRED" ->
         [status |-> "MANUAL_REVIEW", stopped |-> "DEPLOYMENT_DECISION", stage |-> "MANUAL_REVIEW"]
    [] OTHER -> [status |-> "STOPPED", stopped |-> "DEPLOYMENT_DECISION", stage |-> "FAILED"]

Verdict(decision, failedClosed) ==
  CASE failedClosed ->
         [status |-> "INFRASTRUCTURE_HOLD", stopped |-> "BLOCKCHAIN", stage |-> "BLOCKED"]
    [] ~failedClosed /\ decision = "APPROVED" ->
         [status |-> "COMPLETED", stopped |-> NONE, stage |-> "PASSED"]
    [] ~failedClosed /\ decision = "LICENSE_REQUIRED" ->
         [status |-> "MANUAL_REVIEW", stopped |-> "DEPLOYMENT_DECISION", stage |-> "MANUAL_REVIEW"]
    [] OTHER -> [status |-> "STOPPED", stopped |-> "DEPLOYMENT_DECISION", stage |-> "FAILED"]

(* DEPLOYMENT_DECISION                                                     *)
Deploy(p) ==
  LET run          == call[p].run
      decision     == evaluated[call[p].id]
      failedClosed == Request(p).anchor /\ call[p].error
      verdict      == Verdict(decision, failedClosed)
  IN  /\ At(p, "deploy")
      /\ call' = [call EXCEPT ![p].run =
           [run EXCEPT
              !.status = verdict.status, !.stopped = verdict.stopped,
              !.decision = IF failedClosed THEN "HOLD_PENDING_BLOCKCHAIN_RECOVERY"
                           ELSE Recommendation(decision),
              !.quarantined = verdict.status = "STOPPED",
              !.stages = run.stages \o <<ComplianceStage(decision), BlockchainStage(p),
                                         <<"DEPLOYMENT_DECISION", verdict.stage>>>>]]
      /\ Goto(p, IF verdict.status = "STOPPED" THEN "quarantine" ELSE "save")
      /\ UNCHANGED <<file, stores, faults, edits, ethereum, mixed>>

-----------------------------------------------------------------------------
(* The end of a run: the record of a refusal, the file, the index.         *)

(* Fault: the record of a refusal is skipped for a repeated run.           *)
QuarantineFirst(p) ==
  /\ At(p, "quarantine")
  /\ refused' = IF call[p].run.from # NONE THEN refused
                ELSE [refused EXCEPT ![call[p].id] = call[p].run.decision]
  /\ Goto(p, "save")
  /\ UNCHANGED <<file, scan, disk, index, evaluated, ledger, call, faults, edits, ethereum, mixed>>

Quarantine(p) ==
  /\ At(p, "quarantine")
  /\ refused' = [refused EXCEPT ![call[p].id] = call[p].run.decision]
  /\ Goto(p, "save")
  /\ UNCHANGED <<file, scan, disk, index, evaluated, ledger, call, faults, edits, ethereum, mixed>>

(* The entry of a hash in index.json, made or replaced.                    *)
Entered(h, r) == [g \in DOMAIN index \cup {h} |-> IF g = h THEN r ELSE index[g]]

(* Fault: the run is registered before its file is written.                *)
SaveAndRegister(p) ==
  /\ At(p, "save")
  /\ index' = Entered(call[p].hash, call[p].id)
  /\ \/ SaveRun(p, call[p].run) /\ Goto(p, "register")
     \/ UNCHANGED disk /\ Goto(p, "save")
  /\ UNCHANGED <<file, scan, refused, evaluated, ledger, call, faults, edits, ethereum, mixed>>

SaveResult(p) ==
  /\ At(p, "save")
  /\ SaveRun(p, call[p].run)
  /\ Goto(p, "register")
  /\ UNCHANGED <<file, scan, index, refused, evaluated, ledger, call, faults, edits, ethereum, mixed>>

(* Fault: the file is hashed again when the run is over.                   *)
RegisterAnew(p) ==
  /\ At(p, "register")
  /\ index' = Entered(file[Source(p)], call[p].id)
  /\ NextFile(p)
  /\ UNCHANGED <<file, scan, disk, refused, evaluated, ledger, faults, edits, ethereum, mixed>>

(* register_file_hash: the last run of a hash to finish answers for it.    *)
Register(p) ==
  /\ At(p, "register")
  /\ index' = Entered(call[p].hash, call[p].id)
  /\ NextFile(p)
  /\ UNCHANGED <<file, scan, disk, refused, evaluated, ledger, faults, edits, ethereum, mixed>>

(* The process dies, or a save fails: nothing is taken back.               *)
Die(p) ==
  /\ ~At(p, "idle")
  /\ Fault
  /\ \/ End(p)
     \/ pc[p] \in {"ingest", "quarantine", "save", "register"} /\ Raise(p)
  /\ UNCHANGED <<file, stores, edits, ethereum, mixed>>

(* An operator edits a file, whatever the commands are doing with it.      *)
Edit(f, c) ==
  /\ edits < MaxEdits /\ edits' = edits + 1 /\ c # file[f]
  /\ file' = [file EXCEPT ![f] = c]
  /\ call' = [p \in Procs |->
                IF At(p, "hash") /\ Source(p) = f THEN [call[p] EXCEPT !.edited = TRUE]
                ELSE call[p]]
  /\ UNCHANGED <<stores, pc, faults, ethereum, mixed>>

(* The parser: the commands and their options.                             *)
Command(p) ==
  \/ \E force \in BOOLEAN :
       \/ \E f \in Files : PipelineRun(p, f, force)
       \/ \E stop \in BOOLEAN : PipelineAll(p, force, stop)
  \/ \E r \in Runs : ResumeScan(p, r)
  \/ \E comply \in BOOLEAN, anchor \in BOOLEAN \cup {NONE} :
       \/ \E f \in Files : Scan(p, f, comply, anchor)
       \/ \E stop \in BOOLEAN : ScanAll(p, comply, anchor, stop)

Step(p) ==
  \/ Unnamed(p) \/ ReadFile(p) \/ HashFile(p) \/ FindByHash(p) \/ Replay(p) \/ Submit(p) \/ SubmitFails(p)
  \/ Ingest(p) \/ Gate(p) \/ ScanGate(p) \/ Evaluate(p) \/ Anchor(p) \/ WriteDecision(p)
  \/ Deploy(p) \/ Quarantine(p) \/ SaveResult(p) \/ Register(p)

Next ==
  \/ \E p \in Procs : Step(p) \/ Die(p)
  \/ \E p \in Procs : Command(p)
  \/ \E f \in Files, c \in Edits : Edit(f, c)

Spec == Init /\ [][Next]_vars

-----------------------------------------------------------------------------
Verdicts == {"COMPLETED", "MANUAL_REVIEW", "STOPPED", "REJECTED", "INFRASTRUCTURE_HOLD"}
Decisions == {"APPROVED", "LICENSE_REQUIRED", "HOLD", "MANUAL_REVIEW", "DENIED"}
Words == {"DEPLOY", "BLOCK", "DO_NOT_DEPLOY_PENDING_REVIEW", "HOLD_FOR_RETEST_OR_REJECT",
          "DENIED_AND_QUARANTINED", "DENIED_AND_INCIDENT_RESPONSE_OPENED",
          "REJECTED_PERMANENTLY", "HOLD_PENDING_BLOCKCHAIN_RECOVERY"}
Refusing == {"COUNTERFEIT_AND_CERTIFICATE_VERIFICATION", "RESTRICTED_PARTY_SCREENING",
             "BLOCKCHAIN_PROVENANCE_RECONCILIATION", "PUF_AUTHENTICATION", "OPENTITAN",
             "DIGITAL_TWIN_AND_SBOM", "HARDWARE_TROJAN_ANALYSIS"}
Stages   == Refusing \cup {"INGESTION", "PRE_COMPLIANCE_SECURITY_GATES",
             "SUPPLIER_RISK_AND_COMPLIANCE", "BLOCKCHAIN", "DEPLOYMENT_DECISION"}
Results  == {"PASSED", "FAILED", "BLOCKED", "SKIPPED", "MANUAL_REVIEW", "INFRASTRUCTURE_ERROR"}

Or(S) == S \cup {NONE}

Entry == Stages \X Results

Run == [source : Files, hash : Contents, status : Verdicts \cup {"RUNNING"},
        stopped : Or(Stages), from : Or(Runs), stages : Seq(Entry),
        decision : Or(Words), quarantined : BOOLEAN]

PCs == {"idle", "read", "hash", "find", "replay", "submit", "ingest", "gate", "evaluate",
        "anchor", "decide", "deploy", "quarantine", "save", "register"}

Call == [kind : {"none", "run", "scan"}, todo : Seq(Files), force : BOOLEAN, stop : BOOLEAN,
         from : Or(Runs), comply : BOOLEAN, anchor : Or(BOOLEAN), sim : Or(Contents),
         hash : Or(Contents), edited : BOOLEAN, id : Runs \cup {0}, run : Or(Run),
         error : BOOLEAN]

ASSUME NoneIsNothing ==
  NONE \notin Contents \cup Runs \cup Run \cup Stages \cup Words \cup Decisions \cup BOOLEAN

(* Every variable holds a value of its kind.                               *)
TypeOK ==
  /\ file \in [Files -> Contents]
  /\ scan \in [Runs -> Or(Contents)]
  /\ disk \in [Runs -> Or(Run)]
  /\ DOMAIN index \subseteq Contents /\ \A h \in DOMAIN index : index[h] \in Runs
  /\ refused \in [Runs -> Or(Words)]
  /\ evaluated \in [Runs -> Or(Decisions)]
  /\ ledger \in [Runs -> {"unknown", "committed", "anchored"}]
  /\ pc \in [Procs -> PCs]
  /\ call \in [Procs -> Call]
  /\ ethereum \in BOOLEAN /\ mixed \subseteq Runs
  /\ faults \in 0..MaxFaults /\ edits \in 0..MaxEdits

(* A run that ends COMPLETED is of a chip nothing speaks against, whatever *)
(* order the rules are asked in, no stage of it did anything but pass, its *)
(* compliance file agrees, and if the file asks so, Fabric holds the scan, *)
(* and Ethereum its hash when the platform is configured with Ethereum.    *)
CompletedJustified ==
  \A r \in Runs : disk[r] # NONE /\ disk[r].status = "COMPLETED" =>
    /\ Objections(Facts[scan[r]]) = {}
    /\ Len(disk[r].stages) = 5
    /\ \A i \in 1..5 : disk[r].stages[i][2] \in {"PASSED", "SKIPPED"}
    /\ evaluated[r] = "APPROVED" /\ disk[r].decision = "DEPLOY" /\ refused[r] = NONE
    /\ Facts[scan[r]].fabric => ledger[r] = Recorded

(* A chip is refused, or sent to review, only for something its file says; *)
(* an error of the platform ends in a hold.                                *)
RefusedJustified ==
  \A r \in Runs : disk[r] # NONE =>
    /\ disk[r].status \in {"REJECTED", "STOPPED", "MANUAL_REVIEW"} => Objections(Facts[scan[r]]) # {}
    /\ disk[r].status = "INFRASTRUCTURE_HOLD" => Facts[scan[r]].fabric /\ faults > 0

(* No command gets compliance to approve a chip another would refuse: scan *)
(* skips the rejection of the scenarios the orchestrator never lets in.    *)
ApprovedJustified ==
  \A r \in Runs : evaluated[r] = "APPROVED" => Objections(Facts[scan[r]]) = {}

(* Every verdict on a chip has its reason in the chip's file.              *)
VerdictsJustified == CompletedJustified /\ RefusedJustified /\ ApprovedJustified

(* quarantine-list shows every refusal, with the decision of its run, and  *)
(* no chip that was let through or may yet be.                             *)
RefusalsRecorded ==
  \A r \in Runs :
    LET shut == disk[r] # NONE /\ (disk[r].quarantined \/ disk[r].status = "REJECTED")
    IN  /\ shut => refused[r] = disk[r].decision
        /\ refused[r] # NONE /\ ~shut =>
             disk[r].status = "RUNNING" /\ Objections(Facts[scan[r]]) # {}

(* The run registered for a hash was begun for a file of that hash, and it *)
(* judged that very content however the file is edited later or beside the *)
(* run, with one exception: the command reads the file twice, and if it    *)
(* was edited in between, one content's verdict answers for another's.     *)
AnswerJudged ==
  \A h \in DOMAIN index :
    LET r == index[h]
    IN  disk[r] # NONE /\ disk[r].hash = h /\ (r \in mixed \/ scan[r] = h)

(* run.json and index.json implement RunLife: verdicts are final, and only *)
(* a run that has one is registered.                                       *)
Life == INSTANCE RunLife WITH
  Hashes <- Contents,
  state  <- [r \in Runs |-> IF disk[r] = NONE THEN NONE ELSE disk[r].status],
  answer <- index

ImplementsRunLife == Life!Spec
=============================================================================
