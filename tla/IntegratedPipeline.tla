------------------------- MODULE IntegratedPipeline --------------------------
(***************************************************************************)
(* The integrated pipeline: IntegratedPipelineService.run_file, which      *)
(* takes a chip's file through eight stages, and the handlers and services *)
(* the stages call (scan submission, PUF authentication, the hardware      *)
(* pipeline, ComplianceService.evaluate, BlockchainService.record_scan).   *)
(*                                                                         *)
(* Request threads and command-line processes run files, the same one too. *)
(* A run lives in the memory of its process and is saved, whole, to a file *)
(* of its own before and after each stage.  Every run submits a scan of    *)
(* its own, so a run's number also names its scan.  Runs share the ledgers *)
(* and the challenge a file carries, and an operator may record a scan on  *)
(* the ledgers as well.  What the parts promise is taken from their own    *)
(* modules: a challenge is consumed once (PufChallenges), a scan goes from *)
(* unknown to committed to anchored (Provenance).                          *)
(*                                                                         *)
(* What a stage finds out about a chip is an input, and so is an error of  *)
(* its infrastructure.  A stage may also report such an error as a failure *)
(* of the chip: in the run's file that is FAILED too, with the error among *)
(* the details; here it is "broken" and BROKEN.  Pipeline events are left  *)
(* out: SocketPublisher has none of the methods _publish looks for.        *)
(*                                                                         *)
(* Definitions headed "Fault:" are plausible bugs the properties notice.   *)
(***************************************************************************)
EXTENDS Naturals, Sequences

CONSTANTS
  Procs,          \* request threads and command-line processes
  Files,          \* simulation files
  Challenges,
  Challenge,      \* Challenge[f]: the PUF challenge in the envelope of file f
  Decisions,      \* what PolicyEngine.decide says of the chips in the files
  MaxRuns,        \* bound on runs
  MaxFaults,      \* bound on deaths and failing saves
  NONE

ASSUME PipelineAssumption ==
  /\ Challenge \in [Files -> Challenges]
  /\ Decisions \subseteq {"APPROVED", "LICENSE_REQUIRED", "HOLD", "MANUAL_REVIEW", "DENIED"}
  /\ MaxRuns \in Nat /\ MaxFaults \in Nat

Runs   == 1..MaxRuns
Stages == <<"INGESTION", "PUF_AUTHENTICATION", "HARDWARE_SECURITY", "AI_ANALYSIS",
            "COMPLIANCE", "BLOCKCHAIN", "DASHBOARD", "DEPLOYMENT_DECISION">>

VARIABLES
  disk,       \* disk[r]: the file of run r, or NONE
  journal,    \* journal[r]: kinds of events the scan of run r has
  ledger,     \* ledger[r]: what the ledgers hold of the scan of run r
  pending,    \* ledger transactions nobody waits for any more
  spent,      \* challenges consumed
  pc,         \* pc[p]: the step p takes next
  mem,        \* mem[p]: p's run in memory
  call,       \* call[p]: which run, which stage, and what the stage found
  faults

stores == <<disk, journal, ledger, pending, spent>>
vars   == <<stores, pc, mem, call, faults>>

-----------------------------------------------------------------------------
NoCall == [run |-> 0, at |-> 1, result |-> "none", decision |-> NONE, recorded |-> {}]

NewRun(f) ==
  [file |-> f, status |-> "RUNNING", active |-> "INGESTION", stopped |-> NONE,
   stages |-> <<>>, compliance |-> NONE, blockchain |-> FALSE, decision |-> NONE,
   quarantined |-> FALSE]

Init ==
  /\ disk = [r \in Runs |-> NONE]
  /\ journal = [r \in Runs |-> {}]
  /\ ledger = [r \in Runs |-> "unknown"]
  /\ pending = {} /\ spent = {}
  /\ pc = [p \in Procs |-> "idle"]
  /\ mem = [p \in Procs |-> NONE]
  /\ call = [p \in Procs |-> NoCall]
  /\ faults = 0

Goto(p, to) == pc' = [pc EXCEPT ![p] = to]
At(p, name) == pc[p] = "work" /\ Stages[call[p].at] = name
Stage(p)    == Stages[call[p].at]

(* p's call to run_file is over.                                           *)
Leave(p) ==
  /\ Goto(p, "idle")
  /\ mem' = [mem EXCEPT ![p] = NONE]
  /\ call' = [call EXCEPT ![p] = NoCall]

(* _save replaces the file of the run.                                     *)
Save(p, run) == disk' = [disk EXCEPT ![call[p].run] = run]

(* The stage's function comes back, with a finding against the chip        *)
(* ("failed") or with an error of its own for one ("broken"), or raises    *)
(* ("error").                                                              *)
Yield(p, results) ==
  /\ \E r \in results : call' = [call EXCEPT ![p].result = r]
  /\ Goto(p, "record")

Note(r, kind) == journal' = [journal EXCEPT ![r] = @ \cup {kind}]

-----------------------------------------------------------------------------
(* _find_by_source_hash: a run of the file that was completed and recorded *)
(* is the answer, unless the caller forces another.                        *)
Completed(f) ==
  {r \in Runs : disk[r] # NONE /\ disk[r].file = f
                /\ disk[r].status = "COMPLETED" /\ disk[r].blockchain}

Begun == {r \in Runs : disk[r] # NONE}

RunFile(p, f, force) ==
  /\ pc[p] = "idle"
  /\ Begun # Runs
  /\ force \/ Completed(f) = {}
  /\ mem' = [mem EXCEPT ![p] = NewRun(f)]
  /\ Goto(p, "begin")
  /\ UNCHANGED <<stores, call, faults>>

(* Fault: the run is identified by its source, not by a fresh number.      *)
BeginBySource(p) ==
  LET same == {r \in Begun : disk[r].file = mem[p].file}
      r    == CHOOSE q \in IF same # {} THEN same ELSE Runs \ Begun : TRUE
  IN  /\ pc[p] = "begin" /\ Begun # Runs
      /\ call' = [call EXCEPT ![p].run = r]
      /\ disk' = [disk EXCEPT ![r] = mem[p]]
      /\ Goto(p, "start")
      /\ UNCHANGED <<journal, ledger, pending, spent, mem, faults>>

(* A fresh identifier, and the first save.                                 *)
Begin(p) ==
  LET r == CHOOSE q \in Runs \ Begun : TRUE
  IN  /\ pc[p] = "begin" /\ Begun # Runs
      /\ call' = [call EXCEPT ![p].run = r]
      /\ disk' = [disk EXCEPT ![r] = mem[p]]
      /\ Goto(p, "start")
      /\ UNCHANGED <<journal, ledger, pending, spent, mem, faults>>

(* _execute_stage, up to the call of the stage's function.                 *)
StartStage(p) ==
  LET run == [mem[p] EXCEPT !.active = Stage(p)]
  IN  /\ pc[p] = "start"
      /\ mem' = [mem EXCEPT ![p] = run]
      /\ Save(p, run)
      /\ Goto(p, "work")
      /\ UNCHANGED <<journal, ledger, pending, spent, call, faults>>

-----------------------------------------------------------------------------
(* The functions of the stages.                                            *)

(* POST /api/v1/scans; what follows the append, the audit log, may fail.   *)
Ingest(p) ==
  /\ At(p, "INGESTION")
  /\ \/ Note(call[p].run, "scan.accepted") /\ Yield(p, {"passed", "error"})
     \/ UNCHANGED journal /\ Yield(p, {"error"})
  /\ UNCHANGED <<disk, ledger, pending, spent, mem, faults>>

(* Fault: a chip that passed everything before is not asked again.         *)
AuthenticateUnknown(p) ==
  LET c == Challenge[mem[p].file]
  IN  /\ At(p, "PUF_AUTHENTICATION")
      /\ \/ Yield(p, {"failed", "broken", "error"}) /\ UNCHANGED spent
         \/ /\ c \notin spent \/ Completed(mem[p].file) # {}
            /\ spent' = spent \cup {c}
            /\ Yield(p, {"passed", "failed", "error"})
      /\ UNCHANGED <<disk, journal, ledger, pending, mem, faults>>

(* The gate, the envelope, the device's profile or the ledger may refuse;  *)
(* a challenge that is not spent yet is consumed before the verdict.  Any  *)
(* PUFError is a failed stage: of a chip, and of a platform without master *)
(* secret or with a damaged store.                                         *)
Authenticate(p) ==
  LET c == Challenge[mem[p].file]
  IN  /\ At(p, "PUF_AUTHENTICATION")
      /\ \/ Yield(p, {"failed", "broken", "error"}) /\ UNCHANGED spent
         \/ /\ c \notin spent
            /\ spent' = spent \cup {c}
            /\ Yield(p, {"passed", "failed", "error"})
      /\ UNCHANGED <<disk, journal, ledger, pending, mem, faults>>

(* HardwareSecurityPipeline.run notes each of its own stages, and makes    *)
(* an exception of one, a missing tool or a timeout, a chip QUARANTINED.   *)
RunHardware(p) ==
  /\ At(p, "HARDWARE_SECURITY")
  /\ \/ Note(call[p].run, "hardware") /\ Yield(p, {"passed", "failed", "broken", "error"})
     \/ UNCHANGED journal /\ Yield(p, {"error"})
  /\ UNCHANGED <<disk, ledger, pending, spent, mem, faults>>

RunAI(p) ==
  /\ At(p, "AI_ANALYSIS")
  /\ Yield(p, {"passed", "failed", "error"})
  /\ UNCHANGED <<stores, mem, faults>>

(* _run_compliance asks ComplianceService.evaluate over the REST API, with *)
(* what the file says of the chip: a decision and its events, or an error. *)
Evaluate(p) ==
  /\ At(p, "COMPLIANCE")
  /\ \/ /\ Note(call[p].run, "compliance.completed")
        /\ \/ /\ \E d \in Decisions : call' = [call EXCEPT ![p].decision = d]
              /\ Goto(p, "submit")
           \/ Yield(p, {"error"})
     \/ UNCHANGED journal /\ Yield(p, {"error"})
  /\ UNCHANGED <<disk, ledger, pending, spent, mem, faults>>

(* Its call to record_scan ends in an exception, which becomes the         *)
(* blockchain_error of its result.                                         *)
Unrecorded(p) ==
  /\ Goto(p, "file")
  /\ call' = [call EXCEPT ![p].recorded = {}]

(* A transaction on the scan of r: done, and noted unless noting fails, or *)
(* not done, or left behind by a wait that timed out.                      *)
Transact(r, from, to, kind) ==
  /\ ledger[r] = from
  /\ ledger' = [ledger EXCEPT ![r] = to]
  /\ Note(r, kind)
  /\ UNCHANGED pending

TransactUnnoted(r, from, to) ==
  /\ ledger[r] = from
  /\ ledger' = [ledger EXCEPT ![r] = to]
  /\ UNCHANGED <<journal, pending>>

TimeOut(r, to) ==
  /\ pending' = pending \cup {[run |-> r, to |-> to]}
  /\ UNCHANGED <<journal, ledger>>

RecordOnFabric(p) ==
  LET r == call[p].run
  IN  /\ pc[p] = "submit"
      /\ \/ /\ Transact(r, "unknown", "committed", "fabric.committed")
            /\ call' = [call EXCEPT ![p].recorded = {"fabric"}]
            /\ \/ Goto(p, "anchor")
               \/ Goto(p, "file")          \* no anchor service is configured
         \/ TransactUnnoted(r, "unknown", "committed") /\ Unrecorded(p)
         \/ ledger[r] = "unknown" /\ TimeOut(r, "committed") /\ Unrecorded(p)
         \/ Unrecorded(p) /\ UNCHANGED <<journal, ledger, pending>>
      /\ UNCHANGED <<disk, spent, mem, faults>>

(* Ethereum, and the attachment of the anchor to the record.               *)
AnchorOnEthereum(p) ==
  LET r == call[p].run
  IN  /\ pc[p] = "anchor"
      /\ \/ /\ Transact(r, "committed", "anchored", "ethereum.anchor_confirmed")
            /\ call' = [call EXCEPT ![p].recorded = {"fabric", "ethereum"}]
            /\ Goto(p, "file")
         \/ TransactUnnoted(r, "committed", "anchored") /\ Unrecorded(p)
         \/ ledger[r] = "committed" /\ TimeOut(r, "anchored") /\ Unrecorded(p)
         \/ Unrecorded(p) /\ UNCHANGED <<journal, ledger, pending>>
      /\ UNCHANGED <<disk, spent, mem, faults>>

(* The decision's file is written; its result holds a decision, and passes *)
(* for that reason, whatever the decision is.                              *)
WriteDecision(p) ==
  /\ pc[p] = "file"
  /\ Yield(p, {"passed", "error"})
  /\ UNCHANGED <<stores, mem, faults>>

(* Fault: an error of the ledgers is not looked at.                        *)
VerifyLeniently(p) ==
  /\ At(p, "BLOCKCHAIN")
  /\ Yield(p, {"passed"})
  /\ UNCHANGED <<stores, mem, faults>>

VerifyBlockchain(p) ==
  /\ At(p, "BLOCKCHAIN")
  /\ Yield(p, {IF call[p].recorded = {"fabric", "ethereum"} THEN "passed" ELSE "failed"})
  /\ UNCHANGED <<stores, mem, faults>>

UpdateDashboard(p) ==
  /\ At(p, "DASHBOARD")
  /\ Yield(p, {"passed"})
  /\ UNCHANGED <<stores, mem, faults>>

(* blockchain.get("passed")                                                *)
Verified(run) == \E i \in 1..Len(run.stages) :
  run.stages[i].stage = "BLOCKCHAIN" /\ run.stages[i].status = "PASSED"

DeploymentDecision(run) ==
  CASE run.compliance = "APPROVED" -> IF Verified(run) THEN "DEPLOY"
                                      ELSE "HOLD_PENDING_BLOCKCHAIN_RECOVERY"
    [] run.compliance = "LICENSE_REQUIRED" -> "DO_NOT_DEPLOY_PENDING_REVIEW"
    [] OTHER -> "DENIED_AND_QUARANTINED"

Decide(p) ==
  /\ At(p, "DEPLOYMENT_DECISION")
  /\ Yield(p, {"passed"})
  /\ UNCHANGED <<stores, mem, faults>>

-----------------------------------------------------------------------------
(* _execute_stage, after the stage's function.                             *)

Mandatory(p) ==
  CASE Stage(p) = "BLOCKCHAIN" -> mem[p].compliance = "APPROVED"
    [] Stage(p) = "DASHBOARD"  -> FALSE
    [] OTHER                   -> TRUE

Entry(p, status) == [stage |-> Stage(p), status |-> status, mandatory |-> Mandatory(p)]

Outcome(result) ==
  CASE result = "passed" -> "PASSED" [] result = "broken" -> "BROKEN" [] OTHER -> "FAILED"

(* What run_file keeps of the result before the next stage.                *)
Learnt(p, run) ==
  CASE Stage(p) = "COMPLIANCE" ->
         [run EXCEPT !.compliance = call[p].decision, !.blockchain = call[p].recorded # {}]
    [] Stage(p) = "BLOCKCHAIN" -> [run EXCEPT !.blockchain = call[p].recorded # {}]
    [] OTHER                   -> run

Continue(p, run) ==
  /\ mem' = [mem EXCEPT ![p] = run]
  /\ call' = [call EXCEPT ![p].at = IF @ = Len(Stages) THEN @ ELSE @ + 1,
                          ![p].result = "none"]
  /\ Goto(p, IF Stage(p) = "DEPLOYMENT_DECISION" THEN "conclude" ELSE "start")

(* The stage returned: its entry is saved.                                 *)
RecordResult(p) ==
  LET passed == call[p].result = "passed"
      run    == [mem[p] EXCEPT !.stages = Append(@, Entry(p, Outcome(call[p].result)))]
  IN  /\ pc[p] = "record" /\ call[p].result # "error"
      /\ Save(p, run)
      /\ IF ~passed /\ Mandatory(p)
         THEN /\ mem' = [mem EXCEPT ![p] = Learnt(p, run)]
              /\ Goto(p, "stop") /\ UNCHANGED call
         ELSE Continue(p, Learnt(p, run))
      /\ UNCHANGED <<journal, ledger, pending, spent, faults>>

(* The exception handler: an entry, a hold if the stage is mandatory, a    *)
(* save, and the exception again.                                          *)
Handle(p, stages) ==
  LET entry == Entry(p, "INFRASTRUCTURE_ERROR")
      run   == IF Mandatory(p)
               THEN [mem[p] EXCEPT !.stages = Append(stages, entry),
                       !.status = "INFRASTRUCTURE_HOLD", !.stopped = Stage(p)]
               ELSE [mem[p] EXCEPT !.stages = Append(stages, entry)]
  IN  /\ Save(p, run)
      /\ IF Mandatory(p) THEN Leave(p)
         ELSE Continue(p, [run EXCEPT !.blockchain = @ /\ Stage(p) # "BLOCKCHAIN"])

(* Fault: the handler raises again without saving.                         *)
RecordErrorUnsaved(p) ==
  /\ pc[p] = "record" /\ call[p].result = "error"
  /\ Leave(p)
  /\ UNCHANGED <<stores, faults>>

(* Fault: the handler goes on to the next stage.                           *)
RecordErrorOnly(p) ==
  LET run == [mem[p] EXCEPT !.stages = Append(@, Entry(p, "INFRASTRUCTURE_ERROR"))]
  IN  /\ pc[p] = "record" /\ call[p].result = "error"
      /\ Save(p, run)
      /\ Continue(p, run)
      /\ UNCHANGED <<journal, ledger, pending, spent, faults>>

RecordError(p) ==
  /\ pc[p] = "record" /\ call[p].result = "error"
  /\ Handle(p, mem[p].stages)
  /\ UNCHANGED <<journal, ledger, pending, spent, faults>>

(* The stage returned, but the save of its entry failed: the handler adds  *)
(* a second entry to the first.                                            *)
RecordTwice(p) ==
  /\ pc[p] = "record" /\ call[p].result # "error" /\ faults < MaxFaults
  /\ faults' = faults + 1
  /\ Handle(p, Append(mem[p].stages, Entry(p, Outcome(call[p].result))))
  /\ UNCHANGED <<journal, ledger, pending, spent>>

-----------------------------------------------------------------------------
(* The end of a run.                                                       *)

(* Fault: the classification is taken for the decision.                    *)
StopClassification(stage) ==
  CASE stage = "PUF_AUTHENTICATION" -> "PUF_AUTHENTICATION_FAILED"
    [] stage = "BLOCKCHAIN"         -> "HOLD_PENDING_BLOCKCHAIN_RECOVERY"
    [] OTHER                        -> "DENIED_AND_QUARANTINED"

StopDecision(stage) ==
  CASE stage = "PUF_AUTHENTICATION" -> "HOLD_FOR_RETEST_OR_REJECT"
    [] stage = "BLOCKCHAIN"         -> "HOLD_PENDING_BLOCKCHAIN_RECOVERY"
    [] OTHER                        -> "DENIED_AND_QUARANTINED"

Infrastructure(stage) == stage = "BLOCKCHAIN"

Stop(p) ==
  LET run == [mem[p] EXCEPT !.stopped = Stage(p), !.decision = StopDecision(Stage(p)),
                !.status = IF Infrastructure(Stage(p)) THEN "INFRASTRUCTURE_HOLD" ELSE "STOPPED",
                !.quarantined = ~Infrastructure(Stage(p))]
  IN  /\ pc[p] = "stop"
      /\ Save(p, run)
      /\ Leave(p)
      /\ UNCHANGED <<journal, ledger, pending, spent, faults>>

Conclude(p) ==
  LET decision == DeploymentDecision(mem[p])
      review   == decision = "DO_NOT_DEPLOY_PENDING_REVIEW"
      run == IF decision = "DEPLOY"
             THEN [mem[p] EXCEPT !.decision = decision, !.status = "COMPLETED"]
             ELSE [mem[p] EXCEPT !.decision = decision, !.stopped = "DEPLOYMENT_DECISION",
                     !.status = IF review THEN "MANUAL_REVIEW" ELSE "STOPPED",
                     !.quarantined = ~review]
  IN  /\ pc[p] = "conclude"
      /\ Save(p, run)
      /\ Leave(p)
      /\ UNCHANGED <<journal, ledger, pending, spent, faults>>

(* The process dies, or a save outside _execute_stage's try fails and the  *)
(* exception leaves run_file: the file stays as it was saved last.         *)
Die(p) ==
  /\ pc[p] # "idle" /\ faults < MaxFaults
  /\ faults' = faults + 1
  /\ Leave(p)
  /\ UNCHANGED stores

-----------------------------------------------------------------------------
(* Around the runs.                                                        *)

(* A transaction that was given up takes effect, or no longer can.         *)
Settle(t) ==
  LET possible == ledger[t.run] = IF t.to = "committed" THEN "unknown" ELSE "committed"
  IN  /\ pending' = pending \ {t}
      /\ ledger' = IF possible THEN [ledger EXCEPT ![t.run] = t.to] ELSE ledger
      /\ UNCHANGED <<disk, journal, spent, pc, mem, call, faults>>

(* POST /blockchain/provenance on a scan that is not on record: it gets as *)
(* far as the Fabric commit, or all the way.                               *)
CommitProvenance(r) ==
  /\ "scan.accepted" \in journal[r] /\ ledger[r] = "unknown"
  /\ \/ Transact(r, "unknown", "committed", "fabric.committed")
     \/ TransactUnnoted(r, "unknown", "committed")
     \/ TimeOut(r, "committed")
     \/ /\ ledger' = [ledger EXCEPT ![r] = "anchored"]
        /\ journal' = [journal EXCEPT ![r] =
                         @ \cup {"fabric.committed", "ethereum.anchor_confirmed"}]
        /\ UNCHANGED pending
  /\ UNCHANGED <<disk, spent, pc, mem, call, faults>>

Step(p) ==
  \/ Begin(p) \/ StartStage(p)
  \/ Ingest(p) \/ Authenticate(p) \/ RunHardware(p) \/ RunAI(p)
  \/ Evaluate(p) \/ RecordOnFabric(p) \/ AnchorOnEthereum(p) \/ WriteDecision(p)
  \/ VerifyBlockchain(p) \/ UpdateDashboard(p) \/ Decide(p)
  \/ RecordResult(p) \/ RecordError(p) \/ Stop(p) \/ Conclude(p)

Next ==
  \/ \E p \in Procs : Step(p) \/ RecordTwice(p) \/ Die(p)
  \/ \E p \in Procs, f \in Files, force \in BOOLEAN : RunFile(p, f, force)
  \/ \E t \in pending : Settle(t)
  \/ \E r \in Runs : CommitProvenance(r)

Spec == Init /\ [][Next]_vars

-----------------------------------------------------------------------------
Status   == {"RUNNING", "COMPLETED", "MANUAL_REVIEW", "STOPPED", "INFRASTRUCTURE_HOLD"}
Verdicts == {"DEPLOY", "DO_NOT_DEPLOY_PENDING_REVIEW", "DENIED_AND_QUARANTINED",
             "HOLD_FOR_RETEST_OR_REJECT", "HOLD_PENDING_BLOCKCHAIN_RECOVERY"}
Names    == {Stages[i] : i \in 1..Len(Stages)}
Entries  == [stage : Names,
             status : {"PASSED", "FAILED", "BROKEN", "INFRASTRUCTURE_ERROR"},
             mandatory : BOOLEAN]
Run      == [file : Files, status : Status, active : Names, stopped : Names \cup {NONE},
             stages : Seq(Entries), compliance : Decisions \cup {NONE},
             blockchain : BOOLEAN, decision : Verdicts \cup {NONE}, quarantined : BOOLEAN]
Kinds    == {"scan.accepted", "hardware", "compliance.completed", "fabric.committed",
             "ethereum.anchor_confirmed"}

PCs      == {"idle", "begin", "start", "work", "submit", "anchor", "file", "record",
             "stop", "conclude"}
Call     == [run : Runs \cup {0}, at : 1..Len(Stages),
             result : {"none", "passed", "failed", "broken", "error"},
             decision : Decisions \cup {NONE}, recorded : SUBSET {"fabric", "ethereum"}]

ASSUME NoneAssumption == NONE \notin Run \cup Verdicts \cup Names \cup Decisions

(* Every variable holds a value of its kind.                               *)
TypeOK ==
  /\ disk \in [Runs -> Run \cup {NONE}]
  /\ journal \in [Runs -> SUBSET Kinds]
  /\ ledger \in [Runs -> {"unknown", "committed", "anchored"}]
  /\ pending \subseteq [run : Runs, to : {"committed", "anchored"}]
  /\ spent \subseteq Challenges
  /\ pc \in [Procs -> PCs]
  /\ mem \in [Procs -> Run \cup {NONE}]
  /\ call \in [Procs -> Call]
  /\ faults \in 0..MaxFaults

Before(s, t) == \E m, n \in 1..Len(Stages) : m < n /\ Stages[m] = s /\ Stages[n] = t

Deployed(r) == disk[r] # NONE /\ disk[r].decision = "DEPLOY"

(* One authentication, one deployment: two runs of a chip, concurrent or   *)
(* forced, of one file or of two that carry the same envelope, are never   *)
(* both told to deploy (_run_puf: "Authentication consumes the challenge,  *)
(* so a replayed envelope is rejected").                                   *)
DeployedOnce ==
  \A q, r \in Runs :
    /\ Deployed(q) /\ Deployed(r)
    /\ Challenge[disk[q].file] = Challenge[disk[r].file]
    => q = r

(* A run is told to deploy only if every mandatory stage passed, in order, *)
(* compliance approved it, both ledgers hold its scan and the journal says *)
(* so.  The dashboard is not mandatory, and may have failed.               *)
DeployJustified ==
  \A r \in Runs : Deployed(r) =>
    /\ disk[r].status = "COMPLETED" /\ ~disk[r].quarantined
    /\ LET stages == disk[r].stages
           due    == {i \in 1..Len(stages) : stages[i].mandatory}
       IN  /\ \A i \in due : stages[i].status = "PASSED"
           /\ {stages[i].stage : i \in due} = Names \ {"DASHBOARD"}
           /\ \A i, j \in due : i < j => Before(stages[i].stage, stages[j].stage)
    /\ disk[r].compliance = "APPROVED"
    /\ ledger[r] = "anchored" /\ journal[r] = Kinds

(* Once a mandatory stage has not passed, no later stage does anything:    *)
(* the entries of the run end there, the scan gets no event of a later     *)
(* stage, and the run is not completed.                                    *)
FailClosed ==
  \A r \in Runs : disk[r] # NONE =>
    LET stages    == disk[r].stages
        passed(s) == \E i \in 1..Len(stages) : stages[i] =
                       [stage |-> s, status |-> "PASSED", mandatory |-> TRUE]
    IN  /\ \A i, j \in 1..Len(stages) :
             i < j /\ stages[i].mandatory /\ stages[i].status # "PASSED" =>
               /\ stages[i].stage = stages[j].stage
               /\ disk[r].status # "COMPLETED"
        /\ "hardware" \in journal[r] => passed("PUF_AUTHENTICATION")
        /\ "compliance.completed" \in journal[r] =>
             passed("HARDWARE_SECURITY") /\ passed("AI_ANALYSIS")

(* A run's file keeps its verdict: no later run, save or crash changes it. *)
VerdictStays ==
  [][\A r \in Runs : disk[r] # NONE /\ disk[r].status # "RUNNING" => disk'[r] = disk[r]]_vars

(* A chip is quarantined on a finding against it: of a stage, other than   *)
(* the blockchain's, or of compliance.  Two stages take an error of the    *)
(* platform for such a finding: PUF_AUTHENTICATION any PUFError, one of    *)
(* its configuration included, although the docstring of _puf_adapter says *)
(* that this "surfaces as an infrastructure hold", and HARDWARE_SECURITY   *)
(* any exception of a tool.  No other stage does, and no error that leaves *)
(* a stage as an exception ever quarantines.                               *)
QuarantineJustified ==
  \A r \in Runs : disk[r] # NONE /\ disk[r].quarantined =>
    \/ \E i \in 1..Len(disk[r].stages) :
         LET entry == disk[r].stages[i]
         IN  \/ entry.status = "FAILED" /\ entry.stage # "BLOCKCHAIN"
             \/ /\ entry.status = "BROKEN"
                /\ entry.stage \in {"PUF_AUTHENTICATION", "HARDWARE_SECURITY"}
    \/ disk[r].compliance \notin {"APPROVED", NONE}

(* A chip is deployed only with every reason for it, and quarantined only  *)
(* for a finding or for an error that one of two stages takes for one.     *)
VerdictJustified == DeployJustified /\ QuarantineJustified

(* Unless a process dies or a save fails, a run that shows as RUNNING has  *)
(* somebody working on it: no exit of run_file, regular or exceptional,    *)
(* leaves the file in that state.                                          *)
RunningAttended ==
  \A r \in Runs :
    disk[r] # NONE /\ disk[r].status = "RUNNING" /\ faults = 0 =>
      \E p \in Procs : pc[p] # "idle" /\ call[p].run = r

(* What compliance refers to a human ends in manual review.                *)
ReviewRouted ==
  \A r \in Runs :
    /\ disk[r] # NONE /\ disk[r].decision # NONE
    /\ disk[r].compliance \in {"HOLD", "MANUAL_REVIEW"}
    => disk[r].status = "MANUAL_REVIEW"
=============================================================================
