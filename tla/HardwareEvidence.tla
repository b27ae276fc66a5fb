-------------------------- MODULE HardwareEvidence ---------------------------
(***************************************************************************)
(* The hardware evidence of one chip, from the script that mints it        *)
(* (scripts/demo/mint_hardware_evidence.py) to the runs that verify it:    *)
(* PUF authentication, HardwareSecurityPipeline.run with its six stages,   *)
(* the evidence that is then built for the models, what they make of it    *)
(* and what compliance policy does, if nothing but the models objects.     *)
(*                                                                         *)
(* Mints and runs are processes that share files: RTL, traces, the         *)
(* attestation with its replay state (module Attestation), the enrolment,  *)
(* the digital twin and the fixture, which is written last and names all   *)
(* the rest.  Only the replay state is locked; every file is replaced      *)
(* atomically, and none is removed but the twin.  Engineers edit the RTL.  *)
(* Testbench, firmware and reference design stay as they are, except that  *)
(* a chip without RTL of its own is its own reference.                     *)
(*                                                                         *)
(* A digest stands for the content it was computed from, an enrolment or   *)
(* an identity hash for the mint that made it (challenges are drawn anew). *)
(* The challenge ledger is PufChallenges'; here an envelope is used once.  *)
(*                                                                         *)
(* Definitions headed "Fault:" are plausible bugs the properties notice.   *)
(***************************************************************************)
EXTENDS Attestation, AiEvidence, AiRisk

Chip == INSTANCE ChipRules

CONSTANTS
  Designs,       \* contents of the RTL file
  Design,        \* Design[d]: metrics of its netlist and output of its simulation
  Likeness,      \* Likeness[a, b]: how traces of a compare with traces of b
  Reference,     \* the reference design
  Fields,        \* the twin's required_match_fields
  Schema,        \* the feature schema of the models
  Outputs,       \* what the models may make of a chip
  ChallengeTtl,  \* how long a challenge may be answered
  Attempts,      \* ENROLLMENT_ATTEMPTS
  MaxFaults,     \* bound on deaths, tools that fail and events not appended
  MaxEdits       \* bound on edits of the RTL

ASSUME ConfigurationSound == VerifierSound(Policy) /\ AnalysisSound(Policy) /\ FieldsSound(Fields)

ASSUME ProcessesApart ==
  /\ Mints \cap Runs = {} /\ NONE \notin Mints \cup Runs
  /\ Reference \in Designs /\ MaxClock \in Nat

VARIABLES
  specific,   \* whether the chip has RTL of its own beside the reference
  rtl,        \* the RTL file
  traces,     \* traces[c]: the trace file of channel c
  profile,    \* the enrolment whose profile is stored, or NONE
  twin,       \* the digital twin, or NONE
  fixture,    \* what the fixture file says of evidence, or NONE
  answered,   \* the envelopes used up
  mint,       \* mint[m]: what mint m has measured
  run,        \* run[r]: what run r has measured and concluded
  spoiled,    \* spoiled[m]: what has come to pass since mint m began
  faults, edits

files  == <<rtl, traces, profile, twin, fixture>>
shared == <<attested, files, specific, answered>>
vars   == <<pc, shared, mint, run, spoiled, faults, edits>>

-----------------------------------------------------------------------------
Channels == <<"side_channel_trace", "side_channel_reference", "ai_em_trace", "ai_timing_trace">>
ChannelSet == {Channels[i] : i \in 1..4}

Trace(metrics, netlist) == [metrics |-> metrics, netlist |-> netlist, source |-> "SIMULATED_TRACE"]

(* What twins and digests are made of.                                     *)
TraceFiles == [metrics : Designs, netlist : Designs, source : {"SIMULATED_TRACE"}]
Documents  == [chip : {"chip"}, artifacts : [rtl : Designs, traces : [ChannelSet -> TraceFiles]]]
Twins      == [chip_id : {"chip"}, puf_identity_hash : Mints, rtl_digest : Designs,
               netlist_digest : Designs, firmware_digest : {"simulated"}, sbom_digest : Documents]
Ratios     == [over : Int, of : Int]

(* Yosys and Verilator count, the models give percentages, and what is not *)
(* there is nothing that it may be compared with.                          *)
ASSUME MeasuresSound ==
  /\ ChallengeTtl \in Nat /\ MaxFaults \in Nat
  /\ \A d \in Designs :
       LET metrics == Design[d].metrics
       IN  /\ {metrics.cells, metrics.wires, metrics.wireBits, metrics.publicWires,
               metrics.memoryBits} \subseteq Nat
           /\ metrics.publicWires <= metrics.wires
           /\ Design[d].output.assertions \in Nat \cup {-1}
  /\ \A models \in Outputs :
       {models.base, models.cnn.score, models.cnn.confidence,
        models.anomaly.score, models.anomaly.confidence} \subseteq 0..100
  /\ NONE \notin Designs \cup Twins \cup Ratios \cup [over : Int, of : Int, exact : BOOLEAN]
  /\ NONE # [count |-> 0, exact |-> TRUE]

(* The configuration has the twin compare every digest, and admits what a  *)
(* mint writes: its life cycle, firmware, counter and nonce, simulated     *)
(* traces, and no features it cannot derive.                               *)
AllMatched == {"puf_identity_hash", "rtl_digest", "netlist_digest", "sbom_digest"} \subseteq Fields

AdmitsMinted ==
  /\ "PROD" \in Policy.allowedStates /\ "simulated" \in Policy.trustedFirmware
  /\ Policy.minimumCounter \in 0..1 /\ Policy.minimumNonce \in 16..24
  /\ Policy.maximumAge \in Nat /\ Policy.maximumSkew \in Nat
  /\ "SIMULATED_TRACE" \in Policy.allowedSources /\ Schema \in {"2.0", "2.1"}

NothingMinted ==
  [netlist |-> NONE, digest |-> NONE, reference |-> NONE, next |-> 1, attempts |-> 0,
   envelope |-> NONE, sbom |-> NONE]

NothingMeasured ==
  [fixture |-> NONE, capture |-> NONE, compared |-> NONE, netlist |-> NONE, digest |-> NONE,
   ratio |-> NONE, departs |-> {}, output |-> NONE, sbom |-> NONE, completed |-> {},
   power |-> NONE, bound |-> NONE, em |-> NONE, ai |-> NONE,
   result |-> "RUNNING", stage |-> NONE, faulty |-> FALSE]

Init ==
  /\ AttestationInit
  /\ pc = [p \in Mints \cup Runs |-> "idle"]
  /\ specific \in BOOLEAN
  /\ rtl \in Designs /\ (~specific => rtl = Reference)
  /\ traces = [c \in ChannelSet |-> NONE]
  /\ profile = NONE /\ twin = NONE /\ fixture = NONE /\ answered = {}
  /\ mint = [m \in Mints |-> NothingMinted]
  /\ run = [r \in Runs |-> NothingMeasured]
  /\ spoiled = [m \in Mints |-> {}]
  /\ faults = 0 /\ edits = 0

ReferenceRtl == IF specific THEN Reference ELSE rtl
Artifacts    == [rtl |-> rtl, traces |-> traces]
Over         == {"idle", "done", "disagree", "failed", "dead", "ended"}
Begun        == {m \in Mints : pc[m] # "idle"}
Spoil(what)  == spoiled' = [m \in Mints |-> spoiled[m] \cup {w \in {what} : m \in Begun}]

-----------------------------------------------------------------------------
(* Minting (mint_fixture), one fixture.                                    *)
Minting(m, step) == pc[m] = step /\ UNCHANGED <<specific, answered, run, edits>>
Minted(m, field, value) == mint' = [mint EXCEPT ![m] = [@ EXCEPT ![field] = value]]

StartMint(m) ==
  /\ Minting(m, "idle") /\ Goes(m, "synthesise")
  /\ LET others == {x \in Mints \ {m} : pc[x] \notin Over}
     IN  spoiled' = [x \in Mints |->
           IF x = m THEN {w \in {"MINT"} : others # {}}
           ELSE spoiled[x] \cup {w \in {"MINT"} : x \in Begun}]
  /\ UNCHANGED <<attested, files, mint, faults>>

MintSynthesises(m) ==
  /\ Minting(m, "synthesise") /\ Goes(m, "measure")
  /\ Minted(m, "netlist", rtl)
  /\ UNCHANGED <<attested, files, spoiled, faults>>

(* The source is hashed after it was synthesised, then the reference is    *)
(* synthesised.  A netlist without cells yields no traces.                 *)
MintMeasures(m) ==
  /\ Minting(m, "measure")
  /\ Goes(m, IF Design[mint[m].netlist].metrics.cells > 0 THEN "traces" ELSE "failed")
  /\ mint' = [mint EXCEPT ![m] = [@ EXCEPT !.digest = rtl, !.reference = ReferenceRtl]]
  /\ UNCHANGED <<attested, files, spoiled, faults>>

WriteTrace(m) ==
  /\ Minting(m, "traces")
  /\ LET channel == Channels[mint[m].next]
         metrics == IF channel = "side_channel_reference" THEN mint[m].reference ELSE mint[m].netlist
     IN  traces' = [traces EXCEPT ![channel] = Trace(metrics, mint[m].netlist)]
  /\ Minted(m, "next", mint[m].next + 1)
  /\ Goes(m, IF mint[m].next = 4 THEN "draw" ELSE "traces")
  /\ UNCHANGED <<attested, rtl, profile, twin, fixture, spoiled, faults>>

MintAttests(m) ==
  /\ DrawCounter(m) \/ Stamp(m) \/ WriteAttestation(m)
  /\ UNCHANGED <<files, specific, answered, mint, run, spoiled, faults, edits>>

Enroll(m) ==
  /\ Minting(m, "enroll") /\ Goes(m, "issue")
  /\ profile' = m
  /\ UNCHANGED <<attested, rtl, traces, twin, fixture, mint, spoiled, faults>>

(* A set of challenges with a marginal one is drawn anew, a few times.     *)
EnrollAgain(m) ==
  /\ Minting(m, "enroll")
  /\ Minted(m, "attempts", mint[m].attempts + 1)
  /\ Goes(m, IF mint[m].attempts + 1 = Attempts THEN "failed" ELSE "enroll")
  /\ UNCHANGED <<attested, files, spoiled, faults>>

(* The challenge comes from the profile that is stored now, and the device *)
(* responds at once: noise decides whether it matches well enough.         *)
IssueChallenge(m) ==
  /\ Minting(m, "issue") /\ Goes(m, "sbom")
  /\ \E matches \in BOOLEAN :
       Minted(m, "envelope", [enrolment |-> profile, by |-> m, issued |-> clock, matches |-> matches])
  /\ UNCHANGED <<attested, files, spoiled, faults>>

MintSbom(m) ==
  /\ Minting(m, "sbom") /\ Goes(m, "unlink")
  /\ Minted(m, "sbom", DocumentDigest("chip", Artifacts))
  /\ UNCHANGED <<attested, files, spoiled, faults>>

UnlinkTwin(m) ==
  /\ Minting(m, "unlink") /\ Goes(m, "twin")
  /\ twin' = NONE
  /\ UNCHANGED <<attested, rtl, traces, profile, fixture, mint, spoiled, faults>>

(* A twin that exists is not replaced: the mint fails.                     *)
LookForTwin(m) ==
  /\ Minting(m, "twin") /\ Goes(m, IF twin = NONE THEN "save" ELSE "failed")
  /\ UNCHANGED <<attested, files, mint, spoiled, faults>>

SaveTwin(m) ==
  /\ Minting(m, "save") /\ Goes(m, "fixture")
  /\ twin' = [chip_id |-> "chip", puf_identity_hash |-> m, rtl_digest |-> mint[m].digest,
              netlist_digest |-> mint[m].netlist, firmware_digest |-> "simulated",
              sbom_digest |-> mint[m].sbom]
  /\ UNCHANGED <<attested, rtl, traces, profile, fixture, mint, spoiled, faults>>

WriteFixture(m) ==
  /\ Minting(m, "fixture") /\ Goes(m, "markers")
  /\ fixture' = [mint |-> m, identity |-> m, envelope |-> mint[m].envelope]
  /\ UNCHANGED <<attested, rtl, traces, profile, twin, mint, spoiled, faults>>

(* A chip that is its own reference must measure no difference.            *)
CheckMarkers(m) ==
  /\ Minting(m, "markers")
  /\ LET ratio == DeltaRatio(Design[mint[m].reference].metrics, Design[mint[m].netlist].metrics)
     IN  Goes(m, IF ~specific /\ ratio.over # 0 THEN "disagree" ELSE "done")
  /\ UNCHANGED <<attested, files, mint, spoiled, faults>>

MintToolFails(m) ==
  /\ pc[m] \in {"synthesise", "measure"} /\ Minting(m, pc[m]) /\ Goes(m, "failed")
  /\ faults < MaxFaults /\ faults' = faults + 1
  /\ UNCHANGED <<attested, files, mint, spoiled>>

MintStep(m) ==
  \/ MintSynthesises(m) \/ MintMeasures(m) \/ WriteTrace(m) \/ MintAttests(m)
  \/ Enroll(m) \/ EnrollAgain(m) \/ IssueChallenge(m) \/ MintSbom(m) \/ UnlinkTwin(m)
  \/ LookForTwin(m) \/ SaveTwin(m) \/ WriteFixture(m) \/ CheckMarkers(m) \/ MintToolFails(m)

-----------------------------------------------------------------------------
(* Verifying: the run of the integrated pipeline that took the fixture.    *)
Running(r, step) == pc[r] = step /\ UNCHANGED <<specific, files, mint, edits>>
Ran(r, state)    == run' = [run EXCEPT ![r] = state]
Held             == UNCHANGED <<answered, spoiled, faults>>

(* The run ends: refused by a stage, or by an exception.                   *)
Ends(r, result, stage, state) ==
  /\ Goes(r, "ended")
  /\ Ran(r, [state EXCEPT !.result = result, !.stage = stage])

(* A stage has its verdict: the next one, or quarantine.                   *)
Concludes(r, stage, reasons, next, state) ==
  IF reasons = {}
  THEN Goes(r, next) /\ Ran(r, [state EXCEPT !.completed = @ \cup {stage}])
  ELSE Ends(r, "QUARANTINED", stage, state)

StartRun(r) ==
  /\ Running(r, "idle") /\ fixture # NONE /\ Goes(r, "authenticate")
  /\ Ran(r, [run[r] EXCEPT !.fixture = fixture])
  /\ UNCHANGED attested /\ Held

Answerable(envelope) ==
  /\ profile = envelope.enrolment /\ envelope \notin answered
  /\ clock - envelope.issued <= ChallengeTtl

(* The challenge is used up before the response is looked at.              *)
Authenticate(r) ==
  /\ Running(r, "authenticate")
  /\ LET envelope == run[r].fixture.envelope
     IN  \/ /\ Answerable(envelope)
            /\ answered' = answered \cup {envelope}
            /\ \/ /\ envelope.matches /\ Goes(r, "attest") /\ UNCHANGED run
                  /\ spoiled' = [spoiled EXCEPT ![run[r].fixture.mint] = @ \cup {"ANSWERED"}]
               \/ /\ ~envelope.matches /\ Ends(r, "STOPPED", "puf", run[r])
                  /\ UNCHANGED spoiled
         \/ /\ ~Answerable(envelope)
            /\ Ends(r, "STOPPED", "puf", run[r])
            /\ UNCHANGED <<answered, spoiled>>
  /\ UNCHANGED <<attested, faults>>

Verifies(r) ==
  /\ ReadAttestation(r) \/ CheckAttestation(r) \/ LockReplay(r) \/ ReadCounter(r)
  /\ UNCHANGED <<specific, files, mint, run, edits>> /\ Held

(* Fault: the run ends and keeps its status.                               *)
RejectedQuietly(r) ==
  /\ Running(r, "rejected") /\ Goes(r, "ended")
  /\ UNCHANGED <<run, attested>> /\ Held

Rejected(r) ==
  /\ Running(r, "rejected")
  /\ Ends(r, "QUARANTINED", "opentitan", run[r])
  /\ UNCHANGED attested /\ Held

Accepted(r) ==
  /\ StoreCounter(r)
  /\ Ran(r, [run[r] EXCEPT !.completed = {"opentitan"}])
  /\ Spoil("ATTESTED")
  /\ UNCHANGED <<specific, files, answered, mint, faults, edits>>

(* A trace file is opened twice: for its samples, then for its digest.     *)
Opened(r, step, field, channel, next) ==
  /\ Running(r, step) /\ Goes(r, next)
  /\ Ran(r, [run[r] EXCEPT ![field] = traces[channel]])
  /\ UNCHANGED attested /\ Held

CaptureTrace(r) == Opened(r, "capture", "capture", "side_channel_trace", "hash")
HashCapture(r)  == Opened(r, "hash", "compared", "side_channel_trace", "compare")
ReadPower(r)    == Opened(r, "ai", "power", "side_channel_trace", "bind")
HashPower(r)    == Opened(r, "bind", "bound", "side_channel_trace", "em")
ReadEm(r)       == Opened(r, "em", "em", "ai_em_trace", "timing")

OpenTrace(r) == CaptureTrace(r) \/ HashCapture(r) \/ ReadPower(r) \/ HashPower(r) \/ ReadEm(r)

(* The digest of the reference is recorded and compared with nothing.      *)
CompareTraces(r) ==
  /\ Running(r, "compare")
  /\ LET reference == traces["side_channel_reference"]
         foreign   == {t \in {run[r].capture, reference} : ~SourceAllowed(t, Policy)}
     IN  Concludes(r, "chipwhisperer",
           foreign \cup TraceReasons(Likeness[run[r].capture.metrics, reference.metrics], Policy),
           "synthesise", run[r])
  /\ UNCHANGED attested /\ Held

Synthesise(r) ==
  /\ Running(r, "synthesise") /\ Goes(r, "measure")
  /\ Ran(r, [run[r] EXCEPT !.netlist = rtl])
  /\ UNCHANGED attested /\ Held

(* The structural delta is evidence, not a reason.                         *)
MeasureNetlist(r) ==
  /\ Running(r, "measure")
  /\ LET metrics   == Design[run[r].netlist].metrics
         reference == Design[ReferenceRtl].metrics
     IN  Concludes(r, "yosys", YosysReasons(metrics, Policy), "simulate",
           [run[r] EXCEPT !.digest = rtl, !.ratio = DeltaRatio(reference, metrics),
                          !.departs = StructuralReasons(reference, metrics, Policy)])
  /\ UNCHANGED attested /\ Held

Simulate(r) ==
  /\ Running(r, "simulate")
  /\ Concludes(r, "verilator", VerilatorReasons(Design[rtl].output), "sbom",
       [run[r] EXCEPT !.output = Design[rtl].output])
  /\ UNCHANGED attested /\ Held

GenerateSbom(r) ==
  /\ Running(r, "sbom")
  /\ Concludes(r, "sbom", {}, "twin", [run[r] EXCEPT !.sbom = DocumentDigest("chip", Artifacts)])
  /\ UNCHANGED attested /\ Held

(* Fault: the identity of the manifest is not compared.                    *)
MeasuredAnonymously(r) ==
  [chip_id |-> "chip", rtl_digest |-> run[r].digest, netlist_digest |-> run[r].netlist,
   puf_identity_hash |-> IF twin = NONE THEN NONE ELSE twin.puf_identity_hash,
   firmware_digest |-> held[r].firmware, sbom_digest |-> run[r].sbom]

Measured(r) ==
  [chip_id |-> "chip", puf_identity_hash |-> run[r].fixture.identity, rtl_digest |-> run[r].digest,
   netlist_digest |-> run[r].netlist, firmware_digest |-> held[r].firmware,
   sbom_digest |-> run[r].sbom]

(* A twin that is not there raises, which quarantines too.                 *)
VerifyTwin(r) ==
  /\ Running(r, "twin")
  /\ Concludes(r, "digital_twin",
       IF twin = NONE THEN {"NO_TWIN"} ELSE TwinReasons(twin, Measured(r), Fields), "ai", run[r])
  /\ UNCHANGED attested /\ Held

(* The models' evidence: the traces are read once more, the timing trace   *)
(* last.  The digests of EM and timing are recorded, and compared with nothing. *)
Results(r) ==
  [completed |-> run[r].completed, capture |-> run[r].capture, compared |-> run[r].compared,
   ratio |-> run[r].ratio, metrics |-> Design[run[r].netlist].metrics, output |-> run[r].output]

Authenticated == [passed |-> TRUE, source |-> "VERIFIED_PUF_STAGE", stability |-> 950]

BuildEvidence(r) ==
  /\ Running(r, "timing")
  /\ LET hw     == Results(r)
         power  == run[r].power
         em     == run[r].em
         timing == traces["ai_timing_trace"]
     IN  IF Refusals(hw, power, run[r].bound, em, timing, Authenticated, Schema) = {}
         THEN /\ Goes(r, "models")
              /\ Ran(r, [run[r] EXCEPT !.ai =
                    [evidence |-> Evidence(hw, power, em, timing, Authenticated),
                     controls |-> Controls(hw, Authenticated, Schema), decision |-> NONE]])
         ELSE Ends(r, "RAISED", "ai", run[r])
  /\ UNCHANGED attested /\ Held

(* AIPipelineService.analyze, and the verdict of the stage.                *)
Analyse(r) ==
  /\ Running(r, "models")
  /\ \E models \in Outputs :
       LET ai       == run[r].ai
           decision == Decide(models, ai.controls, ai.evidence.quality)
           judged   == [run[r] EXCEPT !.ai = [ai EXCEPT !.decision = decision]]
       IN  IF AiPassed(decision) THEN Goes(r, "comply") /\ Ran(r, judged)
           ELSE Ends(r, "QUARANTINED", "models", judged)
  /\ UNCHANGED attested /\ Held

(* Compliance, of a chip with a clean file, and the deployment decision.   *)
Comply(r) ==
  /\ Running(r, "comply")
  /\ LET ai       == Told(run[r].ai.decision)
         supplier == Chip!SupplierRisk(Chip!Clean.supplier, ai)
     IN  Ends(r, IF Chip!PolicyDecision("APPROVED", supplier, ai) = "APPROVED" THEN "COMPLETED" ELSE "STOPPED",
              "policy", run[r])
  /\ UNCHANGED attested /\ Held

InStage == [opentitan |-> {"attest", "check", "lock", "rejected"}, chipwhisperer |-> {"capture", "hash", "compare"},
            yosys |-> {"synthesise", "measure"}, verilator |-> {"simulate"}, sbom |-> {"sbom"},
            digital_twin |-> {"twin"}, models |-> {"models"}]

Trouble(r, result, stages) ==
  /\ faults < MaxFaults /\ faults' = faults + 1
  /\ \E stage \in stages :
       pc[r] \in InStage[stage] /\ Ends(r, result, stage, [run[r] EXCEPT !.faulty = TRUE])
  /\ UNCHANGED <<shared, mint, spoiled, edits>>

(* A tool is missing, fails or times out: the stage fails.                 *)
ToolFails(r) == Trouble(r, "QUARANTINED", {"yosys", "verilator"})

(* An event cannot be appended: the exception leaves the pipeline.         *)
RecordFails(r) == Trouble(r, "RAISED", Stages)

(* A model is missing, altered or returns nonsense: an exception.          *)
ModelsFail(r) == Trouble(r, "RAISED", {"models"})

RunStep(r) ==
  \/ Authenticate(r) \/ Verifies(r) \/ Rejected(r) \/ Accepted(r)
  \/ OpenTrace(r) \/ CompareTraces(r) \/ Synthesise(r) \/ MeasureNetlist(r)
  \/ Simulate(r) \/ GenerateSbom(r) \/ VerifyTwin(r) \/ BuildEvidence(r)
  \/ Analyse(r) \/ Comply(r) \/ ToolFails(r) \/ RecordFails(r) \/ ModelsFail(r)

-----------------------------------------------------------------------------
(* A process dies; the kernel gives its lock back.                         *)
Die(p) ==
  /\ pc[p] \notin Over /\ Goes(p, "dead") /\ LoseLock(p)
  /\ faults < MaxFaults /\ faults' = faults + 1
  /\ UNCHANGED <<clock, replay, seen, accepted, attestation, drawn, made, held,
                 files, specific, answered, mint, run, spoiled, edits>>

(* An engineer changes the chip's RTL, or takes a change back.             *)
Edit ==
  /\ edits < MaxEdits /\ edits' = edits + 1
  /\ rtl' \in Designs \ {rtl} /\ Spoil("EDIT")
  /\ UNCHANGED <<pc, attested, traces, profile, twin, fixture, specific, answered, mint, run, faults>>

Pass == Tick /\ UNCHANGED <<files, specific, answered, mint, run, spoiled, faults, edits>>

Next ==
  \/ \E m \in Mints : StartMint(m) \/ MintStep(m)
  \/ \E r \in Runs : StartRun(r) \/ RunStep(r)
  \/ \E p \in Mints \cup Runs : Die(p)
  \/ Edit \/ Pass

Spec == Init /\ [][Next]_vars

(* While anybody can go on with what is begun, somebody does: scripts and  *)
(* server threads are scheduled, external tools are killed at their        *)
(* timeout.  Nothing that is begun goes on for ever, so it is enough.      *)
Work == (\E m \in Mints : MintStep(m)) \/ (\E r \in Runs : RunStep(r))

FairSpec == Spec /\ WF_vars(Work)

-----------------------------------------------------------------------------
Steps == Over \cup {"synthesise", "measure", "traces", "draw", "stamp", "write", "enroll", "issue",
  "sbom", "unlink", "twin", "save", "fixture", "markers", "authenticate", "attest", "check", "lock",
  "counter", "store", "rejected", "capture", "hash", "compare", "simulate", "ai",
  "bind", "em", "timing", "models", "comply"}

(* The variables keep their types, and a run has a result when it has ended. *)
TypeOK ==
  /\ pc \in [Mints \cup Runs -> Steps]
  /\ clock \in 0..MaxClock /\ replay \in Int /\ replayLock \in Runs \cup {NONE}
  /\ rtl \in Designs /\ profile \in Mints \cup {NONE}
  /\ \A c \in ChannelSet : traces[c] = NONE \/ traces[c].metrics \in Designs
  /\ \A m \in Mints : spoiled[m] \subseteq {"EDIT", "MINT", "ANSWERED", "ATTESTED"}
  /\ \A r \in Runs :
       /\ run[r].result \in {"RUNNING", "STOPPED", "QUARANTINED", "RAISED", "COMPLETED"}
       /\ pc[r] = "ended" <=> run[r].result # "RUNNING"
       /\ run[r].completed \subseteq Stages

(* A run passes the hardware stages only with netlist, RTL digest and SBOM *)
(* as the mint that wrote its manifest had measured them, although mints,  *)
(* edits and other runs change the files between its stages.               *)
OneMint ==
  \A r \in Runs : "digital_twin" \in run[r].completed =>
    LET minted == mint[run[r].fixture.mint]
    IN  /\ run[r].netlist = minted.netlist /\ run[r].digest = minted.digest
        /\ run[r].sbom = minted.sbom

(* The design is one the policy objects to, or unlike its reference.       *)
Objectionable(m) ==
  LET design == mint[m].netlist
  IN  \/ YosysReasons(Design[design].metrics, Policy) # {}
      \/ VerilatorReasons(Design[design].output) # {}
      \/ TraceReasons(Likeness[design, mint[m].reference], Policy) # {}

(* Why a stage may turn the chip of run r down.                            *)
Caused(r) ==
  LET m == run[r].fixture.mint
      since(causes) == spoiled[m] \cap causes # {}
  IN  CASE run[r].stage = "puf" ->
             \/ since({"MINT", "ANSWERED"}) \/ clock > mint[m].envelope.issued + ChallengeTtl
             \/ ~mint[m].envelope.matches
        [] run[r].stage = "opentitan" ->
             since({"MINT", "ATTESTED"}) \/ clock > made[m].stamp + Policy.maximumAge
        [] run[r].stage \in {"chipwhisperer", "yosys", "verilator"} ->
             since({"MINT", "EDIT"}) \/ Objectionable(m)
        [] run[r].stage = "digital_twin" -> since({"MINT", "EDIT"})
        [] run[r].stage = "models" -> run[r].ai.decision.recommendation = "BLOCK"
        [] run[r].stage = "policy" ->
             \/ run[r].ai.decision.recommendation = "BLOCK"
             \/ run[r].ai.decision.confidence < 600000
        [] OTHER -> since({"MINT"})

(* No chip is turned down for nothing: a run fails only over a tool, a     *)
(* device whose response does not match, a design the policy objects to,   *)
(* models that block it or are not sure, evidence grown old, evidence      *)
(* another run has used, or a mint or an edit since its mint began.        *)
(* Whatever a mint that died has left behind, the next one makes whole.    *)
RefusalCaused ==
  \A r \in Runs :
    pc[r] = "ended" /\ run[r].result # "COMPLETED" /\ ~run[r].faulty => Caused(r)

(* The power trace given to the models has the digest that ChipWhisperer   *)
(* reported: the digest only, for a trace may be replaced between the two  *)
(* times it is opened.                                                     *)
DigestAsReported ==
  \A r \in Runs : run[r].ai # NONE => run[r].bound = run[r].compared

(* The traces are tied to no mint, and Verilator reads the RTL anew: only  *)
(* if no other mint was at work since the run's mint began are all traces  *)
(* analysed those it wrote, and only if nobody edited the RTL either is    *)
(* the simulation of its design.                                           *)
Undisturbed ==
  \A r \in Runs : run[r].ai # NONE =>
    LET m        == run[r].fixture.mint
        evidence == run[r].ai.evidence
        own      == Trace(mint[m].netlist, mint[m].netlist)
    IN  "MINT" \notin spoiled[m] =>
          /\ run[r].capture = own
          /\ evidence.power = own /\ evidence.em = own /\ evidence.timing = own
          /\ "EDIT" \notin spoiled[m] => run[r].output = Design[mint[m].netlist].output

(* The netlist, the RTL digest and the SBOM that a run passes with are of  *)
(* one mint, always; its power trace is the one reported, by digest; its   *)
(* other evidence is of that mint if nothing came between.                 *)
EvidenceOfOneMint == OneMint /\ DigestAsReported /\ Undisturbed

(* A mint alone succeeds: it fails only beside another one, over its tools, *)
(* a netlist without cells or a device that cannot be enrolled.            *)
MintFailureCaused ==
  \A m \in Mints : pc[m] \in {"failed", "disagree"} =>
    \/ "MINT" \in spoiled[m] \/ faults > 0 \/ mint[m].attempts = Attempts
    \/ mint[m].netlist # NONE /\ Design[mint[m].netlist].metrics.cells = 0
    \/ pc[m] = "disagree" /\ "EDIT" \in spoiled[m]

(* Neither a chip nor a mint fails without a cause.                        *)
FailuresCaused == RefusalCaused /\ MintFailureCaused

(* Whatever is begun ends: nobody waits for the replay lock for good.      *)
EverythingEnds ==
  \A p \in Mints \cup Runs : pc[p] # "idle" ~> pc[p] \in Over
=============================================================================
