# Verification of the semiconductor security platform

TLA+ modules, TLC configurations and TLAPS proofs for the platform in `src/`: a Flask and
SocketIO server with command-line tools beside it, which takes a chip's file through
ingestion, PUF authentication, hardware checks, AI analysis, export compliance and two
ledgers, and decides whether the chip may be deployed.

Contents: [the system](#the-system), [modules](#modules), [runs](#runs),
[findings](#findings), [bounds](#bounds), [fairness](#fairness), [proofs](#proofs),
[limits](#what-is-not-modelled), [plan](#plan), [commands](#commands).

## The system

One gunicorn worker with 32 threads (`gunicorn.conf.py:14-16`) serves requests;
`manage.py` and `app/factory.py` start other processes on the same `data/` directory.  There
is no database: state is in files, under `flock` where the code takes one, and on two ledgers.
The actors are therefore *threads and processes that share files*, each of which may die
between any two steps, and *remote calls that may time out and still take effect*.

### Components

| component | state | operations | what makes it correct | status |
|---|---|---|---|---|
| JSON event store (`app/storage/event_store`) | one journal file per scan and month, a lock file per scan | `append`, `locate`, `events`, `snapshot`, `verify`, `rebuild` | one journal per scan; an intact hash chain; an event acknowledged is there, stays and can be read; a scan is opened once | modelled, safety proved |
| Indexes and snapshots (`app/storage/indexes`, `snapshots`) | four index files under one lock, a snapshot file per scan | `IndexBuilder.update`, `IndexRebuilder.rebuild`, `SnapshotBuilder.update` | show only events that exist; agree with each other; follow the journal | modelled, agreement proved |
| PUF challenge-response (`app/hardware/puf`) | a profile file per device, one ledger file of challenges, locks for both | `enroll_device`, `issue_challenge`, `authenticate` | a challenge is issued once, consumed once, accepted once and in time | modelled, safety proved |
| Blockchain provenance (`app/blockchain`), with the Go chaincode and the Solidity contract | Fabric records, Ethereum anchors, receipt files, events | `record_scan`, `RecordProvenance`, `AttachEthereumAnchor`, `RevokeProvenance`, `anchor` | Fabric first; no ledger, receipt or event claims what another does not hold; nothing on record is lost | modelled, safety proved |
| Integrated pipeline (`app/integration/service.py`), with `ComplianceService.evaluate` | a file per run, the run in memory; the scan, challenge and ledgers it touches | `run_file`: eight stages, each saved before and after, with stop and exception paths | at most one deployment per authentication, and for every reason; fail closed; a verdict is final | modelled, safety proved |
| Terminal pipeline (`app/pipeline`) with the commands of `manage.py` | run, hash index and quarantine files under one lock per operation | `Phase3Orchestrator.run`, `resume`, `save_run`, `register_file_hash`, `quarantine`; `scan`, `scan-all`, `pipeline-run`, `pipeline-all`, `resume-scan` | verdicts follow from the file; refusals are on record; a run answers for the content it judged; what was interrupted can be taken up | modelled, safety proved |
| Compliance, gate and policy rules (`app/compliance`, `simulation_gate.py`) | none | `decide`, `evaluate_simulation_gate`, export and supplier rules | no order of the rules lets a chip through that one of them objects to | modelled, as operators |
| REST API (`app/api`), rate limiter, audit log | a window of request times under a mutex; one audit file per day under one lock | `submit_scan`, the queries of the page, `RateLimiter.check`, `AuditWriter.write` | a scan is accepted once; whoever is answered is on record, in an unbroken chain; never more than the limit in a window | modelled, safety proved |
| Socket feed (`app/websocket`) and dashboard script | connections; the page's scans, events and versions | publish, connect, refresh, hydrate, merge, notify | forgets no event and no verdict; hides no refusal; comes to show what the store has | modelled |
| OpenTitan attestation (`app/hardware/opentitan`) | the highest counter accepted, in a file under a lock | `verify`, `next_counter`, the signing script | counters are accepted in order, each once, while fresh, whatever races or dies | modelled, order proved |
| Hardware stages (`app/hardware/integration.py` and the six adapters) | evidence files: RTL, traces, SBOM, twin | the six stages, the twin's repository | a chip passes on a manifest's own netlist, RTL and SBOM, and fails only with a cause | modelled, safety proved |
| Minting of evidence (`scripts/demo/mint_hardware_evidence.py`) | the same files, and the fixture that names them | `mint_fixture`, file by file | a mint alone succeeds, also after one that died | modelled |
| AI risk subsystem (`app/ai`, `integration/adapters.py`, `evidence_features.py`) | none between calls | evidence contract, fusion, classes, verdict of the stage | the models see what the stages reported on | modelled around the models; the models themselves are an input |
| PUF simulator, analysis of traces, training scripts | none between calls | numerical | - | inputs of the modules |
| Configuration, factory | wiring | - | - | not modelled |

"Modelled" is said of the control; what each module leaves out is in `PROJECT.json` and
[below](#what-is-not-modelled).

### How they interact

- *Calls.* A pipeline run submits its scan over the REST route, calls the PUF adapter, the
  hardware pipeline and the AI, then `ComplianceService.evaluate`, which itself calls
  `BlockchainService.record_scan`; the blockchain stage only looks at what that returned.
- *Shared files.* Every component notes its progress in the event store; runs of one file
  share its envelope, hence its challenge in the PUF ledger; operators record scans on the
  ledgers by another route while runs are under way.
- *Evidence.* An engineer mints the evidence of a chip as files; the runs read them one by one,
  each stage when its turn comes, while another mint or an edit may replace them.
- *Messages.* An append in the server is broadcast on the socket; command-line processes write
  the same store but have no browser to tell.  The page repairs that by asking over REST.
  (`IntegratedPipelineService._publish` looks for methods `SocketPublisher` does not have, so
  that pipeline events are never sent; the modules leave them out.)

### What is hard

`PROJECT.json` lists every hazard at its line, with the properties aimed at it.  In short:
work done *after* a lock is dropped (index and snapshot updates, `writer.py:132`); critical
sections that look like one and are two (the search for a finished run and the first save of
a new one, `service.py:139`, `orchestrator.py:384`); files read again after they were judged
(`adapters.py:417`); a clock read before a lock is waited for (`rate_limiting.py:26`); writes that
fall short and are not noticed (`audit/writer.py:57`); deletion of the index beside running
appends; remote calls that time out and take effect later; exceptions between two of a run's
saves; steps of several that fail and are swallowed; a page that awaits three answers while
messages change what it shows (`dashboard.js:536`).

## Modules

Lines of the source for every definition are in `PROJECT.json`, under `map`.

| module | models | variables stand for | actions stand for |
|---|---|---|---|
| `JsonLines` | a file of one JSON record per line, and what a short `os.write` leaves | `lines`, and how the file ends (`tail`) | `Opened`, `WriteLine`, `WritePart` |
| `HashChain` | `EventRecord`, `seal_event`, `verify_chain` | - | operators `Seal`, `VerifyChain` |
| `EventLog` | *abstract*: a history per scan that grows at its end | `log`, `acked` | `Extend`, `Acknowledge` |
| `EventStore` | `EventWriter.append`, `IndexBuilder.update`, `SnapshotBuilder.update`, `EventReader.locate`, `EventStoreRecovery.rebuild`, `FileLock` | the journals, the four index files, the snapshots, both locks, each thread's locals | one per system call that another process can come between |
| `EventStoreProofs` | theorems about `EventStore`: the journals and what is found in them | | |
| `EventStoreIndexProofs` | theorems about `EventStore`: index files and snapshots | | |
| `ChallengeLife` | *abstract*: absent, issued, consumed | `stage` | `Issue`, `Consume` |
| `PufChallenges` | `enroll_device`, `issue_challenge`, `authenticate`, `ChallengeLedger`, `EnrollmentRepository`, the two validations of an envelope | profiles, the ledger file, both locks, the clock | one per critical section and per unlocked read |
| `PufChallengesProofs` | theorems about `PufChallenges` | | |
| `LedgerLife` | *abstract*: unknown, committed, anchored | `stage` | `Commit`, `Anchor` |
| `Provenance` | `record_scan`, `FabricTransactions`, `AnchorService`, `EthereumClient.anchor`, `ReceiptRepository`, the chaincode, the contract | world state with versions, endorsed transactions, mempool and nonce, receipts, events | one per remote call, per answer and per local write; `Order` and `Mine` are the networks |
| `ProvenanceProofs` | theorems about `Provenance` | | |
| `IntegratedPipeline` | `IntegratedPipelineService.run_file`, with the handlers it calls | the run files, each process's run in memory, the scan's events, the ledgers, spent challenges | one per stage function, per save, per exit |
| `IntegratedPipelineProofs` | theorems about `IntegratedPipeline` | | |
| `ChipRules` | the pure rules of the terminal: `_permanent_rejection`, `evaluate_simulation_gate`, the AI profiles, export, supplier and policy engines, the payloads of both callers | - | operators over the facts of a file |
| `RunLife` | *abstract*: a run is begun once, gets one verdict, and answers only once it has it | `state`, `answer` | `Start`, `Finish`, `Answer` |
| `PipelineRuns` | the five commands of `manage.py`, `Phase3Orchestrator`, `PipelineRuntimeStore` | the simulation files, run, index, quarantine and compliance files, the ledgers, each command's locals | one per read of the file, per write, per remote call, per command |
| `PipelineRunsProofs` | theorems about `PipelineRuns` | | |
| `Projections` | how a run becomes a view: `_enrich_snapshot`, `deriveScan`, `mergeIntegratedRun`, `statusOf`, `effectiveRisk`, `mergeSocketEvent` | - | operators |
| `WebServer` | `submit_scan` with the request hooks, `RateLimiter`, `AuditWriter`, `SocketPublisher` | journals by length with `latest.json` and snapshots, the limiter's window, audit files and their lock, messages on the wire, requests | one per lock, per write, per answer |
| `Dashboard` | the page: load, socket, refresh, hydration, notifications; what stages write meanwhile | the state of the script, the refresh and the hydrations under way, saved runs | what the script does between two awaits is one action |
| `WebServerProofs` | theorems about `Dashboard` with `WebServer`: the requests, and the page | | |
| `HardwareRules` | the checks of the verifier, the Yosys, trace, Verilator and twin rules, the SBOM's digest | - | operators |
| `Attestation` | drawing, signing and consuming of counters | the attestation file, the counter file and its lock, the clock | one per read, check, lock and write |
| `AiEvidence`, `AiRisk` | `build_ai_evidence`, `build_ai_controls`, missing features; `fuse`, `confidence_score`, `decide`, the AI stage's verdict | - | operators |
| `HardwareEvidence` | `mint_fixture`; PUF, the six hardware stages, AI and policy of a run | all evidence files, each mint's and run's locals | one per file a script writes or a stage reads |
| `HardwareEvidenceProofs` | theorems about `HardwareEvidence` with `Attestation` | | |
| `MC...` | definitions for TLC: contents, scripts, designs, scenarios, symmetry | `scenario` | - |

How they fit together:

    EventStore    extends HashChain, JsonLines   implements EventLog
    PufChallenges extends JsonLines              implements ChallengeLife
    Provenance                                   implements LedgerLife
    PipelineRuns  extends ChipRules              implements RunLife
    Dashboard     extends WebServer, which extends JsonLines, Projections
    HardwareEvidence extends Attestation, AiEvidence, AiRisk; uses ChipRules
    IntegratedPipeline counts on ChallengeLife (spent), LedgerLife (ledger), EventLog (journal)
    PipelineRuns counts on LedgerLife, WebServer on EventLog, HardwareEvidence on ChallengeLife

A module does not repeat its parts: it uses what each promises.  In `IntegratedPipeline`,
`spent` is the set of challenges in stage *consumed*, `ledger` is the `stage` of `LedgerLife`,
`journal` the kinds of events a scan's history holds; in `WebServer` a record enters its journal
in one step, which fails if the scan is there, and the projections follow in steps of their own.
Those promises are the refinements the runs check and TLAPS proves.

Conventions:

- A step is what happens between two points where another thread or process can be noticed:
  a system call, the release of a lock, a remote call.  Whatever the code does in one critical
  section or in memory is one action.
- `pc[p]` names the step a thread takes next, `call[p]` the arguments and locals it carries.
- A death (`Die`) may hit any thread before any of its steps.  Its files stay, its locks go.  It
  stands for a killed process and for an exception the code does not handle.
- Definitions headed *Fault* are plausible bugs.  Nothing in the specifications uses them;
  each stands before the definition it would replace and shows that a property notices it
  (`mutants` in `PROJECT.json` pairs every property with one).

Abstractions that matter:

- A hash is a fresh number: SHA-256 does not collide, and the hashed content has a UUID or a time.
- A PUF response matches or does not; what a stage finds out about a chip is an input.
- A batch sent to Ethereum has one leaf, as in every call in `src/`, so its root is the leaf.
- `status` and `chip` indexes are sets; `latest.json` is a list, with the cap of the code as
  a constant.
- Journal directories are calendar months `1..Months`; months only move forward.
- A stage of the integrated pipeline may report an error of its tools as a failure of the chip.
  Its entry is FAILED in the file; the model calls it BROKEN, to tell it from a finding.
- In `IntegratedPipeline` and `PipelineRuns`, a run and the scan it submits share a number,
  because every run mints a scan identifier of its own.
- In `PipelineRuns` a file's content stands for its hash.  A content is a scenario name with one
  fact moved to either side of its bound, or with none.
- In `HardwareEvidence` a digest stands for what it was computed from, and an enrolment for the
  mint that made it.  What Yosys, Verilator and the comparison of traces find is a function of
  the design; whether a device's response matches is decided by noise when it responds.
- In `Dashboard` the events and saves of a scan are a script, a constant; how far it got is
  state. A snapshot is the number of the event it tells of.  `read[s]`, the state of the run
  file that the view was last merged from, is a history variable: the page has no such mark.
  Scores are whole numbers of hundredths.  `Statuses` are the words that events put in, a
  constant.

## Runs

An instance explores several scenarios side by side; each spends the bounds on something else
and is described in its `MC` module.

| run | instance | distinct states | shows |
|---|---|---|---|
| `store_safety` | 2 threads, 2 scans, 2 months, 3 appends, a rebuild, 1 death or short write | 516,179 | `OneJournal`, `ChainIntact`; acknowledged events are served, even while the index is gone, unless a short write tore their journal (`AckedFound`); the projections show what is in the journals and agree (`ProjectionsTrue`), and when calls do not overlap they are up to date (`LatestAlone`); the store implements `EventLog` (`ImplementsLog`) |
| `store_live` | 2 threads and a rebuild, no fault | 99,130 | every call returns (`CallsReturn`) |
| `store_stale_snapshot` | 2 threads, 2 appends | violation | `SnapshotLatest` fails with two writers |
| `puf_race` | 2 threads, 2 devices, bank of 2, 5 calls, 1 fault, expiry | 176,615 | `ServesOnce`, `AcceptedInTime`, `KeptUnlessReplaced`, `CallsReturn`; the ledger implements `ChallengeLife` |
| `prov_safety` | 2 threads, 2 scans, a revocation, 1 timeout or death | 68,690 | `ClaimsTruthful`, `RecordKept`; the calls implement `LedgerLife` |
| `prov_retry` | 1 thread, 1 timeout, retries for ever | violation | `AnchoredInTheEnd` fails |
| `pipe_runs` | 2 processes, 2 runs of a file, an operator, 1 death or failing save | 983,394 | `DeployedOnce`, `VerdictJustified`, `FailClosed`, `RunningAttended`, `VerdictStays` |
| `pipe_review` | 1 run | violation | `ReviewRouted` fails |
| `terminal` | 333 contents through every command; 2 processes, an edit at any time, 1 fault and an operator who resumes; a directory of 2 files without Ethereum | 375,294 | `VerdictsJustified`, `RefusalsRecorded`, `AnswerJudged`, `RunsRecover`; the store implements `RunLife` |
| `feed` | 2 threads and a process that submit, 4 requests over windows that end, 1 failing or short write; a page over scans of six outcomes with a lost connection or a failed request | 229,261 | `AnswersSound`, `PageSteady`, `FeedSettles`, `RequestsAnswered` |
| `feed_repair` | the same | violation | `EventsRepaired` fails |
| `hardware` | 2 mints, 2 runs, 8 designs, 6 outputs of the models; 1 death or failing tool, or up to 2 edits | 77,138 | `AttestedInOrder`, `EvidenceOfOneMint`, `FailuresCaused`, `EverythingEnds` |

Each module's `TypeOK` is checked in one of its runs.  The comment above a property says in
words what it claims and about which behaviour of the code; a property made of several named
parts (`ServesOnce`, `ClaimsTruthful`, `VerdictsJustified`, `AnswersSound`, `PageSteady`, ...) has
one comment per part.

## Findings

Four runs find the code at odds with what the repository says of it; `PROJECT.json` quotes
the lines.

1. *Stale snapshot* (`store_stale_snapshot`).  `append` drops the scan's lock before it updates
   index and snapshot.  Of two appends the slower one writes the older event over the newer
   one, and the snapshot stays behind its journal until the next append.
2. *No anchor after a timeout* (`prov_retry`).  The only operation that anchors a scan begins
   with `RecordProvenance`, which the chaincode refuses for a scan on record: after one timeout
   past the Fabric commit, no retry gets as far as Ethereum.
3. *Review becomes denial* (`pipe_review`).  `_deployment_decision` knows two of the policy
   engine's decisions; HOLD and MANUAL_REVIEW end in quarantine.
4. *Events that are not repaired* (`feed_repair`).  The page remembers up to which event it has a
   scan.  A message that follows a lost one, or a snapshot younger than the events answer
   beside it, moves that mark past events the page has not got, and no refresh asks for them.

Seen while modelling, without a run of their own:

- *Store.*  A write that misses only its newline raises, but the line still parses; the next
  append lands on the same line and is acknowledged, and the journal cannot be read any more
  (`writer.py:124`).  A rebuild can leave the index behind an append beside it (`rebuild.py:28`;
  `docs/ARCHITECTURE_GUIDE.md:251`).  `snapshot()` of an empty journal raises `IndexError`
  (`reader.py:72`).
- *PUF.*  A device enrolled anew while an authentication runs is judged by the profile loaded
  before (`adapter.py:186`).
- *Provenance.*  A stored receipt is used only if the same document is anchored again, which
  never happens, because a document holds the time (`blockchain/service.py:78`).
- *Integrated pipeline.*  A missing master secret "surfaces as an infrastructure hold" in the
  docstring of `_puf_adapter` (`service.py:554`), but `PUFConfigurationError` is a `PUFError`
  and quarantines the chip (`service.py:617`).  A hardware tool that is missing or times out
  becomes a QUARANTINED result, and so a chip in quarantine (`hardware/integration.py:87`).  A
  death leaves a run RUNNING that nothing takes up (`service.py:1494`).  A run on hold for its
  blockchain result cannot be repeated: its envelope is spent, and the new run is quarantined as
  a failed authentication (`service.py:313`).  `run_file` is also answered by the older
  pipeline's store (`service.py:379`).
- *Terminal.*  The file is read once for its content and once for its hash; an edit in between
  registers one content's verdict under the other's hash (`orchestrator.py:381`).  Without
  Ethereum in the configuration, a run that must be anchored completes with a commit to Fabric
  alone (`blockchain/service.py:117`), although the message of the stage it passes speaks of
  both ledgers (`orchestrator.py:773`).
- *AI and policy.*  The risk engine blocks from 0.65, policy denies from 0.80, the AI stage from
  0.85, and the stage compares the class with labels the engine never gives
  (`adapters.py:1095-1105`): a chip that is recommended to be blocked, with a risk of 0.65 to
  0.80 and enough confidence, is deployed.  Two detectors at full alarm with a base of 0 fuse
  to 0.55.  `sbom_mismatch` and `custody_tampered` of `fuse` are set by nobody.
- *Evidence.*  The traces are tied to no mint, and the EM and timing traces not even to a digest
  when the models read them (`adapters.py:424`).  An edit taken back between synthesis and SBOM
  lets Verilator judge another source.  A trace is read for its samples and once more for its
  digest (`capture.py:39`, `:111`): the digest reported need not be that of the samples
  analysed.  A device whose response is too noisy is refused after its challenge is used up
  (`verifier.py:273`).  The challenge expires after 120 s, the script announces 300 s.
- *Feed.*  A scan that sinks below the first 24 is never refreshed again (`dashboard.js:624`).  A
  scan without a saved run shows the status of its snapshot, which may be that of an earlier event
  for good (finding 1).  A torn audit line makes every submission of that day answer 500, after
  the scan is accepted.  A STOPPED run with DO_NOT_DEPLOY_PENDING_REVIEW shows as a manual review
  although it is quarantined, and a running scan may show the decision its file expects
  (`dashboard.js:394`).
- *Compliance.*  `defense_related` is evaluated by `evaluate_itar` only
  (`export_control/itar.py:31`), which nothing calls.

## Bounds

Every bound is a constant that starts with `Max`, or the size of a set.

- *Two actors* per race.  Each hazard in the list is a race of two, one of whom is slow; the
  third actor where one is needed is a rebuild, the operator, an editor or the network.  The
  [theorems](#proofs) remove the bound, and every other one, for what they prove.
- *One fault*, so that its consequences are not confused with a second one's; a torn write or a
  death is followed by every continuation the other calls allow.
- *Store.*  Two months, three appends: the first append of each thread races over the turn of
  the month, and a third one finds what they left.  `LatestCap` 2 with two scans: nothing is
  claimed of a scan that fell off the end of the list, and none does.
- *PUF.*  A bank of two challenges, five calls: issue both, ask for a third, authenticate with
  both, enrol anew meanwhile.  `MaxTime` 2 with `TTL` 1 lets an envelope expire at every step.
- *Provenance.*  Three digests, two scans: both threads record, and one of them tries again.
- *Integrated pipeline.*  Two runs of one file, concurrent, consecutive or forced.  Two files that
  carry one envelope differ from one file run by force only in the search for completed runs,
  which force skips; `OneDeployment` is proved for any files.  Three of the five decisions in
  `pipe_runs`, one of each kind `_deployment_decision` tells apart; `pipe_review` has all five.
- *Terminal.*  Scenario `rules`: one command on each of 333 contents, which are all scenario names
  with each fact on either side of its bound.  `race`: two processes and one file with three
  contents, two runs, one edit at any time, between the two reads of a command too, and one fault.
  `batch`: a directory of two files, without Ethereum.
- *Feed.*  Two requests within two ticks fill the limiter, and with two ticks of clock a window
  ends, so that a request that read the clock early and waits for the lock sees entries thrown
  away by one that read it later; the fourth request is the one too many.  One message lost, one
  request failed or one connection dropped; `HydrateLimit` 1 of two scans lets one sink below
  it; `Attempts` 1 lets the socket client give up.  Six scans, one per outcome the page tells
  apart (`doubtful`: compliance asks for a review in its event and the policy denies in the
  run); one is under way at a time, and two in scenario `two`.  Appends end half way there (an
  index without a snapshot), and overlap, so that an older snapshot overwrites a newer one.
- *Hardware.*  Scenarios: two runs of one mint as time passes; two mints and two runs; a mint
  that dies and the next one; two mints at once; an edit at any time; two edits, the second of
  which may take the first one back (`undo`); every design with every output of the models.
  Designs lie at, and one beyond, each bound of the policy; outputs at each threshold.  One unit
  of time is 120 s or more (`ChallengeTtl` 1, `maximumAge` 2 for 300 s); two attempts at
  enrolling stand for five.

Deadlock is not checked where the bounds on calls run out and the system ends there
(`CHECK_DEADLOCK FALSE`); it is checked in the two `Provenance` runs, where a call for a scan on
record can always be made.  That nothing gets stuck is `CallsReturn`, `RunsRecover`,
`RequestsAnswered` and `EverythingEnds`.

## Fairness

- `EventStore`, `PufChallenges`: strong fairness of each thread's next step.  Threads are
  scheduled by the kernel, and each waits for at most one lock at a time.  The locks are blocking
  `flock`s, whose waiters the kernel serves in turn; a weaker assumption would let one waiter be
  passed over for ever.  Beginning a call, a death and the clock are not fair.  Runs of
  `CallsReturn` have `MaxFaults = 0`: a dead call does not return.
- `Provenance`: weak fairness of threads and of both networks, and strong fairness of asking
  again for every scan, which is what an operator's "retry" is.  A timeout is never fair.
- `IntegratedPipeline` states no liveness: a run of it is one sequential call, whose waiting
  takes place inside the parts modelled above.
- `PipelineRuns`: weak fairness of each process's next step, and of an operator who resumes some
  run when a terminal is free.  The code has no scheduler that would resume by itself, so that
  `RunsRecover` says what the command is good for.  Faults and edits are not fair.
- `Dashboard`: weak fairness of every request's steps, of the page's refresh (a timer and its
  callbacks) and of the delivery of a message that is on the wire.  Opening the page,
  connecting, stages, the rest of their appends and saves are not fair: a stage's process may
  die between its journal, its index and its snapshot.
- `HardwareEvidence`: weak fairness of *some* step of what is begun; scripts and threads are
  scheduled, and external tools are killed at their timeout.  Beginning a mint or a run, deaths,
  edits and the clock are not fair.

## Proofs

All proofs are checked by TLAPS 1.4.5 with Z3, Zenon and LS4.  They hold for every value of the
constants that satisfies the assumptions below.  In each module the argument has one form: an
inductive invariant (the properties, and what each process relies on at each of its steps), a
lemma per action or per group of alike actions, and a temporal step that combines them.  TLC
checked every invariant on the runs' instances before it was proved.

| module | theorem | states | for |
|---|---|---|---|
| `EventStoreProofs` | `TypeCorrect`, `OneJournalPerScan`, `ChainsStayIntact`, `AcknowledgedIsFound` | `TypeOK`, `OneJournal`, `ChainIntact`, `AckedFound` | any threads, scans, months, rebuilds, deaths, short writes |
| | `ScansOpenedOnce`, `SnapshotsAreFaithful`, `StoreImplementsLog` | a scan is opened once; a snapshot shows an event of its journal; `ImplementsLog` | |
| `EventStoreIndexProofs` | `ProjectionsAreTrue`, `AloneIsLatest` | `ProjectionsTrue`, `LatestAlone` | any threads, rebuilds, appends, deaths; finitely many scans |
| `PufChallengesProofs` | `PufTypes`, `ChallengeServesOnce`, `AcceptsInTime`, `EnrolmentKept`, `LedgerImplementsLife`, `LocksExclusive` | `TypeOK`, `ServesOnce`, `AcceptedInTime`, `KeptUnlessReplaced`, `ImplementsLife`; the locks cover each look and the write after it | any threads, devices, banks, calls, faults |
| `ProvenanceProofs` | `LedgerTypes`, `LedgersAgree`, `RecordsStay`, `LedgersImplementLife` | `TypeOK`, `ClaimsTruthful`, `RecordKept`, `ImplementsLife` | any threads, scans, documents, revocations, faults |
| `IntegratedPipelineProofs` | `TypeCorrect`, `OneDeployment`, `NobodyAbandons`, `VerdictsAreFinal`, `PipelineFailsClosed`, `VerdictsHaveReason` | `TypeOK`, `DeployedOnce`, `RunningAttended`, `VerdictStays`, `FailClosed`, `VerdictJustified` | any processes, files, runs, findings, faults |
| `PipelineRunsProofs` | `TerminalTypes`, `AnswersWereJudged`, `VerdictsHaveReasons`, `RefusalsOnRecord`, `RunsLive` | `TypeOK`, `AnswerJudged`, `VerdictsJustified`, `RefusalsRecorded`, `ImplementsRunLife` | any processes, files, contents, runs, edits, faults |
| `WebServerProofs` | `ServerTypesKept`, `AnswersAreSound` | requests are well-typed, numbered and write one at a time; `AnswersSound` | any threads, processes, requests, days, limits, windows, faults |
| | `PageTypesKept`, `PageIsSteady` | `Dashboard`'s `TypeOK`; `PageSteady` | any scans, journals, run files, limits, lost messages, failed requests |
| `HardwareEvidenceProofs` | `EvidenceTypes`, `AttestationsInOrder`, `JudgedOnOneMint`, `FailuresHaveCauses` | `TypeOK`, `AttestedInOrder`, `EvidenceOfOneMint`, `FailuresCaused` | any mints, runs, designs, policies, outputs of the models, deaths, edits |

What is assumed of the constants (each assumption is named and evaluated by TLC in the runs):
bounds are natural numbers, where the code divides or indexes by them positive
(`StoreAssumption`, `PufAssumption`, `ProvenanceAssumption`, `PipelineAssumption`,
`TerminalAssumption`, `ServerAssumption`, `DashboardAssumption`); threads and processes are
finitely many, where they are counted; so are scans, whose number is held against the cap of
`latest.json` (`IndexAssumption`); `NONE` is not a value of anything else (`NoneAssumption`,
`NoneIsNoRecord`, `NoneIsNothing`); the identifiers of mints and runs differ (`ProcessesApart`);
the facts of a terminal file are of the kinds its parser lets pass, and a directory lists at
least one file (`TerminalAssumption`); the verifier's and the analysis' configuration is what
their loaders accept (`ConfigurationSound`); what Yosys and Verilator count are natural numbers,
and the scores of the models percentages (`MeasuresSound`).

Two theorems assume more, in their statements, and TLC evaluates both assumptions
(`ConfigurationAdmits` in `MCHardwareEvidence`).  `JudgedOnOneMint` and `FailuresHaveCauses`
need that the twin compares all digests (`AllMatched`), as `configs/hardware/digital_twin.json`
says; a shorter list of fields would let a run pass on the evidence of two mints.  Both also
need a configuration that admits what `mint_fixture` writes (`AdmitsMinted`): a device in
`PROD`, the simulated firmware among the trusted ones, at least counter 1, a nonce of 24 bytes,
traces called simulated, and a feature schema that asks for nothing but what a reference and a
simulation yield.  `configs/hardware/opentitan.json` (minimum counter 0, nonces of 16 bytes,
`PROD` among the states), `configs/hardware/chipwhisperer.json` and
`configs/application/ai.json` (schema 2.1) are such a configuration; with schema 1.0, say, every
run would stop before the models.

**`EventStoreProofs`.**  `TypeInv` adds to `TypeOK` which locals a step relies on (`LocalsOK`:
inside an append the scan and the event are set, inside an index update the cursor is 1 to 4, and
so on).  `JournalInv` carries the argument for the journals:

- `LockOK`: a thread between `prepare` and `write` holds its scan's lock, so there is one of
  them (lemma `Exclusion`);
- `PreparedOK`: what that thread read and decided is still so: its partition is the only one a
  journal exists in, its event is the sealed successor of the last line.  This is what makes
  the invariant inductive; it is the formal content of "read, decide and append under one lock";
- `FilesOK`: a file that does not exist has no lines.

From these, a write extends a chain by its successor (`ChainExtends`), an opening append only
happens on an empty history (`OpeningExtends`), and every other step is a frame (`JournalFrame`,
`OthersPrepared`).  For `AcknowledgedIsFound` and `StoreImplementsLog` the invariant grows by
what a thread that has written knows of its event (`Stored`): it stays in its place, whatever
happens to the index, since partition and position never change.  That a reader is not only led
there but served needs `TornOK`: a file that ends within a line, or holds a line that does not
parse, is one a short write tore (`torn`, a history variable).  Of such a journal `AckedFound`
says no more than that its record is in its place; how to repair it, and that appends are still
acknowledged after it, no document says.

**`EventStoreIndexProofs`.**  The four files are read and written one after the other, under one
lock for appends (`IndexLocked`), and are deleted by a rebuild that takes none.

- *Agreement.*  A scan is `Due` as long as somebody will still bring it up to date: an append
  past its write, a rebuild with events of it to replay.  The invariant (`Told`) says of every
  scan with events that is not due: there is *one* status such that each file on disk shows it
  or, while an update is under way, the half of it that is on disk and the half in memory
  together do (`AtWork`).  The steps that matter are those of an update for *another* scan,
  which must carry this one's entries over unharmed, also through `MoveToFront` (`FrontedFacts`:
  no scan falls off a list whose cap is not below the number of scans), and of the last event of
  a replay, with which a scan stops being due.  Only an undamaged store has this: a death leaves
  a scan due that nobody is going to update.
- *Up to date.*  When calls do not overlap, what the snapshot and `scan_index` lack is what the
  one thread at work is about to write (`Fresh`), it read the rest of the index unchanged
  (`HandTrue`), and its event is the last of its journal (`LastHeld`).

**`PufChallengesProofs`.**  The ledger's lock is held exactly in `issue` and `consume`
(`LockHeld`), and that of a device by the enrolment between its look at the profile and the
replacement (`EnrolHeld`); `LocksExclusive` is those two. The rest says who may still do what
with a challenge: an issued one that was not handed out yet belongs to one call
(`PendingAlone`), a consumed one to one verifier (`VerifierAlone`), and what the scan of the
bank went past is issued (`PassedIssued`), since the ledger only grows.

**`ProvenanceProofs`.**  Nothing serialises the calls.  What holds them together is that a
digest is minted once (`Budget`), so that of all calls for one scan only one finds its own
document on record, and that a transaction takes effect only on the record it was endorsed on
(`Transactions`, from the version that is read).  `Calls` says what a call has reached at which
step.

**`IntegratedPipelineProofs`.**  `TypeInv` adds to `TypeOK` that a run in progress has one
process (`Ownership`: its file is RUNNING and without a decision), and which stage a step
belongs to (`InStage`).  Every step of a process then has one of three shapes (`StepShape`): it
starts a run, goes on with it, or ends it, and leaves all other runs and processes alone.

- `OneDeployment`.  The invariant is `Exclusion`: whoever is past the PUF stage has its challenge
  in `spent`, and so has every deployed run; no two processes past it, no such process and
  deployed run, and no two deployed runs share a challenge.  The step that matters is the one
  where `Authenticate` takes a challenge that is not spent.
- `NobodyAbandons`: a step that ends a run writes a verdict, or is a fault.
- `VerdictsAreFinal`: a process writes to its own run only, and that one is RUNNING.
- `PipelineFailsClosed` and `VerdictsHaveReason`.  The invariant `JInv` says of every run in
  memory and on disk what its list of stages is worth: whatever a stage reports was witnessed by
  a step of it, the ledgers and events it relies on are there, and a run goes past a mandatory
  stage only if it passed.  The hard steps are those where the save of a stage's entry fails and
  the exception handler adds a second entry.

**`PipelineRunsProofs`.**  `TInv` says which locals a process has set, that the content it
parsed and submitted is the one it hashed, unless its scan is `mixed` (`Shape`), that the
content registered for a hash is that of the hash, with the same exception (`ScansAnswer`), and
that no two processes work on one scan (`OwnScans`).  `mixed`, a history variable, holds the
scans of commands whose file was edited between their two reads; everything else about them is
still claimed: their verdict follows from the content they parsed, and they answer for the hash
they were begun with. `VInv` says how far the files of a process' run have come and that the
verdict it holds in memory is justified *before* it is saved (`Work`), and the same of what is
on disk, which a process that died has left behind (`Filed`).  The refinement of `RunLife` then
needs no other invariant.

**`WebServerProofs`.**  The page, the socket and the stages leave requests alone (`StepsAre`),
so the proof is about the steps of one request beside others.

- *The limit.*  A window is either *in time* (the entries hold whoever was let through in it) or
  *overdue*: some request measured a later window and threw entries away.  Then only a request
  that read the clock before, and still waits for the lock, can be let through on its account,
  and the one that threw them away is not among them.  Hence the bound of `RateBounded`: the limit
  and one less than the threads of the process.  The lemmas `Since...` say what cutting off stale
  entries does to a sequence of times; they need the least element of a set of positions, for
  which the proof uses that the finite subsets of a set are well founded (`LeastPosition`).
- *The chain.*  Only the holder of the lock writes to the audit log (`LockHeld`), so that the
  hash it read when it opened the file is still that of the last line (`PrevHeld`).  Whoever
  finds a last line that does not parse writes nothing, so that what cannot be read back is the
  last line, with two records at most.
- *The answers.*  Who opened the journal of a scan has the projections still to write or is past
  the append, and will be told 202, or 500 if a write after that fails (`Given`); who will be
  told 202 has opened one (`Owed`); numbers of requests are not shared (`Numbered`).  What a
  request must have on record grows with its steps (`OnRecord`), and audit files only grow, and
  once damaged are never whole again (`LogGrows`).
- *The page.*  `PageInv` bounds what the page knows by what the server has: no mark, event or
  stage the page holds is ahead of its journal and run file (`Founded`), and an answer that is
  held until its fellows arrive is no older than the list it was asked for with, nor is that
  older than what the page has merged (`AnswersFit`, `ListSound`), because refreshes do not
  overlap (`refresh.phase`) and the socket never touches `read`.  As to events, a snapshot may be
  older than the journal for good: it is bounded by the journal and no more is said.
  Journals and run files only grow, so `Later` carries all of it over the steps of the server
  (`PageKept`).
- *What it shows.*  `RunsAdvance` is `AnswersFit` at the step that merges.  For `DecidedStays` a
  view that was merged from a decided run has that run's decision (`ViewSound`), merging the
  same run once more gives the same verdict (`EndMerged`), and an event changes it only if it
  puts in one of three words itself, which `LateWord` excepts (`VerdictStays`).  That exception
  is not there for the proof: without it TLC finds a message from before the end that turns a
  verdict back (scan `doubtful`).

**`HardwareEvidenceProofs`.**  A counter out of a mint is at most one above the last one
accepted, and as long as it is above, nothing was accepted since it was drawn (`AttestationOK`):
counters are drawn without a lock and may be drawn twice, but whoever stores one first makes the
other stale. For the evidence, a mint that saved its twin measures no more (`TwinTrue`), a run's
fixture names such a mint (`FixtureTrue`), and what a run held against the twin does not change
later (`RunsTrue`).

`JudgedOnOneMint` has three parts, and they differ in strength because the code does.  Netlist,
RTL digest and SBOM are compared with the twin, so that a run passes with those of one mint
whatever happens (`OneMint`).  The power trace is bound by its digest to the one reported
(`DigestAsReported`), and by nothing to the samples that were analysed, which are read
separately.  All traces, and the simulation, are of the run's own mint if no other mint began
since, and for the simulation nobody edited the RTL (`Undisturbed`); that is `GivenOwn`, which
needs the account of the evidence below.

`FailuresHaveCauses` follows the evidence from the mint that writes it into the stages that refuse
it or do not.

- *The mint.*  A mint begun while no other was at work is alone until the next one begins
  (`MintsExclusive`).  As long as it is alone every file is its own from the step on that writes
  it (`MintsOwn`), whatever earlier mints have left: RTL, unless an engineer edited it since
  (`DesignCurrent`), four traces of one netlist (`TracesOwn`), an attestation whose counter lies
  above the last one accepted, unless a run has accepted one since (`AttestationOwn`), enrolment
  and envelope (`EnvelopeOwn`), twin (`TwinOwn`).  `OwnStep` is this for a step of its own,
  `OthersSpoil` and `OwnUntouched` for one of somebody else.
- *The run.*  Its fixture names such a mint, and carries the envelope that one issued
  (`EnvelopesSigned`), whose response matches or does not.  `RunsAccounted` says what it knows
  at every step (`RunSound`): the stages it has done, what it has measured, and, if nobody
  minted since, that it is the mint's.  Each stage has a lemma (`AuthenticateSound` to
  `ComplySound`): either the run goes on and knows more, or the refusal has its cause
  (`Accounted`).
- *The rules.*  That a stage does not refuse such evidence is a lemma about its rules:
  `FreshAccepted` for the verifier's ten, `OwnTwinMatches`, `NothingRefused` for the contract
  with the models (`CountsAreSound`, `AssertionsChecked`, `FeaturesDerived`), `ModelsBlock` and
  `PolicyDoubts` for the thresholds of three components that sort one risk.
- *Why mints fail* (`MintFailsOver`).  A twin that exists is not replaced, but a mint alone has
  removed it itself; a chip that is its own reference measures no difference
  (`OwnReferenceAgrees`).
- What was a cause stays one (`AccountedAtRest`): time passes, and what is spoiled stays spoiled.

Only model-checked:

- liveness (`CallsReturn`, `RunsRecover`, `FeedSettles`, `RequestsAnswered`, `EverythingEnds`):
  it rests on fairness, and `ENABLED` is out of the prover's reach.

Every other property of a passing run is the subject of a theorem.


## What is not modelled

- What numbers are computed from: PUF statistics, spectra of traces, netlists, the models, their
  features, drift and training.  Results are inputs; the rules on them are modelled.
- Confidentiality, signatures and keys: an envelope or attestation that does not verify is
  refused, and so never appears.
- Payloads and size limits, formatting, logging, health checks; charts and the detail page;
  routes that only read, but for those the dashboard asks.
- `fsync` switched off, and the loss of what the kernel has not written: the code syncs journals
  before it acknowledges, and the models let a process die, not the machine.
- Chain reorganisations: the client takes the first receipt for final.
- The Merkle tree: every batch in `src/` has one leaf.
- Replay of socket events: the page never asks for it.
- Attestation counters in memory, which are used only where no file is configured.
- More than two edits of the RTL within one hardware run; the theorems have any number.
- Runs of the terminal pipeline's store as answers of the integrated one (`service.py:379`).

## Plan

What this code has of state and control is modelled, as far as the list above goes, and every
safety property is proved.  What would come next is what the list leaves out: the answers of the
integrated service that come from the terminal pipeline's store.

## Commands

    tlc -workers 2 -config EventStore_safety.cfg MCEventStore
    tlc -workers 2 -config Terminal.cfg MCPipelineRuns
    tlc -workers 2 -config Feed.cfg MCDashboard
    tlc -workers 2 -config Hardware.cfg MCHardwareEvidence
    for m in *Proofs.tla; do tlapm $m; done
