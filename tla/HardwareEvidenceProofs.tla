----------------------- MODULE HardwareEvidenceProofs ------------------------
(***************************************************************************)
(* Proofs about HardwareEvidence, for any number of mints and runs, any    *)
(* set of designs, and any bound on time, faults and edits.                *)
(***************************************************************************)
EXTENDS HardwareEvidence, TLAPS

(***************************************************************************)
(* What a mint and a run have at hand at which of their steps.             *)
(***************************************************************************)
RunFields  == {"fixture", "capture", "compared", "netlist", "digest", "ratio", "departs", "output",
               "sbom", "completed", "power", "bound", "em", "ai", "result", "stage", "faulty"}
MintFields == {"netlist", "digest", "reference", "next", "attempts", "envelope", "sbom"}

Shaped ==
  /\ DOMAIN run = Runs /\ \A r \in Runs : DOMAIN run[r] = RunFields
  /\ DOMAIN mint = Mints /\ \A m \in Mints : DOMAIN mint[m] = MintFields
  /\ DOMAIN spoiled = Mints /\ DOMAIN traces = ChannelSet
  /\ DOMAIN drawn = Mints /\ DOMAIN made = Mints /\ DOMAIN held = Runs /\ DOMAIN seen = Runs

MintsReady ==
  \A m \in Mints :
    /\ pc[m] \in {"measure", "traces"} => mint[m].netlist \in Designs
    /\ pc[m] = "traces" => mint[m].reference \in Designs
    /\ pc[m] \in {"idle", "synthesise", "measure", "traces"} => mint[m].next \in 1..4

TypeInv == TypeOK /\ Shaped /\ MintsReady

-----------------------------------------------------------------------------
(***************************************************************************)
(* Attestations.  A counter out of a mint is at most one above the last    *)
(* one accepted, and as long as it is above, nothing was accepted since it *)
(* was drawn: whatever was accepted before is not younger.                 *)
(***************************************************************************)
CounterOK(c) == c \in Nat \ {0} /\ (c = 1 \/ c <= replay + 1)

AttestationOK(a) ==
  /\ CounterOK(a.counter) /\ a.stamp \in 0..clock
  /\ a.counter > replay => \A i \in DOMAIN accepted : accepted[i].stamp <= a.stamp

Outstanding ==
  /\ \A m \in Mints : pc[m] = "stamp" => CounterOK(drawn[m])
  /\ \A m \in Mints : pc[m] = "write" => AttestationOK(made[m])
  /\ attestation # NONE => AttestationOK(attestation)
  /\ \A r \in Runs : pc[r] \in {"check", "lock", "counter", "store"} => AttestationOK(held[r])

(* The lock of the replay state covers the look at it and its replacement. *)
ReplayLocked ==
  \A r \in Runs : /\ replayLock = r <=> pc[r] \in {"counter", "store"}
                  /\ pc[r] = "store" => held[r].counter > replay

AcceptedPast ==
  /\ accepted \in Seq([run : Runs, counter : Nat, stamp : Nat])
  /\ \A i \in DOMAIN accepted : accepted[i].counter \in 0..replay /\ accepted[i].stamp \in 0..clock

-----------------------------------------------------------------------------
(***************************************************************************)
(* Evidence.                                                               *)
(***************************************************************************)

(* A mint that saved its twin measures no more.                            *)
Settled(m) == pc[m] \in {"fixture", "markers"} \cup (Over \ {"idle"})

TwinTrue ==
  twin # NONE =>
    \E m \in Mints : /\ Settled(m) /\ twin.puf_identity_hash = m
                     /\ twin.rtl_digest = mint[m].digest
                     /\ twin.netlist_digest = mint[m].netlist
                     /\ twin.sbom_digest = mint[m].sbom

FixtureOf(f) == f.mint \in Mints /\ f.identity = f.mint /\ Settled(f.mint)

FixtureTrue ==
  /\ fixture # NONE => FixtureOf(fixture)
  /\ \A r \in Runs : pc[r] # "idle" => FixtureOf(run[r].fixture)

(* What a run holds against the twin, and gives to the models, stays.      *)
AfterTwin == {"ai", "bind", "em", "timing", "models", "comply", "ended", "dead"}

RunsTrue ==
  \A r \in Runs :
    /\ pc[r] = "idle" => run[r].completed = {}
    /\ "digital_twin" \in run[r].completed => pc[r] \in AfterTwin
    /\ run[r].ai # NONE =>
         /\ pc[r] \in {"models", "comply", "ended", "dead"}
         /\ DOMAIN run[r].ai = {"evidence", "controls", "decision"}
    /\ pc[r] = "models" => /\ DOMAIN run[r].ai = {"evidence", "controls", "decision"}
                           /\ run[r].bound = run[r].compared

AttestationInv == Outstanding /\ ReplayLocked /\ AcceptedPast /\ AttestedInOrder

IInv ==
  /\ TypeInv /\ AttestationInv
  /\ TwinTrue /\ FixtureTrue /\ RunsTrue /\ DigestAsReported

-----------------------------------------------------------------------------
(* Types                                                                   *)

Outcomes == {"RUNNING", "STOPPED", "QUARANTINED", "RAISED", "COMPLETED"}

(* A run that moves with a state of the right kind leaves all typed.       *)
LEMMA RunTypes ==
  ASSUME TypeInv, NEW r \in Runs, NEW state, Ran(r, state), NEW step \in Steps, Goes(r, step),
         DOMAIN state = RunFields, state.result \in Outcomes, state.completed \subseteq Stages,
         step = "ended" <=> state.result # "RUNNING"
  PROVE  /\ pc' \in [Mints \cup Runs -> Steps]
         /\ \A q \in Runs : /\ run'[q].result \in Outcomes
                            /\ pc'[q] = "ended" <=> run'[q].result # "RUNNING"
                            /\ run'[q].completed \subseteq Stages
         /\ DOMAIN run' = Runs /\ \A q \in Runs : DOMAIN run'[q] = RunFields
         /\ \A m \in Mints : pc'[m] = pc[m]
<1>. USE DEF TypeInv, TypeOK, Shaped, Ran, Goes
<1>1. pc' \in [Mints \cup Runs -> Steps] /\ \A m \in Mints : pc'[m] = pc[m]
  BY ProcessesApart
<1>2. DOMAIN run' = Runs /\ run'[r] = state /\ \A q \in Runs \ {r} : run'[q] = run[q]
  OBVIOUS
<1>3. pc'[r] = step /\ \A q \in Runs \ {r} : pc'[q] = pc[q]
  OBVIOUS
<1>. QED  BY <1>1, <1>2, <1>3 DEF Outcomes

(* A run that only moves on.                                               *)
LEMMA MoveTypes ==
  ASSUME TypeInv, NEW p \in Mints \cup Runs, NEW step \in Steps, Goes(p, step),
         p \in Runs => step # "ended" /\ pc[p] # "ended",
         UNCHANGED run
  PROVE  /\ pc' \in [Mints \cup Runs -> Steps]
         /\ \A q \in Runs : /\ run'[q].result \in Outcomes
                            /\ pc'[q] = "ended" <=> run'[q].result # "RUNNING"
                            /\ run'[q].completed \subseteq Stages
         /\ DOMAIN run' = Runs /\ \A q \in Runs : DOMAIN run'[q] = RunFields
<1>. USE DEF TypeInv, TypeOK, Shaped, Goes
<1>1. pc' \in [Mints \cup Runs -> Steps]
  OBVIOUS
<1>2. \A q \in Runs : pc'[q] = "ended" <=> pc[q] = "ended"
  BY ProcessesApart
<1>. QED  BY <1>1, <1>2 DEF Outcomes

LEMMA InitTypes == Init => TypeInv
<1>. SUFFICES ASSUME Init PROVE TypeInv
  OBVIOUS
<1>. USE DEF Init, AttestationInit
<1>1. TypeOK
  BY ProcessesApart DEF TypeOK, NothingMeasured, Steps, Over
<1>2. Shaped
  BY DEF Shaped, NothingMeasured, NothingMinted, RunFields, MintFields
<1>3. MintsReady
  BY DEF MintsReady, NothingMinted
<1>. QED  BY <1>1, <1>2, <1>3 DEF TypeInv

(* The shared part of a step of a mint: what it may leave to the types.    *)
LEMMA MintTypes ==
  ASSUME TypeInv, NEW m \in Mints, NEW step \in Steps, Goes(m, step), UNCHANGED <<run, clock, replay, replayLock, rtl>>,
         DOMAIN mint' = Mints, DOMAIN mint'[m] = MintFields,
         \A x \in Mints \ {m} : mint'[x] = mint[x],
         step \in {"measure", "traces"} => mint'[m].netlist \in Designs,
         step = "traces" => mint'[m].reference \in Designs,
         step \in {"idle", "synthesise", "measure", "traces"} => mint'[m].next \in 1..4,
         DOMAIN spoiled' = Mints, \A x \in Mints : spoiled'[x] \subseteq spoiled[x] \cup {"MINT"},
         DOMAIN traces' = ChannelSet, \A c \in ChannelSet : traces'[c] = traces[c] \/ traces'[c].metrics \in Designs,
         profile' \in {profile, m}, UNCHANGED <<held, seen>>, DOMAIN drawn' = Mints, DOMAIN made' = Mints
  PROVE  TypeInv'
<1>1. /\ pc' \in [Mints \cup Runs -> Steps]
      /\ \A q \in Runs : /\ run'[q].result \in Outcomes
                         /\ pc'[q] = "ended" <=> run'[q].result # "RUNNING"
                         /\ run'[q].completed \subseteq Stages
  BY MoveTypes, ProcessesApart
<1>2. TypeOK'
  BY <1>1 DEF TypeInv, TypeOK, Outcomes
<1>3. Shaped'
  BY DEF TypeInv, Shaped
<1>4. MintsReady'
  BY DEF TypeInv, TypeOK, MintsReady, Goes
<1>. QED  BY <1>2, <1>3, <1>4 DEF TypeInv

LEMMA MintStepTypes ==
  ASSUME TypeInv, NEW m \in Mints, StartMint(m) \/ MintStep(m)
  PROVE  TypeInv'
<1>. USE DEF attested, files, counters, shared, Minting, Minted
<1>0. /\ DOMAIN mint = Mints /\ \A x \in Mints : DOMAIN mint[x] = MintFields
      /\ DOMAIN spoiled = Mints /\ DOMAIN traces = ChannelSet
      /\ DOMAIN drawn = Mints /\ DOMAIN made = Mints
  BY DEF TypeInv, Shaped
<1>00. /\ \A x \in Mints : spoiled[x] \subseteq spoiled[x] \cup {"MINT"}
       /\ rtl \in Designs /\ ReferenceRtl \in Designs
  BY ProcessesApart DEF TypeInv, TypeOK, ReferenceRtl
<1>000. /\ pc[m] \in {"measure", "traces"} => mint[m].netlist \in Designs
        /\ pc[m] = "traces" => mint[m].reference \in Designs
        /\ pc[m] \in {"idle", "synthesise", "measure", "traces"} => mint[m].next \in 1..4
  BY DEF TypeInv, MintsReady
<1>1. CASE StartMint(m)
  <2>1. \A x \in Mints : spoiled'[x] \subseteq spoiled[x] \cup {"MINT"}
    BY <1>1 DEF StartMint
  <2>. QED
    BY <1>0, <1>00, <1>000, <1>1, <2>1, MintTypes DEF StartMint, Steps
<1>2. CASE MintSynthesises(m)
  BY <1>0, <1>00, <1>000, <1>2, MintTypes DEF MintSynthesises, Steps, MintFields
<1>3. CASE MintMeasures(m)
  <2>. DEFINE new  == [mint[m] EXCEPT !.digest = rtl, !.reference = ReferenceRtl]
              step == IF Design[mint[m].netlist].metrics.cells > 0 THEN "traces" ELSE "failed"
  <2>1. /\ DOMAIN new = MintFields /\ new.netlist = mint[m].netlist /\ new.reference = ReferenceRtl
        /\ new.next = mint[m].next
    BY <1>0 DEF MintFields
  <2>2. mint' = [mint EXCEPT ![m] = new] /\ Goes(m, step) /\ step \in {"traces", "failed"}
    BY <1>3 DEF MintMeasures
  <2>3. step \in Steps
    BY DEF Steps, Over
  <2>. HIDE DEF new, step
  <2>4. mint[m].next \in 1..4
    BY <1>3 DEF TypeInv, MintsReady, MintMeasures
  <2>5. mint'[m] = new /\ DOMAIN mint' = Mints /\ \A x \in Mints \ {m} : mint'[x] = mint[x]
    BY <1>0, <2>2
  <2>. QED
    BY <1>0, <1>00, <1>000, <1>3, <2>1, <2>2, <2>3, <2>4, <2>5, MintTypes DEF MintMeasures
<1>4. CASE WriteTrace(m)
  BY <1>0, <1>00, <1>000, <1>4, MintTypes DEF WriteTrace, Trace, Steps, MintFields
<1>5. CASE MintAttests(m)
  BY <1>0, <1>00, <1>5, MintTypes DEF MintAttests, DrawCounter, Stamp, WriteAttestation, Steps
<1>6. CASE Enroll(m)
  BY <1>0, <1>00, <1>6, MintTypes DEF Enroll, Steps
<1>7. CASE EnrollAgain(m)
  BY <1>0, <1>00, <1>7, MintTypes DEF EnrollAgain, Steps, Over, MintFields
<1>8. CASE IssueChallenge(m)
  BY <1>0, <1>00, <1>8, MintTypes DEF IssueChallenge, Steps, MintFields
<1>9. CASE MintSbom(m)
  BY <1>0, <1>00, <1>9, MintTypes DEF MintSbom, Steps, MintFields
<1>10. CASE UnlinkTwin(m)
  BY <1>0, <1>00, <1>10, MintTypes DEF UnlinkTwin, Steps
<1>11. CASE LookForTwin(m)
  BY <1>0, <1>00, <1>11, MintTypes DEF LookForTwin, Steps, Over
<1>12. CASE SaveTwin(m)
  BY <1>0, <1>00, <1>12, MintTypes DEF SaveTwin, Steps
<1>13. CASE WriteFixture(m)
  BY <1>0, <1>00, <1>13, MintTypes DEF WriteFixture, Steps
<1>14. CASE CheckMarkers(m)
  BY <1>0, <1>00, <1>14, MintTypes DEF CheckMarkers, Steps, Over
<1>15. CASE MintToolFails(m)
  BY <1>0, <1>00, <1>15, MintTypes DEF MintToolFails, Steps, Over
<1>. QED
  BY <1>1, <1>2, <1>3, <1>4, <1>5, <1>6, <1>7, <1>8, <1>9, <1>10, <1>11, <1>12, <1>13,
     <1>14, <1>15 DEF MintStep

(* The same for a step of a run.                                           *)
LEMMA RunLeavesTypes ==
  ASSUME TypeInv,
         /\ pc' \in [Mints \cup Runs -> Steps]
         /\ \A q \in Runs : /\ run'[q].result \in Outcomes
                            /\ pc'[q] = "ended" <=> run'[q].result # "RUNNING"
                            /\ run'[q].completed \subseteq Stages
         /\ DOMAIN run' = Runs /\ \A q \in Runs : DOMAIN run'[q] = RunFields
         /\ \A m \in Mints : pc'[m] = pc[m],
         UNCHANGED <<clock, rtl, traces, profile, mint, drawn, made>>,
         replay' \in Int, replayLock' \in Runs \cup {NONE},
         DOMAIN held' = Runs, DOMAIN seen' = Runs, DOMAIN spoiled' = Mints,
         \A m \in Mints : spoiled'[m] \subseteq spoiled[m] \cup {"ANSWERED", "ATTESTED"}
  PROVE  TypeInv'
<1>1. TypeOK'
  BY DEF TypeInv, TypeOK, Outcomes
<1>2. Shaped'
  BY DEF TypeInv, Shaped
<1>3. MintsReady'
  BY DEF TypeInv, MintsReady
<1>. QED  BY <1>1, <1>2, <1>3 DEF TypeInv

(* A stage concludes, or the run ends, with a state of the right kind.     *)
LEMMA EndsTypes ==
  ASSUME TypeInv, NEW r \in Runs, NEW state, DOMAIN state = RunFields,
         state.completed \subseteq Stages, NEW result \in Outcomes \ {"RUNNING"}, NEW stage,
         Ends(r, result, stage, state),
         UNCHANGED <<attested, files, mint, spoiled>>
  PROVE  TypeInv'
<1>. DEFINE last == [state EXCEPT !.result = result, !.stage = stage]
<1>1. /\ DOMAIN last = RunFields /\ last.result = result /\ last.completed \subseteq Stages
      /\ Ran(r, last) /\ Goes(r, "ended") /\ "ended" \in Steps
  BY DEF RunFields, Ends, Steps, Over
<1>. HIDE DEF last
<1>2. /\ pc' \in [Mints \cup Runs -> Steps]
      /\ \A q \in Runs : /\ run'[q].result \in Outcomes
                         /\ pc'[q] = "ended" <=> run'[q].result # "RUNNING"
                         /\ run'[q].completed \subseteq Stages
      /\ DOMAIN run' = Runs /\ \A q \in Runs : DOMAIN run'[q] = RunFields
      /\ \A m \in Mints : pc'[m] = pc[m]
  BY <1>1, RunTypes
<1>. QED
  BY <1>2, RunLeavesTypes DEF attested, files, counters, TypeInv, TypeOK, Shaped

LEMMA GoesOnTypes ==
  ASSUME TypeInv, NEW r \in Runs, NEW state, DOMAIN state = RunFields,
         state.completed \subseteq Stages, state.result = "RUNNING",
         NEW step \in Steps \ {"ended"}, Goes(r, step), Ran(r, state),
         UNCHANGED <<attested, files, mint>>, DOMAIN spoiled' = Mints,
         \A m \in Mints : spoiled'[m] \subseteq spoiled[m] \cup {"ANSWERED", "ATTESTED"}
  PROVE  TypeInv'
<1>1. /\ pc' \in [Mints \cup Runs -> Steps]
      /\ \A q \in Runs : /\ run'[q].result \in Outcomes
                         /\ pc'[q] = "ended" <=> run'[q].result # "RUNNING"
                         /\ run'[q].completed \subseteq Stages
      /\ DOMAIN run' = Runs /\ \A q \in Runs : DOMAIN run'[q] = RunFields
      /\ \A m \in Mints : pc'[m] = pc[m]
  BY RunTypes DEF Outcomes
<1>. QED
  BY <1>1, RunLeavesTypes DEF attested, files, counters, TypeInv, TypeOK, Shaped

LEMMA ConcludesTypes ==
  ASSUME TypeInv, NEW r \in Runs, NEW state, DOMAIN state = RunFields,
         state.completed = run[r].completed, state.result = "RUNNING",
         NEW stage \in Stages, NEW reasons, NEW next \in Steps \ {"ended"},
         Concludes(r, stage, reasons, next, state),
         UNCHANGED <<attested, files, mint, spoiled>>
  PROVE  TypeInv'
<1>1. run[r].completed \subseteq Stages
  BY DEF TypeInv, TypeOK
<1>2. CASE reasons = {}
  <2>. DEFINE more == [state EXCEPT !.completed = @ \cup {stage}]
  <2>1. /\ DOMAIN more = RunFields /\ more.result = "RUNNING" /\ more.completed \subseteq Stages
        /\ Ran(r, more) /\ Goes(r, next)
    BY <1>1, <1>2 DEF RunFields, Concludes
  <2>. HIDE DEF more
  <2>. QED
    BY <2>1, GoesOnTypes DEF TypeInv, TypeOK, Shaped
<1>3. CASE reasons # {}
  BY <1>1, <1>3, EndsTypes DEF Concludes, Outcomes
<1>. QED  BY <1>2, <1>3

(* Opening a trace file, whichever and for whatever.                       *)
Read         == {"capture", "compared", "power", "bound", "em"}
Reading      == {"capture", "hash", "ai", "bind", "em"}
AfterReading == {"hash", "compare", "bind", "em", "timing"}

LEMMA Opening ==
  ASSUME NEW r \in Runs, OpenTrace(r)
  PROVE  \E field \in Read, channel \in ChannelSet, step \in Reading, next \in AfterReading :
           Opened(r, step, field, channel, next)
<1>1. {"side_channel_trace", "ai_em_trace"} \subseteq ChannelSet
  BY DEF ChannelSet, Channels
<1>. QED
  BY <1>1, Zenon DEF OpenTrace, CaptureTrace, HashCapture, ReadPower, HashPower, ReadEm, Read, Reading,
     AfterReading

LEMMA RunStepTypes ==
  ASSUME TypeInv, Outstanding, NEW r \in Runs, StartRun(r) \/ RunStep(r)
  PROVE  TypeInv'
<1>. USE DEF Running, Held
<1>0. /\ DOMAIN run[r] = RunFields /\ run[r].completed \subseteq Stages
      /\ pc[r] # "ended" => run[r].result = "RUNNING"
      /\ DOMAIN spoiled = Mints /\ DOMAIN held = Runs /\ DOMAIN seen = Runs
      /\ \A m \in Mints : spoiled[m] \subseteq spoiled[m] \cup {"ANSWERED", "ATTESTED"}
  BY DEF TypeInv, TypeOK, Shaped
<1>1. CASE StartRun(r)
  <2>. DEFINE state == [run[r] EXCEPT !.fixture = fixture]
  <2>1. DOMAIN state = RunFields /\ state.completed = run[r].completed /\ state.result = "RUNNING"
    BY <1>0, <1>1 DEF StartRun, RunFields
  <2>2. Ran(r, state) /\ Goes(r, "authenticate")
    BY <1>1 DEF StartRun
  <2>. HIDE DEF state
  <2>. QED
    BY <1>0, <1>1, <2>1, <2>2, GoesOnTypes DEF StartRun, Steps, Over
<1>2. CASE Authenticate(r)
  <2>1. CASE Ends(r, "STOPPED", "puf", run[r]) /\ UNCHANGED spoiled
    <3>1. /\ Ends(r, "STOPPED", "puf", run[r])
          /\ UNCHANGED <<attested, files, mint, spoiled>>
      BY <1>2, <2>1 DEF Authenticate
    <3>. QED
      BY <1>0, <3>1, EndsTypes DEF Outcomes
  <2>2. CASE ~(Ends(r, "STOPPED", "puf", run[r]) /\ UNCHANGED spoiled)
    <3>1. /\ pc[r] = "authenticate" /\ Goes(r, "attest")
          /\ UNCHANGED <<run, attested, files, mint>>
          /\ spoiled' = [spoiled EXCEPT ![run[r].fixture.mint] = @ \cup {"ANSWERED"}]
      BY <1>2, <2>2 DEF Authenticate
    <3>2. /\ pc' \in [Mints \cup Runs -> Steps]
          /\ \A q \in Runs : /\ run'[q].result \in Outcomes
                             /\ pc'[q] = "ended" <=> run'[q].result # "RUNNING"
                             /\ run'[q].completed \subseteq Stages
          /\ DOMAIN run' = Runs /\ \A q \in Runs : DOMAIN run'[q] = RunFields
      BY <3>1, MoveTypes DEF Steps, Over
    <3>3. \A m \in Mints : pc'[m] = pc[m]
      BY <3>1, ProcessesApart DEF Goes, TypeInv, TypeOK
    <3>4. DOMAIN spoiled' = Mints
          /\ \A m \in Mints : spoiled'[m] \subseteq spoiled[m] \cup {"ANSWERED", "ATTESTED"}
      BY <1>0, <3>1
    <3>. QED
      BY <1>0, <3>1, <3>2, <3>3, <3>4, RunLeavesTypes DEF attested, files, counters, TypeInv, TypeOK
  <2>. QED  BY <2>1, <2>2
<1>3. CASE Verifies(r)
  <2>1. PICK step \in {"check", "lock", "rejected", "counter", "store"} :
          /\ Goes(r, step) /\ pc[r] \in {"attest", "check", "lock", "counter"}
    BY <1>3 DEF Verifies, ReadAttestation, CheckAttestation, LockReplay, ReadCounter
  <2>2. /\ UNCHANGED <<clock, replay, rtl, traces, profile, mint, drawn, made, run, spoiled>>
        /\ replayLock' \in {replayLock, NONE, r}
        /\ DOMAIN held' = Runs /\ DOMAIN seen' = Runs
    BY <1>0, <1>3 DEF Verifies, ReadAttestation, CheckAttestation, LockReplay, ReadCounter,
       attested, files, counters
  <2>3. step \in Steps \ {"ended"}
    BY DEF Steps, Over
  <2>4. /\ pc' \in [Mints \cup Runs -> Steps]
        /\ \A q \in Runs : /\ run'[q].result \in Outcomes
                           /\ pc'[q] = "ended" <=> run'[q].result # "RUNNING"
                           /\ run'[q].completed \subseteq Stages
        /\ DOMAIN run' = Runs /\ \A q \in Runs : DOMAIN run'[q] = RunFields
    BY <2>1, <2>2, <2>3, MoveTypes
  <2>5. \A m \in Mints : pc'[m] = pc[m]
    BY <2>1, ProcessesApart DEF Goes, TypeInv, TypeOK
  <2>6. replay \in Int /\ replayLock \in Runs \cup {NONE}
    BY DEF TypeInv, TypeOK
  <2>. QED
    BY <1>0, <2>2, <2>4, <2>5, <2>6, RunLeavesTypes
<1>4. CASE Rejected(r)
  BY <1>0, <1>4, EndsTypes DEF Rejected, Outcomes
<1>5. CASE Accepted(r)
  <2>. DEFINE state == [run[r] EXCEPT !.completed = {"opentitan"}]
  <2>1. DOMAIN state = RunFields /\ state.completed \subseteq Stages /\ state.result = "RUNNING"
    BY <1>0, <1>5 DEF Accepted, StoreCounter, RunFields, Stages
  <2>2. /\ Ran(r, state) /\ Goes(r, "capture") /\ "capture" \in Steps \ {"ended"}
        /\ UNCHANGED <<clock, rtl, traces, profile, mint, drawn, made, held, seen>>
        /\ replay' = held[r].counter /\ replayLock' = NONE
        /\ spoiled' = [m \in Mints |-> spoiled[m] \cup {w \in {"ATTESTED"} : m \in Begun}]
    BY <1>5 DEF Accepted, StoreCounter, Spoil, files, Steps, Over
  <2>. HIDE DEF state
  <2>3. held[r].counter \in Int
    BY <1>5 DEF Outstanding, AttestationOK, CounterOK, Accepted, StoreCounter
  <2>4. /\ pc' \in [Mints \cup Runs -> Steps]
        /\ \A q \in Runs : /\ run'[q].result \in Outcomes
                           /\ pc'[q] = "ended" <=> run'[q].result # "RUNNING"
                           /\ run'[q].completed \subseteq Stages
        /\ DOMAIN run' = Runs /\ \A q \in Runs : DOMAIN run'[q] = RunFields
        /\ \A m \in Mints : pc'[m] = pc[m]
    BY <2>1, <2>2, RunTypes DEF Outcomes
  <2>5. /\ DOMAIN spoiled' = Mints
        /\ \A m \in Mints : spoiled'[m] \subseteq spoiled[m] \cup {"ANSWERED", "ATTESTED"}
    BY <2>2
  <2>. QED
    BY <1>0, <2>2, <2>3, <2>4, <2>5, RunLeavesTypes
<1>6. CASE OpenTrace(r)
  <2>1. PICK field \in Read, channel \in ChannelSet, step \in Reading, next \in AfterReading :
          Opened(r, step, field, channel, next)
    BY <1>6, Opening
  <2>. DEFINE state == [run[r] EXCEPT ![field] = traces[channel]]
  <2>2. DOMAIN state = RunFields /\ state.completed = run[r].completed /\ state.result = run[r].result
    BY <1>0 DEF Read
  <2>3. /\ Ran(r, state) /\ Goes(r, next) /\ next \in Steps \ {"ended"} /\ run[r].result = "RUNNING"
        /\ UNCHANGED <<attested, files, mint, spoiled>>
    BY <1>0, <2>1 DEF Opened, Reading, AfterReading, Steps, Over
  <2>. HIDE DEF state
  <2>. QED
    BY <1>0, <2>2, <2>3, GoesOnTypes
<1>7. CASE CompareTraces(r)
  <2>1. PICK reasons : Concludes(r, "chipwhisperer", reasons, "synthesise", run[r])
    BY <1>7, Zenon DEF CompareTraces
  <2>2. /\ run[r].result = "RUNNING" /\ UNCHANGED <<attested, files, mint, spoiled>>
    <3>1. pc[r] = "compare" /\ UNCHANGED <<attested, files, mint, spoiled>>
      BY <1>7, Zenon DEF CompareTraces
    <3>. QED  BY <1>0, <3>1
  <2>3. "chipwhisperer" \in Stages /\ "synthesise" \in Steps \ {"ended"}
    BY DEF Stages, Steps, Over
  <2>. QED
    BY <1>0, <2>1, <2>2, <2>3, ConcludesTypes
<1>8. CASE Synthesise(r)
  <2>. DEFINE state == [run[r] EXCEPT !.netlist = rtl]
  <2>1. DOMAIN state = RunFields /\ state.completed = run[r].completed /\ state.result = "RUNNING"
    BY <1>0, <1>8 DEF Synthesise, RunFields
  <2>2. Ran(r, state) /\ Goes(r, "measure") /\ "measure" \in Steps \ {"ended"}
    BY <1>8 DEF Synthesise, Steps, Over
  <2>. HIDE DEF state
  <2>. QED
    BY <1>0, <1>8, <2>1, <2>2, GoesOnTypes DEF Synthesise
<1>9. CASE MeasureNetlist(r)
  <2>. DEFINE state == [run[r] EXCEPT !.digest = rtl,
                !.ratio = DeltaRatio(Design[ReferenceRtl].metrics, Design[run[r].netlist].metrics),
                !.departs = StructuralReasons(Design[ReferenceRtl].metrics, Design[run[r].netlist].metrics,
                                              Policy)]
  <2>1. DOMAIN state = RunFields /\ state.completed = run[r].completed /\ state.result = "RUNNING"
    BY <1>0, <1>9 DEF MeasureNetlist, RunFields
  <2>2. PICK reasons : Concludes(r, "yosys", reasons, "simulate", state)
    BY <1>9 DEF MeasureNetlist
  <2>3. "yosys" \in Stages /\ "simulate" \in Steps \ {"ended"}
    BY DEF Stages, Steps, Over
  <2>. HIDE DEF state
  <2>. QED
    BY <1>9, <2>1, <2>2, <2>3, ConcludesTypes DEF MeasureNetlist
<1>10. CASE Simulate(r)
  <2>. DEFINE state == [run[r] EXCEPT !.output = Design[rtl].output]
  <2>1. DOMAIN state = RunFields /\ state.completed = run[r].completed /\ state.result = "RUNNING"
    BY <1>0, <1>10 DEF Simulate, RunFields
  <2>2. PICK reasons : Concludes(r, "verilator", reasons, "sbom", state)
    BY <1>10 DEF Simulate
  <2>3. "verilator" \in Stages /\ "sbom" \in Steps \ {"ended"}
    BY DEF Stages, Steps, Over
  <2>. HIDE DEF state
  <2>. QED
    BY <1>10, <2>1, <2>2, <2>3, ConcludesTypes DEF Simulate
<1>11. CASE GenerateSbom(r)
  <2>. DEFINE state == [run[r] EXCEPT !.sbom = DocumentDigest("chip", Artifacts)]
  <2>1. DOMAIN state = RunFields /\ state.completed = run[r].completed /\ state.result = "RUNNING"
    BY <1>0, <1>11 DEF GenerateSbom, RunFields
  <2>2. PICK reasons : Concludes(r, "sbom", reasons, "twin", state)
    BY <1>11 DEF GenerateSbom
  <2>3. "sbom" \in Stages /\ "twin" \in Steps \ {"ended"}
    BY DEF Stages, Steps, Over
  <2>. HIDE DEF state
  <2>. QED
    BY <1>11, <2>1, <2>2, <2>3, ConcludesTypes DEF GenerateSbom
<1>12. CASE VerifyTwin(r)
  <2>. DEFINE state == run[r]
  <2>1. DOMAIN state = RunFields /\ state.completed = run[r].completed /\ state.result = "RUNNING"
    BY <1>0, <1>12 DEF VerifyTwin, RunFields
  <2>2. PICK reasons : Concludes(r, "digital_twin", reasons, "ai", state)
    BY <1>12 DEF VerifyTwin
  <2>3. "digital_twin" \in Stages /\ "ai" \in Steps \ {"ended"}
    BY DEF Stages, Steps, Over
  <2>. HIDE DEF state
  <2>. QED
    BY <1>12, <2>1, <2>2, <2>3, ConcludesTypes DEF VerifyTwin
<1>13. CASE BuildEvidence(r)
  <2>1. CASE Ends(r, "RAISED", "ai", run[r])
    BY <1>0, <1>13, <2>1, EndsTypes DEF BuildEvidence, Outcomes
  <2>2. CASE ~Ends(r, "RAISED", "ai", run[r])
    <3>1. PICK ai : Goes(r, "models") /\ Ran(r, [run[r] EXCEPT !.ai = ai])
      BY <1>13, <2>2 DEF BuildEvidence
    <3>. DEFINE state == [run[r] EXCEPT !.ai = ai]
    <3>2. DOMAIN state = RunFields /\ state.completed = run[r].completed /\ state.result = "RUNNING"
      BY <1>0, <1>13 DEF BuildEvidence, RunFields
    <3>3. "models" \in Steps \ {"ended"} /\ Ran(r, state)
      BY <3>1 DEF Steps, Over
    <3>. HIDE DEF state
    <3>. QED
      BY <1>0, <1>13, <3>1, <3>2, <3>3, GoesOnTypes DEF BuildEvidence
  <2>. QED  BY <2>1, <2>2
<1>14. CASE Analyse(r)
  <2>1. PICK ai : LET state == [run[r] EXCEPT !.ai = ai]
                  IN  \/ Goes(r, "comply") /\ Ran(r, state)
                      \/ Ends(r, "QUARANTINED", "models", state)
    BY <1>14 DEF Analyse
  <2>. DEFINE state == [run[r] EXCEPT !.ai = ai]
  <2>2. /\ DOMAIN state = RunFields /\ state.completed = run[r].completed /\ state.result = "RUNNING"
        /\ "comply" \in Steps \ {"ended"}
    BY <1>0, <1>14 DEF Analyse, RunFields, Steps, Over
  <2>3. (Goes(r, "comply") /\ Ran(r, state)) \/ Ends(r, "QUARANTINED", "models", state)
    BY <2>1
  <2>. HIDE DEF state
  <2>. QED
    BY <1>0, <1>14, <2>2, <2>3, GoesOnTypes, EndsTypes DEF Analyse, Outcomes
<1>15. CASE Comply(r)
  <2>1. PICK result \in {"COMPLETED", "STOPPED"} : Ends(r, result, "policy", run[r])
    BY <1>15 DEF Comply
  <2>. QED
    BY <1>0, <1>15, <2>1, EndsTypes DEF Comply, Outcomes
<1>16. CASE ToolFails(r) \/ RecordFails(r) \/ ModelsFail(r)
  <2>. DEFINE state == [run[r] EXCEPT !.faulty = TRUE]
  <2>1. DOMAIN state = RunFields /\ state.completed = run[r].completed
    BY <1>0 DEF RunFields
  <2>2. \E result \in {"QUARANTINED", "RAISED"} : \E stage : Ends(r, result, stage, state)
    BY <1>16 DEF ToolFails, RecordFails, ModelsFail, Trouble
  <2>3. UNCHANGED <<attested, files, mint, spoiled>>
    BY <1>16 DEF ToolFails, RecordFails, ModelsFail, Trouble, shared
  <2>. HIDE DEF state
  <2>. QED
    BY <1>0, <2>1, <2>2, <2>3, EndsTypes DEF Outcomes
<1>. QED
  BY <1>1, <1>2, <1>3, <1>4, <1>5, <1>6, <1>7, <1>8, <1>9, <1>10, <1>11, <1>12, <1>13, <1>14, <1>15, <1>16 DEF RunStep

LEMMA StepTypes == TypeInv /\ Outstanding /\ [Next]_vars => TypeInv'
<1>. SUFFICES ASSUME TypeInv, Outstanding, [Next]_vars PROVE TypeInv'
  OBVIOUS
<1>. USE DEF attested, files, counters, shared
<1>1. ASSUME NEW p \in Mints \cup Runs, Die(p)
      PROVE  TypeInv'
  <2>1. /\ pc[p] # "ended" /\ Goes(p, "dead") /\ "dead" \in Steps \ {"ended"} /\ UNCHANGED run
        /\ replayLock' \in {replayLock, NONE}
        /\ UNCHANGED <<clock, replay, seen, attestation, drawn, made, held, files, mint, spoiled>>
    BY <1>1 DEF Die, LoseLock, Over, Steps
  <2>2. /\ pc' \in [Mints \cup Runs -> Steps]
        /\ \A q \in Runs : /\ run'[q].result \in Outcomes
                           /\ pc'[q] = "ended" <=> run'[q].result # "RUNNING"
                           /\ run'[q].completed \subseteq Stages
        /\ DOMAIN run' = Runs /\ \A q \in Runs : DOMAIN run'[q] = RunFields
    BY <2>1, MoveTypes
  <2>3. TypeOK'
    BY <2>1, <2>2 DEF TypeInv, TypeOK, Outcomes
  <2>4. Shaped' /\ MintsReady'
    BY <2>1, <2>2 DEF TypeInv, Shaped, MintsReady, Goes, TypeOK
  <2>. QED  BY <2>3, <2>4 DEF TypeInv
<1>2. CASE Edit
  <2>1. \A m \in Mints : spoiled'[m] \subseteq spoiled[m] \cup {"EDIT"}
    BY <1>2 DEF Edit, Spoil
  <2>2. rtl' \in Designs /\ DOMAIN spoiled' = Mints
        /\ UNCHANGED <<pc, attested, traces, profile, mint, run>>
    BY <1>2 DEF Edit, Spoil
  <2>. QED
    BY <2>1, <2>2 DEF TypeInv, TypeOK, Shaped, MintsReady
<1>3. CASE Pass
  <2>1. /\ clock' \in 0..MaxClock
        /\ UNCHANGED <<pc, replay, replayLock, seen, attestation, drawn, made, held, files, mint, run, spoiled>>
    BY <1>3, ProcessesApart DEF Pass, Tick, TypeInv, TypeOK
  <2>. QED
    BY <2>1 DEF TypeInv, TypeOK, Shaped, MintsReady
<1>4. CASE UNCHANGED vars
  BY <1>4 DEF vars, TypeInv, TypeOK, Shaped, MintsReady
<1>. QED
  BY <1>1, <1>2, <1>3, <1>4, MintStepTypes, RunStepTypes DEF Next

-----------------------------------------------------------------------------
(* Attestations                                                            *)

AttestationSteps == {"stamp", "write", "check", "lock", "counter", "store"}

LEMMA MaxOfTwo ==
  ASSUME NEW a \in Int, NEW b \in Int
  PROVE  Max({a, b}) \in {a, b} /\ Max({a, b}) >= a /\ Max({a, b}) >= b
<1>1. \E x \in {a, b} : \A y \in {a, b} : x >= y
  <2>1. CASE a >= b
    BY <2>1
  <2>2. CASE ~(a >= b)
    BY <2>2
  <2>. QED  BY <2>1, <2>2
<1>. QED  BY <1>1 DEF Max

(* The next counter is 1, or one above the last one accepted.              *)
LEMMA NextCounterOK ==
  ASSUME replay \in Int
  PROVE  CounterOK(NextCounter)
<1>1. Max({replay, 0}) \in {replay, 0} /\ Max({replay, 0}) >= 0
  BY MaxOfTwo
<1>. QED  BY <1>1 DEF NextCounter, CounterOK

(* A step that has no part in attestation leaves it alone.                 *)
LEMMA AttestationKept ==
  ASSUME TypeInv, AttestationInv, UNCHANGED attested, NEW p \in Mints \cup Runs, NEW step,
         Goes(p, step), step \notin AttestationSteps,
         p \in Runs => pc[p] \notin {"counter", "store"}
  PROVE  AttestationInv'
<1>. USE DEF attested, counters, AttestationInv
<1>1. \A q \in Mints \cup Runs : pc'[q] \in {pc[q], step} /\ (q # p => pc'[q] = pc[q])
  BY DEF Goes, TypeInv, TypeOK
<1>2. pc'[p] = step
  BY DEF Goes, TypeInv, TypeOK
<1>3. Outstanding'
  BY <1>1 DEF Outstanding, AttestationSteps, AttestationOK, CounterOK
<1>4. ReplayLocked'
  BY <1>1, <1>2 DEF ReplayLocked, AttestationSteps
<1>5. AcceptedPast' /\ AttestedInOrder'
  BY DEF AcceptedPast, AttestedInOrder
<1>. QED  BY <1>3, <1>4, <1>5

LEMMA MintsApart ==
  ASSUME NEW m \in Mints, StartMint(m) \/ MintStep(m), ~MintAttests(m)
  PROVE  UNCHANGED attested /\ \E step : Goes(m, step) /\ step \notin AttestationSteps
<1>. USE DEF Minting, AttestationSteps
<1>1. CASE StartMint(m)
  BY <1>1 DEF StartMint
<1>2. CASE MintSynthesises(m) \/ MintMeasures(m)
  BY <1>2 DEF MintSynthesises, MintMeasures
<1>3. CASE WriteTrace(m)
  BY <1>3 DEF WriteTrace
<1>4. CASE Enroll(m) \/ EnrollAgain(m)
  BY <1>4 DEF Enroll, EnrollAgain
<1>5. CASE IssueChallenge(m) \/ MintSbom(m) \/ UnlinkTwin(m)
  BY <1>5 DEF IssueChallenge, MintSbom, UnlinkTwin
<1>6. CASE LookForTwin(m) \/ SaveTwin(m) \/ WriteFixture(m)
  BY <1>6 DEF LookForTwin, SaveTwin, WriteFixture
<1>7. CASE CheckMarkers(m) \/ MintToolFails(m)
  BY <1>7 DEF CheckMarkers, MintToolFails
<1>. QED
  BY <1>1, <1>2, <1>3, <1>4, <1>5, <1>6, <1>7 DEF MintStep

LEMMA RunsApart ==
  ASSUME NEW r \in Runs, StartRun(r) \/ RunStep(r), ~Verifies(r), ~Accepted(r)
  PROVE  /\ UNCHANGED attested /\ pc[r] \notin {"counter", "store"}
         /\ \E step : Goes(r, step) /\ step \notin AttestationSteps
<1>. USE DEF Running, AttestationSteps
<1>0. \A stage, reasons, next, state :
        Concludes(r, stage, reasons, next, state) => Goes(r, next) \/ Goes(r, "ended")
  BY DEF Concludes, Ends
<1>1. CASE StartRun(r) \/ Authenticate(r)
  BY <1>1 DEF StartRun, Authenticate, Ends
<1>2. CASE Rejected(r)
  BY <1>2 DEF Rejected, Ends
<1>02. CASE OpenTrace(r)
  <2>1. PICK field \in Read, channel \in ChannelSet, step \in Reading, next \in AfterReading :
          Opened(r, step, field, channel, next)
    BY <1>02, Opening
  <2>. QED  BY <2>1 DEF Opened, Reading, AfterReading
<1>3. CASE CompareTraces(r)
  <2>1. PICK reasons : Concludes(r, "chipwhisperer", reasons, "synthesise", run[r])
    BY <1>3, Zenon DEF CompareTraces
  <2>2. PICK step \in {"synthesise", "ended"} : Goes(r, step)
    BY <1>0, <2>1
  <2>3. UNCHANGED attested /\ pc[r] = "compare"
    BY <1>3, Zenon DEF CompareTraces
  <2>. QED  BY <2>2, <2>3
<1>4. CASE Synthesise(r) \/ MeasureNetlist(r)
  BY <1>0, <1>4 DEF Synthesise, MeasureNetlist
<1>5. CASE Simulate(r) \/ GenerateSbom(r) \/ VerifyTwin(r)
  BY <1>0, <1>5 DEF Simulate, GenerateSbom, VerifyTwin
<1>6. CASE BuildEvidence(r)
  BY <1>6 DEF BuildEvidence, Ends
<1>7. CASE Analyse(r)
  BY <1>7 DEF Analyse, Ends
<1>8. CASE Comply(r)
  BY <1>8 DEF Comply, Ends
<1>9. CASE ToolFails(r) \/ RecordFails(r) \/ ModelsFail(r)
  <2>1. PICK stage \in Stages \cup {"models"} : pc[r] \in InStage[stage]
    BY <1>9 DEF ToolFails, RecordFails, ModelsFail, Trouble, Stages
  <2>2. pc[r] \notin {"counter", "store"}
    BY <2>1 DEF InStage, Stages
  <2>3. UNCHANGED attested /\ Goes(r, "ended")
    <3>1. ASSUME NEW result, NEW stages, Trouble(r, result, stages)
          PROVE  UNCHANGED attested /\ Goes(r, "ended")
      BY <3>1 DEF Trouble, Ends, shared
    <3>. QED  BY <1>9, <3>1 DEF ToolFails, RecordFails, ModelsFail
  <2>. QED
    BY <2>2, <2>3
<1>. QED
  BY <1>1, <1>2, <1>02, <1>3, <1>4, <1>5, <1>6, <1>7, <1>8, <1>9 DEF RunStep

LEMMA InitAttestation == Init => AttestationInv
<1>. SUFFICES ASSUME Init PROVE AttestationInv
  OBVIOUS
<1>. QED
  BY ProcessesApart DEF Init, AttestationInit, AttestationInv, Outstanding, ReplayLocked,
     AcceptedPast, AttestedInOrder

LEMMA StepAttestation == TypeInv /\ AttestationInv /\ [Next]_vars => AttestationInv'
<1>. SUFFICES ASSUME TypeInv, AttestationInv, [Next]_vars PROVE AttestationInv'
  OBVIOUS
<1>. USE DEF AttestationInv, counters
<1>0. /\ replay \in Int /\ clock \in Nat /\ pc \in [Mints \cup Runs -> Steps]
      /\ DOMAIN drawn = Mints /\ DOMAIN made = Mints /\ DOMAIN held = Runs
  BY ProcessesApart DEF TypeInv, TypeOK, Shaped
<1>1. ASSUME NEW m \in Mints, DrawCounter(m)
      PROVE  AttestationInv'
  <2>1. CounterOK(NextCounter)
    BY <1>0, NextCounterOK
  <2>2. Outstanding'
    BY <1>0, <1>1, <2>1, ProcessesApart DEF DrawCounter, Goes, Outstanding, AttestationOK, CounterOK
  <2>3. ReplayLocked'
    BY <1>0, <1>1, ProcessesApart DEF DrawCounter, Goes, ReplayLocked
  <2>. QED
    BY <1>1, <2>2, <2>3 DEF DrawCounter, AcceptedPast, AttestedInOrder
<1>2. ASSUME NEW m \in Mints, Stamp(m)
      PROVE  AttestationInv'
  <2>1. AttestationOK(SignedAttestation(m, drawn[m], clock))
    BY <1>0, <1>2 DEF Stamp, Outstanding, AttestationOK, SignedAttestation, AcceptedPast
  <2>2. Outstanding'
    BY <1>0, <1>2, <2>1, ProcessesApart DEF Stamp, Goes, Outstanding, AttestationOK, CounterOK
  <2>3. ReplayLocked'
    BY <1>0, <1>2, ProcessesApart DEF Stamp, Goes, ReplayLocked
  <2>. QED
    BY <1>2, <2>2, <2>3 DEF Stamp, AcceptedPast, AttestedInOrder
<1>3. ASSUME NEW m \in Mints, WriteAttestation(m)
      PROVE  AttestationInv'
  <2>1. Outstanding'
    BY <1>0, <1>3, ProcessesApart DEF WriteAttestation, Goes, Outstanding, AttestationOK, CounterOK
  <2>2. ReplayLocked'
    BY <1>0, <1>3, ProcessesApart DEF WriteAttestation, Goes, ReplayLocked
  <2>. QED
    BY <1>3, <2>1, <2>2 DEF WriteAttestation, AcceptedPast, AttestedInOrder
<1>4. ASSUME NEW r \in Runs, ReadAttestation(r)
      PROVE  AttestationInv'
  <2>1. Outstanding'
    BY <1>0, <1>4, ProcessesApart DEF ReadAttestation, Goes, Outstanding, AttestationOK, CounterOK
  <2>2. ReplayLocked'
    BY <1>0, <1>4 DEF ReadAttestation, Goes, ReplayLocked
  <2>. QED
    BY <1>4, <2>1, <2>2 DEF ReadAttestation, AcceptedPast, AttestedInOrder
<1>5. ASSUME NEW r \in Runs, CheckAttestation(r)
      PROVE  AttestationInv'
  <2>1. PICK step \in {"lock", "rejected"} : pc[r] = "check" /\ Goes(r, step) /\ UNCHANGED attested
    BY <1>5 DEF CheckAttestation
  <2>2. Outstanding'
    BY <1>0, <2>1, ProcessesApart DEF attested, Goes, Outstanding, AttestationOK, CounterOK
  <2>3. ReplayLocked'
    BY <1>0, <2>1 DEF attested, Goes, ReplayLocked
  <2>. QED
    BY <2>1, <2>2, <2>3 DEF attested, AcceptedPast, AttestedInOrder
<1>6. ASSUME NEW r \in Runs, LockReplay(r)
      PROVE  AttestationInv'
  <2>1. Outstanding'
    BY <1>0, <1>6, ProcessesApart DEF LockReplay, Goes, Outstanding, AttestationOK, CounterOK
  <2>2. ReplayLocked'
    BY <1>0, <1>6, ProcessesApart DEF LockReplay, Goes, ReplayLocked
  <2>. QED
    BY <1>6, <2>1, <2>2 DEF LockReplay, AcceptedPast, AttestedInOrder
<1>7. ASSUME NEW r \in Runs, ReadCounter(r)
      PROVE  AttestationInv'
  <2>1. Outstanding'
    BY <1>0, <1>7, ProcessesApart DEF ReadCounter, Goes, Outstanding, AttestationOK, CounterOK
  <2>2. ReplayLocked'
    BY <1>0, <1>7, ProcessesApart DEF ReadCounter, Goes, ReplayLocked
  <2>. QED
    BY <1>7, <2>1, <2>2 DEF ReadCounter, AcceptedPast, AttestedInOrder
<1>8. ASSUME NEW r \in Runs, StoreCounter(r)
      PROVE  AttestationInv'
  <2>. DEFINE new == [run |-> r, counter |-> held[r].counter, stamp |-> held[r].stamp]
  <2>1. /\ pc[r] = "store" /\ replay' = held[r].counter /\ replayLock' = NONE
        /\ accepted' = Append(accepted, new) /\ pc' = [pc EXCEPT ![r] = "capture"]
        /\ UNCHANGED <<clock, attestation, drawn, made, held>>
    BY <1>8 DEF StoreCounter, Goes
  <2>2. held[r].counter > replay /\ AttestationOK(held[r]) /\ replayLock = r
    BY <2>1 DEF ReplayLocked, Outstanding
  <2>3. replay' \in Nat \ {0} /\ replay' > replay
    BY <1>0, <2>1, <2>2 DEF AttestationOK, CounterOK
  <2>4. /\ Len(accepted) \in Nat /\ DOMAIN accepted = 1..Len(accepted)
        /\ DOMAIN accepted' = 1..(Len(accepted) + 1) /\ accepted'[Len(accepted) + 1] = new
        /\ \A i \in 1..Len(accepted) : accepted'[i] = accepted[i]
        /\ accepted' \in Seq([run : Runs, counter : Nat, stamp : Nat])
    <3>1. new \in [run : Runs, counter : Nat, stamp : Nat]
      BY <1>0, <2>2 DEF AttestationOK, CounterOK
    <3>. HIDE DEF new
    <3>2. accepted \in Seq([run : Runs, counter : Nat, stamp : Nat])
      BY DEF AcceptedPast
    <3>. DEFINE S == [run : Runs, counter : Nat, stamp : Nat]
    <3>. HIDE DEF S
    <3>. QED  BY <2>1, <3>1, <3>2
  <2>5. \A c : CounterOK(c) => CounterOK(c)' /\ ~(c > replay')
    BY <1>0, <2>1, <2>2, <2>3 DEF CounterOK, AttestationOK
  <2>6. \A a : AttestationOK(a) => AttestationOK(a)'
    BY <1>0, <2>1, <2>5 DEF AttestationOK
  <2>7. Outstanding'
    BY <1>0, <2>1, <2>5, <2>6, ProcessesApart DEF Outstanding
  <2>8. ReplayLocked'
    BY <1>0, <2>1, <2>2, ProcessesApart DEF ReplayLocked
  <2>9. AcceptedPast'
    BY <1>0, <2>1, <2>2, <2>3, <2>4 DEF AcceptedPast, AttestationOK, CounterOK
  <2>10. AttestedInOrder'
    <3>. SUFFICES ASSUME NEW i \in DOMAIN accepted', NEW j \in DOMAIN accepted', i < j
                  PROVE  /\ accepted'[i].counter < accepted'[j].counter
                         /\ accepted'[i].stamp <= accepted'[j].stamp
      BY DEF AttestedInOrder
    <3>1. i \in 1..Len(accepted)
      BY <2>4
    <3>2. CASE j \in 1..Len(accepted)
      BY <2>4, <3>1, <3>2 DEF AttestedInOrder
    <3>3. CASE j = Len(accepted) + 1
      <4>1. accepted[i].counter <= replay /\ accepted[i].counter \in Nat
        BY <2>4, <3>1, SMTT(60) DEF AcceptedPast
      <4>2. accepted[i].stamp <= held[r].stamp
        BY <2>2, <2>4, <3>1 DEF AttestationOK
      <4>. QED
        BY <1>0, <2>1, <2>3, <2>4, <3>1, <3>3, <4>1, <4>2
    <3>. QED  BY <2>4, <3>2, <3>3
  <2>. QED  BY <2>7, <2>8, <2>9, <2>10
<1>9. ASSUME NEW p \in Mints \cup Runs, Die(p)
      PROVE  AttestationInv'
  <2>1. /\ pc' = [pc EXCEPT ![p] = "dead"]
        /\ replayLock' = IF replayLock = p THEN NONE ELSE replayLock
        /\ UNCHANGED <<clock, replay, accepted, attestation, drawn, made, held>>
    BY <1>9 DEF Die, LoseLock, Goes
  <2>2. Outstanding'
    BY <1>0, <2>1 DEF Outstanding, AttestationOK, CounterOK
  <2>3. ReplayLocked'
    BY <1>0, <2>1, ProcessesApart DEF ReplayLocked
  <2>. QED
    BY <2>1, <2>2, <2>3 DEF AcceptedPast, AttestedInOrder
<1>10. CASE Pass
  <2>1. /\ clock' = clock + 1
        /\ UNCHANGED <<pc, replay, replayLock, accepted, attestation, drawn, made, held>>
    BY <1>10 DEF Pass, Tick
  <2>2. Outstanding'
    BY <1>0, <2>1 DEF Outstanding, AttestationOK, CounterOK
  <2>3. AcceptedPast'
    BY <1>0, <2>1 DEF AcceptedPast
  <2>. QED
    BY <2>1, <2>2, <2>3 DEF ReplayLocked, AttestedInOrder
<1>11. CASE Edit \/ UNCHANGED vars
  <2>1. UNCHANGED <<pc, attested>>
    BY <1>11 DEF Edit, vars, shared
  <2>. QED
    BY <2>1 DEF attested, Outstanding, AttestationOK, CounterOK, ReplayLocked, AcceptedPast, AttestedInOrder
<1>12. ASSUME NEW m \in Mints, StartMint(m) \/ MintStep(m), ~MintAttests(m)
       PROVE  AttestationInv'
  BY <1>12, MintsApart, AttestationKept, ProcessesApart
<1>13. ASSUME NEW r \in Runs, StartRun(r) \/ RunStep(r), ~Verifies(r), ~Accepted(r)
       PROVE  AttestationInv'
  BY <1>13, RunsApart, AttestationKept
<1>. QED
  BY <1>1, <1>2, <1>3, <1>4, <1>5, <1>6, <1>7, <1>8, <1>9, <1>10, <1>11, <1>12, <1>13
     DEF Next, MintAttests, Verifies, Accepted

-----------------------------------------------------------------------------
(* Evidence                                                                *)

(* A step of a mint is its own; a mint that is settled stays as it is.     *)
LEMMA MintAlone ==
  ASSUME TypeInv, NEW m \in Mints, StartMint(m) \/ MintStep(m)
  PROVE  /\ UNCHANGED run /\ \A p \in (Mints \cup Runs) \ {m} : pc'[p] = pc[p]
         /\ \A x \in Mints \ {m} : mint'[x] = mint[x]
         /\ Settled(m) => Settled(m)' /\ mint'[m] = mint[m]
         /\ twin' \in {twin, NONE} \/ SaveTwin(m)
         /\ fixture' = fixture \/ WriteFixture(m)
<1>. USE DEF Minting, Minted, Goes, files, Settled, Over
<1>0. pc \in [Mints \cup Runs -> Steps] /\ DOMAIN mint = Mints
  BY DEF TypeInv, TypeOK, Shaped
<1>1. CASE StartMint(m)
  BY <1>0, <1>1 DEF StartMint
<1>2. CASE MintSynthesises(m) \/ MintMeasures(m)
  BY <1>0, <1>2 DEF MintSynthesises, MintMeasures
<1>3. CASE WriteTrace(m)
  BY <1>0, <1>3 DEF WriteTrace
<1>4. CASE MintAttests(m)
  BY <1>0, <1>4 DEF MintAttests, DrawCounter, Stamp, WriteAttestation
<1>5. CASE Enroll(m) \/ EnrollAgain(m)
  BY <1>0, <1>5 DEF Enroll, EnrollAgain
<1>6. CASE IssueChallenge(m) \/ MintSbom(m) \/ UnlinkTwin(m)
  BY <1>0, <1>6 DEF IssueChallenge, MintSbom, UnlinkTwin
<1>7. CASE LookForTwin(m)
  BY <1>0, <1>7 DEF LookForTwin
<1>8. CASE SaveTwin(m)
  BY <1>0, <1>8 DEF SaveTwin
<1>9. CASE WriteFixture(m)
  BY <1>0, <1>9 DEF WriteFixture
<1>10. CASE CheckMarkers(m)
  BY <1>0, <1>10 DEF CheckMarkers
<1>11. CASE MintToolFails(m)
  BY <1>0, <1>11 DEF MintToolFails
<1>. QED
  BY <1>1, <1>2, <1>3, <1>4, <1>5, <1>6, <1>7, <1>8, <1>9, <1>10, <1>11 DEF MintStep

(* So is a step of a run, and it changes no file.                          *)
LEMMA RunAlone ==
  ASSUME TypeInv, NEW r \in Runs, StartRun(r) \/ RunStep(r)
  PROVE  /\ UNCHANGED <<mint, files>> /\ \A p \in (Mints \cup Runs) \ {r} : pc'[p] = pc[p]
         /\ \A q \in Runs \ {r} : run'[q] = run[q]
<1>. USE DEF Running, Goes, Ran
<1>0. pc \in [Mints \cup Runs -> Steps] /\ DOMAIN run = Runs
  BY DEF TypeInv, TypeOK, Shaped
<1>00. \A result, stage, state :
         Ends(r, result, stage, state) =>
           /\ \A p \in (Mints \cup Runs) \ {r} : pc'[p] = pc[p]
           /\ \A q \in Runs \ {r} : run'[q] = run[q]
  BY <1>0 DEF Ends
<1>000. \A stage, reasons, next, state :
         Concludes(r, stage, reasons, next, state) =>
           /\ \A p \in (Mints \cup Runs) \ {r} : pc'[p] = pc[p]
           /\ \A q \in Runs \ {r} : run'[q] = run[q]
  BY <1>0, <1>00 DEF Concludes
<1>1. CASE StartRun(r)
  BY <1>0, <1>1 DEF StartRun
<1>2. CASE Authenticate(r)
  BY <1>0, <1>00, <1>2 DEF Authenticate
<1>3. CASE Verifies(r)
  BY <1>0, <1>3 DEF Verifies, ReadAttestation, CheckAttestation, LockReplay, ReadCounter
<1>4. CASE Rejected(r)
  BY <1>00, <1>4 DEF Rejected
<1>5. CASE Accepted(r)
  BY <1>0, <1>5 DEF Accepted, StoreCounter
<1>6. CASE OpenTrace(r) \/ Synthesise(r)
  BY <1>0, <1>6, Opening DEF Opened, Synthesise
<1>7. CASE CompareTraces(r)
  <2>1. PICK reasons : Concludes(r, "chipwhisperer", reasons, "synthesise", run[r])
    BY <1>7, Zenon DEF CompareTraces
  <2>2. UNCHANGED <<mint, files>>
    BY <1>7, Zenon DEF CompareTraces
  <2>. QED  BY <1>000, <2>1, <2>2
<1>8. CASE MeasureNetlist(r)
  BY <1>000, <1>8 DEF MeasureNetlist
<1>9. CASE Simulate(r) \/ GenerateSbom(r)
  BY <1>000, <1>9 DEF Simulate, GenerateSbom
<1>10. CASE VerifyTwin(r)
  BY <1>000, <1>10 DEF VerifyTwin
<1>11. CASE BuildEvidence(r)
  BY <1>0, <1>00, <1>11 DEF BuildEvidence
<1>12. CASE Analyse(r)
  BY <1>0, <1>00, <1>12 DEF Analyse
<1>13. CASE Comply(r)
  BY <1>00, <1>13 DEF Comply
<1>14. CASE ToolFails(r) \/ RecordFails(r) \/ ModelsFail(r)
  BY <1>00, <1>14 DEF ToolFails, RecordFails, ModelsFail, Trouble, shared
<1>. QED
  BY <1>1, <1>2, <1>3, <1>4, <1>5, <1>6, <1>7, <1>8, <1>9, <1>10, <1>11, <1>12, <1>13, <1>14
     DEF RunStep

(* What a step of a run does to what it knows, by how far it has come.     *)
Starts(r) ==
  /\ pc[r] = "idle" /\ pc'[r] = "authenticate" /\ fixture # NONE
  /\ run'[r] = [run[r] EXCEPT !.fixture = fixture]

Measures(r) ==
  /\ pc[r] \in {"authenticate", "attest", "check", "lock", "counter", "store", "rejected", "capture",
                "hash", "compare", "synthesise", "measure", "simulate", "sbom"}
  /\ pc'[r] \notin {"idle", "models"}
  /\ run'[r].fixture = run[r].fixture /\ run'[r].ai = run[r].ai
  /\ "digital_twin" \in run'[r].completed => "digital_twin" \in run[r].completed

PassesTwin(r) ==
  /\ pc[r] = "twin" /\ pc'[r] = "ai"
  /\ twin # NONE /\ TwinReasons(twin, Measured(r), Fields) = {}
  /\ run'[r] = [run[r] EXCEPT !.completed = @ \cup {"digital_twin"}]

(* A trace is opened anew for the models.                                  *)
Reopens(r) ==
  /\ pc[r] \in {"ai", "bind", "em"} /\ pc'[r] \in {"bind", "em", "timing"}
  /\ \A field \in RunFields \ {"power", "bound", "em"} : run'[r][field] = run[r][field]

HasEvidence(r) ==
  LET hw     == Results(r)
      power  == run[r].power
      em     == run[r].em
      timing == traces["ai_timing_trace"]
  IN  /\ pc[r] = "timing" /\ pc'[r] = "models"
      /\ Refusals(hw, power, run[r].bound, em, timing, Authenticated, Schema) = {}
      /\ run'[r] = [run[r] EXCEPT !.ai =
           [evidence |-> Evidence(hw, power, em, timing, Authenticated),
            controls |-> Controls(hw, Authenticated, Schema), decision |-> NONE]]

(* The run keeps what it knows, and goes on to compliance or ends.         *)
Kept == {"fixture", "capture", "compared", "bound", "netlist", "digest", "output", "sbom", "completed"}

Concluded(r) ==
  /\ pc[r] # "idle" /\ pc'[r] \in {"comply", "ended"} /\ (pc'[r] = "comply" => pc[r] = "models")
  /\ \A field \in Kept : run'[r][field] = run[r][field]
  /\ run'[r].ai = run[r].ai \/ (pc[r] = "models" /\ \E d : run'[r].ai = [run[r].ai EXCEPT !.decision = d])

LEMMA EndsConcluded ==
  ASSUME TypeInv, NEW r \in Runs, pc[r] # "idle", NEW result, NEW stage, NEW state,
         DOMAIN state = RunFields, \A field \in Kept : state[field] = run[r][field],
         \/ state.ai = run[r].ai
         \/ pc[r] = "models" /\ \E d : state.ai = [run[r].ai EXCEPT !.decision = d],
         Ends(r, result, stage, state)
  PROVE  Concluded(r)
<1>. DEFINE last == [state EXCEPT !.result = result, !.stage = stage]
<1>1. pc'[r] = "ended" /\ run'[r] = last
  BY DEF Ends, Ran, Goes, TypeInv, TypeOK, Shaped
<1>2. (\A field \in Kept : last[field] = state[field]) /\ last.ai = state.ai
  BY DEF Kept, RunFields
<1>. HIDE DEF last
<1>. QED  BY <1>1, <1>2 DEF Concluded

(* A stage of measurement that has its verdict.                            *)
LEMMA StageMeasures ==
  ASSUME TypeInv, NEW r \in Runs, NEW stage \in Stages \ {"digital_twin"}, NEW reasons,
         NEW next \in {"synthesise", "simulate", "sbom", "twin"}, NEW state, DOMAIN state = RunFields,
         pc[r] \in {"compare", "measure", "simulate", "sbom"},
         state.fixture = run[r].fixture, state.ai = run[r].ai, state.completed = run[r].completed,
         Concludes(r, stage, reasons, next, state)
  PROVE  Measures(r)
<1>1. CASE reasons = {}
  <2>. DEFINE more == [state EXCEPT !.completed = @ \cup {stage}]
  <2>1. /\ more.fixture = state.fixture /\ more.ai = state.ai
        /\ more.completed = state.completed \cup {stage}
    BY DEF RunFields
  <2>2. pc'[r] = next /\ run'[r] = more
    BY <1>1 DEF Concludes, Ran, Goes, TypeInv, TypeOK, Shaped
  <2>. HIDE DEF more
  <2>. QED  BY <2>1, <2>2 DEF Measures
<1>2. CASE reasons # {}
  <2>. DEFINE last == [state EXCEPT !.result = "QUARANTINED", !.stage = stage]
  <2>1. last.fixture = state.fixture /\ last.ai = state.ai /\ last.completed = state.completed
    BY DEF RunFields
  <2>2. pc'[r] = "ended" /\ run'[r] = last
    BY <1>2 DEF Concludes, Ends, Ran, Goes, TypeInv, TypeOK, Shaped
  <2>. HIDE DEF last
  <2>. QED  BY <2>1, <2>2 DEF Measures
<1>. QED  BY <1>1, <1>2

LEMMA RunShape ==
  ASSUME TypeInv, NEW r \in Runs, StartRun(r) \/ RunStep(r)
  PROVE  \/ Starts(r) \/ Measures(r) \/ PassesTwin(r) \/ Reopens(r) \/ HasEvidence(r)
         \/ Concluded(r)
<1>. USE DEF Running, Held
<1>0. /\ DOMAIN run[r] = RunFields /\ DOMAIN run = Runs
      /\ pc \in [Mints \cup Runs -> Steps]
      /\ \A field \in Kept : run[r][field] = run[r][field]
  BY DEF TypeInv, TypeOK, Shaped
<1>1. CASE StartRun(r)
  BY <1>0, <1>1 DEF StartRun, Starts, Ran, Goes
<1>2. CASE Authenticate(r)
  <2>1. CASE Ends(r, "STOPPED", "puf", run[r])
    BY <1>0, <1>2, <2>1, EndsConcluded DEF Authenticate
  <2>2. CASE ~Ends(r, "STOPPED", "puf", run[r])
    <3>1. pc[r] = "authenticate" /\ pc'[r] = "attest" /\ UNCHANGED run
      BY <1>0, <1>2, <2>2 DEF Authenticate, Goes
    <3>. QED  BY <3>1 DEF Measures
  <2>. QED  BY <2>1, <2>2
<1>3. CASE Verifies(r)
  <2>1. PICK step \in {"check", "lock", "rejected", "counter", "store"} :
          /\ Goes(r, step) /\ pc[r] \in {"attest", "check", "lock", "counter"} /\ UNCHANGED run
    BY <1>3 DEF Verifies, ReadAttestation, CheckAttestation, LockReplay, ReadCounter
  <2>2. pc'[r] = step
    BY <1>0, <2>1 DEF Goes
  <2>. QED  BY <2>1, <2>2 DEF Measures
<1>4. CASE Rejected(r)
  BY <1>0, <1>4, EndsConcluded DEF Rejected
<1>5. CASE Accepted(r)
  <2>1. pc[r] = "store" /\ pc'[r] = "capture" /\ run'[r] = [run[r] EXCEPT !.completed = {"opentitan"}]
    BY <1>0, <1>5 DEF Accepted, StoreCounter, Ran, Goes
  <2>2. run'[r].fixture = run[r].fixture /\ run'[r].ai = run[r].ai /\ run'[r].completed = {"opentitan"}
    BY <1>0, <2>1 DEF RunFields
  <2>. QED  BY <2>1, <2>2 DEF Measures
<1>6. CASE OpenTrace(r)
  <2>1. \A step, field, channel, next :
          Opened(r, step, field, channel, next) =>
            /\ pc[r] = step /\ pc'[r] = next
            /\ field \in Read => \A f \in RunFields \ {field} : run'[r][f] = run[r][f]
    BY <1>0 DEF Opened, Ran, Goes
  <2>2. CASE CaptureTrace(r) \/ HashCapture(r)
    <3>1. /\ pc[r] \in {"capture", "hash"} /\ pc'[r] \in {"hash", "compare"}
          /\ \A f \in RunFields \ {"capture", "compared"} : run'[r][f] = run[r][f]
      BY <2>1, <2>2 DEF CaptureTrace, HashCapture, Read
    <3>. QED  BY <3>1 DEF Measures, RunFields
  <2>3. CASE ReadPower(r) \/ HashPower(r) \/ ReadEm(r)
    BY <2>1, <2>3 DEF ReadPower, HashPower, ReadEm, Read, Reopens
  <2>. QED  BY <1>6, <2>2, <2>3 DEF OpenTrace
<1>7. CASE CompareTraces(r)
  <2>1. PICK reasons : Concludes(r, "chipwhisperer", reasons, "synthesise", run[r])
    BY <1>7, Zenon DEF CompareTraces
  <2>2. pc[r] = "compare" /\ "chipwhisperer" \in Stages \ {"digital_twin"}
    BY <1>7, Zenon DEF CompareTraces, Stages
  <2>. QED  BY <1>0, <2>1, <2>2, StageMeasures
<1>8. CASE Synthesise(r)
  <2>. DEFINE state == [run[r] EXCEPT !.netlist = rtl]
  <2>1. state.fixture = run[r].fixture /\ state.ai = run[r].ai /\ state.completed = run[r].completed
    BY <1>0 DEF RunFields
  <2>2. pc[r] = "synthesise" /\ pc'[r] = "measure" /\ run'[r] = state
    BY <1>0, <1>8 DEF Synthesise, Ran, Goes
  <2>. HIDE DEF state
  <2>. QED  BY <2>1, <2>2 DEF Measures
<1>9. CASE MeasureNetlist(r)
  <2>. DEFINE state == [run[r] EXCEPT !.digest = rtl,
                !.ratio = DeltaRatio(Design[ReferenceRtl].metrics, Design[run[r].netlist].metrics),
                !.departs = StructuralReasons(Design[ReferenceRtl].metrics, Design[run[r].netlist].metrics,
                                              Policy)]
  <2>1. PICK reasons : Concludes(r, "yosys", reasons, "simulate", state)
    BY <1>9 DEF MeasureNetlist
  <2>2. /\ DOMAIN state = RunFields /\ state.fixture = run[r].fixture /\ state.ai = run[r].ai
        /\ state.completed = run[r].completed
    BY <1>0 DEF RunFields
  <2>. HIDE DEF state
  <2>3. pc[r] = "measure" /\ "yosys" \in Stages \ {"digital_twin"}
    BY <1>9 DEF MeasureNetlist, Stages
  <2>. QED  BY <2>1, <2>2, <2>3, StageMeasures
<1>10. CASE Simulate(r)
  <2>. DEFINE state == [run[r] EXCEPT !.output = Design[rtl].output]
  <2>1. PICK reasons : Concludes(r, "verilator", reasons, "sbom", state)
    BY <1>10 DEF Simulate
  <2>2. /\ DOMAIN state = RunFields /\ state.fixture = run[r].fixture /\ state.ai = run[r].ai
        /\ state.completed = run[r].completed
    BY <1>0 DEF RunFields
  <2>. HIDE DEF state
  <2>3. pc[r] = "simulate" /\ "verilator" \in Stages \ {"digital_twin"}
    BY <1>10 DEF Simulate, Stages
  <2>. QED  BY <2>1, <2>2, <2>3, StageMeasures
<1>11. CASE GenerateSbom(r)
  <2>. DEFINE state == [run[r] EXCEPT !.sbom = DocumentDigest("chip", Artifacts)]
  <2>1. PICK reasons : Concludes(r, "sbom", reasons, "twin", state)
    BY <1>11 DEF GenerateSbom
  <2>2. /\ DOMAIN state = RunFields /\ state.fixture = run[r].fixture /\ state.ai = run[r].ai
        /\ state.completed = run[r].completed
    BY <1>0 DEF RunFields
  <2>. HIDE DEF state
  <2>3. pc[r] = "sbom" /\ "sbom" \in Stages \ {"digital_twin"}
    BY <1>11 DEF GenerateSbom, Stages
  <2>. QED  BY <2>1, <2>2, <2>3, StageMeasures
<1>12. CASE VerifyTwin(r)
  <2>. DEFINE reasons == IF twin = NONE THEN {"NO_TWIN"} ELSE TwinReasons(twin, Measured(r), Fields)
  <2>1. pc[r] = "twin" /\ Concludes(r, "digital_twin", reasons, "ai", run[r])
    BY <1>12 DEF VerifyTwin
  <2>2. CASE reasons = {}
    <3>1. twin # NONE /\ TwinReasons(twin, Measured(r), Fields) = {}
      BY <2>2
    <3>. QED  BY <1>0, <2>1, <2>2, <3>1 DEF Concludes, PassesTwin, Ran, Goes
  <2>3. CASE reasons # {}
    <3>. HIDE DEF reasons
    <3>. QED  BY <1>0, <2>1, <2>3, EndsConcluded DEF Concludes
  <2>. QED  BY <2>2, <2>3
<1>13. CASE BuildEvidence(r)
  <2>1. CASE Ends(r, "RAISED", "ai", run[r])
    BY <1>0, <1>13, <2>1, EndsConcluded DEF BuildEvidence
  <2>2. CASE ~Ends(r, "RAISED", "ai", run[r])
    BY <1>0, <1>13, <2>2 DEF BuildEvidence, HasEvidence, Ran, Goes
  <2>. QED  BY <2>1, <2>2
<1>14. CASE Analyse(r)
  <2>1. PICK d : LET state == [run[r] EXCEPT !.ai = [run[r].ai EXCEPT !.decision = d]]
                 IN  \/ Goes(r, "comply") /\ Ran(r, state)
                     \/ Ends(r, "QUARANTINED", "models", state)
    BY <1>14 DEF Analyse
  <2>. DEFINE ai == [run[r].ai EXCEPT !.decision = d]
              state == [run[r] EXCEPT !.ai = ai]
  <2>2. /\ DOMAIN state = RunFields /\ \A field \in Kept : state[field] = run[r][field]
        /\ state.ai = ai
    BY <1>0 DEF RunFields, Kept
  <2>3. (Goes(r, "comply") /\ Ran(r, state)) \/ Ends(r, "QUARANTINED", "models", state)
    BY <2>1
  <2>4. pc[r] = "models"
    BY <1>14 DEF Analyse
  <2>5. \E e : state.ai = [run[r].ai EXCEPT !.decision = e]
    BY <2>2
  <2>. HIDE DEF state, ai
  <2>6. CASE Ends(r, "QUARANTINED", "models", state)
    <3>1. pc[r] # "idle"
      BY <2>4
    <3>. QED  BY <2>2, <2>4, <2>5, <2>6, <3>1, EndsConcluded, Zenon
  <2>7. CASE Goes(r, "comply") /\ Ran(r, state)
    BY <1>0, <2>2, <2>4, <2>5, <2>7 DEF Concluded, Goes, Ran
  <2>. QED  BY <2>3, <2>6, <2>7
<1>15. CASE Comply(r)
  <2>1. PICK result : Ends(r, result, "policy", run[r])
    BY <1>15 DEF Comply
  <2>. QED
    BY <1>0, <1>15, <2>1, EndsConcluded DEF Comply
<1>16. CASE ToolFails(r) \/ RecordFails(r) \/ ModelsFail(r)
  <2>. DEFINE state == [run[r] EXCEPT !.faulty = TRUE]
  <2>1. /\ DOMAIN state = RunFields /\ state.ai = run[r].ai
        /\ \A field \in Kept : state[field] = run[r][field]
    BY <1>0 DEF RunFields, Kept
  <2>2. \E result, stage : Ends(r, result, stage, state)
    BY <1>16 DEF ToolFails, RecordFails, ModelsFail, Trouble
  <2>3. PICK stage \in Stages \cup {"models"} : pc[r] \in InStage[stage]
    BY <1>16 DEF ToolFails, RecordFails, ModelsFail, Trouble, Stages
  <2>4. pc[r] # "idle"
    BY <2>3 DEF InStage, Stages
  <2>. HIDE DEF state
  <2>. QED  BY <2>1, <2>2, <2>4, EndsConcluded
<1>. QED
  BY <1>1, <1>2, <1>3, <1>4, <1>5, <1>6, <1>7, <1>8, <1>9, <1>10, <1>11, <1>12, <1>13, <1>14,
     <1>15, <1>16 DEF RunStep

LEMMA InitEvidence == Init => TwinTrue /\ FixtureTrue /\ RunsTrue /\ DigestAsReported
<1>. SUFFICES ASSUME Init PROVE TwinTrue /\ FixtureTrue /\ RunsTrue /\ DigestAsReported
  OBVIOUS
<1>1. /\ twin = NONE /\ fixture = NONE
      /\ \A r \in Runs : pc[r] = "idle" /\ run[r].completed = {} /\ run[r].ai = NONE
  BY DEF Init, NothingMeasured
<1>. QED
  BY <1>1 DEF TwinTrue, FixtureTrue, RunsTrue, DigestAsReported

(* What a mint that is settled has measured is never changed.              *)
LEMMA SettledStays ==
  ASSUME TypeInv, [Next]_vars, NEW m \in Mints, Settled(m)
  PROVE  Settled(m)' /\ mint'[m] = mint[m]
<1>1. ASSUME NEW x \in Mints, StartMint(x) \/ MintStep(x)
      PROVE  Settled(m)' /\ mint'[m] = mint[m]
  BY <1>1, MintAlone DEF Settled
<1>2. ASSUME NEW r \in Runs, StartRun(r) \/ RunStep(r)
      PROVE  Settled(m)' /\ mint'[m] = mint[m]
  BY <1>2, RunAlone, ProcessesApart DEF Settled
<1>3. ASSUME NEW p \in Mints \cup Runs, Die(p)
      PROVE  Settled(m)' /\ mint'[m] = mint[m]
  BY <1>3 DEF Die, Goes, Settled, Over, TypeInv, TypeOK
<1>4. CASE Edit \/ Pass \/ UNCHANGED vars
  BY <1>4 DEF Edit, Pass, Tick, vars, Settled
<1>. QED
  BY <1>1, <1>2, <1>3, <1>4 DEF Next

(* The other steps touch neither twin nor fixture nor any run.             *)
LEMMA OthersAlone ==
  ASSUME TypeInv, [Next]_vars,
         ~\E m \in Mints : StartMint(m) \/ MintStep(m),
         ~\E r \in Runs : StartRun(r) \/ RunStep(r)
  PROVE  /\ UNCHANGED <<twin, fixture, run>>
         /\ \A r \in Runs : pc'[r] = pc[r] \/ (pc[r] # "idle" /\ pc'[r] = "dead")
<1>. USE DEF files, shared
<1>1. ASSUME NEW p \in Mints \cup Runs, Die(p)
      PROVE  /\ UNCHANGED <<twin, fixture, run>>
             /\ \A r \in Runs : pc'[r] = pc[r] \/ (pc[r] # "idle" /\ pc'[r] = "dead")
  BY <1>1 DEF Die, Goes, Over, TypeInv, TypeOK
<1>2. CASE Edit \/ Pass \/ UNCHANGED vars
  BY <1>2 DEF Edit, Pass, Tick, vars
<1>. QED
  BY <1>1, <1>2 DEF Next

LEMMA StepTwin == TypeInv /\ TwinTrue /\ [Next]_vars => TwinTrue'
<1>. SUFFICES ASSUME TypeInv, TwinTrue, [Next]_vars PROVE TwinTrue'
  OBVIOUS
<1>1. ASSUME twin' \in {twin, NONE} PROVE TwinTrue'
  <2>. SUFFICES ASSUME twin' = twin, twin # NONE PROVE TwinTrue'
    BY <1>1 DEF TwinTrue
  <2>1. PICK m \in Mints : /\ Settled(m) /\ twin.puf_identity_hash = m
                           /\ twin.rtl_digest = mint[m].digest
                           /\ twin.netlist_digest = mint[m].netlist
                           /\ twin.sbom_digest = mint[m].sbom
    BY DEF TwinTrue
  <2>2. Settled(m)' /\ mint'[m] = mint[m]
    BY <2>1, SettledStays
  <2>. QED  BY <2>1, <2>2 DEF TwinTrue
<1>2. ASSUME NEW m \in Mints, SaveTwin(m)
      PROVE  TwinTrue'
  <2>1. /\ Settled(m)' /\ mint'[m] = mint[m] /\ twin'.puf_identity_hash = m
        /\ twin'.rtl_digest = mint[m].digest /\ twin'.netlist_digest = mint[m].netlist
        /\ twin'.sbom_digest = mint[m].sbom
    BY <1>2 DEF SaveTwin, Minting, Goes, Settled, TypeInv, TypeOK
  <2>. QED  BY <2>1 DEF TwinTrue
<1>3. ASSUME NEW m \in Mints, StartMint(m) \/ MintStep(m)
      PROVE  TwinTrue'
  BY <1>1, <1>2, <1>3, MintAlone
<1>4. ASSUME NEW r \in Runs, StartRun(r) \/ RunStep(r)
      PROVE  TwinTrue'
  BY <1>1, <1>4, RunAlone DEF files
<1>. QED
  BY <1>1, <1>3, <1>4, OthersAlone

(* The fixtures that are written and read are those of settled mints.      *)
LEMMA FixtureStays ==
  ASSUME TypeInv, [Next]_vars, NEW f, FixtureOf(f)
  PROVE  /\ f.mint \in Mints /\ f.identity = f.mint /\ mint'[f.mint] = mint[f.mint]
         /\ \A m : m = f.mint => Settled(m)'
  BY SettledStays DEF FixtureOf

LEMMA StepFixture == TypeInv /\ FixtureTrue /\ [Next]_vars => FixtureTrue'
<1>. SUFFICES ASSUME TypeInv, FixtureTrue, [Next]_vars PROVE FixtureTrue'
  OBVIOUS
<1>0. \A f : FixtureOf(f) => FixtureOf(f)'
  BY FixtureStays DEF FixtureOf
<1>1. fixture' # NONE => FixtureOf(fixture)'
  <2>1. CASE fixture' = fixture
    BY <1>0, <2>1 DEF FixtureTrue
  <2>2. ASSUME NEW m \in Mints, WriteFixture(m)
        PROVE  FixtureOf(fixture)'
    BY <2>2 DEF WriteFixture, Minting, Goes, FixtureOf, Settled, TypeInv, TypeOK
  <2>3. ASSUME NEW m \in Mints, StartMint(m) \/ MintStep(m)
        PROVE  fixture' = fixture \/ WriteFixture(m)
    BY <2>3, MintAlone
  <2>4. ASSUME NEW r \in Runs, StartRun(r) \/ RunStep(r)
        PROVE  fixture' = fixture
    BY <2>4, RunAlone DEF files
  <2>. QED  BY <2>1, <2>2, <2>3, <2>4, OthersAlone
<1>2. ASSUME NEW r \in Runs, pc'[r] # "idle"
      PROVE  FixtureOf(run[r].fixture)'
  <2>1. CASE run'[r].fixture = run[r].fixture /\ pc[r] # "idle"
    BY <1>0, <2>1 DEF FixtureTrue
  <2>2. CASE StartRun(r) \/ RunStep(r)
    <3>1. CASE Starts(r)
      <4>1. run'[r].fixture = fixture /\ FixtureOf(fixture)
        BY <3>1 DEF Starts, FixtureTrue, TypeInv, Shaped, RunFields
      <4>. QED  BY <1>0, <4>1
    <3>2. CASE ~Starts(r)
      <4>1. run'[r].fixture = run[r].fixture /\ pc[r] # "idle"
        <5>1. CASE Measures(r)
          BY <5>1 DEF Measures
        <5>2. CASE PassesTwin(r)
          BY <5>2 DEF PassesTwin, TypeInv, Shaped, RunFields
        <5>3. CASE HasEvidence(r)
          BY <5>3 DEF HasEvidence, TypeInv, Shaped, RunFields
        <5>4. CASE Concluded(r)
          BY <5>4 DEF Concluded, Kept
        <5>5. CASE Reopens(r)
          BY <5>5 DEF Reopens, RunFields
        <5>. QED  BY <2>2, <3>2, <5>1, <5>2, <5>3, <5>4, <5>5, RunShape
      <4>. QED  BY <2>1, <4>1
    <3>. QED  BY <3>1, <3>2
  <2>3. ASSUME NEW q \in Runs \ {r}, StartRun(q) \/ RunStep(q)
        PROVE  run'[r] = run[r] /\ pc'[r] = pc[r]
    BY <2>3, RunAlone
  <2>4. ASSUME NEW m \in Mints, StartMint(m) \/ MintStep(m)
        PROVE  run'[r] = run[r] /\ pc'[r] = pc[r]
    BY <2>4, MintAlone, ProcessesApart
  <2>. QED  BY <1>2, <2>1, <2>2, <2>3, <2>4, OthersAlone
<1>. QED  BY <1>1, <1>2 DEF FixtureTrue

(* A property of each run is kept, if the steps of the run keep it.        *)
LEMMA RunsUntouched ==
  ASSUME TypeInv, [Next]_vars, NEW r \in Runs, ~(StartRun(r) \/ RunStep(r))
  PROVE  run'[r] = run[r] /\ (pc'[r] = pc[r] \/ (pc[r] # "idle" /\ pc'[r] = "dead"))
<1>1. ASSUME NEW q \in Runs, StartRun(q) \/ RunStep(q)
      PROVE  run'[r] = run[r] /\ pc'[r] = pc[r]
  BY <1>1, RunAlone
<1>2. ASSUME NEW m \in Mints, StartMint(m) \/ MintStep(m)
      PROVE  run'[r] = run[r] /\ pc'[r] = pc[r]
  BY <1>2, MintAlone, ProcessesApart
<1>. QED  BY <1>1, <1>2, OthersAlone

(* What is refused unless the power trace is the one reported on.          *)
LEMMA BoundUnlessRefused ==
  ASSUME NEW hw, NEW power, NEW digest, NEW em, NEW timing, NEW puf, NEW schema,
         Refusals(hw, power, digest, em, timing, puf, schema) = {}
  PROVE  BoundToCapture(power, digest, hw)
<1>. DEFINE checks ==
       [HARDWARE_NOT_VERIFIED |-> ~StagesVerified(hw),
        TRACE_NOT_VALIDATED   |-> \E trace \in {power, em, timing} : ~TraceUsable(trace),
        POWER_TRACE_NOT_BOUND |-> ~BoundToCapture(power, digest, hw),
        COUNTS_NOT_SOUND      |-> ~CountsSound(hw.metrics),
        NO_ASSERTIONS         |-> hw.output.assertions <= 0,
        NO_STABILITY          |-> puf.stability < 0 \/ puf.stability > 1000]
<1>1. Failing(checks) = {}
  BY ZenonT(60) DEF Refusals
<1>2. "POWER_TRACE_NOT_BOUND" \in DOMAIN checks
  OBVIOUS
<1>3. checks["POWER_TRACE_NOT_BOUND"] = ~BoundToCapture(power, digest, hw)
  OBVIOUS
<1>4. checks["POWER_TRACE_NOT_BOUND"] # TRUE
  <2>. HIDE DEF checks
  <2>. QED  BY <1>1, <1>2 DEF Failing
<1>. HIDE DEF checks
<1>5. CASE ~BoundToCapture(power, digest, hw)
  <2>1. (~BoundToCapture(power, digest, hw)) = TRUE
    BY <1>5
  <2>. QED  BY <1>3, <1>4, <2>1, Zenon
<1>. QED  BY <1>5

LEMMA StepRuns ==
  TypeInv /\ RunsTrue /\ DigestAsReported /\ [Next]_vars => RunsTrue' /\ DigestAsReported'
<1>. SUFFICES ASSUME TypeInv, RunsTrue, DigestAsReported, [Next]_vars, NEW r \in Runs
              PROVE  /\ pc'[r] = "idle" => run'[r].completed = {}
                     /\ "digital_twin" \in run'[r].completed => pc'[r] \in AfterTwin
                     /\ run'[r].ai # NONE =>
                          /\ pc'[r] \in {"models", "comply", "ended", "dead"}
                          /\ DOMAIN run'[r].ai = {"evidence", "controls", "decision"}
                     /\ pc'[r] = "models" => /\ DOMAIN run'[r].ai = {"evidence", "controls", "decision"}
                                             /\ run'[r].bound = run'[r].compared
                     /\ run'[r].ai # NONE => run'[r].bound = run'[r].compared
  BY DEF RunsTrue, DigestAsReported
<1>0. /\ DOMAIN run[r] = RunFields
      /\ pc[r] = "idle" => run[r].completed = {}
      /\ "digital_twin" \in run[r].completed => pc[r] \in AfterTwin
      /\ run[r].ai # NONE =>
           /\ pc[r] \in {"models", "comply", "ended", "dead"}
           /\ DOMAIN run[r].ai = {"evidence", "controls", "decision"}
      /\ pc[r] = "models" => /\ DOMAIN run[r].ai = {"evidence", "controls", "decision"}
                             /\ run[r].bound = run[r].compared
      /\ run[r].ai # NONE => run[r].bound = run[r].compared
  BY DEF TypeInv, Shaped, RunsTrue, DigestAsReported
<1>. USE DEF AfterTwin
<1>1. CASE ~(StartRun(r) \/ RunStep(r))
  BY <1>0, <1>1, RunsUntouched
<1>2. CASE Starts(r)
  <2>1. run'[r].completed = run[r].completed /\ run'[r].ai = run[r].ai
    BY <1>0, <1>2 DEF Starts, RunFields
  <2>. QED  BY <1>0, <1>2, <2>1 DEF Starts
<1>3. CASE Measures(r)
  BY <1>0, <1>3 DEF Measures
<1>4. CASE PassesTwin(r)
  <2>1. run'[r].ai = run[r].ai
    BY <1>0, <1>4 DEF PassesTwin, RunFields
  <2>. QED  BY <1>0, <1>4, <2>1 DEF PassesTwin
<1>04. CASE Reopens(r)
  <2>1. run'[r].ai = run[r].ai /\ run'[r].completed = run[r].completed
    BY <1>04 DEF Reopens, RunFields
  <2>. QED  BY <1>0, <1>04, <2>1 DEF Reopens
<1>5. CASE HasEvidence(r)
  <2>. DEFINE hw     == Results(r)
              timing == traces["ai_timing_trace"]
              ai     == [evidence |-> Evidence(hw, run[r].power, run[r].em, timing, Authenticated),
                         controls |-> Controls(hw, Authenticated, Schema), decision |-> NONE]
  <2>1. /\ pc[r] = "timing" /\ pc'[r] = "models"
        /\ Refusals(hw, run[r].power, run[r].bound, run[r].em, timing, Authenticated, Schema) = {}
        /\ run'[r] = [run[r] EXCEPT !.ai = ai]
    BY <1>5 DEF HasEvidence
  <2>2. BoundToCapture(run[r].power, run[r].bound, hw)
    BY <2>1, BoundUnlessRefused
  <2>3. run[r].bound = run[r].compared
    BY <2>2 DEF BoundToCapture, Results
  <2>4. DOMAIN ai = {"evidence", "controls", "decision"}
    OBVIOUS
  <2>. HIDE DEF ai
  <2>5. /\ run'[r].ai = ai /\ run'[r].compared = run[r].compared /\ run'[r].bound = run[r].bound
        /\ run'[r].completed = run[r].completed
    BY <1>0, <2>1 DEF RunFields
  <2>. QED  BY <2>1, <2>3, <2>4, <2>5
<1>6. CASE Concluded(r)
  <2>1. /\ run'[r].completed = run[r].completed /\ run'[r].compared = run[r].compared
        /\ run'[r].bound = run[r].bound
    BY <1>6 DEF Concluded, Kept
  <2>2. CASE run'[r].ai = run[r].ai
    BY <1>0, <1>6, <2>1, <2>2 DEF Concluded
  <2>3. CASE pc[r] = "models" /\ \E d : run'[r].ai = [run[r].ai EXCEPT !.decision = d]
    <3>1. run'[r].ai.evidence = run[r].ai.evidence /\ DOMAIN run'[r].ai = DOMAIN run[r].ai
      BY <1>0, <2>3
    <3>. QED  BY <1>0, <1>6, <2>1, <2>3, <3>1 DEF Concluded
  <2>. QED  BY <1>6, <2>2, <2>3 DEF Concluded
<1>. QED
  BY <1>1, <1>2, <1>3, <1>4, <1>04, <1>5, <1>6, RunShape
-----------------------------------------------------------------------------
(* The invariant and what follows                                          *)

LEMMA InitInv == Init => IInv
  BY InitTypes, InitAttestation, InitEvidence DEF IInv

LEMMA StepInv == IInv /\ [Next]_vars => IInv'
  BY StepTypes, StepAttestation, StepTwin, StepFixture, StepRuns DEF IInv, AttestationInv

LEMMA Invariant == Spec => []IInv
  BY InitInv, StepInv, PTL DEF Spec

(* The variables keep their types, and a run has a result exactly when it  *)
(* has ended, however mints, runs, deaths and edits interleave.            *)
THEOREM EvidenceTypes == Spec => []TypeOK
<1>1. IInv => TypeOK
  BY DEF IInv, TypeInv
<1>. QED  BY <1>1, Invariant, PTL

(* The verifier accepts attestations in the order they were made and each  *)
(* counter once, although counters are drawn without a lock or reservation *)
(* and may be drawn twice: any number of mints and verifiers may race, and *)
(* die with the replay state locked.                                       *)
THEOREM AttestationsInOrder == Spec => []AttestedInOrder
<1>1. IInv => AttestedInOrder
  BY DEF IInv, AttestationInv
<1>. QED  BY <1>1, Invariant, PTL

-----------------------------------------------------------------------------
(* Evidence of one mint.  The code makes sure that the fields the twin     *)
(* must match are some of its six (ConfigurationSound); the configuration  *)
(* in configs/hardware/digital_twin.json names all six (AllMatched).       *)

(* Who agrees with the twin in these fields agrees with the mint that      *)
(* saved it, which is the one of the run's manifest.                       *)
LEMMA MatchesTwin ==
  ASSUME AllMatched, TwinTrue, NEW r \in Runs, FixtureOf(run[r].fixture),
         twin # NONE, TwinReasons(twin, Measured(r), Fields) = {}
  PROVE  LET minted == mint[run[r].fixture.mint]
         IN  /\ run[r].netlist = minted.netlist /\ run[r].digest = minted.digest
             /\ run[r].sbom = minted.sbom
<1>1. DOMAIN Measured(r) = TwinAttributes
  BY DEF Measured, TwinAttributes
<1>2. /\ Measured(r)["puf_identity_hash"] = run[r].fixture.mint
      /\ Measured(r)["rtl_digest"] = run[r].digest
      /\ Measured(r)["netlist_digest"] = run[r].netlist
      /\ Measured(r)["sbom_digest"] = run[r].sbom
  BY DEF Measured, FixtureOf
<1>3. \A f \in Fields \cap DOMAIN Measured(r) : twin[f] = Measured(r)[f]
  BY DEF TwinReasons
<1>4. \A f \in {"puf_identity_hash", "rtl_digest", "netlist_digest", "sbom_digest"} :
        twin[f] = Measured(r)[f]
  BY <1>1, <1>3 DEF AllMatched, TwinAttributes
<1>. QED  BY <1>2, <1>4 DEF TwinTrue

LEMMA StepOneMint ==
  ASSUME AllMatched, IInv, OneMint, [Next]_vars
  PROVE  OneMint'
<1>. SUFFICES ASSUME NEW r \in Runs, "digital_twin" \in run'[r].completed
              PROVE  LET minted == mint'[run'[r].fixture.mint]
                     IN  /\ run'[r].netlist = minted.netlist /\ run'[r].digest = minted.digest
                         /\ run'[r].sbom = minted.sbom
  BY DEF OneMint
<1>0. TypeInv /\ TwinTrue /\ DOMAIN run[r] = RunFields
  BY DEF IInv, TypeInv, Shaped
<1>1. pc[r] # "idle" => /\ FixtureOf(run[r].fixture)
                        /\ mint'[run[r].fixture.mint] = mint[run[r].fixture.mint]
  BY <1>0, FixtureStays DEF IInv, FixtureTrue
<1>2. "digital_twin" \in run[r].completed =>
        /\ pc[r] \in AfterTwin
        /\ run[r].netlist = mint[run[r].fixture.mint].netlist
        /\ run[r].digest = mint[run[r].fixture.mint].digest
        /\ run[r].sbom = mint[run[r].fixture.mint].sbom
  BY DEF IInv, RunsTrue, OneMint
<1>02. "digital_twin" \in run[r].completed => pc[r] # "idle"
  BY <1>2 DEF AfterTwin
<1>3. CASE ~(StartRun(r) \/ RunStep(r))
  <2>1. run'[r] = run[r]
    BY <1>0, <1>3, RunsUntouched
  <2>. QED  BY <1>1, <1>2, <1>02, <2>1
<1>4. CASE Starts(r)
  <2>1. run'[r].completed = {}
    BY <1>0, <1>4 DEF Starts, RunFields, IInv, RunsTrue
  <2>. QED  BY <2>1
<1>5. CASE Measures(r)
  BY <1>2, <1>5 DEF Measures, AfterTwin
<1>6. CASE PassesTwin(r)
  <2>1. LET minted == mint[run[r].fixture.mint]
        IN  /\ run[r].netlist = minted.netlist /\ run[r].digest = minted.digest
            /\ run[r].sbom = minted.sbom
    BY <1>0, <1>1, <1>6, MatchesTwin DEF PassesTwin
  <2>2. /\ run'[r].fixture = run[r].fixture /\ run'[r].netlist = run[r].netlist
        /\ run'[r].digest = run[r].digest /\ run'[r].sbom = run[r].sbom /\ pc[r] # "idle"
    BY <1>0, <1>6 DEF PassesTwin, RunFields
  <2>. QED  BY <1>1, <2>1, <2>2
<1>07. CASE Reopens(r)
  <2>1. /\ run'[r].fixture = run[r].fixture /\ run'[r].netlist = run[r].netlist
        /\ run'[r].digest = run[r].digest /\ run'[r].sbom = run[r].sbom /\ pc[r] # "idle"
        /\ run'[r].completed = run[r].completed
    BY <1>07 DEF Reopens, RunFields
  <2>. QED  BY <1>1, <1>2, <2>1
<1>7. CASE HasEvidence(r)
  <2>1. /\ run'[r].fixture = run[r].fixture /\ run'[r].netlist = run[r].netlist
        /\ run'[r].digest = run[r].digest /\ run'[r].sbom = run[r].sbom /\ pc[r] # "idle"
        /\ run'[r].completed = run[r].completed
    BY <1>0, <1>7 DEF HasEvidence, RunFields
  <2>. QED  BY <1>1, <1>2, <1>02, <2>1
<1>8. CASE Concluded(r)
  <2>1. /\ run'[r].fixture = run[r].fixture /\ run'[r].netlist = run[r].netlist
        /\ run'[r].digest = run[r].digest /\ run'[r].sbom = run[r].sbom /\ pc[r] # "idle"
        /\ run'[r].completed = run[r].completed
    BY <1>8 DEF Concluded, Kept
  <2>. QED  BY <1>1, <1>2, <1>02, <2>1
<1>. QED
  BY <1>0, <1>3, <1>4, <1>5, <1>6, <1>07, <1>7, <1>8, RunShape

-----------------------------------------------------------------------------
(***************************************************************************)
(* Failures and their causes.  A mint begun while no other was at work is  *)
(* alone until the next one begins, and as long as it is alone the files   *)
(* are its own from the step that writes them on (MintsOwn).  A run that   *)
(* took its fixture therefore finds what it made, but for the RTL, which   *)
(* engineers edit, the attestation, which another run may have accepted,   *)
(* and the envelope, which another run may have answered (RunsAccounted).  *)
(***************************************************************************)

(* Nobody minted since m began; nobody edited the RTL.                     *)
Unspoilt(m) == pc[m] # "idle" /\ "MINT" \notin spoiled[m]
Unedited(m) == "EDIT" \notin spoiled[m]

(* A mint that no other has spoiled is the only one at work.               *)
MintsExclusive == \A m, x \in Mints : Unspoilt(m) /\ x # m => pc[x] \in Over

(* The fixture is m's.                                                     *)
Published(m) == fixture # NONE /\ fixture.mint = m

(* The steps of a mint, from one of them on.                               *)
FromFixture == {"fixture", "markers", "done", "disagree"}
FromTwin    == {"twin", "save"} \cup FromFixture
FromUnlink  == {"unlink"} \cup FromTwin
FromSbom    == {"sbom"} \cup FromUnlink
FromIssue   == {"issue"} \cup FromSbom
FromEnroll  == {"enroll"} \cup FromIssue
FromWrite   == {"write"} \cup FromEnroll
FromStamp   == {"stamp"} \cup FromWrite
FromDraw    == {"draw"} \cup FromStamp
FromTraces  == {"traces"} \cup FromDraw
FromMeasure == {"measure"} \cup FromTraces

(* m has reached one of these steps: it is there, or its fixture is.       *)
Has(m, steps) == pc[m] \in steps \/ Published(m)

(* What m writes.                                                          *)
OwnTrace(m, channel) ==
  Trace(IF channel = "side_channel_reference" THEN mint[m].reference ELSE mint[m].netlist,
        mint[m].netlist)

OwnTwin(m) ==
  [chip_id |-> "chip", puf_identity_hash |-> m, rtl_digest |-> mint[m].digest,
   netlist_digest |-> mint[m].netlist, firmware_digest |-> "simulated",
   sbom_digest |-> mint[m].sbom]

OwnFixture(m) == [mint |-> m, identity |-> m, envelope |-> mint[m].envelope]

(* What m has measured and written, as soon as it has.                     *)
DesignMeasured(m) ==
  Has(m, FromTraces) => /\ {mint[m].netlist, mint[m].digest, mint[m].reference} \subseteq Designs
                        /\ Design[mint[m].netlist].metrics.cells > 0

DesignCurrent(m) ==
  Unedited(m) =>
    /\ Has(m, FromMeasure) => mint[m].netlist = rtl
    /\ Has(m, FromTraces) => mint[m].digest = rtl /\ mint[m].reference = ReferenceRtl

TracesOwn(m) ==
  /\ pc[m] = "traces" =>
       \A i \in 1..4 : i < mint[m].next => traces[Channels[i]] = OwnTrace(m, Channels[i])
  /\ Has(m, FromDraw) => \A c \in ChannelSet : traces[c] = OwnTrace(m, c)

AttestationOwn(m) ==
  /\ Has(m, FromStamp) /\ "ATTESTED" \notin spoiled[m] => drawn[m] > replay
  /\ Has(m, FromStamp) => drawn[m] \in Nat \ {0}
  /\ Has(m, FromWrite) =>
       made[m] = SignedAttestation(m, drawn[m], made[m].stamp) /\ made[m].stamp \in 0..clock
  /\ Has(m, FromEnroll) => attestation = made[m]

EnvelopeOwn(m) ==
  /\ Has(m, FromIssue) => profile = m
  /\ Has(m, FromSbom) =>
       /\ mint[m].envelope = [enrolment |-> m, by |-> m, issued |-> mint[m].envelope.issued,
                                matches |-> mint[m].envelope.matches]
       /\ mint[m].envelope.issued \in 0..clock

TwinOwn(m) ==
  /\ Has(m, FromUnlink) => /\ mint[m].sbom \in Documents
                           /\ Unedited(m) => mint[m].sbom = DocumentDigest("chip", Artifacts)
  /\ pc[m] \in {"twin", "save"} => twin = NONE
  /\ Has(m, FromFixture) => twin = OwnTwin(m)

MintOwn(m) ==
  /\ DesignMeasured(m) /\ DesignCurrent(m) /\ TracesOwn(m) /\ AttestationOwn(m)
  /\ EnvelopeOwn(m) /\ TwinOwn(m)

MintsOwn == \A m \in Mints : Unspoilt(m) => MintOwn(m)

(* There are four traces, and a mint begins with the first.                *)
FilesShaped ==
  /\ traces = [c \in ChannelSet |-> traces[c]]
  /\ \A m \in Mints : pc[m] \in {"idle", "synthesise", "measure"} => mint[m].next = 1

(* Fixtures carry the envelope their mint has issued; one that is used up  *)
(* has been answered, and is spoiled for others, or cannot be.             *)
EnvelopesSigned ==
  /\ \A m \in Mints : pc[m] \in FromSbom => mint[m].envelope.by = m
  /\ fixture # NONE => fixture = OwnFixture(fixture.mint) /\ mint[fixture.mint].envelope.by = fixture.mint
  /\ \A r \in Runs : pc[r] # "idle" =>
       LET m == run[r].fixture.mint
       IN  run[r].fixture = OwnFixture(m) /\ mint[m].envelope.by = m

AnsweredOwn ==
  \A e \in answered :
    /\ e.by \in Mints /\ Settled(e.by)
    /\ "ANSWERED" \in spoiled[e.by] \/ ~mint[e.by].envelope.matches

(* The steps of a run, up to the one named.                                *)
ToTiming == {"timing"}
ToEm == {"em"} \cup ToTiming
ToBind == {"bind"} \cup ToEm
ToAi == {"ai"} \cup ToBind
ToTwin == {"twin"} \cup ToAi
ToSbom == {"sbom"} \cup ToTwin
ToSimulate == {"simulate"} \cup ToSbom
ToMeasure == {"measure"} \cup ToSimulate
ToSynthesise == {"synthesise"} \cup ToMeasure
ToCompare == {"compare"} \cup ToSynthesise
ToHash == {"hash"} \cup ToCompare
ToCapture == {"capture"} \cup ToHash
ToCheck == {"check", "lock", "counter", "store", "rejected"} \cup ToCapture

(* What a run has measured, at every step, whatever else happens.          *)
StagesDone(r) ==
  /\ pc[r] \in ToCapture => "opentitan" \in run[r].completed
  /\ pc[r] \in ToSynthesise => "chipwhisperer" \in run[r].completed
  /\ pc[r] \in ToSimulate => "yosys" \in run[r].completed
  /\ pc[r] \in ToSbom => "verilator" \in run[r].completed
  /\ pc[r] \in ToTwin => "sbom" \in run[r].completed
  /\ pc[r] \in ToAi => "digital_twin" \in run[r].completed

RunMeasured(r) ==
  /\ pc[r] \in ToMeasure => run[r].netlist \in Designs
  /\ pc[r] \in ToSimulate => run[r].ratio \in Ratios
  /\ pc[r] \in ToSbom => /\ VerilatorReasons(run[r].output) = {}
                         /\ \E d \in Designs : run[r].output = Design[d].output
  /\ pc[r] = "models" => run[r].ai.evidence.quality \in Int

Judged(r) ==
  LET decision == run[r].ai.decision
  IN  pc[r] = "comply" =>
        /\ decision.risk \in Int /\ decision.confidence \in Int
        /\ decision.recommendation = DeploymentRecommendation(decision.risk)

(* What a run has seen of m's evidence, as long as nobody minted since.    *)
RefusedFor(m) ==
  "ATTESTED" \in spoiled[m] \/ clock > made[m].stamp + Policy.maximumAge

RunFollows(r, m) ==
  /\ Published(m) /\ fixture = run[r].fixture
  /\ pc[r] \in ToCheck => held[r] = made[m]
  /\ pc[r] = "rejected" => RefusedFor(m)
  /\ pc[r] \in ToHash => run[r].capture = traces["side_channel_trace"]
  /\ pc[r] \in ToCompare => run[r].compared = traces["side_channel_trace"]
  /\ pc[r] \in ToBind => run[r].power = traces["side_channel_trace"]
  /\ pc[r] \in ToEm => run[r].bound = traces["side_channel_trace"]
  /\ pc[r] \in ToTiming => run[r].em = traces["ai_em_trace"]
  /\ Unedited(m) =>
       /\ pc[r] \in ToMeasure => run[r].netlist = rtl
       /\ pc[r] \in ToSimulate => run[r].digest = rtl
       /\ pc[r] \in ToSbom => run[r].output = Design[rtl].output
       /\ pc[r] \in ToTwin => run[r].sbom = DocumentDigest("chip", Artifacts)

RunKnows(r) == StagesDone(r) /\ RunMeasured(r) /\ Judged(r)

RunSound(r) ==
  LET m == run[r].fixture.mint
  IN  RunKnows(r) /\ (pc[r] # "idle" /\ "MINT" \notin spoiled[m] => RunFollows(r, m))

-----------------------------------------------------------------------------
(* A mint that takes a step is at work.                                    *)
LEMMA MintAtWork ==
  ASSUME NEW m \in Mints, MintStep(m)
  PROVE  /\ pc[m] \notin Over /\ UNCHANGED <<spoiled, specific, clock, replay, held>>
         /\ faults' = faults \/ faults' = faults + 1
<1>. USE DEF MintStep, Minting, Over, attested, counters
<1>1. CASE MintSynthesises(m) \/ MintMeasures(m)
  BY <1>1 DEF MintSynthesises, MintMeasures
<1>2. CASE WriteTrace(m)
  BY <1>2 DEF WriteTrace
<1>3. CASE MintAttests(m)
  BY <1>3 DEF MintAttests, DrawCounter, Stamp, WriteAttestation
<1>4. CASE Enroll(m) \/ EnrollAgain(m)
  BY <1>4 DEF Enroll, EnrollAgain
<1>5. CASE IssueChallenge(m) \/ MintSbom(m) \/ UnlinkTwin(m)
  BY <1>5 DEF IssueChallenge, MintSbom, UnlinkTwin
<1>6. CASE LookForTwin(m) \/ SaveTwin(m) \/ WriteFixture(m)
  BY <1>6 DEF LookForTwin, SaveTwin, WriteFixture
<1>7. CASE CheckMarkers(m) \/ MintToolFails(m)
  BY <1>7 DEF CheckMarkers, MintToolFails
<1>. QED
  BY <1>1, <1>2, <1>3, <1>4, <1>5, <1>6, <1>7

(* What a step of a run leaves alone, and what it spoils.                  *)
LEMMA RunQuiet ==
  ASSUME TypeInv, NEW r \in Runs, StartRun(r) \/ RunStep(r)
  PROVE  /\ UNCHANGED <<clock, attestation, drawn, made, specific>>
         /\ \A m \in Mints : spoiled[m] \subseteq spoiled'[m]
         /\ \A m \in Mints : spoiled'[m] \subseteq spoiled[m] \cup {"ANSWERED", "ATTESTED"}
         /\ replay' = replay \/ \A m \in Begun : "ATTESTED" \in spoiled'[m]
         /\ \A q \in Runs \ {r} : held'[q] = held[q]
<1>. USE DEF Running, Held, attested, counters
<1>0. DOMAIN spoiled = Mints /\ DOMAIN held = Runs
  BY DEF TypeInv, Shaped
<1>1. CASE StartRun(r)
  BY <1>1 DEF StartRun
<1>2. CASE Authenticate(r)
  BY <1>0, <1>2 DEF Authenticate
<1>3. CASE Verifies(r)
  BY <1>0, <1>3 DEF Verifies, ReadAttestation, CheckAttestation, LockReplay, ReadCounter
<1>4. CASE Rejected(r)
  BY <1>4 DEF Rejected
<1>5. CASE Accepted(r)
  BY <1>0, <1>5 DEF Accepted, StoreCounter, Spoil, Begun
<1>06. CASE OpenTrace(r)
  BY <1>06, Opening DEF Opened
<1>6. CASE Synthesise(r)
  BY <1>6 DEF Synthesise
<1>7. CASE CompareTraces(r)
  BY <1>7, Zenon DEF CompareTraces
<1>8. CASE MeasureNetlist(r)
  BY <1>8 DEF MeasureNetlist
<1>9. CASE Simulate(r) \/ GenerateSbom(r) \/ VerifyTwin(r)
  BY <1>9 DEF Simulate, GenerateSbom, VerifyTwin
<1>10. CASE BuildEvidence(r)
  BY <1>10 DEF BuildEvidence
<1>11. CASE Analyse(r) \/ Comply(r)
  BY <1>11 DEF Analyse, Comply
<1>12. CASE ToolFails(r) \/ RecordFails(r) \/ ModelsFail(r)
  BY <1>12 DEF ToolFails, RecordFails, ModelsFail, Trouble, shared
<1>. QED
  BY <1>1, <1>2, <1>3, <1>4, <1>5, <1>6, <1>06, <1>7, <1>8, <1>9, <1>10, <1>11, <1>12 DEF RunStep

(* What others do to the evidence of a mint that no other one has spoiled. *)
Rests(m) ==
  /\ mint'[m] = mint[m]
  /\ UNCHANGED <<traces, profile, twin, fixture, attestation, specific>>
  /\ drawn'[m] = drawn[m] /\ made'[m] = made[m]
  /\ rtl' = rtl \/ "EDIT" \in spoiled'[m]
  /\ replay' = replay \/ "ATTESTED" \in spoiled'[m]
  /\ clock' \in Nat /\ clock' >= clock /\ spoiled[m] \subseteq spoiled'[m]

Untouched(m) == pc[m] # "idle" /\ pc'[m] \in {pc[m], "dead"} /\ Rests(m)

LEMMA OthersSpoil ==
  ASSUME TypeInv, MintsExclusive, [Next]_vars, NEW m \in Mints, Unspoilt(m)',
         ~(StartMint(m) \/ MintStep(m))
  PROVE  Untouched(m)
<1>. USE DEF Unspoilt
<1>0. /\ pc \in [Mints \cup Runs -> Steps] /\ DOMAIN spoiled = Mints /\ clock \in Nat
      /\ m \in Mints \cup Runs
  BY ProcessesApart DEF TypeInv, TypeOK, Shaped
<1>1. ASSUME NEW x \in Mints, StartMint(x)
      PROVE  FALSE
  <2>1. x # m
    BY <1>1
  <2>2. pc[x] = "idle" /\ pc'[m] = pc[m]
    BY <1>0, <1>1, <2>1 DEF StartMint, Minting, Goes
  <2>3. "MINT" \in spoiled'[m]
    BY <1>1, <2>1, <2>2 DEF StartMint, Begun
  <2>. QED  BY <2>3
<1>2. ASSUME NEW x \in Mints, MintStep(x)
      PROVE  FALSE
  <2>1. x # m /\ pc[x] \notin Over /\ spoiled' = spoiled
    BY <1>2, MintAtWork
  <2>2. pc'[m] = pc[m]
    BY <1>2, <2>1, MintAlone, ProcessesApart
  <2>. QED  BY <2>1, <2>2 DEF MintsExclusive
<1>3. ASSUME NEW r \in Runs, StartRun(r) \/ RunStep(r)
      PROVE  Untouched(m)
  <2>1. /\ UNCHANGED <<clock, attestation, drawn, made, specific>>
        /\ \A x \in Mints : spoiled[x] \subseteq spoiled'[x]
        /\ replay' = replay \/ \A x \in Begun : "ATTESTED" \in spoiled'[x]
    BY <1>3, RunQuiet
  <2>2. UNCHANGED <<mint, files>> /\ pc'[m] = pc[m]
    BY <1>3, RunAlone, ProcessesApart
  <2>. QED  BY <1>0, <2>1, <2>2 DEF Untouched, Rests, Begun, files
<1>4. ASSUME NEW p \in Mints \cup Runs, Die(p)
      PROVE  Untouched(m)
  <2>1. pc' = [pc EXCEPT ![p] = "dead"]
    BY <1>4 DEF Die, Goes
  <2>2. pc'[m] \in {pc[m], "dead"} /\ pc[m] # "idle"
    BY <1>0, <1>4, <2>1 DEF Die, Over
  <2>3. /\ UNCHANGED <<mint, traces, profile, twin, fixture, attestation, specific, drawn, made>>
        /\ UNCHANGED <<rtl, replay, clock, spoiled>>
    BY <1>4 DEF Die, files
  <2>. QED  BY <1>0, <2>2, <2>3 DEF Untouched, Rests
<1>5. CASE Edit
  BY <1>0, <1>5 DEF Edit, Spoil, Begun, Untouched, Rests, attested, counters
<1>6. CASE Pass
  BY <1>0, <1>6 DEF Pass, Tick, Untouched, Rests, files, counters
<1>7. CASE UNCHANGED vars
  BY <1>0, <1>7 DEF vars, shared, files, attested, counters, Untouched, Rests
<1>. QED  BY <1>1, <1>2, <1>3, <1>4, <1>5, <1>6, <1>7 DEF Next

(* A mint without others beside it stays without, until another begins.    *)
LEMMA StepExclusive == TypeInv /\ MintsExclusive /\ [Next]_vars => MintsExclusive'
<1>. SUFFICES ASSUME TypeInv, MintsExclusive, [Next]_vars,
                     NEW m \in Mints, NEW x \in Mints, x # m, Unspoilt(m)'
              PROVE  pc'[x] \in Over
  BY DEF MintsExclusive
<1>0. pc \in [Mints \cup Runs -> Steps] /\ DOMAIN spoiled = Mints
  BY DEF TypeInv, TypeOK, Shaped
<1>1. CASE StartMint(m)
  <2>1. {y \in Mints \ {m} : pc[y] \notin Over} = {}
    BY <1>0, <1>1 DEF StartMint, Unspoilt
  <2>2. pc'[x] = pc[x]
    BY <1>0, <1>1 DEF StartMint, Minting, Goes
  <2>. QED  BY <2>1, <2>2
<1>2. CASE MintStep(m)
  <2>1. Unspoilt(m) /\ pc'[x] = pc[x]
    BY <1>2, MintAtWork, MintAlone, ProcessesApart DEF Unspoilt, Over
  <2>. QED  BY <2>1 DEF MintsExclusive
<1>3. CASE ~(StartMint(m) \/ MintStep(m))
  <2>1. Unspoilt(m)
    BY <1>3, OthersSpoil DEF Untouched, Rests, Unspoilt
  <2>2. pc[x] \in Over
    BY <2>1 DEF MintsExclusive
  <2>3. CASE StartMint(x)
    <3>1. pc'[m] = pc[m] /\ "MINT" \in spoiled'[m]
      BY <1>0, <2>1, <2>3 DEF StartMint, Minting, Goes, Begun, Unspoilt
    <3>. QED  BY <3>1 DEF Unspoilt
  <2>4. CASE MintStep(x)
    BY <2>2, <2>4, MintAtWork
  <2>5. CASE ~(StartMint(x) \/ MintStep(x))
    <3>1. pc'[x] \in {pc[x], "dead"}
      <4>1. ASSUME NEW y \in Mints, y # x, StartMint(y) \/ MintStep(y)
            PROVE  pc'[x] = pc[x]
        BY <4>1, MintAlone
      <4>2. ASSUME NEW r \in Runs, StartRun(r) \/ RunStep(r)
            PROVE  pc'[x] = pc[x]
        BY <4>2, RunAlone, ProcessesApart
      <4>3. ASSUME NEW p \in Mints \cup Runs, Die(p)
            PROVE  pc'[x] \in {pc[x], "dead"}
        BY <1>0, <4>3 DEF Die, Goes
      <4>4. CASE Edit \/ Pass \/ UNCHANGED vars
        BY <4>4 DEF Edit, Pass, Tick, vars
      <4>. QED  BY <2>5, <4>1, <4>2, <4>3, <4>4 DEF Next
    <3>. QED  BY <2>2, <3>1 DEF Over
  <2>. QED  BY <2>3, <2>4, <2>5
<1>. QED  BY <1>1, <1>2, <1>3

-----------------------------------------------------------------------------
(* What a mint knows at its own steps.                                     *)

(* A mint whose fixture is there has written everything else.              *)
LEMMA BeforeFixture ==
  ASSUME TypeInv, FixtureTrue, NEW m \in Mints, pc[m] \notin FromFixture \cup Over, fixture' = fixture
  PROVE  ~Published(m) /\ ~Published(m)'
  BY DEF Published, FixtureTrue, FixtureOf, Settled, FromFixture, Over

(* Nothing a step leaves alone has to be looked at again.                  *)
LEMMA DesignStays ==
  ASSUME NEW m \in Mints, DesignMeasured(m), DesignCurrent(m), UNCHANGED <<rtl, specific, spoiled>>,
         Has(m, FromTraces)' => Has(m, FromTraces), Has(m, FromMeasure)' => Has(m, FromMeasure),
         mint'[m].netlist = mint[m].netlist, mint'[m].digest = mint[m].digest,
         mint'[m].reference = mint[m].reference
  PROVE  DesignMeasured(m)' /\ DesignCurrent(m)'
<1>1. DesignMeasured(m)'
  BY DEF DesignMeasured
<1>2. DesignCurrent(m)'
  BY DEF DesignCurrent, Unedited, ReferenceRtl
<1>. QED  BY <1>1, <1>2

LEMMA TracesStay ==
  ASSUME NEW m \in Mints, TracesOwn(m), UNCHANGED traces, pc'[m] # "traces",
         Has(m, FromDraw)' => Has(m, FromDraw),
         mint'[m].netlist = mint[m].netlist, mint'[m].reference = mint[m].reference
  PROVE  TracesOwn(m)'
  BY DEF TracesOwn, OwnTrace

LEMMA AttestationStays ==
  ASSUME NEW m \in Mints, AttestationOwn(m), UNCHANGED <<clock, replay, spoiled, attestation, drawn, made>>,
         Has(m, FromStamp)' => Has(m, FromStamp), Has(m, FromWrite)' => Has(m, FromWrite),
         Has(m, FromEnroll)' => Has(m, FromEnroll)
  PROVE  AttestationOwn(m)'
  BY DEF AttestationOwn

LEMMA EnvelopeStays ==
  ASSUME NEW m \in Mints, EnvelopeOwn(m), UNCHANGED <<clock, profile>>,
         Has(m, FromIssue)' => Has(m, FromIssue), Has(m, FromSbom)' => Has(m, FromSbom),
         mint'[m].envelope = mint[m].envelope
  PROVE  EnvelopeOwn(m)'
  BY DEF EnvelopeOwn

LEMMA TwinStays ==
  ASSUME NEW m \in Mints, TwinOwn(m), UNCHANGED <<rtl, traces, spoiled, twin>>,
         Has(m, FromUnlink)' => Has(m, FromUnlink), Has(m, FromFixture)' => Has(m, FromFixture),
         pc'[m] \in {"twin", "save"} => pc[m] \in {"twin", "save"},
         mint'[m].netlist = mint[m].netlist, mint'[m].digest = mint[m].digest,
         mint'[m].sbom = mint[m].sbom
  PROVE  TwinOwn(m)'
  BY DEF TwinOwn, OwnTwin, Unedited, Artifacts

LEMMA NextCounterAbove ==
  ASSUME replay \in Int
  PROVE  NextCounter \in Nat \ {0} /\ NextCounter > replay
<1>1. Max({replay, 0}) \in {replay, 0} /\ Max({replay, 0}) >= 0 /\ Max({replay, 0}) >= replay
  BY MaxOfTwo
<1>. QED  BY <1>1 DEF NextCounter

(* A step of a mint keeps what it has, and adds what it has written.       *)
LEMMA OwnStep ==
  ASSUME TypeInv, FixtureTrue, FilesShaped, NEW m \in Mints, MintOwn(m), MintStep(m)
  PROVE  MintOwn(m)'
<1>. USE DEF Minting, Minted, Goes
<1>0. /\ pc \in [Mints \cup Runs -> Steps] /\ clock \in Nat /\ replay \in Int
      /\ DOMAIN mint = Mints /\ DOMAIN mint[m] = MintFields /\ DOMAIN traces = ChannelSet
      /\ DOMAIN drawn = Mints /\ DOMAIN made = Mints
      /\ rtl \in Designs /\ ReferenceRtl \in Designs
  BY ProcessesApart DEF TypeInv, TypeOK, Shaped, ReferenceRtl
<1>00. /\ DesignMeasured(m) /\ DesignCurrent(m) /\ TracesOwn(m) /\ AttestationOwn(m)
       /\ EnvelopeOwn(m) /\ TwinOwn(m)
  BY DEF MintOwn
<1>000. UNCHANGED <<spoiled, specific, clock, replay>>
  BY MintAtWork
<1>. USE DEF MintFields
<1>1. CASE MintSynthesises(m)
  <2>1. pc[m] = "synthesise" /\ pc'[m] = "measure" /\ UNCHANGED <<attestation, drawn, made, rtl, traces, profile, twin, fixture>>
           /\ mint'[m] = [mint[m] EXCEPT !.netlist = rtl]
    BY <1>0, <1>1 DEF MintSynthesises, attested, counters, files
  <2>2. ~Published(m) /\ ~Published(m)'
    BY <2>1, BeforeFixture DEF FromFixture, Over
  <2>20. /\ mint'[m].digest = mint[m].digest
         /\ mint'[m].reference = mint[m].reference
         /\ mint'[m].next = mint[m].next
         /\ mint'[m].envelope = mint[m].envelope
         /\ mint'[m].sbom = mint[m].sbom
    BY <1>0, <2>1
  <2>. USE DEF Has, FromMeasure, FromTraces, FromDraw, FromStamp, FromWrite, FromEnroll, FromIssue, FromSbom, FromUnlink, FromTwin, FromFixture
  <2>3. DesignMeasured(m)' /\ DesignCurrent(m)'
    BY <2>1, <2>2 DEF DesignMeasured, DesignCurrent
  <2>4. TracesOwn(m)'
    BY <2>1, <2>2 DEF TracesOwn
  <2>5. AttestationOwn(m)'
    BY <1>00, <1>000, <2>1, <2>2, <2>20, AttestationStays
  <2>6. EnvelopeOwn(m)'
    BY <2>1, <2>2 DEF EnvelopeOwn
  <2>7. TwinOwn(m)'
    BY <2>1, <2>2 DEF TwinOwn
  <2>. QED  BY <2>3, <2>4, <2>5, <2>6, <2>7 DEF MintOwn
<1>2. CASE MintMeasures(m)
  <2>1. /\ pc[m] = "measure" /\ UNCHANGED <<attestation, drawn, made, rtl, traces, profile, twin, fixture>>
        /\ pc'[m] = IF Design[mint[m].netlist].metrics.cells > 0 THEN "traces" ELSE "failed"
        /\ mint'[m] = [mint[m] EXCEPT !.digest = rtl, !.reference = ReferenceRtl]
    <3>. DEFINE new  == [mint[m] EXCEPT !.digest = rtl, !.reference = ReferenceRtl]
                step == IF Design[mint[m].netlist].metrics.cells > 0 THEN "traces" ELSE "failed"
    <3>1. /\ pc[m] = "measure" /\ mint' = [mint EXCEPT ![m] = new] /\ pc' = [pc EXCEPT ![m] = step]
          /\ UNCHANGED <<attested, files>>
      BY <1>2 DEF MintMeasures
    <3>2. mint'[m] = new /\ pc'[m] = step
      <4>. HIDE DEF new, step
      <4>. QED  BY <1>0, <3>1
    <3>. QED  BY <3>1, <3>2 DEF attested, files
  <2>2. ~Published(m) /\ ~Published(m)'
    BY <2>1, BeforeFixture DEF FromFixture, Over
  <2>20. /\ mint'[m].netlist = mint[m].netlist
         /\ mint'[m].next = mint[m].next
         /\ mint'[m].envelope = mint[m].envelope
         /\ mint'[m].sbom = mint[m].sbom
    BY <1>0, <2>1
  <2>. USE DEF Has, FromMeasure, FromTraces, FromDraw, FromStamp, FromWrite, FromEnroll, FromIssue, FromSbom, FromUnlink, FromTwin, FromFixture
  <2>3. DesignMeasured(m)' /\ DesignCurrent(m)'
    <3>1. mint'[m].digest = rtl /\ mint'[m].reference = ReferenceRtl /\ ReferenceRtl' = ReferenceRtl
      BY <1>0, <1>000, <2>1 DEF ReferenceRtl
    <3>2. mint[m].netlist \in Designs
      BY <2>1 DEF TypeInv, MintsReady
    <3>3. DesignMeasured(m)'
      BY <1>0, <2>1, <2>2, <2>20, <3>1, <3>2 DEF DesignMeasured
    <3>4. DesignCurrent(m)'
      BY <1>00, <1>000, <2>1, <2>2, <2>20, <3>1 DEF DesignCurrent, Unedited
    <3>. QED  BY <3>3, <3>4
  <2>4. TracesOwn(m)'
    BY <2>1, <2>2, <2>20 DEF TracesOwn, FilesShaped
  <2>5. AttestationOwn(m)'
    BY <1>00, <1>000, <2>1, <2>2, <2>20, AttestationStays
  <2>6. EnvelopeOwn(m)'
    BY <2>1, <2>2 DEF EnvelopeOwn
  <2>7. TwinOwn(m)'
    BY <2>1, <2>2 DEF TwinOwn
  <2>. QED  BY <2>3, <2>4, <2>5, <2>6, <2>7 DEF MintOwn
<1>3. CASE WriteTrace(m)
  <2>. DEFINE k == mint[m].next
  <2>1. /\ pc[m] = "traces" /\ pc'[m] = IF k = 4 THEN "draw" ELSE "traces"
        /\ UNCHANGED <<attestation, drawn, made, rtl, profile, twin, fixture>>
        /\ mint'[m] = [mint[m] EXCEPT !.next = k + 1]
        /\ traces' = [traces EXCEPT ![Channels[k]] = OwnTrace(m, Channels[k])]
    BY <1>0, <1>3 DEF WriteTrace, OwnTrace, attested, counters, files
  <2>2. ~Published(m) /\ ~Published(m)' /\ k \in 1..4
    BY <2>1, BeforeFixture DEF FromFixture, Over, TypeInv, MintsReady
  <2>3. /\ mint'[m].next = k + 1 /\ mint'[m].netlist = mint[m].netlist
        /\ mint'[m].reference = mint[m].reference /\ mint'[m].digest = mint[m].digest
        /\ mint'[m].envelope = mint[m].envelope /\ mint'[m].sbom = mint[m].sbom
    BY <1>0, <2>1
  <2>4. \A c : OwnTrace(m, c)' = OwnTrace(m, c)
    BY <2>3 DEF OwnTrace
  <2>5. \A i \in 1..4 : i < k + 1 => traces'[Channels[i]] = OwnTrace(m, Channels[i])
    <3>1. \A i \in 1..4 : Channels[i] \in DOMAIN traces /\ (i # k => Channels[i] # Channels[k])
      BY <1>0, <2>2 DEF Channels, ChannelSet
    <3>2. \A i \in 1..4 : i < k => traces[Channels[i]] = OwnTrace(m, Channels[i])
      BY <1>00, <2>1 DEF TracesOwn
    <3>3. \A i \in 1..4 : i < k + 1 => i = k \/ i < k
      BY <2>2
    <3>. HIDE DEF k
    <3>. QED  BY <2>1, <2>2, <3>1, <3>2, <3>3
  <2>. HIDE DEF k
  <2>. USE DEF Has, FromMeasure, FromTraces, FromDraw, FromStamp, FromWrite, FromEnroll, FromIssue, FromSbom, FromUnlink, FromTwin, FromFixture
  <2>6. DesignMeasured(m)' /\ DesignCurrent(m)'
    BY <1>00, <1>000, <2>1, <2>2, <2>3, DesignStays
  <2>7. TracesOwn(m)'
    <3>1. pc'[m] = "traces" => \A i \in 1..4 : i < mint'[m].next => traces'[Channels[i]] = OwnTrace(m, Channels[i])'
      BY <2>3, <2>4, <2>5
    <3>2. Has(m, FromDraw)' => \A c \in ChannelSet : traces'[c] = OwnTrace(m, c)'
      BY <2>1, <2>2, <2>4, <2>5 DEF ChannelSet
    <3>. QED  BY <3>1, <3>2 DEF TracesOwn
  <2>8. AttestationOwn(m)'
    BY <1>00, <1>000, <2>1, <2>2, AttestationStays
  <2>9. EnvelopeOwn(m)'
    BY <1>00, <1>000, <2>1, <2>2, <2>3, EnvelopeStays
  <2>10. TwinOwn(m)'
    BY <2>1, <2>2 DEF TwinOwn
  <2>. QED  BY <2>6, <2>7, <2>8, <2>9, <2>10 DEF MintOwn
<1>4. CASE Enroll(m)
  <2>1. pc[m] = "enroll" /\ pc'[m] = "issue" /\ UNCHANGED <<attestation, drawn, made, rtl, traces, twin, fixture, mint>> /\ profile' = m
    BY <1>0, <1>4 DEF Enroll, attested, counters, files
  <2>2. ~Published(m) /\ ~Published(m)'
    BY <2>1, BeforeFixture DEF FromFixture, Over
  <2>20. /\ mint'[m].netlist = mint[m].netlist
         /\ mint'[m].digest = mint[m].digest
         /\ mint'[m].reference = mint[m].reference
         /\ mint'[m].next = mint[m].next
         /\ mint'[m].envelope = mint[m].envelope
         /\ mint'[m].sbom = mint[m].sbom
    BY <1>0, <2>1
  <2>. USE DEF Has, FromMeasure, FromTraces, FromDraw, FromStamp, FromWrite, FromEnroll, FromIssue, FromSbom, FromUnlink, FromTwin, FromFixture
  <2>3. DesignMeasured(m)' /\ DesignCurrent(m)'
    BY <1>00, <1>000, <2>1, <2>2, <2>20, DesignStays
  <2>4. TracesOwn(m)'
    BY <1>00, <1>000, <2>1, <2>2, <2>20, TracesStay
  <2>5. AttestationOwn(m)'
    BY <1>00, <1>000, <2>1, <2>2, <2>20, AttestationStays
  <2>6. EnvelopeOwn(m)'
    BY <2>1, <2>2 DEF EnvelopeOwn
  <2>7. TwinOwn(m)'
    BY <1>00, <1>000, <2>1, <2>2, <2>20, TwinStays
  <2>. QED  BY <2>3, <2>4, <2>5, <2>6, <2>7 DEF MintOwn
<1>5. CASE EnrollAgain(m)
  <2>1. pc[m] = "enroll" /\ pc'[m] \in {"enroll", "failed"}
        /\ UNCHANGED <<attestation, drawn, made, rtl, traces, profile, twin, fixture>>
        /\ mint'[m] = [mint[m] EXCEPT !.attempts = mint[m].attempts + 1]
    BY <1>0, <1>5 DEF EnrollAgain, attested, counters, files
  <2>2. ~Published(m) /\ ~Published(m)'
    BY <2>1, BeforeFixture DEF FromFixture, Over
  <2>20. /\ mint'[m].netlist = mint[m].netlist
         /\ mint'[m].digest = mint[m].digest
         /\ mint'[m].reference = mint[m].reference
         /\ mint'[m].next = mint[m].next
         /\ mint'[m].envelope = mint[m].envelope
         /\ mint'[m].sbom = mint[m].sbom
    BY <1>0, <2>1
  <2>. USE DEF Has, FromMeasure, FromTraces, FromDraw, FromStamp, FromWrite, FromEnroll, FromIssue, FromSbom, FromUnlink, FromTwin, FromFixture
  <2>3. DesignMeasured(m)' /\ DesignCurrent(m)'
    BY <1>00, <1>000, <2>1, <2>2, <2>20, DesignStays
  <2>4. TracesOwn(m)'
    BY <1>00, <1>000, <2>1, <2>2, <2>20, TracesStay
  <2>5. AttestationOwn(m)'
    BY <1>00, <1>000, <2>1, <2>2, <2>20, AttestationStays
  <2>6. EnvelopeOwn(m)'
    BY <1>00, <1>000, <2>1, <2>2, <2>20, EnvelopeStays
  <2>7. TwinOwn(m)'
    BY <1>00, <1>000, <2>1, <2>2, <2>20, TwinStays
  <2>. QED  BY <2>3, <2>4, <2>5, <2>6, <2>7 DEF MintOwn
<1>6. CASE IssueChallenge(m)
  <2>0. PICK matches \in BOOLEAN :
          Minted(m, "envelope", [enrolment |-> profile, by |-> m, issued |-> clock, matches |-> matches])
    BY <1>6 DEF IssueChallenge
  <2>1. pc[m] = "issue" /\ pc'[m] = "sbom" /\ UNCHANGED <<attestation, drawn, made, rtl, traces, profile, twin, fixture>>
        /\ mint'[m] = [mint[m] EXCEPT !.envelope =
             [enrolment |-> profile, by |-> m, issued |-> clock, matches |-> matches]]
    BY <1>0, <1>6, <2>0 DEF IssueChallenge, attested, counters, files
  <2>2. ~Published(m) /\ ~Published(m)'
    BY <2>1, BeforeFixture DEF FromFixture, Over
  <2>20. /\ mint'[m].netlist = mint[m].netlist
         /\ mint'[m].digest = mint[m].digest
         /\ mint'[m].reference = mint[m].reference
         /\ mint'[m].next = mint[m].next
         /\ mint'[m].sbom = mint[m].sbom
    BY <1>0, <2>1
  <2>. USE DEF Has, FromMeasure, FromTraces, FromDraw, FromStamp, FromWrite, FromEnroll, FromIssue, FromSbom, FromUnlink, FromTwin, FromFixture
  <2>3. DesignMeasured(m)' /\ DesignCurrent(m)'
    BY <1>00, <1>000, <2>1, <2>2, <2>20, DesignStays
  <2>4. TracesOwn(m)'
    BY <1>00, <1>000, <2>1, <2>2, <2>20, TracesStay
  <2>5. AttestationOwn(m)'
    BY <1>00, <1>000, <2>1, <2>2, <2>20, AttestationStays
  <2>6. EnvelopeOwn(m)'
    BY <1>0, <1>00, <1>000, <2>1, <2>2 DEF EnvelopeOwn
  <2>7. TwinOwn(m)'
    BY <1>00, <1>000, <2>1, <2>2, <2>20, TwinStays
  <2>. QED  BY <2>3, <2>4, <2>5, <2>6, <2>7 DEF MintOwn
<1>7. CASE MintSbom(m)
  <2>1. pc[m] = "sbom" /\ pc'[m] = "unlink" /\ UNCHANGED <<attestation, drawn, made, rtl, traces, profile, twin, fixture>>
        /\ mint'[m] = [mint[m] EXCEPT !.sbom = DocumentDigest("chip", Artifacts)]
    BY <1>0, <1>7 DEF MintSbom, attested, counters, files
  <2>2. ~Published(m) /\ ~Published(m)'
    BY <2>1, BeforeFixture DEF FromFixture, Over
  <2>20. /\ mint'[m].netlist = mint[m].netlist
         /\ mint'[m].digest = mint[m].digest
         /\ mint'[m].reference = mint[m].reference
         /\ mint'[m].next = mint[m].next
         /\ mint'[m].envelope = mint[m].envelope
    BY <1>0, <2>1
  <2>. USE DEF Has, FromMeasure, FromTraces, FromDraw, FromStamp, FromWrite, FromEnroll, FromIssue, FromSbom, FromUnlink, FromTwin, FromFixture
  <2>3. DesignMeasured(m)' /\ DesignCurrent(m)'
    BY <1>00, <1>000, <2>1, <2>2, <2>20, DesignStays
  <2>4. TracesOwn(m)'
    BY <1>00, <1>000, <2>1, <2>2, <2>20, TracesStay
  <2>5. AttestationOwn(m)'
    BY <1>00, <1>000, <2>1, <2>2, <2>20, AttestationStays
  <2>6. EnvelopeOwn(m)'
    BY <1>00, <1>000, <2>1, <2>2, <2>20, EnvelopeStays
  <2>7. TwinOwn(m)'
    <3>1. mint'[m].sbom = DocumentDigest("chip", Artifacts) /\ Artifacts' = Artifacts
      BY <1>0, <2>1 DEF Artifacts
    <3>2. DocumentDigest("chip", Artifacts) \in Documents
      <4>1. mint[m].netlist \in Designs /\ mint[m].reference \in Designs
        BY <1>00, <2>1 DEF DesignMeasured
      <4>3. \A c \in ChannelSet : OwnTrace(m, c) \in TraceFiles
        BY <4>1 DEF OwnTrace, Trace, TraceFiles
      <4>4. \A c \in ChannelSet : traces[c] \in TraceFiles
        BY <1>00, <2>1, <4>3 DEF TracesOwn
      <4>2. traces \in [ChannelSet -> TraceFiles]
        BY <4>4 DEF FilesShaped
      <4>. QED  BY <1>0, <4>2 DEF DocumentDigest, Artifacts, Documents
    <3>. QED  BY <2>1, <2>2, <3>1, <3>2 DEF TwinOwn
  <2>. QED  BY <2>3, <2>4, <2>5, <2>6, <2>7 DEF MintOwn
<1>8. CASE UnlinkTwin(m)
  <2>1. pc[m] = "unlink" /\ pc'[m] = "twin" /\ UNCHANGED <<attestation, drawn, made, rtl, traces, profile, fixture, mint>> /\ twin' = NONE
    BY <1>0, <1>8 DEF UnlinkTwin, attested, counters, files
  <2>2. ~Published(m) /\ ~Published(m)'
    BY <2>1, BeforeFixture DEF FromFixture, Over
  <2>20. /\ mint'[m].netlist = mint[m].netlist
         /\ mint'[m].digest = mint[m].digest
         /\ mint'[m].reference = mint[m].reference
         /\ mint'[m].next = mint[m].next
         /\ mint'[m].envelope = mint[m].envelope
         /\ mint'[m].sbom = mint[m].sbom
    BY <1>0, <2>1
  <2>. USE DEF Has, FromMeasure, FromTraces, FromDraw, FromStamp, FromWrite, FromEnroll, FromIssue, FromSbom, FromUnlink, FromTwin, FromFixture
  <2>3. DesignMeasured(m)' /\ DesignCurrent(m)'
    BY <1>00, <1>000, <2>1, <2>2, <2>20, DesignStays
  <2>4. TracesOwn(m)'
    BY <1>00, <1>000, <2>1, <2>2, <2>20, TracesStay
  <2>5. AttestationOwn(m)'
    BY <1>00, <1>000, <2>1, <2>2, <2>20, AttestationStays
  <2>6. EnvelopeOwn(m)'
    BY <1>00, <1>000, <2>1, <2>2, <2>20, EnvelopeStays
  <2>7. TwinOwn(m)'
    BY <1>00, <1>000, <2>1, <2>2 DEF TwinOwn, Unedited, Artifacts
  <2>. QED  BY <2>3, <2>4, <2>5, <2>6, <2>7 DEF MintOwn
<1>9. CASE LookForTwin(m)
  <2>1. pc[m] = "twin" /\ pc'[m] \in {"save", "failed"}
        /\ UNCHANGED <<attestation, drawn, made, rtl, traces, profile, twin, fixture, mint>>
    BY <1>0, <1>9 DEF LookForTwin, attested, counters, files
  <2>2. ~Published(m) /\ ~Published(m)'
    BY <2>1, BeforeFixture DEF FromFixture, Over
  <2>20. /\ mint'[m].netlist = mint[m].netlist
         /\ mint'[m].digest = mint[m].digest
         /\ mint'[m].reference = mint[m].reference
         /\ mint'[m].next = mint[m].next
         /\ mint'[m].envelope = mint[m].envelope
         /\ mint'[m].sbom = mint[m].sbom
    BY <1>0, <2>1
  <2>. USE DEF Has, FromMeasure, FromTraces, FromDraw, FromStamp, FromWrite, FromEnroll, FromIssue, FromSbom, FromUnlink, FromTwin, FromFixture
  <2>3. DesignMeasured(m)' /\ DesignCurrent(m)'
    BY <1>00, <1>000, <2>1, <2>2, <2>20, DesignStays
  <2>4. TracesOwn(m)'
    BY <1>00, <1>000, <2>1, <2>2, <2>20, TracesStay
  <2>5. AttestationOwn(m)'
    BY <1>00, <1>000, <2>1, <2>2, <2>20, AttestationStays
  <2>6. EnvelopeOwn(m)'
    BY <1>00, <1>000, <2>1, <2>2, <2>20, EnvelopeStays
  <2>7. TwinOwn(m)'
    BY <1>00, <1>000, <2>1, <2>2, <2>20, TwinStays
  <2>. QED  BY <2>3, <2>4, <2>5, <2>6, <2>7 DEF MintOwn
<1>10. CASE SaveTwin(m)
  <2>1. pc[m] = "save" /\ pc'[m] = "fixture" /\ UNCHANGED <<attestation, drawn, made, rtl, traces, profile, fixture, mint>>
        /\ twin' = OwnTwin(m)
    BY <1>0, <1>10 DEF SaveTwin, OwnTwin, attested, counters, files
  <2>2. ~Published(m) /\ ~Published(m)'
    BY <2>1, BeforeFixture DEF FromFixture, Over
  <2>20. /\ mint'[m].netlist = mint[m].netlist
         /\ mint'[m].digest = mint[m].digest
         /\ mint'[m].reference = mint[m].reference
         /\ mint'[m].next = mint[m].next
         /\ mint'[m].envelope = mint[m].envelope
         /\ mint'[m].sbom = mint[m].sbom
    BY <1>0, <2>1
  <2>. USE DEF Has, FromMeasure, FromTraces, FromDraw, FromStamp, FromWrite, FromEnroll, FromIssue, FromSbom, FromUnlink, FromTwin, FromFixture
  <2>3. DesignMeasured(m)' /\ DesignCurrent(m)'
    BY <1>00, <1>000, <2>1, <2>2, <2>20, DesignStays
  <2>4. TracesOwn(m)'
    BY <1>00, <1>000, <2>1, <2>2, <2>20, TracesStay
  <2>5. AttestationOwn(m)'
    BY <1>00, <1>000, <2>1, <2>2, <2>20, AttestationStays
  <2>6. EnvelopeOwn(m)'
    BY <1>00, <1>000, <2>1, <2>2, <2>20, EnvelopeStays
  <2>7. TwinOwn(m)'
    <3>1. OwnTwin(m)' = OwnTwin(m)
      BY <2>1 DEF OwnTwin
    <3>. QED  BY <1>00, <1>000, <2>1, <2>2, <3>1 DEF TwinOwn, Unedited, Artifacts
  <2>. QED  BY <2>3, <2>4, <2>5, <2>6, <2>7 DEF MintOwn
<1>11. CASE WriteFixture(m)
  <2>1. pc[m] = "fixture" /\ pc'[m] = "markers" /\ UNCHANGED <<attestation, drawn, made, rtl, traces, profile, twin, mint>>
    BY <1>0, <1>11 DEF WriteFixture, attested, counters, files
  <2>2. pc'[m] \in FromFixture
    BY <2>1 DEF FromFixture
  <2>20. /\ mint'[m].netlist = mint[m].netlist
         /\ mint'[m].digest = mint[m].digest
         /\ mint'[m].reference = mint[m].reference
         /\ mint'[m].next = mint[m].next
         /\ mint'[m].envelope = mint[m].envelope
         /\ mint'[m].sbom = mint[m].sbom
    BY <1>0, <2>1
  <2>. USE DEF Has, FromMeasure, FromTraces, FromDraw, FromStamp, FromWrite, FromEnroll, FromIssue, FromSbom, FromUnlink, FromTwin, FromFixture
  <2>3. DesignMeasured(m)' /\ DesignCurrent(m)'
    BY <1>00, <1>000, <2>1, <2>2, <2>20, DesignStays
  <2>4. TracesOwn(m)'
    BY <1>00, <1>000, <2>1, <2>2, <2>20, TracesStay
  <2>5. AttestationOwn(m)'
    BY <1>00, <1>000, <2>1, <2>2, <2>20, AttestationStays
  <2>6. EnvelopeOwn(m)'
    BY <1>00, <1>000, <2>1, <2>2, <2>20, EnvelopeStays
  <2>7. TwinOwn(m)'
    BY <1>00, <1>000, <2>1, <2>2, <2>20, TwinStays
  <2>. QED  BY <2>3, <2>4, <2>5, <2>6, <2>7 DEF MintOwn
<1>12. CASE CheckMarkers(m)
  <2>1. pc[m] = "markers" /\ pc'[m] \in {"done", "disagree"}
        /\ UNCHANGED <<attestation, drawn, made, rtl, traces, profile, twin, fixture, mint>>
    BY <1>0, <1>12 DEF CheckMarkers, attested, counters, files
  <2>2. pc'[m] \in FromFixture
    BY <2>1 DEF FromFixture
  <2>20. /\ mint'[m].netlist = mint[m].netlist
         /\ mint'[m].digest = mint[m].digest
         /\ mint'[m].reference = mint[m].reference
         /\ mint'[m].next = mint[m].next
         /\ mint'[m].envelope = mint[m].envelope
         /\ mint'[m].sbom = mint[m].sbom
    BY <1>0, <2>1
  <2>. USE DEF Has, FromMeasure, FromTraces, FromDraw, FromStamp, FromWrite, FromEnroll, FromIssue, FromSbom, FromUnlink, FromTwin, FromFixture
  <2>3. DesignMeasured(m)' /\ DesignCurrent(m)'
    BY <1>00, <1>000, <2>1, <2>2, <2>20, DesignStays
  <2>4. TracesOwn(m)'
    BY <1>00, <1>000, <2>1, <2>2, <2>20, TracesStay
  <2>5. AttestationOwn(m)'
    BY <1>00, <1>000, <2>1, <2>2, <2>20, AttestationStays
  <2>6. EnvelopeOwn(m)'
    BY <1>00, <1>000, <2>1, <2>2, <2>20, EnvelopeStays
  <2>7. TwinOwn(m)'
    BY <1>00, <1>000, <2>1, <2>2, <2>20, TwinStays
  <2>. QED  BY <2>3, <2>4, <2>5, <2>6, <2>7 DEF MintOwn
<1>13. CASE MintToolFails(m)
  <2>1. pc[m] \in {"synthesise", "measure"} /\ pc'[m] = "failed"
        /\ UNCHANGED <<attestation, drawn, made, rtl, traces, profile, twin, fixture, mint>>
    BY <1>0, <1>13 DEF MintToolFails, attested, counters, files
  <2>2. ~Published(m) /\ ~Published(m)'
    BY <2>1, BeforeFixture DEF FromFixture, Over
  <2>20. /\ mint'[m].netlist = mint[m].netlist
         /\ mint'[m].digest = mint[m].digest
         /\ mint'[m].reference = mint[m].reference
         /\ mint'[m].next = mint[m].next
         /\ mint'[m].envelope = mint[m].envelope
         /\ mint'[m].sbom = mint[m].sbom
    BY <1>0, <2>1
  <2>. USE DEF Has, FromMeasure, FromTraces, FromDraw, FromStamp, FromWrite, FromEnroll, FromIssue, FromSbom, FromUnlink, FromTwin, FromFixture
  <2>3. DesignMeasured(m)' /\ DesignCurrent(m)'
    BY <1>00, <1>000, <2>1, <2>2, <2>20, DesignStays
  <2>4. TracesOwn(m)'
    BY <1>00, <1>000, <2>1, <2>2, <2>20, TracesStay
  <2>5. AttestationOwn(m)'
    BY <1>00, <1>000, <2>1, <2>2, <2>20, AttestationStays
  <2>6. EnvelopeOwn(m)'
    BY <1>00, <1>000, <2>1, <2>2, <2>20, EnvelopeStays
  <2>7. TwinOwn(m)'
    BY <1>00, <1>000, <2>1, <2>2, <2>20, TwinStays
  <2>. QED  BY <2>3, <2>4, <2>5, <2>6, <2>7 DEF MintOwn
<1>14. CASE MintAttests(m) /\ DrawCounter(m)
  <2>1. pc[m] = "draw" /\ pc'[m] = "stamp" /\ UNCHANGED <<attestation, made, rtl, traces, profile, twin, fixture, mint>>
        /\ drawn'[m] = NextCounter
    BY <1>0, <1>14 DEF DrawCounter, MintAttests, attested, counters, files
  <2>2. ~Published(m) /\ ~Published(m)'
    BY <2>1, BeforeFixture DEF FromFixture, Over
  <2>20. /\ mint'[m].netlist = mint[m].netlist
         /\ mint'[m].digest = mint[m].digest
         /\ mint'[m].reference = mint[m].reference
         /\ mint'[m].next = mint[m].next
         /\ mint'[m].envelope = mint[m].envelope
         /\ mint'[m].sbom = mint[m].sbom
    BY <1>0, <2>1
  <2>. USE DEF Has, FromMeasure, FromTraces, FromDraw, FromStamp, FromWrite, FromEnroll, FromIssue, FromSbom, FromUnlink, FromTwin, FromFixture
  <2>3. DesignMeasured(m)' /\ DesignCurrent(m)'
    BY <1>00, <1>000, <2>1, <2>2, <2>20, DesignStays
  <2>4. TracesOwn(m)'
    BY <1>00, <1>000, <2>1, <2>2, <2>20, TracesStay
  <2>5. AttestationOwn(m)'
    <3>1. NextCounter \in Nat \ {0} /\ NextCounter > replay
      BY <1>0, NextCounterAbove
    <3>. QED  BY <1>000, <2>1, <2>2, <3>1 DEF AttestationOwn
  <2>6. EnvelopeOwn(m)'
    BY <1>00, <1>000, <2>1, <2>2, <2>20, EnvelopeStays
  <2>7. TwinOwn(m)'
    BY <1>00, <1>000, <2>1, <2>2, <2>20, TwinStays
  <2>. QED  BY <2>3, <2>4, <2>5, <2>6, <2>7 DEF MintOwn
<1>15. CASE MintAttests(m) /\ Stamp(m)
  <2>1. pc[m] = "stamp" /\ pc'[m] = "write" /\ UNCHANGED <<attestation, drawn, rtl, traces, profile, twin, fixture, mint>>
        /\ made'[m] = SignedAttestation(m, drawn[m], clock)
    BY <1>0, <1>15 DEF Stamp, MintAttests, attested, counters, files
  <2>2. ~Published(m) /\ ~Published(m)'
    BY <2>1, BeforeFixture DEF FromFixture, Over
  <2>20. /\ mint'[m].netlist = mint[m].netlist
         /\ mint'[m].digest = mint[m].digest
         /\ mint'[m].reference = mint[m].reference
         /\ mint'[m].next = mint[m].next
         /\ mint'[m].envelope = mint[m].envelope
         /\ mint'[m].sbom = mint[m].sbom
    BY <1>0, <2>1
  <2>. USE DEF Has, FromMeasure, FromTraces, FromDraw, FromStamp, FromWrite, FromEnroll, FromIssue, FromSbom, FromUnlink, FromTwin, FromFixture
  <2>3. DesignMeasured(m)' /\ DesignCurrent(m)'
    BY <1>00, <1>000, <2>1, <2>2, <2>20, DesignStays
  <2>4. TracesOwn(m)'
    BY <1>00, <1>000, <2>1, <2>2, <2>20, TracesStay
  <2>5. AttestationOwn(m)'
    BY <1>0, <1>00, <1>000, <2>1, <2>2 DEF AttestationOwn, SignedAttestation
  <2>6. EnvelopeOwn(m)'
    BY <1>00, <1>000, <2>1, <2>2, <2>20, EnvelopeStays
  <2>7. TwinOwn(m)'
    BY <1>00, <1>000, <2>1, <2>2, <2>20, TwinStays
  <2>. QED  BY <2>3, <2>4, <2>5, <2>6, <2>7 DEF MintOwn
<1>16. CASE MintAttests(m) /\ WriteAttestation(m)
  <2>1. pc[m] = "write" /\ pc'[m] = "enroll" /\ UNCHANGED <<drawn, made, rtl, traces, profile, twin, fixture, mint>>
        /\ attestation' = made[m]
    BY <1>0, <1>16 DEF WriteAttestation, MintAttests, attested, counters, files
  <2>2. ~Published(m) /\ ~Published(m)'
    BY <2>1, BeforeFixture DEF FromFixture, Over
  <2>20. /\ mint'[m].netlist = mint[m].netlist
         /\ mint'[m].digest = mint[m].digest
         /\ mint'[m].reference = mint[m].reference
         /\ mint'[m].next = mint[m].next
         /\ mint'[m].envelope = mint[m].envelope
         /\ mint'[m].sbom = mint[m].sbom
    BY <1>0, <2>1
  <2>. USE DEF Has, FromMeasure, FromTraces, FromDraw, FromStamp, FromWrite, FromEnroll, FromIssue, FromSbom, FromUnlink, FromTwin, FromFixture
  <2>3. DesignMeasured(m)' /\ DesignCurrent(m)'
    BY <1>00, <1>000, <2>1, <2>2, <2>20, DesignStays
  <2>4. TracesOwn(m)'
    BY <1>00, <1>000, <2>1, <2>2, <2>20, TracesStay
  <2>5. AttestationOwn(m)'
    BY <1>0, <1>00, <1>000, <2>1, <2>2 DEF AttestationOwn
  <2>6. EnvelopeOwn(m)'
    BY <1>00, <1>000, <2>1, <2>2, <2>20, EnvelopeStays
  <2>7. TwinOwn(m)'
    BY <1>00, <1>000, <2>1, <2>2, <2>20, TwinStays
  <2>. QED  BY <2>3, <2>4, <2>5, <2>6, <2>7 DEF MintOwn
<1>. QED
  BY <1>1, <1>2, <1>3, <1>4, <1>5, <1>6, <1>7, <1>8, <1>9, <1>10, <1>11, <1>12, <1>13, <1>14, <1>15, <1>16
     DEF MintStep, MintAttests

(* Nor does anybody else take it away.                                     *)
LEMMA OwnUntouched ==
  ASSUME TypeInv, FixtureTrue, NEW m \in Mints, MintOwn(m), Untouched(m)
  PROVE  MintOwn(m)'
<1>0. /\ pc[m] # "idle" /\ pc'[m] \in {pc[m], "dead"} /\ mint'[m] = mint[m]
      /\ UNCHANGED <<traces, profile, twin, fixture, attestation, specific>>
      /\ drawn'[m] = drawn[m] /\ made'[m] = made[m]
      /\ rtl' = rtl \/ ~Unedited(m)'
      /\ replay' = replay \/ "ATTESTED" \in spoiled'[m]
      /\ clock \in Nat /\ clock' \in Nat /\ clock' >= clock /\ spoiled[m] \subseteq spoiled'[m]
  BY ProcessesApart DEF Untouched, Rests, Unedited, TypeInv, TypeOK
<1>00. /\ DesignMeasured(m) /\ DesignCurrent(m) /\ TracesOwn(m) /\ AttestationOwn(m)
       /\ EnvelopeOwn(m) /\ TwinOwn(m)
  BY DEF MintOwn
<1>1. Published(m)' <=> Published(m)
  BY <1>0 DEF Published
<1>3. /\ "dead" \notin FromMeasure /\ "dead" \notin FromTraces /\ "dead" \notin FromDraw
      /\ "dead" \notin FromStamp /\ "dead" \notin FromWrite /\ "dead" \notin FromEnroll
      /\ "dead" \notin FromIssue /\ "dead" \notin FromSbom /\ "dead" \notin FromUnlink
      /\ "dead" \notin FromFixture
  BY DEF FromMeasure, FromTraces, FromDraw, FromStamp, FromWrite, FromEnroll, FromIssue,
         FromSbom, FromUnlink, FromTwin, FromFixture
<1>4. /\ Has(m, FromMeasure)' => Has(m, FromMeasure)
      /\ Has(m, FromTraces)' => Has(m, FromTraces)
      /\ Has(m, FromDraw)' => Has(m, FromDraw)
      /\ Has(m, FromStamp)' => Has(m, FromStamp)
      /\ Has(m, FromWrite)' => Has(m, FromWrite)
      /\ Has(m, FromEnroll)' => Has(m, FromEnroll)
      /\ Has(m, FromIssue)' => Has(m, FromIssue)
      /\ Has(m, FromSbom)' => Has(m, FromSbom)
      /\ Has(m, FromUnlink)' => Has(m, FromUnlink)
      /\ Has(m, FromFixture)' => Has(m, FromFixture)
  BY <1>0, <1>1, <1>3 DEF Has
<1>5. DesignMeasured(m)'
  BY <1>0, <1>00, <1>4 DEF DesignMeasured
<1>6. DesignCurrent(m)'
  BY <1>0, <1>00, <1>4 DEF DesignCurrent, Unedited, ReferenceRtl
<1>7. TracesOwn(m)'
  BY <1>0, <1>00, <1>4 DEF TracesOwn, OwnTrace
<1>8. AttestationOwn(m)'
  BY <1>0, <1>00, <1>4 DEF AttestationOwn
<1>9. EnvelopeOwn(m)'
  <2>1. Has(m, FromSbom)' => mint'[m].envelope = [enrolment |-> m, by |-> m, issued |-> mint'[m].envelope.issued,
                                                    matches |-> mint'[m].envelope.matches]
                             /\ mint[m].envelope.issued \in 0..clock
    BY <1>0, <1>00, <1>4 DEF EnvelopeOwn
  <2>2. Has(m, FromSbom)' => mint'[m].envelope.issued \in 0..clock'
    BY <1>0, <2>1
  <2>. QED  BY <1>0, <1>00, <1>4, <2>1, <2>2 DEF EnvelopeOwn
<1>10. TwinOwn(m)'
  BY <1>0, <1>00, <1>4 DEF TwinOwn, OwnTwin, Unedited, Artifacts
<1>. QED  BY <1>5, <1>6, <1>7, <1>8, <1>9, <1>10 DEF MintOwn

(* A mint that begins has nothing yet.                                     *)
LEMMA OwnBegins ==
  ASSUME TypeInv, FixtureTrue, NEW m \in Mints, StartMint(m)
  PROVE  MintOwn(m)'
<1>1. pc[m] = "idle" /\ pc'[m] = "synthesise" /\ UNCHANGED fixture
  BY DEF StartMint, Minting, Goes, TypeInv, TypeOK, files
<1>2. ~Published(m)'
  BY <1>1 DEF Published, FixtureTrue, FixtureOf, Settled
<1>3. pc'[m] \notin FromMeasure /\ pc'[m] \notin {"traces", "twin", "save"}
  BY <1>1 DEF FromMeasure, FromTraces, FromDraw, FromStamp, FromWrite, FromEnroll, FromIssue,
         FromSbom, FromUnlink, FromTwin, FromFixture
<1>4. /\ FromTraces \subseteq FromMeasure /\ FromDraw \subseteq FromMeasure
      /\ FromStamp \subseteq FromMeasure /\ FromWrite \subseteq FromMeasure
      /\ FromEnroll \subseteq FromMeasure /\ FromIssue \subseteq FromMeasure
      /\ FromSbom \subseteq FromMeasure /\ FromUnlink \subseteq FromMeasure
      /\ FromFixture \subseteq FromMeasure
  BY DEF FromMeasure, FromTraces, FromDraw, FromStamp, FromWrite, FromEnroll, FromIssue,
         FromSbom, FromUnlink, FromTwin
<1>5. /\ ~Has(m, FromMeasure)' /\ ~Has(m, FromTraces)' /\ ~Has(m, FromDraw)' /\ ~Has(m, FromStamp)'
      /\ ~Has(m, FromWrite)' /\ ~Has(m, FromEnroll)' /\ ~Has(m, FromIssue)' /\ ~Has(m, FromSbom)'
      /\ ~Has(m, FromUnlink)' /\ ~Has(m, FromFixture)'
  BY <1>2, <1>3, <1>4 DEF Has
<1>. QED
  BY <1>3, <1>5 DEF MintOwn, DesignMeasured, DesignCurrent, TracesOwn, AttestationOwn, EnvelopeOwn, TwinOwn

LEMMA StepMintsOwn ==
  TypeInv /\ FixtureTrue /\ FilesShaped /\ MintsExclusive /\ MintsOwn /\ [Next]_vars => MintsOwn'
<1>. SUFFICES ASSUME TypeInv, FixtureTrue, FilesShaped, MintsExclusive, MintsOwn, [Next]_vars,
                     NEW m \in Mints, Unspoilt(m)'
              PROVE  MintOwn(m)'
  BY DEF MintsOwn
<1>1. CASE StartMint(m)
  BY <1>1, OwnBegins
<1>2. CASE MintStep(m)
  <2>1. Unspoilt(m)
    BY <1>2, MintAtWork DEF Unspoilt, Over
  <2>. QED  BY <1>2, <2>1, OwnStep DEF MintsOwn
<1>3. CASE ~(StartMint(m) \/ MintStep(m))
  <2>1. Untouched(m)
    BY <1>3, OthersSpoil
  <2>2. Unspoilt(m)
    BY <2>1 DEF Untouched, Rests, Unspoilt
  <2>. QED  BY <2>1, <2>2, OwnUntouched DEF MintsOwn
<1>. QED  BY <1>1, <1>2, <1>3

(* A mint has written no trace before it measures, and the traces are four. *)
LEMMA StepFilesShaped == TypeInv /\ FilesShaped /\ [Next]_vars => FilesShaped'
<1>. SUFFICES ASSUME TypeInv, FilesShaped, [Next]_vars
              PROVE  FilesShaped'
  OBVIOUS
<1>. USE DEF FilesShaped
<1>0. /\ pc \in [Mints \cup Runs -> Steps] /\ DOMAIN traces = ChannelSet /\ DOMAIN mint = Mints
      /\ \A m \in Mints : DOMAIN mint[m] = MintFields
  BY DEF TypeInv, TypeOK, Shaped
<1>1. ASSUME NEW m \in Mints, StartMint(m) \/ MintStep(m)
      PROVE  FilesShaped'
  <2>1. /\ traces' = traces \/ WriteTrace(m)
        /\ pc'[m] \in {"idle", "synthesise", "measure"} =>
             pc[m] \in {"idle", "synthesise", "measure"} /\ mint'[m].next = mint[m].next
    <3>. USE DEF Minting, Minted, Goes, attested, counters, files, MintFields
    <3>1. CASE StartMint(m) \/ MintSynthesises(m)
      BY <1>0, <3>1 DEF StartMint, MintSynthesises
    <3>2. CASE MintMeasures(m)
      <4>. DEFINE step == IF Design[mint[m].netlist].metrics.cells > 0 THEN "traces" ELSE "failed"
      <4>1. pc' = [pc EXCEPT ![m] = step] /\ UNCHANGED files /\ step \in {"traces", "failed"}
        BY <3>2 DEF MintMeasures
      <4>2. pc'[m] \in {"traces", "failed"}
        <5>. HIDE DEF step
        <5>. QED  BY <1>0, <4>1
      <4>. QED  BY <4>1, <4>2
    <3>3. CASE WriteTrace(m)
      BY <1>0, <3>3 DEF WriteTrace
    <3>4. CASE MintAttests(m)
      BY <1>0, <3>4 DEF MintAttests, DrawCounter, Stamp, WriteAttestation
    <3>5. CASE Enroll(m) \/ EnrollAgain(m)
      BY <1>0, <3>5 DEF Enroll, EnrollAgain
    <3>6. CASE IssueChallenge(m) \/ MintSbom(m) \/ UnlinkTwin(m)
      BY <1>0, <3>6 DEF IssueChallenge, MintSbom, UnlinkTwin
    <3>7. CASE LookForTwin(m) \/ SaveTwin(m) \/ WriteFixture(m)
      BY <1>0, <3>7 DEF LookForTwin, SaveTwin, WriteFixture
    <3>8. CASE CheckMarkers(m) \/ MintToolFails(m)
      BY <1>0, <3>8 DEF CheckMarkers, MintToolFails
    <3>. QED
      BY <1>1, <3>1, <3>2, <3>3, <3>4, <3>5, <3>6, <3>7, <3>8 DEF MintStep
  <2>2. traces' = [c \in ChannelSet |-> traces'[c]]
    BY <1>0, <2>1 DEF WriteTrace
  <2>3. \A x \in Mints \ {m} : pc'[x] = pc[x] /\ mint'[x] = mint[x]
    BY <1>1, MintAlone
  <2>. QED  BY <2>1, <2>2, <2>3
<1>2. ASSUME NEW r \in Runs, StartRun(r) \/ RunStep(r)
      PROVE  FilesShaped'
  <2>1. UNCHANGED <<mint, files>> /\ \A m \in Mints : pc'[m] = pc[m]
    BY <1>2, RunAlone, ProcessesApart
  <2>. QED  BY <2>1 DEF files
<1>3. ASSUME NEW p \in Mints \cup Runs, Die(p)
      PROVE  FilesShaped'
  <2>1. \A m \in Mints : pc'[m] \in {pc[m], "dead"}
    BY <1>0, <1>3 DEF Die, Goes
  <2>2. UNCHANGED <<mint, traces>>
    BY <1>3 DEF Die, files
  <2>. QED  BY <2>1, <2>2
<1>4. CASE Edit \/ Pass \/ UNCHANGED vars
  BY <1>4 DEF Edit, Pass, Tick, files, vars, shared
<1>. QED  BY <1>1, <1>2, <1>3, <1>4 DEF Next

-----------------------------------------------------------------------------
(* Who a fixture is of.                                                    *)

(* A run keeps the fixture it started with.                                *)
LEMMA RunKeepsFixture ==
  ASSUME TypeInv, NEW r \in Runs, StartRun(r) \/ RunStep(r)
  PROVE  /\ pc[r] # "idle" => run'[r].fixture = run[r].fixture
         /\ pc[r] = "idle" => fixture # NONE /\ run'[r].fixture = fixture
         /\ pc'[r] # "idle"
<1>0. DOMAIN run[r] = RunFields
  BY DEF TypeInv, Shaped
<1>1. \/ Starts(r) \/ Measures(r) \/ PassesTwin(r) \/ Reopens(r) \/ HasEvidence(r)
      \/ Concluded(r)
  BY RunShape
<1>2. CASE Starts(r)
  BY <1>0, <1>2 DEF Starts, RunFields
<1>3. CASE Measures(r)
  BY <1>3 DEF Measures
<1>4. CASE PassesTwin(r)
  <2>1. run'[r] = [run[r] EXCEPT !.completed = @ \cup {"digital_twin"}] /\ pc[r] = "twin" /\ pc'[r] = "ai"
    BY <1>4 DEF PassesTwin
  <2>. QED  BY <1>0, <2>1 DEF RunFields
<1>5. CASE HasEvidence(r)
  <2>1. PICK ai : run'[r] = [run[r] EXCEPT !.ai = ai] /\ pc[r] = "timing" /\ pc'[r] = "models"
    BY <1>5 DEF HasEvidence
  <2>. QED  BY <1>0, <2>1 DEF RunFields
<1>7. CASE Reopens(r)
  BY <1>7 DEF Reopens, RunFields
<1>6. CASE Concluded(r)
  BY <1>6 DEF Concluded, Kept
<1>. QED  BY <1>1, <1>2, <1>3, <1>4, <1>5, <1>6, <1>7

(* The envelope of a mint is the one it issued.                            *)
LEMMA MintSigns ==
  ASSUME TypeInv, NEW m \in Mints, StartMint(m) \/ MintStep(m)
  PROVE  /\ pc'[m] \in FromSbom => \/ pc[m] \in FromSbom /\ mint'[m].envelope = mint[m].envelope
                                   \/ mint'[m].envelope.by = m
         /\ fixture' = fixture \/ (pc[m] = "fixture" /\ fixture' = OwnFixture(m))
<1>. USE DEF Minting, Minted, Goes, attested, counters, files, MintFields
<1>0. /\ pc \in [Mints \cup Runs -> Steps] /\ DOMAIN mint = Mints /\ DOMAIN mint[m] = MintFields
  BY DEF TypeInv, TypeOK, Shaped
<1>00. {"synthesise", "measure", "traces", "draw", "stamp", "write", "enroll", "issue", "failed", "idle"}
         \cap FromSbom = {}
  BY DEF FromSbom, FromUnlink, FromTwin, FromFixture
<1>01. {"sbom", "unlink", "twin", "save", "fixture", "markers"} \subseteq FromSbom
  BY DEF FromSbom, FromUnlink, FromTwin, FromFixture
<1>1. CASE StartMint(m) \/ MintSynthesises(m)
  BY <1>0, <1>00, <1>1 DEF StartMint, MintSynthesises
<1>2. CASE MintMeasures(m)
  <2>. DEFINE step == IF Design[mint[m].netlist].metrics.cells > 0 THEN "traces" ELSE "failed"
  <2>1. pc' = [pc EXCEPT ![m] = step] /\ UNCHANGED files /\ step \in {"traces", "failed"}
    BY <1>2 DEF MintMeasures
  <2>2. pc'[m] \in {"traces", "failed"}
    <3>. HIDE DEF step
    <3>. QED  BY <1>0, <2>1
  <2>. QED  BY <1>00, <2>1, <2>2
<1>3. CASE WriteTrace(m)
  BY <1>0, <1>00, <1>3 DEF WriteTrace
<1>4. CASE MintAttests(m)
  BY <1>0, <1>00, <1>4 DEF MintAttests, DrawCounter, Stamp, WriteAttestation
<1>5. CASE Enroll(m) \/ EnrollAgain(m)
  BY <1>0, <1>00, <1>5 DEF Enroll, EnrollAgain
<1>6. CASE IssueChallenge(m)
  <2>1. PICK matches \in BOOLEAN :
          Minted(m, "envelope", [enrolment |-> profile, by |-> m, issued |-> clock, matches |-> matches])
    BY <1>6 DEF IssueChallenge
  <2>2. mint'[m].envelope.by = m
    BY <1>0, <2>1
  <2>. QED  BY <1>6, <2>2 DEF IssueChallenge
<1>7. CASE MintSbom(m)
  <2>. DEFINE digest == DocumentDigest("chip", Artifacts)
  <2>1. pc[m] = "sbom" /\ mint' = [mint EXCEPT ![m] = [@ EXCEPT !.sbom = digest]] /\ UNCHANGED fixture
    BY <1>7 DEF MintSbom
  <2>2. mint'[m].envelope = mint[m].envelope
    <3>. HIDE DEF digest
    <3>. QED  BY <1>0, <2>1
  <2>. QED  BY <1>01, <2>1, <2>2
<1>8. CASE UnlinkTwin(m) \/ LookForTwin(m) \/ SaveTwin(m)
  BY <1>0, <1>01, <1>8 DEF UnlinkTwin, LookForTwin, SaveTwin
<1>9. CASE WriteFixture(m)
  BY <1>0, <1>01, <1>9 DEF WriteFixture, OwnFixture
<1>10. CASE CheckMarkers(m)
  BY <1>0, <1>01, <1>10 DEF CheckMarkers
<1>11. CASE MintToolFails(m)
  BY <1>0, <1>00, <1>11 DEF MintToolFails
<1>. QED
  BY <1>1, <1>2, <1>3, <1>4, <1>5, <1>6, <1>7, <1>8, <1>9, <1>10, <1>11 DEF MintStep

LEMMA StepEnvelopesSigned ==
  TypeInv /\ FixtureTrue /\ EnvelopesSigned /\ [Next]_vars => EnvelopesSigned'
<1>. SUFFICES ASSUME TypeInv, FixtureTrue, EnvelopesSigned, [Next]_vars
              PROVE  EnvelopesSigned'
  OBVIOUS
<1>. DEFINE Signed(f) == f = [mint |-> f.mint, identity |-> f.mint, envelope |-> mint[f.mint].envelope]
                           /\ mint[f.mint].envelope.by = f.mint
<1>0. /\ pc \in [Mints \cup Runs -> Steps] /\ "dead" \notin FromSbom
  BY DEF TypeInv, TypeOK, FromSbom, FromUnlink, FromTwin, FromFixture
<1>1. /\ \A m \in Mints : pc[m] \in FromSbom => mint[m].envelope.by = m
      /\ fixture # NONE => FixtureOf(fixture) /\ Signed(fixture)
      /\ \A r \in Runs : pc[r] # "idle" => FixtureOf(run[r].fixture) /\ Signed(run[r].fixture)
  BY DEF EnvelopesSigned, FixtureTrue, OwnFixture
<1>2. ASSUME NEW f, FixtureOf(f), Signed(f)
      PROVE  Signed(f)'
  BY <1>2, FixtureStays
<1>3. \A m \in Mints : pc'[m] \in FromSbom => mint'[m].envelope.by = m
  <2>. SUFFICES ASSUME NEW m \in Mints, pc'[m] \in FromSbom
                PROVE  mint'[m].envelope.by = m
    OBVIOUS
  <2>1. CASE StartMint(m) \/ MintStep(m)
    BY <1>1, <2>1, MintSigns
  <2>2. CASE ~(StartMint(m) \/ MintStep(m))
    <3>1. pc'[m] = pc[m] /\ mint'[m] = mint[m]
      <4>1. ASSUME NEW y \in Mints, y # m, StartMint(y) \/ MintStep(y)
            PROVE  pc'[m] = pc[m] /\ mint'[m] = mint[m]
        BY <4>1, MintAlone
      <4>2. ASSUME NEW r \in Runs, StartRun(r) \/ RunStep(r)
            PROVE  pc'[m] = pc[m] /\ mint'[m] = mint[m]
        BY <4>2, RunAlone, ProcessesApart
      <4>3. ASSUME NEW p \in Mints \cup Runs, Die(p)
            PROVE  pc'[m] = pc[m] /\ mint'[m] = mint[m]
        BY <1>0, <4>3 DEF Die, Goes
      <4>4. CASE Edit \/ Pass \/ UNCHANGED vars
        BY <4>4 DEF Edit, Pass, Tick, vars
      <4>. QED  BY <2>2, <4>1, <4>2, <4>3, <4>4 DEF Next
    <3>. QED  BY <1>1, <3>1
  <2>. QED  BY <2>1, <2>2
<1>4. fixture' # NONE => Signed(fixture)'
  <2>1. CASE fixture' = fixture
    <3>. SUFFICES ASSUME fixture # NONE
                  PROVE  Signed(fixture)'
      BY <2>1
    <3>1. PICK f : f = fixture
      OBVIOUS
    <3>2. FixtureOf(f) /\ Signed(f)
      BY <1>1, <3>1
    <3>3. Signed(f)'
      BY <1>2, <3>2
    <3>. QED  BY <2>1, <3>1, <3>3
  <2>2. CASE fixture' # fixture
    <3>1. PICK m \in Mints : StartMint(m) \/ MintStep(m)
      BY <2>2, OthersAlone, RunAlone DEF files
    <3>2. pc[m] = "fixture" /\ fixture' = OwnFixture(m)
      BY <2>2, <3>1, MintSigns
    <3>3. mint'[m] = mint[m] /\ mint[m].envelope.by = m
      <4>1. Settled(m) /\ pc[m] \in FromSbom
        BY <3>2 DEF Settled, FromSbom, FromUnlink, FromTwin, FromFixture
      <4>. QED  BY <1>1, <3>1, <4>1, MintAlone
    <3>. QED  BY <3>2, <3>3 DEF OwnFixture
  <2>. QED  BY <2>1, <2>2
<1>5. ASSUME NEW r \in Runs, pc'[r] # "idle"
      PROVE  Signed(run[r].fixture)'
  <2>1. PICK f : f = run'[r].fixture
    OBVIOUS
  <2>2. FixtureOf(f) /\ Signed(f)
    <3>1. CASE StartRun(r) \/ RunStep(r)
      BY <1>1, <2>1, <3>1, RunKeepsFixture
    <3>2. CASE ~(StartRun(r) \/ RunStep(r))
      BY <1>1, <1>5, <2>1, <3>2, RunsUntouched
    <3>. QED  BY <3>1, <3>2
  <2>3. Signed(f)'
    BY <1>2, <2>2
  <2>. QED  BY <2>1, <2>3
<1>. QED  BY <1>3, <1>4, <1>5 DEF EnvelopesSigned, OwnFixture

(* Nobody returns to where a mint begins.                                  *)
LEMMA MintLeavesIdle ==
  ASSUME TypeInv, NEW m \in Mints, MintStep(m)
  PROVE  pc'[m] # "idle"
<1>. USE DEF Minting, Goes
<1>0. pc \in [Mints \cup Runs -> Steps]
  BY DEF TypeInv, TypeOK
<1>1. CASE MintSynthesises(m) \/ WriteTrace(m) \/ MintToolFails(m)
  BY <1>0, <1>1 DEF MintSynthesises, WriteTrace, MintToolFails
<1>2. CASE MintMeasures(m)
  <2>. DEFINE step == IF Design[mint[m].netlist].metrics.cells > 0 THEN "traces" ELSE "failed"
  <2>1. pc' = [pc EXCEPT ![m] = step] /\ step # "idle"
    BY <1>2 DEF MintMeasures
  <2>. HIDE DEF step
  <2>. QED  BY <1>0, <2>1
<1>3. CASE MintAttests(m)
  BY <1>0, <1>3 DEF MintAttests, DrawCounter, Stamp, WriteAttestation
<1>4. CASE Enroll(m) \/ EnrollAgain(m) \/ IssueChallenge(m) \/ MintSbom(m) \/ UnlinkTwin(m)
  BY <1>0, <1>4 DEF Enroll, EnrollAgain, IssueChallenge, MintSbom, UnlinkTwin
<1>5. CASE LookForTwin(m) \/ SaveTwin(m) \/ WriteFixture(m) \/ CheckMarkers(m)
  BY <1>0, <1>5 DEF LookForTwin, SaveTwin, WriteFixture, CheckMarkers
<1>. QED  BY <1>1, <1>2, <1>3, <1>4, <1>5 DEF MintStep

(* A mint that has its fixture signs no attestation any more.              *)
LEMMA SettledKept ==
  ASSUME TypeInv, [Next]_vars, NEW m \in Mints, Settled(m)
  PROVE  /\ spoiled[m] \subseteq spoiled'[m] /\ made'[m] = made[m]
         /\ clock \in Nat /\ clock' \in Nat /\ clock' >= clock
<1>0. /\ pc \in [Mints \cup Runs -> Steps] /\ DOMAIN spoiled = Mints /\ clock \in Nat
      /\ DOMAIN made = Mints
  BY ProcessesApart DEF TypeInv, TypeOK, Shaped
<1>1. ASSUME NEW x \in Mints, StartMint(x)
      PROVE  spoiled[m] \subseteq spoiled'[m] /\ made'[m] = made[m] /\ clock' = clock
  <2>1. x # m
    BY <1>1 DEF StartMint, Minting, Settled, Over
  <2>2. spoiled'[m] = spoiled[m] \cup {w \in {"MINT"} : m \in Begun}
    BY <1>0, <1>1, <2>1 DEF StartMint
  <2>3. UNCHANGED attested
    BY <1>1 DEF StartMint
  <2>. QED  BY <2>2, <2>3 DEF attested
<1>2. ASSUME NEW x \in Mints, MintStep(x)
      PROVE  UNCHANGED <<spoiled, clock>> /\ made'[m] = made[m]
  <2>1. UNCHANGED <<spoiled, clock>>
    BY <1>2, MintAtWork
  <2>. USE DEF attested
  <2>2. CASE MintAttests(x)
    BY <1>0, <2>2 DEF MintAttests, DrawCounter, Stamp, WriteAttestation, Settled, Over
  <2>3. CASE MintSynthesises(x) \/ MintMeasures(x) \/ WriteTrace(x)
    BY <2>3 DEF MintSynthesises, MintMeasures, WriteTrace
  <2>4. CASE Enroll(x) \/ EnrollAgain(x) \/ IssueChallenge(x) \/ MintSbom(x) \/ UnlinkTwin(x)
    BY <2>4 DEF Enroll, EnrollAgain, IssueChallenge, MintSbom, UnlinkTwin
  <2>5. CASE LookForTwin(x) \/ SaveTwin(x) \/ WriteFixture(x) \/ CheckMarkers(x) \/ MintToolFails(x)
    BY <2>5 DEF LookForTwin, SaveTwin, WriteFixture, CheckMarkers, MintToolFails
  <2>. QED  BY <1>2, <2>1, <2>2, <2>3, <2>4, <2>5 DEF MintStep
<1>3. ASSUME NEW r \in Runs, StartRun(r) \/ RunStep(r)
      PROVE  spoiled[m] \subseteq spoiled'[m] /\ made'[m] = made[m] /\ clock' = clock
  BY <1>3, RunQuiet
<1>4. ASSUME NEW p \in Mints \cup Runs, Die(p)
      PROVE  UNCHANGED <<spoiled, clock, made>>
  BY <1>4 DEF Die
<1>5. CASE Edit
  BY <1>0, <1>5 DEF Edit, Spoil, attested
<1>6. CASE Pass
  BY <1>0, <1>6 DEF Pass, Tick
<1>7. CASE UNCHANGED vars
  BY <1>0, <1>7 DEF vars, shared, attested
<1>. QED  BY <1>0, <1>1, <1>2, <1>3, <1>4, <1>5, <1>6, <1>7 DEF Next

(* What is used up is the envelope of a mint that knows.                   *)
LEMMA StepAnswered ==
  TypeInv /\ FixtureTrue /\ EnvelopesSigned /\ AnsweredOwn /\ [Next]_vars => AnsweredOwn'
<1>. SUFFICES ASSUME TypeInv, FixtureTrue, EnvelopesSigned, AnsweredOwn, [Next]_vars
              PROVE  AnsweredOwn'
  OBVIOUS
<1>. DEFINE Known(m) == Settled(m) /\ ("ANSWERED" \in spoiled[m] \/ ~mint[m].envelope.matches)
<1>0. /\ pc \in [Mints \cup Runs -> Steps] /\ DOMAIN spoiled = Mints
      /\ \A e \in answered : e.by \in Mints /\ Known(e.by)
  BY DEF TypeInv, TypeOK, Shaped, AnsweredOwn
<1>1. ASSUME NEW x \in Mints, Known(x)
      PROVE  Known(x)'
  <2>1. Settled(x)' /\ mint'[x] = mint[x]
    BY <1>1, SettledStays
  <2>2. spoiled[x] \subseteq spoiled'[x]
    BY <1>1, SettledKept
  <2>. QED  BY <1>1, <2>1, <2>2
<1>2. ASSUME NEW e \in answered', e \notin answered
      PROVE  e.by \in Mints /\ Known(e.by)'
  <2>1. PICK r \in Runs : Authenticate(r)
    <3>1. ASSUME NEW m \in Mints, StartMint(m) \/ MintStep(m)
          PROVE  UNCHANGED answered
      <4>. USE DEF Minting
      <4>1. CASE StartMint(m) \/ MintSynthesises(m) \/ MintMeasures(m)
        BY <4>1 DEF StartMint, MintSynthesises, MintMeasures
      <4>2. CASE WriteTrace(m) \/ MintAttests(m)
        BY <4>2 DEF WriteTrace, MintAttests
      <4>3. CASE Enroll(m) \/ EnrollAgain(m) \/ IssueChallenge(m) \/ MintSbom(m) \/ UnlinkTwin(m)
        BY <4>3 DEF Enroll, EnrollAgain, IssueChallenge, MintSbom, UnlinkTwin
      <4>4. CASE LookForTwin(m) \/ SaveTwin(m) \/ WriteFixture(m) \/ CheckMarkers(m) \/ MintToolFails(m)
        BY <4>4 DEF LookForTwin, SaveTwin, WriteFixture, CheckMarkers, MintToolFails
      <4>. QED  BY <3>1, <4>1, <4>2, <4>3, <4>4 DEF MintStep
    <3>2. ASSUME NEW r \in Runs, StartRun(r) \/ RunStep(r), ~Authenticate(r)
          PROVE  UNCHANGED answered
      <4>. USE DEF Held
      <4>1. CASE StartRun(r) \/ Verifies(r) \/ Rejected(r) \/ Accepted(r)
        BY <4>1 DEF StartRun, Verifies, Rejected, Accepted
      <4>2. CASE Synthesise(r) \/ Simulate(r) \/ GenerateSbom(r) \/ VerifyTwin(r)
        BY <4>2 DEF Synthesise, Simulate, GenerateSbom, VerifyTwin
      <4>7. CASE OpenTrace(r)
        BY <4>7, Opening DEF Opened
      <4>3. CASE CompareTraces(r)
        BY <4>3, Zenon DEF CompareTraces
      <4>4. CASE MeasureNetlist(r) \/ BuildEvidence(r)
        BY <4>4 DEF MeasureNetlist, BuildEvidence
      <4>5. CASE Analyse(r) \/ Comply(r)
        BY <4>5 DEF Analyse, Comply
      <4>6. CASE ToolFails(r) \/ RecordFails(r) \/ ModelsFail(r)
        BY <4>6 DEF ToolFails, RecordFails, ModelsFail, Trouble, shared
      <4>. QED  BY <3>2, <4>1, <4>2, <4>3, <4>4, <4>5, <4>6, <4>7 DEF RunStep
    <3>3. ~(Edit \/ Pass \/ UNCHANGED vars) /\ ~\E p \in Mints \cup Runs : Die(p)
      BY <1>2 DEF Edit, Pass, Tick, Die, vars, shared
    <3>. QED  BY <1>2, <3>1, <3>2, <3>3 DEF Next
  <2>0. PICK m : m = run[r].fixture.mint
    OBVIOUS
  <2>2. /\ e = run[r].fixture.envelope
        /\ "ANSWERED" \in spoiled'[m] \/ ~run[r].fixture.envelope.matches
    <3>1. pc[r] # "idle" /\ m \in Mints
      BY <2>0, <2>1 DEF Authenticate, Running, FixtureTrue, FixtureOf
    <3>2. /\ answered' = answered \cup {run[r].fixture.envelope}
          /\ \/ spoiled' = [spoiled EXCEPT ![m] = @ \cup {"ANSWERED"}]
             \/ ~run[r].fixture.envelope.matches
      BY <1>2, <2>0, <2>1 DEF Authenticate
    <3>. QED  BY <1>0, <1>2, <3>1, <3>2
  <2>3. m \in Mints /\ Settled(m) /\ e.by = m /\ e = mint[m].envelope
    <3>1. pc[r] # "idle"
      BY <2>1 DEF Authenticate, Running
    <3>2. m \in Mints /\ Settled(m)
      BY <2>0, <3>1 DEF FixtureTrue, FixtureOf
    <3>3. run[r].fixture = OwnFixture(m) /\ mint[m].envelope.by = m
      BY <2>0, <3>1 DEF EnvelopesSigned
    <3>4. run[r].fixture.envelope = mint[m].envelope
      BY <3>3 DEF OwnFixture
    <3>. QED  BY <2>2, <3>1, <3>2, <3>3, <3>4
  <2>4. Settled(m)' /\ mint'[m] = mint[m]
    BY <2>3, SettledStays
  <2>5. Known(m)'
    BY <2>2, <2>3, <2>4
  <2>. HIDE DEF Known
  <2>. QED  BY <2>3, <2>5
<1>. QED  BY <1>0, <1>1, <1>2 DEF AnsweredOwn

-----------------------------------------------------------------------------
(* What the stages make of evidence that is as a mint made it.             *)

LEMMA NoneFailing ==
  ASSUME NEW checks, \A reason \in DOMAIN checks : checks[reason] = FALSE
  PROVE  Failing(checks) = {}
  BY DEF Failing

LEMMA NotFailing ==
  ASSUME NEW checks, Failing(checks) = {}, NEW reason \in DOMAIN checks
  PROVE  checks[reason] # TRUE
  BY DEF Failing

(* A set of numbers with one more still has a greatest, and a smallest.    *)
Greatest(x, S) == x \in S /\ \A y \in S : x >= y
Smallest(x, S) == x \in S /\ \A y \in S : x <= y

LEMMA GreatestOfMore ==
  ASSUME NEW S, S \subseteq Int, NEW a \in S, Greatest(a, S), NEW b \in Int
  PROVE  \E x \in S \cup {b} : Greatest(x, S \cup {b})
<1>1. CASE b >= a
  BY <1>1 DEF Greatest
<1>2. CASE ~(b >= a)
  BY <1>2 DEF Greatest
<1>. QED  BY <1>1, <1>2

LEMMA SmallestOfMore ==
  ASSUME NEW S, S \subseteq Int, NEW a \in S, Smallest(a, S), NEW b \in Int
  PROVE  \E x \in S \cup {b} : Smallest(x, S \cup {b})
<1>1. CASE b <= a
  BY <1>1 DEF Smallest
<1>2. CASE ~(b <= a)
  BY <1>2 DEF Smallest
<1>. QED  BY <1>1, <1>2

LEMMA GreatestIsMax ==
  ASSUME NEW S, NEW x, Greatest(x, S)
  PROVE  Max(S) \in S
  BY DEF Greatest, Max

LEMMA SmallestIsMin ==
  ASSUME NEW S, NEW x, Smallest(x, S)
  PROVE  Min(S) \in S
  BY DEF Smallest, Min

HasGreatest(S) == S \subseteq Int /\ \E x \in S : Greatest(x, S)

LEMMA GreatestOfSome ==
  ASSUME NEW S, HasGreatest(S), NEW b \in Int, NEW T, T = S \/ T = S \cup {b}
  PROVE  HasGreatest(T)
<1>1. CASE T = S
  BY <1>1
<1>2. CASE T = S \cup {b}
  <2>1. PICK a \in S : Greatest(a, S)
    BY DEF HasGreatest
  <2>2. \E x \in S \cup {b} : Greatest(x, S \cup {b})
    BY <2>1, GreatestOfMore DEF HasGreatest
  <2>. QED  BY <1>2, <2>2 DEF HasGreatest
<1>. QED  BY <1>1, <1>2

HasSmallest(S) == S \subseteq Int /\ \E x \in S : Smallest(x, S)

LEMMA SmallestKept ==
  ASSUME NEW S, HasSmallest(S), NEW b \in Int
  PROVE  HasSmallest(S \cup {b})
<1>1. PICK a \in S : Smallest(a, S)
  BY DEF HasSmallest
<1>2. \E x \in S \cup {b} : Smallest(x, S \cup {b})
  BY <1>1, SmallestOfMore DEF HasSmallest
<1>. QED  BY <1>2 DEF HasSmallest

LEMMA ApartIsInt ==
  ASSUME NEW a \in Int, NEW b \in Int
  PROVE  Apart(a, b) \in Int /\ (a = b => Apart(a, b) = 0)
<1>1. a - b \in Int /\ b - a \in Int
  OBVIOUS
<1>2. Max({a - b, b - a}) \in {a - b, b - a}
  BY <1>1, MaxOfTwo
<1>3. Apart(a, b) \in {a - b, b - a}
  BY <1>2 DEF Apart
<1>. QED  BY <1>3

LEMMA DeltaIsRatio ==
  ASSUME NEW reference, NEW candidate, reference.cells \in Int, candidate.cells \in Int
  PROVE  DeltaRatio(reference, candidate) \in Ratios
<1>. DEFINE a == reference.cells
            b == candidate.cells
<1>1. Apart(a, b) \in Int
  BY ApartIsInt
<1>2. Max({1, a, b}) \in Int
  <2>. DEFINE S == {1} \cup {a}
              T == S \cup {b}
  <2>1. HasGreatest({1})
    BY DEF Greatest, HasGreatest
  <2>2. HasGreatest(S)
    BY <2>1, GreatestOfSome
  <2>3. HasGreatest(T)
    <3>. HIDE DEF S
    <3>. QED  BY <2>2, GreatestOfSome
  <2>4. T = {1, a, b} /\ T \subseteq Int
    BY <2>3 DEF HasGreatest
  <2>5. Max(T) \in T
    <3>. HIDE DEF T
    <3>. QED  BY <2>3, GreatestIsMax DEF HasGreatest
  <2>. QED  BY <2>4, <2>5
<1>. QED  BY <1>1, <1>2 DEF DeltaRatio, Ratios

(* A mint's attestation is accepted while it is fresh.                     *)
LEMMA FreshAccepted ==
  ASSUME AdmitsMinted, NEW m, NEW counter \in Nat \ {0}, NEW now \in Nat, NEW stamp \in 0..now,
         now - stamp <= Policy.maximumAge
  PROVE  AttestationReasons(SignedAttestation(m, counter, stamp), now, Policy) = {}
<1>. DEFINE e == SignedAttestation(m, counter, stamp)
            checks == [INVALID_DEVICE_ID            |-> ~e.named,
                       INVALID_DIGEST               |-> ~e.digested,
                       LIFECYCLE_STATE_NOT_ALLOWED  |-> e.lifecycle \notin Policy.allowedStates,
                       UNTRUSTED_FIRMWARE           |-> e.firmware \notin Policy.trustedFirmware,
                       ROLLBACK_COUNTER             |-> e.counter < Policy.minimumCounter,
                       INVALID_ATTESTATION_NONCE    |-> ~NonceValid(e.nonce, Policy),
                       CERTIFICATE_CHAIN_UNVERIFIED |-> e.chain,
                       INVALID_ATTESTATION_SIGNATURE |-> ~e.signed]
<1>1. /\ e.named = TRUE /\ e.digested = TRUE /\ e.lifecycle = "PROD" /\ e.firmware = "simulated"
      /\ e.counter = counter /\ e.stamp = stamp /\ e.chain = FALSE /\ e.signed = TRUE
      /\ e.nonce = [hexadecimal |-> TRUE, digits |-> 48]
  BY DEF SignedAttestation
<1>2. NonceValid(e.nonce, Policy)
  <2>1. 48 % 2 = 0 /\ 48 \div 2 = 24
    OBVIOUS
  <2>2. 24 \in Policy.minimumNonce..64
    BY DEF AdmitsMinted
  <2>. HIDE DEF e
  <2>. QED  BY <1>1, <2>1, <2>2 DEF NonceValid
<1>3. Failing(TimestampChecks(e, now, Policy)) = {}
  <2>1. ~(e.stamp > now + Policy.maximumSkew) /\ ~(now - e.stamp > Policy.maximumAge)
    BY <1>1 DEF AdmitsMinted
  <2>. DEFINE future == e.stamp > now + Policy.maximumSkew
              old    == now - e.stamp > Policy.maximumAge
  <2>2. future = FALSE /\ (~future /\ old) = FALSE
    <3>. HIDE DEF e
    <3>. QED  BY <2>1
  <2>3. TimestampChecks(e, now, Policy) =
          [ATTESTATION_FROM_FUTURE |-> future, STALE_ATTESTATION |-> ~future /\ old]
    <3>. HIDE DEF e
    <3>. QED  BY DEF TimestampChecks
  <2>. HIDE DEF future, old
  <2>4. TimestampChecks(e, now, Policy) = [ATTESTATION_FROM_FUTURE |-> FALSE, STALE_ATTESTATION |-> FALSE]
    BY <2>2, <2>3
  <2>. DEFINE stamps == TimestampChecks(e, now, Policy)
  <2>5. \A reason \in DOMAIN stamps : stamps[reason] = FALSE
    <3>. HIDE DEF e
    <3>. QED  BY <2>4
  <2>. HIDE DEF stamps
  <2>6. Failing(stamps) = {}
    BY <2>5, NoneFailing
  <2>. QED  BY <2>6 DEF stamps
<1>4. Failing(checks) = {}
  <2>1. ~(counter < Policy.minimumCounter)
    BY DEF AdmitsMinted
  <2>2. /\ (~e.named) = FALSE /\ (~e.digested) = FALSE /\ (e.lifecycle \notin Policy.allowedStates) = FALSE
        /\ (e.firmware \notin Policy.trustedFirmware) = FALSE /\ (e.counter < Policy.minimumCounter) = FALSE
        /\ (~NonceValid(e.nonce, Policy)) = FALSE /\ e.chain = FALSE /\ (~e.signed) = FALSE
    <3>. HIDE DEF e
    <3>. QED  BY <1>1, <1>2, <2>1 DEF AdmitsMinted
  <2>3. checks = [INVALID_DEVICE_ID |-> FALSE, INVALID_DIGEST |-> FALSE, LIFECYCLE_STATE_NOT_ALLOWED |-> FALSE,
                  UNTRUSTED_FIRMWARE |-> FALSE, ROLLBACK_COUNTER |-> FALSE, INVALID_ATTESTATION_NONCE |-> FALSE,
                  CERTIFICATE_CHAIN_UNVERIFIED |-> FALSE, INVALID_ATTESTATION_SIGNATURE |-> FALSE]
    <3>. HIDE DEF e
    <3>. QED  BY <2>2
  <2>. HIDE DEF checks
  <2>4. \A reason \in DOMAIN checks : checks[reason] = FALSE
    BY <2>3
  <2>. QED  BY <2>4, NoneFailing
<1>5. AttestationReasons(e, now, Policy) = Failing(TimestampChecks(e, now, Policy)) \cup Failing(checks)
  <2>. HIDE DEF e
  <2>. QED  BY DEF AttestationReasons
<1>. QED  BY <1>3, <1>4, <1>5

LEMMA FuseIsInt ==
  ASSUME NEW models, NEW controls, models.base \in Int, models.cnn.score \in Int, models.anomaly.score \in Int
  PROVE  Fuse(models, controls) \in Int
<1>. DEFINE weighted == 45 * models.base + 30 * models.cnn.score + 25 * models.anomaly.score
            A == {9500 : name \in {n \in MandatoryControls : ~Set(controls, n)}}
            B == {8000 : name \in {n \in {"sbom_mismatch"} : Set(controls, n)}}
            C == {9000 : name \in {n \in {"custody_tampered"} : Set(controls, n)}}
            S0 == {weighted}
            S1 == S0 \cup A
            S2 == S1 \cup B
            S3 == S2 \cup C
<1>1. weighted \in Int
  OBVIOUS
<1>2. /\ S1 = S0 \/ S1 = S0 \cup {9500}
      /\ S2 = S1 \/ S2 = S1 \cup {8000}
      /\ S3 = S2 \/ S3 = S2 \cup {9000}
  <2>1. (A = {} \/ A = {9500}) /\ (B = {} \/ B = {8000}) /\ (C = {} \/ C = {9000})
    OBVIOUS
  <2>. HIDE DEF A, B, C, weighted
  <2>. QED  BY <2>1
<1>3. Fuse(models, controls) = Max(S3)
  BY DEF Fuse
<1>4. HasGreatest(S0)
  BY <1>1 DEF Greatest, HasGreatest
<1>. HIDE DEF S0, S1, S2, S3
<1>5. HasGreatest(S1)
  BY <1>2, <1>4, GreatestOfSome
<1>6. HasGreatest(S2)
  BY <1>2, <1>5, GreatestOfSome
<1>7. HasGreatest(S3)
  BY <1>2, <1>6, GreatestOfSome
<1>8. Max(S3) \in S3 /\ S3 \subseteq Int
  BY <1>7, GreatestIsMax DEF HasGreatest
<1>. QED  BY <1>3, <1>8

(* A decision, and why it turns a chip down.                               *)
LEMMA DecisionSound ==
  ASSUME NEW models \in Outputs, NEW controls, NEW quality \in Int
  PROVE  LET decision == Decide(models, controls, quality)
         IN  /\ decision.risk \in Int /\ decision.confidence \in Int
             /\ decision.classification = Classification(decision.risk)
             /\ decision.recommendation = DeploymentRecommendation(decision.risk)
<1>1. /\ models.base \in Int /\ models.cnn.score \in Int /\ models.anomaly.score \in Int
      /\ models.cnn.confidence \in Int /\ models.anomaly.confidence \in Int
  BY MeasuresSound DEF MeasuresSound
<1>2. Fuse(models, controls) \in Int
  BY <1>1, FuseIsInt
<1>3. ASSUME NEW risk \in Int
      PROVE  ConfidenceScore(models, risk, quality) \in Int
  <2>1. 2 * risk - 10000 \in Int /\ 10000 - 2 * risk \in Int
    OBVIOUS
  <2>2. Separation(risk) \in {2 * risk - 10000, 10000 - 2 * risk}
    BY <2>1, MaxOfTwo DEF Separation
  <2>3. Separation(risk) \in Int
    BY <2>1, <2>2
  <2>. QED  BY <1>1, <2>3 DEF ConfidenceScore
<1>. QED  BY <1>2, <1>3 DEF Decide

LEMMA RiskBlocks ==
  ASSUME NEW risk \in Int, risk >= 6500
  PROVE  DeploymentRecommendation(risk) = "BLOCK"
<1>1. ~(risk >= 3500 /\ risk < 6500)
  OBVIOUS
<1>. QED  BY <1>1 DEF DeploymentRecommendation

LEMMA ModelsBlock ==
  ASSUME NEW decision, decision.risk \in Int, decision.classification = Classification(decision.risk),
         decision.recommendation = DeploymentRecommendation(decision.risk), ~AiPassed(decision)
  PROVE  decision.recommendation = "BLOCK"
<1>1. decision.classification \in {"COMPROMISED", "SUSPICIOUS", "CLEAN"}
  BY DEF Classification
<1>2. decision.classification \notin DeniedLabels
  BY <1>1 DEF DeniedLabels
<1>3. decision.risk >= 6500
  BY <1>2 DEF AiPassed
<1>. QED  BY <1>3, RiskBlocks

LEMMA PolicyDoubts ==
  ASSUME NEW decision, decision.risk \in Int, decision.confidence \in Int,
         decision.recommendation = DeploymentRecommendation(decision.risk),
         Chip!PolicyDecision("APPROVED", Chip!SupplierRisk(Chip!Clean.supplier, Told(decision)),
                             Told(decision)) # "APPROVED"
  PROVE  decision.recommendation = "BLOCK" \/ decision.confidence < 600000
<1>. DEFINE ai == Told(decision)
            supplier == Chip!SupplierRisk(Chip!Clean.supplier, ai)
<1>1. ai.risk = decision.risk \div 100 /\ ai.confidence = decision.confidence \div 10000
  BY DEF Told
<1>2. ai.risk \in Int /\ ai.confidence \in Int
  BY <1>1
<1>3. supplier <= 1650
  <2>1. Chip!Limit(ai.risk) \in 0..100
    BY <1>2 DEF Chip!Limit
  <2>2. Chip!Limit(0) = 0 /\ Chip!Limit(10) = 10
    BY DEF Chip!Limit
  <2>3. Chip!Clean.supplier = [country |-> 10, custody |-> 0, certificate |-> 0, sbom |-> 0,
                               threat |-> 0, counterfeit |-> 0, distress |-> 0]
    BY DEF Chip!Clean
  <2>4. supplier = 15 * 10 + 15 * 0 + 10 * 0 + 15 * 0 + 15 * 0 + 10 * 0 + 5 * 0 + 15 * Chip!Limit(ai.risk)
    <3>. HIDE DEF ai
    <3>. QED  BY <2>2, <2>3 DEF Chip!SupplierRisk
  <2>. HIDE DEF ai, supplier
  <2>. QED  BY <2>1, <2>4
<1>4. ai.risk >= 80 \/ ai.confidence < 60
  <2>1. ~(supplier >= 6000)
    <3>1. supplier \in Int
      <4>1. Chip!Limit(ai.risk) \in 0..100
        BY <1>2 DEF Chip!Limit
      <4>2. Chip!Clean.supplier = [country |-> 10, custody |-> 0, certificate |-> 0, sbom |-> 0,
                                   threat |-> 0, counterfeit |-> 0, distress |-> 0]
        BY DEF Chip!Clean
      <4>3. Chip!Limit(0) = 0 /\ Chip!Limit(10) = 10
        BY DEF Chip!Limit
      <4>. HIDE DEF ai
      <4>. QED  BY <4>1, <4>2, <4>3 DEF Chip!SupplierRisk
    <3>. HIDE DEF ai, supplier
    <3>. QED  BY <1>3, <3>1
  <2>. HIDE DEF ai, supplier
  <2>2. Chip!PolicyDecision("APPROVED", supplier, ai) # "APPROVED"
    BY DEF ai, supplier
  <2>. QED  BY <2>1, <2>2 DEF Chip!PolicyDecision
<1>5. CASE ai.risk >= 80
  <2>1. decision.risk >= 6500
    BY <1>1, <1>5
  <2>. QED  BY <2>1, RiskBlocks
<1>6. CASE ai.confidence < 60
  BY <1>1, <1>6
<1>. QED  BY <1>4, <1>5, <1>6

(* Counts are sound as they are counted, and assertions were checked.      *)
LEMMA CountsAreSound ==
  ASSUME NEW d \in Designs, Design[d].metrics.cells > 0
  PROVE  CountsSound(Design[d].metrics)
<1>. DEFINE metrics == Design[d].metrics
            a == metrics.wires
            b == metrics.wireBits
            c == metrics.publicWires
            e == metrics.memoryBits
<1>1. /\ a \in Nat /\ b \in Nat /\ c \in Nat /\ e \in Nat /\ c <= a
  BY MeasuresSound DEF MeasuresSound
<1>2. Min({a, b, c, e}) >= 0
  <2>. HIDE DEF a, b, c, e
  <2>. DEFINE S == {a} \cup {b}
              T == S \cup {c}
              U == T \cup {e}
  <2>1. HasSmallest({a})
    BY <1>1 DEF Smallest, HasSmallest
  <2>2. HasSmallest(S)
    BY <1>1, <2>1, SmallestKept
  <2>3. HasSmallest(T)
    <3>. HIDE DEF S
    <3>. QED  BY <1>1, <2>2, SmallestKept
  <2>4. HasSmallest(U)
    <3>. HIDE DEF T
    <3>. QED  BY <1>1, <2>3, SmallestKept
  <2>5. U = {a, b, c, e}
    OBVIOUS
  <2>6. Min(U) \in U
    <3>. HIDE DEF U
    <3>. QED  BY <2>4, SmallestIsMin DEF HasSmallest
  <2>7. Min({a, b, c, e}) \in {a, b, c, e}
    BY <2>5, <2>6
  <2>. QED  BY <1>1, <2>7
<1>. QED  BY <1>1, <1>2 DEF CountsSound

LEMMA AssertionsChecked ==
  ASSUME NEW d \in Designs, VerilatorReasons(Design[d].output) = {}
  PROVE  Design[d].output.assertions \in Nat \ {0}
<1>. DEFINE output == Design[d].output
            checks == [SIMULATION_ASSERTION_FAILURE |-> output.failed,
                       ASSERTION_SUMMARY_MISSING    |-> output.assertions = -1,
                       ASSERTION_COUNT_INSUFFICIENT |-> output.assertions = 0,
                       CYCLE_SUMMARY_MISSING        |-> output.cycles = -1,
                       CYCLE_COUNT_INSUFFICIENT     |-> output.cycles = 0,
                       RESET_COMPLETION_MISSING     |-> ~output.reset,
                       REQUIRED_CHECKS_MISSING      |-> ~output.checks,
                       PASS_MARKER_MISSING          |-> ~output.marker]
<1>1. output.assertions \in Nat \cup {-1}
  BY MeasuresSound DEF MeasuresSound
<1>2. Failing(checks) = {}
  BY ZenonT(60) DEF VerilatorReasons
<1>3. /\ "ASSERTION_SUMMARY_MISSING" \in DOMAIN checks /\ "ASSERTION_COUNT_INSUFFICIENT" \in DOMAIN checks
      /\ checks["ASSERTION_SUMMARY_MISSING"] = (output.assertions = -1)
      /\ checks["ASSERTION_COUNT_INSUFFICIENT"] = (output.assertions = 0)
  <2>. HIDE DEF output
  <2>. QED  OBVIOUS
<1>. HIDE DEF checks, output
<1>4. (output.assertions = -1) # TRUE /\ (output.assertions = 0) # TRUE
  BY <1>2, <1>3, NotFailing
<1>5. output.assertions # -1 /\ output.assertions # 0
  BY <1>4
<1>6. output.assertions \in Nat \ {0}
  BY <1>1, <1>5
<1>. QED  BY <1>6 DEF output

LEMMA MinIsInt ==
  ASSUME NEW a \in Int, NEW b \in Int
  PROVE  Min({a, b}) \in Int
<1>. DEFINE S == {a} \cup {b}
<1>1. HasSmallest({a})
  BY DEF Smallest, HasSmallest
<1>2. HasSmallest(S)
  BY <1>1, SmallestKept
<1>3. S = {a, b} /\ S \subseteq Int
  OBVIOUS
<1>4. Min(S) \in S
  <2>. HIDE DEF S
  <2>. QED  BY <1>2, SmallestIsMin DEF HasSmallest
<1>. QED  BY <1>3, <1>4

LEMMA QualityIsInt ==
  ASSUME NEW hw, NEW puf
  PROVE  EvidenceQuality(hw, puf) \in Int
  BY DEF EvidenceQuality

(* What both schemas derive from a reference and a simulation is there.    *)
LEMMA FeaturesDerived ==
  ASSUME AdmitsMinted, NEW hw, hw.ratio \in Ratios, VerilatorReasons(hw.output) = {},
         hw.output.assertions \in Nat \ {0}
  PROVE  MissingFeatures(Schema, hw, Authenticated) = {}
<1>1. NetlistDelta(hw) # NONE
  <2>1. hw.ratio # NONE
    BY MeasuresSound DEF MeasuresSound
  <2>2. Min({hw.ratio.over, hw.ratio.of}) \in Int
    BY MinIsInt DEF Ratios
  <2>3. [hw.ratio EXCEPT !.over = Min({@, hw.ratio.of})] \in Ratios
    BY <2>2 DEF Ratios
  <2>4. NetlistDelta(hw) \in Ratios
    BY <2>1, <2>3 DEF NetlistDelta
  <2>. QED  BY <2>4, MeasuresSound DEF MeasuresSound
<1>2. SimulationFailure(hw) # NONE
  <2>. DEFINE failed == [count |-> 0, exact |-> TRUE]
  <2>1. FailedAssertions(hw) = failed
    BY DEF FailedAssertions
  <2>2. failed # NONE
    BY MeasuresSound DEF MeasuresSound
  <2>3. Min({failed.count, hw.output.assertions}) \in Int
    BY MinIsInt
  <2>4. SimulationFailure(hw) = [over |-> Min({failed.count, hw.output.assertions}), of |-> hw.output.assertions,
                                 exact |-> failed.exact]
    <3>. HIDE DEF failed
    <3>. QED  BY <2>1, <2>2 DEF SimulationFailure
  <2>5. SimulationFailure(hw) \in [over : Int, of : Int, exact : BOOLEAN]
    BY <2>3, <2>4
  <2>. QED  BY <2>5, MeasuresSound DEF MeasuresSound
<1>3. PufVerified(Authenticated)
  BY DEF PufVerified, Authenticated
<1>4. Derived(Schema) \cap Unmeasured(hw) = {}
  <2>1. Unmeasured(hw) = {"yosys.unused_logic_ratio", "yosys.rare_net_count", "yosys.gate_count"}
    BY <1>1, <1>2 DEF Unmeasured
  <2>2. Derived(Schema) \subseteq {"yosys.netlist_delta_ratio", "verilator.failed_assertions"}
    BY DEF Derived, AdmitsMinted
  <2>. QED  BY <2>1, <2>2
<1>. QED  BY <1>3, <1>4 DEF MissingFeatures

(* Nothing stands against giving the models what a mint has made.          *)
LEMMA NothingRefused ==
  ASSUME AdmitsMinted, NEW hw, NEW power, NEW digest, NEW em, NEW timing,
         Stages \subseteq hw.completed, \A trace \in {power, em, timing} : trace.source = "SIMULATED_TRACE",
         digest = hw.compared, power.source = hw.capture.source, CountsSound(hw.metrics), hw.ratio \in Ratios,
         VerilatorReasons(hw.output) = {}, hw.output.assertions \in Nat \ {0}
  PROVE  Refusals(hw, power, digest, em, timing, Authenticated, Schema) = {}
<1>. DEFINE checks ==
       [HARDWARE_NOT_VERIFIED |-> ~StagesVerified(hw),
        TRACE_NOT_VALIDATED   |-> \E trace \in {power, em, timing} : ~TraceUsable(trace),
        POWER_TRACE_NOT_BOUND |-> ~BoundToCapture(power, digest, hw),
        COUNTS_NOT_SOUND      |-> ~CountsSound(hw.metrics),
        NO_ASSERTIONS         |-> hw.output.assertions <= 0,
        NO_STABILITY          |-> Authenticated.stability < 0 \/ Authenticated.stability > 1000]
<1>1. StagesVerified(hw)
  BY DEF StagesVerified
<1>2. ~\E trace \in {power, em, timing} : ~TraceUsable(trace)
  BY DEF TraceUsable
<1>3. BoundToCapture(power, digest, hw)
  BY DEF BoundToCapture
<1>4. ~(hw.output.assertions <= 0)
  OBVIOUS
<1>5. ~(Authenticated.stability < 0 \/ Authenticated.stability > 1000)
  BY DEF Authenticated
<1>6. checks = [HARDWARE_NOT_VERIFIED |-> FALSE, TRACE_NOT_VALIDATED |-> FALSE, POWER_TRACE_NOT_BOUND |-> FALSE,
                COUNTS_NOT_SOUND |-> FALSE, NO_ASSERTIONS |-> FALSE, NO_STABILITY |-> FALSE]
  <2>1. /\ (~StagesVerified(hw)) = FALSE
        /\ (\E trace \in {power, em, timing} : ~TraceUsable(trace)) = FALSE
        /\ (~BoundToCapture(power, digest, hw)) = FALSE /\ (~CountsSound(hw.metrics)) = FALSE
        /\ (hw.output.assertions <= 0) = FALSE
    BY <1>1, <1>2, <1>3, <1>4
  <2>2. (Authenticated.stability < 0 \/ Authenticated.stability > 1000) = FALSE
    BY <1>5
  <2>. QED  BY <2>1, <2>2, Zenon
<1>7. Failing(checks) = {}
  <2>. HIDE DEF checks
  <2>1. \A reason \in DOMAIN checks : checks[reason] = FALSE
    BY <1>6
  <2>. QED  BY <2>1, NoneFailing
<1>8. MissingFeatures(Schema, hw, Authenticated) = {}
  BY FeaturesDerived
<1>9. Refusals(hw, power, digest, em, timing, Authenticated, Schema) =
        Failing(checks) \cup MissingFeatures(Schema, hw, Authenticated)
  BY Zenon DEF Refusals
<1>. QED  BY <1>7, <1>8, <1>9, Zenon

-----------------------------------------------------------------------------
(* What a run finds.                                                       *)
Accounted(r) ==
  pc[r] = "ended" /\ run[r].result # "COMPLETED" /\ ~run[r].faulty => Caused(r)

Context == TypeInv /\ FixtureTrue /\ EnvelopesSigned /\ AnsweredOwn /\ MintsOwn

(* What is known of a mint whose fixture is there.                         *)
DesignKnown(m) ==
  /\ {mint[m].netlist, mint[m].digest, mint[m].reference} \subseteq Designs
  /\ Design[mint[m].netlist].metrics.cells > 0
  /\ Unedited(m) => /\ mint[m].netlist = rtl /\ mint[m].digest = rtl /\ mint[m].reference = ReferenceRtl
                    /\ mint[m].sbom = DocumentDigest("chip", Artifacts)

AttestationKnown(m) ==
  /\ attestation = made[m] /\ made[m] = SignedAttestation(m, drawn[m], made[m].stamp)
  /\ made[m].stamp \in 0..clock /\ drawn[m] \in Nat \ {0}
  /\ "ATTESTED" \in spoiled[m] \/ drawn[m] > replay

EnvelopeKnown(m) ==
  /\ profile = m
  /\ mint[m].envelope = [enrolment |-> m, by |-> m, issued |-> mint[m].envelope.issued,
                         matches |-> mint[m].envelope.matches]
  /\ mint[m].envelope.issued \in 0..clock

Evident(m) ==
  /\ DesignKnown(m) /\ AttestationKnown(m) /\ EnvelopeKnown(m)
  /\ mint[m].sbom \in Documents /\ twin = OwnTwin(m)
  /\ \A c \in ChannelSet : traces[c] = OwnTrace(m, c)

LEMMA PublishedEvident ==
  ASSUME NEW m \in Mints, MintOwn(m), Published(m)
  PROVE  Evident(m)
<1>1. \A steps : Has(m, steps)
  BY DEF Has
<1>. USE <1>1
<1>2. DesignKnown(m)
  BY DEF MintOwn, DesignMeasured, DesignCurrent, TwinOwn, DesignKnown
<1>3. AttestationKnown(m)
  BY DEF MintOwn, AttestationOwn, AttestationKnown
<1>4. EnvelopeKnown(m)
  BY DEF MintOwn, EnvelopeOwn, EnvelopeKnown
<1>5. mint[m].sbom \in Documents /\ twin = OwnTwin(m)
  BY DEF MintOwn, TwinOwn
<1>6. \A c \in ChannelSet : traces[c] = OwnTrace(m, c)
  BY DEF MintOwn, TracesOwn
<1>. QED  BY <1>2, <1>3, <1>4, <1>5, <1>6 DEF Evident

(* What a run knows of the mint of its fixture.                            *)
LEMMA RunFinds ==
  ASSUME Context, NEW r \in Runs, pc[r] # "idle", RunSound(r), NEW m, m = run[r].fixture.mint,
         "MINT" \notin spoiled[m]
  PROVE  Unspoilt(m) /\ Evident(m) /\ RunFollows(r, m)
<1>1. m \in Mints /\ pc[m] # "idle"
  BY DEF Context, FixtureTrue, FixtureOf, Settled
<1>2. RunFollows(r, m) /\ Published(m)
  BY DEF RunSound, RunFollows
<1>3. Unspoilt(m) /\ MintOwn(m)
  BY <1>1 DEF Unspoilt, Context, MintsOwn
<1>. QED  BY <1>1, <1>2, <1>3, PublishedEvident

LEMMA RunStepFrame ==
  ASSUME Context, NEW r \in Runs, RunStep(r), pc[r] # "idle", NEW m, m = run[r].fixture.mint
  PROVE  /\ m \in Mints /\ run[r].fixture = OwnFixture(m) /\ run'[r].fixture = run[r].fixture
         /\ UNCHANGED <<clock, attestation, drawn, made, specific, mint, files>>
         /\ "MINT" \in spoiled'[m] <=> "MINT" \in spoiled[m]
         /\ "EDIT" \in spoiled'[m] <=> "EDIT" \in spoiled[m]
         /\ spoiled[m] \subseteq spoiled'[m]
<1>1. m \in Mints /\ run[r].fixture = OwnFixture(m)
  BY DEF Context, FixtureTrue, FixtureOf, EnvelopesSigned
<1>2. run'[r].fixture = run[r].fixture
  BY RunKeepsFixture DEF Context
<1>3. /\ UNCHANGED <<clock, attestation, drawn, made, specific>>
      /\ spoiled[m] \subseteq spoiled'[m]
      /\ spoiled'[m] \subseteq spoiled[m] \cup {"ANSWERED", "ATTESTED"}
  BY <1>1, RunQuiet DEF Context
<1>4. UNCHANGED <<mint, files>>
  BY RunAlone DEF Context
<1>. QED  BY <1>1, <1>2, <1>3, <1>4

(* A run that goes on, and one that ends.                                  *)
LEMMA GoesOnSound ==
  ASSUME Context, NEW r \in Runs, RunStep(r), pc[r] # "idle", NEW m, m = run[r].fixture.mint,
         pc'[r] # "ended", RunKnows(r)', "MINT" \notin spoiled[m] => RunFollows(r, m)'
  PROVE  RunSound(r)' /\ Accounted(r)'
<1>1. run'[r].fixture.mint = m /\ ("MINT" \in spoiled'[m] <=> "MINT" \in spoiled[m])
  BY RunStepFrame
<1>. QED  BY <1>1 DEF RunSound, Accounted

LEMMA EndsSound ==
  ASSUME Context, NEW r \in Runs, RunStep(r), pc[r] # "idle", RunSound(r), pc'[r] = "ended"
  PROVE  RunSound(r)'
<1>. DEFINE m == run[r].fixture.mint
<1>1. RunKnows(r)'
  BY DEF RunKnows, StagesDone, RunMeasured, Judged, ToCapture, ToHash, ToCompare, ToSynthesise, ToMeasure,
         ToSimulate, ToSbom, ToTwin, ToAi, ToBind, ToEm, ToTiming
<1>2. /\ run'[r].fixture = run[r].fixture /\ UNCHANGED <<mint, fixture>>
      /\ "MINT" \in spoiled'[m] <=> "MINT" \in spoiled[m]
  BY RunStepFrame DEF files
<1>3. ASSUME "MINT" \notin spoiled[m]
      PROVE  RunFollows(r, m)'
  <2>1. Published(m) /\ fixture = run[r].fixture
    BY <1>3 DEF RunSound, RunFollows
  <2>2. Published(m)' /\ fixture' = run'[r].fixture
    BY <1>2, <2>1 DEF Published
  <2>. QED
    BY <2>2 DEF RunFollows, ToCheck, ToCapture, ToHash, ToCompare, ToSynthesise, ToMeasure, ToSimulate,
                ToSbom, ToTwin, ToAi, ToBind, ToEm, ToTiming
<1>. QED  BY <1>1, <1>2, <1>3 DEF RunSound

LEMMA EndsTo ==
  ASSUME TypeInv, NEW r \in Runs, NEW result, NEW stage, NEW state, DOMAIN state = RunFields,
         Ends(r, result, stage, state)
  PROVE  /\ pc'[r] = "ended" /\ run'[r].result = result /\ run'[r].stage = stage
         /\ run'[r].ai = state.ai /\ run'[r].fixture = state.fixture /\ run'[r].faulty = state.faulty
<1>. DEFINE last == [state EXCEPT !.result = result, !.stage = stage]
<1>1. pc'[r] = "ended" /\ run'[r] = last
  BY DEF Ends, Ran, Goes, TypeInv, TypeOK, Shaped
<1>2. /\ last.result = result /\ last.stage = stage /\ last.ai = state.ai
      /\ last.fixture = state.fixture /\ last.faulty = state.faulty
  BY DEF RunFields
<1>. HIDE DEF last
<1>. QED  BY <1>1, <1>2

Same(new, old) ==
  /\ new.fixture = old.fixture /\ new.capture = old.capture /\ new.compared = old.compared
  /\ new.netlist = old.netlist /\ new.digest = old.digest /\ new.ratio = old.ratio
  /\ new.output = old.output /\ new.sbom = old.sbom /\ new.ai = old.ai /\ new.faulty = old.faulty

LEMMA ConcludesTo ==
  ASSUME TypeInv, NEW r \in Runs, NEW stage, NEW reasons, NEW next, NEW state,
         DOMAIN state = RunFields, Concludes(r, stage, reasons, next, state)
  PROVE  /\ reasons = {} => /\ pc'[r] = next /\ Same(run'[r], state)
                            /\ run'[r].completed = state.completed \cup {stage}
         /\ reasons # {} => /\ pc'[r] = "ended" /\ run'[r].stage = stage
                            /\ run'[r].fixture = state.fixture
<1>1. CASE reasons = {}
  <2>. DEFINE more == [state EXCEPT !.completed = @ \cup {stage}]
  <2>1. Same(more, state) /\ more.completed = state.completed \cup {stage}
    BY DEF RunFields, Same
  <2>2. pc'[r] = next /\ run'[r] = more
    BY <1>1 DEF Concludes, Ran, Goes, TypeInv, TypeOK, Shaped
  <2>. HIDE DEF more
  <2>. QED  BY <1>1, <2>1, <2>2
<1>2. CASE reasons # {}
  BY <1>2, EndsTo DEF Concludes
<1>. QED  BY <1>1, <1>2

-----------------------------------------------------------------------------
(* The steps of a run, one by one: what it knows after each, and why it is *)
(* turned down.                                                            *)

LEMMA AuthenticateSound ==
  ASSUME Context, NEW r \in Runs, RunSound(r), Authenticate(r)
  PROVE  RunSound(r)' /\ Accounted(r)'
<1>. DEFINE envelope == run[r].fixture.envelope
<1>0. PICK m : m = run[r].fixture.mint
  OBVIOUS
<1>1. pc[r] = "authenticate" /\ RunStep(r)
  BY DEF Authenticate, Running, RunStep
<1>2. /\ m \in Mints /\ run[r].fixture = OwnFixture(m) /\ run'[r].fixture = run[r].fixture
      /\ UNCHANGED <<clock, attestation, drawn, made, specific, mint, files>>
      /\ "MINT" \in spoiled'[m] <=> "MINT" \in spoiled[m]
      /\ spoiled[m] \subseteq spoiled'[m]
  BY <1>0, <1>1, RunStepFrame
<1>02. run[r].fixture.envelope = mint[m].envelope
  BY <1>2 DEF OwnFixture
<1>3. CASE Answerable(envelope) /\ envelope.matches
  <2>1. pc'[r] = "attest"
    BY <1>3 DEF Authenticate, Goes, Context, TypeInv, TypeOK
  <2>2. RunKnows(r)'
    BY <2>1 DEF RunKnows, StagesDone, RunMeasured, Judged, ToCapture, ToHash, ToCompare, ToSynthesise,
                ToMeasure, ToSimulate, ToSbom, ToTwin, ToAi, ToBind, ToEm, ToTiming
  <2>3. ASSUME "MINT" \notin spoiled[m]
        PROVE  RunFollows(r, m)'
    <3>1. Published(m) /\ fixture = run[r].fixture
      BY <1>0, <1>1, <2>3 DEF RunSound, RunFollows
    <3>2. Published(m)' /\ fixture' = run'[r].fixture
      BY <1>2, <3>1 DEF Published, files
    <3>. QED
      BY <2>1, <3>2 DEF RunFollows, ToCheck, ToCapture, ToHash, ToCompare, ToSynthesise, ToMeasure,
                        ToSimulate, ToSbom, ToTwin, ToAi, ToBind, ToEm, ToTiming
  <2>. QED  BY <1>0, <1>1, <2>1, <2>2, <2>3, GoesOnSound
<1>4. CASE ~(Answerable(envelope) /\ envelope.matches)
  <2>1. Ends(r, "STOPPED", "puf", run[r]) /\ UNCHANGED spoiled
    BY <1>4 DEF Authenticate
  <2>2. pc'[r] = "ended" /\ run'[r].stage = "puf"
    BY <2>1, EndsTo DEF Context, TypeInv, Shaped
  <2>3. ASSUME "MINT" \notin spoiled[m], mint[m].envelope.matches
        PROVE  "ANSWERED" \in spoiled[m] \/ clock > mint[m].envelope.issued + ChallengeTtl
    <3>1. EnvelopeKnown(m)
      BY <1>0, <1>1, <2>3, RunFinds DEF Evident
    <3>2. envelope = mint[m].envelope
      BY <1>02
    <3>3. profile = envelope.enrolment /\ envelope.issued = mint[m].envelope.issued /\ envelope.by = m
      BY <3>1, <3>2 DEF EnvelopeKnown
    <3>4. envelope \in answered \/ ~(clock - envelope.issued <= ChallengeTtl)
      BY <1>4, <2>3, <3>2, <3>3 DEF Answerable
    <3>5. CASE envelope \in answered
      BY <2>3, <3>3, <3>5 DEF Context, AnsweredOwn
    <3>6. CASE ~(clock - envelope.issued <= ChallengeTtl)
      <4>1. clock \in Nat
        BY ProcessesApart DEF Context, TypeInv, TypeOK
      <4>2. ChallengeTtl \in Nat
        BY MeasuresSound DEF MeasuresSound
      <4>3. envelope.issued \in 0..clock
        BY <3>1, <3>3 DEF EnvelopeKnown
      <4>. HIDE DEF envelope
      <4>. QED  BY <3>3, <3>6, <4>1, <4>2, <4>3
    <3>. QED  BY <3>4, <3>5, <3>6
  <2>4. Caused(r)'
    BY <1>0, <1>2, <2>1, <2>2, <2>3 DEF Caused
  <2>. QED  BY <1>1, <2>2, <2>4, EndsSound DEF Accounted
<1>. QED  BY <1>3, <1>4

LEMMA VerifiesSound ==
  ASSUME AdmitsMinted, Context, NEW r \in Runs, RunSound(r), Verifies(r)
  PROVE  RunSound(r)' /\ Accounted(r)'
<1>0. PICK m : m = run[r].fixture.mint
  OBVIOUS
<1>1. /\ pc[r] \in {"attest", "check", "lock", "counter"} /\ RunStep(r)
      /\ pc'[r] \in {"check", "lock", "counter", "store", "rejected"}
      /\ pc[r] # "attest" => held' = held
      /\ UNCHANGED <<run, spoiled>>
  BY DEF Verifies, ReadAttestation, CheckAttestation, LockReplay, ReadCounter, Goes, attested, counters,
         Context, TypeInv, TypeOK, Held, RunStep
<1>2. /\ m \in Mints /\ run'[r].fixture = run[r].fixture
      /\ UNCHANGED <<clock, attestation, drawn, made, specific, mint, files>>
  BY <1>0, <1>1, RunStepFrame
<1>3. RunKnows(r)'
  BY <1>1 DEF RunKnows, StagesDone, RunMeasured, Judged, ToCapture, ToHash, ToCompare, ToSynthesise,
              ToMeasure, ToSimulate, ToSbom, ToTwin, ToAi, ToBind, ToEm, ToTiming
<1>4. ASSUME "MINT" \notin spoiled[m]
      PROVE  RunFollows(r, m)'
  <2>1. Evident(m) /\ RunFollows(r, m)
    BY <1>0, <1>1, <1>4, RunFinds
  <2>2. Published(m)' /\ fixture' = run'[r].fixture
    BY <1>2, <2>1 DEF Published, files, RunFollows
  <2>3. held'[r] = made[m]
    <3>1. CASE ReadAttestation(r)
      BY <2>1, <3>1 DEF ReadAttestation, Evident, AttestationKnown, Context, TypeInv, Shaped
    <3>2. CASE ~ReadAttestation(r)
      <4>1. pc[r] \in {"check", "lock", "counter"} /\ held' = held
        BY <3>2 DEF Verifies, CheckAttestation, LockReplay, ReadCounter, attested
      <4>. QED  BY <2>1, <4>1 DEF RunFollows, ToCheck
    <3>. QED  BY <3>1, <3>2
  <2>4. pc'[r] = "rejected" => RefusedFor(m)'
    <3>. SUFFICES ASSUME pc'[r] = "rejected"
                  PROVE  RefusedFor(m)
      BY <1>1, <1>2 DEF RefusedFor
    <3>0. /\ made[m] = SignedAttestation(m, drawn[m], made[m].stamp) /\ made[m].stamp \in 0..clock
          /\ drawn[m] \in Nat \ {0} /\ ("ATTESTED" \in spoiled[m] \/ drawn[m] > replay)
          /\ clock \in Nat
      BY <2>1, ProcessesApart DEF Evident, AttestationKnown, Context, TypeInv, TypeOK
    <3>1. CASE CheckAttestation(r)
      <4>1. held[r] = made[m] /\ AttestationReasons(held[r], clock, Policy) # {}
        BY <1>1, <2>1, <3>1 DEF CheckAttestation, Goes, RunFollows, ToCheck, Context, TypeInv, TypeOK
      <4>2. ~(clock - made[m].stamp <= Policy.maximumAge)
        BY <3>0, <4>1, FreshAccepted
      <4>3. Policy.maximumAge \in Nat
        BY DEF AdmitsMinted
      <4>. QED  BY <3>0, <4>2, <4>3 DEF RefusedFor
    <3>2. CASE ReadCounter(r)
      <4>1. held[r] = made[m] /\ held[r].counter <= replay
        BY <1>1, <2>1, <3>2 DEF ReadCounter, Goes, RunFollows, ToCheck, Context, TypeInv, TypeOK
      <4>2. made[m].counter = drawn[m]
        BY <3>0 DEF SignedAttestation
      <4>3. replay \in Int
        BY DEF Context, TypeInv, TypeOK
      <4>. QED  BY <3>0, <4>1, <4>2, <4>3 DEF RefusedFor
    <3>3. CASE ReadAttestation(r) \/ LockReplay(r)
      BY <3>3 DEF ReadAttestation, LockReplay, Goes, Context, TypeInv, TypeOK
    <3>. QED  BY <3>1, <3>2, <3>3 DEF Verifies
  <2>. QED
    BY <1>1, <1>2, <2>2, <2>3, <2>4 DEF RunFollows, ToCheck, ToCapture, ToHash, ToCompare, ToSynthesise, ToMeasure,
                          ToSimulate, ToSbom, ToTwin, ToAi, ToBind, ToEm, ToTiming
<1>. QED  BY <1>0, <1>1, <1>3, <1>4, GoesOnSound

LEMMA RejectedSound ==
  ASSUME Context, NEW r \in Runs, RunSound(r), Rejected(r)
  PROVE  RunSound(r)' /\ Accounted(r)'
<1>0. PICK m : m = run[r].fixture.mint
  OBVIOUS
<1>1. pc[r] = "rejected" /\ RunStep(r) /\ Ends(r, "QUARANTINED", "opentitan", run[r]) /\ UNCHANGED spoiled
  BY DEF Rejected, Running, Held, RunStep
<1>2. /\ run'[r].fixture = run[r].fixture /\ UNCHANGED <<clock, made>>
  BY <1>0, <1>1, RunStepFrame
<1>3. pc'[r] = "ended" /\ run'[r].stage = "opentitan"
  BY <1>1, EndsTo DEF Context, TypeInv, Shaped
<1>4. "MINT" \in spoiled[m] \/ "ATTESTED" \in spoiled[m] \/ clock > made[m].stamp + Policy.maximumAge
  BY <1>0, <1>1 DEF RunSound, RunFollows, RefusedFor
<1>5. Caused(r)'
  BY <1>0, <1>1, <1>2, <1>3, <1>4 DEF Caused
<1>. QED  BY <1>1, <1>3, <1>5, EndsSound DEF Accounted

LEMMA AcceptedSound ==
  ASSUME Context, NEW r \in Runs, RunSound(r), Accepted(r)
  PROVE  RunSound(r)' /\ Accounted(r)'
<1>0. PICK m : m = run[r].fixture.mint
  OBVIOUS
<1>1. /\ pc[r] = "store" /\ pc'[r] = "capture" /\ RunStep(r) /\ held' = held
      /\ run'[r] = [run[r] EXCEPT !.completed = {"opentitan"}]
  BY DEF Accepted, StoreCounter, Ran, Goes, RunStep, Context, TypeInv, TypeOK, Shaped
<1>2. /\ run'[r].fixture = run[r].fixture
      /\ UNCHANGED <<clock, attestation, drawn, made, specific, mint, files>>
  BY <1>0, <1>1, RunStepFrame
<1>3. run'[r].completed = {"opentitan"}
  BY <1>1 DEF Context, TypeInv, Shaped, RunFields
<1>4. RunKnows(r)'
  BY <1>1, <1>3 DEF RunKnows, StagesDone, RunMeasured, Judged, ToCapture, ToHash, ToCompare, ToSynthesise,
                    ToMeasure, ToSimulate, ToSbom, ToTwin, ToAi, ToBind, ToEm, ToTiming
<1>5. ASSUME "MINT" \notin spoiled[m]
      PROVE  RunFollows(r, m)'
  <2>1. RunFollows(r, m)
    BY <1>0, <1>1, <1>5 DEF RunSound
  <2>2. Published(m)' /\ fixture' = run'[r].fixture
    BY <1>2, <2>1 DEF Published, files, RunFollows
  <2>3. held'[r] = made[m]
    BY <1>1, <2>1 DEF RunFollows, ToCheck
  <2>. QED
    BY <1>1, <1>2, <2>2, <2>3 DEF RunFollows, ToCheck, ToCapture, ToHash, ToCompare, ToSynthesise, ToMeasure,
                          ToSimulate, ToSbom, ToTwin, ToAi, ToBind, ToEm, ToTiming
<1>. QED  BY <1>0, <1>1, <1>4, <1>5, GoesOnSound

(* Where the trace files are opened, what for, and what comes next.        *)
Openings ==
  {<<"capture", "capture", "side_channel_trace", "hash">>,
   <<"hash", "compared", "side_channel_trace", "compare">>,
   <<"ai", "power", "side_channel_trace", "bind">>,
   <<"bind", "bound", "side_channel_trace", "em">>,
   <<"em", "em", "ai_em_trace", "timing">>}

LEMMA OpenSound ==
  ASSUME Context, NEW r \in Runs, RunSound(r), OpenTrace(r)
  PROVE  RunSound(r)' /\ Accounted(r)'
<1>0. PICK m : m = run[r].fixture.mint
  OBVIOUS
<1>00. PICK step, field, channel, next :
         /\ <<step, field, channel, next>> \in Openings
         /\ Opened(r, step, field, channel, next)
  <2>1. CASE CaptureTrace(r)
    <3>1. /\ <<"capture", "capture", "side_channel_trace", "hash">> \in Openings
          /\ Opened(r, "capture", "capture", "side_channel_trace", "hash")
      BY <2>1 DEF CaptureTrace, Openings
    <3>. QED  BY <3>1, Zenon
  <2>2. CASE HashCapture(r)
    <3>1. /\ <<"hash", "compared", "side_channel_trace", "compare">> \in Openings
          /\ Opened(r, "hash", "compared", "side_channel_trace", "compare")
      BY <2>2 DEF HashCapture, Openings
    <3>. QED  BY <3>1, Zenon
  <2>3. CASE ReadPower(r)
    <3>1. /\ <<"ai", "power", "side_channel_trace", "bind">> \in Openings
          /\ Opened(r, "ai", "power", "side_channel_trace", "bind")
      BY <2>3 DEF ReadPower, Openings
    <3>. QED  BY <3>1, Zenon
  <2>4. CASE HashPower(r)
    <3>1. /\ <<"bind", "bound", "side_channel_trace", "em">> \in Openings
          /\ Opened(r, "bind", "bound", "side_channel_trace", "em")
      BY <2>4 DEF HashPower, Openings
    <3>. QED  BY <3>1, Zenon
  <2>5. CASE ReadEm(r)
    <3>1. /\ <<"em", "em", "ai_em_trace", "timing">> \in Openings
          /\ Opened(r, "em", "em", "ai_em_trace", "timing")
      BY <2>5 DEF ReadEm, Openings
    <3>. QED  BY <3>1, Zenon
  <2>. QED  BY <2>1, <2>2, <2>3, <2>4, <2>5 DEF OpenTrace
<1>. DEFINE trace == traces[channel]
            state == [run[r] EXCEPT ![field] = trace]
<1>01. /\ step # "idle" /\ next # "ended" /\ field \in RunFields
       /\ field \in {"capture", "compared", "power", "bound", "em"}
  BY <1>00 DEF Openings, RunFields
<1>1. pc[r] = step /\ pc'[r] = next /\ RunStep(r) /\ held' = held /\ run'[r] = state
  BY <1>00 DEF Opened, Running, Ran, Goes, RunStep, attested, Context, TypeInv, TypeOK, Shaped
<1>2. /\ run'[r].fixture = run[r].fixture
      /\ UNCHANGED <<clock, attestation, drawn, made, specific, mint, files>>
  BY <1>0, <1>01, <1>1, RunStepFrame
<1>. HIDE DEF trace
<1>3. /\ run'[r][field] = trace
      /\ \A other \in RunFields \ {field} : run'[r][other] = run[r][other]
  BY <1>01, <1>1 DEF Context, TypeInv, Shaped
<1>. HIDE DEF state
<1>03. /\ run'[r].completed = run[r].completed /\ run'[r].netlist = run[r].netlist
       /\ run'[r].digest = run[r].digest /\ run'[r].ratio = run[r].ratio
       /\ run'[r].output = run[r].output /\ run'[r].sbom = run[r].sbom
  BY <1>01, <1>3 DEF RunFields
<1>. USE DEF ToCheck, ToCapture, ToHash, ToCompare, ToSynthesise, ToMeasure, ToSimulate, ToSbom, ToTwin, ToAi, ToBind, ToEm, ToTiming
<1>4. RunKnows(r)'
  <2>1. RunKnows(r) /\ next \notin {"models", "comply"}
    BY <1>00 DEF RunSound, Openings
  <2>2. StagesDone(r)'
    BY <1>00, <1>1, <1>03, <2>1 DEF Openings, RunKnows, StagesDone
  <2>3. RunMeasured(r)'
    BY <1>00, <1>1, <1>03, <2>1 DEF Openings, RunKnows, RunMeasured
  <2>4. Judged(r)'
    BY <1>1, <2>1 DEF Judged
  <2>. QED  BY <2>2, <2>3, <2>4 DEF RunKnows
<1>5. ASSUME "MINT" \notin spoiled[m]
      PROVE  RunFollows(r, m)'
  <2>1. RunFollows(r, m)
    BY <1>0, <1>01, <1>1, <1>5 DEF RunSound
  <2>2. Published(m)' /\ fixture' = run'[r].fixture
    BY <1>2, <2>1 DEF Published, files, RunFollows
  <2>3. held'[r] = made[m] /\ next # "rejected"
    BY <1>00, <1>1, <2>1 DEF RunFollows, Openings
  <2>4. /\ next \in ToHash => run'[r].capture = traces["side_channel_trace"]
        /\ next \in ToCompare => run'[r].compared = traces["side_channel_trace"]
        /\ next \in ToBind => run'[r].power = traces["side_channel_trace"]
        /\ next \in ToEm => run'[r].bound = traces["side_channel_trace"]
        /\ next \in ToTiming => run'[r].em = traces["ai_em_trace"]
    <3>. USE <1>1, <1>3, <2>1 DEF RunFollows, RunFields, trace
    <3>1. CASE step = "capture"
      <4>1. field = "capture" /\ channel = "side_channel_trace" /\ next = "hash"
        BY <1>00, <3>1 DEF Openings
      <4>. QED  BY <3>1, <4>1
    <3>2. CASE step = "hash"
      <4>1. field = "compared" /\ channel = "side_channel_trace" /\ next = "compare"
        BY <1>00, <3>2 DEF Openings
      <4>. QED  BY <3>2, <4>1
    <3>3. CASE step = "ai"
      <4>1. field = "power" /\ channel = "side_channel_trace" /\ next = "bind"
        BY <1>00, <3>3 DEF Openings
      <4>. QED  BY <3>3, <4>1
    <3>4. CASE step = "bind"
      <4>1. field = "bound" /\ channel = "side_channel_trace" /\ next = "em"
        BY <1>00, <3>4 DEF Openings
      <4>. QED  BY <3>4, <4>1
    <3>5. CASE step = "em"
      <4>1. field = "em" /\ channel = "ai_em_trace" /\ next = "timing"
        BY <1>00, <3>5 DEF Openings
      <4>. QED  BY <3>5, <4>1
    <3>. QED  BY <1>00, <3>1, <3>2, <3>3, <3>4, <3>5 DEF Openings
  <2>5. Unedited(m)' =>
          /\ next \in ToMeasure => run'[r].netlist = rtl
          /\ next \in ToSimulate => run'[r].digest = rtl
          /\ next \in ToSbom => run'[r].output = Design[rtl].output
          /\ next \in ToTwin => run'[r].sbom = DocumentDigest("chip", Artifacts)
    <3>1. Unedited(m)' => Unedited(m)
      BY <1>0, <1>01, <1>1, RunStepFrame DEF Unedited
    <3>2. /\ next \in ToMeasure => step \in ToMeasure
          /\ next \in ToSimulate => step \in ToSimulate
          /\ next \in ToSbom => step \in ToSbom
          /\ next \in ToTwin => step \in ToTwin
      BY <1>00 DEF Openings
    <3>. QED  BY <1>1, <1>03, <2>1, <3>1, <3>2 DEF RunFollows
  <2>6. traces' = traces /\ rtl' = rtl /\ DocumentDigest("chip", Artifacts)' = DocumentDigest("chip", Artifacts)
    BY <1>2 DEF files, DocumentDigest, Artifacts
  <2>7. made'[m] = made[m]
    BY <1>2
  <2>. QED  BY <1>1, <2>2, <2>3, <2>4, <2>5, <2>6, <2>7 DEF RunFollows
<1>. QED  BY <1>0, <1>01, <1>1, <1>4, <1>5, GoesOnSound

LEMMA CompareSound ==
  ASSUME AdmitsMinted, Context, NEW r \in Runs, RunSound(r), CompareTraces(r)
  PROVE  RunSound(r)' /\ Accounted(r)'
<1>. DEFINE reference == traces["side_channel_reference"]
            foreign   == {t \in {run[r].capture, reference} : ~SourceAllowed(t, Policy)}
            unlike    == TraceReasons(Likeness[run[r].capture.metrics, reference.metrics], Policy)
            reasons   == foreign \cup unlike
<1>0. PICK m : m = run[r].fixture.mint
  OBVIOUS
<1>1. pc[r] = "compare" /\ RunStep(r) /\ held' = held /\ UNCHANGED spoiled
  BY Zenon DEF CompareTraces, Running, Held, RunStep, attested
<1>2. /\ run'[r].fixture = run[r].fixture
      /\ UNCHANGED <<clock, attestation, drawn, made, specific, mint, files>>
  BY <1>0, <1>1, RunStepFrame
<1>3. Concludes(r, "chipwhisperer", reasons, "synthesise", run[r])
  BY Zenon DEF CompareTraces
<1>4. DOMAIN run[r] = RunFields
  BY DEF Context, TypeInv, Shaped
<1>. HIDE DEF reasons
<1>5. CASE reasons = {}
  <2>1. /\ pc'[r] = "synthesise" /\ run'[r].completed = run[r].completed \cup {"chipwhisperer"}
        /\ run'[r].capture = run[r].capture /\ run'[r].compared = run[r].compared
    BY <1>3, <1>4, <1>5, ConcludesTo DEF Context, Same
  <2>. USE DEF ToCheck, ToCapture, ToHash, ToCompare, ToSynthesise, ToMeasure, ToSimulate, ToSbom, ToTwin, ToAi, ToBind, ToEm, ToTiming
  <2>2. RunKnows(r)'
    BY <1>1, <2>1 DEF RunSound, RunKnows, StagesDone, RunMeasured, Judged
  <2>3. ASSUME "MINT" \notin spoiled[m]
        PROVE  RunFollows(r, m)'
    <3>1. RunFollows(r, m)
      BY <1>0, <1>1, <2>3 DEF RunSound
    <3>2. Published(m)' /\ fixture' = run'[r].fixture
      BY <1>2, <3>1 DEF Published, files, RunFollows
    <3>3. held'[r] = made[m]
      BY <1>1, <3>1 DEF RunFollows
    <3>. QED  BY <1>1, <1>2, <2>1, <3>1, <3>2, <3>3 DEF RunFollows, files
  <2>. QED  BY <1>0, <1>1, <2>1, <2>2, <2>3, GoesOnSound
<1>6. CASE reasons # {}
  <2>1. pc'[r] = "ended" /\ run'[r].stage = "chipwhisperer"
    BY <1>3, <1>4, <1>6, ConcludesTo DEF Context
  <2>2. ASSUME "MINT" \notin spoiled[m]
        PROVE  Objectionable(m)
    <3>1. Evident(m) /\ RunFollows(r, m)
      BY <1>0, <1>1, <2>2, RunFinds
    <3>2. /\ traces["side_channel_trace"] = OwnTrace(m, "side_channel_trace")
          /\ reference = OwnTrace(m, "side_channel_reference")
          /\ run[r].capture = traces["side_channel_trace"]
      BY <1>1, <3>1 DEF Evident, RunFollows, ToHash, ToCompare, ChannelSet, Channels
    <3>3. /\ run[r].capture.metrics = mint[m].netlist /\ reference.metrics = mint[m].reference
          /\ run[r].capture.source = "SIMULATED_TRACE" /\ reference.source = "SIMULATED_TRACE"
      BY <3>2 DEF OwnTrace, Trace
    <3>. HIDE DEF reference
    <3>4. foreign = {}
      BY <3>3 DEF SourceAllowed, AdmitsMinted
    <3>5. TraceReasons(Likeness[mint[m].netlist, mint[m].reference], Policy) # {}
      BY <1>6, <3>3, <3>4 DEF reasons
    <3>. QED  BY <3>5 DEF Objectionable
  <2>3. Objectionable(m)' <=> Objectionable(m)
    BY <1>2 DEF Objectionable
  <2>4. Caused(r)'
    BY <1>0, <1>1, <1>2, <2>1, <2>2, <2>3 DEF Caused
  <2>. QED  BY <1>1, <2>1, <2>4, EndsSound DEF Accounted
<1>. QED  BY <1>5, <1>6

LEMMA SynthesiseSound ==
  ASSUME Context, NEW r \in Runs, RunSound(r), Synthesise(r)
  PROVE  RunSound(r)' /\ Accounted(r)'
<1>. DEFINE state == [run[r] EXCEPT !.netlist = rtl]
<1>0. PICK m : m = run[r].fixture.mint
  OBVIOUS
<1>1. /\ pc[r] = "synthesise" /\ pc'[r] = "measure" /\ RunStep(r) /\ held' = held /\ run'[r] = state
      /\ rtl \in Designs /\ UNCHANGED spoiled
  BY DEF Synthesise, Running, Held, Ran, Goes, RunStep, attested, Context, TypeInv, TypeOK, Shaped
<1>2. /\ run'[r].fixture = run[r].fixture
      /\ UNCHANGED <<clock, attestation, drawn, made, specific, mint, files>>
  BY <1>0, <1>1, RunStepFrame
<1>3. run'[r].completed = run[r].completed /\ run'[r].netlist = rtl
      /\ run'[r].compared = run[r].compared /\ run'[r].capture = run[r].capture
  BY <1>1 DEF Context, TypeInv, Shaped, RunFields
<1>. HIDE DEF state
<1>. USE DEF ToCheck, ToCapture, ToHash, ToCompare, ToSynthesise, ToMeasure, ToSimulate, ToSbom, ToTwin, ToAi, ToBind, ToEm, ToTiming
<1>4. RunKnows(r)'
  BY <1>1, <1>3 DEF RunSound, RunKnows, StagesDone, RunMeasured, Judged
<1>5. ASSUME "MINT" \notin spoiled[m]
      PROVE  RunFollows(r, m)'
  <2>1. RunFollows(r, m)
    BY <1>0, <1>1, <1>5 DEF RunSound
  <2>2. Published(m)' /\ fixture' = run'[r].fixture
    BY <1>2, <2>1 DEF Published, files, RunFollows
  <2>3. held'[r] = made[m]
    BY <1>1, <2>1 DEF RunFollows
  <2>. QED  BY <1>1, <1>2, <1>3, <2>1, <2>2, <2>3 DEF RunFollows, files
<1>. QED  BY <1>0, <1>1, <1>4, <1>5, GoesOnSound

LEMMA MeasureSound ==
  ASSUME Context, NEW r \in Runs, RunSound(r), MeasureNetlist(r)
  PROVE  RunSound(r)' /\ Accounted(r)'
<1>. DEFINE metrics   == Design[run[r].netlist].metrics
            reference == Design[ReferenceRtl].metrics
            ratio     == DeltaRatio(reference, metrics)
            departs   == StructuralReasons(reference, metrics, Policy)
            reasons   == YosysReasons(metrics, Policy)
            state     == [run[r] EXCEPT !.digest = rtl, !.ratio = ratio, !.departs = departs]
<1>0. PICK m : m = run[r].fixture.mint
  OBVIOUS
<1>1. pc[r] = "measure" /\ RunStep(r) /\ held' = held /\ UNCHANGED spoiled
  BY DEF MeasureNetlist, Running, Held, RunStep, attested
<1>2. /\ run'[r].fixture = run[r].fixture
      /\ UNCHANGED <<clock, attestation, drawn, made, specific, mint, files>>
  BY <1>0, <1>1, RunStepFrame
<1>3. Concludes(r, "yosys", reasons, "simulate", state)
  BY Zenon DEF MeasureNetlist
<1>4. run[r].netlist \in Designs /\ ReferenceRtl \in Designs
  BY <1>1, ProcessesApart
     DEF RunSound, RunKnows, RunMeasured, ToMeasure, Context, TypeInv, TypeOK, ReferenceRtl
<1>5. ratio \in Ratios
  <2>1. metrics.cells \in Int /\ reference.cells \in Int
    BY <1>4, MeasuresSound DEF MeasuresSound
  <2>. QED  BY <2>1, DeltaIsRatio
<1>. HIDE DEF ratio, departs, reasons
<1>6. /\ DOMAIN state = RunFields /\ state.completed = run[r].completed /\ state.netlist = run[r].netlist
      /\ state.ratio = ratio /\ state.digest = rtl /\ state.compared = run[r].compared
      /\ state.capture = run[r].capture
  BY DEF Context, TypeInv, Shaped, RunFields
<1>. HIDE DEF state
<1>7. CASE reasons = {}
  <2>1. /\ pc'[r] = "simulate" /\ run'[r].completed = run[r].completed \cup {"yosys"}
        /\ run'[r].netlist = run[r].netlist /\ run'[r].ratio = ratio /\ run'[r].digest = rtl
        /\ run'[r].compared = run[r].compared /\ run'[r].capture = run[r].capture
    BY <1>3, <1>6, <1>7, ConcludesTo DEF Context, Same
  <2>. USE DEF ToCheck, ToCapture, ToHash, ToCompare, ToSynthesise, ToMeasure, ToSimulate, ToSbom, ToTwin, ToAi, ToBind, ToEm, ToTiming
  <2>2. RunKnows(r)'
    BY <1>1, <1>4, <1>5, <2>1 DEF RunSound, RunKnows, StagesDone, RunMeasured, Judged
  <2>3. ASSUME "MINT" \notin spoiled[m]
        PROVE  RunFollows(r, m)'
    <3>1. RunFollows(r, m)
      BY <1>0, <1>1, <2>3 DEF RunSound
    <3>2. Published(m)' /\ fixture' = run'[r].fixture
      BY <1>2, <3>1 DEF Published, files, RunFollows
    <3>3. held'[r] = made[m]
      BY <1>1, <3>1 DEF RunFollows
    <3>. QED  BY <1>1, <1>2, <2>1, <3>1, <3>2, <3>3 DEF RunFollows, files, Unedited
  <2>. QED  BY <1>0, <1>1, <2>1, <2>2, <2>3, GoesOnSound
<1>8. CASE reasons # {}
  <2>1. pc'[r] = "ended" /\ run'[r].stage = "yosys"
    BY <1>3, <1>6, <1>8, ConcludesTo DEF Context
  <2>2. ASSUME "MINT" \notin spoiled[m], "EDIT" \notin spoiled[m]
        PROVE  Objectionable(m)
    <3>1. Evident(m) /\ RunFollows(r, m)
      BY <1>0, <1>1, <2>2, RunFinds
    <3>2. run[r].netlist = mint[m].netlist
      BY <1>1, <2>2, <3>1 DEF Evident, DesignKnown, RunFollows, Unedited, ToMeasure
    <3>3. YosysReasons(Design[mint[m].netlist].metrics, Policy) # {}
      BY <1>8, <3>2 DEF reasons
    <3>. QED  BY <3>3 DEF Objectionable
  <2>3. Objectionable(m)' <=> Objectionable(m)
    BY <1>2 DEF Objectionable
  <2>4. Caused(r)'
    BY <1>0, <1>1, <1>2, <2>1, <2>2, <2>3 DEF Caused
  <2>. QED  BY <1>1, <2>1, <2>4, EndsSound DEF Accounted
<1>. QED  BY <1>7, <1>8

LEMMA SimulateSound ==
  ASSUME Context, NEW r \in Runs, RunSound(r), Simulate(r)
  PROVE  RunSound(r)' /\ Accounted(r)'
<1>. DEFINE output  == Design[rtl].output
            reasons == VerilatorReasons(output)
            state   == [run[r] EXCEPT !.output = output]
<1>0. PICK m : m = run[r].fixture.mint
  OBVIOUS
<1>1. pc[r] = "simulate" /\ RunStep(r) /\ held' = held /\ UNCHANGED spoiled
  BY DEF Simulate, Running, Held, RunStep, attested
<1>2. /\ run'[r].fixture = run[r].fixture
      /\ UNCHANGED <<clock, attestation, drawn, made, specific, mint, files>>
  BY <1>0, <1>1, RunStepFrame
<1>3. Concludes(r, "verilator", reasons, "sbom", state)
  BY Zenon DEF Simulate
<1>4. rtl \in Designs
  BY DEF Context, TypeInv, TypeOK
<1>5. output = Design[rtl].output /\ \E d \in Designs : output = Design[d].output
  BY <1>4
<1>. HIDE DEF output
<1>6. /\ DOMAIN state = RunFields /\ state.completed = run[r].completed /\ state.netlist = run[r].netlist
      /\ state.ratio = run[r].ratio /\ state.digest = run[r].digest /\ state.compared = run[r].compared
      /\ state.capture = run[r].capture
      /\ state.output = output
  BY DEF Context, TypeInv, Shaped, RunFields
<1>. HIDE DEF state, reasons
<1>7. CASE reasons = {}
  <2>1. /\ pc'[r] = "sbom" /\ run'[r].completed = run[r].completed \cup {"verilator"}
        /\ run'[r].netlist = run[r].netlist /\ run'[r].ratio = run[r].ratio
        /\ run'[r].digest = run[r].digest /\ run'[r].compared = run[r].compared
        /\ run'[r].capture = run[r].capture /\ run'[r].output = output
    BY <1>3, <1>6, <1>7, ConcludesTo DEF Context, Same
  <2>. USE DEF ToCheck, ToCapture, ToHash, ToCompare, ToSynthesise, ToMeasure, ToSimulate, ToSbom, ToTwin, ToAi, ToBind, ToEm, ToTiming
  <2>2. RunKnows(r)'
    <3>1. VerilatorReasons(run'[r].output) = {}
      BY <1>7, <2>1 DEF reasons
    <3>. QED  BY <1>1, <1>5, <2>1, <3>1 DEF RunSound, RunKnows, StagesDone, RunMeasured, Judged
  <2>3. ASSUME "MINT" \notin spoiled[m]
        PROVE  RunFollows(r, m)'
    <3>1. RunFollows(r, m)
      BY <1>0, <1>1, <2>3 DEF RunSound
    <3>2. Published(m)' /\ fixture' = run'[r].fixture
      BY <1>2, <3>1 DEF Published, files, RunFollows
    <3>3. held'[r] = made[m]
      BY <1>1, <3>1 DEF RunFollows
    <3>. QED  BY <1>1, <1>2, <1>5, <2>1, <3>1, <3>2, <3>3 DEF RunFollows, files, Unedited
  <2>. QED  BY <1>0, <1>1, <2>1, <2>2, <2>3, GoesOnSound
<1>8. CASE reasons # {}
  <2>1. pc'[r] = "ended" /\ run'[r].stage = "verilator"
    BY <1>3, <1>6, <1>8, ConcludesTo DEF Context
  <2>2. ASSUME "MINT" \notin spoiled[m], "EDIT" \notin spoiled[m]
        PROVE  Objectionable(m)
    <3>1. Evident(m)
      BY <1>0, <1>1, <2>2, RunFinds
    <3>2. rtl = mint[m].netlist
      BY <2>2, <3>1 DEF Evident, DesignKnown, Unedited
    <3>3. VerilatorReasons(Design[mint[m].netlist].output) # {}
      BY <1>8, <3>2 DEF reasons, output
    <3>. QED  BY <3>3 DEF Objectionable
  <2>3. Objectionable(m)' <=> Objectionable(m)
    BY <1>2 DEF Objectionable
  <2>4. Caused(r)'
    BY <1>0, <1>1, <1>2, <2>1, <2>2, <2>3 DEF Caused
  <2>. QED  BY <1>1, <2>1, <2>4, EndsSound DEF Accounted
<1>. QED  BY <1>7, <1>8

LEMMA SbomSound ==
  ASSUME Context, NEW r \in Runs, RunSound(r), GenerateSbom(r)
  PROVE  RunSound(r)' /\ Accounted(r)'
<1>. DEFINE digest == DocumentDigest("chip", Artifacts)
            state  == [run[r] EXCEPT !.sbom = digest]
<1>0. PICK m : m = run[r].fixture.mint
  OBVIOUS
<1>1. pc[r] = "sbom" /\ RunStep(r) /\ held' = held /\ UNCHANGED spoiled
  BY DEF GenerateSbom, Running, Held, RunStep, attested
<1>2. /\ run'[r].fixture = run[r].fixture
      /\ UNCHANGED <<clock, attestation, drawn, made, specific, mint, files>>
  BY <1>0, <1>1, RunStepFrame
<1>3. Concludes(r, "sbom", {}, "twin", state)
  BY Zenon DEF GenerateSbom
<1>. HIDE DEF digest
<1>4. /\ DOMAIN state = RunFields /\ state.completed = run[r].completed /\ state.netlist = run[r].netlist
      /\ state.ratio = run[r].ratio /\ state.digest = run[r].digest /\ state.compared = run[r].compared
      /\ state.capture = run[r].capture
      /\ state.output = run[r].output /\ state.sbom = digest
  BY DEF Context, TypeInv, Shaped, RunFields
<1>. HIDE DEF state
<1>5. /\ pc'[r] = "twin" /\ run'[r].completed = run[r].completed \cup {"sbom"}
      /\ run'[r].netlist = run[r].netlist /\ run'[r].ratio = run[r].ratio
      /\ run'[r].digest = run[r].digest /\ run'[r].compared = run[r].compared
      /\ run'[r].capture = run[r].capture
      /\ run'[r].output = run[r].output /\ run'[r].sbom = digest
  BY <1>3, <1>4, ConcludesTo DEF Context, Same
<1>. USE DEF ToCheck, ToCapture, ToHash, ToCompare, ToSynthesise, ToMeasure, ToSimulate, ToSbom, ToTwin, ToAi, ToBind, ToEm, ToTiming
<1>6. RunKnows(r)'
  BY <1>1, <1>5 DEF RunSound, RunKnows, StagesDone, RunMeasured, Judged
<1>7. ASSUME "MINT" \notin spoiled[m]
      PROVE  RunFollows(r, m)'
  <2>1. RunFollows(r, m)
    BY <1>0, <1>1, <1>7 DEF RunSound
  <2>2. Published(m)' /\ fixture' = run'[r].fixture
    BY <1>2, <2>1 DEF Published, files, RunFollows
  <2>3. held'[r] = made[m]
    BY <1>1, <2>1 DEF RunFollows
  <2>4. run'[r].sbom = DocumentDigest("chip", Artifacts)'
    BY <1>2, <1>5 DEF digest, files, DocumentDigest, Artifacts
  <2>. QED  BY <1>1, <1>2, <1>5, <2>1, <2>2, <2>3, <2>4 DEF RunFollows, files, Unedited
<1>. QED  BY <1>0, <1>1, <1>5, <1>6, <1>7, GoesOnSound

(* What a run has measured of a chip nobody touched is its twin.           *)
LEMMA MeasuresOwnTwin ==
  ASSUME NEW r \in Runs, NEW m \in Mints, run[r].fixture = OwnFixture(m), Evident(m), RunFollows(r, m),
         pc[r] = "twin", Unedited(m)
  PROVE  Measured(r) = OwnTwin(m)
<1>1. /\ run[r].netlist = rtl /\ run[r].digest = rtl /\ held[r] = made[m]
      /\ run[r].sbom = DocumentDigest("chip", Artifacts)
  BY DEF RunFollows, ToCheck, ToCapture, ToHash, ToCompare, ToSynthesise, ToMeasure, ToSimulate, ToSbom, ToTwin,
         ToAi, ToBind, ToEm, ToTiming
<1>2. /\ mint[m].netlist = rtl /\ mint[m].digest = rtl /\ mint[m].sbom = DocumentDigest("chip", Artifacts)
  BY DEF Evident, DesignKnown
<1>3. held[r].firmware = "simulated"
  <2>1. made[m] = SignedAttestation(m, drawn[m], made[m].stamp)
    BY DEF Evident, AttestationKnown
  <2>. QED  BY <1>1, <2>1 DEF SignedAttestation
<1>4. run[r].fixture.identity = m
  BY DEF OwnFixture
<1>. QED  BY <1>1, <1>2, <1>3, <1>4 DEF Measured, OwnTwin

LEMMA OwnTwinMatches ==
  ASSUME NEW m \in Mints, Evident(m)
  PROVE  OwnTwin(m) # NONE /\ TwinReasons(OwnTwin(m), OwnTwin(m), Fields) = {}
<1>1. OwnTwin(m) \in Twins
  BY DEF Evident, DesignKnown, OwnTwin, Twins
<1>2. OwnTwin(m) # NONE
  BY <1>1, MeasuresSound DEF MeasuresSound
<1>3. Fields \subseteq DOMAIN OwnTwin(m)
  BY ConfigurationSound DEF ConfigurationSound, FieldsSound, TwinAttributes, OwnTwin
<1>4. Fields \ DOMAIN OwnTwin(m) = {} /\ {f \in Fields \cap DOMAIN OwnTwin(m) : OwnTwin(m)[f] # OwnTwin(m)[f]} = {}
  BY <1>3
<1>. QED  BY <1>2, <1>4 DEF TwinReasons

LEMMA TwinSound ==
  ASSUME Context, NEW r \in Runs, RunSound(r), VerifyTwin(r)
  PROVE  RunSound(r)' /\ Accounted(r)'
<1>. DEFINE reasons == IF twin = NONE THEN {"NO_TWIN"} ELSE TwinReasons(twin, Measured(r), Fields)
<1>0. PICK m : m = run[r].fixture.mint
  OBVIOUS
<1>1. pc[r] = "twin" /\ RunStep(r) /\ held' = held /\ UNCHANGED spoiled
  BY DEF VerifyTwin, Running, Held, RunStep, attested
<1>2. /\ m \in Mints /\ run[r].fixture = OwnFixture(m) /\ run'[r].fixture = run[r].fixture
      /\ UNCHANGED <<clock, attestation, drawn, made, specific, mint, files>>
  BY <1>0, <1>1, RunStepFrame
<1>3. Concludes(r, "digital_twin", reasons, "ai", run[r]) /\ DOMAIN run[r] = RunFields
  BY DEF VerifyTwin, Context, TypeInv, Shaped
<1>4. CASE reasons = {}
  <2>. HIDE DEF reasons
  <2>1. /\ pc'[r] = "ai" /\ run'[r].completed = run[r].completed \cup {"digital_twin"}
        /\ run'[r].netlist = run[r].netlist /\ run'[r].ratio = run[r].ratio
        /\ run'[r].digest = run[r].digest /\ run'[r].compared = run[r].compared
        /\ run'[r].capture = run[r].capture
        /\ run'[r].output = run[r].output /\ run'[r].sbom = run[r].sbom
    BY <1>3, <1>4, ConcludesTo DEF Context, Same
  <2>. USE DEF ToCheck, ToCapture, ToHash, ToCompare, ToSynthesise, ToMeasure, ToSimulate, ToSbom, ToTwin, ToAi, ToBind, ToEm, ToTiming
  <2>2. RunKnows(r)'
    BY <1>1, <2>1 DEF RunSound, RunKnows, StagesDone, RunMeasured, Judged
  <2>3. ASSUME "MINT" \notin spoiled[m]
        PROVE  RunFollows(r, m)'
    <3>1. RunFollows(r, m)
      BY <1>0, <1>1, <2>3 DEF RunSound
    <3>2. Published(m)' /\ fixture' = run'[r].fixture
      BY <1>2, <3>1 DEF Published, files, RunFollows
    <3>3. held'[r] = made[m] /\ DocumentDigest("chip", Artifacts)' = DocumentDigest("chip", Artifacts)
      BY <1>1, <1>2, <3>1 DEF RunFollows, files, DocumentDigest, Artifacts
    <3>. QED  BY <1>1, <1>2, <2>1, <3>1, <3>2, <3>3 DEF RunFollows, files, Unedited
  <2>. QED  BY <1>0, <1>1, <2>1, <2>2, <2>3, GoesOnSound
<1>5. CASE reasons # {}
  <2>1. "MINT" \in spoiled[m] \/ "EDIT" \in spoiled[m]
    <3>. SUFFICES ASSUME "MINT" \notin spoiled[m], "EDIT" \notin spoiled[m]
                  PROVE  FALSE
      OBVIOUS
    <3>1. Evident(m) /\ RunFollows(r, m)
      BY <1>0, <1>1, RunFinds
    <3>2. Measured(r) = OwnTwin(m) /\ twin = OwnTwin(m)
      BY <1>1, <1>2, <3>1, MeasuresOwnTwin DEF Unedited, Evident
    <3>. QED  BY <1>2, <1>5, <3>1, <3>2, OwnTwinMatches
  <2>. HIDE DEF reasons
  <2>2. pc'[r] = "ended" /\ run'[r].stage = "digital_twin"
    BY <1>3, <1>5, ConcludesTo DEF Context
  <2>3. Caused(r)'
    BY <1>0, <1>1, <1>2, <2>1, <2>2 DEF Caused
  <2>. QED  BY <1>1, <2>2, <2>3, EndsSound DEF Accounted
<1>. QED  BY <1>4, <1>5

LEMMA BuildSound ==
  ASSUME AdmitsMinted, OneMint, Context, NEW r \in Runs, RunSound(r), BuildEvidence(r)
  PROVE  RunSound(r)' /\ Accounted(r)'
<1>. DEFINE hw      == Results(r)
            power   == run[r].power
            digest  == run[r].bound
            em      == run[r].em
            timing  == traces["ai_timing_trace"]
            refused == Refusals(hw, power, digest, em, timing, Authenticated, Schema)
            ai      == [evidence |-> Evidence(hw, power, em, timing, Authenticated),
                        controls |-> Controls(hw, Authenticated, Schema), decision |-> NONE]
            state   == [run[r] EXCEPT !.ai = ai]
<1>0. PICK m : m = run[r].fixture.mint
  OBVIOUS
<1>1. pc[r] = "timing" /\ RunStep(r) /\ held' = held /\ UNCHANGED spoiled
  BY DEF BuildEvidence, Running, Held, RunStep, attested
<1>2. /\ m \in Mints /\ run[r].fixture = OwnFixture(m) /\ run'[r].fixture = run[r].fixture
      /\ UNCHANGED <<clock, attestation, drawn, made, specific, mint, files>>
  BY <1>0, <1>1, RunStepFrame
<1>. USE DEF ToCheck, ToCapture, ToHash, ToCompare, ToSynthesise, ToMeasure, ToSimulate, ToSbom, ToTwin, ToAi, ToBind, ToEm, ToTiming
<1>3. CASE refused = {}
  <2>1. Goes(r, "models") /\ Ran(r, state)
    BY <1>3 DEF BuildEvidence
  <2>2. ai.evidence.quality \in Int
    BY QualityIsInt DEF Evidence
  <2>. HIDE DEF ai
  <2>3. pc'[r] = "models" /\ run'[r] = state
    BY <2>1 DEF Goes, Ran, Context, TypeInv, TypeOK, Shaped
  <2>4. state.ai = ai
    BY DEF Context, TypeInv, Shaped, RunFields
  <2>. HIDE DEF state
  <2>5. RunKnows(r)'
    BY <2>2, <2>3, <2>4 DEF RunKnows, StagesDone, RunMeasured, Judged
  <2>6. ASSUME "MINT" \notin spoiled[m]
        PROVE  RunFollows(r, m)'
    <3>1. Published(m) /\ fixture = run[r].fixture
      BY <1>0, <1>1, <2>6 DEF RunSound, RunFollows
    <3>2. Published(m)' /\ fixture' = run'[r].fixture
      BY <1>2, <3>1 DEF Published, files
    <3>. QED  BY <2>3, <3>2 DEF RunFollows
  <2>. QED  BY <1>0, <1>1, <2>3, <2>5, <2>6, GoesOnSound
<1>4. CASE refused # {}
  <2>1. Ends(r, "RAISED", "ai", run[r])
    BY <1>4 DEF BuildEvidence
  <2>2. pc'[r] = "ended" /\ run'[r].stage = "ai"
    BY <2>1, EndsTo DEF Context, TypeInv, Shaped
  <2>3. "MINT" \in spoiled[m]
    <3>. SUFFICES ASSUME "MINT" \notin spoiled[m]
                  PROVE  refused = {}
      BY <1>4
    <3>1. Evident(m) /\ RunFollows(r, m)
      BY <1>0, <1>1, RunFinds
    <3>2. StagesDone(r) /\ RunMeasured(r)
      BY DEF RunSound, RunKnows
    <3>3. Stages \subseteq hw.completed
      BY <1>1, <3>2 DEF StagesDone, Stages, Results
    <3>4. \A trace \in {power, em, timing} : trace.source = "SIMULATED_TRACE"
      <4>1. \A c \in ChannelSet : traces[c].source = "SIMULATED_TRACE"
        <5>1. \A c \in ChannelSet : traces[c] = OwnTrace(m, c)
          BY <3>1 DEF Evident
        <5>2. ASSUME NEW metrics, NEW netlist
              PROVE  Trace(metrics, netlist).source = "SIMULATED_TRACE"
          BY DEF Trace
        <5>. QED  BY <5>1, <5>2 DEF OwnTrace
      <4>2. {"side_channel_trace", "ai_em_trace", "ai_timing_trace"} \subseteq ChannelSet
        BY DEF ChannelSet, Channels
      <4>3. power = traces["side_channel_trace"] /\ em = traces["ai_em_trace"]
        BY <1>1, <3>1 DEF RunFollows
      <4>. QED  BY <4>1, <4>2, <4>3
    <3>5. digest = hw.compared /\ power.source = hw.capture.source
      BY <1>1, <3>1 DEF RunFollows, Results
    <3>6. CountsSound(hw.metrics)
      <4>1. "digital_twin" \in run[r].completed
        BY <1>1, <3>2 DEF StagesDone
      <4>2. run[r].netlist = mint[m].netlist
        BY <1>0, <4>1 DEF OneMint
      <4>3. mint[m].netlist \in Designs /\ Design[mint[m].netlist].metrics.cells > 0
        BY <3>1 DEF Evident, DesignKnown
      <4>. QED  BY <4>2, <4>3, CountsAreSound DEF Results
    <3>7. hw.ratio \in Ratios /\ VerilatorReasons(hw.output) = {}
      BY <1>1, <3>2 DEF RunMeasured, Results
    <3>8. hw.output.assertions \in Nat \ {0}
      <4>1. PICK d \in Designs : run[r].output = Design[d].output
        BY <1>1, <3>2 DEF RunMeasured
      <4>2. VerilatorReasons(Design[d].output) = {}
        BY <3>7, <4>1 DEF Results
      <4>3. Design[d].output.assertions \in Nat \ {0}
        BY <4>2, AssertionsChecked
      <4>. QED  BY <4>1, <4>3 DEF Results
    <3>. HIDE DEF hw, power, digest, em, timing
    <3>9. Refusals(hw, power, digest, em, timing, Authenticated, Schema) = {}
      BY <3>3, <3>4, <3>5, <3>6, <3>7, <3>8, NothingRefused
    <3>. QED  BY <3>9
  <2>4. Caused(r)'
    BY <1>0, <1>2, <1>1, <2>2, <2>3 DEF Caused
  <2>. QED  BY <1>1, <2>2, <2>4, EndsSound DEF Accounted
<1>. QED  BY <1>3, <1>4

LEMMA AnalyseSound ==
  ASSUME RunsTrue, Context, NEW r \in Runs, RunSound(r), Analyse(r)
  PROVE  RunSound(r)' /\ Accounted(r)'
<1>0. PICK m : m = run[r].fixture.mint
  OBVIOUS
<1>1. pc[r] = "models" /\ RunStep(r) /\ held' = held /\ UNCHANGED spoiled
  BY DEF Analyse, Running, Held, RunStep, attested
<1>2. /\ m \in Mints /\ run'[r].fixture = run[r].fixture
      /\ UNCHANGED <<clock, attestation, drawn, made, specific, mint, files>>
  BY <1>0, <1>1, RunStepFrame
<1>. USE DEF ToCheck, ToCapture, ToHash, ToCompare, ToSynthesise, ToMeasure, ToSimulate, ToSbom, ToTwin, ToAi, ToBind, ToEm, ToTiming
<1>3. PICK models \in Outputs :
        LET ai       == run[r].ai
            decision == Decide(models, ai.controls, ai.evidence.quality)
            judged   == [run[r] EXCEPT !.ai = [ai EXCEPT !.decision = decision]]
        IN  IF AiPassed(decision) THEN Goes(r, "comply") /\ Ran(r, judged)
            ELSE Ends(r, "QUARANTINED", "models", judged)
  BY DEF Analyse
<1>. DEFINE decision == Decide(models, run[r].ai.controls, run[r].ai.evidence.quality)
            judged   == [run[r] EXCEPT !.ai = [run[r].ai EXCEPT !.decision = decision]]
<1>4. run[r].ai.evidence.quality \in Int
  BY <1>1 DEF RunSound, RunKnows, RunMeasured
<1>5. /\ decision.risk \in Int /\ decision.confidence \in Int
      /\ decision.classification = Classification(decision.risk)
      /\ decision.recommendation = DeploymentRecommendation(decision.risk)
  BY <1>4, DecisionSound
<1>6. IF AiPassed(decision) THEN Goes(r, "comply") /\ Ran(r, judged)
      ELSE Ends(r, "QUARANTINED", "models", judged)
  BY <1>3
<1>. HIDE DEF decision
<1>7. DOMAIN judged = RunFields /\ judged.ai.decision = decision
  BY <1>1 DEF Context, TypeInv, Shaped, RunFields, RunsTrue
<1>. HIDE DEF judged
<1>8. CASE AiPassed(decision)
  <2>1. pc'[r] = "comply" /\ run'[r] = judged
    BY <1>6, <1>8 DEF Goes, Ran, Context, TypeInv, TypeOK, Shaped
  <2>2. RunKnows(r)'
    <3>1. run'[r].ai.decision = decision
      BY <1>7, <2>1
    <3>2. Judged(r)'
      BY <1>5, <3>1 DEF Judged
    <3>. QED  BY <2>1, <3>2 DEF RunKnows, StagesDone, RunMeasured
  <2>3. ASSUME "MINT" \notin spoiled[m]
        PROVE  RunFollows(r, m)'
    <3>1. Published(m) /\ fixture = run[r].fixture
      BY <1>0, <1>1, <2>3 DEF RunSound, RunFollows
    <3>2. Published(m)' /\ fixture' = run'[r].fixture
      BY <1>2, <3>1 DEF Published, files
    <3>. QED  BY <2>1, <3>2 DEF RunFollows
  <2>. QED  BY <1>0, <1>1, <2>1, <2>2, <2>3, GoesOnSound
<1>9. CASE ~AiPassed(decision)
  <2>1. pc'[r] = "ended" /\ run'[r].stage = "models" /\ run'[r].ai = judged.ai
    BY <1>6, <1>7, <1>9, EndsTo DEF Context
  <2>2. run'[r].ai.decision.recommendation = "BLOCK"
    BY <1>5, <1>7, <1>9, <2>1, ModelsBlock
  <2>3. Caused(r)'
    BY <2>1, <2>2 DEF Caused
  <2>. QED  BY <1>1, <2>1, <2>3, EndsSound DEF Accounted
<1>. QED  BY <1>8, <1>9

LEMMA ComplySound ==
  ASSUME Context, NEW r \in Runs, RunSound(r), Comply(r)
  PROVE  RunSound(r)' /\ Accounted(r)'
<1>. DEFINE decision == run[r].ai.decision
            ai       == Told(decision)
            supplier == Chip!SupplierRisk(Chip!Clean.supplier, ai)
            approved == Chip!PolicyDecision("APPROVED", supplier, ai) = "APPROVED"
            result   == IF approved THEN "COMPLETED" ELSE "STOPPED"
<1>1. pc[r] = "comply" /\ RunStep(r)
  BY DEF Comply, Running, RunStep
<1>2. Ends(r, result, "policy", run[r])
  BY DEF Comply
<1>3. /\ decision.risk \in Int /\ decision.confidence \in Int
      /\ decision.recommendation = DeploymentRecommendation(decision.risk)
  BY <1>1 DEF RunSound, RunKnows, Judged
<1>4. ~approved => decision.recommendation = "BLOCK" \/ decision.confidence < 600000
  BY <1>3, PolicyDoubts
<1>5. ~approved <=> result # "COMPLETED"
  <2>. HIDE DEF approved
  <2>. QED  OBVIOUS
<1>. HIDE DEF approved, result, decision
<1>6. pc'[r] = "ended" /\ run'[r].result = result /\ run'[r].stage = "policy" /\ run'[r].ai = run[r].ai
  BY <1>2, EndsTo DEF Context, TypeInv, Shaped
<1>7. run'[r].result # "COMPLETED" => Caused(r)'
  BY <1>4, <1>5, <1>6 DEF Caused, decision
<1>. QED  BY <1>1, <1>6, <1>7, EndsSound DEF Accounted

LEMMA FaultySound ==
  ASSUME Context, NEW r \in Runs, RunSound(r), ToolFails(r) \/ RecordFails(r) \/ ModelsFail(r)
  PROVE  RunSound(r)' /\ Accounted(r)'
<1>. DEFINE state == [run[r] EXCEPT !.faulty = TRUE]
<1>1. RunStep(r)
  BY DEF RunStep
<1>2. PICK result, stages : Trouble(r, result, stages) /\ stages \subseteq Stages \cup {"models"}
  BY DEF ToolFails, RecordFails, ModelsFail, Stages
<1>3. PICK stage \in stages : pc[r] \in InStage[stage] /\ Ends(r, result, stage, state)
  BY <1>2 DEF Trouble
<1>4. pc[r] # "idle"
  BY <1>2, <1>3 DEF InStage, Stages
<1>5. DOMAIN state = RunFields /\ state.faulty = TRUE
  BY DEF Context, TypeInv, Shaped, RunFields
<1>. HIDE DEF state
<1>6. pc'[r] = "ended" /\ run'[r].faulty = TRUE
  BY <1>3, <1>5, EndsTo DEF Context
<1>. QED  BY <1>1, <1>4, <1>6, EndsSound DEF Accounted

(* Whatever a run does, it knows what it does and why it ends.             *)
LEMMA StartSound ==
  ASSUME Context, NEW r \in Runs, StartRun(r)
  PROVE  RunSound(r)' /\ Accounted(r)'
<1>1. /\ pc[r] = "idle" /\ pc'[r] = "authenticate" /\ fixture # NONE /\ fixture' = fixture
      /\ run'[r] = [run[r] EXCEPT !.fixture = fixture]
  BY DEF StartRun, Running, Goes, Ran, files, Context, TypeInv, TypeOK, Shaped
<1>2. run'[r].fixture = fixture
  BY <1>1 DEF Context, TypeInv, Shaped, RunFields
<1>. USE DEF ToCheck, ToCapture, ToHash, ToCompare, ToSynthesise, ToMeasure, ToSimulate, ToSbom, ToTwin, ToAi, ToBind, ToEm, ToTiming
<1>3. RunKnows(r)'
  BY <1>1 DEF RunKnows, StagesDone, RunMeasured, Judged
<1>4. PICK m : m = run'[r].fixture.mint
  OBVIOUS
<1>5. RunFollows(r, m)'
  <2>1. Published(m)' /\ fixture' = run'[r].fixture
    BY <1>1, <1>2, <1>4 DEF Published
  <2>. QED  BY <1>1, <2>1 DEF RunFollows
<1>6. RunSound(r)'
  BY <1>3, <1>4, <1>5 DEF RunSound
<1>. QED  BY <1>1, <1>6 DEF Accounted

LEMMA OwnStepSound ==
  ASSUME AdmitsMinted, OneMint, RunsTrue, Context, NEW r \in Runs, RunSound(r), StartRun(r) \/ RunStep(r)
  PROVE  RunSound(r)' /\ Accounted(r)'
<1>1. CASE StartRun(r)
  BY <1>1, StartSound
<1>2. CASE Authenticate(r) \/ Verifies(r) \/ Rejected(r) \/ Accepted(r)
  BY <1>2, AuthenticateSound, VerifiesSound, RejectedSound, AcceptedSound
<1>3. CASE OpenTrace(r) \/ CompareTraces(r) \/ Synthesise(r) \/ MeasureNetlist(r)
  BY <1>3, OpenSound, CompareSound, SynthesiseSound, MeasureSound
<1>4. CASE Simulate(r) \/ GenerateSbom(r) \/ VerifyTwin(r) \/ BuildEvidence(r)
  BY <1>4, SimulateSound, SbomSound, TwinSound, BuildSound
<1>5. CASE Analyse(r) \/ Comply(r) \/ ToolFails(r) \/ RecordFails(r) \/ ModelsFail(r)
  BY <1>5, AnalyseSound, ComplySound, FaultySound
<1>. QED  BY <1>1, <1>2, <1>3, <1>4, <1>5 DEF RunStep

-----------------------------------------------------------------------------
(* What others do to what a run knows, and to why it has ended.            *)

(* The evidence a fixture names rests, until another mint begins.          *)
LEMMA PublishedRests ==
  ASSUME TypeInv, FixtureTrue, EnvelopesSigned, MintsExclusive, [Next]_vars,
         NEW m \in Mints, Published(m), "MINT" \notin spoiled'[m]
  PROVE  Rests(m)
<1>1. Settled(m) /\ pc[m] # "idle"
  BY DEF Published, FixtureTrue, FixtureOf, Settled, Over
<1>2. Settled(m)' /\ mint'[m] = mint[m] /\ pc'[m] # "idle"
  BY <1>1, SettledStays DEF Settled, Over
<1>3. spoiled[m] \subseteq spoiled'[m]
  BY <1>1, SettledKept
<1>4. CASE StartMint(m)
  BY <1>1, <1>4 DEF StartMint, Minting
<1>5. CASE MintStep(m)
  <2>1. pc[m] \in {"fixture", "markers"}
    BY <1>1, <1>5, MintAtWork DEF Settled
  <2>2. /\ UNCHANGED <<specific, clock, replay>> /\ made'[m] = made[m] /\ clock \in Nat
    BY <1>1, <1>5, MintAtWork, SettledKept
  <2>3. WriteFixture(m) \/ CheckMarkers(m)
    BY <1>5, <2>1 DEF MintStep, MintSynthesises, MintMeasures, WriteTrace, MintAttests, DrawCounter, Stamp,
       WriteAttestation, Enroll, EnrollAgain, IssueChallenge, MintSbom, UnlinkTwin, LookForTwin, SaveTwin,
       MintToolFails, Minting
  <2>4. UNCHANGED <<rtl, traces, profile, twin, attestation, drawn>>
    BY <2>3 DEF WriteFixture, CheckMarkers, attested, files
  <2>5. fixture' = fixture
    <3>1. CASE WriteFixture(m)
      <4>1. fixture = OwnFixture(m)
        BY DEF Published, EnvelopesSigned
      <4>. QED  BY <3>1, <4>1 DEF WriteFixture, OwnFixture
    <3>2. CASE CheckMarkers(m)
      BY <3>2 DEF CheckMarkers, files
    <3>. QED  BY <2>3, <3>1, <3>2
  <2>. QED  BY <1>2, <1>3, <2>2, <2>4, <2>5 DEF Rests
<1>6. CASE ~(StartMint(m) \/ MintStep(m))
  <2>1. Unspoilt(m)'
    BY <1>2 DEF Unspoilt
  <2>. QED  BY <1>6, <2>1, OthersSpoil DEF Untouched
<1>. QED  BY <1>4, <1>5, <1>6

LEMMA HeldStays ==
  ASSUME TypeInv, [Next]_vars, NEW r \in Runs, ~(StartRun(r) \/ RunStep(r))
  PROVE  held'[r] = held[r]
<1>1. ASSUME NEW m \in Mints, StartMint(m) \/ MintStep(m)
      PROVE  held'[r] = held[r]
  BY <1>1, MintAtWork DEF StartMint, attested
<1>2. ASSUME NEW q \in Runs, StartRun(q) \/ RunStep(q)
      PROVE  held'[r] = held[r]
  BY <1>2, RunQuiet
<1>3. ASSUME NEW p \in Mints \cup Runs, Die(p)
      PROVE  held'[r] = held[r]
  BY <1>3 DEF Die
<1>4. CASE Edit \/ Pass \/ UNCHANGED vars
  BY <1>4 DEF Edit, Pass, Tick, vars, shared, attested
<1>. QED  BY <1>1, <1>2, <1>3, <1>4 DEF Next

(* A run at rest knows what it knew.                                       *)
LEMMA SoundAtRest ==
  ASSUME AdmitsMinted, MintsExclusive, Context, [Next]_vars, NEW r \in Runs, RunSound(r),
         ~(StartRun(r) \/ RunStep(r))
  PROVE  RunSound(r)'
<1>1. /\ run'[r] = run[r] /\ (pc'[r] = pc[r] \/ (pc[r] # "idle" /\ pc'[r] = "dead"))
      /\ held'[r] = held[r]
  BY RunsUntouched, HeldStays DEF Context
<1>. USE DEF ToCheck, ToCapture, ToHash, ToCompare, ToSynthesise, ToMeasure, ToSimulate, ToSbom, ToTwin, ToAi, ToBind, ToEm, ToTiming
<1>2. RunKnows(r)'
  <2>1. CASE pc'[r] = "dead"
    BY <2>1 DEF RunKnows, StagesDone, RunMeasured, Judged
  <2>2. CASE pc'[r] = pc[r]
    <3>1. StagesDone(r)'
      BY <1>1, <2>2 DEF RunSound, RunKnows, StagesDone
    <3>2. RunMeasured(r)'
      BY <1>1, <2>2 DEF RunSound, RunKnows, RunMeasured
    <3>3. Judged(r)'
      BY <1>1, <2>2 DEF RunSound, RunKnows, Judged
    <3>. QED  BY <3>1, <3>2, <3>3 DEF RunKnows
  <2>. QED  BY <1>1, <2>1, <2>2
<1>3. PICK m : m = run[r].fixture.mint
  OBVIOUS
<1>4. ASSUME pc'[r] # "idle", "MINT" \notin spoiled'[m]
      PROVE  RunFollows(r, m)'
  <2>1. pc[r] # "idle" /\ m \in Mints /\ Settled(m)
    BY <1>1, <1>3, <1>4 DEF Context, FixtureTrue, FixtureOf
  <2>2. spoiled[m] \subseteq spoiled'[m] /\ "MINT" \notin spoiled[m]
    BY <1>4, <2>1, SettledKept DEF Context
  <2>3. Evident(m) /\ RunFollows(r, m)
    BY <1>3, <2>1, <2>2, RunFinds
  <2>4. Rests(m)
    BY <1>4, <2>1, <2>3, PublishedRests DEF Context, RunFollows
  <2>5. Published(m)' /\ fixture' = run'[r].fixture
    BY <1>1, <2>3, <2>4 DEF RunFollows, Published, Rests
  <2>6. made'[m] = made[m] /\ traces' = traces
    BY <2>4 DEF Rests
  <2>7. RefusedFor(m) => RefusedFor(m)'
    <3>1. made[m].stamp \in 0..clock /\ clock \in Nat /\ clock' \in Nat /\ clock' >= clock
      BY <2>1, <2>3, SettledKept DEF Evident, AttestationKnown, Context
    <3>2. Policy.maximumAge \in Nat
      BY DEF AdmitsMinted
    <3>3. clock > made[m].stamp + Policy.maximumAge => clock' > made[m].stamp + Policy.maximumAge
      BY <3>1, <3>2
    <3>. QED  BY <2>2, <2>6, <3>3 DEF RefusedFor
  <2>8. Unedited(m)' => Unedited(m) /\ rtl' = rtl
    BY <2>2, <2>4 DEF Unedited, Rests
  <2>9. Unedited(m)' => DocumentDigest("chip", Artifacts)' = DocumentDigest("chip", Artifacts)
    BY <2>6, <2>8 DEF DocumentDigest, Artifacts
  <2>10. CASE pc'[r] = "dead"
    BY <2>5, <2>10 DEF RunFollows
  <2>11. CASE pc'[r] = pc[r]
    BY <1>1, <2>3, <2>5, <2>6, <2>7, <2>8, <2>9, <2>11 DEF RunFollows
  <2>. QED  BY <1>1, <2>10, <2>11
<1>. QED  BY <1>1, <1>2, <1>3, <1>4 DEF RunSound

(* What has caused a refusal stays a cause.                                *)
LEMMA AccountedAtRest ==
  ASSUME AdmitsMinted, Context, [Next]_vars, NEW r \in Runs, RunSound(r), Accounted(r),
         ~(StartRun(r) \/ RunStep(r))
  PROVE  Accounted(r)'
<1>1. run'[r] = run[r] /\ (pc'[r] = pc[r] \/ (pc[r] # "idle" /\ pc'[r] = "dead"))
  BY RunsUntouched DEF Context
<1>. SUFFICES ASSUME pc[r] = "ended", run[r].result # "COMPLETED", ~run[r].faulty, pc'[r] = "ended"
              PROVE  Caused(r)'
  BY <1>1 DEF Accounted
<1>2. PICK m : m = run[r].fixture.mint
  OBVIOUS
<1>3. m \in Mints /\ FixtureOf(run[r].fixture) /\ Settled(m)
  BY <1>2 DEF Context, FixtureTrue, FixtureOf
<1>4. /\ spoiled[m] \subseteq spoiled'[m] /\ made'[m] = made[m] /\ mint'[m] = mint[m]
      /\ clock \in Nat /\ clock' \in Nat /\ clock' >= clock
  BY <1>3, SettledKept, SettledStays DEF Context
<1>5. Caused(r)
  BY DEF Accounted
<1>6. CASE "MINT" \in spoiled[m] /\ run[r].stage \notin {"models", "policy"}
  BY <1>1, <1>2, <1>4, <1>6 DEF Caused
<1>7. CASE "MINT" \notin spoiled[m] /\ run[r].stage \notin {"models", "policy"}
  <2>1. Evident(m)
    BY <1>2, <1>7, RunFinds
  <2>2. made[m].stamp \in 0..clock /\ mint[m].envelope.issued \in 0..clock
    BY <2>1 DEF Evident, AttestationKnown, EnvelopeKnown
  <2>3. Policy.maximumAge \in Nat /\ ChallengeTtl \in Nat
    BY MeasuresSound DEF AdmitsMinted, MeasuresSound
  <2>4. /\ clock > made[m].stamp + Policy.maximumAge => clock' > made[m].stamp + Policy.maximumAge
        /\ clock > mint[m].envelope.issued + ChallengeTtl => clock' > mint[m].envelope.issued + ChallengeTtl
    BY <1>4, <2>2, <2>3
  <2>5. Objectionable(m)' <=> Objectionable(m)
    BY <1>4 DEF Objectionable
  <2>6. CASE run[r].stage \in {"puf", "opentitan"}
    BY <1>1, <1>2, <1>4, <1>5, <2>4, <2>6 DEF Caused
  <2>7. CASE run[r].stage \notin {"puf", "opentitan"}
    BY <1>1, <1>2, <1>4, <1>5, <1>7, <2>5, <2>7 DEF Caused
  <2>. QED  BY <2>6, <2>7
<1>8. CASE run[r].stage \in {"models", "policy"}
  BY <1>1, <1>5, <1>8 DEF Caused
<1>. QED  BY <1>6, <1>7, <1>8

(* Every run knows what it has found, and why it is turned down.           *)
RunsAccounted == \A r \in Runs : RunSound(r) /\ Accounted(r)

LEMMA StepAccounted ==
  ASSUME AdmitsMinted, OneMint, RunsTrue, MintsExclusive, Context, RunsAccounted, [Next]_vars
  PROVE  RunsAccounted'
<1>. SUFFICES ASSUME NEW r \in Runs
              PROVE  RunSound(r)' /\ Accounted(r)'
  BY DEF RunsAccounted
<1>1. CASE StartRun(r) \/ RunStep(r)
  BY <1>1, OwnStepSound DEF RunsAccounted
<1>2. CASE ~(StartRun(r) \/ RunStep(r))
  BY <1>2, SoundAtRest, AccountedAtRest DEF RunsAccounted
<1>. QED  BY <1>1, <1>2

-----------------------------------------------------------------------------
(* Why a mint fails.                                                       *)

(* A mint gives up at these steps only.                                    *)
LEMMA MintGivesUp ==
  ASSUME TypeInv, NEW m \in Mints, StartMint(m) \/ MintStep(m), pc'[m] \in {"failed", "disagree"}
  PROVE  \/ MintMeasures(m) \/ EnrollAgain(m) \/ LookForTwin(m) \/ CheckMarkers(m) \/ MintToolFails(m)
<1>. USE DEF Minting, Goes
<1>0. pc \in [Mints \cup Runs -> Steps]
  BY DEF TypeInv, TypeOK
<1>1. CASE StartMint(m) \/ MintSynthesises(m) \/ WriteTrace(m)
  BY <1>0, <1>1 DEF StartMint, MintSynthesises, WriteTrace
<1>2. CASE MintAttests(m)
  BY <1>0, <1>2 DEF MintAttests, DrawCounter, Stamp, WriteAttestation
<1>3. CASE Enroll(m) \/ IssueChallenge(m) \/ MintSbom(m) \/ UnlinkTwin(m)
  BY <1>0, <1>3 DEF Enroll, IssueChallenge, MintSbom, UnlinkTwin
<1>4. CASE SaveTwin(m) \/ WriteFixture(m)
  BY <1>0, <1>4 DEF SaveTwin, WriteFixture
<1>. QED  BY <1>1, <1>2, <1>3, <1>4 DEF MintStep

(* What a mint is known to have failed over.                               *)
MintCaused(m) ==
  \/ "MINT" \in spoiled[m] \/ faults > 0 \/ mint[m].attempts = Attempts
  \/ mint[m].netlist # NONE /\ Design[mint[m].netlist].metrics.cells = 0
  \/ pc[m] = "disagree" /\ "EDIT" \in spoiled[m]

(* A chip that is its own reference measures no difference.                *)
LEMMA OwnReferenceAgrees ==
  ASSUME NEW m \in Mints, MintOwn(m), pc[m] = "markers", Unedited(m), ~specific
  PROVE  DeltaRatio(Design[mint[m].reference].metrics, Design[mint[m].netlist].metrics).over = 0
<1>1. Has(m, FromMeasure) /\ Has(m, FromTraces)
  BY DEF Has, FromMeasure, FromTraces, FromDraw, FromStamp, FromWrite, FromEnroll, FromIssue, FromSbom,
         FromUnlink, FromTwin, FromFixture
<1>2. mint[m].netlist = rtl /\ mint[m].reference = rtl /\ rtl \in Designs
  BY <1>1 DEF MintOwn, DesignMeasured, DesignCurrent, ReferenceRtl
<1>. DEFINE cells == Design[rtl].metrics.cells
<1>3. cells \in Int
  BY <1>2, MeasuresSound DEF MeasuresSound
<1>4. Apart(cells, cells) = 0
  <2>. HIDE DEF cells
  <2>. QED  BY <1>3, ApartIsInt
<1>. QED  BY <1>2, <1>4 DEF DeltaRatio

LEMMA MintFailsOver ==
  ASSUME TypeInv, MintsOwn, faults \in Nat, NEW m \in Mints, StartMint(m) \/ MintStep(m),
         pc'[m] \in {"failed", "disagree"}
  PROVE  MintCaused(m)'
<1>. USE DEF Minting, Minted, Goes
<1>0. /\ pc \in [Mints \cup Runs -> Steps] /\ DOMAIN mint = Mints /\ DOMAIN mint[m] = MintFields
  BY DEF TypeInv, TypeOK, Shaped
<1>1. CASE MintMeasures(m)
  <2>. DEFINE step == IF Design[mint[m].netlist].metrics.cells > 0 THEN "traces" ELSE "failed"
  <2>1. /\ mint[m].netlist \in Designs /\ Design[mint[m].netlist].metrics.cells \in Nat
        /\ mint[m].netlist # NONE
    BY <1>1, MeasuresSound DEF MintMeasures, TypeInv, MintsReady, MeasuresSound
  <2>2. pc'[m] = step
    <3>. HIDE DEF step
    <3>. QED  BY <1>0, <1>1 DEF MintMeasures, step
  <2>3. Design[mint[m].netlist].metrics.cells = 0
    BY <2>1, <2>2
  <2>4. mint'[m].netlist = mint[m].netlist
    BY <1>0, <1>1 DEF MintMeasures, MintFields
  <2>. QED  BY <2>1, <2>3, <2>4 DEF MintCaused
<1>2. CASE EnrollAgain(m)
  <2>1. mint[m].attempts + 1 = Attempts
    BY <1>0, <1>2 DEF EnrollAgain
  <2>2. mint'[m].attempts = mint[m].attempts + 1
    BY <1>0, <1>2 DEF EnrollAgain, MintFields
  <2>. QED  BY <2>1, <2>2 DEF MintCaused
<1>3. CASE LookForTwin(m)
  <2>1. pc[m] = "twin" /\ twin # NONE /\ spoiled' = spoiled
    BY <1>0, <1>3 DEF LookForTwin
  <2>2. "MINT" \in spoiled[m]
    BY <2>1 DEF MintsOwn, Unspoilt, MintOwn, TwinOwn
  <2>. QED  BY <2>1, <2>2 DEF MintCaused
<1>4. CASE CheckMarkers(m)
  <2>. DEFINE ratio == DeltaRatio(Design[mint[m].reference].metrics, Design[mint[m].netlist].metrics)
  <2>1. pc[m] = "markers" /\ spoiled' = spoiled /\ pc' = [pc EXCEPT ![m] = IF ~specific /\ ratio.over # 0 THEN "disagree" ELSE "done"]
    BY <1>4 DEF CheckMarkers
  <2>. HIDE DEF ratio
  <2>2. ~specific /\ ratio.over # 0 /\ pc'[m] = "disagree"
    BY <1>0, <2>1
  <2>3. "MINT" \in spoiled[m] \/ "EDIT" \in spoiled[m]
    <3>. SUFFICES ASSUME "MINT" \notin spoiled[m], Unedited(m)
                  PROVE  FALSE
      BY DEF Unedited
    <3>1. MintOwn(m)
      BY <2>1 DEF MintsOwn, Unspoilt
    <3>. QED  BY <2>1, <2>2, <3>1, OwnReferenceAgrees DEF ratio
  <2>. QED  BY <2>1, <2>2, <2>3 DEF MintCaused
<1>5. CASE MintToolFails(m)
  <2>1. faults' = faults + 1
    BY <1>5 DEF MintToolFails
  <2>2. faults' > 0
    BY <2>1
  <2>. QED  BY <2>2 DEF MintCaused
<1>. QED  BY <1>1, <1>2, <1>3, <1>4, <1>5, MintGivesUp

(* Faults are counted, never forgotten.                                    *)
LEMMA FaultsGrow ==
  ASSUME TypeInv, [Next]_vars, faults \in Nat
  PROVE  faults' \in Nat /\ faults' >= faults
<1>1. ASSUME NEW m \in Mints, StartMint(m) \/ MintStep(m)
      PROVE  faults' = faults \/ faults' = faults + 1
  BY <1>1, MintAtWork DEF StartMint
<1>2. ASSUME NEW r \in Runs, StartRun(r) \/ RunStep(r)
      PROVE  faults' = faults \/ faults' = faults + 1
  <2>. USE DEF Held
  <2>1. CASE StartRun(r) \/ Authenticate(r) \/ Verifies(r) \/ Rejected(r) \/ Accepted(r)
    BY <2>1 DEF StartRun, Authenticate, Verifies, Rejected, Accepted
  <2>02. CASE OpenTrace(r)
    BY <2>02, Opening DEF Opened
  <2>2. CASE Synthesise(r) \/ Simulate(r) \/ GenerateSbom(r) \/ VerifyTwin(r)
    BY <2>2 DEF Synthesise, Simulate, GenerateSbom, VerifyTwin
  <2>3. CASE CompareTraces(r)
    BY <2>3, Zenon DEF CompareTraces
  <2>4. CASE MeasureNetlist(r) \/ BuildEvidence(r)
    BY <2>4 DEF MeasureNetlist, BuildEvidence
  <2>5. CASE Analyse(r) \/ Comply(r)
    BY <2>5 DEF Analyse, Comply
  <2>6. CASE ToolFails(r) \/ RecordFails(r) \/ ModelsFail(r)
    BY <2>6 DEF ToolFails, RecordFails, ModelsFail, Trouble
  <2>. QED  BY <1>2, <2>1, <2>02, <2>2, <2>3, <2>4, <2>5, <2>6 DEF RunStep
<1>3. ASSUME NEW p \in Mints \cup Runs, Die(p)
      PROVE  faults' = faults + 1
  BY <1>3 DEF Die
<1>4. ASSUME Edit \/ Pass \/ UNCHANGED vars
      PROVE  faults' = faults
  BY <1>4 DEF Edit, Pass, vars
<1>5. faults' = faults \/ faults' = faults + 1
  BY <1>1, <1>2, <1>3, <1>4 DEF Next
<1>. QED  BY <1>5

LEMMA StepMintCaused ==
  ASSUME TypeInv, MintsOwn, faults \in Nat, MintFailureCaused, [Next]_vars
  PROVE  MintFailureCaused'
<1>. SUFFICES ASSUME NEW m \in Mints, pc'[m] \in {"failed", "disagree"}
              PROVE  MintCaused(m)'
  BY DEF MintFailureCaused, MintCaused
<1>1. CASE StartMint(m) \/ MintStep(m)
  BY <1>1, MintFailsOver
<1>2. CASE ~(StartMint(m) \/ MintStep(m))
  <2>0. pc \in [Mints \cup Runs -> Steps]
    BY DEF TypeInv, TypeOK
  <2>1. pc'[m] = pc[m]
    <3>1. ASSUME NEW y \in Mints, y # m, StartMint(y) \/ MintStep(y)
          PROVE  pc'[m] = pc[m]
      BY <3>1, MintAlone
    <3>2. ASSUME NEW r \in Runs, StartRun(r) \/ RunStep(r)
          PROVE  pc'[m] = pc[m]
      BY <3>2, RunAlone, ProcessesApart
    <3>3. ASSUME NEW p \in Mints \cup Runs, Die(p)
          PROVE  pc'[m] = pc[m]
      BY <2>0, <3>3 DEF Die, Goes
    <3>4. CASE Edit \/ Pass \/ UNCHANGED vars
      BY <3>4 DEF Edit, Pass, Tick, vars
    <3>. QED  BY <1>2, <3>1, <3>2, <3>3, <3>4 DEF Next
  <2>2. Settled(m) /\ MintCaused(m)
    BY <2>1 DEF Settled, Over, MintFailureCaused, MintCaused
  <2>3. mint'[m] = mint[m] /\ spoiled[m] \subseteq spoiled'[m]
    BY <2>2, SettledStays, SettledKept
  <2>4. faults > 0 => faults' > 0
    BY FaultsGrow
  <2>. QED  BY <2>1, <2>2, <2>3, <2>4 DEF MintCaused
<1>. QED  BY <1>1, <1>2

-----------------------------------------------------------------------------
(* All that is known of evidence, and the theorem.                         *)
EvidenceInv ==
  /\ FilesShaped /\ MintsExclusive /\ MintsOwn /\ EnvelopesSigned /\ AnsweredOwn
  /\ faults \in Nat /\ RunsAccounted /\ MintFailureCaused

LEMMA InitEvident == Init => EvidenceInv
<1>. SUFFICES ASSUME Init
              PROVE  EvidenceInv
  OBVIOUS
<1>1. /\ \A m \in Mints : pc[m] = "idle" /\ mint[m] = NothingMinted
      /\ \A r \in Runs : pc[r] = "idle"
      /\ traces = [c \in ChannelSet |-> NONE] /\ fixture = NONE /\ answered = {} /\ faults = 0
  BY DEF Init
<1>2. FilesShaped
  BY <1>1 DEF FilesShaped, NothingMinted
<1>3. MintsExclusive /\ MintsOwn
  BY <1>1 DEF MintsExclusive, MintsOwn, Unspoilt
<1>4. EnvelopesSigned /\ AnsweredOwn
  BY <1>1 DEF EnvelopesSigned, AnsweredOwn, FromSbom, FromUnlink, FromTwin, FromFixture
<1>5. RunsAccounted
  BY <1>1 DEF RunsAccounted, RunSound, Accounted, RunKnows, StagesDone, RunMeasured, Judged, ToCapture, ToHash,
     ToCompare, ToSynthesise, ToMeasure, ToSimulate, ToSbom, ToTwin, ToAi, ToBind, ToEm, ToTiming
<1>6. MintFailureCaused
  BY <1>1 DEF MintFailureCaused
<1>. QED  BY <1>1, <1>2, <1>3, <1>4, <1>5, <1>6 DEF EvidenceInv

LEMMA StepEvident ==
  ASSUME AdmitsMinted, IInv, OneMint, EvidenceInv, [Next]_vars
  PROVE  EvidenceInv'
<1>1. TypeInv /\ FixtureTrue /\ RunsTrue
  BY DEF IInv
<1>2. FilesShaped' /\ MintsExclusive' /\ MintsOwn'
  BY <1>1, StepFilesShaped, StepExclusive, StepMintsOwn DEF EvidenceInv
<1>3. EnvelopesSigned' /\ AnsweredOwn'
  BY <1>1, StepEnvelopesSigned, StepAnswered DEF EvidenceInv
<1>4. faults' \in Nat /\ MintFailureCaused'
  BY <1>1, FaultsGrow, StepMintCaused DEF EvidenceInv
<1>5. RunsAccounted'
  BY <1>1, StepAccounted DEF EvidenceInv, Context
<1>. QED  BY <1>2, <1>3, <1>4, <1>5 DEF EvidenceInv

(* What the models are given is the mint's, if no other mint has begun.    *)
OwnEvidence(r) ==
  LET m        == run[r].fixture.mint
      evidence == run[r].ai.evidence
      own      == Trace(mint[m].netlist, mint[m].netlist)
  IN  "MINT" \notin spoiled[m] =>
        /\ run[r].capture = own
        /\ evidence.power = own /\ evidence.em = own /\ evidence.timing = own
        /\ "EDIT" \notin spoiled[m] => run[r].output = Design[mint[m].netlist].output

GivenOwn == \A r \in Runs : run[r].ai # NONE \/ pc[r] = "models" => OwnEvidence(r)

LEMMA GivesOwn ==
  ASSUME IInv, EvidenceInv, [Next]_vars, NEW r \in Runs, StartRun(r) \/ RunStep(r), HasEvidence(r)
  PROVE  OwnEvidence(r)'
<1>0. pc[r] = "timing" /\ pc'[r] = "models"
  BY DEF HasEvidence
<1>1. PICK m : m = run[r].fixture.mint
  OBVIOUS
<1>2. Context /\ RunSound(r) /\ DOMAIN run[r] = RunFields
  BY DEF IInv, EvidenceInv, Context, RunsAccounted, TypeInv, Shaped
<1>3. m \in Mints /\ Settled(m)
  BY <1>0, <1>1, <1>2 DEF Context, FixtureTrue, FixtureOf
<1>4. mint'[m] = mint[m] /\ spoiled[m] \subseteq spoiled'[m]
  BY <1>2, <1>3, SettledStays, SettledKept DEF Context
<1>. DEFINE hw     == Results(r)
            timing == traces["ai_timing_trace"]
            given  == Evidence(hw, run[r].power, run[r].em, timing, Authenticated)
            ai     == [evidence |-> given, controls |-> Controls(hw, Authenticated, Schema), decision |-> NONE]
<1>5. run'[r] = [run[r] EXCEPT !.ai = ai]
  BY DEF HasEvidence
<1>6. given.power = run[r].power /\ given.em = run[r].em /\ given.timing = timing
  BY DEF Evidence
<1>7. ai.evidence = given
  OBVIOUS
<1>. HIDE DEF ai
<1>8. /\ run'[r].ai = ai /\ run'[r].fixture = run[r].fixture
      /\ run'[r].capture = run[r].capture /\ run'[r].output = run[r].output
  BY <1>2, <1>5 DEF RunFields
<1>. HIDE DEF given
<1>. SUFFICES ASSUME "MINT" \notin spoiled[m]
              PROVE  LET own == Trace(mint[m].netlist, mint[m].netlist)
                     IN  /\ run[r].capture = own
                         /\ run[r].power = own /\ run[r].em = own /\ timing = own
                         /\ "EDIT" \notin spoiled[m] => run[r].output = Design[mint[m].netlist].output
  BY <1>1, <1>4, <1>6, <1>7, <1>8 DEF OwnEvidence
<1>9. Evident(m) /\ RunFollows(r, m)
  BY <1>0, <1>1, <1>2, RunFinds
<1>10. /\ run[r].capture = traces["side_channel_trace"] /\ run[r].power = traces["side_channel_trace"]
       /\ run[r].em = traces["ai_em_trace"] /\ (Unedited(m) => run[r].output = Design[rtl].output)
  BY <1>0, <1>9 DEF RunFollows, ToHash, ToCompare, ToSynthesise, ToMeasure, ToSimulate, ToSbom, ToTwin, ToAi,
     ToBind, ToEm, ToTiming
<1>11. /\ traces["side_channel_trace"] = Trace(mint[m].netlist, mint[m].netlist)
       /\ traces["ai_em_trace"] = Trace(mint[m].netlist, mint[m].netlist)
       /\ timing = Trace(mint[m].netlist, mint[m].netlist)
  BY <1>9 DEF Evident, OwnTrace, ChannelSet, Channels
<1>12. Unedited(m) => mint[m].netlist = rtl
  BY <1>9 DEF Evident, DesignKnown
<1>. QED  BY <1>10, <1>11, <1>12 DEF Unedited

LEMMA KeepsOwn ==
  ASSUME IInv, [Next]_vars, NEW r \in Runs, pc[r] # "idle", OwnEvidence(r),
         run'[r].fixture = run[r].fixture, run'[r].capture = run[r].capture, run'[r].output = run[r].output,
         run'[r].ai.evidence = run[r].ai.evidence
  PROVE  OwnEvidence(r)'
<1>1. PICK m : m = run[r].fixture.mint
  OBVIOUS
<1>2. m \in Mints /\ Settled(m)
  BY <1>1 DEF IInv, FixtureTrue, FixtureOf
<1>3. mint'[m] = mint[m] /\ spoiled[m] \subseteq spoiled'[m]
  BY <1>2, SettledStays, SettledKept DEF IInv
<1>. QED  BY <1>1, <1>3 DEF OwnEvidence

LEMMA StepGivenOwn ==
  ASSUME IInv, EvidenceInv, GivenOwn, [Next]_vars
  PROVE  GivenOwn'
<1>. SUFFICES ASSUME NEW r \in Runs, run'[r].ai # NONE \/ pc'[r] = "models"
              PROVE  OwnEvidence(r)'
  BY DEF GivenOwn
<1>0. /\ DOMAIN run[r] = RunFields /\ TypeInv
      /\ run[r].ai # NONE => pc[r] \in {"models", "comply", "ended", "dead"}
      /\ pc[r] = "models" => DOMAIN run[r].ai = {"evidence", "controls", "decision"}
  BY DEF IInv, TypeInv, Shaped, RunsTrue
<1>1. CASE ~(StartRun(r) \/ RunStep(r))
  <2>1. run'[r] = run[r] /\ (pc'[r] = pc[r] \/ (pc[r] # "idle" /\ pc'[r] = "dead"))
    BY <1>0, <1>1, RunsUntouched
  <2>. QED  BY <1>0, <2>1, KeepsOwn DEF GivenOwn
<1>2. CASE Starts(r)
  <2>1. run'[r].ai = run[r].ai /\ pc[r] = "idle" /\ pc'[r] = "authenticate"
    BY <1>0, <1>2 DEF Starts, RunFields
  <2>. QED  BY <1>0, <2>1
<1>3. CASE Measures(r)
  BY <1>0, <1>3 DEF Measures
<1>4. CASE PassesTwin(r)
  <2>1. run'[r].ai = run[r].ai /\ pc[r] = "twin" /\ pc'[r] = "ai"
    BY <1>0, <1>4 DEF PassesTwin, RunFields
  <2>. QED  BY <1>0, <2>1
<1>5. CASE Reopens(r)
  <2>1. run'[r].ai = run[r].ai /\ pc[r] \in {"ai", "bind", "em"} /\ pc'[r] # "models"
    BY <1>5 DEF Reopens, RunFields
  <2>. QED  BY <1>0, <2>1
<1>6. CASE HasEvidence(r) /\ (StartRun(r) \/ RunStep(r))
  BY <1>6, GivesOwn
<1>7. CASE Concluded(r)
  <2>1. /\ run'[r].fixture = run[r].fixture /\ run'[r].capture = run[r].capture
        /\ run'[r].output = run[r].output /\ pc[r] # "idle" /\ pc'[r] # "models"
    BY <1>7 DEF Concluded, Kept
  <2>2. /\ run[r].ai # NONE \/ pc[r] = "models"
        /\ run'[r].ai.evidence = run[r].ai.evidence
    BY <1>0, <1>7, <2>1 DEF Concluded
  <2>. QED  BY <2>1, <2>2, KeepsOwn DEF GivenOwn
<1>. QED  BY <1>0, <1>1, <1>2, <1>3, <1>4, <1>5, <1>6, <1>7, RunShape

(* A run that has passed its stages has measured the netlist, the RTL and  *)
(* the SBOM of the mint whose manifest it holds, and the power trace it    *)
(* gives the models has the digest that was reported, whatever mints,      *)
(* edits and runs did to the files while its stages read them one after    *)
(* the other.  The samples, the other traces and the simulation are those  *)
(* of that mint unless another mint was at work since it began or, for the *)
(* simulation, somebody edited the RTL.                                    *)
THEOREM JudgedOnOneMint ==
  ASSUME AllMatched, AdmitsMinted
  PROVE  Spec => []EvidenceOfOneMint
<1>1. Init => OneMint /\ GivenOwn
  BY DEF Init, NothingMeasured, OneMint, GivenOwn
<1>2. Init => IInv /\ OneMint /\ EvidenceInv /\ GivenOwn
  BY <1>1, InitInv, InitEvident
<1>3. IInv /\ OneMint /\ EvidenceInv /\ GivenOwn /\ [Next]_vars
        => (IInv /\ OneMint /\ EvidenceInv /\ GivenOwn)'
  BY StepInv, StepOneMint, StepEvident, StepGivenOwn
<1>4. GivenOwn => Undisturbed
  BY DEF GivenOwn, OwnEvidence, Undisturbed
<1>5. IInv /\ OneMint /\ GivenOwn => EvidenceOfOneMint
  BY <1>4 DEF IInv, EvidenceOfOneMint
<1>. QED  BY <1>2, <1>3, <1>5, PTL DEF Spec

(* Neither a chip nor a mint fails without a cause, under a configuration  *)
(* that matches the whole twin and admits what a mint writes: a run that   *)
(* no tool has failed is turned down only over a response that does not    *)
(* match, a design the policy objects to, models that block it or are not  *)
(* sure, evidence grown old or used by another run, or a mint or an edit   *)
(* since its mint began; and a mint fails only beside another one, over    *)
(* its tools, a netlist without cells or a device that cannot be enrolled. *)
(* Whatever mints that died have left behind, at whatever step, the next   *)
(* one makes whole again.                                                  *)
THEOREM FailuresHaveCauses ==
  ASSUME AllMatched, AdmitsMinted
  PROVE  Spec => []FailuresCaused
<1>1. Init => OneMint
  BY DEF Init, NothingMeasured, OneMint
<1>2. Init => IInv /\ OneMint /\ EvidenceInv
  BY <1>1, InitInv, InitEvident
<1>3. IInv /\ OneMint /\ EvidenceInv /\ [Next]_vars => (IInv /\ OneMint /\ EvidenceInv)'
  BY StepInv, StepOneMint, StepEvident
<1>4. EvidenceInv => FailuresCaused
  BY DEF EvidenceInv, RunsAccounted, Accounted, FailuresCaused, RefusalCaused
<1>. QED  BY <1>2, <1>3, <1>4, PTL DEF Spec
=============================================================================
