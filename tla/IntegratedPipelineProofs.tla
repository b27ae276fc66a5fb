---------------------- MODULE IntegratedPipelineProofs -----------------------
(***************************************************************************)
(* Proofs about IntegratedPipeline, for any number of processes, files,    *)
(* runs and faults.                                                        *)
(***************************************************************************)
EXTENDS IntegratedPipeline, TLAPS

(***************************************************************************)
(* A process between its first save and its last one works on a run that   *)
(* nobody else works on, and that no one has given a verdict yet.          *)
(***************************************************************************)
Active(p) == pc[p] \notin {"idle", "begin"}

Unjudged(run) == run \in Run /\ run.status = "RUNNING" /\ run.decision = NONE

Ownership ==
  /\ \A p \in Procs : pc[p] # "idle" => Unjudged(mem[p])
  /\ \A p \in Procs : Active(p) =>
       /\ call[p].run \in Runs
       /\ Unjudged(disk[call[p].run]) /\ disk[call[p].run].file = mem[p].file
  /\ \A p, q \in Procs : Active(p) /\ Active(q) /\ call[p].run = call[q].run => p = q

(* The steps that belong to one stage are taken in that stage.             *)
InStage ==
  \A p \in Procs :
    /\ pc[p] \in {"idle", "begin"} => call[p] = NoCall
    /\ pc[p] \in {"start", "work"} => call[p].result = "none"
    /\ pc[p] \in {"submit", "anchor", "file"} => call[p].at = 5 /\ call[p].decision \in Decisions
    /\ pc[p] = "conclude" => call[p].at = 8

(***************************************************************************)
(* Whoever is past the PUF stage has consumed the challenge, and nobody    *)
(* else has, now or before.                                                *)
(***************************************************************************)
Authenticated(p) ==
  /\ Active(p)
  /\ call[p].at > 2 \/ (call[p].at = 2 /\ call[p].result = "passed")

Exclusion ==
  /\ \A p \in Procs : Authenticated(p) => Challenge[mem[p].file] \in spent
  /\ \A r \in Runs : Deployed(r) => Challenge[disk[r].file] \in spent
  /\ \A p, q \in Procs :
       /\ Authenticated(p) /\ Authenticated(q)
       /\ Challenge[mem[p].file] = Challenge[mem[q].file]
       => p = q
  /\ \A p \in Procs, r \in Runs :
       ~(/\ Authenticated(p) /\ Deployed(r)
         /\ Challenge[mem[p].file] = Challenge[disk[r].file])
  /\ DeployedOnce

(***************************************************************************)
(* What a run has on its file, for everything it shows as passed: the      *)
(* journal and the ledgers tell of it.                                     *)
(***************************************************************************)
Passed(s) == [stage |-> s, status |-> "PASSED", mandatory |-> TRUE]

Witnessed(s, r) ==
  /\ s = "INGESTION"         => "scan.accepted" \in journal[r]
  /\ s = "HARDWARE_SECURITY" => "hardware" \in journal[r]
  /\ s = "COMPLIANCE"        => "compliance.completed" \in journal[r]
  /\ s = "BLOCKCHAIN"        => /\ ledger[r] = "anchored"
                                /\ {"fabric.committed", "ethereum.anchor_confirmed"}
                                     \subseteq journal[r]

(* What p has been told, by a stage or by the ledgers, is so.              *)
Heard(p) ==
  Active(p) =>
    /\ call[p].result = "passed" =>
         /\ Witnessed(Stage(p), call[p].run)
         /\ call[p].at = 5 => call[p].decision \in Decisions
    /\ pc[p] \in {"submit", "anchor", "file"} =>
         "compliance.completed" \in journal[call[p].run]
    /\ pc[p] = "anchor" => "fabric" \in call[p].recorded
    /\ "fabric" \in call[p].recorded => "fabric.committed" \in journal[call[p].run]
    /\ "ethereum" \in call[p].recorded => Witnessed("BLOCKCHAIN", call[p].run)

Evidence ==
  /\ \A r \in Runs : disk[r] = NONE => journal[r] = {}
  /\ \A r \in Runs : disk[r] # NONE => \A i \in 1..Len(disk[r].stages) :
       disk[r].stages[i].status = "PASSED" => Witnessed(disk[r].stages[i].stage, r)
  /\ \A p \in Procs : Heard(p)

(***************************************************************************)
(* Whoever is about to take the n-th stage has an entry for each earlier   *)
(* one, in order, and has passed all of them that are mandatory.           *)
(***************************************************************************)
Due(m, compliance) == m # 7 /\ (m = 6 => compliance = "APPROVED")

Clean(run, n) ==
  /\ \A i \in 1..Len(run.stages) :
       /\ run.stages[i].mandatory => run.stages[i].status = "PASSED"
       /\ \E m \in 1..8 : /\ m < n /\ run.stages[i].stage = Stages[m]
                          /\ run.stages[i].mandatory => m # 7
  /\ \A i, j \in 1..Len(run.stages) :
       i < j /\ run.stages[i].mandatory /\ run.stages[j].mandatory =>
         Before(run.stages[i].stage, run.stages[j].stage)
  /\ \A m \in 1..8 : m < n /\ Due(m, run.compliance) =>
       \E i \in 1..Len(run.stages) : run.stages[i] = Passed(Stages[m])
  /\ n > 5 => run.compliance \in Decisions

Reached(p) == IF pc[p] = "conclude" THEN 9 ELSE call[p].at

(* The stages that take an error of the platform for one of the chip, and  *)
(* the entries that speak, or seem to speak, against the chip.             *)
Mistaking == {"PUF_AUTHENTICATION", "HARDWARE_SECURITY"}

Against(entry) ==
  entry.status = "FAILED" \/ (entry.status = "BROKEN" /\ entry.stage \in Mistaking)

Diligent(p) ==
  /\ pc[p] = "begin" => mem[p].stages = <<>>
  /\ pc[p] # "idle" => ~mem[p].quarantined
  /\ Active(p) =>
       /\ disk[call[p].run].stages = mem[p].stages /\ ~disk[call[p].run].quarantined
       /\ pc[p] # "stop" => Clean(mem[p], Reached(p))
       /\ call[p].result = "broken" => Stage(p) \in Mistaking
       /\ pc[p] = "stop" => \E i \in 1..Len(mem[p].stages) :
            Against(mem[p].stages[i]) /\ mem[p].stages[i].stage = Stage(p)

Diligence == \A p \in Procs : Diligent(p)

TypeInv == TypeOK /\ Ownership /\ InStage
IInv    == TypeInv /\ Exclusion
JInv    == TypeInv /\ Evidence /\ Diligence /\ FailClosed /\ VerdictJustified

-----------------------------------------------------------------------------
LEMMA StageNames ==
  /\ Len(Stages) = 8 /\ \A i \in 1..8 : Stages[i] \in Names
  /\ Stages[2] = "PUF_AUTHENTICATION" /\ Stages[5] = "COMPLIANCE"
  /\ Stages[8] = "DEPLOYMENT_DECISION"
  /\ \A i \in 1..8 : Stages[i] = "DEPLOYMENT_DECISION" => i = 8
  /\ \A i \in 1..8 : Stages[i] = "PUF_AUTHENTICATION" => i = 2
  /\ \A i \in 1..8 : Stages[i] = "COMPLIANCE" => i = 5
<1>1. Len(Stages) = 8
  BY DEF Stages
<1>2. \A i \in 1..8 : Stages[i] \in Names
  BY <1>1 DEF Names
<1>3. \A i \in 1..8 : i = 1 \/ i = 2 \/ i = 3 \/ i = 4 \/ i = 5 \/ i = 6 \/ i = 7 \/ i = 8
  OBVIOUS
<1>. QED
  BY <1>1, <1>2, <1>3 DEF Stages

LEMMA StageKnown ==
  ASSUME TypeOK, NEW p \in Procs
  PROVE  Stage(p) \in Names
BY StageNames DEF TypeOK, Stage, Call

LEMMA NewRunUnjudged ==
  ASSUME NEW f \in Files
  PROVE  Unjudged(NewRun(f)) /\ NewRun(f).file = f
<1>1. "INGESTION" \in Names
  BY StageNames DEF Stages
<1>. QED
  BY <1>1 DEF Unjudged, NewRun, Run, Status

LEMMA OutcomeKnown ==
  ASSUME NEW result
  PROVE  /\ Outcome(result) \in {"PASSED", "FAILED", "BROKEN"}
         /\ Outcome(result) = "PASSED" <=> result = "passed"
         /\ Outcome(result) = "BROKEN" => result = "broken"
BY DEF Outcome

LEMMA InitTypes == Init => TypeInv
<1>. SUFFICES ASSUME Init PROVE TypeInv
  OBVIOUS
<1>1. TypeOK
  BY StageNames, PipelineAssumption DEF Init, TypeOK, NoCall, Call, PCs
<1>2. Ownership
  BY DEF Init, Ownership, Active
<1>3. InStage
  BY DEF Init, InStage
<1>. QED  BY <1>1, <1>2, <1>3 DEF TypeInv

(***************************************************************************)
(* How a process gets on: what changes for it and what for the others.     *)
(***************************************************************************)
LEMMA LeaveTypes ==
  ASSUME TypeInv, NEW p \in Procs, Leave(p)
  PROVE  /\ pc' \in [Procs -> PCs] /\ mem' \in [Procs -> Run \cup {NONE}]
         /\ call' \in [Procs -> Call]
         /\ InStage'
         /\ ~Active(p)' /\ pc'[p] = "idle"
         /\ \A q \in Procs \ {p} :
              pc'[q] = pc[q] /\ mem'[q] = mem[q] /\ call'[q] = call[q]
<1>1. NoCall \in Call
  BY StageNames DEF NoCall, Call
<1>2. InStage'
  BY DEF Leave, Goto, InStage, TypeInv, TypeOK
<1>. QED
  BY <1>1, <1>2 DEF Leave, Goto, TypeInv, TypeOK, PCs, Active

LEMMA OwnershipKept ==
  ASSUME TypeInv, NEW p \in Procs, Active(p),
         \A q \in Procs \ {p} : pc'[q] = pc[q] /\ mem'[q] = mem[q] /\ call'[q] = call[q],
         \A r \in Runs : r # call[p].run => disk'[r] = disk[r],
         \/ pc'[p] = "idle"
         \/ /\ Active(p)'
            /\ call'[p].run = call[p].run
            /\ Unjudged(mem'[p]) /\ Unjudged(disk'[call[p].run])
            /\ disk'[call[p].run].file = mem'[p].file
  PROVE  Ownership'
<1>1. ASSUME NEW q \in Procs, pc'[q] # "idle" PROVE Unjudged(mem'[q])
  <2>1. CASE q = p
    BY <1>1, <2>1
  <2>2. CASE q # p
    BY <1>1, <2>2 DEF TypeInv, Ownership
  <2>. QED  BY <2>1, <2>2
<1>2. ASSUME NEW q \in Procs, Active(q)'
      PROVE  /\ call'[q].run \in Runs
             /\ Unjudged(disk'[call'[q].run]) /\ disk'[call'[q].run].file = mem'[q].file
  <2>1. CASE q = p
    BY <1>2, <2>1 DEF TypeInv, Ownership, Active
  <2>2. CASE q # p
    <3>1. Active(q) /\ call'[q] = call[q] /\ mem'[q] = mem[q]
      BY <1>2, <2>2 DEF Active
    <3>2. call[q].run \in Runs /\ call[q].run # call[p].run
      BY <3>1, <2>2 DEF TypeInv, Ownership
    <3>. QED
      BY <3>1, <3>2 DEF TypeInv, Ownership
  <2>. QED  BY <2>1, <2>2
<1>3. ASSUME NEW q1 \in Procs, NEW q2 \in Procs, Active(q1)', Active(q2)',
             call'[q1].run = call'[q2].run
      PROVE  q1 = q2
  <2>1. \A q \in Procs : Active(q)' => Active(q) /\ call'[q].run = call[q].run
    BY DEF Active
  <2>. QED
    BY <1>3, <2>1 DEF TypeInv, Ownership
<1>. QED
  BY <1>1, <1>2, <1>3 DEF Ownership

(* A step of p that leaves its run alone.                                  *)
LEMMA LocalStep ==
  ASSUME TypeInv, NEW p \in Procs, Active(p), NEW to \in PCs, to \notin {"idle", "begin"},
         pc' = [pc EXCEPT ![p] = to],
         \A q \in Procs \ {p} : call'[q] = call[q],
         call'[p].run = call[p].run,
         to \in {"start", "work"} => call'[p].result = "none",
         to \in {"submit", "anchor", "file"} => call'[p].at = 5 /\ call'[p].decision \in Decisions,
         to = "conclude" => call'[p].at = 8,
         UNCHANGED <<disk, mem>>
  PROVE  pc' \in [Procs -> PCs] /\ Ownership' /\ InStage'
<1>1. pc' \in [Procs -> PCs] /\ pc'[p] = to /\ \A q \in Procs \ {p} : pc'[q] = pc[q]
  BY DEF TypeInv, TypeOK
<1>2. Ownership'
  <2>1. /\ Unjudged(mem[p]) /\ Unjudged(disk[call[p].run])
        /\ disk[call[p].run].file = mem[p].file
    BY DEF TypeInv, Ownership, Active
  <2>. QED
    BY <1>1, <2>1, OwnershipKept DEF Active
<1>3. InStage'
  BY <1>1 DEF TypeInv, InStage
<1>. QED  BY <1>1, <1>2, <1>3

(* A function of a stage comes back.                                       *)
LEMMA YieldTypes ==
  ASSUME TypeInv, NEW p \in Procs, Active(p),
         NEW results \in SUBSET {"passed", "failed", "broken", "error"}, Yield(p, results),
         UNCHANGED <<disk, mem>>
  PROVE  /\ pc' \in [Procs -> PCs] /\ call' \in [Procs -> Call]
         /\ Ownership' /\ InStage'
<1>1. PICK result \in results : call' = [call EXCEPT ![p].result = result]
  BY DEF Yield
<1>2. pc' = [pc EXCEPT ![p] = "record"]
  BY DEF Yield, Goto
<1>3. call[p] \in Call /\ call'[p] = [call[p] EXCEPT !.result = result]
  BY <1>1 DEF TypeInv, TypeOK
<1>4. /\ pc' \in [Procs -> PCs] /\ call' \in [Procs -> Call]
      /\ pc'[p] = "record" /\ call'[p].run = call[p].run
  BY <1>1, <1>2, <1>3 DEF TypeInv, TypeOK, PCs, Call
<1>5. \A q \in Procs \ {p} : pc'[q] = pc[q] /\ mem'[q] = mem[q] /\ call'[q] = call[q]
  BY <1>1, <1>2 DEF TypeInv, TypeOK
<1>6. Ownership'
  <2>1. /\ Unjudged(mem[p]) /\ Unjudged(disk[call[p].run])
        /\ disk[call[p].run].file = mem[p].file
    BY DEF TypeInv, Ownership, Active
  <2>. QED
    BY <1>4, <1>5, <2>1, OwnershipKept DEF Active
<1>7. InStage'
  BY <1>4, <1>5 DEF TypeInv, InStage
<1>. QED  BY <1>4, <1>6, <1>7

(* The run goes on to the next stage, with its file saved.                 *)
LEMMA ContinueTypes ==
  ASSUME TypeInv, NEW p \in Procs, Active(p), NEW saved, NEW run,
         Unjudged(saved), Unjudged(run), saved.file = mem[p].file, run.file = mem[p].file,
         Save(p, saved), Continue(p, run)
  PROVE  /\ disk' \in [Runs -> Run \cup {NONE}]
         /\ pc' \in [Procs -> PCs] /\ mem' \in [Procs -> Run \cup {NONE}]
         /\ call' \in [Procs -> Call]
         /\ Ownership' /\ InStage'
<1>1. call[p] \in Call /\ call[p].at \in 1..8 /\ call[p].run \in Runs
  BY StageNames DEF TypeInv, TypeOK, Ownership, Call
<1>2. /\ pc' = [pc EXCEPT ![p] = IF Stage(p) = "DEPLOYMENT_DECISION" THEN "conclude"
                                 ELSE "start"]
      /\ mem' = [mem EXCEPT ![p] = run]
      /\ disk' = [disk EXCEPT ![call[p].run] = saved]
  BY DEF Continue, Goto, Save
<1>3. call'[p] = [call[p] EXCEPT !.at = IF @ = 8 THEN @ ELSE @ + 1, !.result = "none"]
  BY StageNames DEF Continue, TypeInv, TypeOK
<1>4. /\ call'[p] \in Call /\ call'[p].run = call[p].run /\ call'[p].result = "none"
      /\ call[p].at = 8 => call'[p].at = 8
  <2>1. Call = [run : Runs \cup {0}, at : 1..8, result : {"none", "passed", "failed", "broken", "error"},
                decision : Decisions \cup {NONE}, recorded : SUBSET {"fabric", "ethereum"}]
    BY StageNames DEF Call
  <2>2. (IF call[p].at = 8 THEN call[p].at ELSE call[p].at + 1) \in 1..8
    BY <1>1
  <2>. QED
    BY <1>1, <1>3, <2>1, <2>2
<1>5. \A q \in Procs \ {p} : pc'[q] = pc[q] /\ mem'[q] = mem[q] /\ call'[q] = call[q]
  BY DEF Continue, Goto, TypeInv, TypeOK
<1>6. call' \in [Procs -> Call]
  BY <1>4, <1>5 DEF Continue, TypeInv, TypeOK
<1>7. /\ pc' \in [Procs -> PCs] /\ mem' \in [Procs -> Run \cup {NONE}]
      /\ disk' \in [Runs -> Run \cup {NONE}]
  BY <1>2 DEF TypeInv, TypeOK, PCs, Unjudged
<1>8. Ownership'
  <2>1. pc'[p] \in {"conclude", "start"} /\ mem'[p] = run /\ disk'[call[p].run] = saved
    BY <1>1, <1>2 DEF TypeInv, TypeOK
  <2>. QED
    BY <1>1, <1>2, <1>4, <1>5, <2>1, OwnershipKept DEF Active, TypeInv, TypeOK
<1>9. InStage'
  <2>1. pc'[p] \in {"conclude", "start"} /\ (pc'[p] = "conclude" => call[p].at = 8)
    BY <1>1, <1>2, StageNames DEF Stage, TypeInv, TypeOK
  <2>. QED
    BY <1>4, <1>5, <2>1 DEF TypeInv, InStage
<1>. QED  BY <1>6, <1>7, <1>8, <1>9

(* An exception's handler ends a mandatory stage's run, or goes on.        *)
LEMMA HandleTypes ==
  ASSUME TypeInv, NEW p \in Procs, Active(p), NEW stages \in Seq(Entries), Handle(p, stages)
  PROVE  /\ disk' \in [Runs -> Run \cup {NONE}]
         /\ pc' \in [Procs -> PCs] /\ mem' \in [Procs -> Run \cup {NONE}]
         /\ call' \in [Procs -> Call]
         /\ Ownership' /\ InStage'
<1>. DEFINE more == Append(stages, Entry(p, "INFRASTRUCTURE_ERROR"))
            held == [mem[p] EXCEPT !.stages = more, !.status = "INFRASTRUCTURE_HOLD",
                                   !.stopped = Stage(p)]
            onward == [mem[p] EXCEPT !.stages = more]
<1>1. /\ Stage(p) \in Names /\ Unjudged(mem[p]) /\ Mandatory(p) \in BOOLEAN
      /\ call[p].run \in Runs
  BY StageKnown DEF TypeInv, Ownership, Active, Mandatory
<1>2. more \in Seq(Entries)
  BY <1>1 DEF Entry, Entries
<1>3. CASE Mandatory(p)
  <2>1. Save(p, held) /\ Leave(p)
    BY <1>3 DEF Handle
  <2>2. held \in Run
    BY <1>1, <1>2 DEF Unjudged, Run, Status
  <2>3. disk' \in [Runs -> Run \cup {NONE}] /\ \A r \in Runs : r # call[p].run => disk'[r] = disk[r]
    BY <2>1, <2>2 DEF Save, TypeInv, TypeOK
  <2>4. Ownership'
    BY <2>1, <2>3, LeaveTypes, OwnershipKept
  <2>. QED  BY <2>1, <2>3, <2>4, LeaveTypes
<1>4. CASE ~Mandatory(p)
  <2>. DEFINE kept == [onward EXCEPT !.blockchain = @ /\ Stage(p) # "BLOCKCHAIN"]
  <2>1. Save(p, onward) /\ Continue(p, kept)
    BY <1>4 DEF Handle
  <2>2. Unjudged(onward) /\ onward.file = mem[p].file
    BY <1>1, <1>2 DEF Unjudged, Run
  <2>3. Unjudged(kept) /\ kept.file = mem[p].file
    BY <2>2, <1>1, ZenonT(60) DEF Unjudged, Run
  <2>. QED  BY <2>1, <2>2, <2>3, ContinueTypes
<1>. QED  BY <1>1, <1>3, <1>4

LEMMA TypeStep ==
  ASSUME TypeInv, NEW p \in Procs, Step(p) \/ RecordTwice(p) \/ Die(p)
  PROVE  TypeInv'
<1>. USE DEF stores
<1>0. call[p].run \in Runs \cup {0} /\ (Active(p) => call[p].run \in Runs)
  BY DEF TypeInv, TypeOK, Ownership, Call
<1>1. CASE Begin(p)
  <2>. DEFINE r == CHOOSE q \in Runs \ Begun : TRUE
  <2>1. r \in Runs /\ disk[r] = NONE /\ pc[p] = "begin" /\ Unjudged(mem[p])
    BY <1>1 DEF Begin, Begun, TypeInv, Ownership
  <2>2. /\ call' = [call EXCEPT ![p].run = r] /\ disk' = [disk EXCEPT ![r] = mem[p]]
        /\ pc' = [pc EXCEPT ![p] = "start"]
        /\ UNCHANGED <<journal, ledger, pending, spent, mem, faults>>
    BY <1>1 DEF Begin, Goto
  <2>3. /\ call[p] = NoCall /\ call'[p] = [NoCall EXCEPT !.run = r] /\ call'[p] \in Call
    <3>1. call[p] = NoCall /\ call'[p] = [NoCall EXCEPT !.run = r]
      BY <2>1, <2>2 DEF TypeInv, TypeOK, InStage
    <3>2. [NoCall EXCEPT !.run = r] \in Call
      <4>1. NoCall \in Call
        BY StageNames DEF NoCall, Call
      <4>. QED  BY <4>1, <2>1 DEF Call
    <3>. QED  BY <3>1, <3>2
  <2>4. TypeOK'
    BY <2>1, <2>2, <2>3 DEF TypeInv, TypeOK, PCs, Unjudged
  <2>5. \A q \in Procs \ {p} : pc'[q] = pc[q] /\ mem'[q] = mem[q] /\ call'[q] = call[q]
    BY <2>2 DEF TypeInv, TypeOK
  <2>6. \A q \in Procs : Active(q) => q # p /\ call[q].run # r
    BY <2>1, NoneAssumption DEF TypeInv, Ownership, Active, Unjudged
  <2>7. Ownership'
    <3>1. pc'[p] = "start" /\ call'[p].run = r /\ mem' = mem /\ disk'[r] = mem[p]
      BY <2>1, <2>2, <2>3 DEF TypeInv, TypeOK, NoCall
    <3>2. \A q \in Procs : q # p /\ Active(q)' => Active(q) /\ disk'[call[q].run] = disk[call[q].run]
      BY <2>2, <2>5, <2>6 DEF TypeInv, TypeOK, Active, Ownership
    <3>3. \A q \in Procs : pc'[q] # "idle" => Unjudged(mem'[q])
      BY <2>1, <2>5, <3>1 DEF TypeInv, Ownership
    <3>4. ASSUME NEW q \in Procs, Active(q)'
          PROVE  /\ call'[q].run \in Runs
                 /\ Unjudged(disk'[call'[q].run]) /\ disk'[call'[q].run].file = mem'[q].file
      <4>1. CASE q = p
        BY <4>1, <2>1, <3>1
      <4>2. CASE q # p
        BY <4>2, <3>4, <2>5, <3>1, <3>2 DEF TypeInv, Ownership
      <4>. QED  BY <4>1, <4>2
    <3>5. ASSUME NEW q1 \in Procs, NEW q2 \in Procs, Active(q1)', Active(q2)',
                 call'[q1].run = call'[q2].run
          PROVE  q1 = q2
      <4>1. \A q \in Procs : q # p /\ Active(q)' => Active(q) /\ call'[q] = call[q] /\ call[q].run # r
        BY <2>5, <2>6, <3>2
      <4>. QED
        BY <3>1, <3>5, <4>1 DEF TypeInv, Ownership
    <3>. QED
      BY <3>3, <3>4, <3>5 DEF Ownership
  <2>8. InStage'
    BY <2>2, <2>3, <2>5 DEF TypeInv, TypeOK, InStage, NoCall
  <2>. QED  BY <2>4, <2>7, <2>8 DEF TypeInv
<1>2. CASE StartStage(p)
  <2>. DEFINE run == [mem[p] EXCEPT !.active = Stage(p)]
  <2>1. Active(p) /\ Unjudged(run) /\ run.file = mem[p].file
    BY <1>2, StageKnown DEF StartStage, Active, TypeInv, Ownership, Unjudged, Run
  <2>2. /\ mem' = [mem EXCEPT ![p] = run] /\ disk' = [disk EXCEPT ![call[p].run] = run]
        /\ pc' = [pc EXCEPT ![p] = "work"] /\ pc[p] = "start"
        /\ UNCHANGED <<journal, ledger, pending, spent, call, faults>>
    BY <1>2 DEF StartStage, Goto, Save
  <2>3. TypeOK'
    BY <2>1, <2>2 DEF TypeInv, TypeOK, PCs, Unjudged
  <2>4. \A q \in Procs \ {p} : pc'[q] = pc[q] /\ mem'[q] = mem[q] /\ call'[q] = call[q]
    BY <2>2 DEF TypeInv, TypeOK
  <2>5. Ownership'
    <3>1. pc'[p] = "work" /\ mem'[p] = run /\ disk'[call[p].run] = run /\ call' = call
      BY <1>0, <2>1, <2>2 DEF TypeInv, TypeOK
    <3>. QED  BY <2>1, <2>2, <2>4, <3>1, OwnershipKept, ZenonT(60) DEF Active, TypeInv, TypeOK
  <2>6. InStage'
    BY <2>2 DEF TypeInv, TypeOK, InStage
  <2>. QED  BY <2>3, <2>5, <2>6 DEF TypeInv
<1>3. CASE Ingest(p)
  <2>1. Active(p) /\ UNCHANGED <<disk, ledger, pending, spent, mem, faults>>
    BY <1>3 DEF Ingest, At, Active
  <2>2. journal' \in [Runs -> SUBSET Kinds]
    BY <1>3 DEF Ingest, Note, Kinds, TypeInv, TypeOK
  <2>3. Yield(p, {"passed", "error"}) \/ Yield(p, {"error"})
    BY <1>3 DEF Ingest
  <2>4. /\ pc' \in [Procs -> PCs] /\ call' \in [Procs -> Call] /\ Ownership' /\ InStage'
    BY <2>1, <2>3, YieldTypes
  <2>. QED  BY <2>1, <2>2, <2>4 DEF TypeInv, TypeOK
<1>4. CASE Authenticate(p)
  <2>1. Active(p) /\ UNCHANGED <<disk, journal, ledger, pending, mem, faults>>
    BY <1>4 DEF Authenticate, At, Active
  <2>2. spent' \subseteq Challenges
    <3>1. pc[p] = "work"
      BY <1>4 DEF Authenticate, At
    <3>2. mem[p].file \in Files
      BY <3>1 DEF TypeInv, Ownership, Unjudged, Run
    <3>. QED
      BY <1>4, <3>2, PipelineAssumption DEF Authenticate, TypeInv, TypeOK
  <2>3. Yield(p, {"failed", "broken", "error"}) \/ Yield(p, {"passed", "failed", "error"})
    BY <1>4 DEF Authenticate
  <2>4. /\ pc' \in [Procs -> PCs] /\ call' \in [Procs -> Call] /\ Ownership' /\ InStage'
    BY <2>1, <2>3, YieldTypes
  <2>. QED  BY <2>1, <2>2, <2>4 DEF TypeInv, TypeOK
<1>5. CASE RunHardware(p)
  <2>1. Active(p) /\ UNCHANGED <<disk, ledger, pending, spent, mem, faults>>
    BY <1>5 DEF RunHardware, At, Active
  <2>2. journal' \in [Runs -> SUBSET Kinds]
    BY <1>5 DEF RunHardware, Note, Kinds, TypeInv, TypeOK
  <2>3. Yield(p, {"passed", "failed", "broken", "error"}) \/ Yield(p, {"error"})
    BY <1>5 DEF RunHardware
  <2>4. /\ pc' \in [Procs -> PCs] /\ call' \in [Procs -> Call] /\ Ownership' /\ InStage'
    BY <2>1, <2>3, YieldTypes
  <2>. QED  BY <2>1, <2>2, <2>4 DEF TypeInv, TypeOK
<1>6. CASE RunAI(p) \/ WriteDecision(p) \/ VerifyBlockchain(p) \/ UpdateDashboard(p) \/ Decide(p)
  <2>1. Active(p) /\ UNCHANGED <<disk, journal, ledger, pending, spent, mem, faults>>
    BY <1>6 DEF RunAI, WriteDecision, VerifyBlockchain, UpdateDashboard, Decide, At, Active
  <2>2. \E results \in SUBSET {"passed", "failed", "broken", "error"} : Yield(p, results)
    BY <1>6 DEF RunAI, WriteDecision, VerifyBlockchain, UpdateDashboard, Decide
  <2>3. /\ pc' \in [Procs -> PCs] /\ call' \in [Procs -> Call] /\ Ownership' /\ InStage'
    BY <2>1, <2>2, YieldTypes
  <2>. QED  BY <2>1, <2>3 DEF TypeInv, TypeOK
<1>7. CASE Evaluate(p)
  <2>1. Active(p) /\ UNCHANGED <<disk, ledger, pending, spent, mem, faults>> /\ call[p].at = 5
    BY <1>7, StageNames DEF Evaluate, At, Active, TypeInv, TypeOK, Call
  <2>2. journal' \in [Runs -> SUBSET Kinds]
    BY <1>7 DEF Evaluate, Note, Kinds, TypeInv, TypeOK
  <2>3. CASE Yield(p, {"error"})
    <3>1. /\ pc' \in [Procs -> PCs] /\ call' \in [Procs -> Call] /\ Ownership' /\ InStage'
      BY <2>1, <2>3, YieldTypes
    <3>. QED  BY <2>1, <2>2, <3>1 DEF TypeInv, TypeOK
  <2>4. CASE /\ \E d \in Decisions : call' = [call EXCEPT ![p].decision = d]
             /\ Goto(p, "submit")
    <3>1. PICK d \in Decisions : call' = [call EXCEPT ![p].decision = d]
      BY <2>4
    <3>2. call[p] \in Call /\ call'[p] = [call[p] EXCEPT !.decision = d]
      BY <3>1 DEF TypeInv, TypeOK
    <3>3. /\ call'[p] \in Call /\ call'[p].run = call[p].run /\ call'[p].at = 5
          /\ call'[p].decision = d
      BY <2>1, <3>2 DEF Call
    <3>4. pc' = [pc EXCEPT ![p] = "submit"] /\ pc' \in [Procs -> PCs] /\ call' \in [Procs -> Call]
      BY <2>4, <3>1, <3>3 DEF Goto, TypeInv, TypeOK, PCs
    <3>. QED
      BY <2>1, <2>2, <3>1, <3>3, <3>4, LocalStep DEF Active, TypeInv, TypeOK
  <2>. QED  BY <1>7, <2>3, <2>4 DEF Evaluate
<1>8. CASE RecordOnFabric(p)
  <2>1. /\ Active(p) /\ UNCHANGED <<disk, spent, mem, faults>> /\ pc[p] = "submit"
        /\ call[p].at = 5 /\ call[p].decision \in Decisions /\ call[p].run \in Runs
    BY <1>0, <1>8 DEF RecordOnFabric, Active, TypeInv, InStage
  <2>2. /\ journal' \in [Runs -> SUBSET Kinds]
        /\ ledger' \in [Runs -> {"unknown", "committed", "anchored"}]
        /\ pending' \subseteq [run : Runs, to : {"committed", "anchored"}]
    BY <1>8, <2>1 DEF RecordOnFabric, Transact, TransactUnnoted, TimeOut, Note, Kinds,
                      TypeInv, TypeOK
  <2>3. PICK what \in SUBSET {"fabric", "ethereum"}, to \in {"anchor", "file"} :
          call' = [call EXCEPT ![p].recorded = what] /\ pc' = [pc EXCEPT ![p] = to]
    BY <1>8 DEF RecordOnFabric, Unrecorded, Goto
  <2>4. call[p] \in Call /\ call'[p] = [call[p] EXCEPT !.recorded = what]
    BY <2>3 DEF TypeInv, TypeOK
  <2>5. /\ call'[p] \in Call /\ call'[p].run = call[p].run /\ call'[p].at = 5
        /\ call'[p].decision = call[p].decision
    BY <2>1, <2>4 DEF Call
  <2>6. call' \in [Procs -> Call]
    BY <2>3, <2>5 DEF TypeInv, TypeOK
  <2>7. pc' \in [Procs -> PCs] /\ Ownership' /\ InStage'
    BY <2>1, <2>3, <2>5, LocalStep DEF PCs, TypeInv, TypeOK
  <2>. QED  BY <2>1, <2>2, <2>6, <2>7 DEF TypeInv, TypeOK
<1>9. CASE AnchorOnEthereum(p)
  <2>1. /\ Active(p) /\ UNCHANGED <<disk, spent, mem, faults>> /\ pc[p] = "anchor"
        /\ call[p].at = 5 /\ call[p].decision \in Decisions /\ call[p].run \in Runs
    BY <1>0, <1>9 DEF AnchorOnEthereum, Active, TypeInv, InStage
  <2>2. /\ journal' \in [Runs -> SUBSET Kinds]
        /\ ledger' \in [Runs -> {"unknown", "committed", "anchored"}]
        /\ pending' \subseteq [run : Runs, to : {"committed", "anchored"}]
    BY <1>9, <2>1 DEF AnchorOnEthereum, Transact, TransactUnnoted, TimeOut, Note, Kinds,
                      TypeInv, TypeOK
  <2>3. PICK what \in SUBSET {"fabric", "ethereum"} :
          call' = [call EXCEPT ![p].recorded = what] /\ pc' = [pc EXCEPT ![p] = "file"]
    <3>1. /\ pc' = [pc EXCEPT ![p] = "file"]
          /\ \/ call' = [call EXCEPT ![p].recorded = {"fabric", "ethereum"}]
             \/ call' = [call EXCEPT ![p].recorded = {}]
      BY <1>9 DEF AnchorOnEthereum, Unrecorded, Goto
    <3>2. {"fabric", "ethereum"} \in SUBSET {"fabric", "ethereum"} /\ {} \in SUBSET {"fabric", "ethereum"}
      OBVIOUS
    <3>. QED  BY <3>1, <3>2
  <2>4. call[p] \in Call /\ call'[p] = [call[p] EXCEPT !.recorded = what]
    BY <2>3 DEF TypeInv, TypeOK
  <2>5. /\ call'[p] \in Call /\ call'[p].run = call[p].run /\ call'[p].at = 5
        /\ call'[p].decision = call[p].decision
    BY <2>1, <2>4 DEF Call
  <2>6. call' \in [Procs -> Call]
    BY <2>3, <2>5 DEF TypeInv, TypeOK
  <2>7. pc' \in [Procs -> PCs] /\ Ownership' /\ InStage'
    BY <2>1, <2>3, <2>5, LocalStep DEF PCs, TypeInv, TypeOK
  <2>. QED  BY <2>1, <2>2, <2>6, <2>7 DEF TypeInv, TypeOK
<1>10. CASE RecordResult(p)
  <2>. DEFINE passed == call[p].result = "passed"
              more == Append(mem[p].stages, Entry(p, Outcome(call[p].result)))
              run  == [mem[p] EXCEPT !.stages = more]
              learnt == Learnt(p, run)
  <2>1. /\ Active(p) /\ pc[p] = "record" /\ Unjudged(mem[p]) /\ Stage(p) \in Names
        /\ Mandatory(p) \in BOOLEAN
        /\ UNCHANGED <<journal, ledger, pending, spent, faults>>
    BY <1>10, StageKnown DEF RecordResult, Active, TypeInv, Ownership, Mandatory
  <2>2. Entry(p, Outcome(call[p].result)) \in Entries
    BY <2>1, OutcomeKnown DEF Entry, Entries
  <2>3. Unjudged(run) /\ run.file = mem[p].file
    <3>1. more \in Seq(Entries)
      BY <2>1, <2>2 DEF Unjudged, Run
    <3>. QED  BY <2>1, <3>1 DEF Unjudged, Run
  <2>4. call[p].decision \in Decisions \cup {NONE}
    BY DEF TypeInv, TypeOK, Call
  <2>5. Unjudged(learnt) /\ learnt.file = mem[p].file
    BY <2>3, <2>4 DEF Unjudged, Run, Learnt
  <2>6. CASE ~passed /\ Mandatory(p)
    <3>1. /\ mem' = [mem EXCEPT ![p] = learnt] /\ pc' = [pc EXCEPT ![p] = "stop"]
          /\ call' = call /\ disk' = [disk EXCEPT ![call[p].run] = run]
      BY <1>10, <2>6 DEF RecordResult, Goto, Save
    <3>2. TypeOK'
      BY <2>1, <2>3, <2>5, <3>1 DEF TypeInv, TypeOK, PCs, Unjudged
    <3>3. /\ \A q \in Procs \ {p} : pc'[q] = pc[q] /\ mem'[q] = mem[q] /\ call'[q] = call[q]
          /\ pc'[p] = "stop" /\ mem'[p] = learnt /\ disk'[call[p].run] = run
          /\ \A r \in Runs : r # call[p].run => disk'[r] = disk[r]
      BY <1>0, <2>1, <3>1 DEF TypeInv, TypeOK
    <3>4. Ownership'
      <4>. HIDE DEF run, learnt
      <4>. QED
        BY <2>1, <2>3, <2>5, <3>1, <3>3, OwnershipKept DEF Active
    <3>5. InStage'
      BY <3>1, <3>3 DEF TypeInv, InStage
    <3>. QED  BY <3>2, <3>4, <3>5 DEF TypeInv
  <2>7. CASE ~(~passed /\ Mandatory(p))
    <3>1. Save(p, run) /\ Continue(p, learnt)
      BY <1>10, <2>7 DEF RecordResult
    <3>2. /\ disk' \in [Runs -> Run \cup {NONE}]
          /\ pc' \in [Procs -> PCs] /\ mem' \in [Procs -> Run \cup {NONE}]
          /\ call' \in [Procs -> Call] /\ Ownership' /\ InStage'
      BY <2>1, <2>3, <2>5, <3>1, ContinueTypes
    <3>. QED  BY <2>1, <3>2 DEF TypeInv, TypeOK
  <2>. QED  BY <2>6, <2>7
<1>11. CASE RecordError(p) \/ RecordTwice(p)
  <2>1. /\ Active(p) /\ Unjudged(mem[p]) /\ Stage(p) \in Names /\ Mandatory(p) \in BOOLEAN
        /\ UNCHANGED <<journal, ledger, pending, spent>> /\ faults' \in 0..MaxFaults
    <3>1. pc[p] = "record" /\ UNCHANGED <<journal, ledger, pending, spent>>
      BY <1>11 DEF RecordError, RecordTwice
    <3>2. faults' \in 0..MaxFaults
      BY <1>11, PipelineAssumption DEF RecordError, RecordTwice, TypeInv, TypeOK
    <3>3. Mandatory(p) \in BOOLEAN
      BY DEF Mandatory
    <3>. QED
      BY <3>1, <3>2, <3>3, StageKnown DEF Active, TypeInv, Ownership
  <2>2. \A status \in {"PASSED", "FAILED", "BROKEN"} : Append(mem[p].stages, Entry(p, status)) \in Seq(Entries)
    BY <2>1 DEF Entry, Entries, Unjudged, Run
  <2>3. PICK stages \in Seq(Entries) : Handle(p, stages)
    BY <1>11, <2>1, <2>2, OutcomeKnown DEF RecordError, RecordTwice, Unjudged, Run
  <2>4. /\ disk' \in [Runs -> Run \cup {NONE}]
        /\ pc' \in [Procs -> PCs] /\ mem' \in [Procs -> Run \cup {NONE}]
        /\ call' \in [Procs -> Call] /\ Ownership' /\ InStage'
    BY <2>1, <2>3, HandleTypes
  <2>. QED  BY <2>1, <2>4 DEF TypeInv, TypeOK
<1>12. CASE Stop(p) \/ Conclude(p)
  <2>1. PICK run : Save(p, run)
    BY <1>12 DEF Stop, Conclude
  <2>2. /\ Active(p) /\ Leave(p) /\ Unjudged(mem[p]) /\ Stage(p) \in Names
        /\ UNCHANGED <<journal, ledger, pending, spent, faults>>
    BY <1>12, StageKnown DEF Stop, Conclude, Active, TypeInv, Ownership
  <2>3. disk' \in [Runs -> Run \cup {NONE}] /\ \A r \in Runs : r # call[p].run => disk'[r] = disk[r]
    <3>1. CASE Stop(p)
      <4>1. StopDecision(Stage(p)) \in Verdicts
        BY DEF StopDecision, Verdicts
      <4>2. Infrastructure(Stage(p)) \in BOOLEAN
        BY DEF Infrastructure
      <4>. QED
        BY <2>2, <3>1, <4>1, <4>2 DEF Stop, Save, Unjudged, Run, Status, TypeInv, TypeOK
    <3>2. CASE Conclude(p)
      <4>1. DeploymentDecision(mem[p]) \in Verdicts
        BY DEF DeploymentDecision, Verdicts
      <4>2. "DEPLOYMENT_DECISION" \in Names
        BY StageNames DEF Stages
      <4>. QED
        BY <2>2, <3>2, <4>1, <4>2 DEF Conclude, Save, Unjudged, Run, Status, TypeInv, TypeOK
    <3>. QED  BY <1>12, <3>1, <3>2
  <2>4. Ownership'
    BY <2>2, <2>3, LeaveTypes, OwnershipKept
  <2>. QED  BY <2>2, <2>3, <2>4, LeaveTypes DEF TypeInv, TypeOK
<1>13. CASE Die(p)
  <2>1. Leave(p) /\ UNCHANGED stores /\ faults' \in 0..MaxFaults /\ pc[p] # "idle"
    BY <1>13, PipelineAssumption DEF Die, TypeInv, TypeOK
  <2>2. Ownership'
    BY <2>1, LeaveTypes DEF TypeInv, Ownership, Active
  <2>. QED  BY <2>1, <2>2, LeaveTypes DEF TypeInv, TypeOK
<1>. QED
  BY <1>1, <1>2, <1>3, <1>4, <1>5, <1>6, <1>7, <1>8, <1>9, <1>10, <1>11, <1>12, <1>13 DEF Step

(* A step of nobody's run: a new one, a ledger's, an operator's.           *)
LEMMA TypeAround ==
  ASSUME TypeInv,
         \/ \E p \in Procs, f \in Files, force \in BOOLEAN : RunFile(p, f, force)
         \/ \E t \in pending : Settle(t)
         \/ \E r \in Runs : CommitProvenance(r)
         \/ UNCHANGED vars
  PROVE  TypeInv'
<1>. USE DEF stores
<1>1. ASSUME NEW p \in Procs, NEW f \in Files, NEW force \in BOOLEAN, RunFile(p, f, force)
      PROVE  TypeInv'
  <2>1. /\ pc[p] = "idle" /\ pc' = [pc EXCEPT ![p] = "begin"]
        /\ mem' = [mem EXCEPT ![p] = NewRun(f)]
        /\ UNCHANGED <<disk, journal, ledger, pending, spent, call, faults>>
    BY <1>1 DEF RunFile, Goto
  <2>2. TypeOK'
    BY <2>1, NewRunUnjudged DEF TypeInv, TypeOK, PCs, Unjudged
  <2>3. \A q \in Procs \ {p} : pc'[q] = pc[q] /\ mem'[q] = mem[q]
    BY <2>1 DEF TypeInv, TypeOK
  <2>4. pc'[p] = "begin" /\ mem'[p] = NewRun(f)
    BY <2>1 DEF TypeInv, TypeOK
  <2>5. Ownership'
    <3>1. \A q \in Procs : Active(q)' => q # p /\ Active(q)
      BY <2>3, <2>4 DEF Active
    <3>2. \A q \in Procs : pc'[q] # "idle" => Unjudged(mem'[q])
      BY <2>3, <2>4, NewRunUnjudged DEF TypeInv, Ownership
    <3>3. \A q \in Procs : Active(q)' =>
             /\ call'[q].run \in Runs
             /\ Unjudged(disk'[call'[q].run]) /\ disk'[call'[q].run].file = mem'[q].file
      BY <2>1, <2>3, <3>1 DEF TypeInv, Ownership
    <3>4. \A q1, q2 \in Procs : Active(q1)' /\ Active(q2)' /\ call'[q1].run = call'[q2].run => q1 = q2
      BY <2>1, <3>1 DEF TypeInv, Ownership
    <3>. QED  BY <3>2, <3>3, <3>4 DEF Ownership
  <2>6. InStage'
    BY <2>1, <2>3, <2>4 DEF TypeInv, InStage
  <2>. QED  BY <2>2, <2>5, <2>6 DEF TypeInv
<1>2. ASSUME NEW t \in pending, Settle(t)
      PROVE  TypeInv'
  <2>1. t \in [run : Runs, to : {"committed", "anchored"}]
    BY <1>2 DEF TypeInv, TypeOK
  <2>2. TypeOK'
    BY <1>2, <2>1 DEF Settle, TypeInv, TypeOK
  <2>3. Ownership' /\ InStage'
    BY <1>2 DEF Settle, TypeInv, Ownership, InStage, Active
  <2>. QED  BY <2>2, <2>3 DEF TypeInv
<1>3. ASSUME NEW r \in Runs, CommitProvenance(r)
      PROVE  TypeInv'
  <2>1. TypeOK'
    BY <1>3 DEF CommitProvenance, Transact, TransactUnnoted, TimeOut, Note, Kinds, TypeInv, TypeOK
  <2>2. Ownership' /\ InStage'
    BY <1>3 DEF CommitProvenance, TypeInv, Ownership, InStage, Active
  <2>. QED  BY <2>1, <2>2 DEF TypeInv
<1>4. CASE UNCHANGED vars
  <2>1. TypeOK'
    BY <1>4 DEF vars, TypeInv, TypeOK
  <2>2. Ownership' /\ InStage'
    BY <1>4 DEF vars, TypeInv, Ownership, InStage, Active
  <2>. QED  BY <2>1, <2>2 DEF TypeInv
<1>. QED  BY <1>1, <1>2, <1>3, <1>4

(* Every variable of the pipeline keeps its type, every process works on a *)
(* run of its own, and each step is taken in its stage.                    *)
THEOREM TypeInvariant == Spec => []TypeInv
<1>1. TypeInv /\ [Next]_vars => TypeInv'
  BY TypeStep, TypeAround DEF Next
<1>. QED  BY InitTypes, <1>1, PTL DEF Spec

(* Every variable keeps its type (TypeOK), for any number of processes,    *)
(* files, runs and faults.                                                 *)
THEOREM TypeCorrect == Spec => []TypeOK
BY TypeInvariant, PTL DEF TypeInv

-----------------------------------------------------------------------------
(***************************************************************************)
(* A step of p starts a run, goes on with p's run, or ends it; it touches  *)
(* no other run and no other process.                                      *)
(***************************************************************************)
OthersKept(p) ==
  /\ \A q \in Procs \ {p} : pc'[q] = pc[q] /\ mem'[q] = mem[q] /\ call'[q] = call[q]
  /\ spent \subseteq spent' /\ (faults' = 0 => faults = 0)

OtherRunsKept(p) == \A r \in Runs : r # call[p].run => disk'[r] = disk[r]

Starts(p) ==
  /\ pc[p] = "begin" /\ Active(p)' /\ ~Authenticated(p)'
  /\ call'[p].run \in Runs /\ disk[call'[p].run] = NONE
  /\ \A r \in Runs : r # call'[p].run => disk'[r] = disk[r]

GoesOn(p) ==
  /\ Active(p) /\ Active(p)' /\ call'[p].run = call[p].run /\ OtherRunsKept(p)
  /\ mem'[p].file = mem[p].file
  /\ Authenticated(p)' =>
       \/ Authenticated(p)
       \/ Challenge[mem[p].file] \notin spent /\ Challenge[mem[p].file] \in spent'

Ends(p) ==
  /\ pc'[p] = "idle" /\ OtherRunsKept(p)
  /\ Active(p) => \/ disk'[call[p].run].status # "RUNNING"
                  \/ faults' # 0
  /\ Active(p) /\ disk'[call[p].run].decision = "DEPLOY" =>
       Authenticated(p) /\ disk'[call[p].run].file = mem[p].file

(* An entry was made for p's stage: p goes on to the next one.             *)
LEMMA ContinueGoesOn ==
  ASSUME TypeInv, NEW p \in Procs, pc[p] = "record", NEW saved, NEW run,
         run.file = mem[p].file, Save(p, saved), Continue(p, run),
         call[p].at = 2 => call[p].result = "passed"
  PROVE  GoesOn(p)
<1>1. call[p] \in Call /\ call[p].at \in 1..8 /\ call[p].run \in Runs /\ Active(p)
  BY StageNames DEF TypeInv, TypeOK, Ownership, Call, Active
<1>2. /\ pc'[p] \in {"conclude", "start"} /\ mem'[p] = run
      /\ disk' = [disk EXCEPT ![call[p].run] = saved]
  BY DEF Continue, Goto, Save, TypeInv, TypeOK
<1>3. call'[p] = [call[p] EXCEPT !.at = IF @ = 8 THEN @ ELSE @ + 1, !.result = "none"]
  BY StageNames DEF Continue, TypeInv, TypeOK
<1>4. /\ call'[p].run = call[p].run /\ call'[p].result = "none"
      /\ call'[p].at = IF call[p].at = 8 THEN 8 ELSE call[p].at + 1
  BY <1>1, <1>3 DEF Call
<1>5. Authenticated(p)' => Authenticated(p)
  BY <1>1, <1>4 DEF Authenticated
<1>6. OtherRunsKept(p)
  BY <1>2 DEF OtherRunsKept, TypeInv, TypeOK
<1>. QED
  BY <1>1, <1>2, <1>4, <1>5, <1>6 DEF GoesOn, Active

LEMMA HandleShape ==
  ASSUME TypeInv, NEW p \in Procs, pc[p] = "record", NEW stages \in Seq(Entries),
         Handle(p, stages)
  PROVE  GoesOn(p) \/ Ends(p)
<1>. DEFINE more == Append(stages, Entry(p, "INFRASTRUCTURE_ERROR"))
            held == [mem[p] EXCEPT !.stages = more, !.status = "INFRASTRUCTURE_HOLD",
                                   !.stopped = Stage(p)]
            onward == [mem[p] EXCEPT !.stages = more]
<1>1. /\ Unjudged(mem[p]) /\ Mandatory(p) \in BOOLEAN
      /\ call[p].run \in Runs /\ call[p].at \in 1..8
  BY StageNames DEF TypeInv, TypeOK, Ownership, Active, Mandatory, Call
<1>2. CASE Mandatory(p)
  <2>1. Save(p, held) /\ Leave(p)
    BY <1>2 DEF Handle
  <2>2. held.status = "INFRASTRUCTURE_HOLD" /\ held.decision = NONE
    BY <1>1 DEF Unjudged, Run
  <2>3. disk'[call[p].run] = held /\ OtherRunsKept(p)
    BY <1>1, <2>1 DEF Save, OtherRunsKept, TypeInv, TypeOK
  <2>. QED
    BY <2>1, <2>2, <2>3, LeaveTypes, NoneAssumption DEF Ends, Verdicts
<1>3. CASE ~Mandatory(p)
  <2>. DEFINE kept == [onward EXCEPT !.blockchain = @ /\ Stage(p) # "BLOCKCHAIN"]
  <2>1. Save(p, onward) /\ Continue(p, kept)
    BY <1>3 DEF Handle
  <2>2. kept.file = mem[p].file
    BY <1>1 DEF Unjudged, Run
  <2>3. call[p].at # 2
    BY <1>3, StageNames DEF Mandatory, Stage
  <2>. QED  BY <2>1, <2>2, <2>3, ContinueGoesOn
<1>. QED  BY <1>1, <1>2, <1>3

LEMMA YieldGoesOn ==
  ASSUME TypeInv, NEW p \in Procs, Active(p), NEW results, Yield(p, results),
         UNCHANGED <<disk, mem>>,
         \/ call[p].at # 2
         \/ "passed" \notin results
         \/ Challenge[mem[p].file] \notin spent /\ Challenge[mem[p].file] \in spent'
  PROVE  GoesOn(p)
<1>1. PICK result \in results : call' = [call EXCEPT ![p].result = result]
  BY DEF Yield
<1>2. call'[p] = [call[p] EXCEPT !.result = result] /\ call[p] \in Call /\ pc'[p] = "record"
  BY <1>1 DEF Yield, Goto, TypeInv, TypeOK
<1>3. call'[p].run = call[p].run /\ call'[p].at = call[p].at /\ call'[p].result = result
  BY <1>2 DEF Call
<1>. QED
  BY <1>2, <1>3 DEF GoesOn, OtherRunsKept, Authenticated, Active

LEMMA StepShape ==
  ASSUME TypeInv, NEW p \in Procs, Step(p) \/ RecordTwice(p) \/ Die(p)
  PROVE  OthersKept(p) /\ (Starts(p) \/ GoesOn(p) \/ Ends(p))
<1>. USE DEF stores
<1>1. OthersKept(p)
  <2>1. \A q \in Procs \ {p} : pc'[q] = pc[q]
    BY DEF Step, Begin, StartStage, Ingest, Authenticate, RunHardware, RunAI, Evaluate,
           RecordOnFabric, AnchorOnEthereum, WriteDecision, VerifyBlockchain, UpdateDashboard,
           Decide, RecordResult, RecordError, RecordTwice, Handle, Stop, Conclude, Die,
           Yield, Unrecorded, Continue, Leave, Goto, TypeInv, TypeOK
  <2>2. \A q \in Procs \ {p} : mem'[q] = mem[q]
    BY DEF Step, Begin, StartStage, Ingest, Authenticate, RunHardware, RunAI, Evaluate,
           RecordOnFabric, AnchorOnEthereum, WriteDecision, VerifyBlockchain, UpdateDashboard,
           Decide, RecordResult, RecordError, RecordTwice, Handle, Stop, Conclude, Die,
           Continue, Leave, TypeInv, TypeOK
  <2>3. \A q \in Procs \ {p} : call'[q] = call[q]
    BY DEF Step, Begin, StartStage, Ingest, Authenticate, RunHardware, RunAI, Evaluate,
           RecordOnFabric, AnchorOnEthereum, WriteDecision, VerifyBlockchain, UpdateDashboard,
           Decide, RecordResult, RecordError, RecordTwice, Handle, Stop, Conclude, Die,
           Yield, Unrecorded, Continue, Leave, TypeInv, TypeOK
  <2>4. spent \subseteq spent'
    BY DEF Step, Begin, StartStage, Ingest, Authenticate, RunHardware, RunAI, Evaluate,
           RecordOnFabric, AnchorOnEthereum, WriteDecision, VerifyBlockchain, UpdateDashboard,
           Decide, RecordResult, RecordError, RecordTwice, Stop, Conclude, Die
  <2>5. faults' = faults \/ faults' = faults + 1
    BY DEF Step, Begin, StartStage, Ingest, Authenticate, RunHardware, RunAI, Evaluate,
           RecordOnFabric, AnchorOnEthereum, WriteDecision, VerifyBlockchain, UpdateDashboard,
           Decide, RecordResult, RecordError, RecordTwice, Stop, Conclude, Die
  <2>6. faults' = 0 => faults = 0
    BY <2>5, PipelineAssumption DEF TypeInv, TypeOK
  <2>. QED  BY <2>1, <2>2, <2>3, <2>4, <2>6 DEF OthersKept
<1>2. call[p] \in Call /\ (Active(p) => call[p].run \in Runs /\ Unjudged(mem[p]))
  BY DEF TypeInv, TypeOK, Ownership, Active
<1>3. CASE Begin(p)
  <2>. DEFINE r == CHOOSE q \in Runs \ Begun : TRUE
  <2>1. r \in Runs /\ disk[r] = NONE /\ pc[p] = "begin" /\ call[p] = NoCall
    BY <1>3 DEF Begin, Begun, TypeInv, InStage
  <2>2. /\ call' = [call EXCEPT ![p].run = r] /\ disk' = [disk EXCEPT ![r] = mem[p]]
        /\ pc' = [pc EXCEPT ![p] = "start"]
    BY <1>3 DEF Begin, Goto
  <2>3. call'[p] = [NoCall EXCEPT !.run = r] /\ pc'[p] = "start"
    BY <2>1, <2>2 DEF TypeInv, TypeOK
  <2>4. call'[p].run = r /\ call'[p].at = 1
    BY <2>3 DEF NoCall
  <2>5. \A q \in Runs : q # r => disk'[q] = disk[q]
    BY <2>2 DEF TypeInv, TypeOK
  <2>. HIDE DEF r
  <2>6. Starts(p)
    BY <2>1, <2>3, <2>4, <2>5 DEF Starts, Active, Authenticated
  <2>. QED  BY <1>1, <2>6
<1>4. CASE StartStage(p)
  <2>1. pc[p] = "start" /\ Active(p) /\ Unjudged(mem[p]) /\ call' = call
    BY <1>4, <1>2 DEF StartStage, Active
  <2>2. /\ pc'[p] = "work" /\ mem'[p] = [mem[p] EXCEPT !.active = Stage(p)]
        /\ OtherRunsKept(p)
    BY <1>4 DEF StartStage, Goto, Save, OtherRunsKept, TypeInv, TypeOK
  <2>3. mem'[p].file = mem[p].file
    BY <2>1, <2>2 DEF Unjudged, Run
  <2>. QED
    BY <1>1, <2>1, <2>2, <2>3 DEF GoesOn, Active, Authenticated
<1>5. CASE \/ Ingest(p) \/ RunHardware(p) \/ RunAI(p) \/ VerifyBlockchain(p)
           \/ UpdateDashboard(p) \/ Decide(p)
  <2>1. /\ pc[p] = "work" /\ Active(p) /\ UNCHANGED <<disk, mem>>
        /\ Stage(p) # "PUF_AUTHENTICATION"
        /\ \E results : Yield(p, results)
    <3>1. At(p, "INGESTION") \/ At(p, "HARDWARE_SECURITY") \/ At(p, "AI_ANALYSIS")
            \/ At(p, "BLOCKCHAIN") \/ At(p, "DASHBOARD") \/ At(p, "DEPLOYMENT_DECISION")
      BY <1>5 DEF Ingest, RunHardware, RunAI, VerifyBlockchain, UpdateDashboard, Decide
    <3>2. pc[p] = "work" /\ Active(p) /\ Stage(p) # "PUF_AUTHENTICATION"
      BY <3>1 DEF At, Stage, Active
    <3>3. UNCHANGED <<disk, mem>> /\ \E results : Yield(p, results)
      BY <1>5 DEF Ingest, RunHardware, RunAI, VerifyBlockchain, UpdateDashboard, Decide
    <3>. QED  BY <3>2, <3>3
  <2>2. call[p].at # 2
    BY <2>1, StageNames DEF Stage
  <2>. QED  BY <1>1, <2>1, <2>2, YieldGoesOn
<1>6. CASE Authenticate(p)
  <2>1. pc[p] = "work" /\ Active(p) /\ UNCHANGED <<disk, mem>>
    BY <1>6 DEF Authenticate, At, Active
  <2>2. \/ Yield(p, {"failed", "broken", "error"})
        \/ /\ Challenge[mem[p].file] \notin spent /\ Challenge[mem[p].file] \in spent'
           /\ Yield(p, {"passed", "failed", "error"})
    BY <1>6 DEF Authenticate
  <2>3. "passed" \notin {"failed", "broken", "error"}
    OBVIOUS
  <2>. QED  BY <1>1, <2>1, <2>2, <2>3, YieldGoesOn
<1>7. CASE Evaluate(p)
  <2>1. /\ pc[p] = "work" /\ Active(p) /\ UNCHANGED <<disk, mem>> /\ call[p].at = 5
    <3>1. At(p, "COMPLIANCE") /\ UNCHANGED <<disk, mem>>
      BY <1>7 DEF Evaluate
    <3>2. call[p].at \in 1..8
      BY StageNames, <1>2 DEF Call
    <3>. QED  BY <3>1, <3>2, StageNames DEF At, Active
  <2>2. CASE \E results : Yield(p, results)
    BY <1>1, <2>1, <2>2, YieldGoesOn
  <2>3. CASE \E d \in Decisions : call' = [call EXCEPT ![p].decision = d] /\ Goto(p, "submit")
    <3>1. PICK d \in Decisions : call' = [call EXCEPT ![p].decision = d]
      BY <2>3
    <3>2. call'[p] = [call[p] EXCEPT !.decision = d] /\ pc'[p] = "submit"
      BY <2>3, <3>1 DEF Goto, TypeInv, TypeOK
    <3>3. call'[p].run = call[p].run /\ call'[p].at = 5
      BY <1>2, <2>1, <3>2 DEF Call
    <3>. QED
      BY <1>1, <2>1, <3>2, <3>3 DEF GoesOn, OtherRunsKept, Active, Authenticated
  <2>. QED  BY <1>7, <2>2, <2>3 DEF Evaluate
<1>8. CASE RecordOnFabric(p) \/ AnchorOnEthereum(p)
  <2>1. /\ Active(p) /\ UNCHANGED <<disk, mem>> /\ call[p].at = 5
    BY <1>8 DEF RecordOnFabric, AnchorOnEthereum, Active, TypeInv, InStage
  <2>2. /\ pc'[p] \in {"anchor", "file"}
        /\ \E what : call' = [call EXCEPT ![p].recorded = what]
    BY <1>8 DEF RecordOnFabric, AnchorOnEthereum, Unrecorded, Goto, TypeInv, TypeOK
  <2>3. PICK what : call' = [call EXCEPT ![p].recorded = what]
    BY <2>2
  <2>4. call'[p] = [call[p] EXCEPT !.recorded = what]
    BY <2>3 DEF TypeInv, TypeOK
  <2>5. call'[p].run = call[p].run /\ call'[p].at = 5
    BY <1>2, <2>1, <2>4 DEF Call
  <2>. QED
    BY <1>1, <2>1, <2>2, <2>5 DEF GoesOn, OtherRunsKept, Active, Authenticated
<1>9. CASE WriteDecision(p)
  <2>1. /\ Active(p) /\ UNCHANGED <<disk, mem>> /\ call[p].at = 5
        /\ Yield(p, {"passed", "error"})
    BY <1>9 DEF WriteDecision, Active, TypeInv, InStage
  <2>. QED  BY <1>1, <2>1, YieldGoesOn
<1>10. CASE RecordResult(p)
  <2>. DEFINE passed == call[p].result = "passed"
              run    == [mem[p] EXCEPT !.stages =
                           Append(@, Entry(p, Outcome(call[p].result)))]
              learnt == Learnt(p, run)
  <2>1. /\ Active(p) /\ pc[p] = "record" /\ Unjudged(mem[p]) /\ Save(p, run)
    BY <1>10, <1>2 DEF RecordResult, Active
  <2>2. learnt.file = mem[p].file
    BY <2>1 DEF Unjudged, Run, Learnt
  <2>3. CASE ~passed /\ Mandatory(p)
    <3>1. /\ mem' = [mem EXCEPT ![p] = learnt] /\ pc' = [pc EXCEPT ![p] = "stop"]
          /\ call' = call /\ disk' = [disk EXCEPT ![call[p].run] = run]
      BY <1>10, <2>3 DEF RecordResult, Goto, Save
    <3>2. mem'[p] = learnt /\ pc'[p] = "stop" /\ OtherRunsKept(p)
      BY <3>1 DEF OtherRunsKept, TypeInv, TypeOK
    <3>. HIDE DEF learnt
    <3>. QED
      BY <1>1, <2>1, <2>2, <3>1, <3>2 DEF GoesOn, Active, Authenticated
  <2>4. CASE ~(~passed /\ Mandatory(p))
    <3>1. Continue(p, learnt)
      BY <1>10, <2>4 DEF RecordResult
    <3>2. call[p].at = 2 => call[p].result = "passed"
      BY <2>4, StageNames DEF Mandatory, Stage
    <3>. HIDE DEF learnt, run
    <3>. QED  BY <1>1, <2>1, <2>2, <3>1, <3>2, ContinueGoesOn
  <2>. QED  BY <2>3, <2>4
<1>11. CASE RecordError(p) \/ RecordTwice(p)
  <2>1. pc[p] = "record" /\ Unjudged(mem[p]) /\ Stage(p) \in Names /\ Mandatory(p) \in BOOLEAN
    BY <1>11, <1>2, StageKnown DEF RecordError, RecordTwice, Active, Mandatory, TypeInv
  <2>2. \A status \in {"PASSED", "FAILED", "BROKEN"} : Append(mem[p].stages, Entry(p, status)) \in Seq(Entries)
    BY <2>1 DEF Entry, Entries, Unjudged, Run
  <2>3. PICK stages \in Seq(Entries) : Handle(p, stages)
    BY <1>11, <2>1, <2>2, OutcomeKnown DEF RecordError, RecordTwice, Unjudged, Run
  <2>. QED  BY <1>1, <2>1, <2>3, HandleShape
<1>12. CASE Stop(p)
  <2>. DEFINE verdict == [mem[p] EXCEPT !.stopped = Stage(p), !.decision = StopDecision(Stage(p)),
                !.status = IF Infrastructure(Stage(p)) THEN "INFRASTRUCTURE_HOLD" ELSE "STOPPED",
                !.quarantined = ~Infrastructure(Stage(p))]
  <2>1. Active(p) /\ Unjudged(mem[p]) /\ Leave(p) /\ Save(p, verdict)
    BY <1>12, <1>2 DEF Stop, Active
  <2>2. disk'[call[p].run] = verdict /\ OtherRunsKept(p)
    BY <1>2, <2>1 DEF Save, OtherRunsKept, TypeInv, TypeOK
  <2>3. verdict.status # "RUNNING" /\ verdict.decision # "DEPLOY"
    BY <2>1 DEF Unjudged, Run, StopDecision
  <2>. QED
    BY <1>1, <2>1, <2>2, <2>3, LeaveTypes DEF Ends
<1>13. CASE Conclude(p)
  <2>. DEFINE decision == DeploymentDecision(mem[p])
              review   == decision = "DO_NOT_DEPLOY_PENDING_REVIEW"
              verdict  == IF decision = "DEPLOY"
                THEN [mem[p] EXCEPT !.decision = decision, !.status = "COMPLETED"]
                ELSE [mem[p] EXCEPT !.decision = decision, !.stopped = "DEPLOYMENT_DECISION",
                        !.status = IF review THEN "MANUAL_REVIEW" ELSE "STOPPED",
                        !.quarantined = ~review]
  <2>1. /\ Active(p) /\ Unjudged(mem[p]) /\ Leave(p) /\ Save(p, verdict)
        /\ call[p].at = 8
    BY <1>13, <1>2 DEF Conclude, Active, TypeInv, InStage
  <2>2. disk'[call[p].run] = verdict /\ OtherRunsKept(p)
    BY <1>2, <2>1 DEF Save, OtherRunsKept, TypeInv, TypeOK
  <2>3. verdict.status # "RUNNING" /\ verdict.file = mem[p].file
    BY <2>1 DEF Unjudged, Run
  <2>4. Authenticated(p)
    BY <2>1 DEF Authenticated
  <2>. HIDE DEF verdict
  <2>. QED
    BY <1>1, <2>1, <2>2, <2>3, <2>4, LeaveTypes DEF Ends
<1>14. CASE Die(p)
  <2>1. Leave(p) /\ disk' = disk /\ faults' # 0
    BY <1>14 DEF Die, TypeInv, TypeOK
  <2>2. Active(p) => disk[call[p].run].decision # "DEPLOY"
    BY NoneAssumption DEF TypeInv, Ownership, Unjudged, Verdicts
  <2>. QED
    BY <1>1, <2>1, <2>2, LeaveTypes DEF Ends, OtherRunsKept
<1>. QED
  BY <1>3, <1>4, <1>5, <1>6, <1>7, <1>8, <1>9, <1>10, <1>11, <1>12, <1>13, <1>14 DEF Step

(* What happens around the runs leaves every file, and whoever works on a  *)
(* run, as they are.                                                       *)
LEMMA AroundShape ==
  ASSUME TypeInv,
         \/ \E p \in Procs, f \in Files, force \in BOOLEAN : RunFile(p, f, force)
         \/ \E t \in pending : Settle(t)
         \/ \E r \in Runs : CommitProvenance(r)
         \/ UNCHANGED vars
  PROVE  /\ UNCHANGED <<disk, spent, call, faults>>
         /\ \A q \in Procs : Active(q)' <=> Active(q)
         /\ \A q \in Procs : Active(q) => mem'[q] = mem[q]
<1>. USE DEF stores
<1>1. UNCHANGED <<disk, spent, call, faults>>
  BY DEF RunFile, Settle, CommitProvenance, vars
<1>2. CASE UNCHANGED <<pc, mem>>
  BY <1>1, <1>2 DEF Active
<1>3. ASSUME NEW p \in Procs, NEW f \in Files, NEW force \in BOOLEAN, RunFile(p, f, force)
      PROVE  /\ \A q \in Procs : Active(q)' <=> Active(q)
             /\ \A q \in Procs : Active(q) => mem'[q] = mem[q]
  <2>1. /\ pc[p] = "idle" /\ pc'[p] = "begin"
        /\ \A q \in Procs \ {p} : pc'[q] = pc[q] /\ mem'[q] = mem[q]
    BY <1>3 DEF RunFile, Goto, TypeInv, TypeOK
  <2>. QED  BY <2>1 DEF Active
<1>. QED
  BY <1>1, <1>2, <1>3 DEF Settle, CommitProvenance, vars

(* Every step of the system, by its shape.                                 *)
LEMMA NextShape ==
  ASSUME TypeInv, [Next]_vars
  PROVE  \/ \E p \in Procs : OthersKept(p) /\ (Starts(p) \/ GoesOn(p) \/ Ends(p))
         \/ /\ UNCHANGED <<disk, spent, call, faults>>
            /\ \A q \in Procs : Active(q)' <=> Active(q)
            /\ \A q \in Procs : Active(q) => mem'[q] = mem[q]
BY StepShape, AroundShape DEF Next

-----------------------------------------------------------------------------
(* A run that has just begun, or goes on, is not deployed.                 *)
LEMMA UnjudgedNotDeployed ==
  ASSUME TypeInv, NEW p \in Procs, Active(p)
  PROVE  ~Deployed(call[p].run)
BY NoneAssumption DEF TypeInv, Ownership, Unjudged, Deployed, Verdicts

LEMMA InitExclusion == Init => Exclusion
BY DEF Init, Exclusion, Authenticated, Active, Deployed, DeployedOnce

(***************************************************************************)
(* The heart of the argument: authentication consumes the challenge, so    *)
(* the process that gets past it is alone, and its run deploys alone.      *)
(***************************************************************************)
LEMMA ExclusionStep ==
  ASSUME IInv, TypeInv', NEW p \in Procs, OthersKept(p), Starts(p) \/ GoesOn(p) \/ Ends(p)
  PROVE  Exclusion'
<1>1. \A q \in Procs \ {p} : /\ Active(q)' <=> Active(q)
                             /\ Authenticated(q)' <=> Authenticated(q)
                             /\ Authenticated(q) => mem'[q] = mem[q]
  BY DEF OthersKept, Active, Authenticated
<1>2. spent \subseteq spent'
  BY DEF OthersKept
<1>3. CASE Starts(p) \/ GoesOn(p)
  <2>1. \A r \in Runs : Deployed(r)' => Deployed(r) /\ disk'[r] = disk[r]
    <3>1. \A r \in Runs : r # call'[p].run => disk'[r] = disk[r]
      BY <1>3 DEF Starts, GoesOn, OtherRunsKept
    <3>2. disk'[call'[p].run].decision # "DEPLOY"
      <4>1. Active(p)'
        BY <1>3 DEF Starts, GoesOn
      <4>. QED
        BY <4>1, NoneAssumption DEF TypeInv, Ownership, Unjudged, Verdicts
    <3>. QED  BY <3>1, <3>2 DEF Deployed
  <2>2. CASE Authenticated(p)' => Authenticated(p) /\ mem'[p].file = mem[p].file
    BY <1>1, <1>2, <2>1, <2>2 DEF IInv, Exclusion, DeployedOnce
  <2>3. CASE /\ mem'[p].file = mem[p].file
             /\ Challenge[mem[p].file] \notin spent /\ Challenge[mem[p].file] \in spent'
    BY <1>1, <1>2, <2>1, <2>3 DEF IInv, Exclusion, DeployedOnce
  <2>. QED  BY <1>3, <2>2, <2>3 DEF Starts, GoesOn
<1>4. CASE Ends(p)
  <2>1. ~Authenticated(p)'
    BY <1>4 DEF Ends, Authenticated, Active
  <2>2. \A r \in Runs : r # call[p].run => disk'[r] = disk[r]
    BY <1>4 DEF Ends, OtherRunsKept
  <2>3. CASE Active(p) /\ disk'[call[p].run].decision = "DEPLOY"
    <3>1. /\ Authenticated(p) /\ call[p].run \in Runs
          /\ disk'[call[p].run].file = mem[p].file
      BY <1>4, <2>3 DEF Ends, IInv, TypeInv, Ownership
    <3>2. Challenge[mem[p].file] \in spent
      BY <3>1 DEF IInv, Exclusion
    <3>3. \A r \in Runs : Deployed(r)' /\ r # call[p].run => Deployed(r) /\ disk'[r] = disk[r]
      BY <2>2 DEF Deployed
    <3>4. \A r \in Runs : Deployed(r)' /\ r # call[p].run =>
             /\ Challenge[disk'[r].file] # Challenge[mem[p].file]
             /\ Challenge[disk'[r].file] \in spent
      BY <3>1, <3>3 DEF IInv, Exclusion
    <3>5. \A q \in Procs : Authenticated(q)' =>
             /\ Authenticated(q) /\ mem'[q] = mem[q]
             /\ Challenge[mem[q].file] # Challenge[mem[p].file]
      BY <1>1, <2>1, <3>1 DEF IInv, Exclusion
    <3>6. \A r \in Runs : Deployed(r)' => Challenge[disk'[r].file] \in spent'
      BY <1>2, <3>1, <3>2, <3>4
    <3>7. \A q \in Procs, r \in Runs :
            ~(/\ Authenticated(q)' /\ Deployed(r)'
              /\ Challenge[mem'[q].file] = Challenge[disk'[r].file])
      BY <3>1, <3>3, <3>5 DEF IInv, Exclusion
    <3>8. DeployedOnce'
      <4>. SUFFICES ASSUME NEW q \in Runs, NEW r \in Runs, Deployed(q)', Deployed(r)',
                           Challenge[disk'[q].file] = Challenge[disk'[r].file]
                    PROVE  q = r
        BY DEF DeployedOnce
      <4>1. CASE q = call[p].run \/ r = call[p].run
        BY <3>1, <3>4, <4>1
      <4>2. CASE q # call[p].run /\ r # call[p].run
        BY <3>3, <4>2 DEF IInv, Exclusion, DeployedOnce
      <4>. QED  BY <4>1, <4>2
    <3>9. /\ \A q \in Procs : Authenticated(q)' => Challenge[mem'[q].file] \in spent'
          /\ \A q1, q2 \in Procs :
               /\ Authenticated(q1)' /\ Authenticated(q2)'
               /\ Challenge[mem'[q1].file] = Challenge[mem'[q2].file]
               => q1 = q2
      BY <1>2, <3>5 DEF IInv, Exclusion
    <3>. QED  BY <3>6, <3>7, <3>8, <3>9 DEF Exclusion
  <2>4. CASE ~(Active(p) /\ disk'[call[p].run].decision = "DEPLOY")
    <3>1. \A r \in Runs : Deployed(r)' => Deployed(r) /\ disk'[r] = disk[r]
      <4>1. CASE Active(p)
        BY <2>2, <2>4, <4>1 DEF Deployed
      <4>2. CASE ~Active(p)
        <5>1. call[p].run \notin Runs
          <6>1. call[p] = NoCall
            BY <4>2 DEF Active, IInv, TypeInv, InStage
          <6>. QED  BY <6>1, PipelineAssumption DEF NoCall, Runs
        <5>. QED  BY <2>2, <5>1 DEF Deployed
      <4>. QED  BY <4>1, <4>2
    <3>. QED
      BY <1>1, <1>2, <2>1, <3>1 DEF IInv, Exclusion, DeployedOnce
  <2>. QED  BY <2>3, <2>4
<1>. QED  BY <1>3, <1>4

LEMMA ExclusionKept ==
  ASSUME IInv, [Next]_vars
  PROVE  IInv'
<1>1. TypeInv'
  BY TypeStep, TypeAround DEF Next, IInv
<1>2. CASE \E p \in Procs : OthersKept(p) /\ (Starts(p) \/ GoesOn(p) \/ Ends(p))
  BY <1>1, <1>2, ExclusionStep DEF IInv
<1>3. CASE /\ UNCHANGED <<disk, spent, call, faults>>
           /\ \A q \in Procs : Active(q)' <=> Active(q)
           /\ \A q \in Procs : Active(q) => mem'[q] = mem[q]
  <2>1. \A q \in Procs : Authenticated(q)' => Authenticated(q) /\ mem'[q] = mem[q]
    BY <1>3 DEF Authenticated
  <2>2. \A r \in Runs : Deployed(r)' => Deployed(r) /\ disk'[r] = disk[r]
    BY <1>3 DEF Deployed
  <2>3. Exclusion'
    BY <1>3, <2>1, <2>2 DEF IInv, Exclusion, DeployedOnce
  <2>. QED  BY <1>1, <2>3 DEF IInv
<1>. QED  BY <1>2, <1>3, NextShape DEF IInv

(* Two runs that authenticate with the same challenge are never both told  *)
(* to deploy (DeployedOnce), however many processes run however many files *)
(* that carry it, and whoever dies on the way.                             *)
THEOREM OneDeployment == Spec => []DeployedOnce
<1>1. Init => IInv
  BY InitTypes, InitExclusion DEF IInv
<1>2. IInv => DeployedOnce
  BY DEF IInv, Exclusion
<1>. QED  BY <1>1, <1>2, ExclusionKept, PTL DEF Spec

-----------------------------------------------------------------------------
(* A run shows as RUNNING only while somebody works on it, as long as no   *)
(* process dies and no save fails (RunningAttended).                       *)
THEOREM NobodyAbandons == Spec => []RunningAttended
<1>1. Init => RunningAttended
  BY DEF Init, RunningAttended
<1>2. TypeInv /\ TypeInv' /\ RunningAttended /\ [Next]_vars => RunningAttended'
  <2>. SUFFICES ASSUME TypeInv, TypeInv', RunningAttended, [Next]_vars,
                       NEW r \in Runs, disk'[r] # NONE, disk'[r].status = "RUNNING", faults' = 0
                PROVE  \E q \in Procs : pc'[q] # "idle" /\ call'[q].run = r
    BY DEF RunningAttended
  <2>1. ASSUME disk'[r] = disk[r], faults = 0
        PROVE  \E q \in Procs : Active(q) /\ call[q].run = r
    <3>1. PICK q \in Procs : pc[q] # "idle" /\ call[q].run = r
      BY <2>1 DEF RunningAttended
    <3>2. pc[q] # "begin"
      BY <3>1, PipelineAssumption DEF TypeInv, InStage, NoCall, Runs
    <3>. QED  BY <3>1, <3>2 DEF Active
  <2>2. ASSUME NEW p \in Procs, OthersKept(p), Starts(p) \/ GoesOn(p) \/ Ends(p)
        PROVE  \E q \in Procs : pc'[q] # "idle" /\ call'[q].run = r
    <3>1. faults = 0
      BY <2>2 DEF OthersKept
    <3>2. \A q \in Procs \ {p} : pc'[q] = pc[q] /\ call'[q] = call[q]
      BY <2>2 DEF OthersKept
    <3>3. CASE Starts(p)
      <4>1. Active(p)' /\ (r # call'[p].run => disk'[r] = disk[r])
        BY <3>3 DEF Starts
      <4>2. CASE r # call'[p].run
        <5>1. PICK q \in Procs : Active(q) /\ call[q].run = r
          BY <2>1, <3>1, <4>1, <4>2
        <5>2. q # p
          BY <3>3, <5>1 DEF Starts, Active
        <5>. QED  BY <3>2, <5>1, <5>2 DEF Active
      <4>. QED  BY <4>1, <4>2 DEF Active
    <3>4. CASE GoesOn(p)
      <4>1. Active(p)' /\ call'[p].run = call[p].run /\ (r # call[p].run => disk'[r] = disk[r])
        BY <3>4 DEF GoesOn, OtherRunsKept
      <4>2. CASE r # call[p].run
        <5>1. PICK q \in Procs : Active(q) /\ call[q].run = r
          BY <2>1, <3>1, <4>1, <4>2
        <5>. QED  BY <3>2, <4>2, <5>1 DEF Active
      <4>. QED  BY <4>1, <4>2 DEF Active
    <3>5. CASE Ends(p)
      <4>1. r # call[p].run
        <5>1. CASE Active(p)
          BY <3>5, <5>1 DEF Ends
        <5>2. CASE ~Active(p)
          BY <5>2, PipelineAssumption DEF TypeInv, InStage, Active, NoCall, Runs
        <5>. QED  BY <5>1, <5>2
      <4>2. PICK q \in Procs : Active(q) /\ call[q].run = r
        BY <2>1, <3>1, <3>5, <4>1 DEF Ends, OtherRunsKept
      <4>. QED  BY <3>2, <4>1, <4>2 DEF Active
    <3>. QED  BY <2>2, <3>3, <3>4, <3>5
  <2>3. CASE /\ UNCHANGED <<disk, spent, call, faults>>
             /\ \A q \in Procs : Active(q)' <=> Active(q)
    BY <2>1, <2>3 DEF Active
  <2>. QED  BY <2>2, <2>3, NextShape
<1>. QED  BY <1>1, <1>2, TypeInvariant, PTL DEF Spec

(* No step of anybody's changes the file of a run that has its verdict     *)
(* (VerdictStays).                                                         *)
THEOREM VerdictsAreFinal == Spec => VerdictStays
<1>1. ASSUME TypeInv, [Next]_vars, NEW r \in Runs, disk[r] # NONE, disk[r].status # "RUNNING"
      PROVE  disk'[r] = disk[r]
  <2>1. ASSUME NEW p \in Procs, Starts(p) \/ GoesOn(p) \/ Ends(p)
        PROVE  disk'[r] = disk[r]
    <3>1. CASE Starts(p)
      BY <1>1, <3>1 DEF Starts
    <3>2. CASE GoesOn(p) \/ Ends(p)
      <4>1. OtherRunsKept(p)
        BY <3>2 DEF GoesOn, Ends
      <4>2. r # call[p].run
        <5>1. CASE Active(p)
          BY <1>1, <5>1 DEF TypeInv, Ownership, Unjudged
        <5>2. CASE ~Active(p)
          BY <5>2, <1>1, PipelineAssumption DEF TypeInv, InStage, Active, NoCall, Runs
        <5>. QED  BY <5>1, <5>2
      <4>. QED  BY <4>1, <4>2 DEF OtherRunsKept
    <3>. QED  BY <2>1, <3>1, <3>2
  <2>. QED  BY <1>1, <2>1, NextShape
<1>2. TypeInv /\ [Next]_vars =>
        [\A r \in Runs : disk[r] # NONE /\ disk[r].status # "RUNNING" => disk'[r] = disk[r]]_vars
  BY <1>1
<1>. QED  BY <1>2, TypeInvariant, PTL DEF Spec, VerdictStays
-----------------------------------------------------------------------------
(* What the journal and the ledgers hold of a run they keep; only the      *)
(* stage that is at work adds to what a later stage relies on.             *)
KeptOfRuns ==
  \A r \in Runs : /\ journal[r] \subseteq journal'[r]
                  /\ ledger[r] = "anchored" => ledger'[r] = "anchored"

NotesOwn(p) ==
  \A r \in Runs :
    /\ journal'[r] # journal[r] => Active(p) /\ r = call[p].run
    /\ "hardware" \in journal'[r] =>
         \/ "hardware" \in journal[r]
         \/ pc[p] = "work" /\ Stage(p) = "HARDWARE_SECURITY"
    /\ "compliance.completed" \in journal'[r] =>
         \/ "compliance.completed" \in journal[r]
         \/ pc[p] = "work" /\ Stage(p) = "COMPLIANCE"

LEMMA NoteKeeps ==
  ASSUME TypeOK, NEW p \in Procs, Active(p), NEW kind,
         journal' = journal \/ Note(call[p].run, kind),
         kind = "hardware" => pc[p] = "work" /\ Stage(p) = "HARDWARE_SECURITY",
         kind = "compliance.completed" => pc[p] = "work" /\ Stage(p) = "COMPLIANCE"
  PROVE  NotesOwn(p) /\ \A r \in Runs : journal[r] \subseteq journal'[r]
BY DEF TypeOK, Note, NotesOwn

LEMMA StepKeeps ==
  ASSUME TypeInv, NEW p \in Procs, Step(p) \/ RecordTwice(p) \/ Die(p)
  PROVE  KeptOfRuns /\ NotesOwn(p)
<1>. USE DEF stores
<1>1. CASE UNCHANGED <<journal, ledger>>
  BY <1>1 DEF KeptOfRuns, NotesOwn
<1>2. CASE Ingest(p) \/ RunHardware(p) \/ Evaluate(p)
  <2>1. PICK kind \in {"scan.accepted", "hardware", "compliance.completed"} :
          /\ Note(call[p].run, kind) \/ journal' = journal
          /\ kind = "hardware" => Stage(p) = "HARDWARE_SECURITY"
          /\ kind = "compliance.completed" => Stage(p) = "COMPLIANCE"
    BY <1>2 DEF Ingest, RunHardware, Evaluate, At, Stage
  <2>2. Active(p) /\ pc[p] = "work" /\ ledger' = ledger
    BY <1>2 DEF Ingest, RunHardware, Evaluate, At, Active
  <2>. QED  BY <2>1, <2>2, NoteKeeps DEF KeptOfRuns, TypeInv
<1>3. CASE RecordOnFabric(p) \/ AnchorOnEthereum(p)
  <2>1. Active(p)
    BY <1>3 DEF RecordOnFabric, AnchorOnEthereum, Active
  <2>2. PICK kind \in {"fabric.committed", "ethereum.anchor_confirmed"} :
          journal' = journal \/ Note(call[p].run, kind)
    BY <1>3 DEF RecordOnFabric, AnchorOnEthereum, Transact, TransactUnnoted, TimeOut
  <2>3. \/ ledger' = ledger
        \/ \E to : ledger[call[p].run] # "anchored" /\ ledger' = [ledger EXCEPT ![call[p].run] = to]
    BY <1>3 DEF RecordOnFabric, AnchorOnEthereum, Transact, TransactUnnoted, TimeOut
  <2>4. \A r \in Runs : ledger[r] = "anchored" => ledger'[r] = "anchored"
    BY <2>3 DEF TypeInv, TypeOK
  <2>5. NotesOwn(p) /\ \A r \in Runs : journal[r] \subseteq journal'[r]
    BY <2>1, <2>2, NoteKeeps DEF TypeInv
  <2>. QED  BY <2>4, <2>5 DEF KeptOfRuns
<1>. QED
  BY <1>1, <1>2, <1>3 DEF Step, Begin, StartStage, Authenticate, RunAI, WriteDecision,
     VerifyBlockchain, UpdateDashboard, Decide, RecordResult, RecordError, RecordTwice, Stop,
     Conclude, Die

LEMMA AroundKeeps ==
  ASSUME TypeInv, Evidence,
         \/ \E p \in Procs, f \in Files, force \in BOOLEAN : RunFile(p, f, force)
         \/ \E t \in pending : Settle(t)
         \/ \E r \in Runs : CommitProvenance(r)
         \/ UNCHANGED vars
  PROVE  /\ KeptOfRuns
         /\ \A r \in Runs :
              /\ disk[r] = NONE => journal'[r] = journal[r]
              /\ "hardware" \in journal'[r] => "hardware" \in journal[r]
              /\ "compliance.completed" \in journal'[r] => "compliance.completed" \in journal[r]
<1>. USE DEF stores
<1>1. CASE UNCHANGED <<journal, ledger>>
  BY <1>1 DEF KeptOfRuns
<1>2. ASSUME NEW t \in pending, Settle(t)
      PROVE  journal' = journal /\ KeptOfRuns
  BY <1>2 DEF Settle, KeptOfRuns, TypeInv, TypeOK
<1>3. ASSUME NEW r \in Runs, CommitProvenance(r)
      PROVE  /\ \A q \in Runs \ {r} : journal'[q] = journal[q] /\ ledger'[q] = ledger[q]
             /\ disk[r] # NONE /\ ledger[r] # "anchored"
             /\ journal[r] \subseteq journal'[r]
             /\ journal'[r] \subseteq journal[r] \cup {"fabric.committed", "ethereum.anchor_confirmed"}
  BY <1>3 DEF CommitProvenance, Transact, TransactUnnoted, TimeOut, Note, TypeInv, TypeOK, Evidence
<1>4. ASSUME NEW r \in Runs, CommitProvenance(r)
      PROVE  /\ KeptOfRuns
             /\ \A q \in Runs :
                  /\ disk[q] = NONE => journal'[q] = journal[q]
                  /\ "hardware" \in journal'[q] => "hardware" \in journal[q]
                  /\ "compliance.completed" \in journal'[q] => "compliance.completed" \in journal[q]
  BY <1>3, <1>4 DEF KeptOfRuns
<1>5. CASE \E p \in Procs, f \in Files, force \in BOOLEAN : RunFile(p, f, force)
  BY <1>1, <1>5 DEF RunFile
<1>. QED  BY <1>1, <1>2, <1>4, <1>5 DEF vars
-----------------------------------------------------------------------------
(* What a step of p makes of its run's entries: the same ones, or one or   *)
(* two more for the stage p is in.                                         *)
OwnEntry(p, e) ==
  /\ e \in Entries /\ e.stage = Stage(p) /\ e.mandatory = Mandatory(p)
  /\ e.status = "PASSED" => call[p].result = "passed"

Grown(p, old, new) ==
  \/ new = old
  \/ /\ pc[p] = "record"
     /\ \/ \E e \in Entries : OwnEntry(p, e) /\ new = Append(old, e)
        \/ \E e, f \in Entries : /\ OwnEntry(p, e) /\ OwnEntry(p, f)
                                 /\ new = Append(Append(old, e), f)

(* A step that is not the last one of a completed run.                     *)
Goes(p) ==
  LET run == disk'[call[p].run]
  IN  /\ run \in Run /\ Grown(p, mem[p].stages, run.stages)
      /\ pc[p] # "conclude" =>
           /\ run.status # "COMPLETED" /\ run.decision # "DEPLOY"
           /\ run.quarantined => pc[p] = "stop" /\ ~Infrastructure(Stage(p))

LEMMA OwnEntries ==
  ASSUME TypeInv, NEW p \in Procs,
         NEW status \in {"PASSED", "FAILED", "BROKEN", "INFRASTRUCTURE_ERROR"},
         status = "PASSED" => call[p].result = "passed"
  PROVE  OwnEntry(p, Entry(p, status)) /\ Entry(p, status) \in Entries
BY StageKnown DEF OwnEntry, Entry, Entries, Mandatory, TypeInv

LEMMA HandleGoes ==
  ASSUME TypeInv, NEW p \in Procs, Diligent(p), pc[p] = "record", NEW stages \in Seq(Entries),
         Handle(p, stages),
         \/ stages = mem[p].stages
         \/ \E e \in Entries : OwnEntry(p, e) /\ stages = Append(mem[p].stages, e)
  PROVE  Goes(p)
<1>. DEFINE entry == Entry(p, "INFRASTRUCTURE_ERROR")
            more  == Append(stages, entry)
            held  == [mem[p] EXCEPT !.stages = more, !.status = "INFRASTRUCTURE_HOLD",
                                    !.stopped = Stage(p)]
            onward == [mem[p] EXCEPT !.stages = more]
            run   == IF Mandatory(p) THEN held ELSE onward
<1>1. /\ Unjudged(mem[p]) /\ ~mem[p].quarantined /\ call[p].run \in Runs
  BY DEF TypeInv, Ownership, Active, Diligent
<1>2. disk'[call[p].run] = run
  BY <1>1 DEF Handle, Save, TypeInv, TypeOK
<1>4. OwnEntry(p, entry) /\ entry \in Entries
  BY OwnEntries, OutcomeKnown
<1>3. /\ run.stages = more /\ run.status \in {"RUNNING", "INFRASTRUCTURE_HOLD"}
      /\ run.decision = NONE /\ ~run.quarantined /\ run \in Run
  <2>1. more \in Seq(Entries) /\ Stage(p) \in Names
    BY <1>4, StageKnown DEF TypeInv
  <2>. HIDE DEF entry, more
  <2>. QED  BY <1>1, <2>1 DEF Unjudged, Run, Status
<1>. HIDE DEF entry, run
<1>5. Grown(p, mem[p].stages, more)
  BY <1>4 DEF Grown
<1>. HIDE DEF more
<1>. QED
  BY <1>2, <1>3, <1>5, NoneAssumption DEF Goes, Verdicts

LEMMA StepGoes ==
  ASSUME TypeInv, NEW p \in Procs, Diligent(p), Active(p), Step(p) \/ RecordTwice(p) \/ Die(p)
  PROVE  Goes(p)
<1>. USE DEF stores
<1>1. /\ Unjudged(mem[p]) /\ ~mem[p].quarantined /\ call[p].run \in Runs
      /\ Unjudged(disk[call[p].run]) /\ disk[call[p].run].stages = mem[p].stages
      /\ ~disk[call[p].run].quarantined
  BY DEF TypeInv, Ownership, Active, Diligent
<1>2. CASE disk' = disk
  BY <1>1, <1>2, NoneAssumption DEF Goes, Grown, Unjudged, Verdicts
<1>3. CASE StartStage(p)
  <2>1. disk'[call[p].run] = [mem[p] EXCEPT !.active = Stage(p)]
    BY <1>1, <1>3 DEF StartStage, Save, TypeInv, TypeOK
  <2>2. /\ disk'[call[p].run].stages = mem[p].stages /\ disk'[call[p].run].status = "RUNNING"
        /\ disk'[call[p].run].decision = NONE /\ ~disk'[call[p].run].quarantined
        /\ disk'[call[p].run] \in Run
    BY <1>1, <2>1, StageKnown DEF Unjudged, Run, TypeInv
  <2>. QED
    BY <2>2, NoneAssumption DEF Goes, Grown, Verdicts
<1>4. CASE RecordResult(p)
  <2>. DEFINE passed == call[p].result = "passed"
              entry  == Entry(p, Outcome(call[p].result))
              more   == Append(mem[p].stages, entry)
  <2>1. disk'[call[p].run] = [mem[p] EXCEPT !.stages = more] /\ pc[p] = "record"
    BY <1>1, <1>4 DEF RecordResult, Save, TypeInv, TypeOK
  <2>3. OwnEntry(p, entry) /\ entry \in Entries
    BY OwnEntries, OutcomeKnown
  <2>2. /\ disk'[call[p].run].stages = more /\ disk'[call[p].run].status = "RUNNING"
        /\ disk'[call[p].run].decision = NONE /\ ~disk'[call[p].run].quarantined
        /\ disk'[call[p].run] \in Run
    <3>1. more \in Seq(Entries)
      BY <1>1, <2>3 DEF Unjudged, Run
    <3>. HIDE DEF entry, more
    <3>. QED  BY <1>1, <2>1, <3>1 DEF Unjudged, Run
  <2>. HIDE DEF entry
  <2>4. Grown(p, mem[p].stages, more)
    BY <2>1, <2>3 DEF Grown
  <2>. HIDE DEF more
  <2>. QED
    BY <2>2, <2>4, NoneAssumption DEF Goes, Verdicts
<1>5. CASE RecordError(p)
  BY <1>1, <1>5, HandleGoes DEF RecordError, Unjudged, Run
<1>6. CASE RecordTwice(p)
  <2>. DEFINE status == Outcome(call[p].result)
              stages == Append(mem[p].stages, Entry(p, status))
  <2>1. pc[p] = "record" /\ Handle(p, stages)
    BY <1>6 DEF RecordTwice
  <2>2. OwnEntry(p, Entry(p, status)) /\ Entry(p, status) \in Entries
    BY OwnEntries, OutcomeKnown
  <2>3. stages \in Seq(Entries)
    BY <1>1, <2>2 DEF Unjudged, Run
  <2>. QED  BY <2>1, <2>2, <2>3, HandleGoes
<1>7. CASE Stop(p)
  <2>. DEFINE verdict == [mem[p] EXCEPT !.stopped = Stage(p), !.decision = StopDecision(Stage(p)),
                !.status = IF Infrastructure(Stage(p)) THEN "INFRASTRUCTURE_HOLD" ELSE "STOPPED",
                !.quarantined = ~Infrastructure(Stage(p))]
  <2>1. disk'[call[p].run] = verdict /\ pc[p] = "stop"
    BY <1>1, <1>7 DEF Stop, Save, TypeInv, TypeOK
  <2>2. /\ verdict.stages = mem[p].stages /\ verdict.status # "COMPLETED"
        /\ verdict.decision # "DEPLOY" /\ verdict.quarantined = ~Infrastructure(Stage(p))
        /\ verdict \in Run
    <3>1. /\ StopDecision(Stage(p)) \in Verdicts /\ StopDecision(Stage(p)) # "DEPLOY"
          /\ Stage(p) \in Names /\ Infrastructure(Stage(p)) \in BOOLEAN
      BY StageKnown DEF StopDecision, Verdicts, Infrastructure, TypeInv
    <3>. QED  BY <1>1, <3>1 DEF Unjudged, Run, Status
  <2>. HIDE DEF verdict
  <2>. QED
    BY <2>1, <2>2 DEF Goes, Grown
<1>8. CASE Conclude(p)
  <2>1. pc[p] = "conclude" /\ disk'[call[p].run].stages = mem[p].stages
    BY <1>1, <1>8 DEF Conclude, Save, TypeInv, TypeOK, Unjudged, Run
  <2>2. disk'[call[p].run] \in Run
    <3>1. DeploymentDecision(mem[p]) \in Verdicts
      BY DEF DeploymentDecision, Verdicts
    <3>2. "DEPLOYMENT_DECISION" \in Names
      BY StageNames
    <3>. QED
      BY <1>1, <1>8, <3>1, <3>2 DEF Conclude, Save, TypeInv, TypeOK, Unjudged, Run, Status
  <2>. QED
    BY <2>1, <2>2 DEF Goes, Grown
<1>9. ~Begin(p)
  BY DEF Begin, Active
<1>. QED
  BY <1>2, <1>3, <1>4, <1>5, <1>6, <1>7, <1>8, <1>9 DEF Step, Ingest, RunHardware, Evaluate,
     RecordOnFabric, AnchorOnEthereum, Authenticate, RunAI, WriteDecision,
     VerifyBlockchain, UpdateDashboard, Decide, Die
-----------------------------------------------------------------------------
LEMMA CleanPlaces ==
  ASSUME NEW run, NEW n, Clean(run, n)
  PROVE  \A i \in 1..Len(run.stages) : \E m \in 1..8 : m < n /\ run.stages[i].stage = Stages[m]
<1>. SUFFICES ASSUME NEW i \in 1..Len(run.stages)
              PROVE  \E m \in 1..8 : m < n /\ run.stages[i].stage = Stages[m]
  OBVIOUS
<1>1. \E m \in 1..8 : /\ m < n /\ run.stages[i].stage = Stages[m]
                      /\ run.stages[i].mandatory => m # 7
  BY Zenon DEF Clean
<1>. QED  BY <1>1

LEMMA CleanPassed ==
  ASSUME NEW run, NEW n, Clean(run, n), NEW i \in 1..Len(run.stages), run.stages[i].mandatory
  PROVE  run.stages[i].status = "PASSED"
BY Zenon DEF Clean

(* One more entry, for the n-th stage, that did what is due of it.         *)
LEMMA CleanGrows ==
  ASSUME NEW run, NEW more, NEW e, NEW n \in 1..8, NEW k \in {n, n + 1},
         run.stages \in Seq(Entries), Clean(run, k), e \in Entries,
         more.stages = Append(run.stages, e),
         e.stage = Stages[n], e.mandatory <=> Due(n, run.compliance),
         e.mandatory => e.status = "PASSED" /\ k = n,
         n # 5 => more.compliance = run.compliance,
         n = 5 => more.compliance \in Decisions
  PROVE  Clean(more, n + 1)
<1>. DEFINE old == run.stages
            new == more.stages
<1>0. \A i \in 1..Len(old) : \E m \in 1..8 : m < k /\ old[i].stage = Stages[m]
  BY CleanPlaces
<1>1. /\ Len(old) \in Nat /\ Len(new) = Len(old) + 1 /\ new[Len(new)] = e
      /\ \A i \in 1..Len(old) : new[i] = old[i] /\ i \in 1..Len(new)
      /\ \A i \in 1..Len(new) : i \in 1..Len(old) \/ i = Len(new)
  OBVIOUS
<1>2. ASSUME NEW i \in 1..Len(new)
      PROVE  /\ new[i].mandatory => new[i].status = "PASSED"
             /\ \E m \in 1..8 : /\ m < n + 1 /\ new[i].stage = Stages[m]
                                /\ new[i].mandatory => m # 7
  <2>1. CASE i \in 1..Len(old)
    <3>1. /\ old[i].mandatory => old[i].status = "PASSED"
          /\ \E m \in 1..8 : /\ m < k /\ old[i].stage = Stages[m]
                             /\ old[i].mandatory => m # 7
      BY <2>1 DEF Clean
    <3>. QED  BY <1>1, <2>1, <3>1, SMTT(60)
  <2>2. CASE i = Len(new)
    <3>1. new[i] = e
      BY <1>1, <2>2
    <3>2. e.mandatory => n # 7
      BY DEF Due
    <3>. HIDE DEF new
    <3>. QED  BY <3>1, <3>2, SMTT(60)
  <2>. QED  BY <1>1, <2>1, <2>2
<1>3. ASSUME NEW i \in 1..Len(new), NEW j \in 1..Len(new),
             i < j, new[i].mandatory, new[j].mandatory
      PROVE  Before(new[i].stage, new[j].stage)
  <2>1. i \in 1..Len(old) /\ new[i] = old[i]
    BY <1>1, <1>3
  <2>2. CASE j \in 1..Len(old)
    BY <1>1, <1>3, <2>1, <2>2 DEF Clean
  <2>3. CASE j = Len(new)
    <3>1. new[j] = e /\ k = n
      BY <1>1, <1>3, <2>3
    <3>. HIDE DEF new, old
    <3>2. PICK m \in 1..8 : m < k /\ old[i].stage = Stages[m]
      BY <2>1, <1>0
    <3>. QED  BY <2>1, <3>1, <3>2, StageNames DEF Before
  <2>. QED  BY <1>1, <2>2, <2>3
<1>4. ASSUME NEW m \in 1..8, m < n + 1, Due(m, more.compliance)
      PROVE  \E i \in 1..Len(new) : new[i] = Passed(Stages[m])
  <2>1. Due(m, run.compliance)
    BY <1>4 DEF Due
  <2>2. CASE m < k
    <3>1. PICK i \in 1..Len(old) : old[i] = Passed(Stages[m])
      BY <2>1, <2>2 DEF Clean
    <3>. QED  BY <1>1, <3>1
  <2>3. CASE m = n
    <3>1. e.mandatory /\ e.status = "PASSED"
      BY <2>1, <2>3
    <3>2. e = Passed(Stages[m])
      BY <3>1, <2>3 DEF Entries, Passed
    <3>. QED  BY <1>1, <3>2
  <2>. QED  BY <1>4, <2>2, <2>3
<1>5. n + 1 > 5 => more.compliance \in Decisions
  BY SMTT(60) DEF Clean
<1>. HIDE DEF new, old
<1>6. \A i \in 1..Len(more.stages) :
       /\ more.stages[i].mandatory => more.stages[i].status = "PASSED"
       /\ \E m \in 1..8 : /\ m < n + 1 /\ more.stages[i].stage = Stages[m]
                          /\ more.stages[i].mandatory => m # 7
  BY <1>2 DEF new
<1>7. \A i, j \in 1..Len(more.stages) :
       i < j /\ more.stages[i].mandatory /\ more.stages[j].mandatory =>
         Before(more.stages[i].stage, more.stages[j].stage)
  BY <1>3 DEF new
<1>8. \A m \in 1..8 : m < n + 1 /\ Due(m, more.compliance) =>
       \E i \in 1..Len(more.stages) : more.stages[i] = Passed(Stages[m])
  BY <1>4 DEF new
<1>. QED  BY <1>5, <1>6, <1>7, <1>8 DEF Clean

LEMMA CleanSame ==
  ASSUME NEW run, NEW other, NEW n, Clean(run, n),
         other.stages = run.stages, other.compliance = run.compliance
  PROVE  Clean(other, n)
BY DEF Clean

LEMMA MandatoryIsDue ==
  ASSUME TypeInv, NEW p \in Procs
  PROVE  Mandatory(p) <=> Due(call[p].at, mem[p].compliance)
<1>1. call[p].at \in 1..8
  BY StageNames DEF TypeInv, TypeOK, Call
<1>2. \A i \in 1..8 : i = 1 \/ i = 2 \/ i = 3 \/ i = 4 \/ i = 5 \/ i = 6 \/ i = 7 \/ i = 8
  OBVIOUS
<1>. QED  BY <1>1, <1>2 DEF Mandatory, Stage, Due, Stages
(* Whoever goes on to the next stage has an entry for this one.            *)
LEMMA ContinueDiligent ==
  ASSUME TypeInv, NEW p \in Procs, pc[p] = "record", NEW saved, NEW run,
         Save(p, saved), Continue(p, run), saved.stages = run.stages,
         ~saved.quarantined, ~run.quarantined, Clean(run, call[p].at + 1)
  PROVE  Diligent(p)'
<1>1. call[p] \in Call /\ call[p].at \in 1..8 /\ call[p].run \in Runs /\ Active(p)
  BY StageNames DEF TypeInv, TypeOK, Ownership, Call, Active
<1>2. /\ mem'[p] = run /\ disk'[call[p].run] = saved
      /\ pc'[p] = IF call[p].at = 8 THEN "conclude" ELSE "start"
  <2>1. Stage(p) = "DEPLOYMENT_DECISION" <=> call[p].at = 8
    BY <1>1, StageNames DEF Stage
  <2>. QED  BY <1>1, <2>1 DEF Continue, Goto, Save, TypeInv, TypeOK
<1>3. call'[p] = [call[p] EXCEPT !.at = IF @ = 8 THEN @ ELSE @ + 1, !.result = "none"]
  BY StageNames DEF Continue, TypeInv, TypeOK
<1>4. /\ call'[p].run = call[p].run /\ call'[p].result = "none"
      /\ call'[p].at = IF call[p].at = 8 THEN 8 ELSE call[p].at + 1
  BY <1>1, <1>3 DEF Call
<1>5. Reached(p)' = call[p].at + 1
  BY <1>1, <1>2, <1>4 DEF Reached
<1>. QED
  BY <1>2, <1>4, <1>5 DEF Diligent

(* One entry more, or two for a stage that is not mandatory.               *)
LEMMA OwnEntryClean ==
  ASSUME TypeInv, NEW p \in Procs, NEW run, NEW more, NEW e \in Entries,
         NEW k \in {call[p].at, call[p].at + 1},
         OwnEntry(p, e), run.stages \in Seq(Entries), more.stages = Append(run.stages, e),
         run.compliance = mem[p].compliance, Clean(run, k),
         Mandatory(p) => e.status = "PASSED" /\ k = call[p].at,
         call[p].at # 5 => more.compliance = run.compliance,
         call[p].at = 5 => more.compliance \in Decisions
  PROVE  Clean(more, call[p].at + 1)
<1>1. call[p].at \in 1..8
  BY StageNames DEF TypeInv, TypeOK, Call
<1>2. e.stage = Stages[call[p].at] /\ (e.mandatory <=> Due(call[p].at, run.compliance))
  BY MandatoryIsDue DEF OwnEntry, Stage
<1>3. e.mandatory => e.status = "PASSED" /\ k = call[p].at
  BY DEF OwnEntry
<1>. QED  BY <1>1, <1>2, <1>3, CleanGrows

LEMMA HandleDiligent ==
  ASSUME TypeInv, NEW p \in Procs, Diligent(p), pc[p] = "record", NEW stages \in Seq(Entries),
         Handle(p, stages),
         \/ stages = mem[p].stages
         \/ \E e \in Entries : OwnEntry(p, e) /\ stages = Append(mem[p].stages, e)
  PROVE  Diligent(p)'
<1>1. /\ Active(p) /\ Unjudged(mem[p]) /\ ~mem[p].quarantined /\ call[p].at \in 1..8
      /\ Clean(mem[p], call[p].at)
  BY StageNames DEF TypeInv, TypeOK, Ownership, Active, Diligent, Reached, Call
<1>2. CASE Mandatory(p)
  <2>1. pc'[p] = "idle"
    BY <1>2 DEF Handle, Leave, Goto, TypeInv, TypeOK
  <2>. QED  BY <2>1 DEF Diligent, Active
<1>3. CASE ~Mandatory(p)
  <2>. DEFINE entry  == Entry(p, "INFRASTRUCTURE_ERROR")
              more   == Append(stages, entry)
              noted  == [mem[p] EXCEPT !.stages = stages]
              onward == [mem[p] EXCEPT !.stages = more]
              kept   == [onward EXCEPT !.blockchain = @ /\ Stage(p) # "BLOCKCHAIN"]
  <2>1. Save(p, onward) /\ Continue(p, kept)
    BY <1>3 DEF Handle
  <2>2. OwnEntry(p, entry) /\ entry \in Entries
    BY OwnEntries, OutcomeKnown
  <2>3. /\ noted.stages = stages /\ noted.compliance = mem[p].compliance
        /\ onward.stages = more /\ onward.compliance = mem[p].compliance
        /\ kept.stages = more /\ kept.compliance = mem[p].compliance
        /\ ~onward.quarantined /\ ~kept.quarantined
        /\ mem[p].stages \in Seq(Entries)
    BY <1>1 DEF Unjudged, Run
  <2>4. call[p].at # 5
    BY <1>3, MandatoryIsDue DEF Due
  <2>. HIDE DEF entry, noted, onward, kept
  <2>5. PICK k \in {call[p].at, call[p].at + 1} : Clean(noted, k)
    <3>1. CASE stages = mem[p].stages
      BY <1>1, <2>3, <3>1, CleanSame
    <3>2. CASE \E e \in Entries : OwnEntry(p, e) /\ stages = Append(mem[p].stages, e)
      BY <1>1, <1>3, <2>3, <2>4, <3>2, OwnEntryClean
    <3>. QED  BY <3>1, <3>2
  <2>6. Clean(kept, call[p].at + 1)
    BY <1>3, <2>2, <2>3, <2>4, <2>5, OwnEntryClean
  <2>. QED  BY <2>1, <2>3, <2>6, ContinueDiligent
<1>. QED  BY <1>2, <1>3
(* The steps inside a stage, from the call of its function to its return.  *)
InFunction(p) ==
  \/ Ingest(p) \/ Authenticate(p) \/ RunHardware(p) \/ RunAI(p)
  \/ Evaluate(p) \/ RecordOnFabric(p) \/ AnchorOnEthereum(p) \/ WriteDecision(p)
  \/ VerifyBlockchain(p) \/ UpdateDashboard(p) \/ Decide(p)

LEMMA FunctionShape ==
  ASSUME TypeInv, NEW p \in Procs, InFunction(p)
  PROVE  /\ UNCHANGED <<disk, mem>> /\ Active(p)
         /\ pc[p] \in {"work", "submit", "anchor", "file"}
         /\ pc'[p] \in {"record", "submit", "anchor", "file"}
         /\ call'[p].run = call[p].run /\ call'[p].at = call[p].at
<1>. USE DEF stores
<1>1. UNCHANGED <<disk, mem>>
  BY DEF InFunction, Ingest, Authenticate, RunHardware, RunAI, Evaluate, RecordOnFabric,
     AnchorOnEthereum, WriteDecision, VerifyBlockchain, UpdateDashboard, Decide
<1>2. pc[p] \in {"work", "submit", "anchor", "file"}
  BY DEF InFunction, Ingest, Authenticate, RunHardware, RunAI, Evaluate, RecordOnFabric,
     AnchorOnEthereum, WriteDecision, VerifyBlockchain, UpdateDashboard, Decide, At
<1>3. pc'[p] \in {"record", "submit", "anchor", "file"}
  BY DEF InFunction, Ingest, Authenticate, RunHardware, RunAI, Evaluate, RecordOnFabric,
     AnchorOnEthereum, WriteDecision, VerifyBlockchain, UpdateDashboard, Decide,
     Yield, Unrecorded, Goto, TypeInv, TypeOK
<1>4. \/ \E result : call' = [call EXCEPT ![p].result = result]
      \/ \E decision : call' = [call EXCEPT ![p].decision = decision]
      \/ \E recorded : call' = [call EXCEPT ![p].recorded = recorded]
  BY DEF InFunction, Ingest, Authenticate, RunHardware, RunAI, Evaluate, RecordOnFabric,
     AnchorOnEthereum, WriteDecision, VerifyBlockchain, UpdateDashboard, Decide,
     Yield, Unrecorded
<1>5. call[p] \in Call
  BY DEF TypeInv, TypeOK
<1>6. call'[p].run = call[p].run /\ call'[p].at = call[p].at
  <2>1. ASSUME NEW result, call' = [call EXCEPT ![p].result = result]
        PROVE  call'[p].run = call[p].run /\ call'[p].at = call[p].at
    BY <1>5, <2>1 DEF TypeInv, TypeOK, Call
  <2>2. ASSUME NEW decision, call' = [call EXCEPT ![p].decision = decision]
        PROVE  call'[p].run = call[p].run /\ call'[p].at = call[p].at
    BY <1>5, <2>2 DEF TypeInv, TypeOK, Call
  <2>3. ASSUME NEW recorded, call' = [call EXCEPT ![p].recorded = recorded]
        PROVE  call'[p].run = call[p].run /\ call'[p].at = call[p].at
    BY <1>5, <2>3 DEF TypeInv, TypeOK, Call
  <2>. QED  BY <1>4, <2>1, <2>2, <2>3
<1>. QED  BY <1>1, <1>2, <1>3, <1>6 DEF Active

LEMMA BrokenWhere ==
  ASSUME TypeInv, NEW p \in Procs, InFunction(p), call'[p].result = "broken"
  PROVE  Stage(p) \in Mistaking \/ call[p].result = "broken"
<1>. USE DEF stores
<1>1. call[p] \in Call
  BY DEF TypeInv, TypeOK
<1>2. CASE Authenticate(p) \/ RunHardware(p)
  BY <1>2 DEF Authenticate, RunHardware, At, Stage, Mistaking
<1>3. CASE \E results : Yield(p, results) /\ "broken" \notin results
  <2>1. PICK result : result # "broken" /\ call' = [call EXCEPT ![p].result = result]
    BY <1>3 DEF Yield
  <2>. QED  BY <1>1, <2>1 DEF TypeInv, TypeOK, Call
<1>4. CASE \E decision : call' = [call EXCEPT ![p].decision = decision]
  BY <1>1, <1>4 DEF TypeInv, TypeOK, Call
<1>5. CASE \E recorded : call' = [call EXCEPT ![p].recorded = recorded]
  BY <1>1, <1>5 DEF TypeInv, TypeOK, Call
<1>6. CASE Ingest(p) \/ RunAI(p) \/ WriteDecision(p) \/ VerifyBlockchain(p)
           \/ UpdateDashboard(p) \/ Decide(p)
  <2>1. \E results \in SUBSET {"passed", "failed", "error"} : Yield(p, results)
    BY <1>6 DEF Ingest, RunAI, WriteDecision, VerifyBlockchain, UpdateDashboard, Decide
  <2>2. "broken" \notin {"passed", "failed", "error"}
    OBVIOUS
  <2>. QED  BY <1>3, <2>1, <2>2
<1>7. CASE Evaluate(p)
  <2>1. "broken" \notin {"error"}
    OBVIOUS
  <2>. QED  BY <1>3, <1>4, <1>7, <2>1 DEF Evaluate
<1>8. CASE RecordOnFabric(p) \/ AnchorOnEthereum(p)
  BY <1>5, <1>8 DEF RecordOnFabric, AnchorOnEthereum, Unrecorded
<1>. QED
  BY <1>2, <1>6, <1>7, <1>8 DEF InFunction

LEMMA DiligentStep ==
  ASSUME TypeInv, NEW p \in Procs, Heard(p), Diligent(p), Step(p) \/ RecordTwice(p) \/ Die(p)
  PROVE  Diligent(p)'
<1>1. /\ call[p] \in Call /\ call[p].at \in 1..8
      /\ pc[p] # "idle" => Unjudged(mem[p]) /\ ~mem[p].quarantined
  BY StageNames DEF TypeInv, TypeOK, Ownership, Diligent, Call
<1>2. CASE Begin(p)
  <2>. DEFINE r == CHOOSE q \in Runs \ Begun : TRUE
  <2>1. r \in Runs /\ pc[p] = "begin" /\ mem[p].stages = <<>>
    BY <1>2 DEF Begin, Begun, Diligent
  <2>2. /\ call' = [call EXCEPT ![p].run = r] /\ disk' = [disk EXCEPT ![r] = mem[p]]
        /\ pc'[p] = "start" /\ mem' = mem /\ call[p] = NoCall
    BY <1>2 DEF Begin, Goto, TypeInv, TypeOK, InStage
  <2>3. call'[p] = [NoCall EXCEPT !.run = r] /\ disk'[r] = mem[p]
    BY <2>1, <2>2 DEF TypeInv, TypeOK
  <2>. HIDE DEF r
  <2>4. call'[p].run = r /\ Reached(p)' = 1 /\ call'[p].result = "none"
    BY <2>2, <2>3 DEF NoCall, Reached
  <2>5. Clean(mem[p], 1)
    <3>1. Len(mem[p].stages) = 0
      BY <2>1
    <3>. QED  BY <3>1 DEF Clean
  <2>. QED
    BY <1>1, <2>1, <2>2, <2>3, <2>4, <2>5 DEF Diligent
<1>3. CASE StartStage(p)
  <2>. DEFINE run == [mem[p] EXCEPT !.active = Stage(p)]
  <2>1. /\ pc[p] = "start" /\ Active(p) /\ pc'[p] = "work" /\ mem'[p] = run /\ call' = call
        /\ disk'[call[p].run] = run
    BY <1>3 DEF StartStage, Goto, Save, Active, TypeInv, TypeOK, Ownership
  <2>2. /\ run.stages = mem[p].stages /\ run.compliance = mem[p].compliance /\ ~run.quarantined
    BY <1>1, <2>1 DEF Unjudged, Run
  <2>. HIDE DEF run
  <2>3. Reached(p)' = Reached(p) /\ Clean(mem[p], Reached(p))
    BY <2>1 DEF Reached, Diligent
  <2>4. Clean(run, Reached(p))
    BY <2>2, <2>3, CleanSame
  <2>5. Stage(p)' = Stage(p)
    BY <2>1 DEF Stage
  <2>. QED
    BY <2>1, <2>2, <2>3, <2>4, <2>5 DEF Diligent
<1>4. CASE InFunction(p)
  <2>1. /\ UNCHANGED <<disk, mem>> /\ Active(p) /\ pc[p] \notin {"stop", "begin", "idle", "conclude"}
        /\ pc'[p] \notin {"stop", "begin", "idle", "conclude"}
        /\ call'[p].run = call[p].run /\ call'[p].at = call[p].at
    BY <1>4, FunctionShape
  <2>2. /\ Reached(p)' = Reached(p) /\ Clean(mem[p], Reached(p))
        /\ Stage(p)' = Stage(p)
    BY <2>1 DEF Reached, Diligent, Stage
  <2>3. call'[p].result = "broken" => Stage(p) \in Mistaking
    BY <1>4, <2>1, BrokenWhere DEF Diligent
  <2>. QED
    BY <2>1, <2>2, <2>3 DEF Diligent
<1>5. CASE RecordResult(p)
  <2>. DEFINE passed == call[p].result = "passed"
              entry  == Entry(p, Outcome(call[p].result))
              more   == Append(mem[p].stages, entry)
              run    == [mem[p] EXCEPT !.stages = more]
              learnt == Learnt(p, run)
  <2>1. /\ pc[p] = "record" /\ Active(p) /\ Save(p, run)
    BY <1>5 DEF RecordResult, Active
  <2>2. /\ run.stages = more /\ ~run.quarantined /\ learnt.stages = more /\ ~learnt.quarantined
        /\ call[p].at # 5 => learnt.compliance = mem[p].compliance
        /\ call[p].at = 5 => learnt.compliance = call[p].decision
        /\ mem[p].stages \in Seq(Entries)
    <3>1. Stage(p) = "COMPLIANCE" <=> call[p].at = 5
      BY <1>1, StageNames DEF Stage
    <3>2. run \in Run /\ ~run.quarantined /\ run.stages = more /\ run.compliance = mem[p].compliance
      <4>1. more \in Seq(Entries)
        BY <1>1, <2>1, OwnEntries, OutcomeKnown DEF Unjudged, Run, Active
      <4>. HIDE DEF more
      <4>. QED  BY <1>1, <2>1, <4>1 DEF Unjudged, Run, Active
    <3>3. mem[p].stages \in Seq(Entries)
      BY <1>1, <2>1 DEF Unjudged, Run, Active
    <3>. HIDE DEF run, more
    <3>. QED  BY <3>1, <3>2, <3>3 DEF Learnt, Run
  <2>3. OwnEntry(p, entry) /\ entry \in Entries /\ (passed <=> entry.status = "PASSED")
        /\ (~passed => entry.status = "FAILED" \/ (entry.status = "BROKEN" /\ call[p].result = "broken"))
    <3>1. OwnEntry(p, entry) /\ entry \in Entries
      BY OwnEntries, OutcomeKnown
    <3>2. entry.status = Outcome(call[p].result)
      BY DEF Entry
    <3>. QED  BY <3>1, <3>2, OutcomeKnown
  <2>4. CASE ~passed /\ Mandatory(p)
    <3>1. /\ mem'[p] = learnt /\ pc'[p] = "stop" /\ call' = call /\ disk'[call[p].run] = run
      BY <1>5, <2>1, <2>4 DEF RecordResult, Goto, Save, TypeInv, TypeOK, Ownership
    <3>2. Len(more) \in 1..Len(more) /\ more[Len(more)] = entry
      BY <2>2
    <3>3. Against(entry) /\ entry.stage = Stage(p)
      BY <2>1, <2>3, <2>4 DEF OwnEntry, Diligent, Against
    <3>. HIDE DEF entry, more, run, learnt, passed
    <3>4. Stage(p)' = Stage(p)
      BY <3>1 DEF Stage
    <3>. QED
      BY <2>1, <2>2, <3>1, <3>2, <3>3, <3>4 DEF Diligent
  <2>5. CASE ~(~passed /\ Mandatory(p))
    <3>1. Continue(p, learnt)
      BY <1>5, <2>5 DEF RecordResult
    <3>2. Clean(mem[p], call[p].at)
      BY <2>1 DEF Diligent, Reached
    <3>3. call[p].at = 5 => learnt.compliance \in Decisions
      <4>1. call[p].at = 5 => Mandatory(p)
        BY MandatoryIsDue DEF Due
      <4>. QED  BY <2>1, <2>2, <2>5, <4>1 DEF Heard
    <3>4. Mandatory(p) => entry.status = "PASSED"
      BY <2>3, <2>5
    <3>. HIDE DEF entry, run, learnt, passed
    <3>5. Clean(learnt, call[p].at + 1)
      BY <2>2, <2>3, <3>2, <3>3, <3>4, OwnEntryClean
    <3>. QED
      BY <2>1, <2>2, <3>1, <3>5, ContinueDiligent
  <2>. QED  BY <2>4, <2>5
<1>6. CASE RecordError(p)
  BY <1>1, <1>6, HandleDiligent DEF RecordError, Unjudged, Run
<1>7. CASE RecordTwice(p)
  <2>. DEFINE status == Outcome(call[p].result)
              stages == Append(mem[p].stages, Entry(p, status))
  <2>1. pc[p] = "record" /\ Handle(p, stages)
    BY <1>7 DEF RecordTwice
  <2>2. OwnEntry(p, Entry(p, status)) /\ Entry(p, status) \in Entries
    BY OwnEntries, OutcomeKnown
  <2>3. stages \in Seq(Entries)
    BY <1>1, <2>1, <2>2 DEF Unjudged, Run
  <2>. QED  BY <2>1, <2>2, <2>3, HandleDiligent
<1>8. CASE Stop(p) \/ Conclude(p) \/ Die(p)
  <2>1. pc'[p] = "idle"
    BY <1>8 DEF Stop, Conclude, Die, Leave, Goto, TypeInv, TypeOK
  <2>. QED  BY <2>1 DEF Diligent, Active
<1>. QED
  BY <1>2, <1>3, <1>4, <1>5, <1>6, <1>7, <1>8 DEF Step, InFunction
-----------------------------------------------------------------------------
(* What p was told stays so.                                               *)
LEMMA WitnessedStays ==
  ASSUME KeptOfRuns, NEW s, NEW r \in Runs, Witnessed(s, r)
  PROVE  Witnessed(s, r)'
BY DEF KeptOfRuns, Witnessed

LEMMA HeardStays ==
  ASSUME TypeInv, NEW p \in Procs, KeptOfRuns, Heard(p), Active(p),
         pc'[p] \in {"submit", "anchor", "file"} =>
           "compliance.completed" \in journal'[call[p].run],
         pc'[p] = "anchor" => "fabric" \in call'[p].recorded,
         call'[p].run = call[p].run, call'[p].at = call[p].at,
         call'[p].result = "passed" =>
           call[p].result = "passed" /\ call'[p].decision = call[p].decision,
         call'[p].recorded = call[p].recorded
  PROVE  Heard(p)'
<1>1. call[p].run \in Runs /\ Stage(p)' = Stage(p)
  BY DEF TypeInv, Ownership, Stage
<1>2. PICK r \in Runs : r = call[p].run
  BY <1>1
<1>3. PICK s : s = Stage(p)
  OBVIOUS
<1>4. call'[p].result = "passed" => Witnessed(s, r)' /\ (call'[p].at = 5 => call'[p].decision \in Decisions)
  BY <1>2, <1>3, WitnessedStays DEF Heard
<1>5. "ethereum" \in call'[p].recorded => Witnessed("BLOCKCHAIN", r)'
  BY <1>2, <1>3, WitnessedStays DEF Heard
<1>6. "fabric" \in call'[p].recorded => "fabric.committed" \in journal'[r]
  BY <1>2 DEF Heard, KeptOfRuns
<1>. QED
  BY <1>1, <1>2, <1>3, <1>4, <1>5, <1>6 DEF Heard

LEMMA YieldHeard ==
  ASSUME TypeInv, NEW p \in Procs, KeptOfRuns, Heard(p), Active(p), NEW results, Yield(p, results),
         NEW s, s = Stage(p), NEW r \in Runs, r = call[p].run,
         "passed" \in results => /\ Witnessed(s, r)'
                                 /\ call[p].at = 5 => call[p].decision \in Decisions
  PROVE  Heard(p)'
<1>1. PICK result \in results : call' = [call EXCEPT ![p].result = result]
  BY DEF Yield
<1>2. call'[p] = [call[p] EXCEPT !.result = result] /\ call[p] \in Call /\ pc'[p] = "record"
  BY <1>1 DEF Yield, Goto, TypeInv, TypeOK
<1>3. /\ call'[p].run = r /\ call'[p].at = call[p].at /\ call'[p].result = result
      /\ call'[p].decision = call[p].decision /\ call'[p].recorded = call[p].recorded
      /\ Stage(p)' = s
  BY <1>2 DEF Call, Stage
<1>4. "ethereum" \in call'[p].recorded => Witnessed("BLOCKCHAIN", r)'
  BY <1>3, WitnessedStays DEF Heard
<1>5. "fabric" \in call'[p].recorded => "fabric.committed" \in journal'[r]
  BY <1>3 DEF Heard, KeptOfRuns
<1>6. call'[p].result = "passed" => Witnessed(s, r)' /\ (call'[p].at = 5 => call'[p].decision \in Decisions)
  BY <1>1, <1>3
<1>. QED
  BY <1>2, <1>3, <1>4, <1>5, <1>6 DEF Heard
LEMMA FunctionHeard ==
  ASSUME TypeInv, TypeInv', NEW p \in Procs, KeptOfRuns, Heard(p), InFunction(p)
  PROVE  Heard(p)'
<1>1. /\ Active(p) /\ call[p].run \in Runs /\ call[p] \in Call
      /\ call'[p].run = call[p].run /\ call'[p].at = call[p].at
  BY FunctionShape DEF TypeInv, TypeOK, Ownership
<1>2. PICK r \in Runs : r = call[p].run
  BY <1>1
<1>3. PICK s : s = Stage(p)
  OBVIOUS
<1>4. PICK n \in 1..8 : n = call[p].at
  BY <1>1, StageNames DEF Call
<1>5. s = Stages[n]
  BY <1>3, <1>4 DEF Stage
<1>6. CASE Ingest(p)
  <2>1. /\ s = "INGESTION" /\ n # 5
    BY <1>3, <1>5, <1>6, StageNames DEF Ingest, At, Stage
  <2>2. \/ /\ "scan.accepted" \in journal'[r] /\ Yield(p, {"passed", "error"})
        \/ Yield(p, {"error"})
    BY <1>2, <1>6 DEF Ingest, Note, TypeInv, TypeOK
  <2>3. "scan.accepted" \in journal'[r] => Witnessed(s, r)'
    BY <2>1 DEF Witnessed
  <2>. QED
    BY <1>1, <1>2, <1>3, <1>4, <2>1, <2>2, <2>3, YieldHeard
<1>7. CASE RunHardware(p)
  <2>1. /\ s = "HARDWARE_SECURITY" /\ n # 5
    BY <1>3, <1>5, <1>7, StageNames DEF RunHardware, At, Stage
  <2>2. \/ /\ "hardware" \in journal'[r] /\ Yield(p, {"passed", "failed", "broken", "error"})
        \/ Yield(p, {"error"})
    BY <1>2, <1>7 DEF RunHardware, Note, TypeInv, TypeOK
  <2>3. "hardware" \in journal'[r] => Witnessed(s, r)'
    BY <2>1 DEF Witnessed
  <2>. QED
    BY <1>1, <1>2, <1>3, <1>4, <2>1, <2>2, <2>3, YieldHeard
<1>8. CASE Authenticate(p) \/ RunAI(p) \/ UpdateDashboard(p) \/ Decide(p)
  <2>1. s \in {"PUF_AUTHENTICATION", "AI_ANALYSIS", "DASHBOARD", "DEPLOYMENT_DECISION"}
    BY <1>3, <1>8 DEF Authenticate, RunAI, UpdateDashboard, Decide, At, Stage
  <2>2. n # 5
    BY <2>1, <1>5, StageNames
  <2>3. Witnessed(s, r)'
    BY <2>1 DEF Witnessed
  <2>4. \E results : Yield(p, results)
    BY <1>8 DEF Authenticate, RunAI, UpdateDashboard, Decide
  <2>. QED
    BY <1>1, <1>2, <1>3, <1>4, <2>2, <2>3, <2>4, YieldHeard
<1>9. CASE VerifyBlockchain(p)
  <2>1. s = "BLOCKCHAIN" /\ n # 5
    BY <1>3, <1>5, <1>9, StageNames DEF VerifyBlockchain, At, Stage
  <2>. DEFINE whole   == call[p].recorded = {"fabric", "ethereum"}
              results == {IF whole THEN "passed" ELSE "failed"}
  <2>2. Yield(p, results)
    BY <1>9 DEF VerifyBlockchain
  <2>3. "passed" \in results => Witnessed(s, r)'
    BY <1>1, <1>2, <2>1, WitnessedStays DEF Heard
  <2>. HIDE DEF results
  <2>. QED
    BY <1>1, <1>2, <1>3, <1>4, <2>1, <2>2, <2>3, YieldHeard
<1>10. CASE WriteDecision(p)
  <2>1. /\ n = 5 /\ call[p].decision \in Decisions /\ Yield(p, {"passed", "error"})
        /\ pc[p] = "file"
    BY <1>4, <1>10 DEF WriteDecision, TypeInv, InStage
  <2>2. s = "COMPLIANCE" /\ "compliance.completed" \in journal[r]
    BY <1>1, <1>2, <1>5, <2>1, StageNames DEF Heard
  <2>3. Witnessed(s, r)'
    BY <2>2 DEF Witnessed, KeptOfRuns
  <2>. QED
    BY <1>1, <1>2, <1>3, <1>4, <2>1, <2>3, YieldHeard
<1>11. CASE Evaluate(p)
  <2>1. s = "COMPLIANCE" /\ call[p].result = "none"
    BY <1>3, <1>11 DEF Evaluate, At, Stage, TypeInv, InStage
  <2>2. CASE Yield(p, {"error"})
    <3>1. "passed" \notin {"error"}
      OBVIOUS
    <3>. QED
      BY <1>1, <1>2, <1>3, <2>2, <3>1, YieldHeard
  <2>3. CASE /\ Note(call[p].run, "compliance.completed")
             /\ \E d \in Decisions : call' = [call EXCEPT ![p].decision = d]
             /\ Goto(p, "submit")
    <3>1. PICK d \in Decisions : call' = [call EXCEPT ![p].decision = d]
      BY <2>3
    <3>2. call'[p] = [call[p] EXCEPT !.decision = d] /\ pc'[p] = "submit"
      BY <2>3, <3>1 DEF Goto, TypeInv, TypeOK
    <3>3. call'[p].result = "none" /\ call'[p].recorded = call[p].recorded
      BY <1>1, <2>1, <3>2 DEF Call
    <3>4. "compliance.completed" \in journal'[r]
      BY <1>2, <2>3 DEF Note, TypeInv, TypeOK
    <3>. QED
      BY <1>1, <1>2, <3>2, <3>3, <3>4, HeardStays
  <2>. QED  BY <1>11, <2>2, <2>3 DEF Evaluate
<1>12. CASE RecordOnFabric(p) \/ AnchorOnEthereum(p)
  <2>1. /\ pc[p] \in {"submit", "anchor"} /\ n = 5
        /\ pc[p] = "anchor" <=> AnchorOnEthereum(p)
    BY <1>4, <1>12 DEF RecordOnFabric, AnchorOnEthereum, TypeInv, InStage
  <2>2. "compliance.completed" \in journal'[r]
    BY <1>1, <1>2, <2>1 DEF Heard, KeptOfRuns
  <2>3. PICK what : /\ call' = [call EXCEPT ![p].recorded = what]
                    /\ pc'[p] = "file" \/ (pc'[p] = "anchor" /\ what = {"fabric"})
                    /\ \/ what = {}
                       \/ what = {"fabric"} /\ "fabric.committed" \in journal'[r]
                       \/ /\ what = {"fabric", "ethereum"} /\ pc[p] = "anchor"
                          /\ ledger'[r] = "anchored"
                          /\ "ethereum.anchor_confirmed" \in journal'[r]
    <3>1. CASE Unrecorded(p)
      <4>1. call' = [call EXCEPT ![p].recorded = {}] /\ pc'[p] = "file"
        BY <3>1 DEF Unrecorded, Goto, TypeInv, TypeOK
      <4>. QED  BY <4>1
    <3>2. CASE RecordOnFabric(p) /\ ~Unrecorded(p)
      <4>1. /\ Transact(r, "unknown", "committed", "fabric.committed")
            /\ call' = [call EXCEPT ![p].recorded = {"fabric"}]
            /\ Goto(p, "anchor") \/ Goto(p, "file")
        BY <1>2, <3>2 DEF RecordOnFabric
      <4>2. "fabric.committed" \in journal'[r] /\ pc'[p] \in {"anchor", "file"}
        BY <4>1 DEF Transact, Note, Goto, TypeInv, TypeOK
      <4>. QED  BY <4>1, <4>2
    <3>3. CASE AnchorOnEthereum(p) /\ ~Unrecorded(p)
      <4>1. /\ Transact(r, "committed", "anchored", "ethereum.anchor_confirmed")
            /\ call' = [call EXCEPT ![p].recorded = {"fabric", "ethereum"}]
            /\ Goto(p, "file") /\ pc[p] = "anchor"
        BY <1>2, <3>3 DEF AnchorOnEthereum
      <4>2. /\ "ethereum.anchor_confirmed" \in journal'[r] /\ ledger'[r] = "anchored"
            /\ pc'[p] = "file"
        BY <4>1 DEF Transact, Note, Goto, TypeInv, TypeOK
      <4>. QED  BY <4>1, <4>2
    <3>. QED  BY <1>12, <3>1, <3>2, <3>3
  <2>4. call'[p] = [call[p] EXCEPT !.recorded = what]
    BY <2>3 DEF TypeInv, TypeOK
  <2>5. /\ call'[p].recorded = what /\ call'[p].result = call[p].result
        /\ call'[p].decision = call[p].decision
    BY <1>1, <2>4 DEF Call
  <2>6. pc[p] = "anchor" => "fabric.committed" \in journal'[r]
    BY <1>1, <1>2 DEF Heard, KeptOfRuns
  <2>7. "fabric" \in what => "fabric.committed" \in journal'[r]
    BY <2>3, <2>6
  <2>8. "ethereum" \in what => Witnessed("BLOCKCHAIN", r)'
    BY <2>3, <2>6 DEF Witnessed
  <2>9. call'[p].result = "passed" => /\ Witnessed(s, r)'
                                      /\ call'[p].at = 5 => call'[p].decision \in Decisions
    BY <1>1, <1>2, <1>3, <2>5, WitnessedStays DEF Heard
  <2>10. call'[p].run = r /\ Stage(p)' = s
    BY <1>1, <1>2, <1>3 DEF Stage
  <2>. QED
    BY <2>2, <2>3, <2>5, <2>7, <2>8, <2>9, <2>10 DEF Heard
<1>. QED
  BY <1>6, <1>7, <1>8, <1>9, <1>10, <1>11, <1>12 DEF InFunction

LEMMA HeardStep ==
  ASSUME TypeInv, TypeInv', NEW p \in Procs, KeptOfRuns, Heard(p),
         Step(p) \/ RecordTwice(p) \/ Die(p)
  PROVE  Heard(p)'
<1>. USE DEF stores
<1>1. CASE InFunction(p)
  BY <1>1, FunctionHeard
<1>2. CASE Begin(p)
  <2>1. /\ pc'[p] = "start" /\ call[p] = NoCall
        /\ \E r : call' = [call EXCEPT ![p].run = r]
    BY <1>2 DEF Begin, Goto, TypeInv, TypeOK, InStage
  <2>2. PICK r : call' = [call EXCEPT ![p].run = r]
    BY <2>1
  <2>3. call'[p] = [NoCall EXCEPT !.run = r]
    BY <2>1, <2>2 DEF TypeInv, TypeOK
  <2>4. call'[p].result = "none" /\ call'[p].recorded = {}
    BY <2>3 DEF NoCall
  <2>. QED  BY <2>1, <2>4 DEF Heard
<1>3. CASE StartStage(p)
  <2>1. Active(p) /\ pc'[p] = "work" /\ call' = call
    BY <1>3 DEF StartStage, Goto, Active, TypeInv, TypeOK
  <2>. QED  BY <2>1, HeardStays
<1>4. CASE Leave(p)
  BY <1>4, LeaveTypes DEF Heard
<1>5. CASE \E run : Continue(p, run) /\ pc[p] = "record"
  <2>1. /\ Active(p) /\ pc'[p] \in {"conclude", "start"} /\ call[p].run \in Runs
    BY <1>5 DEF Continue, Goto, Active, TypeInv, TypeOK, Ownership
  <2>2. call'[p] = [call[p] EXCEPT !.at = IF @ = Len(Stages) THEN @ ELSE @ + 1, !.result = "none"]
    BY <1>5 DEF Continue, TypeInv, TypeOK
  <2>3. /\ call'[p].run = call[p].run /\ call'[p].result = "none"
        /\ call'[p].recorded = call[p].recorded
    BY <2>2 DEF TypeInv, TypeOK, Call
  <2>4. PICK r \in Runs : r = call[p].run
    BY <2>1
  <2>5. "ethereum" \in call'[p].recorded => Witnessed("BLOCKCHAIN", r)'
    BY <2>1, <2>3, <2>4, WitnessedStays DEF Heard
  <2>6. "fabric" \in call'[p].recorded => "fabric.committed" \in journal'[r]
    BY <2>1, <2>3, <2>4 DEF Heard, KeptOfRuns
  <2>. QED  BY <2>1, <2>3, <2>4, <2>5, <2>6 DEF Heard
<1>6. CASE RecordResult(p) /\ ~\E run : Continue(p, run) /\ pc[p] = "record"
  <2>1. Active(p) /\ pc'[p] = "stop" /\ call' = call
    BY <1>6 DEF RecordResult, Goto, Active, TypeInv, TypeOK
  <2>. QED  BY <2>1, HeardStays
<1>7. CASE RecordError(p) \/ RecordTwice(p) \/ Stop(p) \/ Conclude(p) \/ Die(p)
  <2>1. Leave(p) \/ \E run : Continue(p, run) /\ pc[p] = "record"
    BY <1>7 DEF RecordError, RecordTwice, Handle, Stop, Conclude, Die
  <2>. QED  BY <2>1, <1>4, <1>5
<1>. QED
  BY <1>1, <1>2, <1>3, <1>5, <1>6, <1>7 DEF Step, InFunction
-----------------------------------------------------------------------------
(* What is proved of each run r, from the file, the journal and ledgers.   *)
Fine(r) ==
  /\ disk[r] = NONE => journal[r] = {}
  /\ disk[r] # NONE =>
       /\ \A i \in 1..Len(disk[r].stages) :
            disk[r].stages[i].status = "PASSED" => Witnessed(disk[r].stages[i].stage, r)
       /\ \A i, j \in 1..Len(disk[r].stages) :
            i < j /\ disk[r].stages[i].mandatory /\ disk[r].stages[i].status # "PASSED" =>
              /\ disk[r].stages[i].stage = disk[r].stages[j].stage
              /\ disk[r].status # "COMPLETED"
       /\ "hardware" \in journal[r] =>
            \E i \in 1..Len(disk[r].stages) : disk[r].stages[i] = Passed("PUF_AUTHENTICATION")
       /\ "compliance.completed" \in journal[r] =>
            /\ \E i \in 1..Len(disk[r].stages) : disk[r].stages[i] = Passed("HARDWARE_SECURITY")
            /\ \E i \in 1..Len(disk[r].stages) : disk[r].stages[i] = Passed("AI_ANALYSIS")

DeployedWell(r) ==
  Deployed(r) =>
    /\ disk[r].status = "COMPLETED" /\ ~disk[r].quarantined
    /\ LET stages == disk[r].stages
           due    == {i \in 1..Len(stages) : stages[i].mandatory}
       IN  /\ \A i \in due : stages[i].status = "PASSED"
           /\ {stages[i].stage : i \in due} = Names \ {"DASHBOARD"}
           /\ \A i, j \in due : i < j => Before(stages[i].stage, stages[j].stage)
    /\ disk[r].compliance = "APPROVED"
    /\ ledger[r] = "anchored" /\ journal[r] = Kinds

QuarantinedWell(r) ==
  disk[r] # NONE /\ disk[r].quarantined =>
    \/ \E i \in 1..Len(disk[r].stages) :
         Against(disk[r].stages[i]) /\ disk[r].stages[i].stage # "BLOCKCHAIN"
    \/ disk[r].compliance \notin {"APPROVED", NONE}

LEMMA AgainstTheChip ==
  \A entry : (\/ entry.status = "FAILED" /\ entry.stage # "BLOCKCHAIN"
              \/ entry.status = "BROKEN" /\ entry.stage \in Mistaking)
             <=> Against(entry) /\ entry.stage # "BLOCKCHAIN"
BY DEF Against, Mistaking

LEMMA InvariantByRun ==
  JInv <=> /\ TypeInv /\ Diligence /\ \A p \in Procs : Heard(p)
           /\ \A r \in Runs : Fine(r) /\ DeployedWell(r) /\ QuarantinedWell(r)
<1>1. VerdictJustified <=> \A r \in Runs : DeployedWell(r) /\ QuarantinedWell(r)
  <2>1. QuarantineJustified <=> \A r \in Runs : QuarantinedWell(r)
    BY AgainstTheChip, Zenon DEF QuarantineJustified, QuarantinedWell, Mistaking
  <2>. QED  BY <2>1 DEF VerdictJustified, DeployJustified, DeployedWell
<1>2. Evidence /\ FailClosed <=>
        (\A p \in Procs : Heard(p)) /\ (\A r \in Runs : Fine(r))
  BY Zenon DEF Evidence, FailClosed, Fine, Passed
<1>. QED  BY <1>1, <1>2 DEF JInv

(* A file nobody touched.                                                  *)
LEMMA FileStays ==
  ASSUME TypeInv, TypeInv', KeptOfRuns, NEW r \in Runs, disk'[r] = disk[r],
         disk[r] = NONE => journal'[r] = journal[r],
         "hardware" \in journal'[r] => "hardware" \in journal[r],
         "compliance.completed" \in journal'[r] => "compliance.completed" \in journal[r],
         Fine(r), DeployedWell(r), QuarantinedWell(r)
  PROVE  (Fine(r) /\ DeployedWell(r) /\ QuarantinedWell(r))'
<1>1. Fine(r)'
  <2>1. ASSUME disk[r] # NONE, NEW i \in 1..Len(disk[r].stages), disk[r].stages[i].status = "PASSED"
        PROVE  Witnessed(disk[r].stages[i].stage, r)
    BY <2>1 DEF Fine
  <2>2. ASSUME disk[r] # NONE, NEW i \in 1..Len(disk[r].stages), disk[r].stages[i].status = "PASSED",
               NEW s, s = disk[r].stages[i].stage
        PROVE  Witnessed(s, r)'
    BY <2>1, <2>2, WitnessedStays
  <2>3. ASSUME disk'[r] # NONE, NEW i \in 1..Len(disk'[r].stages), disk'[r].stages[i].status = "PASSED"
        PROVE  Witnessed(disk[r].stages[i].stage, r)'
    <3>1. PICK s : s = disk[r].stages[i].stage
      OBVIOUS
    <3>2. Witnessed(s, r)' /\ s = disk'[r].stages[i].stage
      BY <2>2, <2>3, <3>1
    <3>. QED  BY <3>2
  <2>. QED  BY <2>3 DEF Fine
<1>2. DeployedWell(r)'
  <2>. SUFFICES ASSUME Deployed(r)' PROVE DeployedWell(r)'
    BY DEF DeployedWell
  <2>1. Deployed(r)
    BY DEF Deployed
  <2>2. ledger'[r] = "anchored" /\ journal'[r] = Kinds
    BY <2>1 DEF DeployedWell, KeptOfRuns, TypeInv, TypeOK
  <2>. QED  BY <2>1, <2>2 DEF DeployedWell
<1>3. QuarantinedWell(r)'
  BY DEF QuarantinedWell
<1>. QED  BY <1>1, <1>2, <1>3

(* What a step leaves of the entries.                                      *)
LEMMA GrownEntries ==
  ASSUME NEW p \in Procs, NEW old \in Seq(Entries), NEW new, Grown(p, old, new)
  PROVE  /\ Len(old) \in Nat /\ Len(new) \in Nat
         /\ \A i \in 1..Len(old) : i \in 1..Len(new) /\ new[i] = old[i]
         /\ \A i \in 1..Len(new) : i \notin 1..Len(old) => pc[p] = "record" /\ OwnEntry(p, new[i])
<1>1. CASE new = old
  BY <1>1
<1>2. ASSUME pc[p] = "record", NEW e \in Entries, OwnEntry(p, e), new = Append(old, e)
      PROVE  /\ Len(old) \in Nat /\ Len(new) \in Nat
             /\ \A i \in 1..Len(old) : i \in 1..Len(new) /\ new[i] = old[i]
             /\ \A i \in 1..Len(new) : i \notin 1..Len(old) => pc[p] = "record" /\ OwnEntry(p, new[i])
  BY <1>2
<1>3. ASSUME pc[p] = "record", NEW e \in Entries, NEW f \in Entries, OwnEntry(p, e), OwnEntry(p, f),
             new = Append(Append(old, e), f)
      PROVE  /\ Len(old) \in Nat /\ Len(new) \in Nat
             /\ \A i \in 1..Len(old) : i \in 1..Len(new) /\ new[i] = old[i]
             /\ \A i \in 1..Len(new) : i \notin 1..Len(old) => pc[p] = "record" /\ OwnEntry(p, new[i])
  BY <1>3
<1>. QED  BY <1>1, <1>2, <1>3 DEF Grown
(* The file of the run p works on, after a step of p.                      *)
LEMMA FileGoes ==
  ASSUME TypeInv, TypeInv', KeptOfRuns, NEW p \in Procs, NotesOwn(p), Active(p), Goes(p),
         Heard(p), Diligent(p), NEW r \in Runs, r = call[p].run, Fine(r)
  PROVE  Fine(r)'
<1>. DEFINE old == disk[r].stages
            new == disk'[r].stages
<1>1. /\ Unjudged(disk[r]) /\ old = mem[p].stages /\ disk[r] # NONE /\ old \in Seq(Entries)
  BY NoneAssumption DEF TypeInv, Ownership, Diligent, Unjudged, Run
<1>2. /\ Len(old) \in Nat /\ Len(new) \in Nat
      /\ \A i \in 1..Len(old) : i \in 1..Len(new) /\ new[i] = old[i]
      /\ \A i \in 1..Len(new) : i \notin 1..Len(old) => pc[p] = "record" /\ OwnEntry(p, new[i])
  <2>1. Grown(p, old, new)
    BY <1>1 DEF Goes
  <2>. HIDE DEF old, new
  <2>. QED  BY <1>1, <2>1, GrownEntries
<1>3. disk'[r] # NONE => journal[r] \subseteq journal'[r]
  BY DEF KeptOfRuns
<1>4. ASSUME NEW i \in 1..Len(new), new[i].status = "PASSED"
      PROVE  Witnessed(new[i].stage, r)
  <2>1. CASE i \in 1..Len(old)
    BY <1>1, <1>2, <1>4, <2>1, SMTT(60) DEF Fine
  <2>2. CASE i \notin 1..Len(old)
    BY <1>2, <1>4, <2>2 DEF OwnEntry, Heard
  <2>. QED  BY <2>1, <2>2
<1>5. ASSUME NEW i \in 1..Len(new), new[i].status = "PASSED"
      PROVE  Witnessed(disk[r].stages[i].stage, r)'
  <2>1. PICK s : s = new[i].stage
    OBVIOUS
  <2>2. Witnessed(s, r)'
    BY <1>4, <1>5, <2>1, WitnessedStays
  <2>. QED  BY <2>1, <2>2
<1>6. ASSUME NEW i \in 1..Len(new), NEW j \in 1..Len(new), i < j,
             new[i].mandatory, new[i].status # "PASSED"
      PROVE  new[i].stage = new[j].stage /\ disk'[r].status # "COMPLETED"
  <2>1. CASE i \notin 1..Len(old)
    <3>1. j \notin 1..Len(old)
      BY <1>2, <1>6, <2>1
    <3>. QED
      BY <1>2, <2>1, <3>1 DEF OwnEntry, Goes
  <2>2. CASE i \in 1..Len(old)
    <3>1. pc[p] = "stop"
      <4>1. pc[p] # "stop" => Clean(mem[p], Reached(p))
        BY DEF Diligent
      <4>2. old = mem[p].stages /\ old[i].mandatory /\ old[i].status # "PASSED"
        BY <1>1, <1>2, <1>6, <2>2
      <4>. HIDE DEF old
      <4>. QED  BY <2>2, <4>1, <4>2, CleanPassed
    <3>2. j \in 1..Len(old)
      BY <1>2, <3>1
    <3>3. old[i].mandatory /\ old[i].status # "PASSED"
      BY <1>2, <1>6, <2>2
    <3>4. old[i].stage = old[j].stage
      BY <1>1, <1>6, <2>2, <3>2, <3>3 DEF Fine
    <3>. QED
      BY <1>2, <2>2, <3>1, <3>2, <3>4 DEF Goes
  <2>. QED  BY <2>1, <2>2
<1>7. ASSUME NEW s, \E i \in 1..Len(old) : old[i] = Passed(s)
      PROVE  \E i \in 1..Len(new) : new[i] = Passed(s)
  BY <1>2, <1>7
<1>8. ASSUME pc[p] = "work", NEW m \in 1..8, m < call[p].at, m \notin {6, 7}
      PROVE  \E i \in 1..Len(old) : old[i] = Passed(Stages[m])
  <2>1. Clean(mem[p], call[p].at)
    BY <1>8 DEF Diligent, Reached
  <2>2. Due(m, mem[p].compliance)
    BY <1>8 DEF Due
  <2>. QED  BY <1>1, <1>8, <2>1, <2>2 DEF Clean
<1>9. call[p].at \in 1..8
  BY StageNames DEF TypeInv, TypeOK, Call
<1>10. \A i \in 1..8 : i = 1 \/ i = 2 \/ i = 3 \/ i = 4 \/ i = 5 \/ i = 6 \/ i = 7 \/ i = 8
  OBVIOUS
<1>11. /\ Stages[1] = "INGESTION" /\ Stages[2] = "PUF_AUTHENTICATION"
       /\ Stages[3] = "HARDWARE_SECURITY" /\ Stages[4] = "AI_ANALYSIS"
       /\ Stage(p) = "HARDWARE_SECURITY" => call[p].at = 3
       /\ Stage(p) = "COMPLIANCE" => call[p].at = 5
  BY <1>9, <1>10 DEF Stages, Stage
<1>12. "hardware" \in journal'[r] =>
         \E i \in 1..Len(new) : new[i] = Passed("PUF_AUTHENTICATION")
  <2>1. CASE "hardware" \in journal[r]
    BY <1>1, <1>7, <2>1 DEF Fine
  <2>2. CASE pc[p] = "work" /\ Stage(p) = "HARDWARE_SECURITY"
    <3>1. \E i \in 1..Len(old) : old[i] = Passed(Stages[2])
      BY <1>8, <1>11, <2>2
    <3>. HIDE DEF old, new
    <3>. QED  BY <1>7, <1>11, <3>1
  <2>. QED  BY <2>1, <2>2 DEF NotesOwn
<1>13. "compliance.completed" \in journal'[r] =>
         /\ \E i \in 1..Len(new) : new[i] = Passed("HARDWARE_SECURITY")
         /\ \E i \in 1..Len(new) : new[i] = Passed("AI_ANALYSIS")
  <2>1. CASE "compliance.completed" \in journal[r]
    BY <1>1, <1>7, <2>1 DEF Fine
  <2>2. CASE pc[p] = "work" /\ Stage(p) = "COMPLIANCE"
    <3>1. call[p].at = 5 /\ pc[p] = "work"
      BY <1>11, <2>2
    <3>. HIDE DEF old, new
    <3>2. \E i \in 1..Len(old) : old[i] = Passed(Stages[3])
      BY <1>8, <3>1
    <3>3. \E i \in 1..Len(old) : old[i] = Passed(Stages[4])
      BY <1>8, <3>1
    <3>. QED  BY <1>7, <1>11, <3>2, <3>3
  <2>. QED  BY <2>1, <2>2 DEF NotesOwn
<1>14. disk'[r] # NONE
  BY NoneAssumption DEF Goes
<1>. HIDE DEF old
<1>. QED
  BY <1>5, <1>6, <1>12, <1>13, <1>14 DEF Fine
(* Who has every entry that is due of an approved chip.                    *)
LEMMA DueEntries ==
  ASSUME NEW run, Clean(run, 9), run.compliance = "APPROVED",
         NEW m \in 1..8, m # 7
  PROVE  \E i \in 1..Len(run.stages) : run.stages[i] = Passed(Stages[m])
<1>1. Due(m, run.compliance) /\ m < 9
  BY DEF Due
<1>. QED  BY <1>1, Zenon DEF Clean

LEMMA EntriesDue ==
  ASSUME NEW run, NEW n, Clean(run, n), NEW i \in 1..Len(run.stages), run.stages[i].mandatory
  PROVE  run.stages[i].stage \in Names \ {"DASHBOARD"}
<1>1. PICK m \in 1..8 : run.stages[i].stage = Stages[m] /\ m # 7
  BY Zenon DEF Clean
<1>2. m = 1 \/ m = 2 \/ m = 3 \/ m = 4 \/ m = 5 \/ m = 6 \/ m = 8
  BY <1>1
<1>. QED  BY <1>1, <1>2, StageNames DEF Stages

LEMMA ConcludeFiled ==
  ASSUME TypeInv, NEW p \in Procs, Conclude(p), NEW r \in Runs, r = call[p].run
  PROVE  LET run == disk'[r]
         IN  /\ run.stages = mem[p].stages /\ run.compliance = mem[p].compliance
             /\ run.decision = DeploymentDecision(mem[p])
             /\ run.decision = "DEPLOY" =>
                  run.status = "COMPLETED" /\ run.quarantined = mem[p].quarantined
             /\ run.quarantined => \/ run.decision \notin {"DEPLOY", "DO_NOT_DEPLOY_PENDING_REVIEW"}
                                   \/ mem[p].quarantined
<1>1. Unjudged(mem[p])
  BY DEF Conclude, TypeInv, Ownership
<1>2. CASE DeploymentDecision(mem[p]) = "DEPLOY"
  <2>1. disk'[r] = [mem[p] EXCEPT !.decision = "DEPLOY", !.status = "COMPLETED"]
    BY <1>2 DEF Conclude, Save, TypeInv, TypeOK
  <2>. QED  BY <1>1, <1>2, <2>1 DEF Unjudged, Run
<1>3. CASE DeploymentDecision(mem[p]) # "DEPLOY"
  <2>. DEFINE decision == DeploymentDecision(mem[p])
              review   == decision = "DO_NOT_DEPLOY_PENDING_REVIEW"
              status   == IF review THEN "MANUAL_REVIEW" ELSE "STOPPED"
  <2>1. disk'[r] = [mem[p] EXCEPT !.decision = decision, !.stopped = "DEPLOYMENT_DECISION",
                                  !.status = status, !.quarantined = ~review]
    BY <1>3 DEF Conclude, Save, TypeInv, TypeOK
  <2>. HIDE DEF decision, status
  <2>2. /\ disk'[r].stages = mem[p].stages /\ disk'[r].compliance = mem[p].compliance
        /\ disk'[r].decision = decision /\ disk'[r].quarantined = ~review
    BY <1>1, <2>1 DEF Unjudged, Run
  <2>. QED  BY <1>3, <2>2 DEF decision
<1>. QED  BY <1>2, <1>3

LEMMA VerdictGoes ==
  ASSUME TypeInv, TypeInv', NEW p \in Procs, Active(p), Goes(p), Diligent(p),
         Step(p) \/ RecordTwice(p) \/ Die(p),
         NEW r \in Runs, r = call[p].run, Fine(r)'
  PROVE  (DeployedWell(r) /\ QuarantinedWell(r))'
<1>1. CASE pc[p] # "conclude"
  <2>1. disk'[r].decision # "DEPLOY"
    BY <1>1 DEF Goes
  <2>2. DeployedWell(r)'
    BY <2>1 DEF DeployedWell, Deployed
  <2>3. ASSUME disk'[r].quarantined
        PROVE  \E i \in 1..Len(disk'[r].stages) :
                 Against(disk'[r].stages[i]) /\ disk'[r].stages[i].stage # "BLOCKCHAIN"
    <3>1. pc[p] = "stop" /\ Stage(p) # "BLOCKCHAIN" /\ disk'[r].stages = mem[p].stages
      BY <1>1, <2>3 DEF Goes, Infrastructure, Grown
    <3>. QED  BY <3>1 DEF Diligent
  <2>. QED  BY <2>2, <2>3 DEF QuarantinedWell
<1>2. CASE disk' = disk
  <2>1. disk[r].decision = NONE /\ ~disk[r].quarantined
    BY DEF TypeInv, Ownership, Unjudged, Diligent
  <2>. QED
    BY <1>2, <2>1, NoneAssumption DEF DeployedWell, Deployed, QuarantinedWell, Verdicts
<1>3. CASE pc[p] = "conclude" /\ disk' # disk
  <2>1. Conclude(p)
    BY <1>3, FunctionShape DEF Step, InFunction, Begin, StartStage, RecordResult, RecordError, Stop,
       RecordTwice, Die, stores
  <2>2. /\ Clean(mem[p], 9) /\ ~mem[p].quarantined
    BY <1>3 DEF Diligent, Reached, Active
  <2>. DEFINE run    == disk'[r]
              stages == mem[p].stages
  <2>3. /\ run.stages = stages /\ run.compliance = mem[p].compliance
        /\ run.decision = DeploymentDecision(mem[p])
        /\ run.decision = "DEPLOY" => run.status = "COMPLETED" /\ ~run.quarantined
        /\ run.quarantined => run.decision \notin {"DEPLOY", "DO_NOT_DEPLOY_PENDING_REVIEW"}
    BY <2>1, <2>2, ConcludeFiled
  <2>4. ASSUME mem[p].compliance = "APPROVED", NEW m \in 1..8, m # 7
        PROVE  \E i \in 1..Len(stages) : stages[i] = Passed(Stages[m])
    BY <2>2, <2>4, DueEntries
  <2>5. /\ Stages[1] = "INGESTION" /\ Stages[3] = "HARDWARE_SECURITY" /\ Stages[5] = "COMPLIANCE"
        /\ Stages[6] = "BLOCKCHAIN"
        /\ \A m \in 1..8 : m = 7 <=> Stages[m] = "DASHBOARD"
    <3>1. \A m \in 1..8 : m = 1 \/ m = 2 \/ m = 3 \/ m = 4 \/ m = 5 \/ m = 6 \/ m = 7 \/ m = 8
      OBVIOUS
    <3>. QED  BY <3>1 DEF Stages
  <2>6. QuarantinedWell(r)'
    <3>. SUFFICES ASSUME run.quarantined
                  PROVE  run.compliance \notin {"APPROVED", NONE}
      BY DEF QuarantinedWell
    <3>1. run.compliance # "APPROVED"
      <4>. SUFFICES ASSUME mem[p].compliance = "APPROVED" PROVE FALSE
        BY <2>3
      <4>. HIDE DEF stages
      <4>1. \E i \in 1..Len(stages) : stages[i] = Passed(Stages[6])
        BY <2>4
      <4>2. \E i \in 1..Len(stages) : stages[i] = Passed("BLOCKCHAIN")
        BY <2>5, <4>1
      <4>. USE DEF stages
      <4>3. Verified(mem[p])
        BY <4>2 DEF Verified, Passed
      <4>. QED  BY <2>3, <4>3 DEF DeploymentDecision
    <3>2. run.compliance \in Decisions
      BY <2>2, <2>3 DEF Clean
    <3>. QED  BY <3>1, <3>2, NoneAssumption
  <2>7. DeployedWell(r)'
    <3>. SUFFICES ASSUME run # NONE, run.decision = "DEPLOY"
                  PROVE  DeployedWell(r)'
      BY DEF DeployedWell, Deployed
    <3>1. mem[p].compliance = "APPROVED"
      BY <2>3 DEF DeploymentDecision
    <3>. DEFINE due == {i \in 1..Len(stages) : stages[i].mandatory}
    <3>2. \A i \in due : stages[i].status = "PASSED"
      BY <2>2, CleanPassed
    <3>3. {stages[i].stage : i \in due} = Names \ {"DASHBOARD"}
      <4>1. \A i \in due : stages[i].stage \in Names \ {"DASHBOARD"}
        BY <2>2, EntriesDue
      <4>2. ASSUME NEW s \in Names \ {"DASHBOARD"}
            PROVE  \E i \in due : stages[i].stage = s
        <5>1. PICK m \in 1..8 : s = Stages[m] /\ m # 7
          BY <2>5, StageNames DEF Names
        <5>2. PICK i \in 1..Len(stages) : stages[i] = Passed(s)
          BY <2>4, <3>1, <5>1
        <5>. QED  BY <5>2 DEF Passed
      <4>. HIDE DEF due
      <4>. QED  BY <4>1, <4>2
    <3>4. \A i, j \in due : i < j => Before(stages[i].stage, stages[j].stage)
      BY <2>2, Zenon DEF Clean
    <3>5. ASSUME NEW m \in {1, 3, 5, 6}
          PROVE  Witnessed(Stages[m], r)'
      <4>. HIDE DEF stages
      <4>1. m \in 1..8 /\ m # 7
        OBVIOUS
      <4>2. PICK i \in 1..Len(stages) : stages[i] = Passed(Stages[m])
        BY <2>4, <3>1, <4>1
      <4>3. stages[i].status = "PASSED" /\ stages[i].stage = Stages[m]
        BY <4>2 DEF Passed
      <4>. QED  BY <2>3, <4>3 DEF Fine
    <3>6. ledger'[r] = "anchored" /\ Kinds \subseteq journal'[r]
      BY <3>5, <2>5 DEF Witnessed, Kinds
    <3>7. journal'[r] = Kinds
      BY <3>6 DEF TypeInv, TypeOK
    <3>. HIDE DEF stages
    <3>. QED
      BY <2>3, <3>1, <3>2, <3>3, <3>4, <3>6, <3>7 DEF DeployedWell
  <2>. QED  BY <2>6, <2>7
<1>. QED  BY <1>1, <1>2, <1>3
-----------------------------------------------------------------------------
(* A process that took no step.                                            *)
LEMMA OthersJustified ==
  ASSUME TypeInv, NEW q \in Procs, KeptOfRuns, Heard(q), Diligent(q),
         pc'[q] = pc[q], mem'[q] = mem[q], call'[q] = call[q],
         Active(q) => disk'[call[q].run] = disk[call[q].run]
  PROVE  Heard(q)' /\ Diligent(q)'
<1>1. Active(q)' <=> Active(q)
  BY DEF Active
<1>2. Heard(q)'
  <2>1. CASE Active(q)
    <3>1. /\ pc'[q] \in {"submit", "anchor", "file"} =>
               "compliance.completed" \in journal'[call[q].run]
          /\ pc'[q] = "anchor" => "fabric" \in call'[q].recorded
      BY <2>1 DEF Heard, KeptOfRuns, TypeInv, Ownership
    <3>. QED  BY <2>1, <3>1, HeardStays
  <2>2. CASE ~Active(q)
    BY <1>1, <2>2 DEF Heard
  <2>. QED  BY <2>1, <2>2
<1>3. Diligent(q)'
  <2>1. Reached(q)' = Reached(q) /\ Stage(q)' = Stage(q)
    BY DEF Reached, Stage
  <2>. QED  BY <1>1, <2>1 DEF Diligent
<1>. QED  BY <1>2, <1>3

(* A process nobody else's step concerns: it owns its run.                 *)
LEMMA OtherFiles ==
  ASSUME TypeInv, NEW p \in Procs, Starts(p) \/ GoesOn(p) \/ Ends(p),
         NEW q \in Procs \ {p}, Active(q)
  PROVE  disk'[call[q].run] = disk[call[q].run]
<1>1. call[q].run \in Runs /\ disk[call[q].run] # NONE
  BY NoneAssumption DEF TypeInv, Ownership, Unjudged
<1>2. CASE Starts(p)
  BY <1>1, <1>2 DEF Starts
<1>3. CASE GoesOn(p) \/ Ends(p)
  <2>1. CASE Active(p)
    <3>1. call[q].run # call[p].run
      BY <2>1 DEF TypeInv, Ownership
    <3>. QED  BY <1>1, <1>3, <3>1 DEF GoesOn, Ends, OtherRunsKept
  <2>2. CASE ~Active(p)
    <3>1. call[p].run = 0
      BY <2>2 DEF TypeInv, InStage, Active, NoCall
    <3>2. call[q].run # call[p].run
      BY <1>1, <3>1, PipelineAssumption DEF Runs
    <3>. QED  BY <1>1, <1>3, <3>2 DEF GoesOn, Ends, OtherRunsKept
  <2>. QED  BY <2>1, <2>2
<1>. QED  BY <1>2, <1>3

LEMMA StepJustified ==
  ASSUME JInv, TypeInv', NEW p \in Procs, Step(p) \/ RecordTwice(p) \/ Die(p)
  PROVE  JInv'
<1>1. /\ TypeInv /\ Diligence /\ (\A q \in Procs : Heard(q) /\ Diligent(q))
      /\ \A r \in Runs : Fine(r) /\ DeployedWell(r) /\ QuarantinedWell(r)
  BY InvariantByRun DEF Diligence
<1>2. KeptOfRuns /\ NotesOwn(p)
  BY <1>1, StepKeeps
<1>3. OthersKept(p) /\ (Starts(p) \/ GoesOn(p) \/ Ends(p))
  BY <1>1, StepShape
<1>4. Heard(p)' /\ Diligent(p)'
  BY <1>1, <1>2, HeardStep, DiligentStep
<1>5. ASSUME NEW q \in Procs \ {p}
      PROVE  Heard(q)' /\ Diligent(q)'
  <2>1. pc'[q] = pc[q] /\ mem'[q] = mem[q] /\ call'[q] = call[q]
    BY <1>3 DEF OthersKept
  <2>2. Active(q) => disk'[call[q].run] = disk[call[q].run]
    BY <1>1, <1>3, OtherFiles
  <2>. QED  BY <1>1, <1>2, <2>1, <2>2, OthersJustified
<1>6. \A q \in Procs : Heard(q)' /\ Diligent(q)'
  BY <1>4, <1>5
<1>7. ASSUME NEW r \in Runs
      PROVE  (Fine(r) /\ DeployedWell(r) /\ QuarantinedWell(r))'
  <2>1. CASE Active(p) /\ r = call[p].run
    <3>1. Goes(p)
      BY <1>1, <2>1, StepGoes
    <3>2. Fine(r)'
      BY <1>1, <1>2, <2>1, <3>1, FileGoes
    <3>. QED  BY <1>1, <2>1, <3>1, <3>2, VerdictGoes
  <2>2. CASE ~(Active(p) /\ r = call[p].run) /\ disk'[r] = disk[r]
    <3>1. journal'[r] = journal[r]
      BY <1>2, <2>2 DEF NotesOwn
    <3>. QED  BY <1>1, <1>2, <2>2, <3>1, FileStays
  <2>3. CASE ~(Active(p) /\ r = call[p].run) /\ disk'[r] # disk[r]
    <3>1. Starts(p) /\ r = call'[p].run
      <4>1. CASE GoesOn(p)
        BY <2>3, <4>1 DEF GoesOn, OtherRunsKept
      <4>2. CASE Ends(p)
        <5>1. r = call[p].run /\ ~Active(p)
          BY <2>3, <4>2 DEF Ends, OtherRunsKept
        <5>2. call[p].run = 0
          BY <1>1, <5>1 DEF TypeInv, InStage, Active, NoCall
        <5>. QED  BY <5>1, <5>2, PipelineAssumption DEF Runs
      <4>. QED  BY <1>3, <2>3, <4>1, <4>2 DEF Starts
    <3>2. pc[p] = "begin" /\ disk[r] = NONE /\ Active(p)' /\ mem[p].stages = <<>>
      BY <1>1, <3>1 DEF Starts, Diligent
    <3>3. mem'[p] = mem[p]
      <4>1. Begin(p) \/ Die(p)
        BY <1>1, <3>2, FunctionShape DEF Step, InFunction, StartStage, RecordResult, RecordError,
           Stop, Conclude, RecordTwice
      <4>. QED
        BY <3>1, <4>1, <1>1, LeaveTypes DEF Begin, Die, Starts
    <3>4. /\ Unjudged(disk'[r]) /\ disk'[r].stages = <<>> /\ ~disk'[r].quarantined
      BY <1>4, <3>1, <3>2, <3>3 DEF Diligent, TypeInv, Ownership
    <3>5. journal'[r] = {}
      BY <1>1, <1>2, <2>3, <3>2 DEF NotesOwn, Fine
    <3>6. Len(disk'[r].stages) = 0
      BY <3>4
    <3>7. Fine(r)'
      BY <3>5, <3>6 DEF Fine
    <3>8. (DeployedWell(r) /\ QuarantinedWell(r))'
      BY <3>4, NoneAssumption DEF DeployedWell, Deployed, QuarantinedWell, Unjudged, Verdicts
    <3>. QED  BY <3>7, <3>8
  <2>. QED  BY <2>1, <2>2, <2>3
<1>8. Diligence' /\ (\A q \in Procs : Heard(q))'
  BY <1>6 DEF Diligence
<1>9. (\A r \in Runs : Fine(r) /\ DeployedWell(r) /\ QuarantinedWell(r))'
  BY <1>7
<1>10. VerdictJustified'
  <2>1. DeployJustified'
    BY <1>9 DEF DeployJustified, DeployedWell
  <2>2. QuarantineJustified'
    BY <1>9, AgainstTheChip, Zenon DEF QuarantineJustified, QuarantinedWell, Mistaking
  <2>. QED  BY <2>1, <2>2 DEF VerdictJustified
<1>11. Evidence' /\ FailClosed'
  BY <1>8, <1>9, Zenon DEF Evidence, FailClosed, Fine, Passed
<1>. QED  BY <1>8, <1>10, <1>11 DEF JInv

LEMMA AroundJustified ==
  ASSUME JInv, TypeInv',
         \/ \E p \in Procs, f \in Files, force \in BOOLEAN : RunFile(p, f, force)
         \/ \E t \in pending : Settle(t)
         \/ \E r \in Runs : CommitProvenance(r)
         \/ UNCHANGED vars
  PROVE  JInv'
<1>1. /\ TypeInv /\ (\A q \in Procs : Heard(q) /\ Diligent(q)) /\ Evidence
      /\ \A r \in Runs : Fine(r) /\ DeployedWell(r) /\ QuarantinedWell(r)
  BY InvariantByRun DEF Diligence, JInv
<1>2. /\ KeptOfRuns
      /\ \A r \in Runs :
           /\ disk[r] = NONE => journal'[r] = journal[r]
           /\ "hardware" \in journal'[r] => "hardware" \in journal[r]
           /\ "compliance.completed" \in journal'[r] => "compliance.completed" \in journal[r]
  BY <1>1, AroundKeeps
<1>3. disk' = disk /\ call' = call
  BY <1>1, AroundShape
<1>4. \A r \in Runs : (Fine(r) /\ DeployedWell(r) /\ QuarantinedWell(r))'
  BY <1>1, <1>2, <1>3, FileStays
<1>5. ASSUME NEW q \in Procs
      PROVE  Heard(q)' /\ Diligent(q)'
  <2>1. CASE pc'[q] = pc[q] /\ mem'[q] = mem[q]
    BY <1>1, <1>2, <1>3, <2>1, OthersJustified
  <2>2. CASE \E f \in Files, force \in BOOLEAN : RunFile(q, f, force)
    <3>1. PICK f \in Files : pc'[q] = "begin" /\ mem'[q] = NewRun(f)
      BY <1>1, <2>2 DEF RunFile, Goto, TypeInv, TypeOK
    <3>. QED  BY <3>1 DEF Heard, Diligent, Active, NewRun
  <2>3. CASE \E p \in Procs \ {q}, f \in Files, force \in BOOLEAN : RunFile(p, f, force)
    <3>1. pc'[q] = pc[q] /\ mem'[q] = mem[q]
      BY <1>1, <2>3 DEF RunFile, Goto, TypeInv, TypeOK
    <3>. QED  BY <2>1, <3>1
  <2>. QED
    BY <2>1, <2>2, <2>3 DEF Settle, CommitProvenance, vars, stores
<1>6. Diligence' /\ (\A q \in Procs : Heard(q))'
  BY <1>5 DEF Diligence
<1>7. (\A r \in Runs : Fine(r) /\ DeployedWell(r) /\ QuarantinedWell(r))'
  BY <1>4
<1>8. VerdictJustified'
  <2>1. DeployJustified'
    BY <1>7 DEF DeployJustified, DeployedWell
  <2>2. QuarantineJustified'
    BY <1>7, AgainstTheChip, Zenon DEF QuarantineJustified, QuarantinedWell, Mistaking
  <2>. QED  BY <2>1, <2>2 DEF VerdictJustified
<1>9. Evidence' /\ FailClosed'
  BY <1>6, <1>7, Zenon DEF Evidence, FailClosed, Fine, Passed
<1>. QED  BY <1>6, <1>8, <1>9 DEF JInv

(* The invariant the next two theorems rest on.                            *)
LEMMA JustifiedInvariant == Spec => []JInv
<1>1. Init => JInv
  <2>. SUFFICES ASSUME Init PROVE JInv
    OBVIOUS
  <2>1. TypeInv
    BY InitTypes
  <2>2. Diligence /\ \A p \in Procs : Heard(p)
    BY DEF Init, Diligence, Diligent, Heard, Active
  <2>3. \A r \in Runs : Fine(r) /\ DeployedWell(r) /\ QuarantinedWell(r)
    BY DEF Init, Fine, DeployedWell, QuarantinedWell, Deployed
  <2>. QED  BY <2>1, <2>2, <2>3, InvariantByRun
<1>2. JInv /\ [Next]_vars => JInv'
  <2>. SUFFICES ASSUME JInv, [Next]_vars PROVE JInv'
    OBVIOUS
  <2>1. TypeInv'
    BY TypeStep, TypeAround DEF Next, JInv
  <2>. QED  BY <2>1, StepJustified, AroundJustified DEF Next
<1>. QED  BY <1>1, <1>2, PTL DEF Spec

(* Once a mandatory stage has not passed, nothing of a later stage happens *)
(* and the run is not completed (FailClosed), whoever else runs the file,  *)
(* and whichever save fails or process dies.                               *)
THEOREM PipelineFailsClosed == Spec => []FailClosed
<1>1. JInv => FailClosed
  BY DEF JInv
<1>. QED  BY <1>1, JustifiedInvariant, PTL

(* A chip is deployed only if every mandatory stage passed, compliance     *)
(* approved it and both ledgers and the journal tell of it, and is         *)
(* quarantined only on a finding about the chip (VerdictJustified).        *)
THEOREM VerdictsHaveReason == Spec => []VerdictJustified
<1>1. JInv => VerdictJustified
  BY DEF JInv
<1>. QED  BY <1>1, JustifiedInvariant, PTL
=============================================================================
