------------------------- MODULE PipelineRunsProofs --------------------------
(***************************************************************************)
(* Proofs about the terminal, for any number of processes, files, contents *)
(* and runs, any edits and any faults.                                     *)
(*                                                                         *)
(* The commands share nothing but the files of the store, so the invariant *)
(* is built of what each process knows and what each run has on disk:      *)
(*   - Shape(p): the local variables p has set by its step, and that the   *)
(*     content it parsed, the one it hashed and the one it submitted are   *)
(*     one content, unless its file was edited between its two reads;      *)
(*   - OwnScans: no two processes work on the same scan;                   *)
(*   - Work(p): how far the files of p's run have come, and why the        *)
(*     verdict p holds in memory is justified before it is saved;          *)
(*   - Filed(r): the same for what is on disk, which a process that died   *)
(*     has left behind.                                                    *)
(* Frame(p) says what a step of p leaves alone; by it the invariant of     *)
(* every other process, and of every other run, is kept once for all.      *)
(***************************************************************************)
EXTENDS PipelineRuns, SequenceTheorems, TLAPS

Submitted == {"ingest", "gate", "evaluate", "anchor", "decide", "deploy",
              "quarantine", "save", "register"}
ForRuns   == {"find", "replay", "ingest", "deploy", "quarantine", "save", "register"}

(* The local variables of p at its step.                                   *)
Shape(p) ==
  /\ pc[p] # "idle" => call[p].kind # "none" /\ call[p].todo # <<>>
  /\ call[p].kind = "run" => call[p].anchor = NONE
  /\ pc[p] \in ForRuns => call[p].kind = "run"
  /\ pc[p] \notin {"idle", "read"} => call[p].sim \in Contents
  /\ pc[p] = "hash" => file[Source(p)] = call[p].sim \/ call[p].edited
  /\ pc[p] \notin {"idle", "read", "hash"} => call[p].hash \in Contents
  /\ pc[p] \in {"find", "replay", "submit"} => call[p].hash = call[p].sim \/ call[p].edited
  /\ pc[p] = "replay" => call[p].hash \in DOMAIN index
  /\ pc[p] \in Submitted =>
       /\ call[p].id \in Runs /\ scan[call[p].id] = call[p].sim
       /\ call[p].hash = call[p].sim \/ call[p].id \in mixed
  /\ pc[p] \in {"gate", "evaluate", "anchor", "decide", "deploy", "quarantine", "save", "register"}
       /\ call[p].kind = "run" => call[p].run \in Run /\ call[p].run.hash = call[p].hash
  /\ call[p].error => faults > 0 /\ pc[p] \in Submitted

OwnScans ==
  \A p, q \in Procs :
    pc[p] \in Submitted /\ pc[q] \in Submitted /\ p # q => call[p].id # call[q].id

(* The scan of the run registered for a hash is of that content.           *)
ScansAnswer == \A h \in DOMAIN index : index[h] \in mixed \/ scan[index[h]] = h

TInv == TypeOK /\ (\A p \in Procs : Shape(p)) /\ OwnScans /\ ScansAnswer

-----------------------------------------------------------------------------
(* What is on disk of run r, given what else the platform holds of it.     *)
Shut(run) == run.quarantined \/ run.status = "REJECTED"

Clear(stages, n) ==
  Len(stages) = n /\ \A i \in 1..n : stages[i][2] \in {"PASSED", "SKIPPED"}

Fits(r, run) ==
  /\ run.status = "COMPLETED" =>
       /\ Objections(Facts[scan[r]]) = {}
       /\ Clear(run.stages, 5)
       /\ evaluated[r] = "APPROVED" /\ run.decision = "DEPLOY" /\ refused[r] = NONE
       /\ Facts[scan[r]].fabric => ledger[r] = Recorded
  /\ run.status \in {"REJECTED", "STOPPED", "MANUAL_REVIEW"} => Objections(Facts[scan[r]]) # {}
  /\ run.status = "INFRASTRUCTURE_HOLD" => Facts[scan[r]].fabric /\ faults > 0

Filed(r) ==
  /\ scan[r] = NONE => disk[r] = NONE /\ refused[r] = NONE /\ evaluated[r] = NONE
  /\ disk[r] # NONE => Fits(r, disk[r])
  /\ disk[r] # NONE /\ disk[r].status = "RUNNING" => ~disk[r].quarantined
  /\ evaluated[r] = "APPROVED" => Objections(Facts[scan[r]]) = {}
  /\ disk[r] # NONE /\ Shut(disk[r]) => refused[r] = disk[r].decision
  /\ refused[r] # NONE => disk[r] # NONE
  /\ refused[r] # NONE /\ ~Shut(disk[r]) =>
       disk[r].status = "RUNNING" /\ Objections(Facts[scan[r]]) # {}

(* How far p has come with its scan.                                       *)
Begun(p) ==
  LET r == call[p].id
  IN  /\ pc[p] = "ingest" \/ call[p].kind = "scan" => disk[r] = NONE
      /\ pc[p] # "ingest" /\ call[p].kind = "run" =>
           disk[r] # NONE /\ (pc[p] # "register" => disk[r].status = "RUNNING")
      /\ pc[p] = "register" => disk[r] = call[p].run /\ call[p].run.status \in Verdicts
      /\ pc[p] \notin {"save", "register"} => refused[r] = NONE

Judging(p) ==
  LET r == call[p].id   sim == Facts[call[p].sim]   run == call[p].run
  IN  /\ pc[p] = "gate" /\ call[p].kind = "run" => Clear(run.stages, 1)
      /\ pc[p] \in {"evaluate", "anchor", "decide", "deploy"} =>
           /\ SimulationGate(sim) = "PASSED"
           /\ call[p].kind = "run" => ~PermanentRejection(sim) /\ Clear(run.stages, 2)
      /\ pc[p] = "anchor" => MustAnchor(p)
      /\ pc[p] \in {"decide", "deploy"} =>
           /\ MustAnchor(p) /\ ~call[p].error => ledger[r] = Recorded
           /\ call[p].error => MustAnchor(p)
      /\ pc[p] \notin {"decide", "deploy", "quarantine", "save", "register"} => ~call[p].error
      /\ pc[p] = "deploy" => evaluated[r] = Compliance(Request(p))

Judged(p) ==
  LET r == call[p].id   run == call[p].run
  IN  /\ pc[p] \in {"quarantine", "save"} => run.status \in Verdicts /\ Fits(r, run)
      /\ pc[p] = "quarantine" =>
           Shut(run) /\ run.status \in {"REJECTED", "STOPPED"} /\ run.decision # NONE
      /\ pc[p] = "save" => refused[r] = IF Shut(run) THEN run.decision ELSE NONE

Work(p) == pc[p] \in Submitted => Begun(p) /\ Judging(p) /\ Judged(p)

VInv == (\A p \in Procs : Work(p)) /\ (\A r \in Runs : Filed(r))
-----------------------------------------------------------------------------
(***************************************************************************)
(* What a step of p leaves alone.                                          *)
(***************************************************************************)
Frame(p) ==
  /\ file' = file /\ faults' >= faults /\ ethereum' = ethereum /\ mixed \subseteq mixed'
  /\ \A q \in Procs : q # p => pc'[q] = pc[q] /\ call'[q] = call[q]
  /\ \A r \in Runs : scan[r] # NONE => scan'[r] = scan[r]
  /\ DOMAIN index \subseteq DOMAIN index'
  /\ pc'[p] \in Submitted =>
       \/ pc[p] \in Submitted /\ call'[p].id = call[p].id
       \/ call'[p].id \in Runs /\ scan[call'[p].id] = NONE
  /\ \A r \in Runs : ~(pc[p] \in Submitted /\ r = call[p].id) =>
       /\ disk'[r] = disk[r] /\ refused'[r] = refused[r]
       /\ evaluated'[r] = evaluated[r] /\ ledger'[r] = ledger[r]

Keeps(p) == TypeOK' /\ Shape(p)' /\ Frame(p) /\ ScansAnswer'

(* A command ends, or goes on to its next file, with nothing in memory.    *)
Leaves(p) ==
  \E c \in Call, s \in {"idle", "read"} :
    /\ pc' = [pc EXCEPT ![p] = s] /\ call' = [call EXCEPT ![p] = c]
    /\ ~c.error /\ (c.kind = "run" => c.anchor = NONE)
    /\ s = "read" => c.kind # "none" /\ c.todo # <<>>

LEMMA NoCallTyped == NoCall \in Call
BY DEF NoCall, Call, Or

LEMMA MoreToDo ==
  ASSUME NEW todo \in Seq(Files), todo # <<>>, Len(todo) # 1
  PROVE  Tail(todo) \in Seq(Files) /\ Tail(todo) # <<>>
<1>1. Len(todo) \in Nat \ {0}
  BY EmptySeq
<1>2. Tail(todo) \in Seq(Files) /\ Len(Tail(todo)) = Len(todo) - 1
  BY HeadTailProperties
<1>3. Len(Tail(todo)) # 0
  BY <1>1, <1>2
<1> QED BY <1>2, <1>3, EmptySeq

LEMMA Leaving ==
  ASSUME TypeOK, NEW p \in Procs, Shape(p), ~At(p, "idle"),
         End(p) \/ NextFile(p) \/ Raise(p)
  PROVE  Leaves(p)
<1>1. CASE End(p)
  BY <1>1, NoCallTyped DEF End, Goto, Leaves, NoCall
<1>2. CASE NextFile(p) /\ ~End(p)
  <2> DEFINE c == [NoCall EXCEPT
                     !.kind = call[p].kind, !.todo = Tail(call[p].todo),
                     !.force = call[p].force, !.stop = call[p].stop,
                     !.comply = call[p].comply, !.anchor = call[p].anchor]
  <2>1. call[p] \in Call /\ call[p].todo # <<>> /\ Len(call[p].todo) # 1
    BY <1>2 DEF TypeOK, Shape, At, NextFile
  <2>2. Tail(call[p].todo) \in Seq(Files) /\ Tail(call[p].todo) # <<>>
    <3>1. call[p].todo \in Seq(Files)
      BY <2>1 DEF Call
    <3> QED BY <3>1, <2>1, MoreToDo
  <2>3. c \in Call /\ ~c.error /\ c.kind = call[p].kind /\ c.anchor = call[p].anchor
          /\ c.todo = Tail(call[p].todo)
    BY <2>1, <2>2, ZenonT(60) DEF Call, NoCall, Or
  <2>4. pc' = [pc EXCEPT ![p] = "read"] /\ call' = [call EXCEPT ![p] = c]
    BY <1>2 DEF NextFile, Goto
  <2> QED BY <2>2, <2>3, <2>4 DEF Leaves, Shape, At
<1> QED BY <1>1, <1>2 DEF Raise

LEMMA ScansStay ==
  ASSUME TInv, index' = index, mixed \subseteq mixed', \A r \in Runs : scan[r] # NONE => scan'[r] = scan[r]
  PROVE  ScansAnswer'
BY NoneIsNothing DEF TInv, TypeOK, ScansAnswer

LEMMA LeavingKeeps ==
  ASSUME TInv, NEW p \in Procs, Leaves(p), UNCHANGED <<file, stores, edits, ethereum, mixed>>,
         faults' \in faults..MaxFaults
  PROVE  Keeps(p)
<1>1. PICK c \in Call, s \in {"idle", "read"} :
        /\ pc' = [pc EXCEPT ![p] = s] /\ call' = [call EXCEPT ![p] = c]
        /\ ~c.error /\ (c.kind = "run" => c.anchor = NONE)
        /\ s = "read" => c.kind # "none" /\ c.todo # <<>>
  BY DEF Leaves
<1>2. TypeOK'
  BY <1>1, TerminalAssumption DEF TInv, TypeOK, stores, PCs
<1>3. pc'[p] = s /\ call'[p] = c
  BY <1>1 DEF TInv, TypeOK
<1>4. Shape(p)'
  BY <1>1, <1>3 DEF Shape, ForRuns, Submitted
<1>5. Frame(p)
  BY <1>1, <1>3, TerminalAssumption DEF Frame, stores, TInv, TypeOK, Submitted
<1>6. ScansAnswer'
  BY ScansStay DEF stores
<1> QED BY <1>2, <1>4, <1>5, <1>6 DEF Keeps

(* What the others know stays true.                                        *)
LEMMA OthersKeepShape ==
  ASSUME TInv, NEW p \in Procs, Frame(p), TypeOK', NEW q \in Procs, q # p
  PROVE  Shape(q)'
<1>1. Shape(q) /\ pc'[q] = pc[q] /\ call'[q] = call[q] /\ call[q] \in Call
  BY DEF TInv, TypeOK, Frame
<1>2. pc[q] \in Submitted => scan'[call[q].id] = call[q].sim
  BY <1>1, NoneIsNothing DEF Shape, Frame, Submitted
<1>3. call[q].error => faults' > 0
  BY <1>1, TerminalAssumption DEF Shape, Frame, TInv, TypeOK
<1>4. Source(q)' = Source(q)
  BY <1>1 DEF Source
<1> QED BY <1>1, <1>2, <1>3, <1>4 DEF Shape, Frame

LEMMA ScansStayOwned ==
  ASSUME TInv, NEW p \in Procs, Frame(p)
  PROVE  OwnScans'
<1> SUFFICES ASSUME NEW x \in Procs, NEW y \in Procs, x # y,
                    pc'[x] \in Submitted, pc'[y] \in Submitted
             PROVE  call'[x].id # call'[y].id
  BY DEF OwnScans
<1>1. \A q \in Procs : pc[q] \in Submitted => scan[call[q].id] # NONE
  BY NoneIsNothing DEF TInv, Shape, Submitted
<1>2. \A q \in Procs : q # p => pc'[q] = pc[q] /\ call'[q] = call[q]
  BY DEF Frame
<1>3. pc'[p] \in Submitted =>
        (pc[p] \in Submitted /\ call'[p].id = call[p].id) \/ scan[call'[p].id] = NONE
  BY DEF Frame
<1> QED BY <1>1, <1>2, <1>3 DEF TInv, OwnScans

LEMMA KeepsAll ==
  ASSUME TInv, NEW p \in Procs, Keeps(p)
  PROVE  TInv'
BY OthersKeepShape, ScansStayOwned DEF Keeps, TInv
-----------------------------------------------------------------------------
(***************************************************************************)
(* What the rules answer, whatever the chip.                               *)
(***************************************************************************)
LEMMA GateNames ==
  ASSUME NEW sim
  PROVE  /\ SimulationGate(sim) \in Refusing \cup {"PASSED"}
         /\ SimulationGate(sim) # "PASSED" => GateDecision(SimulationGate(sim)) \in Words
BY DEF SimulationGate, GateDecision, Refusing, Words

LEMMA RejectionNames ==
  ASSUME NEW sim
  PROVE  RejectionStage(sim) \in Refusing
BY DEF RejectionStage, Refusing

LEMMA DecisionNames ==
  ASSUME NEW request
  PROVE  Compliance(request) \in Decisions
BY DEF Compliance, PolicyDecision, Decisions

LEMMA VerdictNames ==
  ASSUME NEW decision, NEW failedClosed \in BOOLEAN
  PROVE  /\ Verdict(decision, failedClosed).status \in Verdicts \ {"REJECTED"}
         /\ Verdict(decision, failedClosed).stopped \in Or(Stages)
         /\ Verdict(decision, failedClosed).stage \in Results
BY DEF Verdict, Verdicts, Or, Stages, Results

LEMMA RecommendationNames ==
  ASSUME NEW decision
  PROVE  Recommendation(decision) \in Words
BY DEF Recommendation, Words

-----------------------------------------------------------------------------
(***************************************************************************)
(* Every step keeps the types and what the process knows of its content.   *)
(***************************************************************************)

(* A step in memory only.                                                  *)
LEMMA InMemory ==
  ASSUME TInv, NEW p \in Procs, NEW c \in Call, NEW s \in PCs,
         pc' = [pc EXCEPT ![p] = s], call' = [call EXCEPT ![p] = c],
         UNCHANGED <<file, stores, edits, ethereum, mixed>>, faults' \in faults..MaxFaults,
         s \in Submitted => pc[p] \in Submitted /\ c.id = call[p].id
  PROVE  TypeOK' /\ Frame(p) /\ ScansAnswer' /\ pc'[p] = s /\ call'[p] = c
<1>1. TypeOK'
  BY TerminalAssumption DEF TInv, TypeOK, stores
<1>2. pc'[p] = s /\ call'[p] = c
  BY DEF TInv, TypeOK
<1>3. Frame(p)
  BY <1>2, TerminalAssumption DEF Frame, stores, TInv, TypeOK
<1>4. ScansAnswer'
  BY ScansStay DEF stores
<1> QED BY <1>1, <1>2, <1>3, <1>4

LEMMA FaultsTyped ==
  ASSUME TInv, UNCHANGED faults \/ Fault
  PROVE  faults' \in faults..MaxFaults
BY TerminalAssumption DEF Fault, TInv, TypeOK

LEMMA RunCall ==
  ASSUME NEW todo \in Seq(Files), todo # <<>>, NEW force \in BOOLEAN,
         NEW c, c = [NoCall EXCEPT !.kind = "run", !.todo = todo, !.force = force]
  PROVE  c \in Call /\ c.kind = "run" /\ c.todo # <<>> /\ ~c.error /\ c.anchor = NONE
BY DEF NoCall, Call, Or

LEMMA BatchCall ==
  ASSUME NEW todo \in Seq(Files), todo # <<>>, NEW force \in BOOLEAN, NEW stop \in BOOLEAN,
         NEW c, c = [NoCall EXCEPT !.kind = "run", !.todo = todo, !.force = force, !.stop = stop]
  PROVE  c \in Call /\ c.kind = "run" /\ c.todo # <<>> /\ ~c.error /\ c.anchor = NONE
BY DEF NoCall, Call, Or

LEMMA ResumedCall ==
  ASSUME NEW todo \in Seq(Files), todo # <<>>, NEW r \in Runs,
         NEW c, c = [NoCall EXCEPT !.kind = "run", !.todo = todo, !.force = TRUE, !.from = r]
  PROVE  c \in Call /\ c.kind = "run" /\ c.todo # <<>> /\ ~c.error /\ c.anchor = NONE
BY DEF NoCall, Call, Or

LEMMA ScanCall ==
  ASSUME NEW todo \in Seq(Files), todo # <<>>, NEW comply \in BOOLEAN, NEW anchor \in Or(BOOLEAN),
         NEW c, c = [NoCall EXCEPT !.kind = "scan", !.todo = todo, !.comply = comply,
                                   !.anchor = anchor]
  PROVE  c \in Call /\ c.kind = "scan" /\ c.todo # <<>> /\ ~c.error
<1>1. NONE \in Or(Runs) /\ NONE \in Or(Contents) /\ NONE \in Or(Run)
  BY DEF Or
<1> QED BY <1>1 DEF NoCall, Call

LEMMA ScanBatchCall ==
  ASSUME NEW todo \in Seq(Files), todo # <<>>, NEW comply \in BOOLEAN, NEW anchor \in Or(BOOLEAN),
         NEW stop \in BOOLEAN,
         NEW c, c = [NoCall EXCEPT !.kind = "scan", !.todo = todo, !.comply = comply,
                                   !.anchor = anchor, !.stop = stop]
  PROVE  c \in Call /\ c.kind = "scan" /\ c.todo # <<>> /\ ~c.error
<1>1. NONE \in Or(Runs) /\ NONE \in Or(Contents) /\ NONE \in Or(Run)
  BY DEF Or
<1> QED BY <1>1 DEF NoCall, Call

LEMMA OneToDo ==
  ASSUME NEW f \in Files
  PROVE  <<f>> \in Seq(Files) /\ <<f>> # <<>>
OBVIOUS

LEMMA BeginKeeps ==
  ASSUME TInv, NEW p \in Procs, NEW c \in Call, Begin(p, c),
         c.kind # "none", c.todo # <<>>, ~c.error, c.kind = "run" => c.anchor = NONE
  PROVE  Keeps(p)
<1>1. Leaves(p)
  BY DEF Begin, Goto, Leaves
<1>2. faults' \in faults..MaxFaults
  BY TerminalAssumption DEF Begin, TInv, TypeOK
<1> QED BY <1>1, <1>2, LeavingKeeps DEF Begin

LEMMA CommandKeeps ==
  ASSUME TInv, NEW p \in Procs, Command(p)
  PROVE  Keeps(p)
<1>1. ASSUME NEW f \in Files, NEW force \in BOOLEAN, PipelineRun(p, f, force)
      PROVE  Keeps(p)
  <2> DEFINE c == [NoCall EXCEPT !.kind = "run", !.todo = <<f>>, !.force = force]
  <2>1. c \in Call /\ c.kind = "run" /\ c.todo # <<>> /\ ~c.error /\ c.anchor = NONE
    BY OneToDo, RunCall
  <2> QED BY <1>1, <2>1, BeginKeeps DEF PipelineRun
<1>2. ASSUME NEW force \in BOOLEAN, NEW stop \in BOOLEAN, PipelineAll(p, force, stop)
      PROVE  Keeps(p)
  <2> DEFINE c == [NoCall EXCEPT !.kind = "run", !.todo = Order, !.force = force, !.stop = stop]
  <2>1. c \in Call /\ c.kind = "run" /\ c.todo # <<>> /\ ~c.error /\ c.anchor = NONE
    BY TerminalAssumption, BatchCall
  <2> QED BY <1>2, <2>1, BeginKeeps DEF PipelineAll
<1>3. ASSUME NEW r \in Runs, ResumeScan(p, r)
      PROVE  Keeps(p)
  <2> DEFINE c == [NoCall EXCEPT !.kind = "run", !.todo = <<disk[r].source>>,
                                 !.force = TRUE, !.from = r]
  <2>1. disk[r].source \in Files
    BY <1>3 DEF ResumeScan, TInv, TypeOK, Run, Or
  <2>2. c \in Call /\ c.kind = "run" /\ c.todo # <<>> /\ ~c.error /\ c.anchor = NONE
    BY <2>1, OneToDo, ResumedCall
  <2> QED BY <1>3, <2>2, BeginKeeps DEF ResumeScan
<1>4. ASSUME NEW f \in Files, NEW comply \in BOOLEAN, NEW anchor \in Or(BOOLEAN),
             Scan(p, f, comply, anchor)
      PROVE  Keeps(p)
  <2> DEFINE c == [NoCall EXCEPT !.kind = "scan", !.todo = <<f>>, !.comply = comply,
                                 !.anchor = anchor]
  <2>1. c \in Call /\ c.kind = "scan" /\ c.todo # <<>> /\ ~c.error
    BY OneToDo, ScanCall
  <2> QED BY <1>4, <2>1, BeginKeeps DEF Scan
<1>5. ASSUME NEW comply \in BOOLEAN, NEW anchor \in Or(BOOLEAN), NEW stop \in BOOLEAN,
             ScanAll(p, comply, anchor, stop)
      PROVE  Keeps(p)
  <2> DEFINE c == [NoCall EXCEPT !.kind = "scan", !.todo = Order, !.comply = comply,
                                 !.anchor = anchor, !.stop = stop]
  <2>1. c \in Call /\ c.kind = "scan" /\ c.todo # <<>> /\ ~c.error
    BY TerminalAssumption, ScanBatchCall, ZenonT(60)
  <2> QED BY <1>5, <2>1, BeginKeeps DEF ScanAll
<1> QED BY <1>1, <1>2, <1>3, <1>4, <1>5 DEF Command, Or

LEMMA LeavingCalmly ==
  ASSUME TInv, NEW p \in Procs, ~At(p, "idle"), End(p) \/ NextFile(p) \/ Raise(p),
         UNCHANGED <<file, stores, edits, ethereum, mixed>>, UNCHANGED faults \/ Fault
  PROVE  Keeps(p)
<1>1. Leaves(p)
  BY Leaving DEF TInv
<1>2. faults' \in faults..MaxFaults
  BY TerminalAssumption DEF Fault, TInv, TypeOK
<1> QED BY <1>1, <1>2, LeavingKeeps

LEMMA ReadingKeeps ==
  ASSUME TInv, NEW p \in Procs, ReadFile(p) \/ HashFile(p)
  PROVE  Keeps(p)
<1>1. pc[p] \in {"read", "hash"} /\ Shape(p) /\ call[p] \in Call /\ pc \in [Procs -> PCs]
      /\ call \in [Procs -> Call]
  BY DEF ReadFile, HashFile, At, TInv, TypeOK
<1>2. Source(p) \in Files
  <2>1. call[p].todo \in Seq(Files) /\ call[p].todo # <<>>
    BY <1>1 DEF Call, Shape
  <2> QED BY <2>1, HeadTailProperties DEF Source
<1>3. file[Source(p)] \in Contents
  BY <1>2 DEF TInv, TypeOK
<1>4. CASE ReadFile(p) /\ Raise(p)
  BY <1>4, LeavingCalmly DEF ReadFile, At
<1>5. CASE ReadFile(p) /\ ~Raise(p)
  <2> DEFINE c == [call[p] EXCEPT !.sim = file[Source(p)]]
  <2>1. c \in Call
    BY <1>1, <1>3 DEF Call, Or
  <2>2. call' = [call EXCEPT ![p] = c] /\ pc' = [pc EXCEPT ![p] = "hash"]
        /\ pc[p] = "read" /\ UNCHANGED <<file, stores, faults, edits, ethereum, mixed>>
    BY <1>5 DEF ReadFile, Goto, At
  <2>3. TypeOK' /\ Frame(p) /\ ScansAnswer' /\ pc'[p] = "hash" /\ call'[p] = c
    BY <2>1, <2>2, InMemory, FaultsTyped DEF PCs, Submitted
  <2>4. Source(p)' = Source(p)
    BY <2>3, <1>1 DEF Source, Call
  <2>5. Shape(p)'
    BY <1>1, <1>3, <2>2, <2>3, <2>4 DEF Shape, ForRuns, Submitted, Call
  <2> QED BY <2>3, <2>5 DEF Keeps
<1>6. CASE HashFile(p)
  <2> DEFINE c == [call[p] EXCEPT !.hash = file[Source(p)]]
             s == IF call[p].kind = "run" THEN "find" ELSE "submit"
  <2>1. c \in Call
    BY <1>1, <1>3 DEF Call, Or
  <2>2. call' = [call EXCEPT ![p] = c] /\ pc' = [pc EXCEPT ![p] = s]
        /\ pc[p] = "hash" /\ UNCHANGED <<file, stores, faults, edits, ethereum, mixed>>
    BY <1>6 DEF HashFile, Goto, At
  <2>3. TypeOK' /\ Frame(p) /\ ScansAnswer' /\ pc'[p] = s /\ call'[p] = c
    BY <2>1, <2>2, InMemory, FaultsTyped DEF PCs, Submitted
  <2>4. Shape(p)'
    BY <1>1, <1>3, <2>2, <2>3 DEF Shape, ForRuns, Submitted, Call
  <2> QED BY <2>3, <2>4 DEF Keeps
<1> QED BY <1>4, <1>5, <1>6

LEMMA FindingKeeps ==
  ASSUME TInv, NEW p \in Procs, FindByHash(p) \/ Replay(p) \/ Unnamed(p) \/ SubmitFails(p)
  PROVE  Keeps(p)
<1>1. CASE ~At(p, "idle") /\ (NextFile(p) \/ Raise(p))
  BY <1>1, LeavingCalmly DEF FindByHash, Replay, Unnamed, SubmitFails
<1>2. CASE (FindByHash(p) \/ Replay(p)) /\ ~NextFile(p)
  <2>0. call[p] \in Call
    BY DEF TInv, TypeOK
  <2>1. PICK s \in {"replay", "submit"} :
          /\ pc' = [pc EXCEPT ![p] = s] /\ call' = [call EXCEPT ![p] = call[p]]
          /\ pc[p] \in {"find", "replay"} /\ UNCHANGED <<file, stores, faults, edits, ethereum, mixed>>
          /\ s = "replay" => call[p].hash \in DOMAIN index
    BY <1>2 DEF FindByHash, Replay, Goto, At, TInv, TypeOK
  <2>2. TypeOK' /\ Frame(p) /\ ScansAnswer' /\ pc'[p] = s /\ call'[p] = call[p]
    BY <2>1, <2>0, InMemory, FaultsTyped DEF PCs, Submitted
  <2>3. Shape(p)'
    BY <2>1, <2>2 DEF TInv, Shape, ForRuns, Submitted, stores
  <2> QED BY <2>2, <2>3 DEF Keeps
<1> QED BY <1>1, <1>2 DEF FindByHash, Replay, Unnamed, SubmitFails, At

(* The submission is a scan nobody has, and is the process's own.          *)
LEMMA SubmitKeeps ==
  ASSUME TInv, NEW p \in Procs, Submit(p)
  PROVE  Keeps(p)
<1> DEFINE free == CHOOSE q \in Free : TRUE
<1>1. PICK r \in Runs : r = free /\ scan[r] = NONE
  BY DEF Submit, Free
<1>2. pc[p] = "submit" /\ Shape(p) /\ call[p] \in Call /\ call[p].sim \in Contents
  BY DEF Submit, At, TInv, TypeOK, Shape
<1>3. /\ scan' = [scan EXCEPT ![r] = call[p].sim]
      /\ mixed' = (IF call[p].edited THEN mixed \cup {r} ELSE mixed)
      /\ UNCHANGED <<file, disk, index, refused, evaluated, ledger, edits, ethereum>>
      /\ UNCHANGED faults \/ Fault
  BY <1>1 DEF Submit
<1>4. faults' \in faults..MaxFaults
  BY <1>3, FaultsTyped
<1>5. scan' \in [Runs -> Or(Contents)] /\ scan'[r] = call[p].sim
      /\ \A q \in Runs : scan[q] # NONE => scan'[q] = scan[q]
  BY <1>1, <1>2, <1>3 DEF TInv, TypeOK, Or
<1>6. ScansAnswer'
  BY <1>3, <1>5, ScansStay
<1>7. CASE Raise(p)
  <2>1. PICK c \in Call, s \in {"idle", "read"} :
          /\ pc' = [pc EXCEPT ![p] = s] /\ call' = [call EXCEPT ![p] = c]
          /\ ~c.error /\ (c.kind = "run" => c.anchor = NONE)
          /\ s = "read" => c.kind # "none" /\ c.todo # <<>>
    BY <1>2, <1>7, Leaving DEF Leaves, TInv, At
  <2>2. pc'[p] = s /\ call'[p] = c
    BY <2>1 DEF TInv, TypeOK
  <2>3. TypeOK'
    BY <1>3, <1>4, <1>5, <2>1, TerminalAssumption DEF TInv, TypeOK, PCs
  <2>4. Shape(p)'
    BY <2>1, <2>2 DEF Shape, ForRuns, Submitted
  <2>5. Frame(p)
    BY <1>3, <1>4, <1>5, <2>1, <2>2, TerminalAssumption DEF Frame, TInv, TypeOK, Submitted
  <2> QED BY <1>6, <2>3, <2>4, <2>5 DEF Keeps
<1>8. CASE ~Raise(p)
  <2> DEFINE c == [call[p] EXCEPT !.id = r]
             s == IF call[p].kind = "run" THEN "ingest" ELSE "gate"
  <2>1. call' = [call EXCEPT ![p] = c] /\ pc' = [pc EXCEPT ![p] = s] /\ UNCHANGED faults
    BY <1>1, <1>8 DEF Submit, Goto
  <2>2. c \in Call
    BY <1>2 DEF Call
  <2>3. pc'[p] = s /\ call'[p] = c
    BY <2>1 DEF TInv, TypeOK
  <2>4. TypeOK'
    BY <1>3, <1>4, <1>5, <2>1, <2>2, TerminalAssumption DEF TInv, TypeOK, PCs
  <2>5. Shape(p)'
    <3>1. /\ c.kind = call[p].kind /\ c.todo = call[p].todo /\ c.anchor = call[p].anchor
          /\ c.sim = call[p].sim /\ c.hash = call[p].hash /\ c.error = call[p].error /\ c.id = r
      BY <1>2 DEF Call
    <3>2. /\ call[p].kind # "none" /\ call[p].todo # <<>> /\ ~call[p].error
          /\ call[p].hash \in Contents /\ (call[p].kind = "run" => call[p].anchor = NONE)
          /\ call[p].hash = call[p].sim \/ call[p].edited
      BY <1>2 DEF Shape, Submitted
    <3>3. call[p].hash = call[p].sim \/ r \in mixed'
      BY <1>3, <3>2
    <3>4. s \in {"ingest", "gate"} /\ (call[p].kind # "run" => s = "gate")
          /\ (call[p].kind = "run" => s = "ingest")
      OBVIOUS
    <3> HIDE DEF c, s
    <3> QED BY <1>2, <1>5, <2>3, <3>1, <3>2, <3>3, <3>4 DEF Shape, ForRuns, Submitted
  <2>6. Frame(p)
    BY <1>1, <1>2, <1>3, <1>4, <1>5, <2>1, <2>3, TerminalAssumption
       DEF Frame, TInv, TypeOK, Submitted, Call
  <2> QED BY <1>6, <2>4, <2>5, <2>6 DEF Keeps
<1> QED BY <1>7, <1>8

LEMMA IngestKeeps ==
  ASSUME TInv, NEW p \in Procs, Ingest(p)
  PROVE  Keeps(p)
<1>1. pc[p] = "ingest" /\ Shape(p) /\ call[p] \in Call
  BY DEF Ingest, At, TInv, TypeOK
<1>2. Source(p) \in Files
  <2>1. call[p].todo \in Seq(Files) /\ call[p].todo # <<>>
    BY <1>1 DEF Call, Shape
  <2> QED BY <2>1, HeadTailProperties DEF Source
<1>3. call[p].hash \in Contents /\ call[p].id \in Runs /\ call[p].from \in Or(Runs)
  BY <1>1 DEF Shape, Submitted, Call
<1>4. NewRun(p) \in Run /\ NewRun(p).hash = call[p].hash
  BY <1>2, <1>3 DEF NewRun, Run, Or, Entry, Stages, Results
<1> DEFINE c == [call[p] EXCEPT !.run = NewRun(p)]
<1>5. c \in Call
  BY <1>1, <1>4 DEF Call, Or
<1>6. /\ disk' = [disk EXCEPT ![call[p].id] = NewRun(p)]
      /\ call' = [call EXCEPT ![p] = c] /\ pc' = [pc EXCEPT ![p] = "gate"]
      /\ UNCHANGED <<file, scan, index, refused, evaluated, ledger, faults, edits, ethereum, mixed>>
  BY DEF Ingest, SaveRun, Goto
<1>7. disk' \in [Runs -> Or(Run)]
  BY <1>3, <1>4, <1>6 DEF TInv, TypeOK, Or
<1>8. pc'[p] = "gate" /\ call'[p] = c
  BY <1>6 DEF TInv, TypeOK
<1>9. TypeOK'
  BY <1>5, <1>6, <1>7, TerminalAssumption DEF TInv, TypeOK, PCs
<1>10. Shape(p)'
  BY <1>1, <1>4, <1>6, <1>8 DEF Shape, ForRuns, Submitted, Call
<1>11. Frame(p)
  BY <1>1, <1>3, <1>5, <1>6, <1>8, TerminalAssumption DEF Frame, TInv, TypeOK, Submitted, Call
<1>12. ScansAnswer'
  BY <1>6, ScansStay
<1> QED BY <1>9, <1>10, <1>11, <1>12 DEF Keeps

(* A gate that does not let the chip through ends the run.                 *)
LEMMA RefuseKeeps ==
  ASSUME TInv, NEW p \in Procs, At(p, "gate"), call[p].kind = "run",
         NEW status \in Verdicts, NEW stage \in Stages, NEW decision \in Words,
         NEW quarantined \in BOOLEAN, Refuse(p, status, stage, decision, quarantined),
         UNCHANGED <<file, stores, faults, edits, ethereum, mixed>>
  PROVE  Keeps(p)
<1> DEFINE run == [call[p].run EXCEPT !.status = status, !.stopped = stage,
                     !.decision = decision, !.quarantined = quarantined,
                     !.stages = Append(call[p].run.stages, <<stage, "FAILED">>)]
           c == [call[p] EXCEPT !.run = run]
<1>1. Shape(p) /\ call[p] \in Call /\ call[p].run \in Run /\ call[p].run.hash = call[p].hash
  BY DEF At, TInv, TypeOK, Shape
<1>2. Append(call[p].run.stages, <<stage, "FAILED">>) \in Seq(Entry)
  <2>1. call[p].run.stages \in Seq(Entry) /\ <<stage, "FAILED">> \in Entry
    BY <1>1 DEF Run, Entry, Results
  <2> QED BY <2>1, AppendProperties
<1>3. run \in Run /\ run.hash = call[p].hash
  BY <1>1, <1>2 DEF Run, Or
<1>4. c \in Call
  BY <1>1, <1>3 DEF Call, Or
<1>5. call' = [call EXCEPT ![p] = c] /\ pc' = [pc EXCEPT ![p] = "quarantine"]
  BY DEF Refuse, Goto
<1>6. TypeOK' /\ Frame(p) /\ ScansAnswer' /\ pc'[p] = "quarantine" /\ call'[p] = c
  BY <1>1, <1>4, <1>5, InMemory, FaultsTyped DEF PCs, Submitted, Call, At
<1>7. Shape(p)'
  BY <1>1, <1>3, <1>6 DEF Shape, ForRuns, Submitted, Call, At, stores
<1> QED BY <1>6, <1>7 DEF Keeps

LEMMA GateKeeps ==
  ASSUME TInv, NEW p \in Procs, Gate(p)
  PROVE  Keeps(p)
<1> DEFINE sim  == Facts[call[p].sim]
           gate == SimulationGate(sim)
<1>1. CASE PermanentRejection(sim)
  <2>1. Refuse(p, "REJECTED", RejectionStage(sim), "REJECTED_PERMANENTLY", FALSE)
    BY <1>1 DEF Gate
  <2>2. "REJECTED" \in Verdicts /\ RejectionStage(sim) \in Stages
        /\ "REJECTED_PERMANENTLY" \in Words
    BY RejectionNames DEF Verdicts, Stages, Words
  <2> QED BY <2>1, <2>2, RefuseKeeps DEF Gate
<1>2. CASE ~PermanentRejection(sim) /\ gate # "PASSED"
  <2>1. Refuse(p, "STOPPED", gate, GateDecision(gate), TRUE)
    BY <1>2 DEF Gate
  <2>2. "STOPPED" \in Verdicts /\ gate \in Stages /\ GateDecision(gate) \in Words
    BY <1>2, GateNames DEF Verdicts, Stages, Words
  <2> QED BY <2>1, <2>2, RefuseKeeps DEF Gate
<1>3. CASE ~PermanentRejection(sim) /\ gate = "PASSED"
  <2> DEFINE passed == <<"PRE_COMPLIANCE_SECURITY_GATES", "PASSED">>
             c == [call[p] EXCEPT !.run.stages = Append(@, passed)]
  <2>1. pc[p] = "gate" /\ call[p].kind = "run" /\ Shape(p) /\ call[p] \in Call
        /\ call[p].run \in Run /\ call[p].run.hash = call[p].hash
    BY DEF Gate, At, TInv, TypeOK, Shape
  <2>2. Append(call[p].run.stages, passed) \in Seq(Entry)
    <3>1. call[p].run.stages \in Seq(Entry) /\ passed \in Entry
      BY <2>1 DEF Run, Entry, Results, Stages
    <3> QED BY <3>1, AppendProperties
  <2>3. /\ [call[p].run EXCEPT !.stages = Append(@, passed)] \in Run
        /\ [call[p].run EXCEPT !.stages = Append(@, passed)].hash = call[p].hash
    BY <2>1, <2>2 DEF Run, Or
  <2>4. c \in Call /\ c.run \in Run /\ c.run.hash = call[p].hash
    BY <2>1, <2>3 DEF Call, Or
  <2>5. call' = [call EXCEPT ![p] = c] /\ pc' = [pc EXCEPT ![p] = "evaluate"]
        /\ UNCHANGED <<file, stores, faults, edits, ethereum, mixed>>
    BY <1>3 DEF Gate, Goto, TInv, TypeOK
  <2>6. TypeOK' /\ Frame(p) /\ ScansAnswer' /\ pc'[p] = "evaluate" /\ call'[p] = c
    BY <2>1, <2>4, <2>5, InMemory, FaultsTyped DEF PCs, Submitted, Call
  <2>7. /\ c.kind = call[p].kind /\ c.todo = call[p].todo /\ c.anchor = call[p].anchor
        /\ c.sim = call[p].sim /\ c.hash = call[p].hash /\ c.id = call[p].id
        /\ c.error = call[p].error
    BY <2>1 DEF Call
  <2>8. /\ call[p].id \in Runs /\ scan[call[p].id] = call[p].sim /\ call[p].hash \in Contents
        /\ call[p].hash = call[p].sim \/ call[p].id \in mixed
        /\ call[p].todo # <<>> /\ call[p].anchor = NONE /\ call[p].sim \in Contents
        /\ (call[p].error => faults > 0)
    BY <2>1 DEF Shape, Submitted
  <2>9. Shape(p)'
    BY <2>1, <2>4, <2>5, <2>6, <2>7, <2>8 DEF Shape, ForRuns, Submitted, stores
  <2> QED BY <2>6, <2>9 DEF Keeps
<1> QED BY <1>1, <1>2, <1>3

(* A step in memory after the submission, whose call stays as it is.       *)
LEMMA OnlyPc ==
  ASSUME TInv, NEW p \in Procs, pc[p] \in {"gate", "evaluate"},
         NEW s \in {"evaluate", "anchor", "decide"},
         pc' = [pc EXCEPT ![p] = s], UNCHANGED <<call, file, stores, faults, edits, ethereum, mixed>>
  PROVE  Keeps(p)
<1>1. call[p] \in Call /\ call' = [call EXCEPT ![p] = call[p]] /\ Shape(p)
  BY DEF TInv, TypeOK
<1>2. TypeOK' /\ Frame(p) /\ ScansAnswer' /\ pc'[p] = s /\ call'[p] = call[p]
  BY <1>1, InMemory, FaultsTyped DEF PCs, Submitted
<1>3. Shape(p)'
  BY <1>1, <1>2 DEF Shape, ForRuns, Submitted, stores
<1> QED BY <1>2, <1>3 DEF Keeps

LEMMA ScanGateKeeps ==
  ASSUME TInv, NEW p \in Procs, ScanGate(p) \/ Evaluate(p)
  PROVE  Keeps(p)
<1>1. CASE NextFile(p) \/ Raise(p)
  BY <1>1, LeavingCalmly DEF ScanGate, Evaluate, At
<1>2. CASE ~NextFile(p) /\ ~Raise(p)
  <2>1. PICK s \in {"evaluate", "anchor", "decide"} :
          pc' = [pc EXCEPT ![p] = s] /\ UNCHANGED <<call, file, stores, faults, edits, ethereum, mixed>>
    BY <1>2 DEF ScanGate, Evaluate, Goto
  <2> QED BY <2>1, OnlyPc DEF ScanGate, Evaluate, At
<1> QED BY <1>1, <1>2

LEMMA AnchorKeeps ==
  ASSUME TInv, NEW p \in Procs, Anchor(p)
  PROVE  Keeps(p)
<1>1. pc[p] = "anchor" /\ Shape(p) /\ call[p] \in Call /\ call[p].id \in Runs
  BY DEF Anchor, At, TInv, TypeOK, Shape, Submitted
<1>2. PICK l \in {"unknown", "committed", Recorded} :
        ledger' = [ledger EXCEPT ![call[p].id] = l]
  BY DEF Anchor, Recorded
<1>3. PICK c \in {call[p], [call[p] EXCEPT !.error = TRUE]} :
        call' = [call EXCEPT ![p] = c] /\ (c = call[p] \/ Fault) /\ (UNCHANGED faults \/ Fault)
  BY DEF Anchor, TInv, TypeOK
<1>4. pc' = [pc EXCEPT ![p] = "decide"]
      /\ UNCHANGED <<file, scan, disk, index, refused, evaluated, edits, ethereum, mixed>>
  BY DEF Anchor, Goto
<1>5. c \in Call /\ c.kind = call[p].kind /\ c.todo = call[p].todo /\ c.anchor = call[p].anchor
        /\ c.sim = call[p].sim /\ c.hash = call[p].hash /\ c.id = call[p].id /\ c.run = call[p].run
  BY <1>1, <1>3 DEF Call
<1>6. faults' \in faults..MaxFaults /\ (c.error => call[p].error \/ Fault)
  BY <1>3, FaultsTyped
<1>7. c.error => faults' > 0
  BY <1>1, <1>6, TerminalAssumption DEF Shape, Fault, TInv, TypeOK
<1>8. pc'[p] = "decide" /\ call'[p] = c
  BY <1>3, <1>4 DEF TInv, TypeOK
<1>9. TypeOK'
  BY <1>1, <1>2, <1>3, <1>4, <1>5, <1>6, TerminalAssumption DEF TInv, TypeOK, PCs, Recorded
<1>10. Shape(p)'
  BY <1>1, <1>4, <1>5, <1>7, <1>8 DEF Shape, ForRuns, Submitted
<1>11. Frame(p)
  BY <1>1, <1>2, <1>3, <1>4, <1>5, <1>6, <1>8, TerminalAssumption
     DEF Frame, TInv, TypeOK, Submitted
<1>12. ScansAnswer'
  BY <1>4, ScansStay
<1> QED BY <1>9, <1>10, <1>11, <1>12 DEF Keeps

(* Leaving with a write of the store on the way out.                       *)
LEMMA LeavingWith ==
  ASSUME TInv, NEW p \in Procs, Leaves(p), pc[p] \in Submitted,
         UNCHANGED <<file, scan, disk, refused, ledger, edits, ethereum, mixed>>,
         faults' \in faults..MaxFaults,
         evaluated' \in [Runs -> Or(Decisions)],
         \A r \in Runs : r # call[p].id => evaluated'[r] = evaluated[r],
         DOMAIN index' \subseteq Contents, \A h \in DOMAIN index' : index'[h] \in Runs,
         DOMAIN index \subseteq DOMAIN index'
  PROVE  TypeOK' /\ Shape(p)' /\ Frame(p)
<1>1. PICK c \in Call, s \in {"idle", "read"} :
        /\ pc' = [pc EXCEPT ![p] = s] /\ call' = [call EXCEPT ![p] = c]
        /\ ~c.error /\ (c.kind = "run" => c.anchor = NONE)
        /\ s = "read" => c.kind # "none" /\ c.todo # <<>>
  BY DEF Leaves
<1>2. TypeOK'
  BY <1>1, TerminalAssumption DEF TInv, TypeOK, PCs
<1>3. pc'[p] = s /\ call'[p] = c
  BY <1>1 DEF TInv, TypeOK
<1>4. Shape(p)'
  BY <1>1, <1>3 DEF Shape, ForRuns, Submitted
<1>5. Frame(p)
  BY <1>1, <1>3, TerminalAssumption DEF Frame, TInv, TypeOK, Submitted
<1> QED BY <1>2, <1>4, <1>5

LEMMA WriteDecisionKeeps ==
  ASSUME TInv, NEW p \in Procs, WriteDecision(p)
  PROVE  Keeps(p)
<1>1. pc[p] = "decide" /\ Shape(p) /\ call[p] \in Call /\ call[p].id \in Runs
  BY DEF WriteDecision, At, TInv, TypeOK, Shape, Submitted
<1>2. CASE Fault /\ Raise(p) /\ UNCHANGED evaluated
  BY <1>1, <1>2, LeavingCalmly DEF WriteDecision, At, stores
<1>3. CASE evaluated' = [evaluated EXCEPT ![call[p].id] = Compliance(Request(p))]
           /\ UNCHANGED faults
  <2>1. evaluated' \in [Runs -> Or(Decisions)]
        /\ \A r \in Runs : r # call[p].id => evaluated'[r] = evaluated[r]
    BY <1>1, <1>3, DecisionNames DEF TInv, TypeOK, Or
  <2>2. UNCHANGED <<file, scan, disk, index, refused, ledger, edits, ethereum, mixed>>
    BY DEF WriteDecision
  <2>3. faults' \in faults..MaxFaults
    BY <1>3, FaultsTyped
  <2>4. ScansAnswer'
    BY <2>2, ScansStay
  <2>5. CASE NextFile(p) \/ Raise(p)
    <3>1. Leaves(p)
      BY <1>1, <2>5, Leaving DEF TInv, At
    <3>2. DOMAIN index \subseteq Contents /\ \A h \in DOMAIN index : index[h] \in Runs
      BY DEF TInv, TypeOK
    <3>3. TypeOK' /\ Shape(p)' /\ Frame(p)
      BY <1>1, <2>1, <2>2, <2>3, <3>1, <3>2, LeavingWith DEF Submitted
    <3> QED BY <2>4, <3>3 DEF Keeps
  <2>6. CASE ~NextFile(p) /\ ~Raise(p)
    <3>1. call[p].kind = "run" /\ pc' = [pc EXCEPT ![p] = "deploy"] /\ call' = call
      BY <2>6 DEF WriteDecision, Goto
    <3>2. pc'[p] = "deploy"
      BY <3>1 DEF TInv, TypeOK
    <3>3. TypeOK'
      BY <2>1, <2>2, <2>3, <3>1, TerminalAssumption DEF TInv, TypeOK, PCs
    <3>4. Shape(p)'
      BY <1>1, <1>3, <2>2, <3>1, <3>2 DEF Shape, ForRuns, Submitted
    <3>5. Frame(p)
      BY <1>1, <2>1, <2>2, <2>3, <3>1, <3>2, TerminalAssumption DEF Frame, TInv, TypeOK, Submitted
    <3> QED BY <2>4, <3>3, <3>4, <3>5 DEF Keeps
  <2> QED BY <2>5, <2>6
<1> QED BY <1>2, <1>3 DEF WriteDecision

LEMMA StagesTyped ==
  ASSUME NEW p, NEW decision, NEW verdict, verdict.stage \in Results,
         NEW stages \in Seq(Entry)
  PROVE  stages \o <<ComplianceStage(decision), BlockchainStage(p),
                     <<"DEPLOYMENT_DECISION", verdict.stage>>>> \in Seq(Entry)
<1>1. ComplianceStage(decision) \in Entry /\ BlockchainStage(p) \in Entry
      /\ <<"DEPLOYMENT_DECISION", verdict.stage>> \in Entry
  BY DEF ComplianceStage, BlockchainStage, Entry, Stages, Results
<1>2. <<ComplianceStage(decision), BlockchainStage(p),
        <<"DEPLOYMENT_DECISION", verdict.stage>>>> \in Seq(Entry)
  BY <1>1
<1> QED BY <1>2, ConcatProperties

LEMMA DeployKeeps ==
  ASSUME TInv, NEW p \in Procs, Deploy(p)
  PROVE  Keeps(p)
<1> DEFINE decision     == evaluated[call[p].id]
           failedClosed == Request(p).anchor /\ call[p].error
           verdict      == Verdict(decision, failedClosed)
           word         == IF failedClosed THEN "HOLD_PENDING_BLOCKCHAIN_RECOVERY"
                           ELSE Recommendation(decision)
           stages       == call[p].run.stages \o
                             <<ComplianceStage(decision), BlockchainStage(p),
                               <<"DEPLOYMENT_DECISION", verdict.stage>>>>
           run == [call[p].run EXCEPT !.status = verdict.status, !.stopped = verdict.stopped,
                     !.decision = word, !.quarantined = verdict.status = "STOPPED",
                     !.stages = stages]
           c   == [call[p] EXCEPT !.run = run]
           s   == IF verdict.status = "STOPPED" THEN "quarantine" ELSE "save"
<1>1. pc[p] = "deploy" /\ Shape(p) /\ call[p] \in Call /\ call[p].run \in Run
      /\ call[p].kind = "run" /\ call[p].run.hash = call[p].hash
  BY DEF Deploy, At, TInv, TypeOK, Shape, ForRuns
<1>2. failedClosed \in BOOLEAN
  OBVIOUS
<1>3. verdict.status \in Verdicts /\ verdict.stopped \in Or(Stages) /\ verdict.stage \in Results
  BY <1>2, VerdictNames
<1>4. word \in Words
  BY RecommendationNames DEF Words
<1>5. stages \in Seq(Entry)
  <2>1. call[p].run.stages \in Seq(Entry)
    BY <1>1 DEF Run
  <2> QED BY <2>1, <1>3, StagesTyped
<1>6. call' = [call EXCEPT ![p] = c] /\ pc' = [pc EXCEPT ![p] = s]
      /\ UNCHANGED <<file, stores, faults, edits, ethereum, mixed>>
  BY DEF Deploy, Goto
<1>7. (verdict.status = "STOPPED") \in BOOLEAN /\ s \in {"quarantine", "save"}
  OBVIOUS
<1> HIDE DEF verdict, word, stages, s
<1>8. run \in Run /\ run.hash = call[p].hash
  BY <1>1, <1>3, <1>4, <1>5, <1>7 DEF Run, Or
<1>9. c \in Call /\ c.kind = "run" /\ c.todo = call[p].todo /\ c.anchor = call[p].anchor
        /\ c.sim = call[p].sim /\ c.hash = call[p].hash /\ c.id = call[p].id
        /\ c.error = call[p].error /\ c.run = run
  BY <1>1, <1>8 DEF Call, Or
<1> HIDE DEF run, c
<1>10. TypeOK' /\ Frame(p) /\ ScansAnswer' /\ pc'[p] = s /\ call'[p] = c
  BY <1>1, <1>6, <1>7, <1>9, InMemory, FaultsTyped DEF PCs, Submitted
<1>11. Shape(p)'
  BY <1>1, <1>6, <1>7, <1>8, <1>9, <1>10 DEF Shape, ForRuns, Submitted, stores
<1> QED BY <1>10, <1>11 DEF Keeps

LEMMA QuarantineKeeps ==
  ASSUME TInv, NEW p \in Procs, Quarantine(p) \/ SaveResult(p)
  PROVE  Keeps(p)
<1>1. /\ pc[p] \in {"quarantine", "save"} /\ Shape(p) /\ call[p].id \in Runs
      /\ call[p].run \in Run /\ UNCHANGED <<file, scan, index, evaluated, ledger, call, faults, edits, ethereum, mixed>>
  BY DEF Quarantine, SaveResult, At, TInv, TypeOK, Shape, Submitted, ForRuns
<1>2. PICK s \in {"save", "register"} : pc' = [pc EXCEPT ![p] = s]
  BY DEF Quarantine, SaveResult, Goto
<1>3. /\ disk' \in [Runs -> Or(Run)] /\ refused' \in [Runs -> Or(Words)]
      /\ \A r \in Runs : r # call[p].id => disk'[r] = disk[r] /\ refused'[r] = refused[r]
  <2>1. call[p].run.decision \in Or(Words) /\ call[p].run \in Or(Run)
    BY <1>1 DEF Run, Or
  <2> QED BY <1>1, <2>1 DEF Quarantine, SaveResult, SaveRun, TInv, TypeOK
<1>4. pc'[p] = s
  BY <1>2 DEF TInv, TypeOK
<1>5. TypeOK'
  BY <1>1, <1>2, <1>3 DEF TInv, TypeOK, PCs
<1>6. Shape(p)'
  BY <1>1, <1>4 DEF Shape, ForRuns, Submitted
<1>7. Frame(p)
  BY <1>1, <1>2, <1>3, <1>4, TerminalAssumption DEF Frame, TInv, TypeOK, Submitted
<1>8. ScansAnswer'
  BY <1>1, ScansStay
<1> QED BY <1>5, <1>6, <1>7, <1>8 DEF Keeps

(* The content hashed is the content submitted, or the scan is a mixed one.*)
LEMMA RegisterKeeps ==
  ASSUME TInv, NEW p \in Procs, Register(p)
  PROVE  Keeps(p)
<1>1. /\ pc[p] = "register" /\ Shape(p) /\ call[p].id \in Runs /\ call[p].hash \in Contents
      /\ (call[p].id \in mixed \/ scan[call[p].id] = call[p].hash)
      /\ UNCHANGED <<file, scan, disk, refused, evaluated, ledger, faults, edits, ethereum, mixed>>
  BY DEF Register, At, TInv, Shape, Submitted
<1>2. /\ DOMAIN index' = DOMAIN index \cup {call[p].hash}
      /\ \A h \in DOMAIN index' : index'[h] = IF h = call[p].hash THEN call[p].id ELSE index[h]
  BY DEF Register, Entered
<1>3. DOMAIN index' \subseteq Contents /\ \A h \in DOMAIN index' : index'[h] \in Runs
  BY <1>1, <1>2 DEF TInv, TypeOK
<1>4. ScansAnswer'
  BY <1>1, <1>2 DEF TInv, ScansAnswer, TypeOK
<1>5. Leaves(p)
  BY <1>1, Leaving DEF Register, TInv, At
<1>6. TypeOK' /\ Shape(p)' /\ Frame(p)
  <2>1. faults' \in faults..MaxFaults
    BY <1>1, FaultsTyped
  <2>2. evaluated' \in [Runs -> Or(Decisions)]
    BY <1>1 DEF TInv, TypeOK
  <2> QED BY <1>1, <1>2, <1>3, <1>5, <2>1, <2>2, LeavingWith DEF Submitted
<1> QED BY <1>4, <1>6 DEF Keeps

LEMMA DieKeeps ==
  ASSUME TInv, NEW p \in Procs, Die(p)
  PROVE  Keeps(p)
BY LeavingCalmly DEF Die

LEMMA StepKeeps ==
  ASSUME TInv, NEW p \in Procs, Step(p) \/ Die(p) \/ Command(p)
  PROVE  Keeps(p)
<1>1. CASE Step(p)
  BY <1>1, FindingKeeps, ReadingKeeps, SubmitKeeps, IngestKeeps, GateKeeps, ScanGateKeeps,
     AnchorKeeps, WriteDecisionKeeps, DeployKeeps, QuarantineKeeps, RegisterKeeps DEF Step
<1> QED BY <1>1, DieKeeps, CommandKeeps

(* An edit between the two reads of a command is noted in its call.        *)
LEMMA EditKeeps ==
  ASSUME TInv, NEW f \in Files, NEW c \in Edits, Edit(f, c)
  PROVE  TInv'
<1>1. file' = [file EXCEPT ![f] = c] /\ UNCHANGED <<stores, pc, faults, ethereum, mixed>>
      /\ edits' \in 0..MaxEdits /\ c \in Contents
  BY TerminalAssumption DEF Edit, TInv, TypeOK
<1>2. \A p \in Procs :
        call'[p] = IF pc[p] = "hash" /\ Source(p) = f THEN [call[p] EXCEPT !.edited = TRUE]
                   ELSE call[p]
  BY DEF Edit, At
<1>3. \A p \in Procs : call[p] \in Call /\ call'[p] \in Call
  <2> SUFFICES ASSUME NEW p \in Procs PROVE call[p] \in Call /\ call'[p] \in Call
    OBVIOUS
  <2>1. call[p] \in Call
    BY DEF TInv, TypeOK
  <2>2. [call[p] EXCEPT !.edited = TRUE] \in Call
    BY <2>1 DEF Call
  <2> QED BY <1>2, <2>1, <2>2
<1>4. call' \in [Procs -> Call]
  <2>1. call' = [p \in Procs |-> call'[p]]
    BY DEF Edit
  <2> QED BY <1>3, <2>1
<1>5. TypeOK'
  BY <1>1, <1>4 DEF TInv, TypeOK, stores
<1>6. \A p \in Procs : Shape(p)'
  <2> SUFFICES ASSUME NEW p \in Procs PROVE Shape(p)'
    OBVIOUS
  <2>1. Shape(p) /\ pc'[p] = pc[p]
    BY <1>1 DEF TInv
  <2>2. CASE pc[p] = "hash" /\ Source(p) = f
    <3>1. call'[p].edited /\ call'[p].kind = call[p].kind /\ call'[p].todo = call[p].todo
          /\ call'[p].anchor = call[p].anchor /\ call'[p].sim = call[p].sim
          /\ call'[p].error = call[p].error
      BY <1>2, <1>3, <2>2 DEF Call
    <3> QED BY <1>1, <2>1, <2>2, <3>1 DEF Shape, ForRuns, Submitted
  <2>3. CASE ~(pc[p] = "hash" /\ Source(p) = f)
    <3>1. call'[p] = call[p] /\ Source(p)' = Source(p)
      BY <1>2, <2>3 DEF Source
    <3>2. pc[p] = "hash" => file'[Source(p)] = file[Source(p)]
      <4> SUFFICES ASSUME pc[p] = "hash" PROVE file'[Source(p)] = file[Source(p)]
        OBVIOUS
      <4>1. call[p].todo \in Seq(Files) /\ call[p].todo # <<>>
        BY <1>3, <2>1 DEF Shape, Call
      <4>2. Source(p) \in Files
        BY <4>1, HeadTailProperties DEF Source
      <4> QED BY <1>1, <2>3, <4>2 DEF TInv, TypeOK
    <3> QED BY <1>1, <2>1, <3>1, <3>2 DEF Shape, stores
  <2> QED BY <2>2, <2>3
<1>7. OwnScans'
  <2>1. \A p \in Procs : pc'[p] = pc[p] /\ (pc[p] \in Submitted => call'[p] = call[p])
    BY <1>1, <1>2 DEF Submitted
  <2> QED BY <2>1 DEF TInv, OwnScans
<1>8. ScansAnswer'
  BY <1>1, ScansStay DEF stores
<1> QED BY <1>5, <1>6, <1>7, <1>8 DEF TInv

LEMMA InitTypes ==
  ASSUME Init
  PROVE  TInv
<1>1. TypeOK
  BY NoCallTyped, TerminalAssumption DEF Init, TypeOK, Or, PCs
<1>2. \A p \in Procs : Shape(p) /\ pc[p] \notin Submitted
  BY DEF Init, Shape, NoCall, ForRuns, Submitted
<1>3. OwnScans /\ ScansAnswer
  BY <1>2 DEF Init, OwnScans, ScansAnswer
<1> QED BY <1>1, <1>2, <1>3 DEF TInv

LEMMA StepTypes ==
  ASSUME TInv, [Next]_vars
  PROVE  TInv'
<1>1. ASSUME NEW p \in Procs, Step(p) \/ Die(p) \/ Command(p)
      PROVE  TInv'
  BY <1>1, StepKeeps, KeepsAll
<1>2. CASE UNCHANGED vars
  BY <1>2 DEF vars, stores, TInv, TypeOK, Shape, Source, OwnScans, ScansAnswer
<1> QED BY <1>1, <1>2, EditKeeps DEF Next

LEMMA TypesHold == Spec => []TInv
<1>1. Init => TInv
  BY InitTypes
<1>2. TInv /\ [Next]_vars => TInv'
  BY StepTypes
<1> QED BY <1>1, <1>2, PTL DEF Spec

(* Every variable holds a value of its kind: in particular every decision  *)
(* and every stage a run writes is one the platform knows.                 *)
THEOREM TerminalTypes == Spec => []TypeOK
<1>1. TInv => TypeOK
  BY DEF TInv
<1> QED BY <1>1, TypesHold, PTL

-----------------------------------------------------------------------------
(***************************************************************************)
(* What the rules conclude, asked in the order of the code, and the        *)
(* objections there are against a chip are the same.                       *)
(***************************************************************************)
Irreproachable(s) ==
  /\ s.authentication /\ s.stability >= 85 /\ s.hamming <= 20
  /\ s.rootOfTrust
  /\ s.twinMatch /\ s.sbomMatch /\ ~(s.custodyGap > 20) /\ ~(s.sbomMismatch > 10)
  /\ s.simulation /\ ~(s.simulationFailure > 2) /\ ~(s.rareNets > 10) /\ ~(s.netlistDelta > 10)
  /\ s.scenario \in {"GOOD_CHIP", "HIGH_RISK_SUPPLIER"}
  /\ s.party = "CLEAR"
  /\ ~s.prohibited
  /\ ~s.usml /\ ~s.restricted /\ ~s.militaryUser /\ s.eccn # "controlled"
  /\ ~s.military /\ s.eccn # "none"
  /\ ~(SupplierRisk(s.supplier, AiResult(s)) >= 6000)

LEMMA NoObjections ==
  ASSUME NEW s
  PROVE  Objections(s) = {} <=> Irreproachable(s)
<1>1. ASSUME Irreproachable(s) PROVE Objections(s) = {}
  <2>1. "identity" \notin Objections(s) /\ "root of trust" \notin Objections(s)
        /\ "supply chain" \notin Objections(s)
    BY <1>1 DEF Objections, Irreproachable
  <2>2. "trojan" \notin Objections(s) /\ "scenario" \notin Objections(s)
        /\ "party" \notin Objections(s) /\ "end use" \notin Objections(s)
    BY <1>1 DEF Objections, Irreproachable
  <2>3. "licence" \notin Objections(s) /\ "classification" \notin Objections(s)
        /\ "supplier" \notin Objections(s)
    BY <1>1 DEF Objections, Irreproachable
  <2>4. Objections(s) \subseteq
          {"identity", "root of trust", "supply chain", "trojan", "scenario", "party",
           "end use", "licence", "classification", "supplier"}
    BY ZenonT(60) DEF Objections
  <2> QED BY <2>1, <2>2, <2>3, <2>4
<1>2. ASSUME Objections(s) = {} PROVE Irreproachable(s)
  <2>1. "identity" \notin Objections(s) /\ "root of trust" \notin Objections(s)
        /\ "supply chain" \notin Objections(s) /\ "trojan" \notin Objections(s)
        /\ "scenario" \notin Objections(s) /\ "party" \notin Objections(s)
        /\ "end use" \notin Objections(s) /\ "licence" \notin Objections(s)
        /\ "classification" \notin Objections(s) /\ "supplier" \notin Objections(s)
    BY <1>2
  <2> QED BY <2>1 DEF Objections, Irreproachable
<1> QED BY <1>1, <1>2

LEMMA GateSpeaks ==
  ASSUME NEW s \in ChipFacts, PermanentRejection(s) \/ SimulationGate(s) # "PASSED"
  PROVE  Objections(s) # {}
<1>1. /\ s.stability \in Int /\ s.hamming \in Int /\ s.custodyGap \in Int /\ s.sbomMismatch \in Int
      /\ s.simulationFailure \in Int /\ s.rareNets \in Int /\ s.netlistDelta \in Int
  BY DEF ChipFacts
<1>2. ~Irreproachable(s)
  BY <1>1 DEF PermanentRejection, SimulationGate, Irreproachable
<1> QED BY <1>2, NoObjections

LEMMA PassedGate ==
  ASSUME NEW s \in ChipFacts, SimulationGate(s) = "PASSED"
  PROVE  /\ s.authentication /\ s.stability >= 85 /\ s.hamming <= 20
         /\ s.rootOfTrust
         /\ s.twinMatch /\ s.sbomMatch /\ ~(s.custodyGap > 20) /\ ~(s.sbomMismatch > 10)
         /\ s.simulation /\ ~(s.simulationFailure > 2) /\ ~(s.rareNets > 10) /\ ~(s.netlistDelta > 10)
<1>1. s.stability \in Int /\ s.hamming \in Int
  BY DEF ChipFacts
<1> QED BY <1>1 DEF SimulationGate

(* What compliance approves, given the AI profile in the request.          *)
LEMMA ApprovedPayload ==
  ASSUME NEW s \in ChipFacts, NEW ai, NEW anchor
  PROVE  Compliance(Payload(s, ai, anchor)) = "APPROVED" <=>
           /\ s.party = "CLEAR" /\ ~s.prohibited /\ ~s.usml /\ ~s.restricted
           /\ ~s.militaryUser /\ s.eccn \notin {"controlled", "none"} /\ ~s.military
           /\ ~(ai.risk >= 80) /\ ~(ai.confidence < 60) /\ ~(SupplierRisk(s.supplier, ai) >= 6000)
<1> DEFINE p == Payload(s, ai, anchor)
<1>1. s.party \in {"CLEAR", "POSSIBLE_MATCH", "MATCH"} /\ s.eccn \in {"other", "controlled", "none"}
  BY DEF ChipFacts
<1>2. Ear(p.item, p.transaction) =
        CASE s.prohibited                     -> "PROHIBITED_END_USE"
          [] s.restricted \/ s.militaryUser   -> "LICENSE_REQUIRED"
          [] s.eccn = "controlled"            -> "LICENSE_REVIEW"
          [] s.eccn = "none"                  -> "EAR99_CANDIDATE"
          [] OTHER                            -> "ECCN_REVIEWED"
  BY DEF Ear, Payload
<1>3. Itar(p.item) = CASE s.usml -> "ITAR_CONTROLLED" [] s.military -> "POTENTIALLY_ITAR"
                       [] OTHER -> "NOT_INDICATED"
  BY DEF Itar, Payload
<1>4. p.party = s.party /\ p.ai = ai /\ p.supplier = s.supplier
        /\ p.transaction.prohibited = s.prohibited
  BY DEF Payload
<1> HIDE DEF p
<1>5. ExportControl(p.item, p.transaction, p.party) = "APPROVED" <=>
        /\ s.party = "CLEAR" /\ ~s.prohibited /\ ~s.usml /\ ~s.restricted
        /\ ~s.militaryUser /\ s.eccn \notin {"controlled", "none"} /\ ~s.military
  BY <1>1, <1>2, <1>3, <1>4 DEF ExportControl
<1>6. ExportControl(p.item, p.transaction, p.party) \in
        {"DENIED", "LICENSE_REQUIRED", "MANUAL_REVIEW", "APPROVED"}
  BY DEF ExportControl
<1>7. Compliance(p) = "APPROVED" <=>
        /\ ExportControl(p.item, p.transaction, p.party) = "APPROVED"
        /\ ~(ai.risk >= 80) /\ ~(ai.confidence < 60) /\ ~(SupplierRisk(s.supplier, ai) >= 6000)
  BY <1>4, <1>6 DEF Compliance, PolicyDecision
<1> QED BY <1>5, <1>7 DEF p

(* The orchestrator deploys exactly the chips nothing speaks against.      *)
LEMMA RunsAgree ==
  ASSUME NEW s \in ChipFacts, NEW anchor, SimulationGate(s) = "PASSED", ~PermanentRejection(s)
  PROVE  Compliance(CompliancePayload(s, anchor)) = "APPROVED" <=> Objections(s) = {}
<1>1. /\ s.scenario \in {"GOOD_CHIP", "HIGH_RISK_SUPPLIER"} =>
           ~(AiResult(s).risk >= 80) /\ ~(AiResult(s).confidence < 60)
      /\ s.scenario \notin {"GOOD_CHIP", "HIGH_RISK_SUPPLIER"} =>
           AiResult(s).risk >= 80 \/ AiResult(s).confidence < 60
  BY DEF AiResult, SimulatedAiResult, Profile
<1> QED BY <1>1, PassedGate, ApprovedPayload, NoObjections DEF CompliancePayload, Irreproachable

(* scan never asks for a permanent rejection, and approves no more.        *)
LEMMA ScansAgree ==
  ASSUME NEW s \in ChipFacts, NEW anchor, SimulationGate(s) = "PASSED",
         Compliance(BuildCompliancePayload(s, anchor)) = "APPROVED"
  PROVE  Objections(s) = {}
<1>1. ~(SimulatedAiResult(s).risk >= 80) /\ ~(SimulatedAiResult(s).confidence < 60)
      /\ ~(SupplierRisk(s.supplier, SimulatedAiResult(s)) >= 6000)
  BY ApprovedPayload DEF BuildCompliancePayload
<1>2. s.scenario \in {"GOOD_CHIP", "HIGH_RISK_SUPPLIER"}
  BY <1>1 DEF SimulatedAiResult, Profile
<1>3. AiResult(s) = SimulatedAiResult(s)
  BY <1>2 DEF AiResult
<1> QED BY <1>1, <1>2, <1>3, PassedGate, ApprovedPayload, NoObjections
       DEF BuildCompliancePayload, Irreproachable

-----------------------------------------------------------------------------
(***************************************************************************)
(* The verdicts: what is kept by whoever does not take the step.           *)
(***************************************************************************)
LEMMA SameFiled ==
  ASSUME TInv, TInv', NEW r \in Runs, Filed(r), scan'[r] = scan[r], disk'[r] = disk[r],
         refused'[r] = refused[r], evaluated'[r] = evaluated[r], ledger'[r] = ledger[r],
         faults' >= faults, ethereum' = ethereum
  PROVE  Filed(r)'
<1>1. faults > 0 => faults' > 0
  BY TerminalAssumption DEF TInv, TypeOK
<1> QED BY <1>1 DEF Filed, Fits, Recorded

LEMMA OtherFiled ==
  ASSUME TInv, TInv', NEW p \in Procs, Frame(p), NEW r \in Runs, Filed(r),
         ~(pc[p] \in Submitted /\ r = call[p].id)
  PROVE  Filed(r)'
<1>1. disk'[r] = disk[r] /\ refused'[r] = refused[r] /\ evaluated'[r] = evaluated[r]
      /\ ledger'[r] = ledger[r] /\ faults' >= faults /\ ethereum' = ethereum
  BY DEF Frame
<1>2. CASE scan[r] # NONE
  BY <1>1, <1>2, SameFiled DEF Frame
<1>3. CASE scan[r] = NONE
  BY <1>1, <1>3, NoneIsNothing DEF Filed, Decisions
<1> QED BY <1>2, <1>3

LEMMA OtherWork ==
  ASSUME TInv, TInv', NEW p \in Procs, Frame(p), NEW q \in Procs, q # p, Work(q)
  PROVE  Work(q)'
<1>1. pc'[q] = pc[q] /\ call'[q] = call[q]
  BY DEF Frame
<1>2. CASE pc[q] \notin Submitted
  BY <1>1, <1>2 DEF Work
<1>3. CASE pc[q] \in Submitted
  <2>1. PICK r \in Runs : r = call[q].id /\ scan[r] # NONE
    BY <1>3, NoneIsNothing DEF TInv, Shape, Submitted
  <2>2. ~(pc[p] \in Submitted /\ r = call[p].id)
    BY <1>3, <2>1 DEF TInv, OwnScans
  <2>3. disk'[r] = disk[r] /\ refused'[r] = refused[r] /\ evaluated'[r] = evaluated[r]
        /\ ledger'[r] = ledger[r] /\ scan'[r] = scan[r] /\ faults' >= faults
        /\ Recorded' = Recorded
    BY <2>1, <2>2 DEF Frame, Recorded
  <2>4. faults > 0 => faults' > 0
    BY <2>3, TerminalAssumption DEF TInv, TypeOK
  <2>5. MustAnchor(q)' = MustAnchor(q) /\ Request(q)' = Request(q)
    BY <1>1 DEF MustAnchor, Request
  <2>6. Begun(q)'
    BY <1>1, <1>3, <2>1, <2>3 DEF Work, Begun
  <2>7. Judging(q)'
    BY <1>1, <1>3, <2>1, <2>3, <2>5 DEF Work, Judging
  <2>8. Judged(q)'
    <3>1. \A run : Fits(r, run) => Fits(r, run)'
      BY <2>3, <2>4 DEF Fits
    <3> QED BY <1>1, <1>3, <2>1, <2>3, <3>1 DEF Work, Judged
  <2> QED BY <2>6, <2>7, <2>8 DEF Work
<1> QED BY <1>2, <1>3

-----------------------------------------------------------------------------
(***************************************************************************)
(* What the step itself does to the work of its process and to its run.    *)
(***************************************************************************)
Advances(p) == Work(p)' /\ \A r \in Runs : Filed(r)'

LEMMA AdvancesAll ==
  ASSUME TInv, VInv, TInv', NEW p \in Procs, Frame(p), Advances(p)
  PROVE  VInv'
BY OtherWork DEF VInv, Advances

(* Whoever leaves has no work, whatever it leaves behind.                  *)
LEMMA LeavingAdvances ==
  ASSUME TInv, VInv, TInv', NEW p \in Procs, Frame(p), Leaves(p),
         UNCHANGED <<disk, refused, evaluated, ledger>>
  PROVE  Advances(p)
<1>1. pc'[p] \notin Submitted
  BY DEF Leaves, TInv, TypeOK, Submitted
<1>2. \A r \in Runs : Filed(r)'
  <2> SUFFICES ASSUME NEW r \in Runs PROVE Filed(r)'
    OBVIOUS
  <2>1. CASE scan[r] # NONE
    BY <2>1, SameFiled DEF Frame, VInv
  <2>2. CASE scan[r] = NONE
    BY <2>2, NoneIsNothing DEF VInv, Filed, Decisions
  <2> QED BY <2>1, <2>2
<1> QED BY <1>1, <1>2 DEF Advances, Work

(* Nothing is filed by a step in memory.                                   *)
LEMMA NothingFiled ==
  ASSUME TInv, VInv, TInv', NEW p \in Procs, Frame(p), UNCHANGED stores
  PROVE  \A r \in Runs : Filed(r)'
BY SameFiled DEF VInv, Frame, stores

LEMMA BeforeAdvances ==
  ASSUME TInv, VInv, TInv', NEW p \in Procs, Frame(p), UNCHANGED stores, pc'[p] \notin Submitted
  PROVE  Advances(p)
BY NothingFiled DEF Advances, Work

LEMMA SubmitAdvances ==
  ASSUME TInv, VInv, TInv', NEW p \in Procs, Frame(p), Submit(p)
  PROVE  Advances(p)
<1> DEFINE free == CHOOSE q \in Free : TRUE
<1>1. PICK r \in Runs : r = free /\ scan[r] = NONE
  BY DEF Submit, Free
<1>2. pc[p] = "submit" /\ pc[p] \notin Submitted /\ UNCHANGED <<disk, refused, evaluated, ledger>>
  BY DEF Submit, At, Submitted
<1>3. \A q \in Runs : Filed(q)'
  BY <1>2, OtherFiled DEF VInv
<1>4. CASE Raise(p)
  BY <1>2, <1>4, Leaving, LeavingAdvances DEF TInv, At
<1>5. CASE ~Raise(p)
  <2>1. call' = [call EXCEPT ![p].id = r]
        /\ pc' = [pc EXCEPT ![p] = IF call[p].kind = "run" THEN "ingest" ELSE "gate"]
    BY <1>1, <1>5 DEF Submit, Goto
  <2>2. call'[p].id = r /\ call'[p].kind = call[p].kind /\ call'[p].error = call[p].error
        /\ pc'[p] = IF call[p].kind = "run" THEN "ingest" ELSE "gate"
    BY <2>1 DEF TInv, TypeOK, Call
  <2>3. disk[r] = NONE /\ refused[r] = NONE
    BY <1>1 DEF VInv, Filed
  <2>4. ~call[p].error
    BY <1>2 DEF TInv, Shape
  <2> QED BY <1>2, <1>3, <2>2, <2>3, <2>4 DEF Advances, Work, Begun, Judging, Judged
<1> QED BY <1>4, <1>5

LEMMA IngestAdvances ==
  ASSUME TInv, VInv, TInv', NEW p \in Procs, Frame(p), Ingest(p)
  PROVE  Advances(p)
<1>1. PICK r \in Runs : r = call[p].id /\ scan[r] # NONE
  BY NoneIsNothing DEF Ingest, At, TInv, Shape, Submitted
<1>2. pc[p] = "ingest" /\ pc[p] \in Submitted /\ call[p].kind = "run" /\ ~call[p].error
      /\ refused[r] = NONE
  BY <1>1 DEF Ingest, At, TInv, Shape, ForRuns, Submitted, VInv, Work, Begun, Judging
<1>3. PICK run : run = NewRun(p)
  OBVIOUS
<1>4. run.status = "RUNNING" /\ ~run.quarantined /\ Clear(run.stages, 1)
  BY <1>3 DEF NewRun, Clear
<1>5. /\ pc' = [pc EXCEPT ![p] = "gate"] /\ call' = [call EXCEPT ![p].run = run]
      /\ disk' = [disk EXCEPT ![r] = run]
      /\ UNCHANGED <<scan, refused, evaluated, ledger, faults>>
  BY <1>1, <1>3 DEF Ingest, Goto, SaveRun
<1>6. call'[p].id = r /\ call'[p].kind = "run" /\ ~call'[p].error /\ call'[p].run = run
      /\ pc'[p] = "gate" /\ disk'[r] = run
  BY <1>1, <1>2, <1>5 DEF TInv, TypeOK, Call
<1>7. run # NONE
  <2>1. run \in Run
    BY <1>6 DEF TInv, Shape
  <2> QED BY <2>1, NoneIsNothing
<1>8. Work(p)'
  BY <1>2, <1>4, <1>5, <1>6, <1>7 DEF Work, Begun, Judging, Judged
<1>9. Filed(r)'
  BY <1>1, <1>2, <1>4, <1>5, <1>6 DEF VInv, Filed, Fits, Shut
<1>10. \A q \in Runs : Filed(q)'
  BY <1>1, <1>9, OtherFiled DEF VInv
<1> QED BY <1>8, <1>10 DEF Advances

(* What p knows of its scan, put together.                                 *)
LEMMA AtWork ==
  ASSUME TInv, VInv, NEW p \in Procs, pc[p] \in Submitted
  PROVE  /\ Begun(p) /\ Judging(p) /\ Judged(p) /\ Shape(p)
         /\ call[p] \in Call /\ call[p].id \in Runs /\ call[p].sim \in Contents
         /\ scan[call[p].id] = call[p].sim /\ scan[call[p].id] # NONE
         /\ Facts[call[p].sim] \in ChipFacts /\ Filed(call[p].id)
         /\ MustAnchor(p) = Request(p).anchor
<1>1. Begun(p) /\ Judging(p) /\ Judged(p) /\ Shape(p) /\ call[p] \in Call
  BY DEF TInv, VInv, TypeOK, Work
<1>2. call[p].id \in Runs /\ call[p].sim \in Contents /\ scan[call[p].id] = call[p].sim
  BY <1>1 DEF Shape, Submitted
<1>3. MustAnchor(p) = Request(p).anchor
  BY DEF Request, CompliancePayload, BuildCompliancePayload, Payload
<1> QED BY <1>1, <1>2, <1>3, NoneIsNothing, TerminalAssumption DEF VInv

LEMMA RefuseAdvances ==
  ASSUME TInv, VInv, TInv', NEW p \in Procs, Frame(p), At(p, "gate"), call[p].kind = "run",
         NEW status \in {"REJECTED", "STOPPED"}, NEW stage, NEW decision \in Words,
         NEW quarantined \in BOOLEAN, quarantined \/ status = "REJECTED",
         Refuse(p, status, stage, decision, quarantined),
         PermanentRejection(Facts[call[p].sim]) \/ SimulationGate(Facts[call[p].sim]) # "PASSED",
         UNCHANGED <<file, stores, faults, edits, ethereum, mixed>>
  PROVE  Advances(p)
<1>1. pc[p] = "gate" /\ pc[p] \in Submitted
  BY DEF At, Submitted
<1>2. PICK r \in Runs : r = call[p].id
  BY <1>1, AtWork
<1>3. call[p].run \in Run /\ disk[r] # NONE /\ disk[r].status = "RUNNING" /\ refused[r] = NONE
  BY <1>1, <1>2, AtWork DEF Begun, Shape
<1>4. Objections(Facts[scan[r]]) # {}
  BY <1>1, <1>2, AtWork, GateSpeaks
<1>5. PICK run : run = [call[p].run EXCEPT !.status = status, !.stopped = stage,
                          !.decision = decision, !.quarantined = quarantined,
                          !.stages = Append(call[p].run.stages, <<stage, "FAILED">>)]
  OBVIOUS
<1>6. run.status = status /\ run.decision = decision /\ (run.quarantined <=> quarantined)
  BY <1>3, <1>5 DEF Run
<1>7. call' = [call EXCEPT ![p].run = run] /\ pc' = [pc EXCEPT ![p] = "quarantine"]
  BY <1>5 DEF Refuse, Goto
<1>8. call'[p].id = r /\ call'[p].kind = "run" /\ call'[p].run = run /\ pc'[p] = "quarantine"
  BY <1>2, <1>7 DEF TInv, TypeOK, Call
<1>9. run.status \in {"REJECTED", "STOPPED"} /\ run.decision # NONE /\ Shut(run)
  BY <1>6, NoneIsNothing DEF Shut
<1>10. Work(p)'
  <2>1. Begun(p)'
    BY <1>3, <1>8 DEF Begun, stores
  <2>2. Judging(p)'
    BY <1>8 DEF Judging
  <2>3. Judged(p)'
    BY <1>4, <1>8, <1>9 DEF Judged, Fits, stores, Shut, Verdicts
  <2> QED BY <2>1, <2>2, <2>3 DEF Work
<1> QED BY <1>10, NothingFiled DEF Advances

LEMMA GateAdvances ==
  ASSUME TInv, VInv, TInv', NEW p \in Procs, Frame(p), Gate(p)
  PROVE  Advances(p)
<1> DEFINE sim  == Facts[call[p].sim]
           gate == SimulationGate(sim)
<1>1. CASE PermanentRejection(sim)
  <2>1. Refuse(p, "REJECTED", RejectionStage(sim), "REJECTED_PERMANENTLY", FALSE)
    BY <1>1 DEF Gate
  <2>2. "REJECTED_PERMANENTLY" \in Words
    BY DEF Words
  <2> QED BY <1>1, <2>1, <2>2, RefuseAdvances DEF Gate
<1>2. CASE ~PermanentRejection(sim) /\ gate # "PASSED"
  <2>1. Refuse(p, "STOPPED", gate, GateDecision(gate), TRUE)
    BY <1>2 DEF Gate
  <2>2. GateDecision(gate) \in Words
    BY <1>2, GateNames
  <2> QED BY <1>2, <2>1, <2>2, RefuseAdvances DEF Gate
<1>3. CASE ~PermanentRejection(sim) /\ gate = "PASSED"
  <2> DEFINE passed == <<"PRE_COMPLIANCE_SECURITY_GATES", "PASSED">>
  <2>1. pc[p] = "gate" /\ pc[p] \in Submitted /\ call[p].kind = "run"
    BY DEF Gate, At, Submitted
  <2>2. Begun(p) /\ Judging(p) /\ Shape(p) /\ call[p] \in Call /\ call[p].run \in Run
    BY <2>1, AtWork DEF Shape
  <2>3. Clear(Append(call[p].run.stages, passed), 2)
    <3>1. call[p].run.stages \in Seq(Entry) /\ passed \in Entry
      BY <2>2 DEF Run, Entry, Stages, Results
    <3>2. Clear(call[p].run.stages, 1)
      BY <2>1, <2>2 DEF Judging
    <3> QED BY <3>1, <3>2, AppendProperties, SMTT(60) DEF Clear
  <2>4. PICK run : run = [call[p].run EXCEPT !.stages = Append(@, passed)]
    OBVIOUS
  <2>5. Clear(run.stages, 2)
    BY <2>2, <2>3, <2>4 DEF Run
  <2>6. call' = [call EXCEPT ![p].run = run] /\ pc' = [pc EXCEPT ![p] = "evaluate"]
        /\ UNCHANGED <<file, stores, faults, edits, ethereum, mixed>>
    BY <1>3, <2>4 DEF Gate, Goto
  <2>7. call'[p].id = call[p].id /\ call'[p].kind = "run" /\ call'[p].run = run
        /\ call'[p].sim = call[p].sim /\ call'[p].error = call[p].error /\ pc'[p] = "evaluate"
    BY <2>1, <2>6 DEF TInv, TypeOK, Call
  <2>8. Begun(p)'
    BY <2>1, <2>2, <2>6, <2>7 DEF Begun, stores
  <2>9. Judging(p)'
    BY <1>3, <2>1, <2>2, <2>5, <2>7 DEF Judging
  <2>10. Judged(p)'
    BY <2>7 DEF Judged
  <2> QED BY <2>6, <2>8, <2>9, <2>10, NothingFiled DEF Advances, Work
<1> QED BY <1>1, <1>2, <1>3

LEMMA ScanGateAdvances ==
  ASSUME TInv, VInv, TInv', NEW p \in Procs, Frame(p), ScanGate(p) \/ Evaluate(p)
  PROVE  Advances(p)
<1>1. pc[p] \in {"gate", "evaluate"} /\ pc[p] \in Submitted /\ UNCHANGED stores
  BY DEF ScanGate, Evaluate, At, Submitted
<1>2. CASE NextFile(p) \/ Raise(p)
  <2>1. Leaves(p)
    BY <1>1, <1>2, Leaving DEF TInv, At
  <2> QED BY <1>1, <2>1, LeavingAdvances DEF stores
<1>3. CASE ~NextFile(p) /\ ~Raise(p)
  <2>1. PICK s \in {"evaluate", "anchor", "decide"} :
          /\ pc' = [pc EXCEPT ![p] = s] /\ call' = call
          /\ s = "evaluate" => call[p].kind = "scan" /\ SimulationGate(Facts[call[p].sim]) = "PASSED"
          /\ s # "evaluate" => pc[p] = "evaluate"
          /\ s = "anchor" => Request(p).anchor
          /\ s = "decide" => ~Request(p).anchor
    BY <1>3 DEF ScanGate, Evaluate, Goto, At
  <2>2. pc'[p] = s /\ call'[p] = call[p]
    BY <2>1 DEF TInv, TypeOK
  <2>3. Begun(p) /\ Judging(p) /\ MustAnchor(p) = Request(p).anchor /\ ~call[p].error
    BY <1>1, AtWork DEF Judging
  <2>4. Begun(p)'
    BY <1>1, <2>2, <2>3 DEF Begun, stores
  <2>5. Judging(p)'
    BY <1>1, <2>1, <2>2, <2>3 DEF Judging, MustAnchor, stores
  <2>6. Judged(p)'
    BY <2>2 DEF Judged
  <2> QED BY <1>1, <2>4, <2>5, <2>6, NothingFiled DEF Advances, Work
<1> QED BY <1>2, <1>3

LEMMA AnchorAdvances ==
  ASSUME TInv, VInv, TInv', NEW p \in Procs, Frame(p), Anchor(p)
  PROVE  Advances(p)
<1>1. pc[p] = "anchor" /\ pc[p] \in Submitted
  BY DEF Anchor, At, Submitted
<1>2. PICK r \in Runs : r = call[p].id
  BY <1>1, AtWork
<1>3. PICK l \in {"unknown", "committed", Recorded} :
        /\ ledger' = [ledger EXCEPT ![r] = l]
        /\ (call' = call /\ l = Recorded) \/ call' = [call EXCEPT ![p].error = TRUE]
  BY <1>2 DEF Anchor
<1>4. pc' = [pc EXCEPT ![p] = "decide"]
      /\ UNCHANGED <<file, scan, disk, index, refused, evaluated, edits, ethereum, mixed>>
  BY DEF Anchor, Goto
<1>5. Begun(p) /\ Judging(p) /\ MustAnchor(p) /\ Filed(r) /\ ~call[p].error
  BY <1>1, <1>2, AtWork DEF Judging
<1>6. pc'[p] = "decide" /\ call'[p].id = r /\ call'[p].kind = call[p].kind
      /\ call'[p].run = call[p].run /\ call'[p].sim = call[p].sim
      /\ call'[p].anchor = call[p].anchor /\ ledger'[r] = l
  BY <1>2, <1>3, <1>4 DEF TInv, TypeOK, Call
<1>7. ~call'[p].error => l = Recorded
  BY <1>3 DEF TInv, TypeOK, Call
<1>8. MustAnchor(p)'
  BY <1>5, <1>6 DEF MustAnchor
<1>9. Begun(p)'
  BY <1>1, <1>2, <1>4, <1>5, <1>6 DEF Begun
<1>10. Judging(p)'
  BY <1>1, <1>4, <1>5, <1>6, <1>7, <1>8 DEF Judging, Recorded
<1>11. Judged(p)'
  BY <1>6 DEF Judged
<1>12. Filed(r)'
  <2>1. disk[r] # NONE => disk[r].status = "RUNNING"
    BY <1>1, <1>2, <1>5, AtWork DEF Begun, Call, Shape
  <2> QED BY <1>4, <1>5, <2>1 DEF Filed, Fits
<1>13. \A q \in Runs : Filed(q)'
  BY <1>2, <1>12, OtherFiled DEF VInv
<1> QED BY <1>9, <1>10, <1>11, <1>13 DEF Advances, Work

LEMMA WriteDecisionAdvances ==
  ASSUME TInv, VInv, TInv', NEW p \in Procs, Frame(p), WriteDecision(p)
  PROVE  Advances(p)
<1>1. pc[p] = "decide" /\ pc[p] \in Submitted
      /\ UNCHANGED <<file, scan, disk, index, refused, ledger, edits, ethereum, mixed>>
  BY DEF WriteDecision, At, Submitted
<1>2. PICK r \in Runs : r = call[p].id
  BY <1>1, AtWork
<1>3. CASE Fault /\ Raise(p) /\ UNCHANGED evaluated
  BY <1>1, <1>3, Leaving, LeavingAdvances DEF TInv, At
<1>4. CASE evaluated' = [evaluated EXCEPT ![r] = Compliance(Request(p))] /\ UNCHANGED faults
  <2> DEFINE sim == Facts[call[p].sim]
  <2>1. /\ Begun(p) /\ Judging(p) /\ Filed(r) /\ scan[r] = call[p].sim /\ scan[r] # NONE
        /\ sim \in ChipFacts /\ call[p].kind # "none" /\ call[p] \in Call
    BY <1>1, <1>2, AtWork DEF Shape
  <2>2. evaluated'[r] = Compliance(Request(p))
    BY <1>4 DEF TInv, TypeOK
  <2>3. evaluated'[r] = "APPROVED" => Objections(sim) = {}
    <3>1. SimulationGate(sim) = "PASSED" /\ (call[p].kind = "run" => ~PermanentRejection(sim))
      BY <1>1, <2>1 DEF Judging
    <3> QED BY <2>1, <2>2, <3>1, RunsAgree, ScansAgree DEF Request
  <2>4. Filed(r)'
    <3>1. disk[r] # NONE => disk[r].status = "RUNNING"
      BY <1>1, <1>2, <2>1 DEF Begun, Call
    <3> QED BY <1>1, <1>4, <2>1, <2>3, <3>1 DEF Filed, Fits
  <2>5. \A q \in Runs : Filed(q)'
    BY <1>2, <2>4, OtherFiled DEF VInv
  <2>6. CASE NextFile(p) \/ Raise(p)
    <3>1. Leaves(p)
      BY <1>1, <2>6, Leaving DEF TInv, At
    <3>2. pc'[p] \notin Submitted
      BY <3>1 DEF Leaves, TInv, TypeOK, Submitted
    <3> QED BY <2>5, <3>2 DEF Advances, Work
  <2>7. CASE ~NextFile(p) /\ ~Raise(p)
    <3>1. call[p].kind = "run" /\ pc' = [pc EXCEPT ![p] = "deploy"] /\ call' = call
      BY <2>7 DEF WriteDecision, Goto
    <3>2. pc'[p] = "deploy" /\ MustAnchor(p)' = MustAnchor(p) /\ Request(p)' = Request(p)
      BY <3>1 DEF TInv, TypeOK, MustAnchor, Request
    <3>3. Begun(p)'
      BY <1>1, <2>1, <3>1, <3>2 DEF Begun
    <3>4. Judging(p)'
      BY <1>1, <1>2, <2>1, <2>2, <3>1, <3>2 DEF Judging, Recorded
    <3>5. Judged(p)'
      BY <3>2 DEF Judged
    <3> QED BY <2>5, <3>3, <3>4, <3>5 DEF Advances, Work
  <2> QED BY <2>6, <2>7
<1> QED BY <1>2, <1>3, <1>4 DEF WriteDecision

LEMMA Triples ==
  ASSUME NEW a \in Entry, NEW b \in Entry, NEW c \in Entry
  PROVE  \E t \in Seq(Entry) :
           t = <<a, b, c>> /\ Len(t) = 3 /\ t[1] = a /\ t[2] = b /\ t[3] = c
<1>1. <<a, b, c>> \in Seq(Entry) /\ Len(<<a, b, c>>) = 3
  OBVIOUS
<1>2. <<a, b, c>>[1] = a /\ <<a, b, c>>[2] = b /\ <<a, b, c>>[3] = c
  OBVIOUS
<1> QED BY <1>1, <1>2

(* The three stages after the gates: all clear if the run completes.       *)
LEMMA LastStages ==
  ASSUME NEW stages \in Seq(Entry), Clear(stages, 2),
         NEW a \in Entry, NEW b \in Entry, NEW c \in Entry,
         a[2] \in {"PASSED", "SKIPPED"}, b[2] \in {"PASSED", "SKIPPED"},
         c[2] \in {"PASSED", "SKIPPED"}
  PROVE  Clear(stages \o <<a, b, c>>, 5)
<1>1. PICK t \in Seq(Entry) : t = <<a, b, c>> /\ Len(t) = 3 /\ t[1] = a /\ t[2] = b /\ t[3] = c
  BY Triples
<1>2. Len(stages) = 2 /\ \A i \in 1..2 : stages[i][2] \in {"PASSED", "SKIPPED"}
  BY DEF Clear
<1>3. /\ Len(stages \o t) = Len(stages) + Len(t)
      /\ \A i \in 1..Len(stages) : (stages \o t)[i] = stages[i]
      /\ \A i \in 1..Len(t) : (stages \o t)[Len(stages) + i] = t[i]
  BY ConcatProperties
<1>4. Len(stages \o t) = 5 /\ (\A i \in 1..2 : (stages \o t)[i] = stages[i])
      /\ (stages \o t)[3] = a /\ (stages \o t)[4] = b /\ (stages \o t)[5] = c
  BY <1>1, <1>2, <1>3
<1>5. \A i \in 1..5 : i \in 1..2 \/ i = 3 \/ i = 4 \/ i = 5
  OBVIOUS
<1>6. Clear(stages \o t, 5)
  BY <1>2, <1>4, <1>5 DEF Clear
<1> QED BY <1>1, <1>6

LEMMA DeployAdvances ==
  ASSUME TInv, VInv, TInv', NEW p \in Procs, Frame(p), Deploy(p)
  PROVE  Advances(p)
<1> DEFINE decision     == evaluated[call[p].id]
           failedClosed == Request(p).anchor /\ call[p].error
           verdict      == Verdict(decision, failedClosed)
           word         == IF failedClosed THEN "HOLD_PENDING_BLOCKCHAIN_RECOVERY"
                           ELSE Recommendation(decision)
           last         == <<"DEPLOYMENT_DECISION", verdict.stage>>
           stages       == call[p].run.stages \o
                             <<ComplianceStage(decision), BlockchainStage(p), last>>
           new == [call[p].run EXCEPT !.status = verdict.status, !.stopped = verdict.stopped,
                     !.decision = word, !.quarantined = verdict.status = "STOPPED",
                     !.stages = stages]
           s   == IF verdict.status = "STOPPED" THEN "quarantine" ELSE "save"
           sim == Facts[call[p].sim]
<1>1. pc[p] = "deploy" /\ pc[p] \in Submitted /\ UNCHANGED <<file, stores, faults, edits, ethereum, mixed>>
  BY DEF Deploy, At, Submitted
<1>2. PICK r \in Runs : r = call[p].id
  BY <1>1, AtWork
<1>3. /\ call[p].kind = "run" /\ call[p] \in Call /\ call[p].run \in Run
      /\ Begun(p) /\ Judging(p) /\ Filed(r) /\ scan[r] = call[p].sim /\ sim \in ChipFacts
      /\ Request(p).anchor = MustAnchor(p) /\ call[p].anchor = NONE
      /\ (call[p].error => faults > 0)
  BY <1>1, <1>2, AtWork DEF Shape, ForRuns
<1>4. MustAnchor(p) = sim.fabric
  BY <1>3 DEF MustAnchor
<1>5. /\ decision = Compliance(CompliancePayload(sim, MustAnchor(p)))
      /\ SimulationGate(sim) = "PASSED" /\ ~PermanentRejection(sim)
      /\ Clear(call[p].run.stages, 2)
      /\ (MustAnchor(p) /\ ~call[p].error => ledger[r] = Recorded)
      /\ (call[p].error => MustAnchor(p))
      /\ refused[r] = NONE /\ disk[r] # NONE /\ disk[r].status = "RUNNING"
  BY <1>1, <1>2, <1>3 DEF Judging, Begun, Request
<1>6. decision = "APPROVED" <=> Objections(sim) = {}
  BY <1>3, <1>5, RunsAgree
<1>7. failedClosed <=> call[p].error
  BY <1>3, <1>5
<1>8. /\ verdict.status = "COMPLETED" => ~failedClosed /\ decision = "APPROVED"
                                           /\ verdict.stage = "PASSED"
      /\ verdict.status \in {"REJECTED", "STOPPED", "MANUAL_REVIEW"} =>
           ~failedClosed /\ decision # "APPROVED"
      /\ verdict.status = "INFRASTRUCTURE_HOLD" => failedClosed
      /\ verdict.status \in Verdicts \ {"REJECTED"} /\ verdict.stage \in Results
  BY DEF Verdict, Verdicts, Results
<1>9. word # NONE
  BY RecommendationNames, NoneIsNothing DEF Words
<1>10. verdict.status = "COMPLETED" => word = "DEPLOY"
  BY <1>8 DEF Recommendation
<1>11. verdict.status = "COMPLETED" => Clear(stages, 5)
  <2> SUFFICES ASSUME verdict.status = "COMPLETED" PROVE Clear(stages, 5)
    OBVIOUS
  <2>1. ~call[p].error /\ decision = "APPROVED" /\ verdict.stage = "PASSED"
    BY <1>7, <1>8
  <2>2. ComplianceStage(decision) = <<"SUPPLIER_RISK_AND_COMPLIANCE", "PASSED">>
    BY <2>1 DEF ComplianceStage
  <2>3. BlockchainStage(p) \in {<<"BLOCKCHAIN", "SKIPPED">>, <<"BLOCKCHAIN", "PASSED">>}
    BY <2>1 DEF BlockchainStage
  <2>4. last = <<"DEPLOYMENT_DECISION", "PASSED">>
    BY <2>1
  <2>5. ComplianceStage(decision) \in Entry /\ BlockchainStage(p) \in Entry /\ last \in Entry
    BY <2>2, <2>3, <2>4 DEF Entry, Stages, Results
  <2>6. call[p].run.stages \in Seq(Entry)
    BY <1>3 DEF Run
  <2> HIDE DEF last, decision
  <2> QED BY <1>5, <2>2, <2>3, <2>4, <2>5, <2>6, LastStages, ZenonT(60)
<1>12. call' = [call EXCEPT ![p].run = new] /\ pc' = [pc EXCEPT ![p] = s]
  BY DEF Deploy, Goto
<1>13. s \in {"quarantine", "save"} /\ (s = "quarantine" <=> verdict.status = "STOPPED")
  OBVIOUS
<1> HIDE DEF verdict, word, stages, s
<1>14. PICK run : run = new
  OBVIOUS
<1>15. /\ run.status = verdict.status /\ run.decision = word /\ run.stages = stages
       /\ (run.quarantined <=> verdict.status = "STOPPED")
  BY <1>3, <1>14 DEF Run
<1> HIDE DEF new
<1>16. pc'[p] = s /\ call'[p].id = r /\ call'[p].kind = "run" /\ call'[p].run = run
       /\ call'[p].error = call[p].error
  BY <1>2, <1>3, <1>12, <1>14 DEF TInv, TypeOK, Call
<1>17. Fits(r, run)
  <2>1. CASE run.status = "COMPLETED"
    BY <1>2, <1>3, <1>4, <1>5, <1>6, <1>7, <1>8, <1>10, <1>11, <1>15, <2>1 DEF Fits
  <2>2. CASE run.status # "COMPLETED"
    BY <1>3, <1>4, <1>5, <1>6, <1>7, <1>8, <1>15, <2>2 DEF Fits
  <2> QED BY <2>1, <2>2
<1>18. Fits(r, run)'
  BY <1>1, <1>17 DEF Fits, Recorded, stores
<1>19. Begun(p)'
  BY <1>1, <1>2, <1>5, <1>13, <1>16 DEF Begun, stores
<1>20. Judging(p)'
  BY <1>13, <1>16 DEF Judging
<1>21. Judged(p)'
  BY <1>1, <1>5, <1>8, <1>9, <1>13, <1>15, <1>16, <1>18 DEF Judged, Shut, stores
<1>22. \A q \in Runs : Filed(q)'
  BY <1>1, NothingFiled
<1> QED BY <1>19, <1>20, <1>21, <1>22 DEF Advances, Work

LEMMA QuarantineAdvances ==
  ASSUME TInv, VInv, TInv', NEW p \in Procs, Frame(p), Quarantine(p)
  PROVE  Advances(p)
<1>1. pc[p] = "quarantine" /\ pc[p] \in Submitted
      /\ UNCHANGED <<file, scan, disk, index, evaluated, ledger, call, faults, edits, ethereum, mixed>>
  BY DEF Quarantine, At, Submitted
<1>0. PICK run : run = call[p].run
  OBVIOUS
<1>2. PICK r \in Runs : r = call[p].id
  BY <1>1, AtWork
<1>3. refused' = [refused EXCEPT ![r] = run.decision] /\ pc' = [pc EXCEPT ![p] = "save"]
  BY <1>0, <1>2 DEF Quarantine, Goto
<1>4. pc'[p] = "save" /\ refused'[r] = run.decision
  BY <1>3 DEF TInv, TypeOK
<1>5. /\ call[p].kind = "run" /\ Begun(p) /\ Filed(r) /\ Shut(run) /\ run.decision # NONE
      /\ run.status \in {"REJECTED", "STOPPED"} /\ Fits(r, run)
  BY <1>1, <1>0, <1>2, AtWork DEF Shape, ForRuns, Judged
<1>6. disk[r] # NONE /\ disk[r].status = "RUNNING"
  BY <1>1, <1>0, <1>2, <1>5 DEF Begun
<1>7. Fits(r, run)'
  BY <1>1, <1>5 DEF Fits
<1>8. Objections(Facts[scan[r]]) # {}
  BY <1>5 DEF Fits
<1>9. Begun(p)'
  BY <1>1, <1>0, <1>2, <1>4, <1>5, <1>6 DEF Begun
<1>10. Judging(p)'
  BY <1>4 DEF Judging
<1>11. Judged(p)'
  BY <1>1, <1>0, <1>2, <1>4, <1>5, <1>7 DEF Judged, Verdicts
<1>12. Filed(r)'
  BY <1>1, <1>4, <1>5, <1>6, <1>8, AtWork, <1>0, <1>2 DEF Filed, Fits, Shut
<1>13. \A q \in Runs : Filed(q)'
  BY <1>0, <1>2, <1>12, OtherFiled DEF VInv
<1> QED BY <1>9, <1>10, <1>11, <1>13 DEF Advances, Work

LEMMA SaveAdvances ==
  ASSUME TInv, VInv, TInv', NEW p \in Procs, Frame(p), SaveResult(p)
  PROVE  Advances(p)
<1>1. pc[p] = "save" /\ pc[p] \in Submitted
      /\ UNCHANGED <<file, scan, index, refused, evaluated, ledger, call, faults, edits, ethereum, mixed>>
  BY DEF SaveResult, At, Submitted
<1>0. PICK run : run = call[p].run
  OBVIOUS
<1>2. PICK r \in Runs : r = call[p].id
  BY <1>1, AtWork
<1>3. disk' = [disk EXCEPT ![r] = run] /\ pc' = [pc EXCEPT ![p] = "register"]
  BY <1>0, <1>2 DEF SaveResult, SaveRun, Goto
<1>4. pc'[p] = "register" /\ disk'[r] = run
  BY <1>3 DEF TInv, TypeOK
<1>5. /\ call[p].kind = "run" /\ Filed(r) /\ run \in Run /\ run.status \in Verdicts /\ Fits(r, run)
      /\ refused[r] = (IF Shut(run) THEN run.decision ELSE NONE) /\ scan[r] # NONE
  BY <1>1, <1>0, <1>2, AtWork DEF Shape, ForRuns, Judged
<1>6. run # NONE
  BY <1>5, NoneIsNothing
<1>7. Fits(r, run)'
  BY <1>1, <1>5 DEF Fits, Recorded
<1>8. Begun(p)'
  BY <1>1, <1>0, <1>2, <1>4, <1>5, <1>6 DEF Begun
<1>9. Judging(p)' /\ Judged(p)'
  BY <1>4 DEF Judging, Judged
<1>10. Filed(r)'
  <2>1. run.status # "RUNNING"
    BY <1>5 DEF Verdicts
  <2>2. Fits(r, disk[r])'
    BY <1>1, <1>4, <1>5 DEF Fits, Recorded
  <2> QED BY <1>1, <1>4, <1>5, <1>6, <2>1, <2>2 DEF Filed
<1>11. \A q \in Runs : Filed(q)'
  BY <1>0, <1>2, <1>10, OtherFiled DEF VInv
<1> QED BY <1>8, <1>9, <1>11 DEF Advances, Work

LEMMA RegisterAdvances ==
  ASSUME TInv, VInv, TInv', NEW p \in Procs, Frame(p), Register(p)
  PROVE  Advances(p)
<1>1. Leaves(p)
  BY Leaving DEF Register, TInv, At
<1> QED BY <1>1, LeavingAdvances DEF Register

LEMMA QuietAdvances ==
  ASSUME TInv, VInv, TInv', NEW p \in Procs, Frame(p),
         \/ ReadFile(p) \/ HashFile(p) \/ FindByHash(p) \/ Replay(p) \/ Unnamed(p)
         \/ SubmitFails(p) \/ Die(p) \/ Command(p)
  PROVE  Advances(p)
<1>1. CASE End(p) \/ NextFile(p) \/ Raise(p)
  <2>1. CASE ~At(p, "idle") /\ UNCHANGED stores
    <3>1. Leaves(p)
      BY <1>1, <2>1, Leaving DEF TInv
    <3> QED BY <2>1, <3>1, LeavingAdvances DEF stores
  <2>2. CASE At(p, "idle")
    <3>1. UNCHANGED stores /\ pc' = [pc EXCEPT ![p] = "read"]
      BY <2>2 DEF ReadFile, HashFile, FindByHash, Replay, Unnamed, SubmitFails, Die, Command, At,
         PipelineRun, PipelineAll, ResumeScan, Scan, ScanAll, Begin, Goto
    <3>2. pc'[p] \notin Submitted
      BY <3>1 DEF TInv, TypeOK, Submitted
    <3> QED BY <3>1, <3>2, BeforeAdvances
  <2>3. At(p, "idle") \/ UNCHANGED stores
    BY DEF ReadFile, HashFile, FindByHash, Replay, Unnamed, SubmitFails, Die, Command,
       PipelineRun, PipelineAll, ResumeScan, Scan, ScanAll, Begin
  <2> QED BY <2>1, <2>2, <2>3
<1>2. CASE ~End(p) /\ ~NextFile(p) /\ ~Raise(p)
  <2>1. PICK s \in {"read", "hash", "find", "replay", "submit"} :
          pc' = [pc EXCEPT ![p] = s] /\ UNCHANGED stores
    BY <1>2 DEF ReadFile, HashFile, FindByHash, Replay, Unnamed, SubmitFails, Die, Command,
       PipelineRun, PipelineAll, ResumeScan, Scan, ScanAll, Begin, Goto
  <2>2. pc'[p] \notin Submitted
    BY <2>1 DEF TInv, TypeOK, Submitted
  <2> QED BY <2>1, <2>2, BeforeAdvances
<1> QED BY <1>1, <1>2

LEMMA InitVerdicts ==
  ASSUME Init
  PROVE  VInv
BY NoneIsNothing DEF Init, VInv, Work, Filed, Submitted, Decisions

LEMMA StepVerdicts ==
  ASSUME TInv, VInv, TInv', [Next]_vars
  PROVE  VInv'
<1>1. ASSUME NEW p \in Procs, Step(p) \/ Die(p) \/ Command(p)
      PROVE  VInv'
  <2>1. Frame(p)
    BY <1>1, StepKeeps DEF Keeps
  <2>2. Advances(p)
    BY <1>1, <2>1, QuietAdvances, SubmitAdvances, IngestAdvances, GateAdvances, ScanGateAdvances,
       AnchorAdvances, WriteDecisionAdvances, DeployAdvances, QuarantineAdvances, SaveAdvances,
       RegisterAdvances DEF Step
  <2> QED BY <2>1, <2>2, AdvancesAll
<1>2. ASSUME UNCHANGED <<stores, pc, faults, ethereum>>,
             \A p \in Procs : pc[p] \in Submitted => call'[p] = call[p]
      PROVE  VInv'
  <2>1. \A p \in Procs : Work(p)'
    BY <1>2 DEF VInv, Work, Begun, Judging, Judged, Fits, MustAnchor, Request, Recorded, stores
  <2>2. \A r \in Runs : Filed(r)'
    BY <1>2 DEF VInv, Filed, Fits, Recorded, stores
  <2> QED BY <2>1, <2>2 DEF VInv
<1>3. ASSUME NEW f \in Files, NEW c \in Edits, Edit(f, c)
      PROVE  VInv'
  <2>1. \A p \in Procs : pc[p] \in Submitted => call'[p] = call[p]
    BY <1>3 DEF Edit, At, Submitted
  <2>2. UNCHANGED <<stores, pc, faults, ethereum>>
    BY <1>3 DEF Edit
  <2> QED BY <1>2, <2>1, <2>2
<1>4. CASE UNCHANGED vars
  BY <1>2, <1>4 DEF vars
<1> QED BY <1>1, <1>3, <1>4 DEF Next

LEMMA VerdictsHold == Spec => []VInv
<1>1. Init => VInv
  BY InitVerdicts
<1>2. TInv /\ TInv' /\ VInv /\ [Next]_vars => VInv'
  BY StepVerdicts
<1> QED BY <1>1, <1>2, TypesHold, PTL DEF Spec

(* Every verdict on a chip has its reason in the chip's file: a completed  *)
(* run is of a chip nothing speaks against and on the ledgers if its file  *)
(* asks so, a refusal is for something the file says, and no command gets  *)
(* compliance to approve what the others refuse.                           *)
THEOREM VerdictsHaveReasons == Spec => []VerdictsJustified
<1>1. TInv /\ VInv => VerdictsJustified
  BY DEF TInv, VInv, Filed, Fits, Clear, VerdictsJustified, CompletedJustified,
     RefusedJustified, ApprovedJustified
<1> QED BY <1>1, TypesHold, VerdictsHold, PTL

(* Every refusal is on record with the decision of its run; a record       *)
(* without a refusal is of a run that died on its way to one.              *)
THEOREM RefusalsOnRecord == Spec => []RefusalsRecorded
<1>1. VInv => RefusalsRecorded
  BY DEF VInv, Filed, Shut, RefusalsRecorded
<1> QED BY <1>1, VerdictsHold, PTL

-----------------------------------------------------------------------------
(***************************************************************************)
(* The store of runs implements RunLife: the first save begins a run, the  *)
(* second gives it its verdict, and its registration makes it the answer;  *)
(* no other step is seen in run.json or index.json.                        *)
(***************************************************************************)
LEMMA Unseen ==
  ASSUME UNCHANGED <<disk, index>>
  PROVE  UNCHANGED Life!vars
BY DEF Life!vars

LEMMA IngestStarts ==
  ASSUME TInv, VInv, TInv', NEW p \in Procs, Ingest(p)
  PROVE  Life!Next
<1>1. pc[p] = "ingest" /\ pc[p] \in Submitted
  BY DEF Ingest, At, Submitted
<1>2. PICK r \in Runs : r = call[p].id
  BY <1>1, AtWork
<1>3. PICK run : run = NewRun(p)
  OBVIOUS
<1>4. run.status = "RUNNING" /\ disk' = [disk EXCEPT ![r] = run] /\ UNCHANGED index
      /\ call' = [call EXCEPT ![p].run = run] /\ pc' = [pc EXCEPT ![p] = "gate"]
  BY <1>2, <1>3 DEF Ingest, SaveRun, NewRun, Goto
<1>5. run # NONE
  <2>1. pc'[p] = "gate" /\ call'[p].run = run /\ call'[p].kind = call[p].kind
    BY <1>4 DEF TInv, TypeOK, Call
  <2>2. call[p].kind = "run"
    BY <1>1 DEF TInv, Shape, ForRuns
  <2>3. run \in Run
    BY <2>1, <2>2 DEF TInv, Shape
  <2> QED BY <2>3, NoneIsNothing
<1>6. disk[r] = NONE
  BY <1>1, <1>2, AtWork DEF Begun
<1>7. Life!Start(r)
  BY <1>4, <1>5, <1>6 DEF Life!Start, TInv, TypeOK
<1> QED BY <1>7 DEF Life!Next

LEMMA SaveFinishes ==
  ASSUME TInv, VInv, NEW p \in Procs, SaveResult(p)
  PROVE  Life!Next
<1>1. pc[p] = "save" /\ pc[p] \in Submitted
  BY DEF SaveResult, At, Submitted
<1>2. PICK r \in Runs : r = call[p].id
  BY <1>1, AtWork
<1>3. PICK run : run = call[p].run
  OBVIOUS
<1>4. disk' = [disk EXCEPT ![r] = run] /\ UNCHANGED index
  BY <1>2, <1>3 DEF SaveResult, SaveRun
<1>5. run \in Run /\ run.status \in Verdicts /\ disk[r] # NONE /\ disk[r].status = "RUNNING"
  BY <1>1, <1>2, <1>3, AtWork DEF Shape, ForRuns, Begun, Judged
<1>6. Life!Finish(r, run.status)
  BY <1>4, <1>5, NoneIsNothing DEF Life!Finish, TInv, TypeOK
<1> QED BY <1>5, <1>6 DEF Life!Next

LEMMA RegisterAnswers ==
  ASSUME TInv, VInv, NEW p \in Procs, Register(p)
  PROVE  [Life!Next]_(Life!vars)
<1>1. pc[p] = "register" /\ pc[p] \in Submitted /\ UNCHANGED disk
  BY DEF Register, At, Submitted
<1>2. PICK r \in Runs : r = call[p].id
  BY <1>1, AtWork
<1>3. PICK h \in Contents : h = call[p].hash
  BY <1>1, AtWork DEF Shape
<1>4. index' = [g \in DOMAIN index \cup {h} |-> IF g = h THEN r ELSE index[g]]
  BY <1>2, <1>3 DEF Register, Entered
<1>5. disk[r] # NONE /\ disk[r].status \in Verdicts
  BY <1>1, <1>2, AtWork DEF Shape, ForRuns, Begun
<1>6. Life!Answer(h, r)
  BY <1>1, <1>4, <1>5 DEF Life!Answer
<1>7. CASE index' = index
  BY <1>1, <1>7, Unseen
<1>8. CASE index' # index
  BY <1>6, <1>8 DEF Life!Next
<1> QED BY <1>7, <1>8

LEMMA StepLives ==
  ASSUME TInv, VInv, TInv', [Next]_vars
  PROVE  [Life!Next]_(Life!vars)
<1>1. ASSUME NEW p \in Procs, Step(p)
      PROVE  [Life!Next]_(Life!vars)
  <2>1. UNCHANGED <<disk, index>> \/ Ingest(p) \/ SaveResult(p) \/ Register(p)
    BY <1>1 DEF Step, Unnamed, ReadFile, HashFile, FindByHash, Replay, Submit, SubmitFails, Gate,
       ScanGate, Evaluate, Anchor, WriteDecision, Deploy, Quarantine, stores
  <2> QED BY <2>1, Unseen, IngestStarts, SaveFinishes, RegisterAnswers
<1>2. ASSUME NEW p \in Procs, Die(p) \/ Command(p)
      PROVE  UNCHANGED <<disk, index>>
  BY <1>2 DEF Die, Command, PipelineRun, PipelineAll, ResumeScan, Scan, ScanAll, Begin, stores
<1>3. ASSUME NEW f \in Files, NEW c \in Edits, Edit(f, c)
      PROVE  UNCHANGED <<disk, index>>
  BY <1>3 DEF Edit, stores
<1>4. CASE UNCHANGED vars
  BY <1>4, Unseen DEF vars, stores
<1> QED BY <1>1, <1>2, <1>3, <1>4, Unseen DEF Next

(* run.json and index.json implement RunLife: a run begins once, gets one  *)
(* verdict and keeps it, and only a run with a verdict answers for a file. *)
THEOREM RunsLive == Spec => ImplementsRunLife
<1>1. Init => Life!Init
  BY DEF Init, Life!Init
<1>2. TInv /\ TInv' /\ VInv /\ [Next]_vars => [Life!Next]_(Life!vars)
  BY StepLives
<1> QED BY <1>1, <1>2, TypesHold, VerdictsHold, PTL DEF Spec, ImplementsRunLife, Life!Spec, Life!vars

-----------------------------------------------------------------------------
(***************************************************************************)
(* Whatever is registered for a hash is a finished run of that hash, and   *)
(* no later save changes it.                                               *)
(***************************************************************************)
HashesAnswer ==
  \A h \in DOMAIN index :
    LET r == index[h]
    IN  disk[r] # NONE /\ disk[r].status \in Verdicts /\ disk[r].hash = h

LEMMA SavesKeepHashes ==
  ASSUME TInv, VInv, HashesAnswer, NEW p \in Procs, Ingest(p) \/ SaveResult(p)
  PROVE  HashesAnswer'
<1>1. pc[p] \in {"ingest", "save"} /\ pc[p] \in Submitted /\ index' = index
  BY DEF Ingest, SaveResult, At, Submitted
<1>2. disk[call[p].id] = NONE \/ disk[call[p].id].status = "RUNNING"
  BY <1>1, AtWork DEF Begun, Shape, ForRuns
<1>3. \A r \in Runs : r # call[p].id => disk'[r] = disk[r]
  BY DEF Ingest, SaveResult, SaveRun, TInv, TypeOK
<1>4. \A h \in DOMAIN index : index[h] \in Runs /\ index[h] # call[p].id
  BY <1>2 DEF HashesAnswer, TInv, TypeOK, Verdicts
<1> QED BY <1>1, <1>3, <1>4 DEF HashesAnswer

LEMMA RegisterKeepsHashes ==
  ASSUME TInv, VInv, HashesAnswer, NEW p \in Procs, Register(p)
  PROVE  HashesAnswer'
<1>1. pc[p] = "register" /\ pc[p] \in Submitted /\ disk' = disk
  BY DEF Register, At, Submitted
<1>2. PICK r \in Runs, h \in Contents : r = call[p].id /\ h = call[p].hash
  BY <1>1, AtWork DEF Shape
<1>3. disk[r] # NONE /\ disk[r].status \in Verdicts /\ disk[r].hash = h
  BY <1>1, <1>2, AtWork DEF Shape, ForRuns, Begun
<1>4. DOMAIN index' = DOMAIN index \cup {h}
      /\ \A g \in DOMAIN index' : index'[g] = IF g = h THEN r ELSE index[g]
  BY <1>2 DEF Register, Entered
<1> QED BY <1>1, <1>3, <1>4 DEF HashesAnswer

LEMMA StepHashes ==
  ASSUME TInv, VInv, HashesAnswer, [Next]_vars
  PROVE  HashesAnswer'
<1>1. ASSUME UNCHANGED <<disk, index>>
      PROVE  HashesAnswer'
  BY <1>1 DEF HashesAnswer
<1>2. ASSUME NEW p \in Procs, Step(p)
      PROVE  HashesAnswer'
  <2>1. UNCHANGED <<disk, index>> \/ Ingest(p) \/ SaveResult(p) \/ Register(p)
    BY <1>2 DEF Step, Unnamed, ReadFile, HashFile, FindByHash, Replay, Submit, SubmitFails, Gate,
       ScanGate, Evaluate, Anchor, WriteDecision, Deploy, Quarantine, stores
  <2> QED BY <1>1, <2>1, SavesKeepHashes, RegisterKeepsHashes
<1>3. ASSUME NEW p \in Procs, Die(p) \/ Command(p)
      PROVE  UNCHANGED <<disk, index>>
  BY <1>3 DEF Die, Command, PipelineRun, PipelineAll, ResumeScan, Scan, ScanAll, Begin, stores
<1>4. ASSUME NEW f \in Files, NEW c \in Edits, Edit(f, c)
      PROVE  UNCHANGED <<disk, index>>
  BY <1>4 DEF Edit, stores
<1>5. CASE UNCHANGED vars
  BY <1>1, <1>5 DEF vars, stores
<1> QED BY <1>1, <1>2, <1>3, <1>4, <1>5 DEF Next

(* The run registered for a hash is a finished run of a file of that hash, *)
(* and it judged that very content, however operators edit the file and    *)
(* whichever processes run it side by side, except if the file was edited  *)
(* between the two reads of its command.                                   *)
THEOREM AnswersWereJudged == Spec => []AnswerJudged
<1>1. Init => HashesAnswer
  BY DEF Init, HashesAnswer
<1>2. TInv /\ VInv /\ HashesAnswer /\ [Next]_vars => HashesAnswer'
  BY StepHashes
<1>3. TInv /\ HashesAnswer => AnswerJudged
  BY DEF TInv, ScansAnswer, HashesAnswer, AnswerJudged
<1> QED BY <1>1, <1>2, <1>3, TypesHold, VerdictsHold, PTL DEF Spec
=============================================================================
