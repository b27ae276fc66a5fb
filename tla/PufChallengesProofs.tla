------------------------- MODULE PufChallengesProofs -------------------------
(***************************************************************************)
(* Proofs about PufChallenges, for any number of threads, devices,         *)
(* challenges per bank, calls, ticks and faults.                           *)
(***************************************************************************)
EXTENDS PufChallenges, SequenceTheorems, TLAPS

(***************************************************************************)
(* Which locals of a process are set at which of its steps.                *)
(***************************************************************************)
LocalsOK ==
  \A p \in Procs :
    /\ pc[p] # "idle" => call[p].device \in Devices /\ loaded[p] # 0
    /\ pc[p] \in {"scan", "lockissue", "issue", "issued"} => cursor[p] # 0
    /\ pc[p] \in {"lockissue", "issue", "issued", "lockconsume", "consume", "verify"} =>
         call[p].challenge \in Challenges

TypeInv == TypeOK /\ LocalsOK

(***************************************************************************)
(* The inductive invariant.                                                *)
(***************************************************************************)
OnLedger(action, c, d) == Record(action, c, d) \in Recorded(ledger.lines)

(* A ledger that nobody created yet has no records.                        *)
AbsentEmpty == ledger.tail = "absent" => ledger.lines = <<>>

(* The exclusive lock belongs to the process about to extend the ledger.   *)
LockHeld == \A p \in Procs : ledgerLock = p <=> pc[p] \in {"issue", "consume"}

(* What was handed out is on the ledger, under the same device.            *)
HandedRecorded == \A e \in handed : OnLedger("issued", e.challenge, e.device)

(* A challenge on the ledger that its issuer did not hand out yet.         *)
PendingAlone ==
  \A p \in Procs : pc[p] = "issued" =>
    /\ OnLedger("issued", call[p].challenge, call[p].device)
    /\ \A e \in handed : e.challenge # call[p].challenge
    /\ \A q \in Procs \ {p} : pc[q] = "issued" => call[q].challenge # call[p].challenge

(* Who authenticates holds an envelope that was handed out.                *)
EnvelopeHeld ==
  \A p \in Procs : pc[p] \in {"lockconsume", "consume", "verify"} =>
    \E e \in handed : e.challenge = call[p].challenge /\ e.expires = call[p].expires

(* Who consumed a challenge is the only one to verify a response to it.    *)
VerifierAlone ==
  \A p \in Procs : pc[p] = "verify" =>
    /\ OnLedger("issued", call[p].challenge, call[p].device)
    /\ OnLedger("consumed", call[p].challenge, call[p].device)
    /\ accepted[call[p].challenge] = 0
    /\ \A q \in Procs \ {p} : pc[q] = "verify" => call[q].challenge # call[p].challenge

AcceptedConsumed == \A c \in Challenges : accepted[c] # 0 => Consumed(c)

(* Every template a scan went past is issued.                              *)
PassedIssued ==
  \A p \in Procs : pc[p] = "scan" =>
    \A i \in 1..BankSize : i < cursor[p] => Issued(Template(loaded[p], i))

(* The enrolment of a caller that asked to replace is noted.               *)
ReplaceAsked ==
  \A p \in Procs : pc[p] \in {"enrol", "save"} /\ call[p].flag => loaded[p] \in replacing

IInv ==
  /\ TypeInv /\ AbsentEmpty /\ LockHeld
  /\ LedgerLegal /\ HandedRecorded /\ PendingAlone /\ HandedOnce
  /\ EnvelopeHeld /\ VerifierAlone /\ AcceptedConsumed /\ AcceptedOnce
  /\ PassedIssued /\ ExhaustedTruly /\ ReplaceAsked

-----------------------------------------------------------------------------
(* Types                                                                   *)

(* A template of an enrolment within the bound is a challenge.             *)
LEMMA TemplateType ==
  ASSUME NEW k \in 1..MaxEnrolments, NEW i \in 1..BankSize
  PROVE  Template(k, i) \in Challenges
<1>. DEFINE rest == MaxEnrolments - k
<1>. USE PufAssumption
<1>1. rest \in Nat /\ k-1 \in Nat /\ MaxEnrolments = (k-1) + 1 + rest
  OBVIOUS
<1>2. (k-1) * BankSize \in Nat /\ rest * BankSize \in Nat
  BY <1>1
<1>. HIDE DEF rest
<1>3. \A a, b, n \in Nat : (a + 1 + b) * n = a*n + n + b*n
  OBVIOUS
<1>4. MaxEnrolments * BankSize = (k-1) * BankSize + BankSize + rest * BankSize
  BY <1>1, <1>3
<1>. QED
  BY <1>2, <1>4 DEF Template, Challenges

LEMMA LineTypes ==
  ASSUME NEW file \in [lines : Seq(Line), tail : Tail_], NEW r \in Line,
         NEW left \in {"fragment", "unterminated"}
  PROVE  /\ Opened(file) \in [lines : Seq(Line), tail : Tail_]
         /\ WriteLine(file, r) \in [lines : Seq(Line), tail : Tail_]
         /\ WritePart(file, r, left) \in [lines : Seq(Line), tail : Tail_]
  BY DEF Opened, EmptyFile, WriteLine, WritePart, Tail_

(* A process that leaves its call keeps the kinds of its locals.           *)
LEMMA LeaveTypes ==
  ASSUME TypeInv, NEW p \in Procs, Leave(p)
  PROVE  /\ pc' \in [Procs -> PCs] /\ LocalsOK'
         /\ call' \in [Procs -> Call]
         /\ loaded' \in [Procs -> 0..MaxEnrolments]
         /\ cursor' \in [Procs -> 0..BankSize]
         /\ enrolLock' \in [Devices -> Procs \cup {NONE}]
         /\ ledgerLock' \in Procs \cup {NONE}
<1>1. NoCall \in Call
  BY DEF NoCall, Call
<1>2. LocalsOK'
  BY DEF LocalsOK, Leave, TypeInv, TypeOK
<1>. QED
  BY <1>1, <1>2, PufAssumption DEF Leave, TypeInv, TypeOK, PCs

(* So does a process that begins a call.                                   *)
LEMMA BeginTypes ==
  ASSUME TypeInv, NEW p \in Procs, NEW arguments \in Call, arguments.device \in Devices,
         NEW k \in 1..MaxEnrolments, NEW first \in {"enrol", "scan", "lockconsume"},
         first = "lockconsume" => arguments.challenge \in Challenges,
         cursor' = IF first = "scan" THEN [cursor EXCEPT ![p] = 1] ELSE cursor,
         Begin(p, arguments, k, first)
  PROVE  /\ pc' \in [Procs -> PCs] /\ LocalsOK'
         /\ call' \in [Procs -> Call]
         /\ loaded' \in [Procs -> 0..MaxEnrolments]
         /\ cursor' \in [Procs -> 0..BankSize]
         /\ calls' \in 0..MaxCalls
<1>. USE PufAssumption DEF Begin, Goto, TypeInv, TypeOK
<1>1. calls' \in 0..MaxCalls
  OBVIOUS
<1>2. /\ pc' = [pc EXCEPT ![p] = first] /\ pc' \in [Procs -> PCs]
      /\ call' = [call EXCEPT ![p] = arguments] /\ call' \in [Procs -> Call]
      /\ loaded' = [loaded EXCEPT ![p] = k] /\ loaded' \in [Procs -> 0..MaxEnrolments]
      /\ cursor' \in [Procs -> 0..BankSize]
  BY SMTT(60) DEF PCs
<1>3. LocalsOK'
  BY <1>2 DEF LocalsOK
<1>. QED  BY <1>1, <1>2, <1>3

LEMMA InitTypes == Init => TypeInv
<1>. SUFFICES ASSUME Init PROVE TypeInv
  OBVIOUS
<1>1. NoFile \in [lines : Seq(Line), tail : Tail_]
  BY DEF NoFile, Tail_
<1>2. TypeOK
  BY <1>1, PufAssumption DEF Init, TypeOK, NoCall, Call, PCs
<1>3. LocalsOK
  BY DEF Init, LocalsOK
<1>. QED  BY <1>2, <1>3 DEF TypeInv

LEMMA StepTypes == TypeInv /\ [Next]_vars => TypeInv'
<1>. SUFFICES ASSUME TypeInv, [Next]_vars PROVE TypeInv'
  OBVIOUS
<1>. USE PufAssumption
<1>. USE DEF TypeInv, files, locks, local, hist, bounds
<1>1. ASSUME NEW p \in Procs, NEW d \in Devices, NEW replace \in BOOLEAN, Enroll(p, d, replace)
      PROVE  TypeInv'
  <2>. DEFINE arguments == [NoCall EXCEPT !.device = d, !.flag = replace]
  <2>1. arguments \in Call /\ arguments.device \in Devices
    BY DEF NoCall, Call
  <2>2. enrolments' \in 1..MaxEnrolments /\ replacing' \subseteq 1..MaxEnrolments
    BY <1>1, SMTT(60) DEF Enroll, TypeOK
  <2>3. Begin(p, arguments, enrolments', "enrol")
    BY <1>1 DEF Enroll
  <2>4. UNCHANGED <<files, locks, cursor, now, handed, accepted, exhausted, faults>>
    BY <1>1 DEF Enroll
  <2>. HIDE DEF arguments
  <2>5. /\ pc' \in [Procs -> PCs] /\ LocalsOK' /\ call' \in [Procs -> Call]
        /\ loaded' \in [Procs -> 0..MaxEnrolments] /\ cursor' \in [Procs -> 0..BankSize]
        /\ calls' \in 0..MaxCalls
    BY <2>1, <2>2, <2>3, <2>4, BeginTypes
  <2>. QED
    BY <2>2, <2>4, <2>5, enrolments' \in 0..MaxEnrolments DEF TypeOK
<1>2. ASSUME NEW p \in Procs, NEW d \in Devices, IssueCall(p, d)
      PROVE  TypeInv'
  <2>. DEFINE arguments == [NoCall EXCEPT !.device = d]
  <2>1. arguments \in Call /\ arguments.device \in Devices
    BY DEF NoCall, Call
  <2>2. profile[d] \in 1..MaxEnrolments
    BY <1>2 DEF IssueCall, TypeOK
  <2>3. Begin(p, arguments, profile[d], "scan")
    BY <1>2 DEF IssueCall
  <2>. HIDE DEF arguments
  <2>. QED
    BY <1>2, <2>1, <2>2, <2>3, BeginTypes DEF IssueCall, TypeOK
<1>3. ASSUME NEW p \in Procs, NEW d \in Devices, NEW envelope \in handed,
             NEW matches \in BOOLEAN, Authenticate(p, d, envelope, matches)
      PROVE  TypeInv'
  <2>. DEFINE arguments == [device |-> d, challenge |-> envelope.challenge,
                            expires |-> envelope.expires, flag |-> matches]
  <2>1. arguments \in Call /\ arguments.device \in Devices /\ arguments.challenge \in Challenges
    BY DEF TypeOK, Envelope, Call
  <2>2. profile[d] \in 1..MaxEnrolments
    BY <1>3 DEF Authenticate, TypeOK
  <2>3. Begin(p, arguments, profile[d], "lockconsume")
    BY <1>3 DEF Authenticate
  <2>. HIDE DEF arguments
  <2>. QED
    BY <1>3, <2>1, <2>2, <2>3, BeginTypes DEF Authenticate, TypeOK
<1>4. ASSUME NEW p \in Procs, EnrolLock(p)
      PROVE  TypeInv'
  <2>1. TypeOK'
    BY <1>4 DEF EnrolLock, Goto, TypeOK, PCs
  <2>2. LocalsOK'
    BY <1>4 DEF EnrolLock, Goto, TypeOK, LocalsOK
  <2>. QED  BY <2>1, <2>2
<1>5. ASSUME NEW p \in Procs, SaveProfile(p)
      PROVE  TypeInv'
  BY <1>5, LeaveTypes DEF SaveProfile, TypeOK
<1>6. ASSUME NEW p \in Procs, Status(p)
      PROVE  TypeInv'
  <2>. DEFINE c == Template(loaded[p], cursor[p])
  <2>0. loaded[p] \in 1..MaxEnrolments /\ cursor[p] \in 1..BankSize
    BY <1>6 DEF Status, LocalsOK, TypeOK
  <2>1. c \in Challenges
    BY <2>0, TemplateType
  <2>. HIDE DEF c
  <2>2. CASE Readable /\ ~Issued(c)
    <3>1. /\ pc[p] = "scan" /\ pc' = [pc EXCEPT ![p] = "lockissue"]
          /\ call' = [call EXCEPT ![p].challenge = c, ![p].expires = now + TTL]
          /\ UNCHANGED <<files, locks, loaded, cursor, now, hist, bounds>>
      BY <1>6, <2>2, Zenon DEF Status, Goto, c
    <3>. DEFINE new == [call[p] EXCEPT !.challenge = c, !.expires = now + TTL]
    <3>2. new \in Call /\ new.device = call[p].device /\ new.challenge = c
      <4>1. call[p] \in Call /\ now + TTL \in Nat
        BY DEF TypeOK
      <4>. QED  BY <2>1, <4>1 DEF Call
    <3>3. call' = [call EXCEPT ![p] = new]
      BY <3>1 DEF TypeOK, Call
    <3>. HIDE DEF new
    <3>4. TypeOK'
      <4>1. pc' \in [Procs -> PCs]
        BY <3>1 DEF TypeOK, PCs
      <4>2. call' \in [Procs -> Call]
        BY <3>2, <3>3 DEF TypeOK
      <4>. QED  BY <3>1, <4>1, <4>2 DEF TypeOK
    <3>5. LocalsOK'
      BY <2>0, <2>1, <3>1, <3>2, <3>3 DEF TypeOK, LocalsOK
    <3>. QED  BY <3>4, <3>5
  <2>3. CASE Readable /\ Issued(c) /\ ~AtLast(p)
    <3>1. /\ cursor' = [cursor EXCEPT ![p] = @ + 1]
          /\ cursor[p] + 1 \in 1..BankSize
          /\ UNCHANGED <<files, locks, pc, call, loaded, now, hist, bounds>>
      BY <1>6, <2>0, <2>3 DEF Status, AtLast, c
    <3>2. TypeOK'
      BY <3>1, cursor' \in [Procs -> 0..BankSize] DEF TypeOK
    <3>3. LocalsOK'
      BY <3>1 DEF TypeOK, LocalsOK
    <3>. QED  BY <3>2, <3>3
  <2>4. CASE ~Readable \/ (Issued(c) /\ AtLast(p))
    <3>1. /\ Leave(p)
          /\ exhausted' \in {exhausted, exhausted \cup {loaded[p]}}
          /\ UNCHANGED <<files, now, handed, accepted, replacing, bounds>>
      BY <1>6, <2>4 DEF Status, c
    <3>. QED
      BY <2>0, <3>1, LeaveTypes DEF TypeOK
  <2>. QED  BY <2>2, <2>3, <2>4
<1>7. ASSUME NEW p \in Procs, LockLedger(p)
      PROVE  TypeInv'
  <2>1. TypeOK'
    BY <1>7 DEF LockLedger, Goto, TypeOK, PCs
  <2>2. LocalsOK'
    BY <1>7 DEF LockLedger, Goto, TypeOK, LocalsOK
  <2>. QED  BY <2>1, <2>2
<1>8. ASSUME NEW p \in Procs, Issue(p)
      PROVE  TypeInv'
  <2>1. Record("issued", call[p].challenge, call[p].device) \in Line
    BY <1>8 DEF Issue, Goto, TypeOK, LocalsOK, Line, Record
  <2>2. ledger' \in [lines : Seq(Line), tail : Tail_]
    BY <1>8, <2>1, LineTypes DEF Issue, AppendRecord, TypeOK
  <2>3. TypeOK'
    BY <1>8, <2>2 DEF Issue, AppendRecord, Goto, TypeOK, PCs
  <2>4. LocalsOK'
    BY <1>8 DEF Issue, Goto, TypeOK, LocalsOK
  <2>. QED  BY <2>3, <2>4
<1>9. ASSUME NEW p \in Procs, IssueReturn(p)
      PROVE  TypeInv'
  <2>1. [device |-> call[p].device, challenge |-> call[p].challenge, expires |-> call[p].expires]
          \in Envelope
    BY <1>9 DEF IssueReturn, TypeOK, LocalsOK, Call, Envelope
  <2>. QED
    BY <1>9, <2>1, LeaveTypes DEF IssueReturn, TypeOK
<1>10. ASSUME NEW p \in Procs, Consume(p)
       PROVE  TypeInv'
  <2>1. Record("consumed", call[p].challenge, call[p].device) \in Line
    BY <1>10 DEF Consume, Goto, TypeOK, LocalsOK, Line, Record
  <2>2. ledger' \in [lines : Seq(Line), tail : Tail_]
    BY <1>10, <2>1, LineTypes DEF Consume, AppendRecord, TypeOK
  <2>3. TypeOK'
    BY <1>10, <2>2 DEF Consume, AppendRecord, Goto, TypeOK, PCs
  <2>4. LocalsOK'
    BY <1>10 DEF Consume, Goto, TypeOK, LocalsOK
  <2>. QED  BY <2>3, <2>4
<1>11. ASSUME NEW p \in Procs, Refuse(p)
       PROVE  TypeInv'
  BY <1>11, LeaveTypes DEF Refuse, TypeOK
<1>12. ASSUME NEW p \in Procs, Verify(p)
       PROVE  TypeInv'
  <2>1. accepted' \in [Challenges -> Nat]
    <3>1. call[p].challenge \in Challenges
      BY <1>12 DEF Verify, LocalsOK
    <3>2. accepted[call[p].challenge] + 1 \in Nat
      BY <3>1 DEF TypeOK
    <3>. QED
      BY <1>12, <3>1, <3>2 DEF Verify, TypeOK
  <2>. QED
    BY <1>12, <2>1, LeaveTypes DEF Verify, TypeOK
<1>13. ASSUME NEW p \in Procs, ShortWrite(p)
       PROVE  TypeInv'
  <2>1. PICK action \in {"issued", "consumed"}, left \in ShortWrites :
          /\ pc[p] \in {"issue", "consume"}
          /\ ledger' = WritePart(Opened(ledger),
                                 Record(action, call[p].challenge, call[p].device), left)
    BY <1>13 DEF ShortWrite
  <2>2. Record(action, call[p].challenge, call[p].device) \in Line
    BY <2>1 DEF TypeOK, LocalsOK, Line, Record
  <2>3. ledger' \in [lines : Seq(Line), tail : Tail_]
    BY <2>1, <2>2, LineTypes DEF TypeOK
  <2>4. /\ Leave(p) /\ faults < MaxFaults /\ faults' = faults + 1
        /\ UNCHANGED <<profile, now, hist, enrolments, calls>>
    BY <1>13 DEF ShortWrite
  <2>5. faults' \in 0..MaxFaults
    BY <2>4, PufAssumption DEF TypeInv, TypeOK
  <2>. QED
    BY <2>3, <2>4, <2>5, LeaveTypes DEF TypeInv, TypeOK, hist
<1>14. ASSUME NEW p \in Procs, Die(p)
       PROVE  TypeInv'
  <2>1. faults' \in 0..MaxFaults
    BY <1>14 DEF Die, TypeOK
  <2>. QED
    BY <1>14, <2>1, LeaveTypes DEF Die, TypeOK
<1>15. CASE Tick
  BY <1>15, SMTT(60) DEF Tick, TypeOK, LocalsOK
<1>16. CASE UNCHANGED vars
  BY <1>16 DEF vars, TypeOK, LocalsOK
<1>. QED
  BY <1>1, <1>2, <1>3, <1>4, <1>5, <1>6, <1>7, <1>8, <1>9, <1>10, <1>11, <1>12, <1>13,
     <1>14, <1>15, <1>16 DEF Next, Step

(* Every variable of the PUF model always holds a value of its kind.       *)
THEOREM PufTypes == Spec => []TypeOK
<1>1. Spec => []TypeInv
  BY InitTypes, StepTypes, PTL DEF Spec
<1>2. TypeInv => TypeOK
  BY DEF TypeInv
<1>. QED  BY <1>1, <1>2, PTL

-----------------------------------------------------------------------------
(* What a record appended to the ledger does to it                         *)

LEMMA AppendRecorded ==
  ASSUME NEW lines \in Seq(Line), NEW r \in Line
  PROVE  Recorded(Append(lines, r)) = Recorded(lines) \cup {r}
<1>1. /\ Len(Append(lines, r)) = Len(lines) + 1 /\ Len(lines) \in Nat
      /\ \A i \in 1..Len(lines) : Append(lines, r)[i] = lines[i]
      /\ Append(lines, r)[Len(lines) + 1] = r
  OBVIOUS
<1>2. 1..(Len(lines) + 1) = 1..Len(lines) \cup {Len(lines) + 1}
  BY <1>1
<1>. QED  BY <1>1, <1>2 DEF Recorded

(* A challenge not issued yet may be issued: the ledger stays readable.    *)
LEMMA IssueLegal ==
  ASSUME NEW lines \in Seq(Line), Legal(lines), NEW c \in Challenges, NEW d \in Devices,
         \A e \in Devices : Record("issued", c, e) \notin Recorded(lines)
  PROVE  Legal(Append(lines, Record("issued", c, d)))
<1>. DEFINE r == Record("issued", c, d)  more == Append(lines, r)
<1>1. /\ Len(more) = Len(lines) + 1 /\ Len(lines) \in Nat
      /\ \A i \in 1..Len(lines) : more[i] = lines[i]
      /\ more[Len(lines) + 1] = r
  OBVIOUS
<1>2. ASSUME NEW i \in 1..Len(lines), lines[i].challenge = c
      PROVE  lines[i].action # "issued"
  <2>1. lines[i] \in Line /\ lines[i] \in Recorded(lines)
    BY DEF Recorded
  <2>2. lines[i] = Record(lines[i].action, lines[i].challenge, lines[i].device)
    BY <2>1 DEF Line, Record
  <2>. QED  BY <1>2, <2>1, <2>2 DEF Line
<1>. HIDE DEF more
<1>. SUFFICES ASSUME NEW j \in 1..Len(more)
              PROVE  /\ \A i \in 1..j-1 : more[i].challenge = more[j].challenge =>
                                            more[i].action # more[j].action
                     /\ more[j].action = "consumed" =>
                          \E i \in 1..j-1 : /\ more[i].challenge = more[j].challenge
                                            /\ more[i].action = "issued"
  BY DEF Legal, more
<1>3. CASE j \in 1..Len(lines)
  BY <1>1, <1>3 DEF Legal
<1>4. CASE j = Len(lines) + 1
  BY <1>1, <1>2, <1>4 DEF Record
<1>. QED  BY <1>1, <1>3, <1>4

(* So may an issued one that was not consumed be consumed.                 *)
LEMMA ConsumeLegal ==
  ASSUME NEW lines \in Seq(Line), Legal(lines), NEW c \in Challenges, NEW d \in Devices,
         Record("issued", c, d) \in Recorded(lines),
         \A e \in Devices : Record("consumed", c, e) \notin Recorded(lines)
  PROVE  Legal(Append(lines, Record("consumed", c, d)))
<1>. DEFINE r == Record("consumed", c, d)  more == Append(lines, r)
<1>1. /\ Len(more) = Len(lines) + 1 /\ Len(lines) \in Nat
      /\ \A i \in 1..Len(lines) : more[i] = lines[i]
      /\ more[Len(lines) + 1] = r
  OBVIOUS
<1>2. ASSUME NEW i \in 1..Len(lines), lines[i].challenge = c
      PROVE  lines[i].action # "consumed"
  <2>1. lines[i] \in Line /\ lines[i] \in Recorded(lines)
    BY DEF Recorded
  <2>2. lines[i] = Record(lines[i].action, lines[i].challenge, lines[i].device)
    BY <2>1 DEF Line, Record
  <2>. QED  BY <1>2, <2>1, <2>2 DEF Line
<1>3. PICK k \in 1..Len(lines) : lines[k].challenge = c /\ lines[k].action = "issued"
  BY DEF Recorded, Record
<1>. HIDE DEF more
<1>. SUFFICES ASSUME NEW j \in 1..Len(more)
              PROVE  /\ \A i \in 1..j-1 : more[i].challenge = more[j].challenge =>
                                            more[i].action # more[j].action
                     /\ more[j].action = "consumed" =>
                          \E i \in 1..j-1 : /\ more[i].challenge = more[j].challenge
                                            /\ more[i].action = "issued"
  BY DEF Legal, more
<1>4. CASE j \in 1..Len(lines)
  BY <1>1, <1>4 DEF Legal
<1>5. CASE j = Len(lines) + 1
  <2>1. more[k].challenge = c /\ more[k].action = "issued" /\ k \in 1..j-1
    BY <1>1, <1>3, <1>5
  <2>. QED  BY <1>1, <1>2, <1>5, <2>1 DEF Record
<1>. QED  BY <1>1, <1>4, <1>5

(* A readable ledger issued a challenge to one device.                     *)
LEMMA OneDevice ==
  ASSUME TypeInv, LedgerLegal, NEW c \in Challenges, NEW d \in Devices, NEW e \in Devices,
         OnLedger("issued", c, d), OnLedger("issued", c, e)
  PROVE  d = e
<1>1. PICK i \in 1..Len(ledger.lines), j \in 1..Len(ledger.lines) :
        ledger.lines[i] = Record("issued", c, d) /\ ledger.lines[j] = Record("issued", c, e)
  BY DEF OnLedger, Recorded
<1>2. i = j
  <2>1. Len(ledger.lines) \in Nat
    BY DEF TypeInv, TypeOK
  <2>2. i \in 1..j-1 \/ j \in 1..i-1 \/ i = j
    BY <2>1
  <2>. QED  BY <1>1, <2>2 DEF LedgerLegal, Legal, Record
<1>. QED  BY <1>1, <1>2 DEF Record

(* A consumed challenge was issued.                                        *)
LEMMA ConsumedIssued ==
  ASSUME TypeInv, LedgerLegal, NEW c \in Challenges, Consumed(c)
  PROVE  Issued(c)
<1>1. PICK j \in 1..Len(ledger.lines) : ledger.lines[j].challenge = c /\ ledger.lines[j].action = "consumed"
  BY DEF Consumed, Recorded, Record
<1>2. PICK i \in 1..j-1 : ledger.lines[i].challenge = c /\ ledger.lines[i].action = "issued"
  BY <1>1 DEF LedgerLegal, Legal
<1>3. i \in 1..Len(ledger.lines) /\ ledger.lines[i] \in Line
  BY DEF TypeInv, TypeOK
<1>4. ledger.lines[i] = Record("issued", c, ledger.lines[i].device)
  BY <1>2, <1>3 DEF Line, Record
<1>. QED  BY <1>3, <1>4 DEF Issued, Recorded, Line

(* The process about to extend the ledger may find it readable and lawful. *)
MayIssue(p) == pc[p] = "issue" /\ Readable /\ ~Issued(call[p].challenge)
MayAppend(p, action) == \/ action = "issued" /\ MayIssue(p)
                        \/ action = "consumed" /\ pc[p] = "consume" /\ MayConsume(p)

(* Whole or cut short, a write keeps the records that were there and       *)
(* leaves a ledger on which nothing happened twice.                        *)
LEMMA WriteEffect ==
  ASSUME TypeInv, AbsentEmpty, NEW p \in Procs, NEW action \in {"issued", "consumed"},
         MayAppend(p, action), NEW left \in {"fragment", "unterminated"},
         LET r == Record(action, call[p].challenge, call[p].device)
         IN  \/ ledger' = WriteLine(Opened(ledger), r)
             \/ ledger' = WritePart(Opened(ledger), r, left)
  PROVE  LET r == Record(action, call[p].challenge, call[p].device)
         IN  /\ AbsentEmpty' /\ LedgerLegal'
             /\ Recorded(ledger'.lines) \in {Recorded(ledger.lines), Recorded(ledger.lines) \cup {r}}
             /\ ledger' = WriteLine(Opened(ledger), r) =>
                  Recorded(ledger'.lines) = Recorded(ledger.lines) \cup {r}
<1>. DEFINE r == Record(action, call[p].challenge, call[p].device)
<1>1. ledger.lines \in Seq(Line)
  BY DEF TypeInv, TypeOK
<1>2. call[p].challenge \in Challenges /\ call[p].device \in Devices
  BY DEF TypeInv, LocalsOK, MayAppend, MayIssue
<1>3. r \in Line
  BY <1>2 DEF Record, Line
<1>4. Opened(ledger).lines = ledger.lines
  BY DEF Opened, EmptyFile, AbsentEmpty
<1>5. Legal(Append(ledger.lines, r)) /\ Legal(ledger.lines)
  <2>1. CASE action = "issued"
    BY <1>1, <1>2, <2>1, IssueLegal DEF MayAppend, MayIssue, Readable, Issued
  <2>2. CASE action = "consumed"
    BY <1>1, <1>2, <2>2, ConsumeLegal DEF MayAppend, MayConsume, Readable, Consumed
  <2>. QED  BY <2>1, <2>2
<1>6. Recorded(Append(ledger.lines, r)) = Recorded(ledger.lines) \cup {r}
  BY <1>1, <1>3, AppendRecorded
<1>. HIDE DEF r
<1>7. CASE ledger' = WriteLine(Opened(ledger), r)
  <2>1. ledger'.lines = Append(ledger.lines, r) /\ ledger'.tail # "absent"
    BY <1>4, <1>7 DEF WriteLine
  <2>. QED  BY <1>5, <1>6, <2>1 DEF LedgerLegal, AbsentEmpty, r
<1>8. CASE ledger' = WritePart(Opened(ledger), r, left) /\ ledger' # WriteLine(Opened(ledger), r)
  <2>1. /\ ledger'.lines \in {ledger.lines, Append(ledger.lines, r)}
        /\ ledger'.tail # "absent"
    BY <1>4, <1>8 DEF WritePart, Opened, EmptyFile
  <2>. QED  BY <1>5, <1>6, <1>8, <2>1 DEF LedgerLegal, AbsentEmpty, r
<1>. QED  BY <1>7, <1>8 DEF r

-----------------------------------------------------------------------------
(* The inductive invariant                                                 *)

(* One process moves, the ledger keeps its records, and nothing is handed, *)
(* accepted or reported exhausted: what the invariant says of the others   *)
(* still holds, and what it says of the mover is left to show.             *)
LEMMA MoveKeeps ==
  ASSUME IInv, TypeInv', AbsentEmpty', LedgerLegal', NEW p \in Procs,
         Recorded(ledger.lines) \subseteq Recorded(ledger'.lines),
         UNCHANGED <<handed, accepted, exhausted>>, replacing \subseteq replacing',
         \A q \in Procs \ {p} : /\ pc'[q] = pc[q] /\ call'[q] = call[q]
                                /\ loaded'[q] = loaded[q] /\ cursor'[q] = cursor[q]
                                /\ ledgerLock' = q <=> ledgerLock = q,
         ledgerLock' = p <=> pc'[p] \in {"issue", "consume"},
         pc'[p] = "scan" =>
           \A i \in 1..BankSize : i < cursor'[p] => Issued(Template(loaded'[p], i)),
         pc'[p] = "issued" =>
           /\ OnLedger("issued", call[p].challenge, call[p].device)'
           /\ call' = call /\ ~Issued(call[p].challenge),
         pc'[p] \in {"lockconsume", "consume", "verify"} =>
           \E e \in handed : e.challenge = call'[p].challenge /\ e.expires = call'[p].expires,
         pc'[p] = "verify" =>
           /\ OnLedger("issued", call[p].challenge, call[p].device)'
           /\ OnLedger("consumed", call[p].challenge, call[p].device)'
           /\ call' = call /\ ~Consumed(call[p].challenge),
         pc'[p] \in {"enrol", "save"} /\ call'[p].flag => loaded'[p] \in replacing'
  PROVE  IInv'
<1>. USE DEF IInv
<1>1. /\ \A action \in {"issued", "consumed"}, c \in Challenges, d \in Devices :
           OnLedger(action, c, d) => OnLedger(action, c, d)'
      /\ \A c \in Challenges : Issued(c) => Issued(c)'
      /\ \A c \in Challenges : Consumed(c) => Consumed(c)'
  BY DEF OnLedger, Issued, Consumed
<1>2. LockHeld'
  BY DEF LockHeld
<1>3. HandedRecorded'
  <2>1. \A e \in handed : e.challenge \in Challenges /\ e.device \in Devices
    BY DEF TypeInv, TypeOK, Envelope
  <2>. QED  BY <1>1, <2>1 DEF HandedRecorded
<1>4. PendingAlone'
  <2>1. ASSUME NEW q \in Procs, pc'[q] = "issued"
        PROVE  OnLedger("issued", call[q].challenge, call[q].device)' /\ call'[q] = call[q]
    <3>1. CASE q = p
      BY <2>1, <3>1
    <3>2. CASE q # p
      BY <1>1, <2>1, <3>2 DEF PendingAlone, TypeInv, LocalsOK
    <3>. QED  BY <3>1, <3>2
  <2>2. ASSUME pc'[p] = "issued", NEW e \in handed
        PROVE  e.challenge # call[p].challenge
    BY <2>2 DEF HandedRecorded, OnLedger, Issued, TypeInv, TypeOK, Envelope
  <2>3. ASSUME pc'[p] = "issued", NEW q \in Procs \ {p}, pc[q] = "issued"
        PROVE  call[q].challenge # call[p].challenge
    BY <2>3 DEF PendingAlone, OnLedger, Issued, TypeInv, LocalsOK
  <2>. QED  BY <2>1, <2>2, <2>3 DEF PendingAlone
<1>5. EnvelopeHeld'
  BY DEF EnvelopeHeld
<1>6. VerifierAlone'
  <2>1. ASSUME NEW q \in Procs, pc'[q] = "verify"
        PROVE  /\ OnLedger("issued", call[q].challenge, call[q].device)'
               /\ OnLedger("consumed", call[q].challenge, call[q].device)'
               /\ call'[q] = call[q]
    <3>1. CASE q = p
      BY <2>1, <3>1
    <3>2. CASE q # p
      BY <1>1, <2>1, <3>2 DEF VerifierAlone, TypeInv, LocalsOK
    <3>. QED  BY <3>1, <3>2
  <2>2. ASSUME pc'[p] = "verify"
        PROVE  accepted[call[p].challenge] = 0
    <3>1. call[p].challenge \in Challenges
      BY <2>2 DEF TypeInv, LocalsOK
    <3>. QED  BY <2>2, <3>1 DEF AcceptedConsumed
  <2>3. ASSUME pc'[p] = "verify", NEW q \in Procs \ {p}, pc[q] = "verify"
        PROVE  call[q].challenge # call[p].challenge
    BY <2>3 DEF VerifierAlone, OnLedger, Consumed, TypeInv, LocalsOK
  <2>. QED  BY <2>1, <2>2, <2>3 DEF VerifierAlone
<1>7. AcceptedConsumed' /\ AcceptedOnce' /\ HandedOnce'
  BY <1>1 DEF AcceptedConsumed, AcceptedOnce, HandedOnce
<1>8. PassedIssued'
  <2>1. ASSUME NEW q \in Procs, pc'[q] = "scan", NEW i \in 1..BankSize, i < cursor'[q]
        PROVE  Issued(Template(loaded[q], i))'
    <3>1. loaded'[q] \in 1..MaxEnrolments
      BY <2>1, PufAssumption, SMTT(60) DEF TypeInv, TypeOK, LocalsOK
    <3>2. Template(loaded'[q], i) \in Challenges
      BY <3>1, TemplateType
    <3>3. Issued(Template(loaded'[q], i))
      BY <2>1 DEF PassedIssued
    <3>4. Issued(Template(loaded'[q], i)) => \E d \in Devices :
             Record("issued", Template(loaded'[q], i), d) \in Recorded(ledger'.lines)
      BY DEF Issued
    <3>. QED  BY <3>3, <3>4 DEF Issued, Template
  <2>. QED  BY <2>1 DEF PassedIssued
<1>9. ExhaustedTruly'
  BY DEF ExhaustedTruly, Issued
<1>10. ReplaceAsked'
  BY DEF ReplaceAsked
<1>. QED
  BY <1>2, <1>3, <1>4, <1>5, <1>6, <1>7, <1>8, <1>9, <1>10

(* The same for a process that leaves its call.                            *)
LEMMA LeaveKeeps ==
  ASSUME IInv, TypeInv', AbsentEmpty', LedgerLegal', NEW p \in Procs, Leave(p),
         Recorded(ledger.lines) \subseteq Recorded(ledger'.lines),
         UNCHANGED <<handed, accepted, exhausted, replacing>>
  PROVE  IInv'
<1>1. pc'[p] = "idle"
  BY DEF Leave, IInv, TypeInv, TypeOK
<1>2. \A q \in Procs \ {p} : /\ pc'[q] = pc[q] /\ call'[q] = call[q]
                             /\ loaded'[q] = loaded[q] /\ cursor'[q] = cursor[q]
                             /\ ledgerLock' = q <=> ledgerLock = q
  BY PufAssumption DEF Leave, IInv, TypeInv, TypeOK
<1>3. ledgerLock' # p
  BY PufAssumption DEF Leave
<1>. QED
  BY <1>1, <1>2, <1>3, MoveKeeps

LEMMA InitInv == Init => IInv
<1>. SUFFICES ASSUME Init PROVE IInv
  OBVIOUS
<1>1. TypeInv
  BY InitTypes
<1>2. AbsentEmpty /\ LedgerLegal
  BY DEF Init, NoFile, AbsentEmpty, LedgerLegal, Legal
<1>3. LockHeld /\ HandedRecorded /\ PendingAlone /\ HandedOnce
  BY PufAssumption DEF Init, LockHeld, HandedRecorded, PendingAlone, HandedOnce
<1>4. EnvelopeHeld /\ VerifierAlone /\ AcceptedConsumed /\ AcceptedOnce
  BY DEF Init, EnvelopeHeld, VerifierAlone, AcceptedConsumed, AcceptedOnce
<1>5. PassedIssued /\ ExhaustedTruly /\ ReplaceAsked
  BY DEF Init, PassedIssued, ExhaustedTruly, ReplaceAsked
<1>. QED  BY <1>1, <1>2, <1>3, <1>4, <1>5 DEF IInv

LEMMA StepInv == IInv /\ [Next]_vars => IInv'
<1>. SUFFICES ASSUME IInv, [Next]_vars PROVE IInv'
  OBVIOUS
<1>0. TypeInv'
  BY StepTypes DEF IInv
<1>. USE PufAssumption
<1>. USE DEF files, locks, local, hist, bounds
<1>a. ledger' = ledger => /\ AbsentEmpty' /\ LedgerLegal'
                          /\ Recorded(ledger.lines) \subseteq Recorded(ledger'.lines)
  BY DEF IInv, AbsentEmpty, LedgerLegal
<1>1. ASSUME NEW p \in Procs, NEW d \in Devices, NEW replace \in BOOLEAN, Enroll(p, d, replace)
      PROVE  IInv'
  <2>1. /\ pc[p] = "idle" /\ pc'[p] = "enrol" /\ call'[p].flag = replace /\ loaded'[p] = enrolments'
        /\ replace => enrolments' \in replacing'
        /\ UNCHANGED <<ledger, ledgerLock, handed, accepted, exhausted>>
        /\ replacing \subseteq replacing'
    BY <1>1 DEF Enroll, Begin, Goto, NoCall, IInv, TypeInv, TypeOK
  <2>2. \A q \in Procs \ {p} : /\ pc'[q] = pc[q] /\ call'[q] = call[q]
                               /\ loaded'[q] = loaded[q] /\ cursor'[q] = cursor[q]
    BY <1>1 DEF Enroll, Begin, Goto, IInv, TypeInv, TypeOK
  <2>. QED
    BY <1>0, <1>a, <2>1, <2>2, MoveKeeps DEF IInv, LockHeld
<1>2. ASSUME NEW p \in Procs, NEW d \in Devices, IssueCall(p, d)
      PROVE  IInv'
  <2>1. /\ pc[p] = "idle" /\ pc'[p] = "scan" /\ cursor'[p] = 1
        /\ UNCHANGED <<ledger, ledgerLock, handed, accepted, exhausted, replacing>>
    BY <1>2 DEF IssueCall, Begin, Goto, IInv, TypeInv, TypeOK
  <2>2. \A q \in Procs \ {p} : /\ pc'[q] = pc[q] /\ call'[q] = call[q]
                               /\ loaded'[q] = loaded[q] /\ cursor'[q] = cursor[q]
    BY <1>2 DEF IssueCall, Begin, Goto, IInv, TypeInv, TypeOK
  <2>. QED
    BY <1>0, <1>a, <2>1, <2>2, MoveKeeps DEF IInv, LockHeld
<1>3. ASSUME NEW p \in Procs, NEW d \in Devices, NEW envelope \in handed,
             NEW matches \in BOOLEAN, Authenticate(p, d, envelope, matches)
      PROVE  IInv'
  <2>1. /\ pc[p] = "idle" /\ pc'[p] = "lockconsume"
        /\ call'[p].challenge = envelope.challenge /\ call'[p].expires = envelope.expires
        /\ UNCHANGED <<ledger, ledgerLock, handed, accepted, exhausted, replacing>>
    BY <1>3 DEF Authenticate, Begin, Goto, IInv, TypeInv, TypeOK
  <2>2. \A q \in Procs \ {p} : /\ pc'[q] = pc[q] /\ call'[q] = call[q]
                               /\ loaded'[q] = loaded[q] /\ cursor'[q] = cursor[q]
    BY <1>3 DEF Authenticate, Begin, Goto, IInv, TypeInv, TypeOK
  <2>. QED
    BY <1>0, <1>a, <2>1, <2>2, MoveKeeps DEF IInv, LockHeld
<1>4. ASSUME NEW p \in Procs, EnrolLock(p)
      PROVE  IInv'
  <2>1. /\ pc[p] = "enrol" /\ pc'[p] = "save"
        /\ UNCHANGED <<ledger, ledgerLock, call, loaded, cursor, handed, accepted, exhausted, replacing>>
        /\ \A q \in Procs \ {p} : pc'[q] = pc[q]
    BY <1>4 DEF EnrolLock, Goto, IInv, TypeInv, TypeOK
  <2>. QED
    BY <1>0, <1>a, <2>1, MoveKeeps DEF IInv, LockHeld, ReplaceAsked
<1>5. ASSUME NEW p \in Procs, SaveProfile(p)
      PROVE  IInv'
  BY <1>0, <1>5, <1>a, LeaveKeeps DEF SaveProfile
<1>6. ASSUME NEW p \in Procs, Status(p)
      PROVE  IInv'
  <2>. DEFINE c == Template(loaded[p], cursor[p])
  <2>0. /\ pc[p] = "scan" /\ UNCHANGED <<ledger, handed, accepted, replacing>>
        /\ loaded[p] \in 1..MaxEnrolments /\ cursor[p] \in 1..BankSize
    BY <1>6 DEF Status, IInv, TypeInv, TypeOK, LocalsOK
  <2>1. \A i \in 1..BankSize : i < cursor[p] => Issued(Template(loaded[p], i))
    BY <2>0 DEF IInv, PassedIssued
  <2>2. CASE Readable /\ ~Issued(c)
    <3>1. /\ pc' = [pc EXCEPT ![p] = "lockissue"]
          /\ call' = [call EXCEPT ![p].challenge = c, ![p].expires = now + TTL]
          /\ UNCHANGED <<ledgerLock, loaded, cursor, exhausted>>
      BY <1>6, <2>2, Zenon DEF Status, Goto, c
    <3>2. pc'[p] = "lockissue" /\ \A q \in Procs \ {p} : pc'[q] = pc[q] /\ call'[q] = call[q]
      BY <3>1 DEF IInv, TypeInv, TypeOK
    <3>. QED
      BY <1>0, <1>a, <2>0, <3>1, <3>2, MoveKeeps, ZenonT(60) DEF IInv, LockHeld
  <2>3. CASE Readable /\ Issued(c) /\ ~AtLast(p)
    <3>1. /\ cursor' = [cursor EXCEPT ![p] = @ + 1]
          /\ UNCHANGED <<pc, call, ledgerLock, loaded, exhausted>>
      BY <1>6, <2>3 DEF Status, c
    <3>2. cursor'[p] = cursor[p] + 1 /\ \A q \in Procs \ {p} : cursor'[q] = cursor[q]
      BY <3>1 DEF IInv, TypeInv, TypeOK
    <3>3. \A i \in 1..BankSize : i < cursor'[p] => Issued(Template(loaded[p], i))
      BY <2>0, <2>1, <2>3, <3>2
    <3>. QED
      BY <1>0, <1>a, <2>0, <3>1, <3>2, <3>3, MoveKeeps DEF IInv, LockHeld
  <2>4. CASE Readable /\ Issued(c) /\ AtLast(p)
    <3>1. exhausted' = exhausted \cup {loaded[p]} /\ Leave(p)
      BY <1>6, <2>4 DEF Status, c
    <3>2. \A i \in 1..BankSize : Issued(Template(loaded[p], i))
      BY <2>0, <2>1, <2>4 DEF AtLast
    <3>3. ExhaustedTruly'
      BY <2>0, <3>1, <3>2 DEF IInv, ExhaustedTruly, Issued, Bank
    <3>4. LockHeld'
      BY <3>1 DEF IInv, TypeInv, TypeOK, LockHeld, Leave
    <3>5. HandedRecorded' /\ HandedOnce' /\ AcceptedConsumed' /\ AcceptedOnce'
      BY <2>0 DEF IInv, HandedRecorded, HandedOnce, AcceptedConsumed, AcceptedOnce, OnLedger, Consumed
    <3>6. PendingAlone'
      BY <2>0, <3>1 DEF IInv, PendingAlone, Leave, TypeInv, TypeOK, OnLedger
    <3>7. EnvelopeHeld' /\ ReplaceAsked'
      BY <2>0, <3>1 DEF IInv, EnvelopeHeld, ReplaceAsked, Leave, TypeInv, TypeOK
    <3>8. VerifierAlone'
      BY <2>0, <3>1 DEF IInv, VerifierAlone, Leave, TypeInv, TypeOK, OnLedger
    <3>9. PassedIssued'
      BY <2>0, <3>1 DEF IInv, PassedIssued, Leave, TypeInv, TypeOK, Issued, Template
    <3>. QED
      BY <1>0, <1>a, <2>0, <3>3, <3>4, <3>5, <3>6, <3>7, <3>8, <3>9 DEF IInv
  <2>5. CASE ~Readable
    BY <1>0, <1>6, <1>a, <2>0, <2>5, LeaveKeeps DEF Status
  <2>. QED  BY <2>2, <2>3, <2>4, <2>5
<1>7. ASSUME NEW p \in Procs, LockLedger(p)
      PROVE  IInv'
  <2>1. /\ \/ pc[p] = "lockissue" /\ pc'[p] = "issue"
           \/ pc[p] = "lockconsume" /\ pc'[p] = "consume"
        /\ ledgerLock = NONE /\ ledgerLock' = p
        /\ UNCHANGED <<ledger, call, loaded, cursor, handed, accepted, exhausted, replacing>>
        /\ \A q \in Procs \ {p} : pc'[q] = pc[q]
    BY <1>7 DEF LockLedger, Goto, IInv, TypeInv, TypeOK
  <2>. QED
    BY <1>0, <1>a, <2>1, MoveKeeps DEF IInv, EnvelopeHeld
<1>8. ASSUME NEW p \in Procs, Issue(p)
      PROVE  IInv'
  <2>. DEFINE r == Record("issued", call[p].challenge, call[p].device)
  <2>1. /\ pc[p] = "issue" /\ pc'[p] = "issued" /\ \A q \in Procs \ {p} : pc'[q] = pc[q]
        /\ Readable /\ ~Issued(call[p].challenge)
        /\ ledger' = WriteLine(Opened(ledger), r) /\ ledgerLock' = NONE
        /\ UNCHANGED <<call, loaded, cursor, handed, accepted, exhausted, replacing>>
    BY <1>8 DEF Issue, AppendRecord, Goto, IInv, TypeInv, TypeOK
  <2>2. /\ AbsentEmpty' /\ LedgerLegal'
        /\ Recorded(ledger'.lines) = Recorded(ledger.lines) \cup {r}
    BY <2>1, WriteEffect DEF IInv, MayAppend, MayIssue
  <2>3. ledgerLock = p
    BY <2>1 DEF IInv, LockHeld
  <2>. QED
    BY <1>0, <2>1, <2>2, <2>3, MoveKeeps DEF OnLedger
<1>9. ASSUME NEW p \in Procs, IssueReturn(p)
      PROVE  IInv'
  <2>. DEFINE new == [device |-> call[p].device, challenge |-> call[p].challenge,
                      expires |-> call[p].expires]
  <2>1. /\ pc[p] = "issued" /\ handed' = handed \cup {new} /\ Leave(p)
        /\ UNCHANGED <<ledger, accepted, exhausted, replacing>>
    BY <1>9 DEF IssueReturn
  <2>2. /\ OnLedger("issued", call[p].challenge, call[p].device)
        /\ \A e \in handed : e.challenge # call[p].challenge
        /\ \A q \in Procs \ {p} : pc[q] = "issued" => call[q].challenge # call[p].challenge
    BY <2>1 DEF IInv, PendingAlone
  <2>3. LockHeld'
    BY <2>1 DEF IInv, TypeInv, TypeOK, LockHeld, Leave
  <2>4. HandedRecorded' /\ HandedOnce'
    BY <2>1, <2>2 DEF IInv, HandedRecorded, HandedOnce, OnLedger
  <2>5. PendingAlone'
    BY <2>1, <2>2 DEF IInv, PendingAlone, Leave, TypeInv, TypeOK, OnLedger
  <2>6. EnvelopeHeld' /\ ReplaceAsked'
    BY <2>1 DEF IInv, EnvelopeHeld, ReplaceAsked, Leave, TypeInv, TypeOK
  <2>7. VerifierAlone'
    BY <2>1 DEF IInv, VerifierAlone, Leave, TypeInv, TypeOK, OnLedger
  <2>8. AcceptedConsumed' /\ AcceptedOnce' /\ ExhaustedTruly'
    BY <2>1 DEF IInv, AcceptedConsumed, AcceptedOnce, ExhaustedTruly, Consumed, Issued
  <2>9. PassedIssued'
    BY <2>1 DEF IInv, PassedIssued, Leave, TypeInv, TypeOK, Issued, Template
  <2>. QED
    BY <1>0, <1>a, <2>1, <2>3, <2>4, <2>5, <2>6, <2>7, <2>8, <2>9 DEF IInv
<1>10. ASSUME NEW p \in Procs, Consume(p)
       PROVE  IInv'
  <2>. DEFINE r == Record("consumed", call[p].challenge, call[p].device)
  <2>1. /\ pc[p] = "consume" /\ pc'[p] = "verify" /\ \A q \in Procs \ {p} : pc'[q] = pc[q]
        /\ MayConsume(p)
        /\ ledger' = WriteLine(Opened(ledger), r) /\ ledgerLock' = NONE
        /\ UNCHANGED <<call, loaded, cursor, handed, accepted, exhausted, replacing>>
    BY <1>10 DEF Consume, AppendRecord, Goto, IInv, TypeInv, TypeOK
  <2>2. /\ AbsentEmpty' /\ LedgerLegal'
        /\ Recorded(ledger'.lines) = Recorded(ledger.lines) \cup {r}
    BY <2>1, WriteEffect DEF IInv, MayAppend
  <2>3. ledgerLock = p
    BY <2>1 DEF IInv, LockHeld
  <2>4. \E e \in handed : e.challenge = call[p].challenge /\ e.expires = call[p].expires
    BY <2>1 DEF IInv, EnvelopeHeld
  <2>. QED
    BY <1>0, <2>1, <2>2, <2>3, <2>4, MoveKeeps DEF OnLedger, MayConsume
<1>11. ASSUME NEW p \in Procs, Refuse(p)
       PROVE  IInv'
  BY <1>0, <1>11, <1>a, LeaveKeeps DEF Refuse
<1>12. ASSUME NEW p \in Procs, Verify(p)
       PROVE  IInv'
  <2>. DEFINE c == call[p].challenge
  <2>1. /\ pc[p] = "verify" /\ Leave(p)
        /\ UNCHANGED <<ledger, handed, exhausted, replacing>>
        /\ accepted' \in {accepted, [accepted EXCEPT ![c] = @ + 1]}
    BY <1>12 DEF Verify
  <2>2. /\ c \in Challenges /\ call[p].device \in Devices /\ accepted[c] = 0
        /\ OnLedger("consumed", c, call[p].device)
        /\ \A q \in Procs \ {p} : pc[q] = "verify" => call[q].challenge # c
    BY <2>1 DEF IInv, VerifierAlone, TypeInv, LocalsOK
  <2>3. \A b \in Challenges : /\ accepted'[b] \in {accepted[b], 1}
                              /\ b # c => accepted'[b] = accepted[b]
    BY <2>1, <2>2, SMTT(60) DEF IInv, TypeInv, TypeOK
  <2>. HIDE DEF c
  <2>4. LockHeld'
    BY <2>1 DEF IInv, TypeInv, TypeOK, LockHeld, Leave
  <2>5. HandedRecorded' /\ HandedOnce' /\ ExhaustedTruly'
    BY <2>1 DEF IInv, HandedRecorded, HandedOnce, ExhaustedTruly, OnLedger, Issued
  <2>6. PendingAlone'
    BY <2>1 DEF IInv, PendingAlone, Leave, TypeInv, TypeOK, OnLedger
  <2>7. EnvelopeHeld' /\ ReplaceAsked'
    BY <2>1 DEF IInv, EnvelopeHeld, ReplaceAsked, Leave, TypeInv, TypeOK
  <2>8. VerifierAlone'
    BY <2>1, <2>2, <2>3 DEF IInv, VerifierAlone, Leave, TypeInv, TypeOK, LocalsOK, OnLedger, c
  <2>9. AcceptedConsumed' /\ AcceptedOnce'
    BY <2>1, <2>2, <2>3 DEF IInv, AcceptedConsumed, AcceptedOnce, Consumed, OnLedger
  <2>10. PassedIssued'
    BY <2>1 DEF IInv, PassedIssued, Leave, TypeInv, TypeOK, Issued, Template
  <2>. QED
    BY <1>0, <1>a, <2>1, <2>4, <2>5, <2>6, <2>7, <2>8, <2>9, <2>10 DEF IInv
<1>13. ASSUME NEW p \in Procs, ShortWrite(p)
       PROVE  IInv'
  <2>1. PICK action \in {"issued", "consumed"}, left \in ShortWrites :
          /\ MayAppend(p, action)
          /\ ledger' = WritePart(Opened(ledger),
                                 Record(action, call[p].challenge, call[p].device), left)
    BY <1>13 DEF ShortWrite, MayAppend, MayIssue
  <2>2. /\ AbsentEmpty' /\ LedgerLegal'
        /\ Recorded(ledger.lines) \subseteq Recorded(ledger'.lines)
    BY <2>1, WriteEffect DEF IInv
  <2>. QED
    BY <1>0, <1>13, <2>2, LeaveKeeps DEF ShortWrite
<1>14. ASSUME NEW p \in Procs, Die(p)
       PROVE  IInv'
  BY <1>0, <1>14, <1>a, LeaveKeeps DEF Die
<1>15. CASE Tick \/ UNCHANGED vars
  <2>1. UNCHANGED <<ledger, ledgerLock, pc, call, loaded, cursor, handed, accepted, exhausted, replacing>>
    BY <1>15 DEF Tick, vars
  <2>. QED
    BY <1>0, <2>1 DEF IInv, AbsentEmpty, LockHeld, LedgerLegal, HandedRecorded, PendingAlone, HandedOnce,
         EnvelopeHeld, VerifierAlone, AcceptedConsumed, AcceptedOnce, PassedIssued, ExhaustedTruly,
         ReplaceAsked, OnLedger, Issued, Consumed, Template
<1>. QED
  BY <1>1, <1>2, <1>3, <1>4, <1>5, <1>6, <1>7, <1>8, <1>9, <1>10, <1>11, <1>12, <1>13,
     <1>14, <1>15 DEF Next, Step

-----------------------------------------------------------------------------
(* The theorems                                                            *)

LEMMA Invariant == Spec => []IInv
  BY InitInv, StepInv, PTL DEF Spec

(* Whatever threads race, die, or write short lines, every challenge is    *)
(* issued once, handed to one caller, consumed once and accepted once, and *)
(* a bank reported exhausted was used to its end (ChallengeLedger,         *)
(* issue_challenge and authenticate of adapter.py).                        *)
THEOREM ChallengeServesOnce == Spec => []ServesOnce
<1>1. IInv => ServesOnce
  BY DEF IInv, ServesOnce
<1>. QED  BY <1>1, Invariant, PTL

(* Who is about to write a profile holds the lock of its device.           *)
EnrolHeld == \A p \in Procs : pc[p] = "save" => enrolLock[call[p].device] = p

(* A call takes the lock of its device, and nobody else gives it back.     *)
LEMMA EnrolHeldStep == IInv /\ EnrolHeld /\ [Next]_vars => EnrolHeld'
<1> SUFFICES ASSUME IInv, EnrolHeld, [Next]_vars, NEW q \in Procs, pc'[q] = "save"
             PROVE  enrolLock'[call'[q].device] = q
  BY DEF EnrolHeld
<1>1. /\ pc \in [Procs -> PCs] /\ enrolLock \in [Devices -> Procs \cup {NONE}]
      /\ call \in [Procs -> Call] /\ NONE \notin Procs
      /\ \A p \in Procs : pc[p] # "idle" => call[p].device \in Devices
  BY PufAssumption DEF IInv, TypeInv, TypeOK, LocalsOK
<1>2. ASSUME NEW p \in Procs, pc'[p] # "save",
             \A r \in Procs \ {p} : pc'[r] = pc[r] /\ call'[r] = call[r],
             \A d \in Devices : enrolLock[d] # p => enrolLock'[d] = enrolLock[d]
      PROVE  enrolLock'[call'[q].device] = q
  <2>1. q # p /\ pc[q] = "save" /\ call'[q] = call[q]
    BY <1>2
  <2>2. enrolLock[call[q].device] = q /\ call[q].device \in Devices
    BY <1>1, <2>1 DEF EnrolHeld
  <2> QED BY <1>2, <2>1, <2>2
<1>3. ASSUME NEW p \in Procs, NEW d \in Devices,
             \/ \E replace \in BOOLEAN : Enroll(p, d, replace)
             \/ IssueCall(p, d)
             \/ \E envelope \in handed, matches \in BOOLEAN : Authenticate(p, d, envelope, matches)
      PROVE  enrolLock'[call'[q].device] = q
  <2>1. /\ \E first \in {"enrol", "scan", "lockconsume"} : pc' = [pc EXCEPT ![p] = first]
        /\ \E arguments : call' = [call EXCEPT ![p] = arguments]
        /\ enrolLock' = enrolLock
    BY <1>3 DEF Enroll, IssueCall, Authenticate, Begin, Goto, locks
  <2> QED BY <1>1, <1>2, <2>1
<1>4. ASSUME NEW p \in Procs, EnrolLock(p) PROVE enrolLock'[call'[q].device] = q
  <2>1. /\ pc[p] = "enrol" /\ pc' = [pc EXCEPT ![p] = "save"] /\ call' = call
        /\ enrolLock[call[p].device] = NONE
        /\ enrolLock' = [enrolLock EXCEPT ![call[p].device] = p]
    BY <1>4 DEF EnrolLock, Goto, local
  <2>2. CASE q = p
    BY <1>1, <2>1, <2>2
  <2>3. CASE q # p
    <3>1. pc[q] = "save" /\ enrolLock[call[q].device] = q
      BY <1>1, <2>1, <2>3 DEF EnrolHeld
    <3> QED BY <1>1, <2>1, <3>1
  <2> QED BY <2>2, <2>3
<1>5. ASSUME NEW p \in Procs, Leave(p) PROVE enrolLock'[call'[q].device] = q
  BY <1>1, <1>2, <1>5 DEF Leave
<1>6. ASSUME NEW p \in Procs,
             Status(p) \/ LockLedger(p) \/ Issue(p) \/ Consume(p)
      PROVE  enrolLock'[call'[q].device] = q
  <2>1. CASE Leave(p)
    BY <1>5, <2>1
  <2>2. CASE ~Leave(p)
    <3>1. /\ enrolLock' = enrolLock
          /\ (pc' = pc /\ pc[p] # "save") \/ \E to \in PCs \ {"save"} : pc' = [pc EXCEPT ![p] = to]
          /\ \A r \in Procs \ {p} : call'[r] = call[r]
      BY <1>1, <1>6, <2>2 DEF Status, LockLedger, Issue, Consume, Goto, local, locks, PCs
    <3> QED BY <1>1, <1>2, <3>1
  <2> QED BY <2>1, <2>2
<1>7. CASE Tick \/ UNCHANGED vars
  BY <1>1, <1>7 DEF Tick, vars, locks, local, EnrolHeld
<1> QED BY <1>3, <1>4, <1>5, <1>6, <1>7
        DEF Next, Step, SaveProfile, IssueReturn, Refuse, Verify, ShortWrite, Die

(* No two calls are between their look at the ledger and their write, and  *)
(* no two between their look at the profile of one device and its          *)
(* replacement: the first under the exclusive lock of the ledger (issue    *)
(* and consume), the second under the lock of the device                   *)
(* (EnrollmentRepository.save).                                            *)
THEOREM LocksExclusive ==
  Spec => [](\A p, q \in Procs :
               \/ pc[p] \in {"issue", "consume"} /\ pc[q] \in {"issue", "consume"}
               \/ pc[p] = "save" /\ pc[q] = "save" /\ call[p].device = call[q].device
               => p = q)
<1>1. Init => EnrolHeld
  BY DEF Init, EnrolHeld
<1>2. IInv /\ EnrolHeld =>
        \A p, q \in Procs :
          \/ pc[p] \in {"issue", "consume"} /\ pc[q] \in {"issue", "consume"}
          \/ pc[p] = "save" /\ pc[q] = "save" /\ call[p].device = call[q].device
          => p = q
  BY DEF IInv, LockHeld, EnrolHeld
<1>. QED  BY <1>1, <1>2, EnrolHeldStep, Invariant, PTL DEF Spec

(* Only a verification accepts, and it does so within the call's expiry.   *)
LEMMA AcceptStep ==
  ASSUME IInv, [Next]_vars, NEW c \in Challenges, accepted'[c] # accepted[c]
  PROVE  \E p \in Procs : pc[p] = "verify" /\ call[p].challenge = c /\ now <= call[p].expires
<1>1. PICK p \in Procs : Verify(p)
  BY DEF Next, Step, vars, files, locks, local, hist, bounds, Enroll, IssueCall, Authenticate,
         EnrolLock, SaveProfile, Status, LockLedger, Issue, IssueReturn, Consume, Refuse,
         ShortWrite, Die, Tick
<1>2. accepted' = [accepted EXCEPT ![call[p].challenge] = @ + 1] /\ Valid(call[p], loaded[p])
  BY <1>1 DEF Verify
<1>3. call[p].challenge = c
  BY <1>2 DEF IInv, TypeInv, TypeOK
<1>. QED  BY <1>1, <1>2, <1>3 DEF Verify, Valid

(* A response is accepted only for an envelope that was handed out and has *)
(* not expired, after its consumption was recorded for the same device     *)
(* (the second validation in PUFVerifier.authenticate).                    *)
THEOREM AcceptsInTime == Spec => AcceptedInTime
<1>1. ASSUME IInv, [Next]_vars
      PROVE  [\A c \in Challenges : accepted'[c] # accepted[c] =>
                \E envelope \in handed :
                  /\ envelope.challenge = c /\ now <= envelope.expires
                  /\ Record("consumed", c, envelope.device) \in Recorded(ledger.lines)]_vars
  <2>1. ASSUME NEW c \in Challenges, accepted'[c] # accepted[c]
        PROVE  \E envelope \in handed :
                 /\ envelope.challenge = c /\ now <= envelope.expires
                 /\ Record("consumed", c, envelope.device) \in Recorded(ledger.lines)
    <3>1. PICK p \in Procs : pc[p] = "verify" /\ call[p].challenge = c /\ now <= call[p].expires
      BY <1>1, <2>1, AcceptStep
    <3>2. PICK envelope \in handed : envelope.challenge = c /\ envelope.expires = call[p].expires
      BY <1>1, <3>1 DEF IInv, EnvelopeHeld
    <3>3. OnLedger("issued", c, call[p].device) /\ OnLedger("consumed", c, call[p].device)
      BY <1>1, <3>1 DEF IInv, VerifierAlone
    <3>4. OnLedger("issued", c, envelope.device)
      BY <1>1, <3>2 DEF IInv, HandedRecorded
    <3>5. envelope.device = call[p].device
      BY <1>1, <3>1, <3>3, <3>4, OneDevice DEF IInv, TypeInv, TypeOK, LocalsOK, Envelope
    <3>. QED  BY <3>1, <3>2, <3>3, <3>5 DEF OnLedger
  <2>. QED  BY <2>1
<1>. QED  BY <1>1, Invariant, PTL DEF Spec, AcceptedInTime

(* An enrolment whose caller did not ask to replace leaves an existing     *)
(* profile alone, also when enrolments of the same device race (the look   *)
(* at the profile and the write share EnrollmentRepository's lock).        *)
THEOREM EnrolmentKept == Spec => KeptUnlessReplaced
<1>1. ASSUME IInv, [Next]_vars
      PROVE  [\A d \in Devices : profile[d] # 0 /\ profile'[d] # profile[d] =>
                profile'[d] \in replacing]_vars
  <2>1. ASSUME NEW d \in Devices, profile[d] # 0, profile'[d] # profile[d]
        PROVE  profile'[d] \in replacing
    <3>1. PICK p \in Procs : SaveProfile(p)
      BY <1>1, <2>1 DEF Next, Step, vars, files, locks, local, hist, bounds, Enroll, IssueCall,
         Authenticate, EnrolLock, Status, LockLedger, Issue, IssueReturn, Consume, Refuse, Verify,
         ShortWrite, Die, Tick
    <3>2. call[p].flag /\ pc[p] = "save" /\ profile'[d] = loaded[p]
      BY <1>1, <2>1, <3>1 DEF SaveProfile, IInv, TypeInv, TypeOK
    <3>. QED  BY <1>1, <3>2 DEF IInv, ReplaceAsked
  <2>. QED  BY <2>1
<1>. QED  BY <1>1, Invariant, PTL DEF Spec, KeptUnlessReplaced

-----------------------------------------------------------------------------
(* The refinement of ChallengeLife                                         *)

LEMMA LedgerStep ==
  ASSUME IInv, [Next]_vars, Recorded(ledger'.lines) # Recorded(ledger.lines)
  PROVE  \E p \in Procs, action \in {"issued", "consumed"} :
           /\ MayAppend(p, action)
           /\ Recorded(ledger'.lines) = Recorded(ledger.lines)
                                          \cup {Record(action, call[p].challenge, call[p].device)}
<1>1. ASSUME NEW p \in Procs, Issue(p)
      PROVE  /\ MayAppend(p, "issued")
             /\ Recorded(ledger'.lines) = Recorded(ledger.lines)
                                            \cup {Record("issued", call[p].challenge, call[p].device)}
  BY <1>1, WriteEffect DEF Issue, AppendRecord, Goto, MayAppend, MayIssue, IInv
<1>2. ASSUME NEW p \in Procs, Consume(p)
      PROVE  /\ MayAppend(p, "consumed")
             /\ Recorded(ledger'.lines) = Recorded(ledger.lines)
                                            \cup {Record("consumed", call[p].challenge, call[p].device)}
  BY <1>2, WriteEffect DEF Consume, AppendRecord, Goto, MayAppend, IInv
<1>3. ASSUME NEW p \in Procs, ShortWrite(p)
      PROVE  \E action \in {"issued", "consumed"} :
               /\ MayAppend(p, action)
               /\ Recorded(ledger'.lines) = Recorded(ledger.lines)
                                              \cup {Record(action, call[p].challenge, call[p].device)}
  <2>1. PICK action \in {"issued", "consumed"}, left \in ShortWrites :
          /\ MayAppend(p, action)
          /\ ledger' = WritePart(Opened(ledger),
                                 Record(action, call[p].challenge, call[p].device), left)
    BY <1>3 DEF ShortWrite, MayAppend, MayIssue
  <2>. QED  BY <2>1, WriteEffect, PufAssumption DEF IInv
<1>4. ledger' # ledger
  OBVIOUS
<1>. QED
  BY <1>1, <1>2, <1>3, <1>4 DEF Next, Step, vars, files, locks, local, hist, bounds, Enroll, IssueCall,
     Authenticate, EnrolLock, SaveProfile, Status, LockLedger, IssueReturn, Refuse, Verify, Die, Tick

LEMMA LifeInit == Init => Life!Init
<1>. SUFFICES ASSUME Init PROVE Life!Init
  OBVIOUS
<1>1. \A c \in Challenges : ~Issued(c) /\ ~Consumed(c)
  BY DEF Init, NoFile, Issued, Consumed, Recorded
<1>. QED  BY <1>1 DEF Life!Init, StageOf

LEMMA LifeStep ==
  ASSUME IInv, [Next]_vars
  PROVE  [Life!Next]_([c \in Challenges |-> StageOf(c)])
<1>. DEFINE stage == [c \in Challenges |-> StageOf(c)]
<1>1. CASE Recorded(ledger'.lines) = Recorded(ledger.lines)
  <2>1. \A c \in Challenges : StageOf(c)' = StageOf(c)
    BY <1>1 DEF StageOf, Issued, Consumed
  <2>. QED  BY <2>1
<1>2. CASE Recorded(ledger'.lines) # Recorded(ledger.lines)
  <2>1. PICK p \in Procs, action \in {"issued", "consumed"} :
          /\ MayAppend(p, action)
          /\ Recorded(ledger'.lines) = Recorded(ledger.lines)
                                         \cup {Record(action, call[p].challenge, call[p].device)}
    BY <1>2, LedgerStep
  <2>2. PICK c \in Challenges, d \in Devices :
          /\ c = call[p].challenge /\ d = call[p].device
          /\ Recorded(ledger'.lines) = Recorded(ledger.lines) \cup {Record(action, c, d)}
    BY <2>1 DEF IInv, TypeInv, LocalsOK, MayAppend, MayIssue
  <2>3. \A b \in Challenges : Consumed(b) => Issued(b)
    BY ConsumedIssued DEF IInv
  <2>4. CASE action = "issued"
    <3>1. ~Issued(c) /\ ~Consumed(c)
      BY <2>1, <2>2, <2>3, <2>4 DEF MayAppend, MayIssue
    <3>2. /\ Issued(c)' /\ \A b \in Challenges \ {c} : Issued(b)' = Issued(b)
          /\ \A b \in Challenges : Consumed(b)' = Consumed(b)
      BY <2>2, <2>4 DEF Issued, Consumed, Record
    <3>3. /\ StageOf(c) = "absent" /\ StageOf(c)' = "issued"
          /\ \A b \in Challenges \ {c} : StageOf(b)' = StageOf(b)
      BY <3>1, <3>2, <2>2 DEF StageOf
    <3>4. Life!Issue(c)
      BY <2>2, <3>3 DEF Life!Issue
    <3>. QED  BY <2>2, <3>4 DEF Life!Next
  <2>5. CASE action = "consumed"
    <3>1. Issued(c) /\ ~Consumed(c)
      BY <2>1, <2>2, <2>5 DEF MayAppend, MayConsume, Issued
    <3>2. /\ Consumed(c)' /\ \A b \in Challenges \ {c} : Consumed(b)' = Consumed(b)
          /\ \A b \in Challenges : Issued(b)' = Issued(b)
      BY <2>2, <2>5 DEF Issued, Consumed, Record
    <3>3. /\ StageOf(c) = "issued" /\ StageOf(c)' = "consumed"
          /\ \A b \in Challenges \ {c} : StageOf(b)' = StageOf(b)
      BY <3>1, <3>2, <2>2 DEF StageOf
    <3>4. Life!Consume(c)
      BY <2>2, <3>3 DEF Life!Consume
    <3>. QED  BY <2>2, <3>4 DEF Life!Next
  <2>. QED  BY <2>1, <2>4, <2>5
<1>. QED  BY <1>1, <1>2

(* The ledger keeps the promise of ChallengeLedger's docstring: every      *)
(* challenge goes from absent to issued to consumed, one step at a time    *)
(* and never back, under all races, deaths and short writes.               *)
THEOREM LedgerImplementsLife == Spec => ImplementsLife
  BY LifeInit, LifeStep, Invariant, PTL DEF Spec, ImplementsLife, Life!Spec
=============================================================================
