---------------------------- MODULE PufChallenges ----------------------------
(***************************************************************************)
(* PUF enrolment, challenge issuing and authentication                     *)
(* (app/hardware/puf: adapter.py, repository.py, and the decisions of      *)
(* verifier.py and schemas.py they rest on).                               *)
(*                                                                         *)
(* Threads and command-line processes share one profile file per device,   *)
(* replaced whole, and one challenge ledger for all devices: a file of     *)
(* JSON lines, read under a shared flock and extended under an exclusive   *)
(* one.  A device's bank holds the challenges of its latest enrolment.     *)
(* Keys and measurements are abstracted: envelopes that do not verify are  *)
(* never accepted and not modelled, and whether a response matches the     *)
(* enrolled reference is an input.                                         *)
(*                                                                         *)
(* Definitions headed "Fault:" are plausible bugs the properties notice.   *)
(***************************************************************************)
EXTENDS Naturals, Sequences, JsonLines

CONSTANTS
  Procs,           \* threads and processes
  Devices,
  BankSize,        \* challenges per enrolment
  TTL,             \* challenge_ttl_seconds, in ticks of the clock
  ShortWrites,     \* what a short os.write may leave of a line
  MaxEnrolments, MaxCalls, MaxTime, MaxFaults,      \* bounds
  NONE

ASSUME PufAssumption ==
  /\ BankSize \in Nat \ {0} /\ TTL \in Nat \ {0}
  /\ MaxEnrolments \in Nat /\ MaxCalls \in Nat /\ MaxTime \in Nat /\ MaxFaults \in Nat
  /\ ShortWrites \subseteq {"fragment", "unterminated"}
  /\ NONE \notin Procs /\ NONE \notin Devices

(* Enrolment k mints fresh identifiers (uuid4); template i of its profile. *)
Template(k, i) == (k - 1) * BankSize + i
Bank(k)        == {Template(k, i) : i \in 1..BankSize}
Challenges     == 1..MaxEnrolments * BankSize

VARIABLES
  profile,      \* profile[d]: enrolment in the profile file of d, 0 without one
  enrolLock,    \* enrolLock[d]: holder of the enrolment lock of d
  ledger,       \* the challenge ledger, a file of JSON lines
  ledgerLock,   \* exclusive holder of the ledger's lock
  pc,           \* pc[p]: the step p takes next
  call,         \* call[p]: the arguments of the call p is in
  loaded,       \* loaded[p]: the enrolment p made, or read from the profile
  cursor,       \* cursor[p]: the template p looks at
  now,          \* the clock
  handed,       \* envelopes that an issue returned to its caller
  accepted,     \* accepted[c]: responses to c answered AUTHENTICATED
  exhausted,    \* enrolments reported to have no unused challenge left
  replacing,    \* enrolments whose caller asked to replace
  enrolments, calls, faults

files  == <<profile, ledger>>
locks  == <<enrolLock, ledgerLock>>
local  == <<call, loaded, cursor>>
hist   == <<handed, accepted, exhausted, replacing>>
bounds == <<enrolments, calls, faults>>
vars   == <<files, locks, pc, local, now, hist, bounds>>

-----------------------------------------------------------------------------
(* The ledger as _read_state_unlocked sees it.                             *)

Record(action, c, d) == [action |-> action, challenge |-> c, device |-> d]
Recorded(lines)      == {lines[i] : i \in 1..Len(lines)}
Issued(c)            == \E d \in Devices : Record("issued", c, d) \in Recorded(ledger.lines)
Consumed(c)          == \E d \in Devices : Record("consumed", c, d) \in Recorded(ledger.lines)

(* No challenge is issued or consumed twice, none consumed before it was   *)
(* issued.                                                                 *)
Legal(lines) ==
  \A j \in 1..Len(lines) :
    /\ \A i \in 1..j-1 : lines[i].challenge = lines[j].challenge =>
                           lines[i].action # lines[j].action
    /\ lines[j].action = "consumed" =>
         \E i \in 1..j-1 : /\ lines[i].challenge = lines[j].challenge
                           /\ lines[i].action = "issued"

Readable == Parses(ledger) /\ Legal(ledger.lines)

-----------------------------------------------------------------------------
NoCall == [device |-> NONE, challenge |-> 0, expires |-> 0, flag |-> FALSE]

Init ==
  /\ profile = [d \in Devices |-> 0]
  /\ enrolLock = [d \in Devices |-> NONE] /\ ledgerLock = NONE
  /\ ledger = NoFile
  /\ pc = [p \in Procs |-> "idle"]
  /\ call = [p \in Procs |-> NoCall]
  /\ loaded = [p \in Procs |-> 0]
  /\ cursor = [p \in Procs |-> 0]
  /\ now = 0
  /\ handed = {} /\ exhausted = {} /\ replacing = {}
  /\ accepted = [c \in Challenges |-> 0]
  /\ enrolments = 0 /\ calls = 0 /\ faults = 0

Goto(p, from, to) == pc[p] = from /\ pc' = [pc EXCEPT ![p] = to]

(* Fault: an exception leaves the ledger locked.                           *)
LeaveLocked(p) ==
  /\ pc' = [pc EXCEPT ![p] = "idle"]
  /\ call' = [call EXCEPT ![p] = NoCall]
  /\ loaded' = [loaded EXCEPT ![p] = 0]
  /\ cursor' = [cursor EXCEPT ![p] = 0]
  /\ enrolLock' = [d \in Devices |-> IF enrolLock[d] = p THEN NONE ELSE enrolLock[d]]
  /\ UNCHANGED ledgerLock

(* p leaves its call, by return or exception; its locks are released.      *)
Leave(p) ==
  /\ pc' = [pc EXCEPT ![p] = "idle"]
  /\ call' = [call EXCEPT ![p] = NoCall]
  /\ loaded' = [loaded EXCEPT ![p] = 0]
  /\ cursor' = [cursor EXCEPT ![p] = 0]
  /\ enrolLock' = [d \in Devices |-> IF enrolLock[d] = p THEN NONE ELSE enrolLock[d]]
  /\ ledgerLock' = IF ledgerLock = p THEN NONE ELSE ledgerLock

Begin(p, arguments, k, first) ==
  /\ calls < MaxCalls
  /\ calls' = calls + 1
  /\ call' = [call EXCEPT ![p] = arguments]
  /\ loaded' = [loaded EXCEPT ![p] = k]
  /\ Goto(p, "idle", first)

-----------------------------------------------------------------------------
(* enroll_device                                                           *)

(* Fault: the profile is looked for before the lock is taken.              *)
EnrollChecking(p, d, replace) ==
  /\ enrolments < MaxEnrolments
  /\ enrolments' = enrolments + 1
  /\ Begin(p, [NoCall EXCEPT !.device = d, !.flag = replace \/ profile[d] = 0],
           enrolments', "enrol")
  /\ replacing' = IF replace THEN replacing \cup {enrolments'} ELSE replacing
  /\ UNCHANGED <<files, locks, cursor, now, handed, accepted, exhausted, faults>>

(* A device that is not stable enough at some corner, or biased, raises    *)
(* here, and nothing has happened yet.                                     *)
Enroll(p, d, replace) ==
  /\ enrolments < MaxEnrolments
  /\ enrolments' = enrolments + 1
  /\ Begin(p, [NoCall EXCEPT !.device = d, !.flag = replace], enrolments', "enrol")
  /\ replacing' = IF replace THEN replacing \cup {enrolments'} ELSE replacing
  /\ UNCHANGED <<files, locks, cursor, now, handed, accepted, exhausted, faults>>

EnrolLock(p) ==
  LET d == call[p].device
  IN  /\ Goto(p, "enrol", "save")
      /\ enrolLock[d] = NONE
      /\ enrolLock' = [enrolLock EXCEPT ![d] = p]
      /\ UNCHANGED <<files, ledgerLock, local, now, hist, bounds>>

(* EnrollmentRepository.save: "already enrolled", or os.replace.           *)
SaveProfile(p) ==
  LET d == call[p].device
  IN  /\ pc[p] = "save"
      /\ profile' = IF profile[d] # 0 /\ ~call[p].flag
                    THEN profile
                    ELSE [profile EXCEPT ![d] = loaded[p]]
      /\ Leave(p)
      /\ UNCHANGED <<ledger, now, hist, bounds>>

-----------------------------------------------------------------------------
(* issue_challenge                                                         *)

IssueCall(p, d) ==
  /\ profile[d] # 0
  /\ Begin(p, [NoCall EXCEPT !.device = d], profile[d], "scan")
  /\ cursor' = [cursor EXCEPT ![p] = 1]
  /\ UNCHANGED <<files, locks, now, hist, enrolments, faults>>

(* Fault: one template too many.                                           *)
PastLast(p) == cursor[p] > BankSize

AtLast(p) == cursor[p] = BankSize

(* ledger.status of one template, then reissue if it is AVAILABLE.  The    *)
(* shared lock is held for this step only.                                 *)
Status(p) ==
  LET c == Template(loaded[p], cursor[p])
  IN  /\ pc[p] = "scan" /\ ledgerLock = NONE
      /\ \/ /\ Readable /\ ~Issued(c)
            /\ Goto(p, "scan", "lockissue")
            /\ call' = [call EXCEPT ![p].challenge = c, ![p].expires = now + TTL]
            /\ UNCHANGED <<locks, loaded, cursor, exhausted>>
         \/ /\ Readable /\ Issued(c) /\ ~AtLast(p)
            /\ cursor' = [cursor EXCEPT ![p] = @ + 1]
            /\ UNCHANGED <<locks, pc, call, loaded, exhausted>>
         \/ /\ Readable /\ Issued(c) /\ AtLast(p)
            /\ exhausted' = exhausted \cup {loaded[p]}
            /\ Leave(p)
         \/ /\ ~Readable
            /\ Leave(p)
            /\ UNCHANGED exhausted
      /\ UNCHANGED <<files, now, handed, accepted, replacing, bounds>>

(* FileLock(exclusive) of ChallengeLedger.issue and .consume.              *)
LockLedger(p) ==
  /\ \/ Goto(p, "lockissue", "issue")
     \/ Goto(p, "lockconsume", "consume")
  /\ ledgerLock = NONE
  /\ ledgerLock' = p
  /\ UNCHANGED <<files, enrolLock, local, now, hist, bounds>>

(* _append_unlocked and the release of the lock that follows it.           *)
AppendRecord(p, action) ==
  /\ ledger' = WriteLine(Opened(ledger), Record(action, call[p].challenge, call[p].device))
  /\ ledgerLock' = NONE

Issue(p) ==
  /\ Goto(p, "issue", "issued")
  /\ Readable /\ ~Issued(call[p].challenge)
  /\ AppendRecord(p, "issued")
  /\ UNCHANGED <<profile, enrolLock, local, now, hist, bounds>>

(* The signed envelope reaches the caller.                                 *)
IssueReturn(p) ==
  /\ pc[p] = "issued"
  /\ handed' = handed \cup {[device |-> call[p].device, challenge |-> call[p].challenge,
                             expires |-> call[p].expires]}
  /\ Leave(p)
  /\ UNCHANGED <<files, now, accepted, exhausted, replacing, bounds>>

-----------------------------------------------------------------------------
(* authenticate                                                            *)

Valid(envelope, k) == envelope.challenge \in Bank(k) /\ now <= envelope.expires

(* Any holder of an envelope may present it, for any device and as often   *)
(* as it likes; validate_envelope fails before the ledger is touched.      *)
Authenticate(p, d, envelope, matches) ==
  /\ profile[d] # 0
  /\ Valid(envelope, profile[d])
  /\ Begin(p, [device |-> d, challenge |-> envelope.challenge,
               expires |-> envelope.expires, flag |-> matches],
           profile[d], "lockconsume")
  /\ UNCHANGED <<files, locks, cursor, now, hist, enrolments, faults>>

MayConsume(p) ==
  /\ Readable
  /\ Record("issued", call[p].challenge, call[p].device) \in Recorded(ledger.lines)
  /\ ~Consumed(call[p].challenge)

(* Fault: only the issuing is looked up, not the consumption.              *)
ConsumeAgain(p) ==
  /\ Goto(p, "consume", "verify")
  /\ Readable
  /\ Record("issued", call[p].challenge, call[p].device) \in Recorded(ledger.lines)
  /\ AppendRecord(p, "consumed")
  /\ UNCHANGED <<profile, enrolLock, local, now, hist, bounds>>

Consume(p) ==
  /\ Goto(p, "consume", "verify")
  /\ MayConsume(p)
  /\ AppendRecord(p, "consumed")
  /\ UNCHANGED <<profile, enrolLock, local, now, hist, bounds>>

(* "already issued", "never issued", "a different device", "replayed", or  *)
(* a ledger that cannot be read.                                           *)
Refuse(p) ==
  /\ \/ pc[p] = "issue" /\ ~(Readable /\ ~Issued(call[p].challenge))
     \/ pc[p] = "consume" /\ ~MayConsume(p)
  /\ Leave(p)
  /\ UNCHANGED <<files, now, hist, bounds>>

(* Fault: the envelope is not validated a second time.                     *)
VerifyLate(p) ==
  /\ pc[p] = "verify"
  /\ accepted' = IF call[p].flag THEN [accepted EXCEPT ![call[p].challenge] = @ + 1]
                                 ELSE accepted
  /\ Leave(p)
  /\ UNCHANGED <<files, now, handed, exhausted, replacing, bounds>>

(* PUFVerifier.authenticate validates the envelope again, against the      *)
(* profile that was read at the start, and judges the response.            *)
Verify(p) ==
  /\ pc[p] = "verify"
  /\ accepted' = IF call[p].flag /\ Valid(call[p], loaded[p])
                 THEN [accepted EXCEPT ![call[p].challenge] = @ + 1]
                 ELSE accepted
  /\ Leave(p)
  /\ UNCHANGED <<files, now, handed, exhausted, replacing, bounds>>

-----------------------------------------------------------------------------
(* "incomplete PUF challenge ledger write".                                *)
ShortWrite(p) ==
  /\ faults < MaxFaults
  /\ \E action \in {"issued", "consumed"}, left \in ShortWrites :
       /\ \/ action = "issued" /\ pc[p] = "issue" /\ Readable /\ ~Issued(call[p].challenge)
          \/ action = "consumed" /\ pc[p] = "consume" /\ MayConsume(p)
       /\ ledger' = WritePart(Opened(ledger),
                              Record(action, call[p].challenge, call[p].device), left)
  /\ faults' = faults + 1
  /\ Leave(p)
  /\ UNCHANGED <<profile, now, hist, enrolments, calls>>

(* An exception, or the death of the process, at any step of a call.       *)
Die(p) ==
  /\ pc[p] # "idle" /\ faults < MaxFaults
  /\ faults' = faults + 1
  /\ Leave(p)
  /\ UNCHANGED <<files, now, hist, enrolments, calls>>

Tick ==
  /\ now < MaxTime
  /\ now' = now + 1
  /\ UNCHANGED <<files, locks, pc, local, hist, bounds>>

Step(p) == \/ EnrolLock(p) \/ SaveProfile(p)
           \/ Status(p) \/ LockLedger(p) \/ Issue(p) \/ IssueReturn(p)
           \/ Consume(p) \/ Refuse(p) \/ Verify(p)

Next ==
  \/ \E p \in Procs, d \in Devices :
       \/ \E replace \in BOOLEAN : Enroll(p, d, replace)
       \/ IssueCall(p, d)
       \/ \E envelope \in handed, matches \in BOOLEAN : Authenticate(p, d, envelope, matches)
  \/ \E p \in Procs : Step(p) \/ ShortWrite(p) \/ Die(p)
  \/ Tick

Spec == Init /\ [][Next]_vars

(* Threads keep running and flock wakes its waiters in turn.               *)
Fairness == \A p \in Procs : SF_vars(Step(p))
FairSpec == Spec /\ Fairness

-----------------------------------------------------------------------------
PCs  == {"idle", "enrol", "save", "scan", "lockissue", "issue", "issued",
         "lockconsume", "consume", "verify"}
Line == [action : {"issued", "consumed"}, challenge : Challenges, device : Devices]
Call == [device : Devices \cup {NONE}, challenge : Challenges \cup {0},
         expires : Nat, flag : BOOLEAN]
Envelope == [device : Devices, challenge : Challenges, expires : Nat]

(* Every variable holds a value of its kind.                               *)
TypeOK ==
  /\ profile \in [Devices -> 0..MaxEnrolments]
  /\ enrolLock \in [Devices -> Procs \cup {NONE}]
  /\ ledger \in [lines : Seq(Line), tail : Tail_]
  /\ ledgerLock \in Procs \cup {NONE}
  /\ pc \in [Procs -> PCs]
  /\ call \in [Procs -> Call]
  /\ loaded \in [Procs -> 0..MaxEnrolments]
  /\ cursor \in [Procs -> 0..BankSize]
  /\ now \in 0..MaxTime
  /\ handed \subseteq Envelope
  /\ accepted \in [Challenges -> Nat]
  /\ exhausted \subseteq 1..MaxEnrolments /\ replacing \subseteq 1..MaxEnrolments
  /\ enrolments \in 0..MaxEnrolments /\ calls \in 0..MaxCalls /\ faults \in 0..MaxFaults

(* Whatever threads race and die, the ledger is one that its own reader    *)
(* does not reject: nothing is issued or consumed twice, nothing consumed  *)
(* without having been issued.                                             *)
LedgerLegal == Legal(ledger.lines)

(* A challenge answers AUTHENTICATED at most once.                         *)
AcceptedOnce == \A c \in Challenges : accepted[c] <= 1

(* A challenge is handed to one caller, for one device, with one expiry.   *)
HandedOnce == \A a, b \in handed : a.challenge = b.challenge => a = b

(* "No unused PUF challenges remain" is true when it is said, although the *)
(* templates were looked at one after the other without a common lock.     *)
ExhaustedTruly == \A k \in exhausted : \A c \in Bank(k) : Issued(c)

(* A challenge serves once: it is issued once, handed to one caller,       *)
(* consumed once and accepted once, and the bank is used to its end.       *)
ServesOnce == LedgerLegal /\ HandedOnce /\ AcceptedOnce /\ ExhaustedTruly

(* A response is accepted only while its envelope is unexpired, after its  *)
(* consumption is on record for the same device, and only if that device   *)
(* got the challenge.                                                      *)
AcceptedInTime ==
  [][\A c \in Challenges : accepted'[c] # accepted[c] =>
       \E envelope \in handed :
         /\ envelope.challenge = c /\ now <= envelope.expires
         /\ Record("consumed", c, envelope.device) \in Recorded(ledger.lines)]_vars

(* An enrolment that does not ask to replace never replaces a profile,     *)
(* also when two of them race.                                             *)
KeptUnlessReplaced ==
  [][\A d \in Devices : profile[d] # 0 /\ profile'[d] # profile[d] =>
       profile'[d] \in replacing]_vars

(* Every call that does not die comes back.                                *)
CallsReturn == \A p \in Procs : pc[p] # "idle" ~> pc[p] = "idle"

(* The ledger implements the life of a challenge.                          *)
StageOf(c) == IF Consumed(c) THEN "consumed" ELSE IF Issued(c) THEN "issued" ELSE "absent"
Life == INSTANCE ChallengeLife WITH stage <- [c \in Challenges |-> StageOf(c)]
ImplementsLife == Life!Spec
=============================================================================
