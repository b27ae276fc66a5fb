------------------------------ MODULE WebServer ------------------------------
(***************************************************************************)
(* The write side of the REST API: a scan is submitted over HTTP, or by a  *)
(* command-line process that drives the same handler in itself.  A request *)
(* passes the rate limiter, the handler of POST /scans, the socket         *)
(* publisher and the hook that audits every request but a successful GET.  *)
(*                                                                         *)
(* The event store is taken for what EventLog promises (EventStore shows   *)
(* that the code keeps that promise): a record enters its journal in one   *)
(* step, and one that asks for a new scan fails when the scan is there.    *)
(* latest.json and the snapshot of the scan are written after that,        *)
(* without the lock of the scan: two appends may write them in either      *)
(* order.  A journal with a torn line is left to EventStore.  The audit    *)
(* log is a file a day, written under one lock, and nobody checks how much *)
(* of a line reached the disk.  The rate limiter reads the clock before it *)
(* takes its lock.                                                         *)
(***************************************************************************)
EXTENDS JsonLines, Projections

CONSTANTS
  Threads,      \* threads of the server, and processes that submit by themselves
  Local,        \* those of Threads that are processes of their own
  Scans,        \* scan ids a client supplies or an idempotency key stands for
  Limit,        \* scan_submission_requests of the rate limiter
  Window,       \* window_seconds, in ticks of the clock
  MaxTime,      \* bound on the clock
  MaxDays,      \* bound on the days of the audit log
  MaxRequests,  \* bound on the requests, which also numbers them
  MaxDiskFaults, \* bound on writes that fall short or fail
  ShortAudits   \* what a short audit write may leave: "fragment", "unterminated"

ASSUME ServerAssumption ==
  /\ Limit \in Nat \ {0} /\ Window \in Nat \ {0} /\ MaxTime \in Nat
  /\ MaxDays \in Nat \ {0} /\ MaxRequests \in Nat /\ MaxDiskFaults \in Nat
  /\ IsFiniteSet(Threads) /\ Local \subseteq Threads
  /\ NONE \notin Threads \cup Scans
  /\ ShortAudits \subseteq {"fragment", "unterminated"}

Processes == {"server"} \cup Local
Host(t)   == IF t \in Local THEN t ELSE "server"

VARIABLES
  log,        \* log[s]: how many events the journal of s holds
  recent,     \* latest.json: the scans, the one written to last in front
  snapshot,   \* snapshot[s]: the event the snapshot of s tells of, 0 without one
  entries,    \* entries[h]: the times process h let a submission through
  audit,      \* audit[d]: the audit log of day d
  auditLock,  \* holder of audit.lock, or NONE
  wire,       \* messages on their way to the browser, NONE without a connection
  pc, call,   \* of each thread: its next step and its request
  now, day, requests, diskFaults,
  admitted,   \* history: admitted[h]: the requests process h let through, each
              \* with the time it read
  author,     \* history: author[s]: the request that opened the journal of s
  answered    \* history: answered[i]: the status code request i was given

store    == <<log, recent, snapshot>>
limiter  == <<entries, admitted>>
auditing == <<audit, auditLock>>
clock    == <<now, day>>
hist     == <<requests, diskFaults, author, answered>>
svars    == <<store, limiter, auditing, wire, pc, call, clock, hist>>

NoCall == [scan |-> NONE, id |-> 0, time |-> 0, code |-> 0, day |-> 0, prev |-> NONE]

(* A server that has just been started, on a store that may hold scans.    *)
ServerRest ==
  /\ entries = [h \in Processes |-> <<>>]
  /\ admitted = [h \in Processes |-> {}]
  /\ audit = [d \in 1..MaxDays |-> NoFile] /\ auditLock = NONE
  /\ wire = NONE
  /\ pc = [t \in Threads |-> "idle"] /\ call = [t \in Threads |-> NoCall]
  /\ now = 0 /\ day = 1 /\ requests = 0 /\ diskFaults = 0
  /\ author = [s \in Scans |-> 0]
  /\ answered = [i \in 1..MaxRequests |-> 0]

ServerInit ==
  /\ log = [s \in Scans |-> 0] /\ recent = <<>> /\ snapshot = [s \in Scans |-> 0]
  /\ ServerRest

-----------------------------------------------------------------------------
Goto(t, from, to) == pc[t] = from /\ pc' = [pc EXCEPT ![t] = to]

(* A scan is in a list at most once, so one entry is dropped.              *)
Without(list, s) ==
  LET at == {i \in 1..Len(list) : list[i] = s}
      k  == CHOOSE i \in at : TRUE
  IN  IF at = {} THEN list ELSE SubSeq(list, 1, k-1) \o SubSeq(list, k+1, Len(list))

MovedToFront(s) == <<s>> \o Without(recent, s)

(* Every client of the namespace gets the message, and nobody else ever.   *)
Sent(s, sequence) == IF wire = NONE THEN wire ELSE Append(wire, <<s, sequence>>)

(* begin_request, as far as time.monotonic().                              *)
Arrive(t, s) ==
  /\ Goto(t, "idle", "limit") /\ requests < MaxRequests
  /\ requests' = requests + 1
  /\ call' = [call EXCEPT ![t] = [NoCall EXCEPT !.scan = s, !.id = requests', !.time = now]]
  /\ UNCHANGED <<store, limiter, auditing, wire, clock, diskFaults, author, answered>>

(* What is left of times when those up to the threshold are taken from its *)
(* front, as far as they go.                                               *)
Since(times, threshold) ==
  LET fresh == {i \in 1..Len(times) : times[i] > threshold}
      first == CHOOSE i \in fresh : \A j \in fresh : i <= j
  IN  IF fresh = {} THEN <<>> ELSE SubSeq(times, first, Len(times))

(* The entries of the window that ended when this request read the clock.  *)
Live(t) == Since(entries[Host(t)], call[t].time - Window)

(* RateLimiter.check, under its lock; 429 when the window is full.         *)
LetThrough(t) ==
  LET h == Host(t)
  IN  /\ Goto(t, "limit", "lookup") /\ Len(Live(t)) < Limit
      /\ entries' = [entries EXCEPT ![h] = Append(Live(t), call[t].time)]
      /\ admitted' = [admitted EXCEPT ![h] = @ \cup {<<call[t].id, call[t].time>>}]
      /\ UNCHANGED <<store, auditing, wire, call, clock, hist>>

(* The hook that audits the request: write() settles on a file first.      *)
Respond(t, from, code) ==
  /\ Goto(t, from, "after")
  /\ call' = [call EXCEPT ![t].code = code, ![t].day = day]

TurnAway(t) ==
  LET h == Host(t)
  IN  /\ pc[t] = "limit" /\ Len(Live(t)) >= Limit
      /\ entries' = [entries EXCEPT ![h] = Live(t)]
      /\ Respond(t, "limit", 429)
      /\ UNCHANGED <<store, admitted, auditing, wire, clock, hist>>

(* Submission switched off, not JSON, or not of the schema.                *)
Invalid(t) ==
  /\ \E code \in {400, 409} : Respond(t, "lookup", code)
  /\ UNCHANGED <<store, limiter, auditing, wire, clock, hist>>

(* EventReader.snapshot: the snapshot, however old, or the last event of   *)
(* the journal if there is none.                                           *)
Seen(s) == IF snapshot[s] = 0 THEN log[s] ELSE snapshot[s]

(* A scan that is there already is answered as it is seen.                 *)
Replay(t) ==
  /\ Respond(t, "lookup", 200) /\ log[call[t].scan] > 0
  /\ UNCHANGED <<store, limiter, auditing, wire, clock, hist>>

NotThere(t) ==
  /\ Goto(t, "lookup", "append") /\ log[call[t].scan] = 0
  /\ UNCHANGED <<store, limiter, auditing, wire, call, clock, hist>>

Opening(t, s) ==
  /\ Goto(t, "append", "index")
  /\ log' = [log EXCEPT ![s] = @ + 1]
  /\ author' = [author EXCEPT ![s] = call[t].id]
  /\ UNCHANGED <<recent, snapshot, limiter, auditing, wire, call, clock,
                 requests, diskFaults, answered>>

(* Fault: the append does not ask for a new scan.                          *)
AcceptAgain(t) == Opening(t, call[t].scan)

(* append(..., reject_existing_scan=True), up to the release of the lock.  *)
Accept(t) == Opening(t, call[t].scan) /\ log[call[t].scan] = 0

(* The rest of it: the indexes, and the snapshot.                          *)
Index(t) ==
  /\ Goto(t, "index", "snapshot")
  /\ recent' = MovedToFront(call[t].scan)
  /\ UNCHANGED <<log, snapshot, limiter, auditing, wire, call, clock, hist>>

TakeSnapshot(t) ==
  /\ Goto(t, "snapshot", "accepted")
  /\ snapshot' = [snapshot EXCEPT ![call[t].scan] = 1]
  /\ call' = [call EXCEPT ![t].code = 202, ![t].day = day]
  /\ UNCHANGED <<log, recent, limiter, auditing, wire, clock, hist>>

(* It raises, with the record in the journal or not.                       *)
AppendFails(t) ==
  /\ pc[t] \in {"append", "index", "snapshot"} /\ diskFaults < MaxDiskFaults
  /\ Respond(t, pc[t], 500)
  /\ diskFaults' = diskFaults + 1
  /\ UNCHANGED <<store, limiter, auditing, wire, clock, requests, author, answered>>

Conflict(t) ==
  /\ Respond(t, "append", 409) /\ log[call[t].scan] > 0
  /\ UNCHANGED <<store, limiter, auditing, wire, clock, hist>>

-----------------------------------------------------------------------------
(* AuditWriter.write: the lock, the hash of the last line, the new line.   *)
(* "accepted" writes scan.accepted, "after" writes http.request, "again"   *)
(* too: an answer whose hook failed is replaced by a 500 that is put       *)
(* through the hook once more.                                             *)
Opens(t)  == pc[t] \in {"accepted", "after", "again"}
Writes(t) == pc[t] \in {"accepted_write", "after_write", "again_write"}
InHandler(t) == pc[t] \in {"accepted", "accepted_write"}

Onward(step) ==
  CASE step = "accepted" -> "accepted_write" [] step = "accepted_write" -> "publish"
    [] step = "after" -> "after_write"       [] step = "again" -> "again_write"
    [] step \in {"after_write", "again_write"} -> "answer"

LastLine(file) == IF file.lines = <<>> THEN NONE
                  ELSE LET last == file.lines[Len(file.lines)] IN <<last.kind, last.id, last.code>>

OpenAudit(t) ==
  /\ Opens(t) /\ auditLock = NONE /\ Parses(audit[call[t].day])
  /\ pc' = [pc EXCEPT ![t] = Onward(pc[t])]
  /\ auditLock' = t
  /\ call' = [call EXCEPT ![t].prev = LastLine(audit[call[t].day])]
  /\ UNCHANGED <<store, limiter, audit, wire, clock, hist>>

Record(t) ==
  [kind |-> IF InHandler(t) THEN "scan.accepted" ELSE "http.request",
   id |-> call[t].id, code |-> call[t].code, prev |-> call[t].prev]

WriteAudit(t) ==
  /\ Writes(t)
  /\ pc' = [pc EXCEPT ![t] = Onward(pc[t])]
  /\ audit' = [audit EXCEPT ![call[t].day] = WriteLine(Opened(@), Record(t))]
  /\ auditLock' = NONE
  /\ UNCHANGED <<store, limiter, wire, call, clock, hist>>

(* What os.write returns is not looked at: the request goes on as if the   *)
(* line were there.                                                        *)
WriteAuditShort(t) ==
  /\ Writes(t) /\ diskFaults < MaxDiskFaults
  /\ pc' = [pc EXCEPT ![t] = Onward(pc[t])]
  /\ \E left \in ShortAudits :
       audit' = [audit EXCEPT ![call[t].day] = WritePart(Opened(@), Record(t), left)]
  /\ auditLock' = NONE /\ diskFaults' = diskFaults + 1
  /\ UNCHANGED <<store, limiter, wire, call, clock, requests, author, answered>>

(* write() raises: the answer becomes a 500, and passes the hook unless it *)
(* was the second attempt that failed.                                     *)
Raise(t) ==
  /\ pc' = [pc EXCEPT ![t] = IF InHandler(t) THEN "after"
                             ELSE IF pc[t] \in {"after", "after_write"} THEN "again"
                             ELSE "answer"]
  /\ call' = [call EXCEPT ![t].code = 500, ![t].day = day]

(* The last line does not parse, so its hash cannot be chained to.         *)
AuditDamaged(t) ==
  /\ Opens(t) /\ auditLock = NONE /\ ~Parses(audit[call[t].day])
  /\ Raise(t)
  /\ UNCHANGED <<store, limiter, auditing, wire, clock, hist>>

(* Fault: the lock is not released when the write raises.                  *)
WriteFailsLocked(t) ==
  /\ Writes(t) /\ diskFaults < MaxDiskFaults
  /\ Raise(t)
  /\ audit' = [audit EXCEPT ![call[t].day] = Opened(@)]
  /\ diskFaults' = diskFaults + 1
  /\ UNCHANGED <<store, limiter, auditLock, wire, clock, requests, author, answered>>

(* os.open or os.write fails, or os.fsync does after the line is written.  *)
WriteAuditFails(t) ==
  /\ Writes(t) /\ diskFaults < MaxDiskFaults
  /\ Raise(t)
  /\ \E written \in BOOLEAN :
       audit' = [audit EXCEPT ![call[t].day] =
                   IF written THEN WriteLine(Opened(@), Record(t)) ELSE Opened(@)]
  /\ auditLock' = NONE /\ diskFaults' = diskFaults + 1
  /\ UNCHANGED <<store, limiter, wire, clock, requests, author, answered>>

-----------------------------------------------------------------------------
(* publish_record, in the process of the handler: only the server has      *)
(* browsers connected to it.                                               *)
Publish(t) ==
  /\ Respond(t, "publish", 202)
  /\ wire' = IF t \in Local THEN wire ELSE Sent(call[t].scan, 1)
  /\ UNCHANGED <<store, limiter, auditing, clock, hist>>

Answer(t) ==
  /\ Goto(t, "answer", "idle")
  /\ answered' = [answered EXCEPT ![call[t].id] = call[t].code]
  /\ call' = [call EXCEPT ![t] = NoCall]
  /\ UNCHANGED <<store, limiter, auditing, wire, clock, requests, diskFaults, author>>

Tick ==
  /\ now < MaxTime /\ now' = now + 1
  /\ UNCHANGED <<store, limiter, auditing, wire, pc, call, day, hist>>

NextDay ==
  /\ day < MaxDays /\ day' = day + 1
  /\ UNCHANGED <<store, limiter, auditing, wire, pc, call, now, hist>>

RequestStep(t) ==
  \/ LetThrough(t) \/ TurnAway(t) \/ Invalid(t) \/ Replay(t) \/ NotThere(t)
  \/ Accept(t) \/ Index(t) \/ TakeSnapshot(t) \/ Conflict(t)
  \/ OpenAudit(t) \/ WriteAudit(t) \/ AuditDamaged(t) \/ Publish(t) \/ Answer(t)

Mishap(t) == AppendFails(t) \/ WriteAuditShort(t) \/ WriteAuditFails(t)

ServerNext ==
  \/ \E t \in Threads : \/ \E s \in Scans : Arrive(t, s)
                        \/ RequestStep(t) \/ Mishap(t)
  \/ Tick \/ NextDay

-----------------------------------------------------------------------------
(* The requests process h let through whose times lie in the window that   *)
(* ends at i.                                                              *)
InWindow(h, i) == {r \in admitted[h] : i - Window < r[2] /\ r[2] <= i}

(* No more requests than Limit are let through in a window, but for one    *)
(* that each other thread of the process had on its way: a request goes by *)
(* the time it read before it waited for the limiter's lock.               *)
RateBounded ==
  \A h \in Processes, i \in 0..MaxTime :
    Cardinality(InWindow(h, i)) < Limit + Cardinality({t \in Threads : Host(t) = h})

(* The answer 202 goes to the one request that opened the journal of its   *)
(* scan, and that request is told nothing else unless a write after that   *)
(* failed: two submissions of one scan, from threads or processes, are     *)
(* never both accepted, whichever order their lookups and appends take.    *)
AcceptedOnce ==
  \A i \in 1..requests :
    /\ answered[i] = 202 => \E s \in Scans : author[s] = i
    /\ (\E s \in Scans : author[s] = i) => answered[i] \in {0, 202, 500}

Recorded(kind, i, code) ==
  \E d \in 1..MaxDays : \E n \in 1..Len(audit[d].lines) :
    audit[d].lines[n].kind = kind /\ audit[d].lines[n].id = i /\ audit[d].lines[n].code = code

(* While every audit file is whole, whoever was answered can find the      *)
(* answer in the audit log, and an accepted scan its scan.accepted; only a *)
(* 500 may be the answer whose own record could not be written.            *)
AnswersAudited ==
  (\A d \in 1..MaxDays : audit[d].tail \in {"absent", "clean"}) =>
    \A i \in 1..requests :
      /\ answered[i] \notin {0, 500} => Recorded("http.request", i, answered[i])
      /\ answered[i] = 202 => Recorded("scan.accepted", i, 202)

(* The records of an audit file that can be read back.  A line that does   *)
(* not parse is the last of its file, since nothing is written after it,   *)
(* and holds the last two records at most: a record and another that joined *)
(* it after its newline was lost, or a record and part of another.         *)
Legible(file) == 1..(IF Parses(file) THEN Len(file.lines) ELSE Len(file.lines) - 2)

(* Every record of an audit file that can be read back carries the hash of *)
(* the one before it, although threads and processes write them, across    *)
(* midnight, short writes and failed ones.                                 *)
AuditChained ==
  \A d \in 1..MaxDays : \A n \in Legible(audit[d]) :
    audit[d].lines[n].prev =
      LastLine([audit[d] EXCEPT !.lines = SubSeq(@, 1, n - 1)])

(* What clients are told: no more of them are let in than may be, one is   *)
(* accepted, and what they were told is on record, in an unbroken chain.   *)
AnswersSound == RateBounded /\ AcceptedOnce /\ AnswersAudited /\ AuditChained
=============================================================================
