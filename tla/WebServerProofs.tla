--------------------------- MODULE WebServerProofs ----------------------------
(***************************************************************************)
(* What clients of the REST API are told and what the dashboard shows,     *)
(* proved for any threads and processes, requests, days, failed and short  *)
(* writes, limit and window, any journals and run files, lost connections  *)
(* and failed requests.                                                    *)
(*                                                                         *)
(* The steps of a request change what the request's thread holds, the      *)
(* limiter, the audit log and, once, the journal of its scan.  Everything  *)
(* else in Dashboard leaves them alone and lets journals grow (Aside).     *)
(*                                                                         *)
(* Of the page, PageInv says that what it shows and the answers it waits   *)
(* for have been written, that they are no older than what it has read,    *)
(* and that a view resting on a decided run has that run's decision.       *)
(***************************************************************************)
EXTENDS Dashboard, FiniteSetTheorems, SequenceTheorems, TLAPS

Steps == {"idle", "limit", "lookup", "append", "index", "snapshot", "accepted",
          "accepted_write", "publish", "after", "after_write", "again", "again_write", "answer"}
Kinds == {"scan.accepted", "http.request"}
Codes == {0, 200, 202, 400, 409, 429, 500}

Mark      == {NONE} \cup (Kinds \X (0..MaxRequests) \X Codes)
Line      == [kind : Kinds, id : 0..MaxRequests, code : Codes, prev : Mark]
AuditFile == [lines : Seq(Line), tail : Tail_]
Request   == [scan : Scans \cup {NONE}, id : 0..MaxRequests, time : Nat, code : Codes,
              day : 0..MaxDays, prev : Mark]

ServerTypes ==
  /\ log \in [Scans -> Nat]
  /\ entries \in [Processes -> Seq(Nat)]
  /\ admitted \in [Processes -> SUBSET (Nat \X Nat)]
  /\ audit \in [1..MaxDays -> AuditFile] /\ auditLock \in Threads \cup {NONE}
  /\ pc \in [Threads -> Steps] /\ call \in [Threads -> Request]
  /\ now \in Nat /\ day \in 1..MaxDays /\ requests \in 0..MaxRequests
  /\ author \in [Scans -> 0..MaxRequests]
  /\ answered \in [1..MaxRequests -> Codes]

(* What a request has by the step it is at.                                *)
Underway(t) ==
  pc[t] # "idle" =>
    /\ call[t].scan \in Scans /\ call[t].id \in 1..requests /\ call[t].time <= now
    /\ answered[call[t].id] = 0
    /\ Opens(t) \/ Writes(t) => call[t].day \in 1..MaxDays
    /\ pc[t] \in {"limit", "lookup", "append", "index", "snapshot"} <=> call[t].code = 0
    /\ pc[t] \in {"accepted", "accepted_write", "publish"} => call[t].code = 202
    /\ pc[t] \in {"again", "again_write"} => call[t].code = 500

(* A number belongs to one request.                                        *)
Numbered ==
  /\ \A t, u \in Threads :
       pc[t] # "idle" /\ pc[u] # "idle" /\ call[t].id = call[u].id => t = u
  /\ \A i \in 1..MaxRequests : i > requests => answered[i] = 0

(* Only a request that has been made opens a journal, and it is open then. *)
Authored ==
  \A s \in Scans : author[s] \in 0..requests /\ (author[s] # 0 => log[s] > 0)

LockHeld == \A t \in Threads : Writes(t) <=> auditLock = t

TInv ==
  /\ ServerTypes /\ Numbered /\ Authored /\ LockHeld
  /\ \A t \in Threads : Underway(t)

served  == <<entries, admitted, audit, auditLock, pc, call, now, day, requests, author, answered>>

(* A step of the page, of the socket or of a stage.                        *)
Aside ==
  /\ UNCHANGED served
  /\ log' \in [Scans -> Nat] /\ \A s \in Scans : log[s] > 0 => log'[s] > 0

(* A step by which a request gets its answer without the audit log: 202    *)
(* when all is done, and 500 once it has opened a journal.                 *)
Answering == {"limit", "lookup", "append", "index", "snapshot", "publish"}
RespondsSo(t, from, code) ==
  /\ Respond(t, from, code) /\ (code = 202 <=> from = "publish")
  /\ from \in {"index", "snapshot"} => code = 500

Replies(t) ==
  /\ \E from \in Answering, code \in Codes \ {0} : RespondsSo(t, from, code)
  /\ \/ entries' = entries
     \/ pc[t] = "limit" /\ entries' = [entries EXCEPT ![Host(t)] = Live(t)]
  /\ UNCHANGED <<log, admitted, audit, auditLock, now, day, requests, author, answered>>

-----------------------------------------------------------------------------
(* The least of a set of positions; the finite subsets of a set are well   *)
(* founded.                                                                *)
LEMMA LeastPosition ==
  ASSUME NEW n \in Nat, NEW S \in SUBSET (1..n), S # {}
  PROVE  \E m \in S : \A k \in S : m <= k
<1> DEFINE T == {1..k : k \in S}
<1>1. T \in SUBSET SUBSET (1..n) /\ T # {}
  <2>1. \A k \in S : 1..k \subseteq 1..n
    OBVIOUS
  <2> QED BY <2>1
<1>2. IsFiniteSet(1..n)
  BY FS_Interval
<1>3. PICK x \in T : \A y \in T : ~(<<y, x>> \in StrictSubsetOrdering(1..n))
  <2> HIDE DEF T
  <2>1. IsWellFoundedOn(StrictSubsetOrdering(1..n), FiniteSubsetsOf(1..n))
    BY FS_StrictSubsetOrderingWellFounded
  <2>2. T \subseteq FiniteSubsetsOf(1..n)
    BY <1>1, <1>2, FS_FiniteSubsetsOfFinite
  <2> QED BY <2>1, <2>2, <1>1, WFMin
<1>4. PICK m \in S : x = 1..m
  OBVIOUS
<1>5. \A k \in S : ~(k < m)
  <2> SUFFICES ASSUME NEW k \in S, k < m PROVE FALSE
    OBVIOUS
  <2>1. /\ 1..k \subseteq 1..m /\ m \in 1..m /\ m \notin 1..k
        /\ 1..k \in SUBSET (1..n) /\ 1..m \in SUBSET (1..n)
    OBVIOUS
  <2>2. <<1..k, 1..m>> \in StrictSubsetOrdering(1..n)
    BY <2>1 DEF StrictSubsetOrdering
  <2>3. 1..k \in T
    OBVIOUS
  <2> QED BY <1>3, <1>4, <2>2, <2>3
<1>6. \A k \in S : k \in Nat
  OBVIOUS
<1> QED BY <1>5, <1>6

(* What is left of a sequence of times: nothing if none is fresh, or what  *)
(* begins at the first that is.                                            *)
LEMMA SinceIs ==
  ASSUME NEW times \in Seq(Nat), NEW a \in Int
  PROVE  \/ /\ \A k \in 1..Len(times) : times[k] <= a
            /\ Since(times, a) = <<>>
         \/ \E f \in 1..Len(times) :
              /\ times[f] > a /\ \A k \in 1..(f - 1) : times[k] <= a
              /\ Since(times, a) = SubSeq(times, f, Len(times))
<1> DEFINE fresh == {k \in 1..Len(times) : times[k] > a}
           first == CHOOSE k \in fresh : \A j \in fresh : k <= j
<1>1. CASE fresh = {}
  <2>1. Since(times, a) = <<>>
    BY <1>1 DEF Since
  <2> QED BY <1>1, <2>1
<1>2. CASE fresh # {}
  <2>1. \E k \in fresh : \A j \in fresh : k <= j
    <3> HIDE DEF fresh
    <3>1. fresh \in SUBSET (1..Len(times)) /\ Len(times) \in Nat
      BY DEF fresh
    <3> QED BY <3>1, <1>2, LeastPosition
  <2>2. first \in fresh /\ \A j \in fresh : first <= j
    BY <2>1
  <2>3. Since(times, a) = SubSeq(times, first, Len(times))
    BY <1>2 DEF Since
  <2>4. first \in 1..Len(times) /\ times[first] > a
    BY <2>2
  <2>5. \A k \in 1..(first - 1) : times[k] <= a
    <3> SUFFICES ASSUME NEW k \in 1..(first - 1), ~(times[k] <= a) PROVE FALSE
      OBVIOUS
    <3> HIDE DEF first
    <3>1. k \in 1..Len(times) /\ k < first
      BY <2>4
    <3>2. k \in fresh
      BY <3>1
    <3> QED BY <3>1, <3>2, <2>2, <2>4
  <2> QED BY <2>3, <2>4, <2>5
<1> QED BY <1>1, <1>2

(* What is left of a sequence of times is one.                             *)
LEMMA SinceType ==
  ASSUME NEW times \in Seq(Nat), NEW a \in Int
  PROVE  Since(times, a) \in Seq(Nat) /\ Len(Since(times, a)) \in Nat
<1>1. CASE Since(times, a) = <<>>
  BY <1>1
<1>2. ASSUME NEW f \in 1..Len(times), Since(times, a) = SubSeq(times, f, Len(times))
      PROVE  Since(times, a) \in Seq(Nat) /\ Len(Since(times, a)) \in Nat
  <2>1. SubSeq(times, f, Len(times)) \in Seq(Nat)
    OBVIOUS
  <2> QED BY <1>2, <2>1
<1> QED BY <1>1, <1>2, SinceIs

(* What is left begins at f, which is not after n.                         *)
Begins(times, a, n, f) ==
  /\ f <= n /\ times[f] > a /\ times[f] \in Nat
  /\ Since(times, a) = SubSeq(times, f, Len(times))
  /\ Len(Since(times, a)) = Len(times) - f + 1

(* If something is fresh, what is left begins there or before.             *)
LEMMA SinceHas ==
  ASSUME NEW times \in Seq(Nat), NEW a \in Int, NEW n \in 1..Len(times), times[n] > a
  PROVE  \E f \in 1..Len(times) : Begins(times, a, n, f)
<1>1. times[n] \in Nat
  OBVIOUS
<1>2. ~ \A k \in 1..Len(times) : times[k] <= a
  BY <1>1
<1>3. PICK f \in 1..Len(times) :
        /\ times[f] > a /\ \A k \in 1..(f - 1) : times[k] <= a
        /\ Since(times, a) = SubSeq(times, f, Len(times))
  BY <1>2, SinceIs
<1>4. Len(SubSeq(times, f, Len(times))) = Len(times) - f + 1 /\ times[f] \in Nat
  OBVIOUS
<1>5. f <= n
  <2> SUFFICES ASSUME ~(f <= n) PROVE FALSE
    OBVIOUS
  <2>1. n \in 1..(f - 1)
    OBVIOUS
  <2> QED BY <1>1, <1>3, <2>1
<1> QED BY <1>3, <1>4, <1>5 DEF Begins

(* If nothing is fresh, nothing is left.                                   *)
LEMMA SinceEmpty ==
  ASSUME NEW times \in Seq(Nat), NEW a \in Int,
         ~ \E n \in 1..Len(times) : times[n] > a
  PROVE  Len(Since(times, a)) = 0
<1>1. Since(times, a) = <<>>
  BY SinceIs
<1> QED BY <1>1

(* The later the threshold, the less is left.                              *)
LEMMA SinceShrinks ==
  ASSUME NEW times \in Seq(Nat), NEW a \in Int, NEW b \in Int, b <= a
  PROVE  Len(Since(times, a)) <= Len(Since(times, b))
<1>0. Len(Since(times, b)) \in Nat
  BY SinceType
<1>1. CASE ~ \E n \in 1..Len(times) : times[n] > a
  BY <1>0, <1>1, SinceEmpty
<1>2. ASSUME NEW n \in 1..Len(times), times[n] > a
      PROVE  Len(Since(times, a)) <= Len(Since(times, b))
  <2>1. PICK f \in 1..Len(times) : Begins(times, a, n, f)
    BY <1>2, SinceHas, Zenon
  <2>2. times[f] > b
    BY <2>1 DEF Begins
  <2>3. PICK g \in 1..Len(times) : Begins(times, b, f, g)
    BY <2>2, SinceHas, Zenon
  <2> QED BY <2>1, <2>3 DEF Begins
<1> QED BY <1>1, <1>2

(* Taking off up to an earlier threshold first takes nothing that stays.   *)
LEMMA SinceSince ==
  ASSUME NEW times \in Seq(Nat), NEW a \in Int, NEW b \in Int, b <= a,
         NEW left \in Seq(Nat), left = Since(times, b)
  PROVE  Len(Since(times, a)) <= Len(Since(left, a))
<1>0. Len(Since(left, a)) \in Nat
  BY SinceType
<1>1. CASE ~ \E n \in 1..Len(times) : times[n] > a
  BY <1>0, <1>1, SinceEmpty
<1>2. ASSUME NEW n \in 1..Len(times), times[n] > a
      PROVE  Len(Since(times, a)) <= Len(Since(left, a))
  <2>1. PICK f \in 1..Len(times) : Begins(times, a, n, f)
    BY <1>2, SinceHas, Zenon
  <2>2. times[f] > b
    BY <2>1 DEF Begins
  <2>3. PICK g \in 1..Len(times) : Begins(times, b, f, g)
    BY <2>2, SinceHas, Zenon
  <2>4. /\ g <= f /\ left = SubSeq(times, g, Len(times))
        /\ Len(left) = Len(times) - g + 1
    BY <2>3 DEF Begins
  <2>5. \A k \in 1..Len(left) : left[k] = times[k + g - 1]
    BY <2>4
  <2>6. PICK m \in 1..Len(left) : m = f - g + 1
    BY <2>4
  <2>7. left[m] > a
    <3>1. m + g - 1 = f
      BY <2>6
    <3>2. left[m] = times[f]
      BY <2>5, <3>1
    <3> QED BY <2>1, <3>2 DEF Begins
  <2>8. PICK h \in 1..Len(left) : Begins(left, a, m, h)
    BY <2>7, SinceHas, Zenon
  <2>9. h <= m /\ Len(Since(left, a)) = Len(left) - h + 1
    BY <2>8 DEF Begins
  <2>10. Len(Since(times, a)) = Len(times) - f + 1
    BY <2>1 DEF Begins
  <2> QED BY <2>4, <2>6, <2>9, <2>10
<1> QED BY <1>1, <1>2

(* A new entry stays with what is left, and counts if it is fresh.         *)
LEMMA SinceAppend ==
  ASSUME NEW times \in Seq(Nat), NEW a \in Int, NEW x \in Nat,
         NEW more \in Seq(Nat), more = Append(times, x)
  PROVE  /\ Len(Since(times, a)) <= Len(Since(more, a))
         /\ x > a => Len(Since(times, a)) + 1 <= Len(Since(more, a))
<1>0. /\ Len(more) = Len(times) + 1 /\ more[Len(times) + 1] = x
      /\ \A k \in 1..Len(times) : more[k] = times[k]
  OBVIOUS
<1>1. Len(Since(more, a)) \in Nat /\ Len(Since(times, a)) \in Nat
  BY SinceType
<1>2. CASE ~ \E n \in 1..Len(times) : times[n] > a
  <2>1. Len(Since(times, a)) = 0
    BY <1>2, SinceEmpty
  <2>2. ASSUME x > a PROVE 1 <= Len(Since(more, a))
    <3>1. PICK n \in 1..Len(more) : n = Len(times) + 1
      BY <1>0
    <3>2. more[n] > a
      BY <1>0, <2>2, <3>1
    <3>3. PICK h \in 1..Len(more) : Begins(more, a, n, h)
      BY <3>2, SinceHas, Zenon
    <3> QED BY <3>3 DEF Begins
  <2> QED BY <1>1, <2>1, <2>2
<1>3. ASSUME NEW n \in 1..Len(times), times[n] > a
      PROVE  Len(Since(times, a)) + 1 <= Len(Since(more, a))
  <2>1. PICK f \in 1..Len(times) : Begins(times, a, n, f)
    BY <1>3, SinceHas, Zenon
  <2>2. PICK m \in 1..Len(more) : m = f
    BY <1>0
  <2>3. more[m] > a
    BY <1>0, <2>1, <2>2 DEF Begins
  <2>4. PICK h \in 1..Len(more) : Begins(more, a, m, h)
    BY <2>3, SinceHas, Zenon
  <2> QED BY <1>0, <2>1, <2>2, <2>4 DEF Begins
<1>4. CASE \E n \in 1..Len(times) : times[n] > a
  <2>1. Len(Since(times, a)) + 1 <= Len(Since(more, a))
    BY <1>4, <1>3
  <2> QED BY <1>1, <2>1
<1> QED BY <1>2, <1>4

-----------------------------------------------------------------------------
(* Types of what the steps of a request write.                             *)
LEMMA HostType == \A t \in Threads : Host(t) \in Processes
  BY DEF Host, Processes

(* An idle thread holds the empty request.                                 *)
LEMMA EmptyRequest == NoCall \in Request
<1>1. 0 \in 0..MaxRequests /\ 0 \in 0..MaxDays
  BY ServerAssumption
<1> QED BY <1>1 DEF NoCall, Request, Mark, Codes

(* A server that has just been started.                                    *)
LEMMA InitTypes == Init => TInv
<1> SUFFICES ASSUME Init PROVE TInv
  OBVIOUS
<1> USE ServerAssumption DEF Init, ServerInit, ServerRest
<1>1. NoFile \in AuditFile
  BY DEF NoFile, AuditFile, Tail_
<1>2. ServerTypes
  <2>1. log \in [Scans -> Nat] /\ entries \in [Processes -> Seq(Nat)]
        /\ admitted \in [Processes -> SUBSET (Nat \X Nat)]
    OBVIOUS
  <2>2. audit \in [1..MaxDays -> AuditFile] /\ auditLock \in Threads \cup {NONE}
    BY <1>1
  <2>3. pc \in [Threads -> Steps] /\ call \in [Threads -> Request]
    BY EmptyRequest DEF Steps
  <2>4. /\ now \in Nat /\ day \in 1..MaxDays /\ requests \in 0..MaxRequests
        /\ author \in [Scans -> 0..MaxRequests] /\ answered \in [1..MaxRequests -> Codes]
    BY DEF Codes
  <2> QED BY <2>1, <2>2, <2>3, <2>4 DEF ServerTypes
<1>3. Numbered /\ Authored
  BY DEF Numbered, Authored
<1>4. LockHeld
  BY DEF LockHeld, Writes
<1>5. \A t \in Threads : Underway(t)
  BY DEF Underway
<1> QED BY <1>2, <1>3, <1>4, <1>5 DEF TInv

(* What the steps of Next are to a request.                                *)
Serves(t) ==
  \/ \E s \in Scans : Arrive(t, s)
  \/ LetThrough(t) \/ Replies(t) \/ NotThere(t) \/ Accept(t) \/ Index(t) \/ TakeSnapshot(t)
  \/ OpenAudit(t) \/ WriteAudit(t)
  \/ AuditDamaged(t) \/ Answer(t) \/ WriteAuditShort(t) \/ WriteAuditFails(t)

(* The steps that answer a request without the audit log.                  *)
LEMMA RepliesAre ==
  ASSUME TInv, NEW t \in Threads,
         \/ TurnAway(t) \/ Invalid(t) \/ Replay(t) \/ Conflict(t) \/ Publish(t)
         \/ AppendFails(t)
  PROVE  Replies(t)
<1>0. {200, 202, 400, 409, 429, 500} \subseteq Codes \ {0}
  BY DEF Codes
<1>1. CASE TurnAway(t)
  <2>1. Respond(t, "limit", 429) /\ pc[t] = "limit"
        /\ entries' = [entries EXCEPT ![Host(t)] = Live(t)]
        /\ UNCHANGED <<log, admitted, audit, auditLock, now, day, requests, author, answered>>
    BY <1>1 DEF TurnAway, store, auditing, clock, hist
  <2> QED BY <1>0, <2>1 DEF Replies, RespondsSo, Answering
<1>2. CASE Invalid(t)
  <2>1. PICK code \in {400, 409} : Respond(t, "lookup", code)
    BY <1>2 DEF Invalid
  <2>2. UNCHANGED <<log, entries, admitted, audit, auditLock, now, day, requests, author, answered>>
    BY <1>2 DEF Invalid, store, limiter, auditing, clock, hist
  <2> QED BY <1>0, <2>1, <2>2 DEF Replies, RespondsSo, Answering
<1>3. CASE Replay(t)
  <2>1. Respond(t, "lookup", 200)
        /\ UNCHANGED <<log, entries, admitted, audit, auditLock, now, day, requests, author, answered>>
    BY <1>3 DEF Replay, store, limiter, auditing, clock, hist
  <2> QED BY <1>0, <2>1 DEF Replies, RespondsSo, Answering
<1>4. CASE Conflict(t)
  <2>1. Respond(t, "append", 409)
        /\ UNCHANGED <<log, entries, admitted, audit, auditLock, now, day, requests, author, answered>>
    BY <1>4 DEF Conflict, store, limiter, auditing, clock, hist
  <2> QED BY <1>0, <2>1 DEF Replies, RespondsSo, Answering
<1>5. CASE Publish(t)
  <2>1. Respond(t, "publish", 202)
        /\ UNCHANGED <<log, entries, admitted, audit, auditLock, now, day, requests, author, answered>>
    BY <1>5 DEF Publish, store, limiter, auditing, clock, hist
  <2> QED BY <1>0, <2>1 DEF Replies, RespondsSo, Answering
<1>6. CASE AppendFails(t)
  <2>1. PICK from \in {"append", "index", "snapshot"} : Respond(t, from, 500)
    BY <1>6 DEF AppendFails
  <2>2. UNCHANGED <<log, entries, admitted, audit, auditLock, now, day, requests, author, answered>>
    BY <1>6 DEF AppendFails, store, limiter, auditing, clock
  <2> QED BY <1>0, <2>1, <2>2 DEF Replies, RespondsSo, Answering
<1> QED BY <1>1, <1>2, <1>3, <1>4, <1>5, <1>6

(* An event of a stage lets its journal grow and concerns no request.      *)
LEMMA EmitAside ==
  ASSUME TInv, NEW s \in Scans, NEW here \in BOOLEAN, Emit(s, here)
  PROVE  Aside
<1>1. log' = [log EXCEPT ![s] = @ + 1] /\ log \in [Scans -> Nat]
  BY DEF Emit, TInv, ServerTypes
<1>2. UNCHANGED served
  BY DEF Emit, served, limiter, auditing, clock, hist
<1> QED BY <1>1, <1>2 DEF Aside

(* Whatever happens is a step of the rest, of the clock, or of one         *)
(* request.                                                                *)
LEMMA StepsAre ==
  ASSUME TInv, [Next]_vars
  PROVE  Aside \/ Tick \/ NextDay \/ \E t \in Threads : Serves(t)
<1>0. ASSUME UNCHANGED svars PROVE Aside
  BY <1>0 DEF svars, Aside, served, store, limiter, auditing, clock, hist, TInv, ServerTypes
<1>a. ASSUME UNCHANGED <<log, limiter, auditing, pc, call, clock, hist>> PROVE Aside
  BY <1>a DEF Aside, served, limiter, auditing, clock, hist, TInv, ServerTypes
<1>1. CASE Writers
  <2>1. PICK t \in Threads : \/ \E s \in Scans : Arrive(t, s)
                             \/ RequestStep(t) \/ Mishap(t)
    BY <1>1 DEF Writers
  <2> QED BY <2>1, RepliesAre DEF RequestStep, Mishap, Serves
<1>2. CASE Clock
  BY <1>2 DEF Clock
<1>3. ASSUME NEW s \in Scans, NEW here \in BOOLEAN, Emit(s, here) PROVE Aside
  BY <1>3, EmitAside
<1>4. ASSUME NEW a \in appends, IndexEvent(a) \/ SnapshotEvent(a) \/ Broadcast(a) PROVE Aside
  BY <1>4, <1>a DEF IndexEvent, SnapshotEvent, Broadcast, store
<1>5. ASSUME NEW s \in Scans, SaveRun(s) \/ RequestFails(s) PROVE Aside
  <2>1. UNCHANGED svars
    BY <1>5 DEF SaveRun, RequestFails, Answered
  <2> QED BY <2>1, <1>0
<1>6. CASE Connect \/ Drop \/ Deliver
  BY <1>6, <1>a DEF Connect, Drop, Deliver, store
<1>7. CASE LatestFails \/ RefreshStep
  <2>1. UNCHANGED svars
    BY <1>7 DEF LatestFails, RefreshStep, Load, StartRefresh, AnswerLatest, TakeList,
                FinishRefresh, AnswerStep, AnswerSnapshot, AnswerEvents, AnswerRun, Answered,
                Hydrate
  <2> QED BY <2>1, <1>0
<1>8. CASE UNCHANGED vars
  BY <1>8, <1>0 DEF vars
<1> QED BY <1>1, <1>2, <1>3, <1>4, <1>5, <1>6, <1>7, <1>8 DEF Next
-----------------------------------------------------------------------------
(* Every step keeps the types and what requests rely on.                   *)
Alone(t) == \A u \in Threads \ {t} : pc'[u] = pc[u] /\ call'[u] = call[u]

(* A step of one request leaves the others what they have.                 *)
LEMMA OthersUnderway ==
  ASSUME TInv, NEW t \in Threads, Alone(t),
         requests' \in Nat, requests' >= requests, now' \in Nat, now' >= now,
         \A u \in Threads \ {t} : pc[u] # "idle" => answered'[call[u].id] = answered[call[u].id]
  PROVE  \A u \in Threads \ {t} : Underway(u)'
<1> SUFFICES ASSUME NEW u \in Threads \ {t} PROVE Underway(u)'
  OBVIOUS
<1>1. pc'[u] = pc[u] /\ call'[u] = call[u] /\ Underway(u)
  BY DEF Alone, TInv
<1>2. call[u].id \in Nat /\ call[u].time \in Nat /\ requests \in Nat /\ now \in Nat
  BY DEF TInv, ServerTypes, Request
<1> QED BY <1>1, <1>2 DEF Underway, Opens, Writes

(* The files of the audit log stay files of the audit log.                 *)
LEMMA AuditTypes ==
  ASSUME NEW file \in AuditFile, NEW r \in Line, NEW left \in {"fragment", "unterminated"}
  PROVE  /\ Opened(file) \in AuditFile /\ WriteLine(file, r) \in AuditFile
         /\ WritePart(file, r, left) \in AuditFile
  BY DEF AuditFile, Opened, EmptyFile, WriteLine, WritePart, Tail_

(* What is about to be written is a line, and its day has a file.          *)
LEMMA RecordType ==
  ASSUME TInv, NEW t \in Threads, Writes(t)
  PROVE  Record(t) \in Line /\ call[t].day \in 1..MaxDays
<1>1. Underway(t) /\ call[t] \in Request /\ pc[t] # "idle"
  BY DEF TInv, ServerTypes, Writes
<1> QED BY <1>1 DEF Underway, Record, Line, Request, Kinds

(* A request that goes on to another step, with a new code and day.        *)
Marked(t, code) == call' = [call EXCEPT ![t].code = code, ![t].day = day]

(* A marked request keeps everything but its code and its day.             *)
LEMMA RequestTypes ==
  ASSUME TInv, NEW t \in Threads, NEW code \in Codes, Marked(t, code)
  PROVE  /\ call' \in [Threads -> Request]
         /\ call'[t].scan = call[t].scan /\ call'[t].id = call[t].id
         /\ call'[t].time = call[t].time /\ call'[t].prev = call[t].prev
         /\ call'[t].code = code /\ call'[t].day = day
         /\ \A u \in Threads \ {t} : call'[u] = call[u]
<1>1. call \in [Threads -> Request] /\ day \in 0..MaxDays
  BY DEF TInv, ServerTypes
<1>2. [call[t] EXCEPT !.code = code, !.day = day] \in Request
  BY <1>1 DEF Request
<1>3. call' = [call EXCEPT ![t] = [call[t] EXCEPT !.code = code, !.day = day]]
  BY <1>1 DEF Marked
<1> QED BY <1>1, <1>2, <1>3 DEF Request

(* A request that is answered goes to the audit hook.                      *)
LEMMA RepliesTyped ==
  ASSUME TInv, NEW t \in Threads, Replies(t)
  PROVE  TInv' /\ Alone(t) /\ pc'[t] = "after"
<1>1. PICK from \in Answering, code \in Codes \ {0} : RespondsSo(t, from, code)
  BY DEF Replies
<1>2. /\ pc[t] = from /\ pc' = [pc EXCEPT ![t] = "after"]
      /\ call' = [call EXCEPT ![t].code = code, ![t].day = day] /\ day \in 1..MaxDays
  BY <1>1 DEF RespondsSo, Respond, Goto, TInv, ServerTypes
<1>3. UNCHANGED <<log, admitted, audit, auditLock, now, day, requests, author, answered>>
  BY DEF Replies
<1>4. pc' \in [Threads -> Steps] /\ pc'[t] = "after"
  BY <1>2 DEF TInv, ServerTypes, Steps
<1>a. /\ call' \in [Threads -> Request]
      /\ call'[t].scan = call[t].scan /\ call'[t].id = call[t].id
      /\ call'[t].time = call[t].time /\ call'[t].code = code /\ call'[t].day = day
      /\ \A u \in Threads \ {t} : call'[u] = call[u]
  <2>1. code \in Codes
    OBVIOUS
  <2>2. Marked(t, code)
    BY <1>2 DEF Marked
  <2> QED BY <2>1, <2>2, RequestTypes
<1>5. Alone(t)
  BY <1>2, <1>a DEF Alone, TInv, ServerTypes
<1>6. entries' \in [Processes -> Seq(Nat)]
  <2>1. Live(t) \in Seq(Nat)
    <3>1. entries[Host(t)] \in Seq(Nat) /\ call[t].time - Window \in Int
      BY HostType, ServerAssumption DEF TInv, ServerTypes, Request
    <3> QED BY <3>1, SinceType DEF Live
  <2>2. entries \in [Processes -> Seq(Nat)] /\ Host(t) \in Processes
    BY HostType DEF TInv, ServerTypes
  <2>3. entries' = entries \/ entries' = [entries EXCEPT ![Host(t)] = Live(t)]
    BY DEF Replies
  <2>4. CASE entries' = [entries EXCEPT ![Host(t)] = Live(t)]
    BY <2>1, <2>2, <2>4, Zenon
  <2> QED BY <2>2, <2>3, <2>4
<1>7. ServerTypes'
  BY <1>2, <1>3, <1>4, <1>6, <1>a DEF TInv, ServerTypes
<1>8. \A u \in Threads \ {t} : Underway(u)'
  BY <1>3, <1>5, OthersUnderway DEF TInv, ServerTypes
<1>9. Underway(t)'
  <2>1. Underway(t) /\ pc[t] # "idle"
    BY <1>2 DEF TInv, Answering
  <2> QED BY <1>2, <1>3, <1>4, <1>a, <2>1 DEF Underway
<1>10. Numbered' /\ Authored'
  <2>1. call'[t].id = call[t].id /\ pc[t] # "idle"
    BY <1>2, <1>a DEF Answering
  <2> QED BY <1>3, <1>5, <2>1 DEF TInv, Numbered, Authored, Alone
<1>11. LockHeld'
  BY <1>2, <1>3, <1>4, <1>5 DEF TInv, LockHeld, Writes, Alone, Answering
<1> QED BY <1>4, <1>5, <1>7, <1>8, <1>9, <1>10, <1>11 DEF TInv

(* A new request gets a number nobody has.                                 *)
LEMMA ArriveTyped ==
  ASSUME TInv, NEW t \in Threads, NEW s \in Scans, Arrive(t, s)
  PROVE  TInv' /\ Alone(t)
<1> DEFINE new == [NoCall EXCEPT !.scan = s, !.id = requests + 1, !.time = now]
<1>1. /\ pc[t] = "idle" /\ pc' = [pc EXCEPT ![t] = "limit"]
      /\ requests < MaxRequests /\ requests' = requests + 1 /\ call' = [call EXCEPT ![t] = new]
      /\ UNCHANGED <<log, entries, admitted, audit, auditLock, now, day, author, answered>>
  BY DEF Arrive, Goto, store, limiter, auditing, clock
<1>2. requests \in Nat /\ requests + 1 \in 1..MaxRequests /\ now \in Nat
  BY <1>1, ServerAssumption DEF TInv, ServerTypes
<1>3. /\ new \in Request /\ new.scan = s /\ new.id = requests + 1 /\ new.time = now
      /\ new.code = 0
  <2>1. requests + 1 \in 0..MaxRequests
    BY <1>2
  <2>2. NoCall \in Request /\ NoCall.code = 0
    BY EmptyRequest DEF NoCall
  <2>3. new \in Request
    BY <1>2, <2>1, <2>2 DEF Request
  <2> QED BY <2>2, <2>3 DEF Request
<1> HIDE DEF new
<1>4. pc' \in [Threads -> Steps] /\ pc'[t] = "limit" /\ call'[t] = new /\ Alone(t)
  BY <1>1, <1>3 DEF TInv, ServerTypes, Steps, Alone
<1>5. ServerTypes'
  <2>1. call' \in [Threads -> Request] /\ requests' \in 0..MaxRequests
    BY <1>1, <1>2, <1>3 DEF TInv, ServerTypes
  <2> QED BY <1>1, <1>4, <2>1 DEF TInv, ServerTypes
<1>6. \A u \in Threads \ {t} : Underway(u)'
  BY <1>1, <1>2, <1>4, OthersUnderway
<1>7. answered[requests + 1] = 0
  BY <1>2 DEF TInv, Numbered
<1>8. Underway(t)'
  BY <1>1, <1>2, <1>3, <1>4, <1>7 DEF Underway, Opens, Writes
<1>9. Numbered'
  <2>1. \A u \in Threads \ {t} : pc[u] # "idle" => call[u].id # requests + 1
    BY <1>2 DEF TInv, Underway, ServerTypes, Request
  <2>2. \A u, v \in Threads :
          pc'[u] # "idle" /\ pc'[v] # "idle" /\ call'[u].id = call'[v].id => u = v
    BY <1>3, <1>4, <2>1 DEF TInv, Numbered, Alone
  <2>3. \A i \in 1..MaxRequests : i > requests' => answered'[i] = 0
    BY <1>1, <1>2 DEF TInv, Numbered
  <2> QED BY <2>2, <2>3 DEF Numbered
<1>10. Authored'
  BY <1>1, <1>2 DEF TInv, Authored, ServerTypes
<1>11. LockHeld'
  BY <1>1, <1>4 DEF TInv, LockHeld, Writes, Alone
<1> QED BY <1>4, <1>5, <1>6, <1>8, <1>9, <1>10, <1>11 DEF TInv
(* A step of a request that keeps its number.                              *)
LEMMA GoesOn ==
  ASSUME TInv, NEW t \in Threads, Alone(t), pc[t] # "idle", call'[t].id = call[t].id,
         UNCHANGED <<now, requests, answered>>,
         ServerTypes', Underway(t)', Authored', LockHeld'
  PROVE  TInv'
<1>1. \A u \in Threads \ {t} : Underway(u)'
  BY OthersUnderway DEF TInv, ServerTypes
<1>2. Numbered'
  BY DEF TInv, Numbered, Alone
<1> QED BY <1>1, <1>2 DEF TInv

(* LetThrough, NotThere and Index.                                         *)
LEMMA MovesTyped ==
  ASSUME TInv, NEW t \in Threads, LetThrough(t) \/ NotThere(t) \/ Index(t)
  PROVE  TInv' /\ Alone(t) /\ pc'[t] \in {"lookup", "append", "snapshot"}
<1>1. PICK from \in {"limit", "lookup", "index"}, to \in {"lookup", "append", "snapshot"} :
        /\ pc[t] = from /\ pc' = [pc EXCEPT ![t] = to]
        /\ UNCHANGED <<log, audit, auditLock, call, now, day, requests, author, answered>>
  BY DEF LetThrough, NotThere, Index, Goto, store, auditing, clock, hist
<1>2. pc' \in [Threads -> Steps] /\ pc'[t] = to /\ Alone(t)
  BY <1>1 DEF TInv, ServerTypes, Steps, Alone
<1>3. entries' \in [Processes -> Seq(Nat)] /\ admitted' \in [Processes -> SUBSET (Nat \X Nat)]
  <2>0. /\ entries \in [Processes -> Seq(Nat)] /\ Host(t) \in Processes
        /\ admitted \in [Processes -> SUBSET (Nat \X Nat)]
    BY HostType DEF TInv, ServerTypes
  <2>1. CASE NotThere(t) \/ Index(t)
    BY <2>0, <2>1 DEF NotThere, Index, limiter
  <2>2. CASE LetThrough(t)
    <3>1. call[t].time \in Nat /\ call[t].id \in Nat
      BY DEF TInv, ServerTypes, Request
    <3>2. Live(t) \in Seq(Nat)
      BY <2>0, <3>1, SinceType, ServerAssumption DEF Live
    <3>3. Append(Live(t), call[t].time) \in Seq(Nat)
      BY <3>1, <3>2
    <3>4. admitted[Host(t)] \cup {<<call[t].id, call[t].time>>} \in SUBSET (Nat \X Nat)
      BY <2>0, <3>1
    <3>5. /\ entries' = [entries EXCEPT ![Host(t)] = Append(Live(t), call[t].time)]
          /\ admitted' = [admitted EXCEPT ![Host(t)] =
                            admitted[Host(t)] \cup {<<call[t].id, call[t].time>>}]
      BY <2>2 DEF LetThrough
    <3>6. entries' \in [Processes -> Seq(Nat)]
      BY <2>0, <3>3, <3>5, Zenon
    <3> QED BY <2>0, <3>4, <3>5, <3>6, Zenon
  <2> QED BY <2>1, <2>2
<1>4. ServerTypes'
  BY <1>1, <1>2, <1>3 DEF TInv, ServerTypes
<1>5. Underway(t)'
  BY <1>1, <1>2 DEF TInv, Underway, Opens, Writes
<1>6. Authored' /\ LockHeld'
  BY <1>1, <1>2 DEF TInv, Authored, LockHeld, Writes, Alone
<1> QED BY <1>1, <1>2, <1>4, <1>5, <1>6, GoesOn

(* A request that opens the journal of its scan.                           *)
LEMMA AcceptTyped ==
  ASSUME TInv, NEW t \in Threads, Accept(t)
  PROVE  TInv' /\ Alone(t) /\ pc'[t] = "index"
<1> DEFINE s == call[t].scan
<1>1. /\ pc[t] = "append" /\ pc' = [pc EXCEPT ![t] = "index"]
      /\ log[s] = 0 /\ log' = [log EXCEPT ![s] = log[s] + 1]
      /\ author' = [author EXCEPT ![s] = call[t].id]
      /\ UNCHANGED <<entries, admitted, audit, auditLock, call, now, day, requests, answered>>
  BY DEF Accept, Opening, Goto, limiter, auditing, clock
<1>2. s \in Scans /\ call[t].id \in 1..requests /\ Underway(t)
  BY <1>1 DEF TInv, Underway
<1> HIDE DEF s
<1>5. pc' \in [Threads -> Steps] /\ pc'[t] = "index" /\ Alone(t)
  BY <1>1 DEF TInv, ServerTypes, Steps, Alone
<1>6. ServerTypes'
  <2>1. log' \in [Scans -> Nat]
    BY <1>1, <1>2 DEF TInv, ServerTypes
  <2>2. call[t].id \in 0..MaxRequests
    BY DEF TInv, ServerTypes, Request
  <2>3. author' \in [Scans -> 0..MaxRequests]
    BY <1>1, <1>2, <2>2 DEF TInv, ServerTypes
  <2> QED BY <1>1, <1>5, <2>1, <2>3 DEF TInv, ServerTypes
<1>7. Underway(t)'
  BY <1>1, <1>2, <1>5 DEF TInv, Underway, Opens, Writes
<1>8. Authored'
  BY <1>1, <1>2 DEF TInv, ServerTypes, Authored
<1>9. LockHeld'
  BY <1>1, <1>5 DEF TInv, LockHeld, Writes, Alone
<1> QED BY <1>1, <1>5, <1>6, <1>7, <1>8, <1>9, GoesOn

(* A request that has written the last projection is to be answered 202.   *)
LEMMA SnapshotTyped ==
  ASSUME TInv, NEW t \in Threads, TakeSnapshot(t)
  PROVE  /\ TInv' /\ Alone(t) /\ pc[t] = "snapshot" /\ pc'[t] = "accepted"
         /\ call'[t].scan = call[t].scan /\ call'[t].id = call[t].id /\ call'[t].code = 202
<1>1. /\ pc[t] = "snapshot" /\ pc' = [pc EXCEPT ![t] = "accepted"] /\ Marked(t, 202)
      /\ UNCHANGED <<log, entries, admitted, audit, auditLock, now, day, requests, author, answered>>
  BY DEF TakeSnapshot, Goto, Marked, limiter, auditing, clock, hist
<1>2. Underway(t)
  BY DEF TInv
<1>3. 202 \in Codes
  BY DEF Codes
<1>4. /\ call' \in [Threads -> Request]
      /\ call'[t].scan = call[t].scan /\ call'[t].id = call[t].id
      /\ call'[t].time = call[t].time /\ call'[t].code = 202 /\ call'[t].day = day
      /\ \A u \in Threads \ {t} : call'[u] = call[u]
  BY <1>1, <1>3, RequestTypes
<1>5. pc' \in [Threads -> Steps] /\ pc'[t] = "accepted" /\ Alone(t)
  BY <1>1, <1>4 DEF TInv, ServerTypes, Steps, Alone
<1>6. ServerTypes'
  BY <1>1, <1>4, <1>5 DEF TInv, ServerTypes
<1>7. Underway(t)'
  BY <1>1, <1>2, <1>4, <1>5 DEF TInv, ServerTypes, Underway
<1>8. Authored'
  BY <1>1 DEF TInv, Authored
<1>9. LockHeld'
  BY <1>1, <1>5 DEF TInv, LockHeld, Writes, Alone
<1> QED BY <1>1, <1>4, <1>5, <1>6, <1>7, <1>8, <1>9, GoesOn

(* A request that takes the lock reads the last line of the file it found. *)
LEMMA OpenTyped ==
  ASSUME TInv, NEW t \in Threads, OpenAudit(t)
  PROVE  TInv' /\ Alone(t) /\ call'[t].prev = LastLine(audit[call[t].day])
<1> DEFINE mark == LastLine(audit[call[t].day])
<1>1. /\ Opens(t) /\ auditLock = NONE
      /\ pc' = [pc EXCEPT ![t] = Onward(pc[t])] /\ auditLock' = t
      /\ call' = [call EXCEPT ![t].prev = mark]
      /\ UNCHANGED <<log, entries, admitted, audit, now, day, requests, author, answered>>
  BY DEF OpenAudit, store, limiter, clock, hist
<1>2. Underway(t) /\ call[t].day \in 1..MaxDays
  BY <1>1 DEF TInv, Underway, Opens
<1>3. mark \in Mark
  <2>1. PICK file \in AuditFile : file = audit[call[t].day]
    BY <1>2 DEF TInv, ServerTypes
  <2>2. file.lines \in Seq(Line)
    BY DEF AuditFile
  <2>3. LastLine(file) \in Mark
    <3>1. CASE file.lines = <<>>
      BY <3>1 DEF LastLine, Mark
    <3>2. CASE file.lines # <<>>
      <4>1. PICK last \in Line : last = file.lines[Len(file.lines)]
        BY <2>2, <3>2
      <4>2. <<last.kind, last.id, last.code>> \in Kinds \X (0..MaxRequests) \X Codes
        BY DEF Line
      <4> QED BY <3>2, <4>1, <4>2 DEF LastLine, Mark
    <3> QED BY <3>1, <3>2
  <2> QED BY <2>1, <2>3
<1> HIDE DEF mark
<1>4. /\ call' \in [Threads -> Request] /\ call'[t].prev = mark
      /\ call'[t].scan = call[t].scan /\ call'[t].id = call[t].id
      /\ call'[t].time = call[t].time /\ call'[t].code = call[t].code
      /\ call'[t].day = call[t].day
      /\ \A u \in Threads \ {t} : call'[u] = call[u]
  BY <1>1, <1>3 DEF TInv, ServerTypes, Request
<1>5. Onward(pc[t]) \in {"accepted_write", "after_write", "again_write"}
      /\ (Onward(pc[t]) = "accepted_write" => pc[t] = "accepted")
      /\ (Onward(pc[t]) = "again_write" => pc[t] = "again")
  BY <1>1 DEF Onward, Opens
<1>6. pc' \in [Threads -> Steps] /\ pc'[t] = Onward(pc[t]) /\ Alone(t)
  BY <1>1, <1>4, <1>5 DEF TInv, ServerTypes, Steps, Alone
<1>7. ServerTypes'
  BY <1>1, <1>4, <1>6 DEF TInv, ServerTypes
<1>8. Underway(t)'
  BY <1>1, <1>2, <1>4, <1>5, <1>6 DEF Underway, Opens
<1>9. Authored'
  BY <1>1 DEF TInv, Authored
<1>10. LockHeld'
  BY <1>1, <1>5, <1>6, ServerAssumption DEF TInv, LockHeld, Writes, Alone
<1> QED BY <1>1, <1>4, <1>6, <1>7, <1>8, <1>9, <1>10, GoesOn DEF Opens, mark
(* What the three ways a write to the audit log ends have in common.       *)
Closes(t) ==
  /\ Writes(t) /\ auditLock' = NONE
  /\ \E file \in AuditFile : audit' = [audit EXCEPT ![call[t].day] = file]
  /\ \/ pc' = [pc EXCEPT ![t] = Onward(pc[t])] /\ call' = call
     \/ Raise(t)
  /\ UNCHANGED <<log, entries, admitted, now, day, requests, author, answered>>

(* Every way a write ends releases the lock, on a file of that day.        *)
LEMMA WritesClose ==
  ASSUME TInv, NEW t \in Threads, WriteAudit(t) \/ WriteAuditShort(t) \/ WriteAuditFails(t)
  PROVE  Closes(t)
<1> DEFINE file == audit[call[t].day]
<1>1. Writes(t)
  BY DEF WriteAudit, WriteAuditShort, WriteAuditFails
<1>2. Record(t) \in Line /\ call[t].day \in 1..MaxDays
  BY <1>1, RecordType
<1>3. file \in AuditFile
  BY <1>2 DEF TInv, ServerTypes
<1>4. PICK any \in {"fragment", "unterminated"} : TRUE
  OBVIOUS
<1>5. Opened(file) \in AuditFile
  BY <1>2, <1>3, <1>4, AuditTypes
<1>6. WriteLine(Opened(file), Record(t)) \in AuditFile
  BY <1>2, <1>4, <1>5, AuditTypes
<1>7. CASE WriteAudit(t)
  <2>1. audit' = [audit EXCEPT ![call[t].day] = WriteLine(Opened(file), Record(t))]
    BY <1>7 DEF WriteAudit
  <2> QED BY <1>6, <1>7, <2>1 DEF WriteAudit, Closes, store, limiter, clock, hist
<1>8. CASE WriteAuditShort(t)
  <2>1. PICK left \in ShortAudits :
          audit' = [audit EXCEPT ![call[t].day] = WritePart(Opened(file), Record(t), left)]
    BY <1>8 DEF WriteAuditShort
  <2>2. left \in {"fragment", "unterminated"}
    BY ServerAssumption
  <2>3. WritePart(Opened(file), Record(t), left) \in AuditFile
    BY <1>2, <1>5, <2>2, AuditTypes
  <2> QED BY <1>8, <2>1, <2>3 DEF WriteAuditShort, Closes, store, limiter, clock
<1>9. CASE WriteAuditFails(t)
  <2>1. PICK whole \in BOOLEAN :
          audit' = [audit EXCEPT ![call[t].day] =
                      IF whole THEN WriteLine(Opened(file), Record(t)) ELSE Opened(file)]
    BY <1>9 DEF WriteAuditFails
  <2>2. (IF whole THEN WriteLine(Opened(file), Record(t)) ELSE Opened(file)) \in AuditFile
    BY <1>5, <1>6
  <2> QED BY <1>9, <2>1, <2>2 DEF WriteAuditFails, Closes, store, limiter, clock
<1> QED BY <1>7, <1>8, <1>9

(* A write that raised, or a file that does not parse: a 500 to be.        *)
LEMMA RaiseTypes ==
  ASSUME TInv, NEW t \in Threads, Opens(t) \/ Writes(t), Raise(t)
  PROVE  /\ Alone(t) /\ pc'[t] \in {"after", "again", "answer"} /\ pc' \in [Threads -> Steps]
         /\ call' \in [Threads -> Request]
         /\ call'[t].scan = call[t].scan /\ call'[t].id = call[t].id
         /\ call'[t].time = call[t].time /\ call'[t].code = 500 /\ call'[t].day = day
<1>1. Marked(t, 500) /\ 500 \in Codes
  BY DEF Raise, Marked, Codes
<1>2. /\ call' \in [Threads -> Request]
      /\ call'[t].scan = call[t].scan /\ call'[t].id = call[t].id
      /\ call'[t].time = call[t].time /\ call'[t].code = 500 /\ call'[t].day = day
      /\ \A u \in Threads \ {t} : call'[u] = call[u]
  BY <1>1, RequestTypes
<1>3. PICK to \in {"after", "again", "answer"} : pc' = [pc EXCEPT ![t] = to]
  BY DEF Raise
<1>4. pc' \in [Threads -> Steps] /\ pc'[t] = to
  BY <1>3 DEF TInv, ServerTypes, Steps
<1>5. Alone(t)
  BY <1>2, <1>3 DEF TInv, ServerTypes, Alone
<1> QED BY <1>2, <1>4, <1>5

(* After a write the request goes on, or is to be answered 500.            *)
LEMMA ClosesTyped ==
  ASSUME TInv, NEW t \in Threads, Closes(t)
  PROVE  TInv' /\ Alone(t) /\ call'[t].id = call[t].id
         /\ pc'[t] \in {"publish", "after", "again", "answer"}
<1>1. Underway(t) /\ pc[t] # "idle" /\ Writes(t) /\ call[t].day \in 1..MaxDays
  BY DEF Closes, TInv, Underway, Writes
<1>2. /\ Alone(t) /\ pc' \in [Threads -> Steps] /\ call' \in [Threads -> Request]
      /\ call'[t].scan = call[t].scan /\ call'[t].id = call[t].id
      /\ call'[t].time = call[t].time
      /\ \/ /\ pc'[t] \in {"publish", "answer"} /\ call'[t].code = call[t].code
            /\ pc'[t] = "publish" => pc[t] = "accepted_write"
         \/ pc'[t] \in {"after", "again", "answer"} /\ call'[t].code = 500 /\ call'[t].day = day
  <2>1. CASE pc' = [pc EXCEPT ![t] = Onward(pc[t])] /\ call' = call
    <3>1. Onward(pc[t]) \in {"publish", "answer"}
          /\ (Onward(pc[t]) = "publish" => pc[t] = "accepted_write")
      BY <1>1 DEF Writes, Onward
    <3>2. pc' \in [Threads -> Steps] /\ pc'[t] = Onward(pc[t]) /\ Alone(t)
      BY <2>1, <3>1 DEF TInv, ServerTypes, Steps, Alone
    <3>3. call' \in [Threads -> Request]
      BY <2>1 DEF TInv, ServerTypes
    <3> QED BY <2>1, <3>1, <3>2, <3>3
  <2>2. CASE Raise(t)
    BY <1>1, <2>2, RaiseTypes
  <2> QED BY <2>1, <2>2 DEF Closes
<1>3. ServerTypes'
  <2>1. PICK file \in AuditFile : audit' = [audit EXCEPT ![call[t].day] = file]
    BY DEF Closes
  <2>2. audit' \in [1..MaxDays -> AuditFile]
    BY <2>1 DEF TInv, ServerTypes
  <2> QED BY <1>2, <2>2 DEF TInv, ServerTypes, Closes
<1>4. Underway(t)'
  <2>1. UNCHANGED <<now, requests, answered, day>> /\ day \in 1..MaxDays
    BY DEF Closes, TInv, ServerTypes
  <2>2. ~(Opens(t)' \/ Writes(t)') \/ call'[t].day \in 1..MaxDays
    BY <1>2, <2>1 DEF Opens, Writes
  <2>3. call[t].code # 0
    BY <1>1 DEF Underway, Writes
  <2> QED BY <1>1, <1>2, <2>1, <2>2, <2>3 DEF Underway, Writes, Opens
<1>5. Authored'
  BY DEF TInv, Authored, Closes
<1>6. LockHeld'
  BY <1>1, <1>2, ServerAssumption DEF TInv, LockHeld, Writes, Alone, Closes
<1> QED BY <1>1, <1>2, <1>3, <1>4, <1>5, <1>6, GoesOn DEF Closes

(* A file that does not parse lets the request go on to a 500.             *)
LEMMA DamagedTyped ==
  ASSUME TInv, NEW t \in Threads, AuditDamaged(t)
  PROVE  TInv' /\ Alone(t) /\ pc'[t] \in {"after", "again", "answer"}
         /\ call'[t].id = call[t].id /\ call'[t].code = 500
<1>1. /\ Opens(t) /\ Raise(t)
      /\ UNCHANGED <<log, entries, admitted, audit, auditLock, now, day, requests, author, answered>>
  BY DEF AuditDamaged, store, limiter, auditing, clock, hist
<1>2. Underway(t) /\ pc[t] # "idle"
  BY <1>1 DEF TInv, Opens
<1>3. /\ Alone(t) /\ pc'[t] \in {"after", "again", "answer"} /\ pc' \in [Threads -> Steps]
      /\ call' \in [Threads -> Request]
      /\ call'[t].scan = call[t].scan /\ call'[t].id = call[t].id
      /\ call'[t].time = call[t].time /\ call'[t].code = 500 /\ call'[t].day = day
  BY <1>1, RaiseTypes
<1>4. ServerTypes' /\ Authored'
  BY <1>1, <1>3 DEF TInv, ServerTypes, Authored
<1>5. Underway(t)'
  BY <1>1, <1>2, <1>3 DEF TInv, ServerTypes, Underway
<1>6. LockHeld'
  BY <1>1, <1>3 DEF TInv, LockHeld, Writes, Opens, Alone
<1> QED BY <1>1, <1>2, <1>3, <1>4, <1>5, <1>6, GoesOn

(* An answered request leaves its thread idle and its number taken.        *)
LEMMA AnswerTyped ==
  ASSUME TInv, NEW t \in Threads, Answer(t)
  PROVE  TInv' /\ Alone(t) /\ pc'[t] = "idle"
<1>1. /\ pc[t] = "answer" /\ pc' = [pc EXCEPT ![t] = "idle"]
      /\ answered' = [answered EXCEPT ![call[t].id] = call[t].code]
      /\ call' = [call EXCEPT ![t] = NoCall]
      /\ UNCHANGED <<log, entries, admitted, audit, auditLock, now, day, requests, author>>
  BY DEF Answer, Goto, store, limiter, auditing, clock
<1>2. /\ call[t].id \in 1..requests /\ call[t].code \in Codes
      /\ call[t].id \in 1..MaxRequests
  <2>1. call[t].id \in 1..requests
    BY <1>1 DEF TInv, Underway
  <2>2. requests \in 0..MaxRequests /\ call[t].code \in Codes
    BY DEF TInv, ServerTypes, Request
  <2> QED BY <2>1, <2>2, ServerAssumption
<1>3. pc' \in [Threads -> Steps] /\ pc'[t] = "idle" /\ Alone(t)
  BY <1>1 DEF TInv, ServerTypes, Steps, Alone
<1>4. ServerTypes'
  <2>1. call' \in [Threads -> Request] /\ answered' \in [1..MaxRequests -> Codes]
    BY <1>1, <1>2, EmptyRequest DEF TInv, ServerTypes
  <2> QED BY <1>1, <1>3, <2>1 DEF TInv, ServerTypes
<1>5. \A u \in Threads \ {t} : pc[u] # "idle" => answered'[call[u].id] = answered[call[u].id]
  <2> SUFFICES ASSUME NEW u \in Threads \ {t}, pc[u] # "idle"
               PROVE  answered'[call[u].id] = answered[call[u].id]
    OBVIOUS
  <2>1. call[u].id # call[t].id
    BY <1>1 DEF TInv, Numbered
  <2>2. call[u].id \in 1..MaxRequests
    BY DEF TInv, Underway, ServerTypes, Request
  <2> QED BY <1>1, <2>1, <2>2 DEF TInv, ServerTypes
<1>6. \A u \in Threads \ {t} : Underway(u)'
  <2>1. requests' = requests /\ requests \in Nat /\ now' = now /\ now \in Nat
    BY <1>1 DEF TInv, ServerTypes
  <2> QED BY <1>3, <1>5, <2>1, OthersUnderway
<1>7. Underway(t)'
  BY <1>3 DEF Underway
<1>8. Numbered'
  <2>1. \A u, v \in Threads :
          pc'[u] # "idle" /\ pc'[v] # "idle" /\ call'[u].id = call'[v].id => u = v
    BY <1>3 DEF TInv, Numbered, Alone
  <2>2. \A i \in 1..MaxRequests : i > requests' => answered'[i] = 0
    <3>1. \A i \in 1..MaxRequests : i > requests => answered[i] = 0 /\ i # call[t].id
      BY <1>2 DEF TInv, Numbered, ServerTypes
    <3> QED BY <1>1, <3>1 DEF TInv, ServerTypes
  <2> QED BY <2>1, <2>2 DEF Numbered
<1>9. Authored'
  BY <1>1 DEF TInv, Authored
<1>10. LockHeld'
  BY <1>1, <1>3 DEF TInv, LockHeld, Writes, Alone
<1> QED BY <1>3, <1>4, <1>6, <1>7, <1>8, <1>9, <1>10 DEF TInv

(* Neither the clock nor what happens aside disturbs a request.            *)
LEMMA AsideTyped ==
  ASSUME TInv, Aside \/ Tick \/ NextDay
  PROVE  TInv'
<1>1. CASE Aside
  <2>1. UNCHANGED served
    BY <1>1 DEF Aside
  <2>2. Authored' /\ ServerTypes'
    BY <1>1, <2>1 DEF TInv, Authored, ServerTypes, served, Aside
  <2>3. Numbered' /\ LockHeld' /\ \A t \in Threads : Underway(t)'
    BY <2>1 DEF TInv, Numbered, LockHeld, Underway, Opens, Writes, served
  <2> QED BY <2>2, <2>3 DEF TInv
<1>2. CASE Tick \/ NextDay
  <2>1. UNCHANGED <<log, entries, admitted, audit, auditLock, pc, call, requests, author, answered>>
    BY <1>2 DEF Tick, NextDay, store, limiter, auditing, hist
  <2>2. now' \in Nat /\ now' >= now /\ day' \in 1..MaxDays
    BY <1>2, ServerAssumption DEF Tick, NextDay, TInv, ServerTypes
  <2>3. Authored' /\ ServerTypes'
    BY <2>1, <2>2 DEF TInv, Authored, ServerTypes
  <2>4. Numbered' /\ LockHeld'
    BY <2>1 DEF TInv, Numbered, LockHeld, Writes
  <2>5. \A t \in Threads : Underway(t)'
    <3> SUFFICES ASSUME NEW t \in Threads PROVE Underway(t)'
      OBVIOUS
    <3>1. call[t].time \in Nat /\ now \in Nat /\ Underway(t)
      BY DEF TInv, ServerTypes, Request
    <3> QED BY <2>1, <2>2, <3>1 DEF Underway, Opens, Writes
  <2> QED BY <2>3, <2>4, <2>5 DEF TInv
<1> QED BY <1>1, <1>2

(* Every step keeps the types and what requests rely on.                   *)
LEMMA StepTypes == TInv /\ [Next]_vars => TInv'
<1> SUFFICES ASSUME TInv, [Next]_vars PROVE TInv'
  OBVIOUS
<1>1. CASE Aside \/ Tick \/ NextDay
  BY <1>1, AsideTyped
<1>2. ASSUME NEW t \in Threads, Serves(t) PROVE TInv'
  <2>1. CASE \E s \in Scans : Arrive(t, s)
    BY <2>1, ArriveTyped
  <2>2. CASE LetThrough(t) \/ NotThere(t) \/ Index(t)
    BY <2>2, MovesTyped
  <2>3. CASE Replies(t)
    BY <2>3, RepliesTyped
  <2>4. CASE Accept(t) \/ TakeSnapshot(t)
    BY <2>4, AcceptTyped, SnapshotTyped
  <2>5. CASE OpenAudit(t)
    BY <2>5, OpenTyped
  <2>6. CASE WriteAudit(t) \/ WriteAuditShort(t) \/ WriteAuditFails(t)
    BY <2>6, WritesClose, ClosesTyped
  <2>7. CASE AuditDamaged(t)
    BY <2>7, DamagedTyped
  <2>8. CASE Answer(t)
    BY <2>8, AnswerTyped
  <2> QED BY <1>2, <2>1, <2>2, <2>3, <2>4, <2>5, <2>6, <2>7, <2>8 DEF Serves
<1> QED BY <1>1, <1>2, StepsAre

(* Requests are well-typed at every step they take, have numbers of their  *)
(* own, and write to the audit log one at a time, each under the lock.     *)
THEOREM ServerTypesKept == Spec => []TInv
<1>1. Init => TInv
  BY InitTypes
<1>2. TInv /\ [Next]_vars => TInv'
  BY StepTypes
<1> QED BY <1>1, <1>2, PTL DEF Spec
-----------------------------------------------------------------------------
(* The rate limiter.                                                       *)
Crew(h)    == {t \in Threads : Host(t) = h}
Late(h, i) == {t \in Crew(h) : pc[t] = "limit" /\ call[t].time <= i}

(* As long as nobody measured a later window, the entries hold whoever was *)
(* let in during the one that ends at i.                                   *)
InTime(h, i) ==
  /\ Cardinality(InWindow(h, i)) <= Limit
  /\ Cardinality(InWindow(h, i)) <= Len(Since(entries[h], i - Window))

(* Once somebody did, the time is past i, and only those that read the     *)
(* clock before can still be let in on its account.                        *)
Overdue(h, i) ==
  /\ now > i
  /\ Cardinality(InWindow(h, i)) + Cardinality(Late(h, i)) < Limit + Cardinality(Crew(h))

RateOf(h) ==
  /\ IsFiniteSet(admitted[h]) /\ (Crew(h) = {} => admitted[h] = {})
  /\ \A i \in 0..MaxTime : InTime(h, i) \/ Overdue(h, i)

RateInv == \A h \in Processes : RateOf(h)

PrevHeld == \A t \in Threads : Writes(t) => call[t].prev = LastLine(audit[call[t].day])

Past == {"index", "snapshot", "accepted", "accepted_write", "publish", "after", "after_write",
         "again", "again_write", "answer"}
Given ==
  \A t \in Threads, s \in Scans :
    pc[t] # "idle" /\ author[s] = call[t].id => pc[t] \in Past /\ call[t].code \in {0, 202, 500}
Owing(t) == call[t].code = 202 \/ pc[t] \in {"index", "snapshot"}
Owed ==
  \A t \in Threads : pc[t] # "idle" /\ Owing(t) => \E s \in Scans : author[s] = call[t].id

WholeFiles == \A d \in 1..MaxDays : audit[d].tail \in {"absent", "clean"}

(* The threads of a process are finitely many.                             *)
LEMMA CrewFinite == \A h : IsFiniteSet(Crew(h)) /\ Cardinality(Crew(h)) \in Nat
<1> SUFFICES ASSUME NEW h PROVE IsFiniteSet(Crew(h)) /\ Cardinality(Crew(h)) \in Nat
  OBVIOUS
<1>1. Crew(h) \in SUBSET Threads
  BY DEF Crew
<1>2. IsFiniteSet(Crew(h))
  BY <1>1, ServerAssumption, FS_Subset
<1> QED BY <1>2, FS_CardinalityType

(* So are those that can still be late for a window.                       *)
LEMMA LateFinite ==
  \A h, i : /\ IsFiniteSet(Late(h, i)) /\ Cardinality(Late(h, i)) \in Nat
            /\ Cardinality(Late(h, i)) <= Cardinality(Crew(h))
<1> SUFFICES ASSUME NEW h, NEW i
             PROVE  /\ IsFiniteSet(Late(h, i)) /\ Cardinality(Late(h, i)) \in Nat
                    /\ Cardinality(Late(h, i)) <= Cardinality(Crew(h))
  OBVIOUS
<1>1. Late(h, i) \in SUBSET Crew(h)
  BY DEF Late
<1>2. IsFiniteSet(Late(h, i)) /\ Cardinality(Late(h, i)) <= Cardinality(Crew(h))
  BY <1>1, CrewFinite, FS_Subset
<1> QED BY <1>2, FS_CardinalityType

(* A thread that measures a window is late for none that ended before.     *)
LEMMA LateOthers ==
  ASSUME NEW h, NEW i, NEW t \in Crew(h), t \notin Late(h, i)
  PROVE  Cardinality(Late(h, i)) < Cardinality(Crew(h))
<1>1. IsFiniteSet(Crew(h) \ {t}) /\ Cardinality(Crew(h) \ {t}) = Cardinality(Crew(h)) - 1
  BY CrewFinite, FS_RemoveElement
<1>2. Late(h, i) \in SUBSET (Crew(h) \ {t})
  BY DEF Late
<1>3. Cardinality(Late(h, i)) <= Cardinality(Crew(h) \ {t})
  BY <1>1, <1>2, FS_Subset
<1> QED BY <1>1, <1>3, CrewFinite, LateFinite

(* A thread that leaves the limiter is late no more.                       *)
LEMMA LateLeft ==
  ASSUME NEW t \in Threads, Alone(t), pc'[t] # "limit", NEW h, NEW i
  PROVE  /\ Late(h, i)' = Late(h, i) \ {t}
         /\ Cardinality(Late(h, i)') \in Nat
         /\ Cardinality(Late(h, i)') <= Cardinality(Late(h, i))
         /\ t \in Late(h, i) => Cardinality(Late(h, i)') = Cardinality(Late(h, i)) - 1
<1>1. Crew(h)' = Crew(h)
  BY DEF Crew
<1>2. Late(h, i)' = Late(h, i) \ {t}
  BY <1>1 DEF Late, Alone, Crew
<1>3. /\ IsFiniteSet(Late(h, i) \ {t})
      /\ Cardinality(Late(h, i) \ {t}) =
           IF t \in Late(h, i) THEN Cardinality(Late(h, i)) - 1 ELSE Cardinality(Late(h, i))
  BY LateFinite, FS_RemoveElement
<1>4. Cardinality(Late(h, i) \ {t}) \in Nat
  BY <1>3, FS_CardinalityType
<1> QED BY <1>2, <1>3, <1>4, LateFinite

(* And the requests let through in a window.                               *)
LEMMA WindowFinite ==
  ASSUME RateInv, NEW h \in Processes, NEW i
  PROVE  IsFiniteSet(InWindow(h, i)) /\ Cardinality(InWindow(h, i)) \in Nat
<1>1. IsFiniteSet(admitted[h]) /\ InWindow(h, i) \in SUBSET admitted[h]
  BY DEF RateInv, RateOf, InWindow
<1>2. IsFiniteSet(InWindow(h, i))
  BY <1>1, FS_Subset
<1> QED BY <1>2, FS_CardinalityType

(* A step that leaves the limiter of a process alone, and makes nobody     *)
(* late.                                                                   *)
LEMMA RateFrameAt ==
  ASSUME TInv, RateInv, NEW h \in Processes,
         entries'[h] = entries[h], admitted'[h] = admitted[h], now' \in Nat, now' >= now,
         \A i \in 0..MaxTime :
           now > i => Cardinality(Late(h, i)') <= Cardinality(Late(h, i))
                      /\ Cardinality(Late(h, i)') \in Nat
  PROVE  RateOf(h)'
<1>0. Crew(h)' = Crew(h) /\ RateOf(h)
  BY DEF Crew, RateInv
<1>1. IsFiniteSet(admitted'[h]) /\ (Crew(h)' = {} => admitted'[h] = {})
  BY <1>0 DEF RateOf
<1>2. ASSUME NEW i \in 0..MaxTime PROVE InTime(h, i)' \/ Overdue(h, i)'
  <2>1. InWindow(h, i)' = InWindow(h, i)
    BY DEF InWindow
  <2>2. CASE InTime(h, i)
    BY <2>1, <2>2 DEF InTime
  <2>3. CASE Overdue(h, i)
    <3>1. Cardinality(Late(h, i)') <= Cardinality(Late(h, i))
          /\ Cardinality(Late(h, i)') \in Nat
      BY <2>3 DEF Overdue
    <3>2. Cardinality(InWindow(h, i)) \in Nat
      BY WindowFinite
    <3>3. now' > i
      BY <2>3 DEF Overdue, TInv, ServerTypes
    <3> QED BY <1>0, <2>1, <2>3, <3>1, <3>2, <3>3, CrewFinite, LateFinite, ServerAssumption
            DEF Overdue
  <2> QED BY <1>0, <2>2, <2>3 DEF RateOf
<1> QED BY <1>1, <1>2 DEF RateOf

(* The same for all processes.                                             *)
LEMMA RateFrame ==
  ASSUME TInv, RateInv, UNCHANGED <<entries, admitted>>, now' \in Nat, now' >= now,
         \A h \in Processes, i \in 0..MaxTime :
           now > i => Cardinality(Late(h, i)') <= Cardinality(Late(h, i))
                      /\ Cardinality(Late(h, i)') \in Nat
  PROVE  RateInv'
<1>1. \A h \in Processes : RateOf(h)'
  BY RateFrameAt
<1> QED BY <1>1 DEF RateInv

(* Whatever is not the limiter: the requests that wait for it are the same, *)
(* or one less, or one more that read the clock just now.                  *)
LEMMA RateElsewhere ==
  ASSUME TInv, TInv', RateInv, NEW t \in Threads, Serves(t), UNCHANGED <<entries, admitted>>,
         pc[t] # "limit" \/ pc'[t] # "limit"
  PROVE  RateInv'
<1>1. CASE \E s \in Scans : Arrive(t, s)
  <2>1. PICK s \in Scans : Arrive(t, s)
    BY <1>1
  <2>2. /\ pc[t] = "idle" /\ now' = now
        /\ call' = [call EXCEPT ![t] = [NoCall EXCEPT !.scan = s, !.id = requests', !.time = now]]
    BY <2>1 DEF Arrive, Goto, clock
  <2>3. call'[t].time = now /\ Alone(t)
    BY <2>1, <2>2, ArriveTyped DEF TInv, ServerTypes, NoCall
  <2>4. ASSUME NEW h \in Processes, NEW i \in 0..MaxTime, now > i
        PROVE  Cardinality(Late(h, i)') <= Cardinality(Late(h, i))
               /\ Cardinality(Late(h, i)') \in Nat
    <3>1. ~(call'[t].time <= i) /\ pc[t] # "limit"
      <4>1. now \in Nat /\ i \in Nat
        BY ServerAssumption DEF TInv, ServerTypes
      <4> QED BY <2>2, <2>3, <2>4, <4>1, SMTT(60)
    <3>2. Crew(h)' = Crew(h)
      BY DEF Crew
    <3>3. Late(h, i)' = Late(h, i)
      BY <2>3, <3>1, <3>2 DEF Late, Alone, Crew
    <3> QED BY <3>3, LateFinite
  <2>5. now' \in Nat /\ now' >= now
    BY <2>2 DEF TInv, ServerTypes
  <2> QED BY <2>4, <2>5, RateFrame
<1>2. CASE ~ \E s \in Scans : Arrive(t, s)
  <2>1. Alone(t) /\ pc'[t] # "limit" /\ now' = now
    <3>1. CASE LetThrough(t) \/ NotThere(t) \/ Index(t)
      BY <3>1, MovesTyped DEF LetThrough, NotThere, Index, clock
    <3>2. CASE Replies(t)
      BY <3>2, RepliesTyped DEF Replies
    <3>3. CASE Accept(t) \/ TakeSnapshot(t)
      BY <3>3, AcceptTyped, SnapshotTyped DEF Accept, Opening, TakeSnapshot, clock
    <3>4. CASE OpenAudit(t)
      <4>1. pc' = [pc EXCEPT ![t] = Onward(pc[t])] /\ Opens(t) /\ now' = now
        BY <3>4 DEF OpenAudit, clock
      <4>2. Onward(pc[t]) # "limit"
        BY <4>1 DEF Opens, Onward
      <4> QED BY <3>4, <4>1, <4>2, OpenTyped DEF TInv, ServerTypes
    <3>5. CASE WriteAudit(t) \/ WriteAuditShort(t) \/ WriteAuditFails(t)
      BY <3>5, WritesClose, ClosesTyped DEF Closes
    <3>6. CASE AuditDamaged(t)
      BY <3>6, DamagedTyped DEF AuditDamaged, clock
    <3>7. CASE Answer(t)
      BY <3>7, AnswerTyped DEF Answer, clock
    <3> QED BY <1>2, <3>1, <3>2, <3>3, <3>4, <3>5, <3>6, <3>7 DEF Serves
  <2>2. \A h \in Processes, i \in 0..MaxTime :
          Cardinality(Late(h, i)') <= Cardinality(Late(h, i)) /\ Cardinality(Late(h, i)') \in Nat
    BY <2>1, LateLeft
  <2>3. now' \in Nat /\ now' >= now
    BY <2>1 DEF TInv, ServerTypes
  <2> QED BY <2>2, <2>3, RateFrame
<1> QED BY <1>1, <1>2

(* The clock and what happens aside leave the limiter alone.               *)
LEMMA RateBeside ==
  ASSUME TInv, RateInv, Aside \/ Tick \/ NextDay
  PROVE  RateInv'
<1>1. UNCHANGED <<entries, admitted, pc, call>> /\ now' \in Nat /\ now' >= now
  BY DEF Aside, served, Tick, NextDay, limiter, TInv, ServerTypes
<1>2. \A h \in Processes, i \in 0..MaxTime : Late(h, i)' = Late(h, i)
  BY <1>1 DEF Late, Crew
<1> QED BY <1>1, <1>2, LateFinite, RateFrame

(* What the limiter of a process is left with when a request has been let  *)
(* through or turned away: the requests of the window that ends at i, and  *)
(* one less that can be late.                                              *)
Leaves(t, live) ==
  /\ pc[t] = "limit" /\ pc'[t] # "limit" /\ Alone(t) /\ now' = now
  /\ entries[Host(t)] \in Seq(Nat) /\ live = Since(entries[Host(t)], call[t].time - Window)

(* Of a request that has measured its window.                              *)
LEMMA LeavesTypes ==
  ASSUME TInv, NEW t \in Threads, NEW live, Leaves(t, live)
  PROVE  /\ Host(t) \in Processes /\ t \in Crew(Host(t)) /\ live \in Seq(Nat) /\ Len(live) \in Nat
         /\ call[t].time \in Nat /\ call[t].time <= now /\ now \in Nat
         /\ call[t].time - Window \in Int
<1>1. /\ Host(t) \in Processes /\ call[t].time \in Nat /\ call[t].time <= now /\ now \in Nat
      /\ entries[Host(t)] \in Seq(Nat)
  BY HostType DEF TInv, ServerTypes, Request, Underway, Leaves
<1>2. t \in Crew(Host(t))
  BY DEF Crew
<1>3. call[t].time - Window \in Int
  BY <1>1, ServerAssumption
<1> QED BY <1>1, <1>2, <1>3, SinceType DEF Leaves

(* A window whose requests were not touched, overdue or closed by a later  *)
(* request, is overdue.                                                    *)
LEMMA BecomesOverdue ==
  ASSUME TInv, RateInv, NEW t \in Threads, NEW live, Leaves(t, live), NEW i \in 0..MaxTime,
         InWindow(Host(t), i)' = InWindow(Host(t), i),
         (InTime(Host(t), i) /\ i < call[t].time) \/ Overdue(Host(t), i)
  PROVE  Overdue(Host(t), i)'
<1> DEFINE h == Host(t)
<1>1. h \in Processes /\ t \in Crew(h) /\ call[t].time <= now /\ call[t].time \in Nat /\ now \in Nat
  BY LeavesTypes
<1>2. Cardinality(Late(h, i)') \in Nat /\ Cardinality(Late(h, i)') <= Cardinality(Late(h, i))
  BY LateLeft DEF Leaves
<1>3. Crew(h)' = Crew(h) /\ now' = now
  BY DEF Crew, Leaves
<1>4. Cardinality(InWindow(h, i)) \in Nat
  BY <1>1, WindowFinite
<1>5. CASE InTime(h, i) /\ i < call[t].time
  <2>1. t \notin Late(h, i)
    BY <1>1, <1>5 DEF Late
  <2>2. Cardinality(Late(h, i)) < Cardinality(Crew(h))
    BY <1>1, <2>1, LateOthers
  <2>3. Cardinality(InWindow(h, i)) <= Limit
    BY <1>5 DEF InTime
  <2> QED BY <1>1, <1>2, <1>3, <1>4, <1>5, <2>2, <2>3, CrewFinite, LateFinite, ServerAssumption
          DEF Overdue
<1>6. CASE Overdue(h, i)
  BY <1>2, <1>3, <1>4, <1>6, CrewFinite, LateFinite, ServerAssumption DEF Overdue
<1> QED BY <1>5, <1>6

(* What is fresh when the window ends at i, not before the request's, is   *)
(* still there when the request has taken off what is not.                 *)
LEMMA StaysInTime ==
  ASSUME TInv, NEW t \in Threads, NEW live, Leaves(t, live), NEW i \in 0..MaxTime,
         call[t].time <= i
  PROVE  LET e == entries[Host(t)] IN
         /\ Len(Since(e, i - Window)) <= Len(Since(live, i - Window))
         /\ Len(Since(e, i - Window)) <= Len(live)
         /\ Len(Since(e, i - Window)) \in Nat /\ Len(Since(live, i - Window)) \in Nat
<1>1. /\ live \in Seq(Nat) /\ call[t].time - Window \in Int /\ i - Window \in Int
      /\ call[t].time - Window <= i - Window
  BY LeavesTypes, ServerAssumption
<1>2. PICK e \in Seq(Nat) : e = entries[Host(t)]
  BY DEF Leaves
<1>3. live = Since(e, call[t].time - Window)
  BY <1>2 DEF Leaves
<1>4. PICK a \in Int, b \in Int : a = i - Window /\ b = call[t].time - Window
  BY <1>1
<1>5. Len(Since(e, a)) <= Len(Since(live, a))
  BY <1>1, <1>3, <1>4, SinceSince
<1>6. Len(Since(e, a)) <= Len(Since(e, b))
  BY <1>1, <1>4, SinceShrinks
<1>7. Len(Since(e, a)) \in Nat /\ Len(Since(live, a)) \in Nat
  BY <1>1, SinceType
<1> QED BY <1>2, <1>3, <1>4, <1>5, <1>6, <1>7

(* A request that is turned away takes off what is no longer fresh.        *)
LEMMA RateTurnsAway ==
  ASSUME TInv, RateInv, NEW t \in Threads, NEW live, Leaves(t, live),
         entries' = [entries EXCEPT ![Host(t)] = live], UNCHANGED admitted
  PROVE  RateInv'
<1> DEFINE h == Host(t)
<1>1. h \in Processes /\ entries \in [Processes -> Seq(Nat)] /\ now' = now /\ now \in Nat
  BY LeavesTypes DEF TInv, ServerTypes, Leaves
<1>2. ASSUME NEW g \in Processes, g # h PROVE RateOf(g)'
  <2>1. \A i \in 0..MaxTime : Cardinality(Late(g, i)') <= Cardinality(Late(g, i))
                              /\ Cardinality(Late(g, i)') \in Nat
    BY LateLeft DEF Leaves
  <2>2. entries'[g] = entries[g] /\ admitted'[g] = admitted[g] /\ now' \in Nat /\ now' >= now
    BY <1>1, <1>2
  <2> QED BY <2>1, <2>2, RateFrameAt
<1>3. RateOf(h)'
  <2>1. Crew(h)' = Crew(h) /\ RateOf(h) /\ entries'[h] = live
    BY <1>1 DEF Crew, RateInv
  <2>2. IsFiniteSet(admitted'[h]) /\ (Crew(h)' = {} => admitted'[h] = {})
    BY <2>1 DEF RateOf
  <2>3. ASSUME NEW i \in 0..MaxTime PROVE InTime(h, i)' \/ Overdue(h, i)'
    <3>1. InWindow(h, i)' = InWindow(h, i)
      BY DEF InWindow
    <3>2. CASE (InTime(h, i) /\ i < call[t].time) \/ Overdue(h, i)
      BY <3>1, <3>2, BecomesOverdue
    <3>3. CASE InTime(h, i) /\ call[t].time <= i
      <4>1. /\ Len(Since(entries[h], i - Window)) <= Len(Since(live, i - Window))
            /\ Len(Since(entries[h], i - Window)) \in Nat /\ Len(Since(live, i - Window)) \in Nat
        BY <3>3, StaysInTime
      <4>2. Cardinality(InWindow(h, i)) <= Limit /\ Cardinality(InWindow(h, i)) \in Nat
            /\ Cardinality(InWindow(h, i)) <= Len(Since(entries[h], i - Window))
        BY <1>1, <3>3, WindowFinite DEF InTime
      <4>3. Cardinality(InWindow(h, i)) <= Len(Since(live, i - Window))
        BY <4>1, <4>2
      <4> QED BY <2>1, <3>1, <4>2, <4>3 DEF InTime
    <3>4. call[t].time \in Nat
      BY LeavesTypes
    <3> QED BY <2>1, <3>2, <3>3, <3>4 DEF RateOf
  <2> QED BY <2>2, <2>3 DEF RateOf
<1> QED BY <1>2, <1>3 DEF RateInv

(* A request that is let through is counted in every window its time is    *)
(* in, as long as nobody measured a later one; and then it is late no      *)
(* more.                                                                   *)
LEMMA RateLetsThrough ==
  ASSUME TInv, RateInv, NEW t \in Threads, NEW live, Leaves(t, live), Len(live) < Limit,
         entries' = [entries EXCEPT ![Host(t)] = Append(live, call[t].time)],
         admitted' = [admitted EXCEPT ![Host(t)] =
                        admitted[Host(t)] \cup {<<call[t].id, call[t].time>>}]
  PROVE  RateInv'
<1> DEFINE h == Host(t)
           new == <<call[t].id, call[t].time>>
<1>1. /\ h \in Processes /\ entries \in [Processes -> Seq(Nat)] /\ now' = now /\ now \in Nat
      /\ admitted \in [Processes -> SUBSET (Nat \X Nat)] /\ t \in Crew(h)
      /\ call[t].time \in Nat /\ live \in Seq(Nat) /\ Len(live) \in Nat
  BY LeavesTypes DEF TInv, ServerTypes, Leaves
<1>2. ASSUME NEW g \in Processes, g # h PROVE RateOf(g)'
  <2>1. \A i \in 0..MaxTime : Cardinality(Late(g, i)') <= Cardinality(Late(g, i))
                              /\ Cardinality(Late(g, i)') \in Nat
    BY LateLeft DEF Leaves
  <2>2. entries'[g] = entries[g] /\ admitted'[g] = admitted[g] /\ now' \in Nat /\ now' >= now
    BY <1>1, <1>2
  <2> QED BY <2>1, <2>2, RateFrameAt
<1>3. RateOf(h)'
  <2>a. PICK x \in Nat : x = call[t].time
    BY <1>1
  <2>b. Append(live, x) \in Seq(Nat)
    BY <1>1
  <2>0. PICK more \in Seq(Nat) : more = Append(live, x)
    BY <2>b
  <2>1. /\ Crew(h)' = Crew(h) /\ RateOf(h) /\ entries'[h] = more
        /\ admitted'[h] = admitted[h] \cup {new}
    BY <1>1, <2>a, <2>0 DEF Crew, RateInv
  <2>2. IsFiniteSet(admitted'[h]) /\ (Crew(h)' = {} => admitted'[h] = {})
    BY <1>1, <2>1, FS_AddElement DEF RateOf
  <2>3. ASSUME NEW i \in 0..MaxTime PROVE InTime(h, i)' \/ Overdue(h, i)'
    <3>1. InWindow(h, i)' =
            IF i - Window < call[t].time /\ call[t].time <= i THEN InWindow(h, i) \cup {new}
            ELSE InWindow(h, i)
      BY <2>1 DEF InWindow
    <3>2. IsFiniteSet(InWindow(h, i)) /\ Cardinality(InWindow(h, i)) \in Nat
      BY <1>1, WindowFinite
    <3>3. i - Window \in Int /\ (InTime(h, i) \/ Overdue(h, i))
      <4>1. i \in Int /\ Window \in Nat
        BY ServerAssumption
      <4>2. InTime(h, i) \/ Overdue(h, i)
        BY <2>1 DEF RateOf
      <4> QED BY <4>1, <4>2
    <3>4. CASE call[t].time > i
      <4>1. InWindow(h, i)' = InWindow(h, i)
        BY <1>1, <3>1, <3>4
      <4> QED BY <3>3, <3>4, <4>1, BecomesOverdue
    <3>5. CASE call[t].time <= i - Window
      <4>1. InWindow(h, i)' = InWindow(h, i) /\ call[t].time <= i
        BY <1>1, <3>1, <3>5, ServerAssumption
      <4>2. CASE Overdue(h, i)
        BY <4>1, <4>2, BecomesOverdue
      <4>3. CASE InTime(h, i)
        <5>1. Len(Since(live, i - Window)) <= Len(Since(more, i - Window))
              /\ Len(Since(more, i - Window)) \in Nat
          <6>1. PICK a \in Int : a = i - Window
            BY <3>3
          <6>2. Len(Since(live, a)) <= Len(Since(more, a)) /\ Len(Since(more, a)) \in Nat
            BY <1>1, <2>0, SinceAppend, SinceType
          <6> QED BY <6>1, <6>2
        <5>2. /\ Len(Since(entries[h], i - Window)) <= Len(Since(live, i - Window))
              /\ Len(Since(entries[h], i - Window)) \in Nat /\ Len(Since(live, i - Window)) \in Nat
          BY <4>1, StaysInTime
        <5>3. Cardinality(InWindow(h, i)) <= Limit
              /\ Cardinality(InWindow(h, i)) <= Len(Since(entries[h], i - Window))
          BY <4>3 DEF InTime
        <5>4. Cardinality(InWindow(h, i)) <= Len(Since(more, i - Window))
          BY <3>2, <5>1, <5>2, <5>3
        <5> QED BY <2>1, <4>1, <5>3, <5>4 DEF InTime
      <4> QED BY <3>3, <4>2, <4>3
    <3>6. CASE i - Window < call[t].time /\ call[t].time <= i
      <4>1. /\ InWindow(h, i)' = InWindow(h, i) \cup {new}
            /\ Cardinality(InWindow(h, i) \cup {new}) \in Nat
            /\ Cardinality(InWindow(h, i) \cup {new}) <= Cardinality(InWindow(h, i)) + 1
        <5>1. IsFiniteSet(InWindow(h, i) \cup {new})
              /\ (Cardinality(InWindow(h, i) \cup {new}) = Cardinality(InWindow(h, i))
                  \/ Cardinality(InWindow(h, i) \cup {new}) = Cardinality(InWindow(h, i)) + 1)
          BY <3>2, FS_AddElement
        <5> QED BY <3>1, <3>2, <3>6, <5>1
      <4>2. CASE Overdue(h, i)
        <5>1. t \in Late(h, i)
          BY <1>1, <3>6 DEF Late, Leaves
        <5>2. Cardinality(Late(h, i)') = Cardinality(Late(h, i)) - 1
              /\ Cardinality(Late(h, i)') \in Nat /\ Cardinality(Late(h, i)) \in Nat
          BY <5>1, LateLeft, LateFinite DEF Leaves
        <5>3. Cardinality(InWindow(h, i)) + Cardinality(Late(h, i)) < Limit + Cardinality(Crew(h))
              /\ now' > i
          BY <1>1, <4>2 DEF Overdue
        <5>4. Cardinality(InWindow(h, i) \cup {new}) + Cardinality(Late(h, i)')
                < Limit + Cardinality(Crew(h))
          BY <3>2, <4>1, <5>2, <5>3, CrewFinite, ServerAssumption, SMTT(60)
        <5> QED BY <2>1, <4>1, <5>3, <5>4 DEF Overdue
      <4>3. CASE InTime(h, i)
        <5>1. Len(Since(live, i - Window)) + 1 <= Len(Since(more, i - Window))
              /\ Len(Since(more, i - Window)) \in Nat
          <6>1. PICK a \in Int : a = i - Window
            BY <3>3
          <6>2. x > a
            BY <2>a, <3>6, <6>1
          <6>3. Len(Since(live, a)) + 1 <= Len(Since(more, a)) /\ Len(Since(more, a)) \in Nat
            BY <1>1, <2>0, <6>2, SinceAppend, SinceType
          <6> QED BY <6>1, <6>3
        <5>2. /\ Len(Since(entries[h], i - Window)) <= Len(Since(live, i - Window))
              /\ Len(Since(entries[h], i - Window)) <= Len(live)
              /\ Len(Since(entries[h], i - Window)) \in Nat /\ Len(Since(live, i - Window)) \in Nat
          BY <3>6, StaysInTime
        <5>3. Cardinality(InWindow(h, i)) <= Len(Since(entries[h], i - Window))
          BY <4>3 DEF InTime
        <5>4. /\ Cardinality(InWindow(h, i) \cup {new}) <= Limit
              /\ Cardinality(InWindow(h, i) \cup {new}) <= Len(Since(more, i - Window))
          BY <1>1, <3>2, <4>1, <5>1, <5>2, <5>3, ServerAssumption, SMTT(60)
        <5> QED BY <2>1, <4>1, <5>4 DEF InTime
      <4> QED BY <3>3, <4>2, <4>3
    <3>7. i - Window \in Int /\ call[t].time \in Int /\ i \in Int
      BY <1>1, ServerAssumption
    <3> QED BY <3>4, <3>5, <3>6, <3>7
  <2> QED BY <2>2, <2>3 DEF RateOf
<1> QED BY <1>2, <1>3 DEF RateInv

(* Every step keeps the windows in time or overdue.                        *)
LEMMA RateStep == TInv /\ TInv' /\ RateInv /\ [Next]_vars => RateInv'
<1> SUFFICES ASSUME TInv, TInv', RateInv, [Next]_vars PROVE RateInv'
  OBVIOUS
<1>1. CASE Aside \/ Tick \/ NextDay
  BY <1>1, RateBeside
<1>2. ASSUME NEW t \in Threads, Serves(t) PROVE RateInv'
  <2>0. Host(t) \in Processes /\ entries \in [Processes -> Seq(Nat)]
    BY HostType DEF TInv, ServerTypes
  <2>1. CASE LetThrough(t)
    <3>1. pc[t] = "limit" /\ now' = now
      BY <2>1 DEF LetThrough, Goto, clock
    <3>2. Leaves(t, Live(t))
      BY <2>0, <2>1, <3>1, MovesTyped DEF Leaves, Live
    <3> QED BY <2>1, <3>2, RateLetsThrough DEF LetThrough
  <2>2. CASE pc[t] = "limit" /\ Replies(t) /\ entries' = [entries EXCEPT ![Host(t)] = Live(t)]
    <3>0. Alone(t) /\ pc'[t] = "after"
      BY <2>2, RepliesTyped, Zenon
    <3>a. UNCHANGED <<log, admitted, audit, auditLock, now, day, requests, author, answered>>
      BY <2>2, Zenon DEF Replies
    <3>1. now' = now /\ UNCHANGED admitted /\ Alone(t) /\ pc'[t] = "after"
      BY <3>0, <3>a
    <3>2. Leaves(t, Live(t))
      BY <2>0, <2>2, <3>1 DEF Leaves, Live
    <3> QED BY <2>2, <3>1, <3>2, RateTurnsAway
  <2>3. CASE /\ ~LetThrough(t)
             /\ ~(pc[t] = "limit" /\ Replies(t) /\ entries' = [entries EXCEPT ![Host(t)] = Live(t)])
    <3>1. UNCHANGED <<entries, admitted>> /\ (pc[t] # "limit" \/ Replies(t))
      <4>1. CASE \E s \in Scans : Arrive(t, s)
        BY <4>1 DEF Arrive, Goto, limiter
      <4>2. CASE Replies(t)
        BY <2>3, <4>2 DEF Replies
      <4>3. CASE NotThere(t) \/ Accept(t) \/ Index(t) \/ TakeSnapshot(t)
        BY <4>3 DEF NotThere, Accept, Opening, Index, TakeSnapshot, Goto, limiter
      <4>4. CASE OpenAudit(t) \/ AuditDamaged(t)
        BY <4>4 DEF OpenAudit, AuditDamaged, Opens, limiter
      <4>5. CASE WriteAudit(t) \/ WriteAuditShort(t) \/ WriteAuditFails(t)
        BY <4>5, WritesClose DEF Closes, Writes
      <4>6. CASE Answer(t)
        BY <4>6 DEF Answer, Goto, limiter
      <4> QED BY <1>2, <2>3, <4>1, <4>2, <4>3, <4>4, <4>5, <4>6 DEF Serves
    <3>2. pc[t] # "limit" \/ pc'[t] # "limit"
      BY <3>1, RepliesTyped
    <3> QED BY <1>2, <3>1, <3>2, RateElsewhere
  <2> QED BY <2>1, <2>2, <2>3
<1> QED BY <1>1, <1>2, StepsAre

(* Nobody has been let through when the server starts.                     *)
LEMMA RateInit == Init => RateInv
<1> SUFFICES ASSUME Init, NEW h \in Processes PROVE RateOf(h)
  BY DEF RateInv
<1>1. admitted[h] = {} /\ entries[h] = <<>>
  BY DEF Init, ServerInit, ServerRest
<1>2. IsFiniteSet({}) /\ Cardinality({}) = 0
  BY FS_EmptySet
<1>3. ASSUME NEW i \in 0..MaxTime PROVE InTime(h, i)
  <2>1. InWindow(h, i) = {}
    BY <1>1 DEF InWindow
  <2>2. <<>> \in Seq(Nat) /\ i - Window \in Int
    BY ServerAssumption
  <2>3. Len(Since(entries[h], i - Window)) \in Nat
    BY <1>1, <2>2, SinceType
  <2> QED BY <1>2, <2>1, <2>3, ServerAssumption DEF InTime
<1> QED BY <1>1, <1>2, <1>3 DEF RateOf

(* In time or overdue, a window holds no more requests than it may.        *)
LEMMA RateIsBounded == TInv /\ RateInv => RateBounded
<1> SUFFICES ASSUME TInv, RateInv, NEW h \in Processes, NEW i \in 0..MaxTime
             PROVE  Cardinality(InWindow(h, i)) < Limit + Cardinality(Crew(h))
  BY DEF RateBounded, Crew
<1>0. RateOf(h) /\ Cardinality(InWindow(h, i)) \in Nat
  BY WindowFinite DEF RateInv
<1>1. CASE Overdue(h, i)
  BY <1>0, <1>1, CrewFinite, LateFinite, ServerAssumption DEF Overdue
<1>2. CASE InTime(h, i) /\ Crew(h) = {}
  <2>1. InWindow(h, i) = {}
    BY <1>0, <1>2 DEF RateOf, InWindow
  <2> QED BY <1>2, <2>1, FS_EmptySet, ServerAssumption
<1>3. CASE InTime(h, i) /\ Crew(h) # {}
  <2>1. Cardinality(Crew(h)) # 0
    BY <1>3, CrewFinite, FS_EmptySet
  <2> QED BY <1>0, <1>3, <2>1, CrewFinite, ServerAssumption DEF InTime
<1> QED BY <1>0, <1>1, <1>2, <1>3 DEF RateOf
-----------------------------------------------------------------------------
(* The audit log.                                                          *)
MarkOf(lines) == IF lines = <<>> THEN NONE
                 ELSE LET last == lines[Len(lines)] IN <<last.kind, last.id, last.code>>

Chained(lines) == \A n \in 1..Len(lines) : lines[n].prev = MarkOf(SubSeq(lines, 1, n - 1))

(* What is written next is hashed to what is there, by who holds the lock. *)
ChainInv ==
  /\ \A d \in 1..MaxDays :
       Chained(audit[d].lines) /\ (audit[d].tail = "absent" => audit[d].lines = <<>>)
  /\ PrevHeld

(* The hash of the last line depends on the lines alone.                   *)
LEMMA LastIsMark == \A file : LastLine(file) = MarkOf(file.lines)
  BY DEF LastLine, MarkOf

(* A line that carries the hash of the last one lengthens the chain.       *)
LEMMA ChainGrows ==
  ASSUME NEW lines \in Seq(Line), NEW r \in Line, NEW more \in Seq(Line),
         more = Append(lines, r), Chained(lines), r.prev = MarkOf(lines)
  PROVE  Chained(more)
<1> SUFFICES ASSUME NEW n \in 1..Len(more)
             PROVE  more[n].prev = MarkOf(SubSeq(more, 1, n - 1))
  BY DEF Chained
<1>1. Len(more) = Len(lines) + 1 /\ more[Len(more)] = r
  OBVIOUS
<1>2. CASE n = Len(more)
  <2>1. SubSeq(more, 1, n - 1) = lines
    BY <1>1, <1>2
  <2> QED BY <1>1, <1>2, <2>1
<1>3. CASE n \in 1..Len(lines)
  <2>1. SubSeq(more, 1, n - 1) = SubSeq(lines, 1, n - 1) /\ more[n] = lines[n]
    BY <1>1, <1>3
  <2> QED BY <1>3, <2>1 DEF Chained
<1> QED BY <1>1, <1>2, <1>3

(* How an audit file changes: by a whole line or not at all, and it is     *)
(* never mended.                                                           *)
Grows(file, more, r) ==
  /\ more.lines = file.lines \/ more.lines = Append(file.lines, r)
  /\ more.tail \in {"absent", "clean"} => file.tail \in {"absent", "clean"}
  /\ more.tail # "absent"

(* Opening and writing let a file grow so, whole or short.                 *)
LEMMA FileGrows ==
  ASSUME NEW file \in AuditFile, NEW r \in Line, NEW left \in {"fragment", "unterminated"},
         file.tail = "absent" => file.lines = <<>>
  PROVE  /\ Grows(file, Opened(file), r)
         /\ Grows(file, WriteLine(Opened(file), r), r)
         /\ WriteLine(Opened(file), r).lines = Append(file.lines, r)
         /\ Grows(file, WritePart(Opened(file), r, left), r)
         /\ WritePart(Opened(file), r, left).tail \notin {"absent", "clean"}
<1>1. /\ Opened(file).lines = file.lines /\ Opened(file).tail # "absent"
      /\ Opened(file).tail \in {"absent", "clean"} <=> file.tail \in {"absent", "clean"}
      /\ Opened(file) \in AuditFile
  BY AuditTypes DEF Opened, EmptyFile, AuditFile
<1>2. PICK open \in AuditFile : open = Opened(file)
  BY <1>1
<1>3. /\ WriteLine(open, r).lines = Append(open.lines, r)
      /\ WriteLine(open, r).tail = IF open.tail \in {"absent", "clean"} THEN "clean" ELSE "garbage"
  BY DEF WriteLine
<1>4. CASE left = "unterminated"
  <2>1. /\ WritePart(open, r, left).lines = Append(open.lines, r)
        /\ WritePart(open, r, left).tail \in {"unterminated", "garbage"}
    BY <1>4 DEF WritePart
  <2> QED BY <1>1, <1>2, <1>3, <2>1 DEF Grows
<1>5. CASE left = "fragment"
  <2>1. WritePart(open, r, left) = [open EXCEPT !.tail = "garbage"]
    BY <1>5 DEF WritePart
  <2>2. /\ WritePart(open, r, left).lines = open.lines
        /\ WritePart(open, r, left).tail = "garbage"
    BY <2>1 DEF AuditFile
  <2> QED BY <1>1, <1>2, <1>3, <2>2 DEF Grows
<1> QED BY <1>4, <1>5

(* Of the file a request writes to.                                        *)
LEMMA WritesGrow ==
  ASSUME TInv, ChainInv, NEW t \in Threads,
         WriteAudit(t) \/ WriteAuditShort(t) \/ WriteAuditFails(t)
  PROVE  \E d \in 1..MaxDays, more \in AuditFile :
           /\ d = call[t].day /\ audit' = [audit EXCEPT ![d] = more]
           /\ Grows(audit[d], more, Record(t))
           /\ \/ WriteAudit(t) /\ more.lines = Append(audit[d].lines, Record(t))
              \/ WriteAuditShort(t) /\ more.tail \notin {"absent", "clean"}
              \/ WriteAuditFails(t)
<1>1. Record(t) \in Line /\ call[t].day \in 1..MaxDays
  BY RecordType DEF WriteAudit, WriteAuditShort, WriteAuditFails
<1>2. PICK d \in 1..MaxDays, file \in AuditFile : d = call[t].day /\ file = audit[d]
  BY <1>1 DEF TInv, ServerTypes
<1>3. file.tail = "absent" => file.lines = <<>>
  BY <1>2 DEF ChainInv
<1>4. PICK any \in {"fragment", "unterminated"} : TRUE
  OBVIOUS
<1>5. /\ Opened(file) \in AuditFile /\ WriteLine(Opened(file), Record(t)) \in AuditFile
      /\ \A left \in {"fragment", "unterminated"} :
           WritePart(Opened(file), Record(t), left) \in AuditFile
  <2>1. Opened(file) \in AuditFile
    BY <1>1, <1>2, <1>4, AuditTypes
  <2> QED BY <1>1, <1>4, <2>1, AuditTypes
<1>6. /\ Grows(file, Opened(file), Record(t))
      /\ Grows(file, WriteLine(Opened(file), Record(t)), Record(t))
      /\ WriteLine(Opened(file), Record(t)).lines = Append(file.lines, Record(t))
      /\ \A left \in {"fragment", "unterminated"} :
           /\ Grows(file, WritePart(Opened(file), Record(t), left), Record(t))
           /\ WritePart(Opened(file), Record(t), left).tail \notin {"absent", "clean"}
  BY <1>1, <1>3, <1>4, FileGrows
<1>7. CASE WriteAudit(t)
  <2>1. audit' = [audit EXCEPT ![d] = WriteLine(Opened(file), Record(t))]
    BY <1>2, <1>7 DEF WriteAudit
  <2> QED BY <1>2, <1>5, <1>6, <1>7, <2>1
<1>8. CASE WriteAuditShort(t)
  <2>1. PICK left \in {"fragment", "unterminated"} :
          audit' = [audit EXCEPT ![d] = WritePart(Opened(file), Record(t), left)]
    BY <1>2, <1>8, ServerAssumption DEF WriteAuditShort
  <2> QED BY <1>2, <1>5, <1>6, <1>8, <2>1
<1>9. CASE WriteAuditFails(t)
  <2>1. PICK whole \in BOOLEAN :
          audit' = [audit EXCEPT ![d] = IF whole THEN WriteLine(Opened(file), Record(t))
                                        ELSE Opened(file)]
    BY <1>2, <1>9 DEF WriteAuditFails
  <2>2. PICK more \in AuditFile : /\ audit' = [audit EXCEPT ![d] = more]
                                 /\ Grows(file, more, Record(t))
    BY <1>5, <1>6, <2>1
  <2> QED BY <1>2, <1>9, <2>2
<1> QED BY <1>7, <1>8, <1>9

(* The steps of a request that do not write to the audit log.              *)
LEMMA NotAuditing ==
  ASSUME TInv, NEW t \in Threads, Serves(t),
         ~(OpenAudit(t) \/ WriteAudit(t) \/ WriteAuditShort(t) \/ WriteAuditFails(t))
  PROVE  UNCHANGED <<audit, auditLock>> /\ Alone(t) /\ ~Writes(t)
<1>1. CASE \E s \in Scans : Arrive(t, s)
  BY <1>1, ArriveTyped DEF Arrive, Goto, auditing, Writes
<1>2. CASE LetThrough(t) \/ NotThere(t) \/ Index(t)
  BY <1>2, MovesTyped DEF LetThrough, NotThere, Index, Goto, auditing, Writes
<1>3. CASE Replies(t)
  <2>1. pc[t] \in Answering
    BY <1>3 DEF Replies, RespondsSo, Respond, Goto
  <2>2. Alone(t)
    BY <1>3, RepliesTyped
  <2> QED BY <1>3, <2>1, <2>2 DEF Replies, Writes, Answering
<1>4. CASE Accept(t) \/ TakeSnapshot(t)
  BY <1>4, AcceptTyped, SnapshotTyped DEF Accept, Opening, TakeSnapshot, Goto, auditing, Writes
<1>5. CASE AuditDamaged(t)
  BY <1>5, DamagedTyped DEF AuditDamaged, Opens, Writes, auditing
<1>6. CASE Answer(t)
  BY <1>6, AnswerTyped DEF Answer, Goto, auditing, Writes
<1> QED BY <1>1, <1>2, <1>3, <1>4, <1>5, <1>6 DEF Serves

(* Every step keeps the chain, and the hash its next writer holds.         *)
LEMMA ChainStep == TInv /\ TInv' /\ ChainInv /\ [Next]_vars => ChainInv'
<1> SUFFICES ASSUME TInv, TInv', ChainInv, [Next]_vars PROVE ChainInv'
  OBVIOUS
<1>1. CASE Aside \/ Tick \/ NextDay
  <2>1. UNCHANGED <<audit, pc, call>>
    BY <1>1 DEF Aside, served, Tick, NextDay, auditing
  <2> QED BY <2>1 DEF ChainInv, PrevHeld, Writes
<1>2. ASSUME NEW t \in Threads, Serves(t) PROVE ChainInv'
  <2>1. CASE WriteAudit(t) \/ WriteAuditShort(t) \/ WriteAuditFails(t)
    <3>1. Closes(t) /\ Writes(t) /\ auditLock' = NONE
      BY <2>1, WritesClose DEF Closes
    <3>2. PICK d \in 1..MaxDays, more \in AuditFile :
            /\ d = call[t].day /\ audit' = [audit EXCEPT ![d] = more]
            /\ Grows(audit[d], more, Record(t))
      BY <2>1, WritesGrow
    <3>3. PICK file \in AuditFile, r \in Line : file = audit[d] /\ r = Record(t)
      BY <3>1, RecordType DEF TInv, ServerTypes
    <3>4. /\ file.lines \in Seq(Line) /\ more.lines \in Seq(Line)
          /\ Chained(file.lines)
      BY <3>3 DEF AuditFile, ChainInv
    <3>5. r.prev = MarkOf(file.lines)
      BY <3>1, <3>2, <3>3, LastIsMark DEF Record, ChainInv, PrevHeld
    <3>6. Chained(more.lines)
      <4>1. CASE more.lines = file.lines
        BY <3>4, <4>1
      <4>2. CASE more.lines = Append(file.lines, r)
        BY <3>4, <3>5, <4>2, ChainGrows
      <4> QED BY <3>2, <3>3, <4>1, <4>2 DEF Grows
    <3>7. \A e \in 1..MaxDays :
            Chained(audit'[e].lines) /\ (audit'[e].tail = "absent" => audit'[e].lines = <<>>)
      <4> SUFFICES ASSUME NEW e \in 1..MaxDays
                   PROVE  /\ Chained(audit'[e].lines)
                          /\ audit'[e].tail = "absent" => audit'[e].lines = <<>>
        OBVIOUS
      <4>1. audit'[e] = IF e = d THEN more ELSE audit[e]
        BY <3>2 DEF TInv, ServerTypes
      <4>2. CASE e = d
        BY <3>2, <3>6, <4>1, <4>2 DEF Grows
      <4>3. CASE e # d
        BY <4>1, <4>3 DEF ChainInv
      <4> QED BY <4>2, <4>3
    <3>8. PrevHeld'
      BY <3>1, ServerAssumption DEF TInv, LockHeld, PrevHeld
    <3> QED BY <3>7, <3>8 DEF ChainInv
  <2>2. CASE OpenAudit(t)
    <3>1. /\ auditLock' = t /\ audit' = audit /\ call'[t].prev = LastLine(audit[call[t].day])
          /\ call'[t].day = call[t].day
      BY <2>2, OpenTyped DEF OpenAudit, TInv, ServerTypes, Request
    <3>2. PrevHeld'
      BY <3>1, ServerAssumption DEF TInv, LockHeld, PrevHeld
    <3> QED BY <3>1, <3>2 DEF ChainInv
  <2>3. CASE ~(OpenAudit(t) \/ WriteAudit(t) \/ WriteAuditShort(t) \/ WriteAuditFails(t))
    <3>1. UNCHANGED <<audit, auditLock>> /\ Alone(t) /\ ~Writes(t)
      BY <1>2, <2>3, NotAuditing
    <3>2. ASSUME NEW u \in Threads, Writes(u)'
          PROVE  call'[u].prev = LastLine(audit'[call'[u].day])
      <4>1. u # t
        BY <3>1, <3>2 DEF TInv, LockHeld
      <4>2. pc'[u] = pc[u] /\ call'[u] = call[u]
        BY <3>1, <4>1 DEF Alone
      <4>3. Writes(u)
        BY <3>2, <4>2 DEF Writes
      <4> QED BY <3>1, <4>2, <4>3 DEF ChainInv, PrevHeld
    <3>3. PrevHeld'
      BY <3>2 DEF PrevHeld
    <3> QED BY <3>1, <3>3 DEF ChainInv
  <2> QED BY <2>1, <2>2, <2>3
<1> QED BY <1>1, <1>2, StepsAre

(* There are no audit files when the server starts.                        *)
LEMMA ChainInit == Init => ChainInv
<1> SUFFICES ASSUME Init PROVE ChainInv
  OBVIOUS
<1>1. \A d \in 1..MaxDays : audit[d] = NoFile
  BY DEF Init, ServerInit, ServerRest
<1>2. \A t \in Threads : ~Writes(t)
  BY DEF Init, ServerInit, ServerRest, Writes
<1>3. NoFile.lines = <<>> /\ Chained(<<>>)
  BY DEF NoFile, Chained
<1> QED BY <1>1, <1>2, <1>3 DEF ChainInv, PrevHeld

(* The invariant is the property, on lines instead of files.               *)
LEMMA AuditIsChained == TInv /\ ChainInv => AuditChained
<1> SUFFICES ASSUME TInv, ChainInv, NEW d \in 1..MaxDays, NEW n \in Legible(audit[d])
             PROVE  audit[d].lines[n].prev =
                      LastLine([audit[d] EXCEPT !.lines = SubSeq(@, 1, n - 1)])
  BY DEF AuditChained
<1>1. PICK file \in AuditFile : file = audit[d]
  BY DEF TInv, ServerTypes
<1>a. n \in 1..Len(file.lines)
  <2>1. file.lines \in Seq(Line) /\ n \in Legible(file)
    BY <1>1 DEF AuditFile
  <2> QED BY <2>1 DEF Legible
<1>2. [file EXCEPT !.lines = SubSeq(@, 1, n - 1)].lines = SubSeq(file.lines, 1, n - 1)
  BY DEF AuditFile
<1>3. file.lines[n].prev = MarkOf(SubSeq(file.lines, 1, n - 1))
  BY <1>1, <1>a DEF ChainInv, Chained
<1> QED BY <1>1, <1>2, <1>3, LastIsMark
-----------------------------------------------------------------------------
(* What becomes of a request's number and code in a step of its own.       *)
Onwards(t) ==
  /\ Alone(t) /\ UNCHANGED <<author, answered>>
  /\ pc[t] # "idle" /\ call'[t].id = call[t].id /\ requests' = requests
  /\ call'[t].code = 202 \/ pc'[t] \in {"index", "snapshot"} => Owing(t)
  /\ pc[t] \in Past => pc'[t] \in Past /\ call'[t].code \in {call[t].code, 202, 500}

(* Every step but the first, the accepting one and the last.               *)
LEMMA GoingOnwards ==
  ASSUME TInv, NEW t \in Threads, Serves(t), ~ \E s \in Scans : Arrive(t, s),
         ~Accept(t), ~Answer(t)
  PROVE  Onwards(t)
<1>1. CASE LetThrough(t) \/ NotThere(t)
  <2>1. /\ pc[t] \in {"limit", "lookup"} /\ UNCHANGED <<author, answered, call, requests>>
        /\ pc' \in {[pc EXCEPT ![t] = "lookup"], [pc EXCEPT ![t] = "append"]}
    BY <1>1 DEF LetThrough, NotThere, Goto, hist
  <2>2. pc'[t] \in {"lookup", "append"}
    BY <2>1 DEF TInv, ServerTypes
  <2> QED BY <1>1, <2>1, <2>2, MovesTyped DEF Onwards, Owing, Past
<1>a. CASE Index(t)
  <2>1. pc[t] = "index" /\ UNCHANGED <<author, answered, call, requests>>
        /\ pc' = [pc EXCEPT ![t] = "snapshot"]
    BY <1>a DEF Index, Goto, hist
  <2>2. pc'[t] = "snapshot"
    BY <2>1 DEF TInv, ServerTypes
  <2> QED BY <1>a, <2>1, <2>2, MovesTyped DEF Onwards, Owing, Past
<1>b. CASE TakeSnapshot(t)
  <2>1. UNCHANGED <<author, answered, requests>>
    BY <1>b DEF TakeSnapshot, hist
  <2> QED BY <1>b, <2>1, SnapshotTyped DEF Onwards, Owing, Past
<1>2. CASE Replies(t)
  <2>1. PICK from \in Answering, code \in Codes \ {0} : RespondsSo(t, from, code)
    BY <1>2 DEF Replies
  <2>2. /\ Marked(t, code) /\ pc[t] = from /\ code \in Codes
        /\ code = 202 <=> from = "publish"
        /\ from \in {"index", "snapshot"} => code = 500
    BY <2>1 DEF RespondsSo, Respond, Marked, Goto
  <2>3. call'[t].id = call[t].id /\ call'[t].code = code
    BY <2>2, RequestTypes
  <2>4. from = "publish" => call[t].code = 202
    BY <2>2 DEF TInv, Underway
  <2>5. UNCHANGED <<author, answered, requests>>
    BY <1>2 DEF Replies
  <2>6. Alone(t) /\ pc'[t] = "after"
    BY <1>2, RepliesTyped
  <2> QED BY <2>2, <2>3, <2>4, <2>5, <2>6 DEF Onwards, Owing, Past, Answering
<1>3. CASE OpenAudit(t)
  <2>1. /\ Opens(t) /\ pc' = [pc EXCEPT ![t] = Onward(pc[t])]
        /\ call' = [call EXCEPT ![t].prev = LastLine(audit[call[t].day])]
        /\ UNCHANGED <<author, answered, requests>>
    BY <1>3 DEF OpenAudit, hist
  <2>2. call'[t].id = call[t].id /\ call'[t].code = call[t].code /\ pc'[t] = Onward(pc[t])
    BY <2>1 DEF TInv, ServerTypes, Request
  <2> QED BY <1>3, <2>1, <2>2, OpenTyped DEF Onwards, Owing, Past, Opens, Onward
<1>4. CASE WriteAudit(t) \/ WriteAuditShort(t) \/ WriteAuditFails(t)
  <2>1. Closes(t)
    BY <1>4, WritesClose
  <2>2. Alone(t) /\ call'[t].id = call[t].id /\ pc'[t] \in {"publish", "after", "again", "answer"}
    BY <2>1, ClosesTyped
  <2>3. call'[t].code \in {call[t].code, 500}
    <3>1. CASE Raise(t)
      BY <2>1, <3>1, RaiseTypes DEF Closes
    <3> QED BY <2>1, <3>1 DEF Closes
  <2> QED BY <2>1, <2>2, <2>3 DEF Onwards, Owing, Past, Closes, Writes
<1>5. CASE AuditDamaged(t)
  <2>1. Opens(t) /\ UNCHANGED <<author, answered, requests>>
    BY <1>5 DEF AuditDamaged, hist
  <2> QED BY <1>5, <2>1, DamagedTyped DEF Onwards, Owing, Past, Opens
<1> QED BY <1>1, <1>a, <1>b, <1>2, <1>3, <1>4, <1>5 DEF Serves

(* Who opened a journal is told so, unless its audit fails, and nobody     *)
(* else is.                                                                *)
AcceptInv == Given /\ Owed /\ AcceptedOnce

(* Every step keeps what journals, requests and answers say of each other. *)
LEMMA AcceptStep == TInv /\ TInv' /\ AcceptInv /\ [Next]_vars => AcceptInv'
<1> SUFFICES ASSUME TInv, TInv', AcceptInv, [Next]_vars PROVE AcceptInv'
  OBVIOUS
<1>1. CASE Aside \/ Tick \/ NextDay
  <2>1. UNCHANGED <<pc, call, requests, author, answered>>
    BY <1>1 DEF Aside, served, Tick, NextDay, hist
  <2> QED BY <2>1 DEF AcceptInv, Given, Owed, Owing, AcceptedOnce
<1>2. ASSUME NEW t \in Threads, Serves(t) PROVE AcceptInv'
  <2>0. /\ requests \in Nat /\ requests <= MaxRequests
        /\ \A u \in Threads : call[u].id \in Nat
        /\ \A u \in Threads : pc[u] # "idle" => call[u].id \in 1..requests
    <3>1. requests \in 0..MaxRequests /\ call \in [Threads -> Request]
      BY DEF TInv, ServerTypes
    <3>2. \A u \in Threads : call[u].id \in Nat
      BY <3>1 DEF Request
    <3>3. \A u \in Threads : pc[u] # "idle" => call[u].id \in 1..requests
      BY DEF TInv, Underway
    <3> QED BY <3>1, <3>2, <3>3, ServerAssumption
  <2>1. CASE \E s \in Scans : Arrive(t, s)
    <3>1. PICK s \in Scans : Arrive(t, s)
      BY <2>1
    <3>2. /\ Alone(t) /\ requests' = requests + 1 /\ UNCHANGED <<author, answered>>
          /\ pc[t] = "idle" /\ requests < MaxRequests
          /\ call' = [call EXCEPT ![t] = [NoCall EXCEPT !.scan = s, !.id = requests', !.time = now]]
      BY <3>1, ArriveTyped DEF Arrive, Goto
    <3>3. call'[t].id = requests + 1 /\ call'[t].code = 0 /\ pc'[t] = "limit"
      BY <3>1, <3>2 DEF TInv, ServerTypes, NoCall, Arrive, Goto
    <3>4. \A r \in Scans : author[r] # requests + 1
      BY <2>0 DEF TInv, Authored
    <3>5. answered[requests + 1] = 0
      <4>1. requests + 1 \in 1..MaxRequests /\ requests + 1 > requests
        BY <2>0, <3>2, ServerAssumption
      <4> QED BY <4>1 DEF TInv, Numbered
    <3>6. Given'
      BY <3>2, <3>3, <3>4 DEF AcceptInv, Given, Alone
    <3>7. Owed'
      BY <3>2, <3>3 DEF AcceptInv, Owed, Owing, Alone
    <3>8. AcceptedOnce'
      <4>1. \A i \in 1..(requests + 1) : i \in 1..requests \/ i = requests + 1
        BY <2>0
      <4> QED BY <3>2, <3>4, <3>5, <4>1 DEF AcceptInv, AcceptedOnce
    <3> QED BY <3>6, <3>7, <3>8 DEF AcceptInv
  <2>2. CASE Accept(t)
    <3>1. PICK s \in Scans, i \in 1..requests : s = call[t].scan /\ i = call[t].id
      BY <2>2 DEF Accept, Opening, Goto, TInv, Underway
    <3>2. /\ pc[t] = "append" /\ log[s] = 0 /\ author' = [author EXCEPT ![s] = i]
          /\ UNCHANGED <<requests, answered, call>>
      BY <2>2, <3>1 DEF Accept, Opening, Goto
    <3>3. call'[t].id = i /\ call'[t].code = 0
      BY <3>1, <3>2 DEF TInv, Underway
    <3>4. Alone(t) /\ pc'[t] = "index"
      BY <2>2, AcceptTyped
    <3>5. author[s] = 0
      BY <3>2 DEF TInv, Authored
    <3>6. \A r \in Scans : author'[r] = IF r = s THEN i ELSE author[r]
      BY <3>2 DEF TInv, ServerTypes
    <3>7. \A u \in Threads \ {t} : pc[u] # "idle" => call[u].id # i
      BY <3>1, <3>2 DEF TInv, Numbered
    <3>8. answered[i] = 0
      BY <3>1, <3>2 DEF TInv, Underway
    <3>9. Given'
      BY <3>3, <3>4, <3>6, <3>7 DEF AcceptInv, Given, Alone, Past
    <3>10. Owed'
      BY <2>0, <3>3, <3>4, <3>5, <3>6 DEF AcceptInv, Owed, Owing, Alone
    <3>11. AcceptedOnce'
      BY <3>2, <3>5, <3>6, <3>8 DEF AcceptInv, AcceptedOnce
    <3> QED BY <3>9, <3>10, <3>11 DEF AcceptInv
  <2>3. CASE Answer(t)
    <3>1. PICK i \in 1..requests : i = call[t].id
      BY <2>3 DEF Answer, Goto, TInv, Underway
    <3>2. /\ pc[t] = "answer" /\ answered' = [answered EXCEPT ![i] = call[t].code]
          /\ UNCHANGED <<requests, author>>
      BY <2>3, <3>1 DEF Answer, Goto
    <3>3. Alone(t) /\ pc'[t] = "idle"
      BY <2>3, AnswerTyped
    <3>4. Given' /\ Owed'
      BY <3>2, <3>3 DEF AcceptInv, Given, Owed, Owing, Alone
    <3>5. \A j \in 1..requests : answered'[j] = IF j = i THEN call[t].code ELSE answered[j]
      BY <2>0, <3>2 DEF TInv, ServerTypes
    <3>6. AcceptedOnce'
      BY <3>1, <3>2, <3>5 DEF AcceptInv, AcceptedOnce, Given, Owed, Owing
    <3> QED BY <3>4, <3>6 DEF AcceptInv
  <2>4. CASE ~(\E s \in Scans : Arrive(t, s)) /\ ~Accept(t) /\ ~Answer(t)
    <3>1. Onwards(t)
      BY <1>2, <2>4, GoingOnwards
    <3>2. ASSUME NEW u \in Threads, NEW s \in Scans, pc'[u] # "idle", author'[s] = call'[u].id
          PROVE  pc'[u] \in Past /\ call'[u].code \in {0, 202, 500}
      <4>1. CASE u # t
        BY <3>1, <3>2, <4>1 DEF Onwards, Alone, AcceptInv, Given
      <4>2. CASE u = t
        BY <3>1, <3>2, <4>2 DEF Onwards, AcceptInv, Given
      <4> QED BY <4>1, <4>2
    <3>3. ASSUME NEW u \in Threads, pc'[u] # "idle",
                 call'[u].code = 202 \/ pc'[u] \in {"index", "snapshot"}
          PROVE  \E s \in Scans : author'[s] = call'[u].id
      <4>1. CASE u # t
        BY <3>1, <3>3, <4>1 DEF Onwards, Alone, AcceptInv, Owed, Owing
      <4>2. CASE u = t
        BY <3>1, <3>3, <4>2 DEF Onwards, AcceptInv, Owed
      <4> QED BY <4>1, <4>2
    <3>4. AcceptedOnce'
      BY <3>1 DEF Onwards, AcceptInv, AcceptedOnce
    <3> QED BY <3>2, <3>3, <3>4 DEF AcceptInv, Given, Owed, Owing
  <2> QED BY <2>1, <2>2, <2>3, <2>4
<1> QED BY <1>1, <1>2, StepsAre

(* Nobody has been accepted when the server starts.                        *)
LEMMA AcceptInit == Init => AcceptInv
  BY DEF Init, ServerInit, ServerRest, AcceptInv, Given, Owed, Owing, AcceptedOnce
-----------------------------------------------------------------------------
(* What is on record stays there, while every file is whole.               *)
LogGrows ==
  \A d \in 1..MaxDays :
    /\ \/ audit'[d].lines = audit[d].lines
       \/ \E r \in Line : audit'[d].lines = Append(audit[d].lines, r)
    /\ audit'[d].tail \in {"absent", "clean"} => audit[d].tail \in {"absent", "clean"}

(* A line that is on record stays there.                                   *)
LEMMA LogStays ==
  ASSUME TInv, LogGrows, NEW kind, NEW i, NEW code, Recorded(kind, i, code)
  PROVE  Recorded(kind, i, code)'
<1>0. PICK d \in 1..MaxDays : \E n \in 1..Len(audit[d].lines) :
        audit[d].lines[n].kind = kind /\ audit[d].lines[n].id = i /\ audit[d].lines[n].code = code
  BY DEF Recorded
<1>1. PICK n \in 1..Len(audit[d].lines) :
        /\ audit[d].lines[n].kind = kind /\ audit[d].lines[n].id = i
        /\ audit[d].lines[n].code = code
  BY <1>0
<1>2. PICK lines \in Seq(Line) : lines = audit[d].lines
  BY DEF TInv, ServerTypes, AuditFile
<1>3. n \in 1..Len(audit'[d].lines) /\ audit'[d].lines[n] = lines[n]
  <2>1. CASE audit'[d].lines = lines
    BY <1>1, <1>2, <2>1
  <2>2. ASSUME NEW r \in Line, audit'[d].lines = Append(lines, r)
        PROVE  n \in 1..Len(audit'[d].lines) /\ audit'[d].lines[n] = lines[n]
    BY <1>1, <1>2, <2>2
  <2> QED BY <1>2, <2>1, <2>2 DEF LogGrows
<1> QED BY <1>1, <1>2, <1>3 DEF Recorded

(* Every step lets the audit log grow.                                     *)
LEMMA LogGrowing == TInv /\ ChainInv /\ [Next]_vars => LogGrows
<1> SUFFICES ASSUME TInv, ChainInv, [Next]_vars PROVE LogGrows
  OBVIOUS
<1>1. CASE UNCHANGED audit
  BY <1>1 DEF LogGrows
<1>2. ASSUME NEW t \in Threads, WriteAudit(t) \/ WriteAuditShort(t) \/ WriteAuditFails(t)
      PROVE  LogGrows
  <2>1. PICK d \in 1..MaxDays, more \in AuditFile :
          /\ d = call[t].day /\ audit' = [audit EXCEPT ![d] = more]
          /\ Grows(audit[d], more, Record(t))
    BY <1>2, WritesGrow
  <2>2. Record(t) \in Line
    BY <1>2, RecordType DEF WriteAudit, WriteAuditShort, WriteAuditFails
  <2> SUFFICES ASSUME NEW e \in 1..MaxDays
               PROVE  /\ \/ audit'[e].lines = audit[e].lines
                         \/ \E r \in Line : audit'[e].lines = Append(audit[e].lines, r)
                      /\ audit'[e].tail \in {"absent", "clean"}
                           => audit[e].tail \in {"absent", "clean"}
    BY DEF LogGrows
  <2>3. audit'[e] = IF e = d THEN more ELSE audit[e]
    BY <2>1 DEF TInv, ServerTypes
  <2> QED BY <2>1, <2>2, <2>3 DEF Grows
<1>3. CASE Aside \/ Tick \/ NextDay
  BY <1>1, <1>3 DEF Aside, served, Tick, NextDay, auditing
<1>4. ASSUME NEW t \in Threads, Serves(t) PROVE LogGrows
  <2>1. CASE OpenAudit(t)
    BY <1>1, <2>1 DEF OpenAudit
  <2> QED BY <1>1, <1>2, <1>4, <2>1, NotAuditing
<1> QED BY <1>3, <1>4, StepsAre

(* The line a request has just written.                                    *)
LEMMA JustRecorded ==
  ASSUME TInv, NEW t \in Threads, NEW d \in 1..MaxDays, NEW more \in AuditFile,
         audit' = [audit EXCEPT ![d] = more], Record(t) \in Line,
         more.lines = Append(audit[d].lines, Record(t)),
         NEW kind, NEW i, NEW code,
         Record(t).kind = kind, Record(t).id = i, Record(t).code = code
  PROVE  Recorded(kind, i, code)'
<1>1. PICK lines \in Seq(Line), r \in Line : lines = audit[d].lines /\ r = Record(t)
  BY DEF TInv, ServerTypes, AuditFile
<1>2. audit'[d] = more
  BY DEF TInv, ServerTypes
<1>3. PICK n \in Nat : n = Len(lines) + 1
  BY <1>1
<1>4. n \in 1..Len(more.lines) /\ more.lines[n] = r
  BY <1>1, <1>3
<1>5. \E m \in 1..Len(audit'[d].lines) :
        /\ audit'[d].lines[m].kind = kind /\ audit'[d].lines[m].id = i
        /\ audit'[d].lines[m].code = code
  BY <1>1, <1>2, <1>4
<1> QED BY <1>5 DEF Recorded

(* What must be on record of the request a thread serves.                  *)
OnRecord(t) ==
  /\ pc[t] = "answer" /\ call[t].code # 500
       => Recorded("http.request", call[t].id, call[t].code)
  /\ pc[t] \in {"publish", "after", "after_write", "answer"} /\ call[t].code = 202
       => Recorded("scan.accepted", call[t].id, 202)

(* A write that does not fall short leaves on record what it must.         *)
LEMMA RecordOfWriter ==
  ASSUME TInv, TInv', ChainInv, LogGrows, WholeFiles', NEW t \in Threads, OnRecord(t),
         WriteAudit(t) \/ WriteAuditShort(t) \/ WriteAuditFails(t)
  PROVE  OnRecord(t)'
<1>1. PICK d \in 1..MaxDays, more \in AuditFile :
        /\ d = call[t].day /\ audit' = [audit EXCEPT ![d] = more]
        /\ \/ WriteAudit(t) /\ more.lines = Append(audit[d].lines, Record(t))
           \/ WriteAuditShort(t) /\ more.tail \notin {"absent", "clean"}
           \/ WriteAuditFails(t)
  BY WritesGrow
<1>2. more.tail \in {"absent", "clean"}
  BY <1>1 DEF WholeFiles, TInv, ServerTypes
<1>3. CASE WriteAuditFails(t)
  <2>1. Raise(t) /\ Writes(t)
    BY <1>3 DEF WriteAuditFails
  <2>2. call'[t].code = 500
    BY <2>1, RaiseTypes
  <2> QED BY <2>2 DEF OnRecord
<1>4. CASE WriteAudit(t) /\ more.lines = Append(audit[d].lines, Record(t))
  <2>1. /\ Writes(t) /\ call' = call /\ pc' = [pc EXCEPT ![t] = Onward(pc[t])]
        /\ Record(t) \in Line /\ Underway(t)
    BY <1>4, RecordType DEF WriteAudit, TInv
  <2>2. PICK i, code : i = call[t].id /\ code = call[t].code
    OBVIOUS
  <2>3. PICK kind : kind = Record(t).kind
    OBVIOUS
  <2>4. Recorded(kind, i, code)'
    BY <1>1, <1>4, <2>1, <2>2, <2>3, JustRecorded DEF Record
  <2>5. CASE pc[t] = "accepted_write"
    <3>1. code = 202 /\ kind = "scan.accepted"
      BY <2>1, <2>2, <2>3, <2>5 DEF Underway, Record, InHandler
    <3>2. pc'[t] = "publish"
      BY <2>1, <2>5 DEF Onward, TInv, ServerTypes
    <3> QED BY <2>1, <2>2, <2>4, <3>1, <3>2 DEF OnRecord
  <2>6. CASE pc[t] = "after_write"
    <3>1. kind = "http.request"
      BY <2>3, <2>6 DEF Record, InHandler
    <3>2. code = 202 => Recorded("scan.accepted", i, 202)'
      BY <2>2, <2>6, LogStays DEF OnRecord
    <3> QED BY <2>1, <2>2, <2>4, <3>1, <3>2 DEF OnRecord
  <2>7. CASE pc[t] = "again_write"
    <3>1. call'[t].code = 500
      BY <2>1, <2>7 DEF Underway
    <3> QED BY <3>1 DEF OnRecord
  <2> QED BY <2>1, <2>5, <2>6, <2>7 DEF Writes
<1> QED BY <1>1, <1>2, <1>3, <1>4

(* Every step of a request does.                                           *)
LEMMA RecordOfRequest ==
  ASSUME TInv, TInv', ChainInv, LogGrows, WholeFiles', NEW t \in Threads, OnRecord(t), Serves(t)
  PROVE  OnRecord(t)'
<1>1. CASE \E s \in Scans : Arrive(t, s)
  <2>1. pc'[t] = "limit"
    BY <1>1 DEF Arrive, Goto, TInv, ServerTypes
  <2> QED BY <2>1 DEF OnRecord
<1>2. CASE LetThrough(t) \/ NotThere(t) \/ Index(t)
  <2>1. pc'[t] \in {"lookup", "append", "snapshot"}
    BY <1>2, MovesTyped
  <2> QED BY <2>1 DEF OnRecord
<1>3. CASE Accept(t) \/ TakeSnapshot(t) \/ Answer(t)
  <2>1. pc'[t] \in {"index", "accepted", "idle"}
    BY <1>3, AcceptTyped, SnapshotTyped, AnswerTyped
  <2> QED BY <2>1 DEF OnRecord
<1>4. CASE Replies(t)
  <2>1. PICK from \in Answering, code \in Codes \ {0} : RespondsSo(t, from, code)
    BY <1>4 DEF Replies
  <2>2. Marked(t, code) /\ pc[t] = from /\ code \in Codes /\ (code = 202 <=> from = "publish")
    BY <2>1 DEF RespondsSo, Respond, Marked, Goto
  <2>3. PICK i : i = call[t].id
    OBVIOUS
  <2>4. call'[t].id = i /\ call'[t].code = code /\ pc'[t] = "after"
    BY <1>4, <2>2, <2>3, RequestTypes, RepliesTyped
  <2>5. from = "publish" => Recorded("scan.accepted", i, 202)'
    BY <2>2, <2>3, LogStays DEF OnRecord, TInv, Underway
  <2> QED BY <2>2, <2>4, <2>5 DEF OnRecord
<1>5. CASE OpenAudit(t)
  <2>1. /\ Opens(t) /\ pc' = [pc EXCEPT ![t] = Onward(pc[t])]
        /\ call' = [call EXCEPT ![t].prev = LastLine(audit[call[t].day])]
    BY <1>5 DEF OpenAudit
  <2>2. PICK i : i = call[t].id
    OBVIOUS
  <2>3. call'[t].id = i /\ call'[t].code = call[t].code /\ pc'[t] = Onward(pc[t])
    BY <2>1, <2>2 DEF TInv, ServerTypes, Request
  <2>4. /\ pc'[t] \in {"accepted_write", "after_write", "again_write"}
        /\ pc'[t] = "after_write" => pc[t] = "after"
    BY <2>1, <2>3 DEF Opens, Onward
  <2>5. pc[t] = "after" /\ call[t].code = 202 => Recorded("scan.accepted", i, 202)'
    BY <2>2, LogStays DEF OnRecord
  <2> QED BY <2>3, <2>4, <2>5 DEF OnRecord
<1>6. CASE AuditDamaged(t)
  <2>1. call'[t].code = 500
    BY <1>6, DamagedTyped
  <2> QED BY <2>1 DEF OnRecord
<1> QED BY <1>1, <1>2, <1>3, <1>4, <1>5, <1>6, RecordOfWriter DEF Serves

ToldOf(i) ==
  /\ answered[i] \notin {0, 500} => Recorded("http.request", i, answered[i])
  /\ answered[i] = 202 => Recorded("scan.accepted", i, 202)

(* As long as every file is whole, what was answered, and what is about to *)
(* be, is on record.                                                       *)
AuditInv ==
  WholeFiles => /\ \A t \in Threads : OnRecord(t)
           /\ \A i \in 1..requests : ToldOf(i)

(* Every step keeps on record what was answered.                           *)
LEMMA AuditStep == TInv /\ TInv' /\ ChainInv /\ AuditInv /\ [Next]_vars => AuditInv'
<1> SUFFICES ASSUME TInv, TInv', ChainInv, AuditInv, [Next]_vars, WholeFiles'
             PROVE  /\ \A t \in Threads : OnRecord(t)'
                    /\ \A i \in 1..requests' : ToldOf(i)'
  BY DEF AuditInv
<1>1. LogGrows
  BY LogGrowing
<1>2. WholeFiles
  BY <1>1 DEF LogGrows, WholeFiles
<1>3. \A t \in Threads : OnRecord(t)
  BY <1>2 DEF AuditInv
<1>4. ASSUME NEW u \in Threads, pc'[u] = pc[u], call'[u] = call[u] PROVE OnRecord(u)'
  <2>1. PICK i, code : i = call[u].id /\ code = call[u].code
    OBVIOUS
  <2>2. \A kind : Recorded(kind, i, code) => Recorded(kind, i, code)'
    BY <1>1, LogStays
  <2> QED BY <1>3, <1>4, <2>1, <2>2 DEF OnRecord
<1>5. ASSUME NEW i \in 1..requests, answered'[i] = answered[i]
      PROVE  ToldOf(i)'
  <2>1. PICK code : code = answered[i]
    OBVIOUS
  <2>2. \A kind : Recorded(kind, i, code) => Recorded(kind, i, code)'
    BY <1>1, LogStays
  <2> QED BY <1>2, <1>5, <2>1, <2>2 DEF AuditInv, ToldOf
<1>6. CASE Aside \/ Tick \/ NextDay
  <2>1. UNCHANGED <<pc, call, requests, answered>>
    BY <1>6 DEF Aside, served, Tick, NextDay, hist
  <2> QED BY <1>4, <1>5, <2>1
<1>7. ASSUME NEW t \in Threads, Serves(t)
      PROVE  /\ \A u \in Threads : OnRecord(u)'
             /\ \A i \in 1..requests' : ToldOf(i)'
  <2>1. OnRecord(t)'
    BY <1>1, <1>3, <1>7, RecordOfRequest
  <2>2. CASE \E s \in Scans : Arrive(t, s)
    <3>1. Alone(t) /\ requests' = requests + 1 /\ answered' = answered /\ requests < MaxRequests
      BY <2>2, ArriveTyped DEF Arrive
    <3>2. requests \in Nat /\ answered[requests + 1] = 0
      <4>1. requests \in Nat /\ requests + 1 \in 1..MaxRequests /\ requests + 1 > requests
        BY <3>1, ServerAssumption DEF TInv, ServerTypes
      <4> QED BY <4>1 DEF TInv, Numbered
    <3>3. PICK i : i = requests + 1
      OBVIOUS
    <3>4. \A j \in 1..requests' : j \in 1..requests \/ j = i
      BY <3>1, <3>2, <3>3
    <3>5. ToldOf(i)'
      BY <3>1, <3>2, <3>3 DEF ToldOf
    <3> QED BY <1>4, <1>5, <2>1, <3>1, <3>4, <3>5 DEF Alone
  <2>3. CASE Answer(t)
    <3>0. PICK code : code = call[t].code
      OBVIOUS
    <3>1. PICK i \in 1..requests : i = call[t].id
      BY <2>3 DEF Answer, Goto, TInv, Underway
    <3>2. /\ pc[t] = "answer" /\ answered' = [answered EXCEPT ![i] = code] /\ requests' = requests
      BY <2>3, <3>0, <3>1 DEF Answer, Goto
    <3>3. \A j \in 1..requests : answered'[j] = IF j = i THEN code ELSE answered[j]
      BY <3>2, ServerAssumption DEF TInv, ServerTypes
    <3>4. /\ code # 500 => Recorded("http.request", i, code)'
          /\ code = 202 => Recorded("scan.accepted", i, 202)'
      <4>1. /\ code # 500 => Recorded("http.request", i, code)
            /\ code = 202 => Recorded("scan.accepted", i, 202)
        BY <1>3, <3>0, <3>1, <3>2 DEF OnRecord
      <4> QED BY <1>1, <4>1, LogStays
    <3>5. Alone(t)
      BY <2>3, AnswerTyped
    <3>6. ToldOf(i)'
      BY <3>3, <3>4 DEF ToldOf
    <3> QED BY <1>4, <1>5, <2>1, <3>2, <3>3, <3>5, <3>6 DEF Alone
  <2>4. CASE ~(\E s \in Scans : Arrive(t, s)) /\ ~Answer(t)
    <3>1. Alone(t) /\ requests' = requests /\ answered' = answered
      <4>1. CASE Accept(t)
        BY <4>1, AcceptTyped DEF Accept, Opening
      <4> QED BY <1>7, <2>4, <4>1, GoingOnwards DEF Onwards
    <3> QED BY <1>4, <1>5, <2>1, <3>1 DEF Alone
  <2> QED BY <2>2, <2>3, <2>4
<1> QED BY <1>6, <1>7, StepsAre

(* Nothing has been answered when the server starts.                       *)
LEMMA AuditInit == Init => AuditInv
  BY DEF Init, ServerInit, ServerRest, AuditInv, OnRecord, ToldOf

(* Whatever the threads and processes of the server, the requests and      *)
(* their interleavings, midnights and failing or short writes: no          *)
(* more requests are let through than the limiter may, a scan is accepted  *)
(* once and its client is told so or 500, every answer is on record while  *)
(* the files are whole, and every record that can be read back is chained  *)
(* to the one before it.                                                   *)
THEOREM AnswersAreSound == Spec => []AnswersSound
<1> DEFINE Inv == TInv /\ RateInv /\ ChainInv /\ AcceptInv /\ AuditInv
<1>1. Init => Inv
  BY InitTypes, RateInit, ChainInit, AcceptInit, AuditInit
<1>2. Inv /\ [Next]_vars => Inv'
  BY StepTypes, RateStep, ChainStep, AcceptStep, AuditStep
<1>3. Inv => AnswersSound
  BY RateIsBounded, AuditIsChained DEF AnswersSound, AcceptInv, AuditInv, AnswersAudited, ToldOf, WholeFiles
<1> QED BY <1>1, <1>2, <1>3, PTL DEF Spec

-----------------------------------------------------------------------------
(* The views the page makes of journals and run files.                     *)
RunFiles == RunStates \cup {NoRun}

(* The null value is none of the words or numbers, and no saved state is   *)
(* the missing one.                                                        *)
LEMMA NoneApart ==
  /\ NONE \notin Words /\ NONE \notin ShownStatuses /\ NONE \notin Int /\ NONE \notin Views
  /\ \A run \in RunStates : run # NoRun
<1>1. NONE \notin Words /\ NONE \notin ShownStatuses /\ NONE \notin Int /\ NONE \notin Views
  BY DashboardAssumption
<1>2. ASSUME NEW run \in RunStates PROVE run # NoRun
  <2>1. run.status \in ShownStatuses /\ NoRun.status = NONE
    BY DEF RunStates, NoRun, ShownStatuses
  <2> QED BY <1>1, <2>1
<1> QED BY <1>1, <1>2

(* What the server makes of an event is a view.                            *)
LEMMA SnapshotView == \A event \in Events : Snapshot(event) \in Views
  BY NoneApart DEF Events, Snapshot, Views, First, ShownStatuses

(* What the server makes of an event and a run file is a view, and shows   *)
(* the run if there is one.                                                *)
LEMMA EnrichedView ==
  ASSUME NEW event \in Events, NEW run \in RunFiles
  PROVE  /\ Enriched(event, run) \in Views
         /\ run # NoRun => /\ Enriched(event, run).status = run.status
                           /\ Enriched(event, run).decision = run.decision
                           /\ (Enriched(event, run).quarantined <=> run.quarantined)
<1>1. CASE run = NoRun
  BY <1>1, SnapshotView DEF Enriched
<1>2. CASE run # NoRun
  <2>1. run \in RunStates
    BY <1>2 DEF RunFiles
  <2>2. RunStatuses \subseteq ShownStatuses
    BY DEF ShownStatuses
  <2>3. First(run.risk, 0) \in Int
    BY <2>1 DEF First, RunStates
  <2> QED BY <1>2, <2>1, <2>2, <2>3 DEF Enriched, RunStates, Views
<1> QED BY <1>1, <1>2

(* mergeIntegratedRun makes a view whose decision is that of the run.      *)
LEMMA MergedView ==
  ASSUME NEW view \in Views, NEW run \in RunFiles
  PROVE  /\ MergedRun(view, run) \in Views
         /\ run # NoRun /\ run.decision # NONE => MergedRun(view, run).decision = run.decision
         /\ run # NoRun => MergedRun(view, run).status = run.status
         /\ run # NoRun /\ run.quarantined => MergedRun(view, run).quarantined
         /\ run # NoRun /\ ~run.quarantined /\ ~view.quarantined => ~MergedRun(view, run).quarantined
<1>1. CASE run = NoRun
  BY <1>1 DEF MergedRun
<1>2. CASE run # NoRun
  <2>1. run \in RunStates
    BY <1>2 DEF RunFiles
  <2>2. RunStatuses \subseteq ShownStatuses
    BY DEF ShownStatuses
  <2>3. First(run.status, view.status) = run.status /\ run.status \in ShownStatuses
    BY <2>1, <2>2, NoneApart DEF First, RunStates
  <2>4. /\ First(run.decision, view.decision) \in Words \cup {NONE}
        /\ run.decision # NONE => First(run.decision, view.decision) = run.decision
    BY <2>1 DEF First, RunStates, Views
  <2>5. (run.quarantined \/ view.quarantined) \in BOOLEAN
    OBVIOUS
  <2>6. First(run.risk, 0) \in Int
    BY <2>1 DEF First, RunStates
  <2> QED BY <1>2, <2>1, <2>3, <2>4, <2>5, <2>6 DEF MergedRun, RunStates, Views
<1> QED BY <1>1, <1>2

(* The decision an accepted scan expects is a word, or none.               *)
LEMMA ExpectedType == \A events \in SUBSET Events : Expected(events) \in Words \cup {NONE}
  BY DEF Expected, Events

(* A score is measured as a percentage.                                    *)
LEMMA MeasuredType ==
  ASSUME NEW view \in Views
  PROVE  MeasuredRisk(view) = NONE \/
           (MeasuredRisk(view) \in Int /\ MeasuredRisk(view) >= 0 /\ MeasuredRisk(view) <= 100 * Whole)
<1>1. ASSUME NEW score \in Int
      PROVE  Normalized(score) \in Int /\ Normalized(score) >= 0 /\ Normalized(score) <= 100 * Whole
  BY DEF Normalized, Whole
<1> QED BY <1>1 DEF MeasuredRisk, Views

(* effectiveRisk is a percentage, or none, and no less than what the       *)
(* decision implies.                                                       *)
LEMMA RiskType ==
  ASSUME NEW view \in Views, NEW risk, risk = EffectiveRisk(view),
         NEW implied, implied = DecisionRisk(StatusOf(view))
  PROVE  /\ risk = NONE \/ (risk \in Int /\ risk >= 0 /\ risk <= 100 * Whole)
         /\ implied # NONE => risk # NONE /\ risk >= implied
<1>1. PICK measured : measured = MeasuredRisk(view)
  OBVIOUS
<1>2. measured = NONE \/ (measured \in Int /\ measured >= 0 /\ measured <= 100 * Whole)
  BY <1>1, MeasuredType
<1>3. implied = NONE \/ implied \in {100 * Whole, 99 * Whole, 60 * Whole}
  BY DEF DecisionRisk
<1>4. 100 * Whole = 10000 /\ 99 * Whole = 9900 /\ 60 * Whole = 6000
  BY DEF Whole
<1>5. risk = IF implied = NONE \/ measured = NONE THEN First(measured, implied)
             ELSE IF measured > implied THEN measured ELSE implied
  BY <1>1 DEF EffectiveRisk
<1> QED BY <1>2, <1>3, <1>4, <1>5, NoneApart DEF First

(* statusOf has a word for every view.                                     *)
LEMMA StatusType == \A view \in Views : StatusOf(view) \in ShownStatuses
  BY DEF StatusOf, Views, ShownStatuses, RunStatuses

(* The view that deriveScan makes. *)
LEMMA DerivedView ==
  ASSUME NEW view \in Views, NEW events \in SUBSET Events
  PROVE  /\ Derived(view, events) \in Views
         /\ view.decision # NONE =>
              /\ Derived(view, events).decision = view.decision
              /\ view.quarantined => Derived(view, events).quarantined
              /\ Derived(view, events).quarantined =>
                   view.quarantined \/ view.decision \in Quarantining
<1>1. PICK decision : decision = First(First(view.decision, view.recommendation), Expected(events))
  OBVIOUS
<1>2. decision \in Words \cup {NONE} /\ (view.decision # NONE => decision = view.decision)
  BY <1>1, ExpectedType DEF First, Views
<1>3. PICK decided : decided = [view EXCEPT !.decision = decision,
                                  !.quarantined = @ \/ decision \in Quarantining]
  OBVIOUS
<1>4. decided \in Views /\ decided.decision = decision
      /\ (decided.quarantined <=> view.quarantined \/ decision \in Quarantining)
  BY <1>2, <1>3 DEF Views
<1>5. Derived(view, events) =
        [decided EXCEPT !.risk = First(EffectiveRisk(view), 0), !.status = StatusOf(decided)]
  BY <1>1, <1>3 DEF Derived
<1>6. First(EffectiveRisk(view), 0) \in Int /\ StatusOf(decided) \in ShownStatuses
  <2>1. EffectiveRisk(view) \in Int \cup {NONE}
    BY RiskType
  <2> QED BY <1>4, <2>1, StatusType DEF First
<1>7. Derived(view, events) \in Views
  BY <1>4, <1>5, <1>6 DEF Views
<1>8. /\ Derived(view, events).decision = decision
      /\ Derived(view, events).quarantined = decided.quarantined
  BY <1>4, <1>5 DEF Views
<1> QED BY <1>2, <1>4, <1>7, <1>8

(* mergeSocketEvent leaves alone what is known of the decision. *)
LEMMA SocketViewIs ==
  ASSUME NEW existing \in Views \cup {NONE}, NEW event \in Events
  PROVE  /\ SocketView(existing, event) \in Views
         /\ existing # NONE =>
              /\ SocketView(existing, event).decision = existing.decision
              /\ SocketView(existing, event).recommendation = existing.recommendation
              /\ SocketView(existing, event).quarantined = existing.quarantined
              /\ SocketView(existing, event).status \in {EventStatus(event), existing.status}
<1>1. PICK status : status = EventStatus(event)
  OBVIOUS
<1>2. status \in ShownStatuses \cup {NONE}
  BY <1>1 DEF EventStatus, Events, ShownStatuses
<1>3. CASE existing = NONE
  <2>1. Snapshot(Event("none", NONE)) \in Views
    BY NoneApart DEF Snapshot, Event, Views, First, ShownStatuses
  <2>2. First(status, "PROCESSING") \in ShownStatuses
    BY <1>2 DEF First, ShownStatuses
  <2> QED BY <1>1, <1>3, <2>1, <2>2 DEF SocketView, Views
<1>4. CASE existing # NONE
  <2>1. existing \in Views /\ existing.status \in ShownStatuses
    BY <1>4 DEF Views
  <2>2. First(status, existing.status) \in ShownStatuses \cap {status, existing.status}
    BY <1>2, <2>1 DEF First
  <2>3. SocketView(existing, event) = [existing EXCEPT !.status = First(status, existing.status)]
    BY <1>1, <1>4 DEF SocketView
  <2> QED BY <1>1, <2>1, <2>2, <2>3 DEF Views
<1> QED BY <1>3, <1>4

(* What the list said of a run is laid over what the page had.             *)
LEMMA OverlaidView ==
  ASSUME NEW cached \in Views, NEW entry \in Views, NEW run \in RunFiles
  PROVE  /\ Overlaid(cached, entry, run) \in Views
         /\ run # NoRun => Overlaid(cached, entry, run) = entry
  BY NoneApart DEF Overlaid, Views

(* The words for a decision are told apart. *)
LEMMA WordsApart ==
  /\ Review \cap (Approving \cup Quarantining \cup Refusing) = {}
  /\ Approving \cap (Quarantining \cup Refusing) = {} /\ Quarantining \cap Refusing = {}
  /\ Words = Review \cup Approving \cup Quarantining \cup Refusing
               \cup {"HOLD_PENDING_BLOCKCHAIN_RECOVERY"}
  BY DEF Review, Approving, Quarantining, Refusing, Words

(* A view with a decision is shown as it was before deriveScan wrote its   *)
(* status into it.                                                         *)
LEMMA DerivedStatus ==
  ASSUME NEW view \in Views, NEW events \in SUBSET Events, view.decision # NONE,
         StatusOf(view) \in Verdicts
  PROVE  StatusOf(Derived(view, events)) = StatusOf(view)
<1>1. PICK decided : decided = [view EXCEPT !.decision = view.decision,
                                  !.quarantined = @ \/ view.decision \in Quarantining]
  OBVIOUS
<1>2. /\ decided \in Views /\ decided.decision = view.decision /\ decided.status = view.status
      /\ (decided.quarantined <=> view.quarantined \/ view.decision \in Quarantining)
      /\ decided.recommendation = view.recommendation
  BY <1>1 DEF Views
<1>3. First(First(view.decision, view.recommendation), Expected(events)) = view.decision
  BY DEF First
<1>4. PICK new :
        new = [decided EXCEPT !.risk = First(EffectiveRisk(view), 0), !.status = StatusOf(decided)]
  OBVIOUS
<1>5. Derived(view, events) = new
  BY <1>1, <1>3, <1>4 DEF Derived
<1>6. /\ new.decision = view.decision /\ new.status = StatusOf(decided)
      /\ (new.quarantined <=> decided.quarantined)
  BY <1>2, <1>4 DEF Views
<1>7. StatusOf(decided) = StatusOf(view)
  BY <1>2, WordsApart DEF StatusOf, First
<1>8. StatusOf(new) = StatusOf(decided)
  <2>1. PICK r \in Verdicts : r = StatusOf(decided)
    BY <1>7
  <2>2. r # NONE
    BY NoneApart DEF Verdicts, ShownStatuses, RunStatuses
  <2>3. /\ r = "MANUAL_REVIEW" \/ new.decision \notin Review
        /\ r \in {"APPROVED", "REJECTED"} => ~new.quarantined
        /\ r = "REJECTED" => new.decision \notin Approving \cup Quarantining
        /\ r = "APPROVED" => new.decision \notin Quarantining \cup Refusing
        /\ r = "QUARANTINED" => new.quarantined \/ new.decision \notin Approving
    BY <1>2, <1>6, <2>1, WordsApart DEF StatusOf, First, Verdicts
  <2> QED BY <1>2, <1>6, <2>1, <2>2, <2>3 DEF StatusOf, First, Verdicts
<1> QED BY <1>5, <1>7, <1>8

(* What a run that ended is shown as. *)
EndOf(run) ==
  IF run.decision \in Review THEN "MANUAL_REVIEW"
  ELSE IF run.quarantined \/ run.decision \in Quarantining THEN "QUARANTINED"
  ELSE IF run.decision \in Approving THEN "APPROVED"
  ELSE IF run.decision \in Refusing THEN "REJECTED"
  ELSE "INFRASTRUCTURE_HOLD"

(* A view that shows the end of a run is shown as that end.                *)
LEMMA EndShown ==
  ASSUME NEW run \in RunStates, run.decision # NONE, NEW view \in Views,
         view.status = run.status, view.decision = run.decision,
         view.quarantined <=> run.quarantined
  PROVE  StatusOf(view) = EndOf(run)
<1>1. /\ run.decision \in Words /\ run.status \in RunStatuses
      /\ run.status = "MANUAL_REVIEW" => run.decision \in Review
      /\ run.decision = "HOLD_PENDING_BLOCKCHAIN_RECOVERY" => run.status = "INFRASTRUCTURE_HOLD"
  BY DEF RunStates
<1>2. run.status \notin {"LICENSE_REQUIRED", "QUARANTINED", "FAILED", NONE}
  BY <1>1, NoneApart DEF RunStatuses, ShownStatuses
<1> QED BY <1>1, <1>2, WordsApart DEF StatusOf, First, EndOf

(* An event that comes after the end of a run, and says nothing of its     *)
(* own, leaves the end shown.                                              *)
LEMMA LateEvent ==
  ASSUME NEW run \in RunStates, run.decision # NONE, NEW view \in Views,
         view.decision = run.decision, run.quarantined => view.quarantined,
         EndOf(run) \in Verdicts, StatusOf(view) = EndOf(run),
         NEW event \in Events,
         EventStatus(event) \notin {"MANUAL_REVIEW", "LICENSE_REQUIRED", "QUARANTINED"}
  PROVE  StatusOf(SocketView(view, event)) = EndOf(run)
<1>1. PICK new : new = SocketView(view, event)
  OBVIOUS
<1>2. /\ new.decision = view.decision /\ (new.quarantined <=> view.quarantined)
      /\ new.status \in {EventStatus(event), view.status}
  BY <1>1, SocketViewIs, NoneApart
<1>3. run.decision \in Words
  BY DEF RunStates
<1> QED BY <1>1, <1>2, <1>3, WordsApart DEF StatusOf, First, EndOf, Verdicts

(* A refused chip counts as a high risk. *)
LEMMA RefusedRisk ==
  ASSUME NEW view \in Views, StatusOf(view) \in {"REJECTED", "QUARANTINED"}
  PROVE  HighRisk(view)
<1>1. PICK risk : risk = EffectiveRisk(view)
  OBVIOUS
<1>2. PICK implied : implied = DecisionRisk(StatusOf(view))
  OBVIOUS
<1>3. implied = 100 * Whole \/ implied = 99 * Whole
  BY <1>2 DEF DecisionRisk
<1>4. 100 * Whole = 10000 /\ 99 * Whole = 9900 /\ 70 * Whole = 7000
  BY DEF Whole
<1>5. implied \in Int /\ implied >= 9900
  BY <1>3, <1>4
<1>6. risk # NONE /\ risk >= implied /\ risk \in Int
  BY <1>1, <1>2, <1>5, RiskType, NoneApart
<1>7. risk >= 70 * Whole
  BY <1>4, <1>5, <1>6
<1> QED BY <1>1, <1>6, <1>7 DEF HighRisk

-----------------------------------------------------------------------------
(* Lists of scans. *)

(* A list without one of its scans.                                        *)
LEMMA WithoutIs ==
  ASSUME NEW list \in Seq(Scans), Distinct(list), NEW s \in Scans,
         NEW left, left = Without(list, s)
  PROVE  left \in Seq(Scans) /\ Distinct(left) /\ Known(left) = Known(list) \ {s}
<1> DEFINE at == {i \in 1..Len(list) : list[i] = s}
<1>1. CASE at = {}
  BY <1>1 DEF Without, Known
<1>2. CASE at # {}
  <2>1. PICK k : k = CHOOSE i \in at : TRUE
    OBVIOUS
  <2>2. PICK n \in Nat : n = Len(list)
    OBVIOUS
  <2>3. k \in 1..n /\ list[k] = s
    BY <1>2, <2>1, <2>2
  <2>4. PICK a, b : a = SubSeq(list, 1, k-1) /\ b = SubSeq(list, k+1, Len(list))
    OBVIOUS
  <2>5. left = a \o b
    BY <1>2, <2>1, <2>4 DEF Without
  <2>6. a \in Seq(Scans) /\ Len(a) = k-1 /\ \A i \in 1..(k-1) : a[i] = list[i]
    <3>1. \A i \in 1..(k-1) : list[i] \in Scans
      BY <2>2, <2>3
    <3>2. 1 \in Int /\ k-1 \in Int
      BY <2>3
    <3>3. /\ a \in Seq(Scans) /\ Len(a) = IF 1 <= k-1 THEN (k-1)-1+1 ELSE 0
          /\ \A i \in 1..((k-1)-1+1) : a[i] = list[1+i-1]
      BY <2>4, <3>1, <3>2, SubSeqProperties
    <3> QED BY <2>2, <2>3, <3>3
  <2>7. b \in Seq(Scans) /\ Len(b) = n-k /\ \A i \in 1..(n-k) : b[i] = list[k+i]
    <3>1. PICK p \in Int : p = k+1
      BY <2>3
    <3>2. \A i \in p..n : list[i] \in Scans
      BY <2>2, <2>3, <3>1
    <3>3. n \in Int
      BY <2>2
    <3>4. /\ b \in Seq(Scans) /\ Len(b) = IF p <= n THEN n-p+1 ELSE 0
          /\ \A i \in 1..(n-p+1) : b[i] = list[p+i-1]
      BY <2>2, <2>4, <3>1, <3>2, <3>3, SubSeqProperties
    <3>5. Len(b) = n-k
      BY <2>2, <2>3, <3>1, <3>4
    <3>6. \A i \in 1..(n-k) : i \in 1..(n-p+1) /\ p+i-1 = k+i
      BY <2>2, <2>3, <3>1
    <3> QED BY <3>4, <3>5, <3>6
  <2>8. PICK m \in Nat : m = n-1
    BY <2>2, <2>3
  <2>9. /\ left \in Seq(Scans) /\ Len(left) = m
        /\ \A i \in 1..m : left[i] = IF i <= k-1 THEN a[i] ELSE b[i - (k-1)]
    <3>1. /\ a \o b \in Seq(Scans) /\ Len(a \o b) = Len(a) + Len(b)
          /\ \A i \in 1..(Len(a) + Len(b)) :
               (a \o b)[i] = IF i <= Len(a) THEN a[i] ELSE b[i - Len(a)]
      BY <2>6, <2>7, ConcatProperties
    <3>2. Len(a) + Len(b) = m
      BY <2>2, <2>3, <2>6, <2>7, <2>8
    <3> QED BY <2>5, <2>6, <3>1, <3>2
  <2> DEFINE place(i) == IF i < k THEN i ELSE i+1
  <2>10. ASSUME NEW i \in 1..m
         PROVE  place(i) \in 1..n /\ left[i] = list[place(i)] /\ place(i) # k
    <3>1. CASE i < k
      BY <2>2, <2>3, <2>6, <2>8, <2>9, <3>1
    <3>2. CASE i >= k
      <4>1. i - (k-1) \in 1..(n-k) /\ k + (i - (k-1)) = i + 1
        BY <2>2, <2>3, <2>8, <3>2
      <4> QED BY <2>2, <2>3, <2>7, <2>8, <2>9, <3>2, <4>1
    <3> QED BY <2>3, <2>8, <3>1, <3>2
  <2>11. ASSUME NEW j \in 1..n, j # k
         PROVE  \E i \in 1..m : place(i) = j
    <3>1. CASE j < k
      BY <2>2, <2>3, <2>8, <3>1
    <3>2. CASE j > k
      <4>1. j-1 \in 1..m /\ place(j-1) = j
        BY <2>2, <2>3, <2>8, <3>2
      <4> QED BY <4>1
    <3> QED BY <2>2, <2>3, <2>11, <3>1, <3>2
  <2>12. Distinct(left)
    <3>1. SUFFICES ASSUME NEW i \in 1..m, NEW j \in 1..m, left[i] = left[j] PROVE i = j
      BY <2>9 DEF Distinct
    <3>2. place(i) = place(j)
      BY <2>2, <2>10, <3>1 DEF Distinct
    <3> QED BY <2>3, <2>8, <3>2
  <2>13. \A i \in 1..n : list[i] = s => i = k
    BY <2>2, <2>3 DEF Distinct
  <2>14. Known(left) = Known(list) \ {s}
    <3>1. ASSUME NEW x \in Known(left) PROVE x \in Known(list) /\ x # s
      <4>1. PICK i \in 1..m : x = left[i]
        BY <2>9, <3>1 DEF Known
      <4>2. PICK j : j = place(i)
        OBVIOUS
      <4>3. j \in 1..n /\ x = list[j] /\ j # k
        BY <2>10, <4>1, <4>2
      <4> QED BY <2>2, <2>13, <4>3 DEF Known
    <3>2. ASSUME NEW x \in Known(list), x # s PROVE x \in Known(left)
      <4>1. PICK j \in 1..n : x = list[j]
        BY <2>2, <3>2 DEF Known
      <4>2. PICK i \in 1..m : place(i) = j
        BY <2>3, <2>11, <3>2, <4>1
      <4>3. x = left[i]
        BY <2>10, <4>1, <4>2
      <4> QED BY <2>9, <4>3 DEF Known
    <3> QED BY <3>1, <3>2
  <2> QED BY <2>9, <2>12, <2>14
<1> QED BY <1>1, <1>2

(* A list whose scan is moved to the front.                                *)
LEMMA FrontIs ==
  ASSUME NEW list \in Seq(Scans), Distinct(list), NEW s \in Scans,
         NEW new, new = <<s>> \o Without(list, s)
  PROVE  new \in Seq(Scans) /\ Distinct(new) /\ Known(new) = Known(list) \cup {s}
<1>1. PICK left : left = Without(list, s)
  OBVIOUS
<1>2. left \in Seq(Scans) /\ Distinct(left) /\ Known(left) = Known(list) \ {s}
  BY <1>1, WithoutIs
<1>3. PICK n \in Nat : n = Len(left)
  BY <1>2
<1>4. <<s>> \in Seq(Scans) /\ Len(<<s>>) = 1 /\ <<s>>[1] = s
  OBVIOUS
<1>5. /\ new \in Seq(Scans) /\ Len(new) = n+1
      /\ \A i \in 1..(n+1) : new[i] = IF i <= 1 THEN s ELSE left[i-1]
  <2>1. /\ new \in Seq(Scans) /\ Len(new) = 1 + n
        /\ \A i \in 1..(1 + n) : new[i] = IF i <= 1 THEN <<s>>[i] ELSE left[i-1]
    BY <1>1, <1>2, <1>3, <1>4, ConcatProperties
  <2> QED BY <1>3, <1>4, <2>1
<1>6. \A i \in 1..n : left[i] # s
  BY <1>2, <1>3 DEF Known
<1>7. Distinct(new)
  <2>1. SUFFICES ASSUME NEW i \in 1..(n+1), NEW j \in 1..(n+1), new[i] = new[j] PROVE i = j
    BY <1>5 DEF Distinct
  <2>2. CASE i = 1
    <3>1. new[i] = s
      BY <1>5, <2>2
    <3>2. j > 1 => j-1 \in 1..n /\ new[j] = left[j-1]
      BY <1>3, <1>5
    <3>3. ~(j > 1)
      BY <1>6, <2>1, <3>1, <3>2
    <3> QED BY <1>3, <2>2, <3>3
  <2>3. CASE j = 1
    <3>1. new[j] = s
      BY <1>5, <2>3
    <3>2. i > 1 => i-1 \in 1..n /\ new[i] = left[i-1]
      BY <1>3, <1>5
    <3>3. ~(i > 1)
      BY <1>6, <2>1, <3>1, <3>2
    <3> QED BY <1>3, <2>3, <3>3
  <2>4. CASE i > 1 /\ j > 1
    <3>1. i-1 \in 1..n /\ j-1 \in 1..n /\ left[i-1] = left[j-1]
      BY <1>3, <1>5, <2>1, <2>4
    <3>2. i-1 = j-1
      BY <1>2, <1>3, <3>1 DEF Distinct
    <3> QED BY <3>2
  <2> QED BY <2>2, <2>3, <2>4
<1>8. Known(new) = Known(left) \cup {s}
  <2>1. ASSUME NEW x \in Known(new) PROVE x \in Known(left) \cup {s}
    <3>1. PICK i \in 1..(n+1) : x = new[i]
      BY <1>5 DEF Known
    <3>2. i > 1 => i-1 \in 1..n
      BY <1>3
    <3> QED BY <1>3, <1>5, <3>1, <3>2 DEF Known
  <2>2. s \in Known(new)
    BY <1>3, <1>5 DEF Known
  <2>3. ASSUME NEW x \in Known(left) PROVE x \in Known(new)
    <3>1. PICK i \in 1..n : x = left[i]
      BY <1>3 DEF Known
    <3>2. i+1 \in 1..(n+1) /\ ~(i+1 <= 1) /\ (i+1)-1 = i
      BY <1>3
    <3>3. new[i+1] = x
      BY <1>5, <3>1, <3>2
    <3> QED BY <1>5, <3>2, <3>3 DEF Known
  <2> QED BY <2>1, <2>2, <2>3
<1>9. Known(list) \subseteq Known(left) \cup {s} /\ Known(left) \subseteq Known(list)
  BY <1>2
<1> QED BY <1>5, <1>7, <1>8, <1>9

(* The first part of a list.                                               *)
LEMMA UptoIs ==
  ASSUME NEW S, NEW list \in Seq(S), NEW limit \in Nat, NEW new, new = Upto(list, limit)
  PROVE  /\ new \in Seq(S) /\ Len(new) <= Len(list)
         /\ \A i \in 1..Len(new) : i \in 1..Len(list) /\ new[i] = list[i]
<1>1. PICK n \in Nat : n = Len(list)
  OBVIOUS
<1>2. PICK m \in Nat : m = IF n < limit THEN n ELSE limit
  OBVIOUS
<1>3. m <= n /\ new = SubSeq(list, 1, m)
  BY <1>1, <1>2 DEF Upto
<1>4. \A i \in 1..m : i \in 1..n /\ list[i] \in S
  BY <1>1, <1>3
<1>5. /\ new \in Seq(S) /\ Len(new) = IF 1 <= m THEN m-1+1 ELSE 0
      /\ \A i \in 1..(m-1+1) : new[i] = list[1+i-1]
  BY <1>3, <1>4, SubSeqProperties, 1 \in Int, m \in Int
<1>6. Len(new) = m /\ \A i \in 1..m : new[i] = list[i]
  BY <1>5
<1> QED BY <1>1, <1>3, <1>4, <1>5, <1>6

-----------------------------------------------------------------------------
(* What the page, and the requests it has under way, are made of.          *)
Keys    == {"event", "stage"} \X Nat

PageTypes ==
  /\ saved \in [Scans -> Nat] /\ tries \in 0..Attempts /\ loaded \in BOOLEAN
  /\ views \in [Scans -> Views \cup {NONE}]
  /\ shown \in [Scans -> SUBSET Keys]
  /\ version \in [Scans -> Nat] /\ read \in [Scans -> Nat]
  /\ refresh \in [phase : {"idle", "asked", "listed", "hydrating"}, list : Seq(Entries)]
  /\ hydration \in [Scans -> Hydrations \cup {NONE}]

(* The writers keep to their scripts, latest.json lists what is there, and *)
(* snapshots tell of events that are.                                      *)
Written ==
  /\ \A s \in Scans : log[s] \in Versions(s) /\ saved[s] \in States(s)
  /\ ListOfScans(recent)
  /\ snapshot \in [Scans -> Nat] /\ \A s \in Scans : snapshot[s] <= log[s]

(* A request that has opened a journal is yet to publish its first event.  *)
Unpublished == {"index", "snapshot", "accepted", "accepted_write", "publish"}
Accepted == \A t \in Threads : pc[t] \in Unpublished => log[call[t].scan] > 0

(* The appends of events that are under way.                               *)
Appends == [scan : Scans, sequence : Nat, here : BOOLEAN, step : {"index", "snapshot", "publish"}]

(* Appends and messages tell of events that are there.                     *)
Messages ==
  /\ \A a \in appends : a \in Appends /\ a.sequence \in 1..log[a.scan]
  /\ wire # NONE => /\ wire \in Seq(Scans \X Nat)
                    /\ \A i \in 1..Len(wire) : wire[i][2] \in 1..log[wire[i][1]]

(* The page shows nothing that has not been written.                       *)
Founded(s) ==
  version[s] <= log[s] /\ read[s] <= saved[s] /\ shown[s] \subseteq WrittenKeys(s)

(* Answers are no older than the list they were asked for with, and that   *)
(* is no older than what the page has read before.                         *)
EntrySound(e) == e[2] \in 1..log[e[1]] /\ e[3] \in read[e[1]]..saved[e[1]]

ListSound ==
  refresh.phase = "listed" =>
    /\ \A i \in 1..Len(refresh.list) : EntrySound(refresh.list[i])
    /\ \A i, j \in 1..Len(refresh.list) : refresh.list[i][1] = refresh.list[j][1] => i = j

AnswersFit(s, h) ==
  /\ h.entry[1] = s /\ EntrySound(h.entry)
  /\ h.snapshot \notin Pending =>
       h.snapshot[1] \in 1..log[s] /\ h.snapshot[2] \in h.entry[3]..saved[s]
  /\ h.events \notin Pending => h.events <= log[s]
  /\ h.run \notin Pending => h.run \in h.entry[3]..saved[s]

HydrationSound(s) ==
  hydration[s] # NONE => refresh.phase = "hydrating" /\ AnswersFit(s, hydration[s])

(* A view that rests on a decided run has that run's decision.             *)
ViewSound(s) ==
  read[s] # 0 => /\ views[s] \in Views
                 /\ Runs[s][read[s]].decision # NONE =>
                      /\ views[s].decision = Runs[s][read[s]].decision
                      /\ Runs[s][read[s]].quarantined => views[s].quarantined

(* A page that has not been opened knows nothing.                          *)
Unopened ==
  ~loaded => wire = NONE /\ refresh.phase = "idle" /\ \A s \in Scans : read[s] = 0

PageInv ==
  /\ PageTypes /\ Written /\ Accepted /\ Messages /\ ListOfScans(order) /\ Unopened /\ ListSound
  /\ \A s \in Scans : Founded(s) /\ HydrationSound(s) /\ ViewSound(s)

-----------------------------------------------------------------------------
(* A request that waits, or has failed, has no answer.                     *)
LEMMA PendingApart ==
  /\ WAITING # FAILED /\ Pending \cap Nat = {} /\ Pending \cap (Nat \X Nat) = {}
  BY DashboardAssumption DEF Pending

(* What the writers write.                                                 *)
LEMMA ScriptTypes ==
  ASSUME NEW s \in Scans
  PROVE  /\ Journal[s] \in Seq(Events) /\ Len(Journal[s]) \in Nat \ {0}
         /\ Runs[s] \in Seq(RunStates) /\ Len(Runs[s]) \in Nat
         /\ \A i \in 1..Len(Journal[s]) : Journal[s][i] \in Events
         /\ \A k \in 1..Len(Runs[s]) : Runs[s][k] \in RunStates
<1>1. Journal[s] \in Seq(Events) /\ Journal[s] # <<>> /\ Runs[s] \in Seq(RunStates)
  BY DashboardAssumption
<1> QED BY <1>1

(* A page that is not opened yet, on a store that holds nothing.           *)
LEMMA PageBegins == Init => PageInv
<1> SUFFICES ASSUME Init PROVE PageInv
  OBVIOUS
<1>0. /\ log = [s \in Scans |-> 0] /\ recent = <<>> /\ snapshot = [s \in Scans |-> 0]
      /\ wire = NONE /\ pc = [t \in Threads |-> "idle"]
  BY DEF Init, ServerInit, ServerRest
<1>1. /\ saved = [s \in Scans |-> 0] /\ appends = {}
      /\ tries = 0 /\ loaded = FALSE
      /\ order = <<>> /\ views = [s \in Scans |-> NONE]
      /\ shown = [s \in Scans |-> {}] /\ version = [s \in Scans |-> 0]
      /\ read = [s \in Scans |-> 0]
      /\ refresh = [phase |-> "idle", list |-> <<>>] /\ hydration = [s \in Scans |-> NONE]
  BY DEF Init, PageInit, Idle
<1>2. PageTypes
  <2>1. tries \in 0..Attempts
    BY <1>1, DashboardAssumption
  <2>2. <<>> \in Seq(Entries)
    OBVIOUS
  <2>3. refresh \in [phase : {"idle", "asked", "listed", "hydrating"}, list : Seq(Entries)]
    BY <1>1, <2>2
  <2>4. shown \in [Scans -> SUBSET Keys]
    BY <1>1
  <2> QED BY <1>1, <2>1, <2>3, <2>4 DEF PageTypes
<1>3. ListOfScans(<<>>) 
  BY DEF ListOfScans, Distinct, Known
<1>4. Written
  <2>1. \A s \in Scans : 0 \in Versions(s) /\ 0 \in States(s)
    BY ScriptTypes DEF Versions, States
  <2> QED BY <1>0, <1>1, <1>3, <2>1 DEF Written
<1>5. Accepted /\ Messages /\ Unopened /\ ListSound
  BY <1>0, <1>1 DEF Accepted, Unpublished, Messages, Unopened, ListSound
<1>6. ASSUME NEW s \in Scans PROVE Founded(s) /\ HydrationSound(s) /\ ViewSound(s)
  BY <1>0, <1>1 DEF Founded, HydrationSound, ViewSound
<1> QED BY <1>1, <1>2, <1>3, <1>4, <1>5, <1>6 DEF PageInv

(* Journals and run files grow. *)
Later ==
  /\ log \in [Scans -> Nat] /\ log' \in [Scans -> Nat] /\ saved' \in [Scans -> Nat]
  /\ \A s \in Scans : log[s] <= log'[s] /\ saved[s] <= saved'[s]

(* An entry of a list stays true while journals and runs grow.             *)
LEMMA EntryLater ==
  ASSUME PageTypes, Later, read' = read, NEW e \in Entries, EntrySound(e)
  PROVE  EntrySound(e)'
<1>1. PICK s \in Scans : s = e[1]
  BY DEF Entries
<1>2. e[2] \in Nat /\ e[3] \in Nat
  BY DEF Entries
<1>3. read[s] \in Nat /\ saved[s] \in Nat /\ log[s] \in Nat /\ log'[s] \in Nat /\ saved'[s] \in Nat
      /\ log[s] <= log'[s] /\ saved[s] <= saved'[s]
  BY DEF PageTypes, Later
<1> QED BY <1>1, <1>2, <1>3 DEF EntrySound

(* So do the answers of a hydration.                                       *)
LEMMA AnswersLater ==
  ASSUME PageTypes, Later, read' = read, NEW s \in Scans, NEW h \in Hydrations, AnswersFit(s, h)
  PROVE  AnswersFit(s, h)'
<1>1. h.entry \in Entries /\ h.entry[3] \in Nat
  BY DEF Hydrations, Entries
<1>2. EntrySound(h.entry)'
  BY <1>1, EntryLater DEF AnswersFit
<1>3. saved[s] \in Nat /\ log[s] \in Nat /\ log'[s] \in Nat /\ saved'[s] \in Nat
      /\ log[s] <= log'[s] /\ saved[s] <= saved'[s]
  BY DEF PageTypes, Later
<1>4. /\ h.snapshot \in (Nat \X Nat) \cup Pending /\ h.events \in Nat \cup Pending
      /\ h.run \in Nat \cup Pending
  BY DEF Hydrations
<1>5. h.snapshot \notin Pending =>
       h.snapshot[1] \in 1..log'[s] /\ h.snapshot[2] \in h.entry[3]..saved'[s]
  BY <1>1, <1>3, <1>4 DEF AnswersFit
<1>6. h.events \notin Pending => h.events <= log'[s]
  BY <1>3, <1>4 DEF AnswersFit
<1>7. h.run \notin Pending => h.run \in h.entry[3]..saved'[s]
  BY <1>1, <1>3, <1>4 DEF AnswersFit
<1> QED BY <1>2, <1>5, <1>6, <1>7 DEF AnswersFit

(* What has been written stays written.                                    *)
LEMMA WrittenLater ==
  ASSUME PageTypes, Later, NEW s \in Scans
  PROVE  WrittenKeys(s) \subseteq WrittenKeys(s)'
<1>1. saved[s] \in Nat /\ log[s] \in Nat /\ log'[s] \in Nat /\ saved'[s] \in Nat
      /\ log[s] <= log'[s] /\ saved[s] <= saved'[s]
  BY DEF PageTypes, Later
<1>2. 1..log[s] \subseteq 1..log'[s] /\ 1..saved[s] \subseteq 1..saved'[s]
  BY <1>1
<1> QED BY <1>2 DEF WrittenKeys

(* A list of accepted scans stays one.                                     *)
LEMMA ListLater ==
  ASSUME Later, NEW list, ListOfScans(list)
  PROVE  ListOfScans(list)'
<1>1. \A s \in Known(list) : s \in Scans
  BY DEF ListOfScans, Known
<1>2. \A s \in Scans : log[s] > 0 => log'[s] > 0
  BY DEF Later
<1> QED BY <1>1, <1>2 DEF ListOfScans, Known, Distinct

(* What the page keeps of a step that leaves the page alone. *)
Kept ==
  /\ PageTypes /\ ListOfScans(order) /\ ListSound
  /\ \A s \in Scans : Founded(s) /\ HydrationSound(s) /\ ViewSound(s)

(* Writers leave what is known of the page true.                           *)
LEMMA PageKept ==
  ASSUME PageTypes, Kept, Later, UNCHANGED <<tries, loaded, page, rest>>
  PROVE  Kept'
<1>1. UNCHANGED <<tries, loaded, order, views, shown, version, read, refresh, hydration>>
  BY DEF page, rest
<1>2. PageTypes'
  BY <1>1 DEF PageTypes, Later
<1>3. ListOfScans(order)'
  BY <1>1, ListLater DEF Kept
<1>4. ListSound'
  <2>1. refresh.list \in Seq(Entries)
    BY DEF PageTypes
  <2>2. ASSUME NEW i \in 1..Len(refresh.list), EntrySound(refresh.list[i])
        PROVE  EntrySound(refresh.list[i])'
    <3>1. PICK e \in Entries : e = refresh.list[i]
      BY <2>1
    <3>2. EntrySound(e)'
      BY <1>1, <2>2, <3>1, EntryLater
    <3> QED BY <1>1, <3>1, <3>2
  <2> QED BY <1>1, <2>2 DEF ListSound, Kept
<1>5. ASSUME NEW s \in Scans PROVE Founded(s)' /\ HydrationSound(s)' /\ ViewSound(s)'
  <2>1. Founded(s)'
    <3>1. saved[s] \in Nat /\ log[s] \in Nat /\ log'[s] \in Nat /\ saved'[s] \in Nat
          /\ log[s] <= log'[s] /\ saved[s] <= saved'[s] /\ version[s] \in Nat /\ read[s] \in Nat
      BY DEF PageTypes, Later
    <3> QED BY <1>1, <3>1, WrittenLater DEF Kept, Founded
  <2>2. HydrationSound(s)'
    <3>1. CASE hydration[s] = NONE
      BY <1>1, <3>1 DEF HydrationSound
    <3>2. CASE hydration[s] # NONE
      <4>1. PICK h \in Hydrations : h = hydration[s]
        BY <3>2 DEF PageTypes
      <4>2. AnswersFit(s, h)'
        BY <1>1, <3>2, <4>1, AnswersLater DEF Kept, HydrationSound
      <4> QED BY <1>1, <3>2, <4>1, <4>2 DEF Kept, HydrationSound
    <3> QED BY <3>1, <3>2
  <2>3. ViewSound(s)'
    BY <1>1 DEF Kept, ViewSound
  <2> QED BY <2>1, <2>2, <2>3
<1> QED BY <1>2, <1>3, <1>4, <1>5 DEF Kept

-----------------------------------------------------------------------------
(* The server. *)

Handling(t) == (\E s \in Scans : Arrive(t, s)) \/ RequestStep(t) \/ Mishap(t)

(* What a step of a request does to the journals, their projections and    *)
(* the socket, and how a request comes to have a journal it has yet to     *)
(* tell of.                                                                *)
LEMMA Handles ==
  ASSUME TInv, NEW t \in Threads, Handling(t)
  PROVE  /\ Alone(t)
         /\ \/ Accept(t) \/ Index(t) \/ TakeSnapshot(t) \/ Publish(t)
            \/ UNCHANGED <<log, recent, snapshot, wire>>
         /\ pc'[t] \in Unpublished =>
              Accept(t) \/ (pc[t] \in Unpublished /\ call'[t].scan = call[t].scan)
<1>1. CASE \E s \in Scans : Arrive(t, s)
  <2>1. Alone(t)
    BY <1>1, ArriveTyped
  <2>2. pc' = [pc EXCEPT ![t] = "limit"] /\ UNCHANGED <<log, recent, snapshot, wire>>
    BY <1>1 DEF Arrive, Goto, store
  <2>3. pc'[t] = "limit"
    BY <2>2 DEF TInv, ServerTypes
  <2> QED BY <2>1, <2>2, <2>3 DEF Unpublished
<1>2. CASE LetThrough(t) \/ NotThere(t)
  <2>1. UNCHANGED <<log, recent, snapshot, wire>>
    BY <1>2 DEF LetThrough, NotThere, store
  <2>2. pc'[t] \in {"lookup", "append"}
    BY <1>2 DEF LetThrough, NotThere, Goto, TInv, ServerTypes
  <2> QED BY <1>2, <2>1, <2>2, MovesTyped DEF Unpublished
<1>3. CASE TurnAway(t) \/ Invalid(t) \/ Replay(t) \/ Conflict(t) \/ Publish(t) \/ AppendFails(t)
  <2>1. Publish(t) \/ UNCHANGED <<log, recent, snapshot, wire>>
    BY <1>3 DEF TurnAway, Invalid, Replay, Conflict, AppendFails, store
  <2> QED BY <1>3, <2>1, RepliesAre, RepliesTyped DEF Unpublished
<1>4. CASE Accept(t)
  BY <1>4, AcceptTyped
<1>5. CASE Index(t)
  <2>1. pc[t] = "index" /\ call' = call
    BY <1>5 DEF Index, Goto
  <2> QED BY <1>5, <2>1, MovesTyped DEF Unpublished
<1>6. CASE TakeSnapshot(t)
  BY <1>6, SnapshotTyped DEF Unpublished
<1>7. CASE OpenAudit(t)
  <2>1. /\ Opens(t) /\ pc' = [pc EXCEPT ![t] = Onward(pc[t])] /\ UNCHANGED <<log, recent, snapshot, wire>>
        /\ call' = [call EXCEPT ![t].prev = LastLine(audit[call[t].day])]
    BY <1>7 DEF OpenAudit, store
  <2>2. pc'[t] = Onward(pc[t]) /\ call'[t].scan = call[t].scan
    BY <2>1 DEF TInv, ServerTypes, Request
  <2> QED BY <1>7, <2>1, <2>2, OpenTyped DEF Opens, Onward, Unpublished
<1>8. CASE WriteAudit(t) \/ WriteAuditShort(t) \/ WriteAuditFails(t)
  <2>1. Closes(t) /\ UNCHANGED <<log, recent, snapshot, wire>>
    BY <1>8, WritesClose DEF WriteAudit, WriteAuditShort, WriteAuditFails, store
  <2>2. Alone(t)
    BY <2>1, ClosesTyped
  <2>3. CASE pc' = [pc EXCEPT ![t] = Onward(pc[t])] /\ call' = call
    <3>1. pc'[t] = Onward(pc[t]) /\ Writes(t)
      BY <2>1, <2>3 DEF TInv, ServerTypes, Closes
    <3> QED BY <2>1, <2>2, <2>3, <3>1 DEF Writes, Onward, Unpublished
  <2>4. CASE Raise(t)
    <3>1. pc'[t] \in {"after", "again", "answer"}
      BY <2>1, <2>4, RaiseTypes DEF Closes
    <3> QED BY <2>1, <2>2, <3>1 DEF Unpublished
  <2> QED BY <2>1, <2>3, <2>4 DEF Closes
<1>9. CASE AuditDamaged(t)
  <2>1. UNCHANGED <<log, recent, snapshot, wire>>
    BY <1>9 DEF AuditDamaged, store
  <2> QED BY <1>9, <2>1, DamagedTyped DEF Unpublished
<1>10. CASE Answer(t)
  <2>1. UNCHANGED <<log, recent, snapshot, wire>>
    BY <1>10 DEF Answer, store
  <2> QED BY <1>10, <2>1, AnswerTyped DEF Unpublished
<1> QED BY <1>1, <1>2, <1>3, <1>4, <1>5, <1>6, <1>7, <1>8, <1>9, <1>10
     DEF Handling, RequestStep, Mishap

(* A journal grows by an event that its script has. *)
LEMMA JournalGrows ==
  ASSUME TInv, PageTypes, Written, NEW s \in Scans, log[s] < Len(Journal[s]),
         log' = [log EXCEPT ![s] = @ + 1], UNCHANGED <<recent, snapshot, saved>>
  PROVE  Later /\ Written' /\ log'[s] = log[s] + 1
<1>1. log \in [Scans -> Nat] /\ saved \in [Scans -> Nat] /\ snapshot \in [Scans -> Nat]
  BY DEF TInv, ServerTypes, PageTypes, Written
<1>2. /\ log' \in [Scans -> Nat] /\ log'[s] = log[s] + 1
      /\ \A r \in Scans : log[r] <= log'[r] /\ (r # s => log'[r] = log[r])
  BY <1>1
<1>3. Later
  BY <1>1, <1>2 DEF Later
<1>4. \A r \in Scans : log'[r] \in Versions(r)' /\ saved'[r] \in States(r)'
  BY <1>1, <1>2, ScriptTypes DEF Written, Versions, States
<1>5. PICK list : list = recent
  OBVIOUS
<1>6. ListOfScans(list)'
  BY <1>3, <1>5, ListLater DEF Written
<1>7. ListOfScans(recent)'
  BY <1>5, <1>6 DEF ListOfScans, Known, Distinct
<1>8. \A r \in Scans : snapshot[r] <= log'[r]
  BY <1>1, <1>2 DEF Written
<1> QED BY <1>1, <1>2, <1>3, <1>4, <1>7, <1>8 DEF Written

(* latest.json is written with a scan in front that has a journal.         *)
LEMMA FrontMoved ==
  ASSUME Written, NEW s \in Scans, log[s] > 0, recent' = MovedToFront(s),
         UNCHANGED <<log, snapshot, saved>>
  PROVE  Written'
<1>1. PICK list : list = recent
  OBVIOUS
<1>2. PICK new : new = recent'
  OBVIOUS
<1>3. list \in Seq(Scans) /\ Distinct(list) /\ (\A r \in Known(list) : log[r] > 0)
      /\ new = <<s>> \o Without(list, s)
  BY <1>1, <1>2 DEF Written, ListOfScans, MovedToFront
<1>4. new \in Seq(Scans) /\ Distinct(new) /\ Known(new) = Known(list) \cup {s}
  BY <1>3, FrontIs
<1>5. \A r \in Known(new) : log[r] > 0
  BY <1>3, <1>4
<1> QED BY <1>2, <1>4, <1>5 DEF Written, ListOfScans, Known, Distinct, Versions, States

(* A snapshot is written of an event that is in the journal.               *)
LEMMA SnapshotTaken ==
  ASSUME TInv, Written, NEW s \in Scans, NEW i \in Nat, i <= log[s],
         snapshot' = [snapshot EXCEPT ![s] = i], UNCHANGED <<log, recent, saved>>
  PROVE  Written'
<1>1. /\ snapshot' \in [Scans -> Nat] /\ snapshot'[s] = i
      /\ \A r \in Scans : r # s => snapshot'[r] = snapshot[r]
  BY DEF Written
<1>2. \A r \in Scans : snapshot'[r] <= log'[r]
  BY <1>1 DEF Written
<1> QED BY <1>1, <1>2 DEF Written, ListOfScans, Known, Distinct, Versions, States

(* What is served of a scan as its snapshot is an event of its journal.    *)
LEMMA SeenIs ==
  ASSUME TInv, PageInv, NEW s \in Scans
  PROVE  Seen(s) \in Nat /\ (log[s] > 0 => Seen(s) \in 1..log[s])
<1>1. log[s] \in Nat /\ snapshot[s] \in Nat /\ snapshot[s] <= log[s]
  BY DEF TInv, ServerTypes, PageInv, Written
<1> QED BY <1>1 DEF Seen

(* A message more on its way. *)
LEMMA MessageSent ==
  ASSUME TInv, Messages, Later, appends' \subseteq appends, NEW s \in Scans,
         NEW i \in Nat \ {0}, i <= log[s], wire' = Sent(s, i)
  PROVE  Messages'
<1>1. \A a \in appends' : a \in Appends /\ a.sequence \in 1..log'[a.scan]
  BY DEF Messages, Later, Appends
<1>2. CASE wire = NONE
  BY <1>1, <1>2 DEF Messages, Sent
<1>3. CASE wire # NONE
  <2>1. PICK w \in Seq(Scans \X Nat) : w = wire
    BY <1>3 DEF Messages
  <2>2. \A j \in 1..Len(w) : w[j][2] \in 1..log[w[j][1]] /\ w[j] \in Scans \X Nat
    BY <1>3, <2>1 DEF Messages
  <2>3. PICK new : new = Append(w, <<s, i>>)
    OBVIOUS
  <2>4. /\ new \in Seq(Scans \X Nat) /\ Len(new) = Len(w) + 1 /\ new[Len(w) + 1] = <<s, i>>
        /\ \A j \in 1..Len(w) : new[j] = w[j]
    BY <2>1, <2>3, <<s, i>> \in Scans \X Nat, AppendProperties
  <2>5. \A r \in Scans : 1..log[r] \subseteq 1..log'[r]
    BY DEF Later
  <2>6. ASSUME NEW j \in 1..Len(new) PROVE new[j][2] \in 1..log'[new[j][1]]
    <3>1. CASE j = Len(w) + 1
      <4>1. i \in 1..log'[s]
        BY DEF Later
      <4> QED BY <2>4, <3>1, <4>1
    <3>2. CASE j # Len(w) + 1
      <4>1. j \in 1..Len(w)
        BY <2>4, <3>2
      <4>2. w[j][1] \in Scans
        BY <2>2, <4>1
      <4> QED BY <2>2, <2>4, <2>5, <4>1, <4>2
    <3> QED BY <3>1, <3>2
  <2>7. wire' = new
    BY <1>3, <2>1, <2>3 DEF Sent
  <2> QED BY <1>1, <2>4, <2>6, <2>7 DEF Messages
<1> QED BY <1>2, <1>3

(* Messages on their way stay true while journals grow.                    *)
LEMMA MessagesLater ==
  ASSUME Messages, Later, wire' = wire,
         \A a \in appends' : a \in appends \/ (a \in Appends /\ a.sequence \in 1..log'[a.scan])
  PROVE  Messages'
<1>1. \A r \in Scans : 1..log[r] \subseteq 1..log'[r]
  BY DEF Later
<1>2. \A a \in appends' : a \in Appends /\ a.sequence \in 1..log'[a.scan]
  BY <1>1 DEF Messages, Appends
<1>3. ASSUME wire # NONE PROVE \A i \in 1..Len(wire) : wire[i][2] \in 1..log'[wire[i][1]]
  <2>1. \A i \in 1..Len(wire) : wire[i][1] \in Scans /\ wire[i][2] \in 1..log[wire[i][1]]
    BY <1>3 DEF Messages
  <2> QED BY <1>1, <2>1
<1> QED BY <1>2, <1>3 DEF Messages

(* A request that opened a journal has one for as long as it runs.         *)
LEMMA AcceptedLater ==
  ASSUME TInv, Accepted, Later,
         \A u \in Threads : pc'[u] \in Unpublished =>
           \/ pc[u] \in Unpublished /\ call'[u].scan = call[u].scan
           \/ log'[call'[u].scan] > 0
  PROVE  Accepted'
<1>1. ASSUME NEW u \in Threads, pc'[u] \in Unpublished PROVE log'[call'[u].scan] > 0
  <2>1. CASE pc[u] \in Unpublished /\ call'[u].scan = call[u].scan
    <3>1. PICK s \in Scans : s = call[u].scan
      BY <2>1 DEF TInv, Underway, Unpublished
    <3>2. log[s] > 0
      BY <2>1, <3>1 DEF Accepted, Unpublished
    <3> QED BY <2>1, <3>1, <3>2 DEF Later
  <2> QED BY <1>1, <2>1
<1> QED BY <1>1 DEF Accepted, Unpublished

(* A step that writes nothing lets everything written stay.                *)
LEMMA SameLater == TInv /\ TInv' /\ PageTypes /\ UNCHANGED <<log, saved>> => Later
  BY DEF TInv, ServerTypes, PageTypes, Later

(* A step of a request preserves the invariant of the page.                *)
LEMMA HandlingStep ==
  ASSUME TInv, TInv', PageInv, NEW t \in Threads, Handling(t),
         UNCHANGED <<written, tries, loaded, page, rest, bounds>>
  PROVE  PageInv'
<1>0. /\ PageTypes /\ Written /\ Accepted /\ Messages /\ Unopened /\ Kept
      /\ saved' = saved /\ appends' = appends /\ Alone(t)
      /\ UNCHANGED <<tries, loaded, page, rest>>
      /\ UNCHANGED <<loaded, refresh, read>>
  BY Handles DEF PageInv, Kept, written, page, rest
<1>1. ASSUME Later, Written', Messages', (~loaded => wire' = NONE),
             pc'[t] \in Unpublished =>
               \/ pc[t] \in Unpublished /\ call'[t].scan = call[t].scan
               \/ log'[call'[t].scan] > 0
      PROVE  PageInv'
  <2>1. Kept'
    BY <1>0, <1>1, PageKept
  <2>2. Accepted'
    <3>1. \A u \in Threads : u # t => pc'[u] = pc[u] /\ call'[u] = call[u]
      BY <1>0 DEF Alone
    <3> QED BY <1>0, <1>1, <3>1, AcceptedLater
  <2>3. Unopened'
    BY <1>0, <1>1 DEF Unopened
  <2> QED BY <1>1, <2>1, <2>2, <2>3 DEF PageInv, Kept
<1>2. CASE Accept(t)
  <2>1. PICK s \in Scans : s = call[t].scan
    BY <1>2 DEF Accept, Opening, Goto, TInv, Underway
  <2>2. /\ log' = [log EXCEPT ![s] = @ + 1] /\ log[s] = 0
        /\ UNCHANGED <<recent, snapshot, call, wire>>
    BY <1>2, <2>1 DEF Accept, Opening
  <2>3. log[s] < Len(Journal[s])
    BY <2>2, ScriptTypes
  <2>4. Later /\ Written' /\ log'[s] = log[s] + 1
    BY <1>0, <2>2, <2>3, JournalGrows
  <2>5. Messages'
    BY <1>0, <2>2, <2>4, MessagesLater
  <2>7. log'[call'[t].scan] > 0
    BY <2>1, <2>2, <2>4
  <2> QED BY <1>0, <1>1, <2>2, <2>4, <2>5, <2>7 DEF Unopened
<1>3. CASE Publish(t) /\ ~Accept(t)
  <2>0. /\ pc[t] = "publish" /\ UNCHANGED <<log, recent, snapshot>>
        /\ wire' = IF t \in Local THEN wire ELSE Sent(call[t].scan, 1)
    BY <1>3 DEF Publish, Respond, Goto, store
  <2>1. PICK s \in Scans : s = call[t].scan
    BY <2>0 DEF TInv, Underway
  <2>2. 1 <= log[s] /\ 1 \in Nat \ {0}
    <3>1. log[s] > 0 /\ log[s] \in Nat
      BY <1>0, <2>0, <2>1 DEF Accepted, Unpublished, TInv, ServerTypes
    <3> QED BY <3>1
  <2>3. Later
    BY <1>0, <2>0, SameLater
  <2>4. Written'
    BY <1>0, <2>0 DEF Written, ListOfScans, Distinct, Known, Versions, States
  <2>5. Messages'
    <3>1. CASE t \in Local
      BY <1>0, <2>0, <2>3, <3>1, MessagesLater
    <3>2. CASE t \notin Local
      BY <1>0, <2>0, <2>1, <2>2, <2>3, <3>2, MessageSent
    <3> QED BY <3>1, <3>2
  <2>6. ~loaded => wire' = NONE
    BY <1>0, <2>0 DEF Unopened, Sent
  <2> QED BY <1>1, <1>3, <2>3, <2>4, <2>5, <2>6, Handles
<1>4. CASE (Index(t) \/ TakeSnapshot(t)) /\ ~Accept(t)
  <2>0. pc[t] \in {"index", "snapshot"} /\ UNCHANGED <<log, wire>>
    BY <1>4 DEF Index, TakeSnapshot, Goto
  <2>1. PICK s \in Scans : s = call[t].scan
    BY <2>0 DEF TInv, Underway
  <2>2. log[s] > 0 /\ log[s] \in Nat
    BY <1>0, <2>0, <2>1 DEF Accepted, Unpublished, TInv, ServerTypes
  <2>3. Later
    BY <1>0, <2>0, SameLater
  <2>4. Written'
    <3>1. CASE Index(t)
      BY <1>0, <2>0, <2>1, <2>2, <3>1, FrontMoved DEF Index
    <3>2. CASE TakeSnapshot(t)
      <4>1. snapshot' = [snapshot EXCEPT ![s] = 1] /\ recent' = recent /\ 1 \in Nat /\ 1 <= log[s]
        BY <2>1, <2>2, <3>2 DEF TakeSnapshot
      <4> QED BY <1>0, <2>0, <4>1, SnapshotTaken
    <3> QED BY <1>4, <3>1, <3>2
  <2>5. Messages'
    BY <1>0, <2>0, <2>3, MessagesLater
  <2>6. ~loaded => wire' = NONE
    BY <1>0, <2>0 DEF Unopened
  <2> QED BY <1>1, <1>4, <2>3, <2>4, <2>5, <2>6, Handles
<1>5. CASE UNCHANGED <<log, recent, snapshot, wire>> /\ ~Accept(t)
  <2>3. Later
    BY <1>0, <1>5, SameLater
  <2>4. Written'
    BY <1>0, <1>5 DEF Written, ListOfScans, Distinct, Known, Versions, States
  <2>5. Messages'
    BY <1>0, <1>5, <2>3, MessagesLater
  <2>6. ~loaded => wire' = NONE
    BY <1>0, <1>5 DEF Unopened
  <2> QED BY <1>1, <1>5, <2>3, <2>4, <2>5, <2>6, Handles
<1> QED BY <1>2, <1>3, <1>4, <1>5, Handles

(* The writers beside the server. *)
LEMMA WriterStep ==
  ASSUME TInv, TInv', PageInv,
         \/ \E s \in Scans : (\E here \in BOOLEAN : Emit(s, here)) \/ SaveRun(s)
         \/ \E a \in appends : IndexEvent(a) \/ SnapshotEvent(a) \/ Broadcast(a)
  PROVE  PageInv'
<1>0. /\ PageTypes /\ Written /\ Accepted /\ Messages /\ Unopened /\ Kept
  BY DEF PageInv, Kept
<1>1. ASSUME Later, Written', Messages', UNCHANGED <<tries, loaded, page, rest, pc, call>>,
             ~loaded => wire' = NONE
      PROVE  PageInv'
  <2>1. Kept'
    BY <1>0, <1>1, PageKept
  <2>2. Accepted'
    BY <1>0, <1>1, AcceptedLater
  <2>3. Unopened'
    BY <1>0, <1>1 DEF Unopened, page, rest
  <2> QED BY <1>1, <2>1, <2>2, <2>3 DEF PageInv, Kept
<1>2. ASSUME NEW s \in Scans, NEW here \in BOOLEAN, Emit(s, here) PROVE PageInv'
  <2>1. PICK a : a = [scan |-> s, sequence |-> log'[s], here |-> here, step |-> "index"]
    OBVIOUS
  <2>2. /\ log' = [log EXCEPT ![s] = @ + 1] /\ log[s] \in 1..(Len(Journal[s]) - 1)
        /\ appends' = appends \cup {a}
        /\ UNCHANGED <<recent, snapshot, wire, saved, tries, loaded, page, rest, pc, call>>
    BY <1>2, <2>1 DEF Emit
  <2>3. log[s] < Len(Journal[s]) /\ log[s] \in Nat
    BY <2>2, ScriptTypes
  <2>4. Later /\ Written' /\ log'[s] = log[s] + 1
    BY <1>0, <2>2, <2>3, JournalGrows
  <2>5. Messages'
    <3>1. log'[s] \in Nat /\ log'[s] \in 1..log'[s]
      BY <2>3, <2>4
    <3>2. a \in Appends /\ a.sequence \in 1..log'[a.scan]
      BY <2>1, <3>1 DEF Appends
    <3> QED BY <1>0, <2>2, <2>4, <3>2, MessagesLater
  <2> QED BY <1>0, <1>1, <2>2, <2>4, <2>5 DEF Unopened
<1>3. ASSUME NEW a \in appends, IndexEvent(a) \/ SnapshotEvent(a) \/ Broadcast(a) PROVE PageInv'
  <2>1. a \in Appends /\ a.sequence \in 1..log[a.scan]
    BY <1>0 DEF Messages
  <2>2. PICK s \in Scans : s = a.scan
    BY <2>1 DEF Appends
  <2>3. PICK i \in Nat \ {0} : i = a.sequence /\ i <= log[s]
    BY <2>1, <2>2 DEF Appends
  <2>4. log[s] \in Nat /\ log[s] > 0
    BY <2>3 DEF TInv, ServerTypes
  <2>5. UNCHANGED <<log, saved, tries, loaded, page, rest, pc, call>>
    BY <1>3 DEF IndexEvent, SnapshotEvent, Broadcast, store
  <2>6. Later
    BY <1>0, <2>5, SameLater
  <2>7. ASSUME NEW step \in {"snapshot", "publish"}
        PROVE  [a EXCEPT !.step = step] \in Appends
               /\ [a EXCEPT !.step = step].sequence \in 1..log[[a EXCEPT !.step = step].scan]
    <3>1. PICK new : new = [a EXCEPT !.step = step]
      OBVIOUS
    <3>2. new \in Appends /\ new.scan = a.scan /\ new.sequence = a.sequence
      BY <2>1, <3>1 DEF Appends
    <3> QED BY <2>1, <3>1, <3>2
  <2>8. CASE IndexEvent(a)
    <3>1. /\ recent' = MovedToFront(s) /\ UNCHANGED <<snapshot, wire>>
          /\ \A c \in appends' : c \in appends \/ c = [a EXCEPT !.step = "snapshot"]
      BY <2>2, <2>8 DEF IndexEvent
    <3>2. Written'
      BY <1>0, <2>4, <2>5, <3>1, FrontMoved
    <3>3. Messages'
      BY <1>0, <2>5, <2>6, <2>7, <3>1, MessagesLater
    <3> QED BY <1>0, <1>1, <2>5, <2>6, <3>1, <3>2, <3>3 DEF Unopened
  <2>9. CASE SnapshotEvent(a)
    <3>1. /\ snapshot' = [snapshot EXCEPT ![s] = i] /\ UNCHANGED <<recent, wire>>
          /\ \A c \in appends' : c \in appends \/ c = [a EXCEPT !.step = "publish"]
      BY <2>2, <2>3, <2>9 DEF SnapshotEvent
    <3>2. Written'
      BY <1>0, <2>3, <2>5, <3>1, SnapshotTaken
    <3>3. Messages'
      BY <1>0, <2>5, <2>6, <2>7, <3>1, MessagesLater
    <3> QED BY <1>0, <1>1, <2>5, <2>6, <3>1, <3>2, <3>3 DEF Unopened
  <2>10. CASE Broadcast(a)
    <3>1. wire' = Sent(s, i) /\ appends' \subseteq appends /\ UNCHANGED <<recent, snapshot>>
      BY <2>2, <2>3, <2>10 DEF Broadcast, store
    <3>2. Written'
      BY <1>0, <2>5, <3>1 DEF Written, ListOfScans, Distinct, Known, Versions, States
    <3>3. Messages'
      BY <1>0, <2>3, <2>6, <3>1, MessageSent
    <3>4. ~loaded => wire' = NONE
      BY <1>0, <3>1 DEF Unopened, Sent
    <3> QED BY <1>1, <2>5, <2>6, <3>2, <3>3, <3>4
  <2> QED BY <1>3, <2>8, <2>9, <2>10
<1>4. ASSUME NEW s \in Scans, SaveRun(s) PROVE PageInv'
  <2>1. /\ saved[s] < Len(Runs[s]) /\ saved' = [saved EXCEPT ![s] = @ + 1]
        /\ UNCHANGED <<log, recent, snapshot, appends, wire, tries, loaded, page, rest, pc, call>>
    BY <1>4 DEF SaveRun, svars, store
  <2>2. /\ saved \in [Scans -> Nat] /\ saved' \in [Scans -> Nat] /\ saved'[s] = saved[s] + 1
        /\ \A r \in Scans : r # s => saved'[r] = saved[r]
    BY <1>0, <2>1 DEF PageTypes
  <2>3. Later
    <3>1. saved[s] <= saved'[s] /\ \A r \in Scans : r # s => saved[r] <= saved'[r]
      BY <2>2
    <3>2. log \in [Scans -> Nat] /\ log' = log /\ \A r \in Scans : log[r] <= log'[r]
      BY <2>1 DEF TInv, ServerTypes
    <3> QED BY <2>2, <3>1, <3>2 DEF Later
  <2>4. \A r \in Scans : saved'[r] \in States(r)
    BY <1>0, <2>1, <2>2, ScriptTypes DEF Written, States
  <2>5. Written'
    BY <1>0, <2>1, <2>4 DEF Written, ListOfScans, Distinct, Known, Versions, States
  <2>6. Messages'
    BY <1>0, <2>1, <2>3, MessagesLater
  <2>7. ~loaded => wire' = NONE
    BY <1>0, <2>1 DEF Unopened
  <2> QED BY <1>1, <2>1, <2>3, <2>5, <2>6, <2>7
<1> QED BY <1>2, <1>3, <1>4

-----------------------------------------------------------------------------
(* The page. *)

PageFrame == UNCHANGED <<log, recent, snapshot, saved, pc, call>>

(* What a step of the page leaves alone.                                   *)
LEMMA FrameKeeps ==
  ASSUME TInv, TInv', PageInv, PageFrame
  PROVE  /\ Later /\ Written' /\ Accepted'
         /\ \A s \in Scans : WrittenKeys(s)' = WrittenKeys(s)
         /\ appends' = appends /\ wire' = wire => Messages'
<1>1. PageTypes /\ Written /\ Accepted /\ Messages
  BY DEF PageInv
<1>2. Later
  BY <1>1, SameLater DEF PageFrame
<1>3. Written'
  BY <1>1 DEF PageFrame, Written, ListOfScans, Distinct, Known, Versions, States
<1>4. Accepted'
  BY <1>1 DEF PageFrame, Accepted
<1>5. \A s \in Scans : WrittenKeys(s)' = WrittenKeys(s)
  BY DEF PageFrame, WrittenKeys
<1> QED BY <1>1, <1>2, <1>3, <1>4, <1>5, MessagesLater

(* The page's journals and runs, as far as they are written. *)
LEMMA WrittenTypes ==
  ASSUME TInv, PageInv, NEW s \in Scans
  PROVE  /\ log[s] \in 0..Len(Journal[s]) /\ saved[s] \in 0..Len(Runs[s])
         /\ \A i \in 1..log[s] : Journal[s][i] \in Events
         /\ \A k \in 0..saved[s] : RunAt(s, k) \in RunFiles
         /\ \A k \in 1..saved[s] : RunAt(s, k) \in RunStates /\ RunAt(s, k) = Runs[s][k]
<1>1. log[s] \in 0..Len(Journal[s]) /\ saved[s] \in 0..Len(Runs[s])
  BY DEF PageInv, Written, Versions, States
<1>2. 1..log[s] \subseteq 1..Len(Journal[s]) /\ 1..saved[s] \subseteq 1..Len(Runs[s])
  BY <1>1, ScriptTypes
<1>3. \A k \in 0..saved[s] : k # 0 => k \in 1..saved[s]
  BY <1>1, ScriptTypes
<1> QED BY <1>1, <1>2, <1>3, ScriptTypes DEF RunAt, RunFiles

(* The page knows events only by what was in the journal.                  *)
LEMMA ContentsType ==
  ASSUME TInv, PageInv, NEW s \in Scans, NEW keys \in SUBSET WrittenKeys(s)
  PROVE  Contents(s, keys) \in SUBSET Events
<1>1. ASSUME NEW k \in keys, k[1] = "event" PROVE Journal[s][k[2]] \in Events
  <2>1. CASE \E i \in 1..log[s] : k = Real(i)
    <3>1. PICK i \in 1..log[s] : k = Real(i)
      BY <2>1
    <3>2. k[2] = i
      BY <3>1 DEF Real
    <3> QED BY <3>2, WrittenTypes
  <2>2. CASE \E j : k = Synthetic(j)
    BY <1>1, <2>2 DEF Synthetic
  <2> QED BY <2>1, <2>2 DEF WrittenKeys, Stages
<1> QED BY <1>1 DEF Contents

(* A view that shows a saved state of a run. *)
ViewIs(view, run) ==
  /\ view.status = run.status /\ view.decision = run.decision
  /\ view.quarantined <=> run.quarantined

(* A summary is a view, and shows the saved state it was made from.        *)
LEMMA SummaryIs ==
  ASSUME TInv, PageInv, NEW s \in Scans, NEW i \in 1..log[s], NEW k \in 0..saved[s]
  PROVE  /\ Summary(s, i, k) \in Views
         /\ k # 0 => ViewIs(Summary(s, i, k), Runs[s][k])
<1>1. Journal[s][i] \in Events /\ RunAt(s, k) \in RunFiles
  BY WrittenTypes
<1>2. k # 0 => RunAt(s, k) = Runs[s][k] /\ RunAt(s, k) # NoRun
  <2>1. k # 0 => k \in 1..saved[s]
    BY DEF PageInv, PageTypes
  <2> QED BY <2>1, WrittenTypes, NoneApart
<1> QED BY <1>1, <1>2, EnrichedView DEF Summary, ViewIs

(* The socket connects, fails to, or is lost.                              *)
LEMMA SocketStep ==
  ASSUME TInv, TInv', PageInv, Connect \/ Drop
  PROVE  PageInv'
<1>1. /\ PageFrame /\ appends' = appends /\ UNCHANGED <<page, rest, loaded>>
  BY DEF Connect, Drop, PageFrame, store, written
<1>2. tries' \in 0..Attempts
  <2>1. Attempts \in Nat /\ tries \in 0..Attempts
    BY DashboardAssumption DEF PageInv, PageTypes
  <2> QED BY <2>1 DEF Connect, Drop
<1>3. UNCHANGED <<order, views, shown, version, read, refresh, hydration, loaded, saved, log>>
  BY <1>1 DEF page, rest, PageFrame
<1>4. PageTypes' /\ ListOfScans(order)' /\ ListSound'
  BY <1>2, <1>3 DEF PageInv, PageTypes, ListOfScans, Distinct, Known, ListSound, EntrySound
<1>5. \A s \in Scans : Founded(s)' /\ HydrationSound(s)' /\ ViewSound(s)'
  BY <1>1, <1>3, FrameKeeps DEF PageInv, Founded, HydrationSound, AnswersFit, EntrySound, ViewSound
<1>6. Messages'
  <2>1. wire' \in {NONE, <<>>, wire}
    BY DEF Connect, Drop
  <2>2. \A a \in appends' : a \in Appends /\ a.sequence \in 1..log'[a.scan]
    BY <1>1, <1>3 DEF PageInv, Messages
  <2>3. <<>> \in Seq(Scans \X Nat) /\ 1..Len(<<>>) = {}
    OBVIOUS
  <2> QED BY <1>3, <2>1, <2>2, <2>3 DEF PageInv, Messages
<1>7. Unopened'
  BY <1>3 DEF PageInv, Unopened, Connect, Drop
<1> QED BY <1>1, <1>4, <1>5, <1>6, <1>7, FrameKeeps DEF PageInv

(* A refresh starts, fails or ends. *)
LEMMA PhaseStep ==
  ASSUME TInv, TInv', PageInv, StartRefresh \/ LatestFails \/ FinishRefresh
  PROVE  PageInv'
<1>1. PageFrame /\ appends' = appends /\ wire' = wire
      /\ UNCHANGED <<order, views, shown, version, read, hydration, tries, loaded, saved, log>>
  BY DEF StartRefresh, LatestFails, FinishRefresh, PageFrame, svars, store, written, page
<1>2. \E phase \in {"idle", "asked"} : refresh' = [phase |-> phase, list |-> <<>>]
  BY DEF StartRefresh, LatestFails, FinishRefresh, Idle
<1>3. \A s \in Scans : hydration[s] = NONE
  BY DEF StartRefresh, LatestFails, FinishRefresh, PageInv, HydrationSound
<1>4. ListOfScans(order)'
  BY <1>1 DEF PageInv, ListOfScans, Distinct, Known
<1>5. PageTypes'
  <2>1. <<>> \in Seq(Entries)
    OBVIOUS
  <2>2. refresh' \in [phase : {"idle", "asked", "listed", "hydrating"}, list : Seq(Entries)]
    BY <1>2, <2>1
  <2> QED BY <1>1, <2>2 DEF PageInv, PageTypes
<1>6. ListSound'
  BY <1>2 DEF ListSound
<1>7. \A s \in Scans : Founded(s)' /\ HydrationSound(s)' /\ ViewSound(s)'
  BY <1>1, <1>3, FrameKeeps DEF PageInv, Founded, HydrationSound, ViewSound
<1>8. Unopened'
  <2>1. loaded \/ refresh'.phase = "idle"
    BY DEF PageInv, Unopened, StartRefresh, LatestFails, FinishRefresh
  <2> QED BY <1>1, <2>1 DEF PageInv, Unopened
<1> QED BY <1>1, <1>4, <1>5, <1>6, <1>7, <1>8, FrameKeeps DEF PageInv

(* A step that touches neither the page nor what it reads. *)
LEMMA StillStep ==
  ASSUME TInv, TInv', PageInv, PageFrame,
         UNCHANGED <<appends, wire, tries, loaded, order, views, shown, version, read,
                     refresh, hydration>>
  PROVE  PageInv'
<1>1. UNCHANGED <<saved, log>>
  BY DEF PageFrame
<1>2. PageTypes' /\ ListOfScans(order)' /\ ListSound' /\ Unopened'
  BY <1>1 DEF PageInv, PageTypes, ListOfScans, Distinct, Known, ListSound, EntrySound, Unopened
<1>3. \A s \in Scans : Founded(s)' /\ HydrationSound(s)' /\ ViewSound(s)'
  BY <1>1, FrameKeeps DEF PageInv, Founded, HydrationSound, AnswersFit, EntrySound, ViewSound
<1> QED BY <1>2, <1>3, FrameKeeps DEF PageInv

(* The list of the latest scans. *)
LEMMA LatestStep ==
  ASSUME TInv, TInv', PageInv, AnswerLatest
  PROVE  PageInv'
<1>1. /\ PageFrame /\ appends' = appends /\ wire' = wire /\ refresh.phase = "asked"
      /\ UNCHANGED <<order, views, shown, version, read, hydration, tries, loaded, saved, log>>
  BY DEF AnswerLatest, PageFrame, svars, store, written, page
<1>2. PICK list : list = Upto(recent, ListLimit)
  OBVIOUS
<1>3. /\ list \in Seq(Scans) /\ \A i \in 1..Len(list) : log[list[i]] > 0
      /\ \A i, j \in 1..Len(list) : list[i] = list[j] => i = j
  <2>1. PICK all : all = recent
    OBVIOUS
  <2>2. all \in Seq(Scans) /\ Distinct(all) /\ (\A s \in Known(all) : log[s] > 0)
    BY <2>1 DEF PageInv, Written, ListOfScans
  <2>3. ListLimit \in Nat
    BY DashboardAssumption
  <2>4. /\ list \in Seq(Scans)
        /\ \A i \in 1..Len(list) : i \in 1..Len(all) /\ list[i] = all[i]
    BY <1>2, <2>1, <2>2, <2>3, UptoIs
  <2> QED BY <2>2, <2>4 DEF Distinct, Known
<1>4. PICK n \in Nat : n = Len(list)
  BY <1>3
<1>5. PICK new : new = [i \in 1..n |-> <<list[i], Seen(list[i]), saved[list[i]]>>]
  OBVIOUS
<1>6. refresh' = [phase |-> "listed", list |-> new]
  BY <1>2, <1>4, <1>5 DEF AnswerLatest
<1>7. \A i \in 1..n : new[i] \in Entries /\ new[i] = <<list[i], Seen(list[i]), saved[list[i]]>>
  <2>1. \A i \in 1..n : list[i] \in Scans
    BY <1>3, <1>4
  <2>2. \A s \in Scans : Seen(s) \in Nat /\ saved[s] \in Nat
    BY SeenIs DEF PageInv, PageTypes
  <2> QED BY <1>5, <2>1, <2>2 DEF Entries
<1>8. new \in Seq(Entries) /\ Len(new) = n
  <2>1. new \in [1..n -> Entries]
    BY <1>5, <1>7
  <2> QED BY <2>1
<1>9. ListSound'
  <2>1. ASSUME NEW i \in 1..n PROVE EntrySound(new[i])'
    <3>1. PICK s \in Scans : s = list[i]
      BY <1>3, <1>4
    <3>2. log[s] > 0 /\ log[s] \in Nat /\ saved[s] \in Nat /\ read[s] \in Nat /\ read[s] <= saved[s]
      BY <1>3, <1>4, <3>1 DEF TInv, ServerTypes, PageInv, PageTypes, Founded
    <3>3. new[i] = <<s, Seen(s), saved[s]>>
      BY <1>7, <3>1
    <3>4. new[i][1] = s /\ new[i][2] = Seen(s) /\ new[i][3] = saved[s]
      BY <3>3
    <3>5. Seen(s) \in 1..log[s] /\ saved[s] \in read[s]..saved[s]
      BY <3>2, SeenIs
    <3> QED BY <1>1, <3>4, <3>5 DEF EntrySound
  <2>2. \A i, j \in 1..n : new[i][1] = new[j][1] => i = j
    BY <1>3, <1>4, <1>7
  <2> QED BY <1>6, <1>8, <2>1, <2>2 DEF ListSound
<1>10. PageTypes' /\ ListOfScans(order)' /\ Unopened'
  <2>1. refresh' \in [phase : {"idle", "asked", "listed", "hydrating"}, list : Seq(Entries)]
    BY <1>6, <1>8
  <2> QED BY <1>1, <2>1 DEF PageInv, PageTypes, ListOfScans, Distinct, Known, Unopened
<1>11. \A s \in Scans : Founded(s)' /\ HydrationSound(s)' /\ ViewSound(s)'
  BY <1>1, FrameKeeps DEF PageInv, Founded, HydrationSound, ViewSound
<1> QED BY <1>1, <1>9, <1>10, <1>11, FrameKeeps DEF PageInv

(* A request of a hydration is answered, or fails. *)
LEMMA AnsweredStep ==
  ASSUME TInv, TInv', PageInv, NEW s \in Scans, AnswerStep(s) \/ RequestFails(s)
  PROVE  PageInv'
<1>1. PICK h : h = hydration[s]
  OBVIOUS
<1>a. PICK seen \in Nat : seen = Seen(s) /\ (log[s] > 0 => seen \in 1..log[s])
  BY SeenIs
<1>2. /\ PageFrame /\ appends' = appends /\ wire' = wire
      /\ UNCHANGED <<order, views, shown, version, read, refresh, tries, loaded, saved, log>>
      /\ h # NONE
      /\ \E new \in {[h EXCEPT !.snapshot = <<seen, saved[s]>>], [h EXCEPT !.snapshot = FAILED],
                     [h EXCEPT !.events = log[s]], [h EXCEPT !.events = FAILED],
                     [h EXCEPT !.run = saved[s]], [h EXCEPT !.run = FAILED]} :
           hydration' = [hydration EXCEPT ![s] = new]
  BY <1>1, <1>a DEF AnswerStep, AnswerSnapshot, AnswerEvents, AnswerRun, RequestFails, Asked, Answered,
     PageFrame, svars, store, written, page
<1>3. PICK new \in {[h EXCEPT !.snapshot = <<seen, saved[s]>>], [h EXCEPT !.snapshot = FAILED],
                   [h EXCEPT !.events = log[s]], [h EXCEPT !.events = FAILED],
                   [h EXCEPT !.run = saved[s]], [h EXCEPT !.run = FAILED]} :
         hydration' = [hydration EXCEPT ![s] = new]
  BY <1>2
<1>4. h \in Hydrations /\ AnswersFit(s, h) /\ refresh.phase = "hydrating"
  BY <1>1, <1>2 DEF PageInv, PageTypes, HydrationSound
<1>5. log[s] \in Nat /\ saved[s] \in Nat /\ FAILED \in Pending
  BY DEF TInv, ServerTypes, PageInv, PageTypes, Pending
<1>6. new \in Hydrations
  BY <1>3, <1>4, <1>5, <1>a DEF Hydrations
<1>7. AnswersFit(s, new)
  <2>1. /\ h.entry[1] = s /\ h.entry[2] \in 1..log[s] /\ h.entry[3] <= saved[s] /\ h.entry[3] \in Nat
    BY <1>4, <1>5 DEF AnswersFit, EntrySound, Hydrations, Entries, PageInv, PageTypes
  <2>2. seen \in 1..log[s] /\ saved[s] \in h.entry[3]..saved[s]
    BY <1>5, <1>a, <2>1
  <2>3. \/ new.snapshot = <<seen, saved[s]>> /\ new.events = h.events /\ new.run = h.run
        \/ new.snapshot = FAILED /\ new.events = h.events /\ new.run = h.run
        \/ new.snapshot = h.snapshot /\ new.events \in {FAILED, log[s]} /\ new.run = h.run
        \/ new.snapshot = h.snapshot /\ new.events = h.events /\ new.run \in {FAILED, saved[s]}
    BY <1>3, <1>4 DEF Hydrations
  <2>4. new.entry = h.entry
    BY <1>3, <1>4 DEF Hydrations
  <2>5. new.snapshot \notin Pending =>
          new.snapshot[1] \in 1..log[s] /\ new.snapshot[2] \in h.entry[3]..saved[s]
    BY <1>4, <1>5, <2>2, <2>3 DEF AnswersFit
  <2>6. new.events \notin Pending => new.events <= log[s]
    BY <1>4, <1>5, <2>3 DEF AnswersFit
  <2>7. new.run \notin Pending => new.run \in h.entry[3]..saved[s]
    BY <1>4, <1>5, <2>2, <2>3 DEF AnswersFit
  <2> QED BY <1>4, <2>4, <2>5, <2>6, <2>7 DEF AnswersFit
<1>8. /\ hydration'[s] = new /\ \A r \in Scans : r # s => hydration'[r] = hydration[r]
      /\ hydration' \in [Scans -> Hydrations \cup {NONE}]
  BY <1>3, <1>6 DEF PageInv, PageTypes
<1>9. PageTypes' /\ ListOfScans(order)' /\ ListSound'
  <2>1. PageTypes'
    BY <1>2, <1>8 DEF PageInv, PageTypes
  <2>2. ListOfScans(order)'
    BY <1>2 DEF PageInv, ListOfScans, Distinct, Known
  <2>3. ListSound'
    BY <1>2 DEF PageInv, ListSound, EntrySound
  <2> QED BY <2>1, <2>2, <2>3
<1>10. Unopened'
  BY <1>2 DEF PageInv, Unopened
<1>11. ASSUME NEW r \in Scans PROVE Founded(r)' /\ HydrationSound(r)' /\ ViewSound(r)'
  <2>1. Founded(r)' /\ ViewSound(r)'
    BY <1>2, FrameKeeps DEF PageInv, Founded, ViewSound
  <2>2. CASE r = s
    BY <1>2, <1>4, <1>7, <1>8, <2>1, <2>2 DEF HydrationSound, AnswersFit, EntrySound
  <2>3. CASE r # s
    BY <1>2, <1>8, <2>1, <2>3 DEF PageInv, HydrationSound, AnswersFit, EntrySound
  <2> QED BY <2>2, <2>3
<1> QED BY <1>2, <1>9, <1>10, <1>11, FrameKeeps DEF PageInv

(* The list of a refresh, and what it says of a scan. *)
Listed(list, s)  == \E i \in 1..Len(list) : list[i][1] = s
EntryOf(list, s) == list[CHOOSE i \in 1..Len(list) : list[i][1] = s]

(* What the list of a refresh says of a scan is true, and no older than    *)
(* what the page has read.                                                 *)
LEMMA EntryIs ==
  ASSUME TInv, PageInv, refresh.phase = "listed", NEW s \in Scans,
         NEW e, e = EntryOf(refresh.list, s), Listed(refresh.list, s)
  PROVE  /\ e \in Entries /\ e[1] = s /\ EntrySound(e)
         /\ e[2] \in 1..log[s] /\ e[3] \in read[s]..saved[s]
         /\ Summary(s, e[2], e[3]) \in Views
         /\ e[3] # 0 => ViewIs(Summary(s, e[2], e[3]), Runs[s][e[3]])
<1>1. PICK list \in Seq(Entries) : list = refresh.list
  BY DEF PageInv, PageTypes
<1>2. PICK i : i = CHOOSE j \in 1..Len(list) : list[j][1] = s
  OBVIOUS
<1>3. i \in 1..Len(list) /\ list[i][1] = s /\ e = list[i]
  BY <1>1, <1>2 DEF Listed, EntryOf
<1>4. e \in Entries /\ e[1] = s /\ EntrySound(e)
  BY <1>1, <1>3 DEF PageInv, ListSound
<1>5. e[2] \in 1..log[s] /\ e[3] \in read[s]..saved[s]
  BY <1>4 DEF EntrySound
<1>6. e[3] \in 0..saved[s]
  BY <1>5 DEF PageInv, PageTypes
<1> QED BY <1>4, <1>5, <1>6, SummaryIs

(* What the page makes of the list of a refresh.                           *)
LEMMA TakeListIs ==
  ASSUME TInv, PageInv, TakeList, NEW s \in Scans, NEW list, list = refresh.list,
         NEW e, e = EntryOf(list, s), NEW new, new <=> views[s] = NONE /\ Listed(list, s)
  PROVE  /\ refresh.phase = "listed"
         /\ views'[s] = IF new THEN Summary(s, e[2], e[3]) ELSE views[s]
         /\ read'[s] = IF new THEN e[3] ELSE read[s]
         /\ hydration'[s] = NONE \/
              /\ Listed(list, s)
              /\ hydration'[s] = [cached |-> views'[s], after |-> version[s], entry |-> e,
                                  snapshot |-> WAITING, events |-> WAITING, run |-> WAITING]
<1>1. PICK first : first = Upto(list, HydrateLimit)
  OBVIOUS
<1>2. Listed(first, s) => Listed(list, s)
  <2>1. HydrateLimit \in Nat /\ list \in Seq(Entries)
    BY DashboardAssumption DEF PageInv, PageTypes
  <2>2. /\ first \in Seq(Entries)
        /\ \A i \in 1..Len(first) : i \in 1..Len(list) /\ first[i] = list[i]
    BY <1>1, <2>1, UptoIs
  <2> QED BY <2>2 DEF Listed
<1>3. views'[s] = IF new THEN Summary(s, e[2], e[3]) ELSE views[s]
  BY DEF TakeList, Listed, EntryOf
<1>4. read'[s] = IF new THEN e[3] ELSE read[s]
  BY DEF TakeList, Listed, EntryOf
<1>5. hydration'[s] = IF Listed(first, s)
        THEN [cached |-> views'[s], after |-> version[s], entry |-> e,
              snapshot |-> WAITING, events |-> WAITING, run |-> WAITING]
        ELSE NONE
  BY <1>1 DEF TakeList, Listed, EntryOf
<1> QED BY <1>2, <1>3, <1>4, <1>5 DEF TakeList

(* Taking in the list preserves the invariant of the page.                 *)
LEMMA TakeListStep ==
  ASSUME TInv, TInv', PageInv, TakeList
  PROVE  PageInv'
<1>1. /\ PageFrame /\ appends' = appends /\ wire' = wire /\ refresh.phase = "listed"
      /\ UNCHANGED <<shown, version, tries, loaded, saved, log>>
      /\ refresh' = [phase |-> "hydrating", list |-> <<>>]
  BY DEF TakeList, PageFrame, svars, store, written, Idle
<1>2. PICK list \in Seq(Entries) : list = refresh.list
  BY DEF PageInv, PageTypes
<1>3. PICK n \in Nat : n = Len(list)
  BY <1>2
<1>4. /\ \A i \in 1..n : list[i] \in Entries /\ EntrySound(list[i])
      /\ \A i, j \in 1..n : list[i][1] = list[j][1] => i = j
  BY <1>1, <1>2, <1>3 DEF PageInv, ListSound
<1>5. ListOfScans(order)'
  <2>1. PICK new : new = [i \in 1..n |-> list[i][1]]
    OBVIOUS
  <2>2. order' = new
    BY <1>2, <1>3, <2>1 DEF TakeList
  <2>3. \A i \in 1..n : new[i] = list[i][1] /\ new[i] \in Scans /\ log[new[i]] > 0
    <3>1. ASSUME NEW i \in 1..n PROVE new[i] = list[i][1] /\ new[i] \in Scans /\ log[new[i]] > 0
      <4>1. PICK r \in Scans : r = list[i][1]
        BY <1>4 DEF Entries
      <4>2. log[r] \in Nat /\ list[i][2] \in 1..log[r]
        BY <1>4, <4>1 DEF TInv, ServerTypes, EntrySound
      <4> QED BY <2>1, <4>1, <4>2
    <3> QED BY <3>1
  <2>4. new \in Seq(Scans) /\ Len(new) = n
    <3>1. new \in [1..n -> Scans]
      BY <2>1, <2>3
    <3> QED BY <3>1
  <2>5. Distinct(new) /\ \A r \in Known(new) : log[r] > 0
    BY <1>4, <2>3, <2>4 DEF Distinct, Known
  <2> QED BY <1>1, <2>2, <2>4, <2>5 DEF ListOfScans, Known, Distinct
<1>6. ASSUME NEW s \in Scans
      PROVE  /\ views'[s] \in Views \cup {NONE} /\ read'[s] \in Nat
             /\ hydration'[s] \in Hydrations \cup {NONE}
             /\ Founded(s)' /\ HydrationSound(s)' /\ ViewSound(s)'
  <2>1. PICK e : e = EntryOf(list, s)
    OBVIOUS
  <2>2. PICK new \in BOOLEAN : new <=> views[s] = NONE /\ Listed(list, s)
    OBVIOUS
  <2>3. /\ views'[s] = IF new THEN Summary(s, e[2], e[3]) ELSE views[s]
        /\ read'[s] = IF new THEN e[3] ELSE read[s]
        /\ hydration'[s] = NONE \/
             /\ Listed(list, s)
             /\ hydration'[s] = [cached |-> views'[s], after |-> version[s], entry |-> e,
                                 snapshot |-> WAITING, events |-> WAITING, run |-> WAITING]
    BY <1>2, <2>1, <2>2, TakeListIs
  <2>4. Listed(list, s) =>
          /\ e \in Entries /\ e[1] = s /\ EntrySound(e)
          /\ e[2] \in 1..log[s] /\ e[3] \in read[s]..saved[s]
          /\ Summary(s, e[2], e[3]) \in Views
          /\ e[3] # 0 => ViewIs(Summary(s, e[2], e[3]), Runs[s][e[3]])
    BY <1>1, <1>2, <2>1, EntryIs
  <2>5. /\ views[s] \in Views \cup {NONE} /\ read[s] \in Nat /\ saved[s] \in Nat
        /\ version[s] \in Nat /\ read[s] <= saved[s] /\ Founded(s) /\ ViewSound(s)
    BY DEF PageInv, PageTypes, Founded
  <2>6. /\ views'[s] \in Views \cup {NONE} /\ read'[s] \in Nat /\ read'[s] <= saved[s]
        /\ Listed(list, s) => views'[s] \in Views /\ e[3] \in read'[s]..saved[s]
    BY <2>2, <2>3, <2>4, <2>5
  <2>7. Founded(s)'
    BY <1>1, <2>5, <2>6, FrameKeeps DEF Founded
  <2>8. ViewSound(s)'
    <3>1. CASE new
      BY <2>2, <2>3, <2>4, <3>1 DEF ViewSound, ViewIs
    <3>2. CASE ~new
      BY <2>3, <2>5, <3>2 DEF ViewSound
    <3> QED BY <2>2, <3>1, <3>2
  <2>9. hydration'[s] \in Hydrations \cup {NONE} /\ HydrationSound(s)'
    <3>1. CASE hydration'[s] = NONE
      BY <3>1 DEF HydrationSound
    <3>2. CASE Listed(list, s) /\ hydration'[s] # NONE
      <4>1. PICK h : h = hydration'[s]
        OBVIOUS
      <4>2. h = [cached |-> views'[s], after |-> version[s], entry |-> e,
                 snapshot |-> WAITING, events |-> WAITING, run |-> WAITING]
        BY <2>3, <3>2, <4>1
      <4>3. h \in Hydrations
        BY <2>4, <2>5, <2>6, <3>2, <4>2 DEF Hydrations, Pending
      <4>4. EntrySound(e)'
        BY <1>1, <2>4, <2>6, <3>2 DEF EntrySound
      <4>5. AnswersFit(s, h)'
        BY <2>4, <3>2, <4>2, <4>4 DEF AnswersFit, Pending
      <4> QED BY <1>1, <4>1, <4>3, <4>5 DEF HydrationSound
    <3> QED BY <2>3, <3>1, <3>2
  <2> QED BY <2>6, <2>7, <2>8, <2>9
<1>7. PageTypes'
  <2>1. <<>> \in Seq(Entries)
    OBVIOUS
  <2>2. refresh' \in [phase : {"idle", "asked", "listed", "hydrating"}, list : Seq(Entries)]
    BY <1>1, <2>1
  <2>3. /\ views' = [s \in Scans |-> views'[s]] /\ read' = [s \in Scans |-> read'[s]]
        /\ hydration' = [s \in Scans |-> hydration'[s]]
    BY DEF TakeList
  <2>4. /\ views' \in [Scans -> Views \cup {NONE}] /\ read' \in [Scans -> Nat]
        /\ hydration' \in [Scans -> Hydrations \cup {NONE}]
    BY <1>6, <2>3
  <2> QED BY <1>1, <2>2, <2>4 DEF PageInv, PageTypes
<1>8. ListSound'
  BY <1>1 DEF ListSound
<1>9. Unopened'
  BY <1>1 DEF PageInv, Unopened
<1> QED BY <1>1, <1>5, <1>6, <1>7, <1>8, <1>9, FrameKeeps DEF PageInv

(* The message that is delivered is event i of s, and what becomes of it. *)
Delivered(s, i) ==
  /\ wire # NONE /\ wire # <<>> /\ Head(wire) = <<s, i>> /\ wire' = Tail(wire)
  /\ order' = <<s>> \o Without(order, s)
  /\ shown' = [shown EXCEPT ![s] = @ \cup {Real(i)}]
  /\ shown[s] \cup {Real(i)} \subseteq WrittenKeys(s)
  /\ version' = [version EXCEPT ![s] = i]
  /\ Journal[s][i] \in Events /\ SocketView(views[s], Journal[s][i]) \in Views
  /\ views' = [views EXCEPT ![s] =
       Derived(SocketView(views[s], Journal[s][i]), Contents(s, shown[s] \cup {Real(i)}))]
  /\ views'[s] \in Views

(* What the page makes of a message.                                       *)
LEMMA DeliverIs ==
  ASSUME TInv, PageInv, Deliver
  PROVE  \E s \in Scans : \E i \in 1..log[s] : Delivered(s, i)
<1>1. PICK w \in Seq(Scans \X Nat) : w = wire
  BY DEF Deliver, PageInv, Messages
<1>2. w # <<>> /\ w[1] \in Scans \X Nat /\ Head(w) = w[1] /\ w[1][2] \in 1..log[w[1][1]]
  BY <1>1 DEF Deliver, PageInv, Messages
<1>3. PICK s \in Scans, i \in Nat : w[1] = <<s, i>>
  BY <1>2
<1>4. i \in 1..log[s] /\ Head(wire)[1] = s /\ Head(wire)[2] = i /\ Head(wire) = <<s, i>>
  BY <1>1, <1>2, <1>3
<1>5. /\ shown \in [Scans -> SUBSET Keys] /\ views \in [Scans -> Views \cup {NONE}]
      /\ shown[s] \subseteq WrittenKeys(s)
  BY DEF PageInv, PageTypes, Founded
<1>6. /\ shown' = [shown EXCEPT ![s] = @ \cup {Real(i)}]
      /\ version' = [version EXCEPT ![s] = i]
      /\ views' = [views EXCEPT ![s] = Derived(SocketView(views[s], Journal[s][i]),
                                              Contents(s, shown'[s]))]
      /\ order' = <<s>> \o Without(order, s) /\ wire' = Tail(wire)
  BY <1>4 DEF Deliver
<1>7. shown'[s] = shown[s] \cup {Real(i)}
  BY <1>5, <1>6
<1>8. shown[s] \cup {Real(i)} \subseteq WrittenKeys(s)
  BY <1>4, <1>5 DEF WrittenKeys
<1>9. Journal[s][i] \in Events
  BY <1>4, WrittenTypes
<1>10. SocketView(views[s], Journal[s][i]) \in Views
  BY <1>5, <1>9, SocketViewIs
<1>11. Contents(s, shown[s] \cup {Real(i)}) \in SUBSET Events
  BY <1>8, ContentsType
<1>12. Derived(SocketView(views[s], Journal[s][i]), Contents(s, shown[s] \cup {Real(i)})) \in Views
  BY <1>10, <1>11, DerivedView
<1>13. views' = [views EXCEPT ![s] = Derived(SocketView(views[s], Journal[s][i]),
                                            Contents(s, shown[s] \cup {Real(i)}))]
  BY <1>6, <1>7
<1>14. views'[s] \in Views
  BY <1>5, <1>12, <1>13
<1>15. wire # NONE /\ wire # <<>>
  BY DEF Deliver
<1>16. Delivered(s, i)
  BY <1>4, <1>6, <1>8, <1>9, <1>10, <1>13, <1>14, <1>15 DEF Delivered
<1> QED BY <1>4, <1>16

(* Taking in a message preserves the invariant of the page.                *)
LEMMA DeliverStep ==
  ASSUME TInv, TInv', PageInv, Deliver
  PROVE  PageInv'
<1>1. PICK s \in Scans : \E i \in 1..log[s] : Delivered(s, i)
  BY DeliverIs
<1>2. PICK i \in 1..log[s] : Delivered(s, i)
  BY <1>1
<1>3. PageFrame /\ UNCHANGED <<appends, tries, loaded, read, refresh, hydration, saved, log>>
  BY DEF Deliver, PageFrame, store, written, rest
<1>4. log[s] \in Nat /\ log[s] > 0 /\ i \in Nat
  BY <1>2 DEF TInv, ServerTypes
<1>5. \A r \in Scans : /\ shown'[r] = IF r = s THEN shown[s] \cup {Real(i)} ELSE shown[r]
                       /\ version'[r] = IF r = s THEN i ELSE version[r]
                       /\ r # s => views'[r] = views[r]
  BY <1>2 DEF Delivered, PageInv, PageTypes
<1>6. PageTypes'
  <2>1. Real(i) \in Keys
    BY <1>4 DEF Real, Keys
  <2>2. shown' \in [Scans -> SUBSET Keys] /\ version' \in [Scans -> Nat]
    BY <1>2, <1>4, <2>1 DEF Delivered, PageInv, PageTypes
  <2>3. views' \in [Scans -> Views \cup {NONE}]
    BY <1>2 DEF Delivered, PageInv, PageTypes
  <2> QED BY <1>3, <2>2, <2>3 DEF PageInv, PageTypes
<1>7. ListOfScans(order)'
  <2>1. PICK list : list = order
    OBVIOUS
  <2>2. PICK new : new = <<s>> \o Without(list, s)
    OBVIOUS
  <2>3. list \in Seq(Scans) /\ Distinct(list) /\ \A r \in Known(list) : log[r] > 0
    BY <2>1 DEF PageInv, ListOfScans
  <2>4. new \in Seq(Scans) /\ Distinct(new) /\ Known(new) = Known(list) \cup {s}
    BY <2>2, <2>3, FrontIs
  <2>5. order' = new
    BY <1>2, <2>1, <2>2 DEF Delivered
  <2>6. \A r \in Known(new) : log[r] > 0
    BY <1>4, <2>3, <2>4
  <2> QED BY <1>3, <2>4, <2>5, <2>6 DEF ListOfScans, Distinct, Known
<1>8. Messages'
  <2>1. PICK w \in Seq(Scans \X Nat) : w = wire
    BY <1>2 DEF Delivered, PageInv, Messages
  <2>2. PICK t : t = Tail(w)
    OBVIOUS
  <2>3. /\ t \in Seq(Scans \X Nat) /\ Len(t) = Len(w) - 1
        /\ \A j \in 1..Len(t) : t[j] = w[j+1]
    BY <1>2, <2>1, <2>2, HeadTailProperties DEF Delivered
  <2>4. \A j \in 1..Len(t) : j+1 \in 1..Len(w)
    BY <2>1, <2>3
  <2>5. \A j \in 1..Len(w) : w[j][2] \in 1..log[w[j][1]]
    BY <1>2, <2>1 DEF Delivered, PageInv, Messages
  <2>6. wire' = t
    BY <1>2, <2>1, <2>2 DEF Delivered
  <2>7. \A a \in appends' : a \in Appends /\ a.sequence \in 1..log'[a.scan]
    BY <1>3 DEF PageInv, Messages
  <2> QED BY <1>3, <2>3, <2>4, <2>5, <2>6, <2>7 DEF Messages
<1>9. ListSound'
  BY <1>3 DEF PageInv, ListSound, EntrySound
<1>10. loaded
  BY <1>2 DEF Delivered, PageInv, Unopened
<1>11. ASSUME NEW r \in Scans PROVE Founded(r)' /\ HydrationSound(r)' /\ ViewSound(r)'
  <2>1. HydrationSound(r)'
    BY <1>3 DEF PageInv, HydrationSound, AnswersFit, EntrySound
  <2>2. Founded(r)'
    BY <1>2, <1>3, <1>4, <1>5, FrameKeeps DEF Delivered, PageInv, Founded
  <2>3. CASE r # s
    BY <1>3, <1>5, <2>1, <2>2, <2>3 DEF PageInv, ViewSound
  <2>4. CASE r = s
    <3>1. ASSUME read[s] # 0, Runs[s][read[s]].decision # NONE
          PROVE  /\ views'[s].decision = Runs[s][read[s]].decision
                 /\ Runs[s][read[s]].quarantined => views'[s].quarantined
      <4>1. PICK old : old = views[s]
        OBVIOUS
      <4>2. PICK event : event = Journal[s][i]
        OBVIOUS
      <4>3. PICK events : events = Contents(s, shown[s] \cup {Real(i)})
        OBVIOUS
      <4>4. PICK run : run = Runs[s][read[s]]
        OBVIOUS
      <4>5. PICK view : view = SocketView(old, event)
        OBVIOUS
      <4>6. old \in Views /\ old.decision = run.decision /\ (run.quarantined => old.quarantined)
        BY <3>1, <4>1, <4>4 DEF PageInv, ViewSound
      <4>7. view \in Views /\ view.decision = old.decision /\ view.quarantined = old.quarantined
        BY <1>2, <4>1, <4>2, <4>5, <4>6, SocketViewIs, NoneApart DEF Delivered
      <4>8. events \in SUBSET Events
        BY <1>2, <4>3, ContentsType DEF Delivered
      <4>9. PICK new : new = Derived(view, events)
        OBVIOUS
      <4>10. new.decision = view.decision /\ (view.quarantined => new.quarantined)
        BY <3>1, <4>4, <4>6, <4>7, <4>8, <4>9, DerivedView
      <4>11. views'[s] = new
        BY <1>2, <4>1, <4>2, <4>3, <4>5, <4>9 DEF Delivered, PageInv, PageTypes
      <4> QED BY <4>4, <4>6, <4>7, <4>10, <4>11
    <3>2. ViewSound(s)'
      BY <1>2, <1>3, <3>1 DEF Delivered, ViewSound
    <3> QED BY <2>1, <2>2, <2>4, <3>2
  <2> QED BY <2>3, <2>4
<1>12. Unopened'
  BY <1>3, <1>10 DEF Unopened
<1> QED BY <1>3, <1>6, <1>7, <1>8, <1>9, <1>11, <1>12, FrameKeeps DEF PageInv

(* The page is opened. *)
LEMMA LoadStep ==
  ASSUME TInv, TInv', PageInv, Load
  PROVE  PageInv'
<1>1. PageFrame /\ loaded' = TRUE /\ UNCHANGED <<appends, wire, tries, read, shown, version,
                                              refresh, hydration, saved, log>>
  BY DEF Load, PageFrame, svars, store, written, rest
<1>2. PICK all : all = recent
  OBVIOUS
<1>3. PICK list : list = Upto(all, ListLimit)
  OBVIOUS
<1>4. all \in Seq(Scans) /\ Distinct(all) /\ (\A s \in Known(all) : log[s] > 0)
  BY <1>2 DEF PageInv, Written, ListOfScans
<1>5. /\ list \in Seq(Scans)
      /\ \A i \in 1..Len(list) : i \in 1..Len(all) /\ list[i] = all[i]
  <2>1. ListLimit \in Nat
    BY DashboardAssumption
  <2> QED BY <1>3, <1>4, <2>1, UptoIs
<1>6. Distinct(list) /\ \A s \in Known(list) : s \in Scans /\ log[s] > 0
  BY <1>4, <1>5 DEF Distinct, Known
<1>7. order' = list
  BY <1>2, <1>3 DEF Load
<1>8. ListOfScans(order)'
  BY <1>1, <1>5, <1>6, <1>7 DEF ListOfScans, Distinct, Known
<1>9. views' = [s \in Scans |-> IF s \in Known(list) THEN Snapshot(Journal[s][Seen(s)]) ELSE NONE]
  BY <1>7 DEF Load
<1>10. \A s \in Scans : views'[s] \in Views \cup {NONE}
  <2>1. ASSUME NEW s \in Scans, s \in Known(list) PROVE Journal[s][Seen(s)] \in Events
    <3>1. log[s] > 0 /\ s \in Scans
      BY <1>6, <2>1
    <3>2. Seen(s) \in 1..log[s]
      BY <3>1, SeenIs
    <3> QED BY <3>2, WrittenTypes
  <2> QED BY <1>9, <2>1, SnapshotView
<1>11. PageTypes'
  <2>1. views' \in [Scans -> Views \cup {NONE}]
    BY <1>9, <1>10
  <2> QED BY <1>1, <2>1 DEF PageInv, PageTypes
<1>12. \A s \in Scans : read[s] = 0
  BY DEF Load, PageInv, Unopened
<1>13. ListSound'
  BY <1>1 DEF PageInv, ListSound, EntrySound
<1>14. \A s \in Scans : Founded(s)' /\ HydrationSound(s)' /\ ViewSound(s)'
  BY <1>1, <1>12, FrameKeeps DEF PageInv, Founded, HydrationSound, AnswersFit, EntrySound, ViewSound
<1>15. Unopened'
  BY <1>1 DEF Unopened
<1> QED BY <1>1, <1>8, <1>11, <1>13, <1>14, <1>15, FrameKeeps DEF PageInv

(* The view a hydration makes before deriveScan, and the run it shows.     *)
Merged(s, h) == MergedRun(SummaryAfter(s, h), RunOf(s, h))

(* What is known of a hydration whose three requests are settled.          *)
LEMMA AnswersAre ==
  ASSUME TInv, PageInv, NEW s \in Scans, Complete(s), NEW h, h = hydration[s]
  PROVE  /\ h \in Hydrations /\ AnswersFit(s, h) /\ refresh.phase = "hydrating"
         /\ h.entry[2] \in 1..log[s] /\ h.entry[3] \in read[s]..saved[s]
         /\ h.snapshot # FAILED =>
              h.snapshot[1] \in 1..log[s] /\ h.snapshot[2] \in h.entry[3]..saved[s]
         /\ h.events # FAILED => h.events \in 0..log[s]
         /\ h.run # FAILED => h.run \in h.entry[3]..saved[s]
         /\ h.entry[3] \in Nat /\ read[s] \in Nat /\ saved[s] \in Nat /\ h.after \in Nat
<1>1. h \in Hydrations /\ AnswersFit(s, h) /\ refresh.phase = "hydrating"
  BY DEF Complete, PageInv, PageTypes, HydrationSound
<1>2. h.snapshot # WAITING /\ h.events # WAITING /\ h.run # WAITING
  BY DEF Complete
<1>3. h.entry[2] \in 1..log[s] /\ h.entry[3] \in read[s]..saved[s] /\ h.entry[3] \in Nat
  BY <1>1 DEF AnswersFit, EntrySound, Hydrations, Entries
<1>4. h.snapshot # FAILED =>
        h.snapshot[1] \in 1..log[s] /\ h.snapshot[2] \in h.entry[3]..saved[s]
  BY <1>1, <1>2 DEF AnswersFit, Pending
<1>5. h.events # FAILED => h.events \in 0..log[s]
  <2>1. h.events \in Nat \cup Pending /\ log[s] \in Nat
    BY <1>1 DEF Hydrations, TInv, ServerTypes
  <2> QED BY <1>1, <1>2, <2>1 DEF AnswersFit, Pending
<1>6. h.run # FAILED => h.run \in h.entry[3]..saved[s]
  BY <1>1, <1>2 DEF AnswersFit, Pending
<1>7. read[s] \in Nat /\ saved[s] \in Nat /\ h.after \in Nat
  BY <1>1 DEF PageInv, PageTypes, Hydrations
<1> QED BY <1>1, <1>3, <1>4, <1>5, <1>6, <1>7

(* The state a hydration has read is no older than the list it was sent    *)
(* with.                                                                   *)
LEMMA ReadIs ==
  ASSUME TInv, PageInv, NEW s \in Scans, Complete(s), NEW h, h = hydration[s]
  PROVE  ReadAfter(h) \in h.entry[3]..saved[s]
<1>1. CASE h.run \notin {FAILED, 0}
  BY <1>1, AnswersAre DEF ReadAfter
<1>2. CASE h.run \in {FAILED, 0} /\ h.snapshot # FAILED
  BY <1>2, AnswersAre DEF ReadAfter
<1>3. CASE h.run \in {FAILED, 0} /\ h.snapshot = FAILED
  BY <1>3, AnswersAre DEF ReadAfter
<1> QED BY <1>1, <1>2, <1>3

(* The summary of a hydration shows the run state it was made from.        *)
LEMMA SummaryShows ==
  ASSUME TInv, PageInv, NEW s \in Scans, Complete(s), NEW h, h = hydration[s],
         NEW k, k = IF h.snapshot # FAILED THEN h.snapshot[2] ELSE h.entry[3]
  PROVE  /\ SummaryAfter(s, h) \in Views /\ k \in 0..saved[s]
         /\ k # 0 => ViewIs(SummaryAfter(s, h), Runs[s][k])
<1>1. /\ h \in Hydrations /\ h.entry[2] \in 1..log[s] /\ h.entry[3] \in 0..saved[s]
      /\ h.snapshot # FAILED => h.snapshot[1] \in 1..log[s] /\ h.snapshot[2] \in 0..saved[s]
  BY AnswersAre
<1>2. CASE h.snapshot # FAILED
  BY <1>1, <1>2, SummaryIs DEF SummaryAfter
<1>3. CASE h.snapshot = FAILED
  <2>1. PICK entry : entry = Summary(s, h.entry[2], h.entry[3])
    OBVIOUS
  <2>2. entry \in Views /\ (k # 0 => ViewIs(entry, Runs[s][k]))
    BY <1>1, <1>3, <2>1, SummaryIs
  <2>3. RunAt(s, k) \in RunFiles /\ (k # 0 => RunAt(s, k) # NoRun)
    <3>1. k # 0 => k \in 1..saved[s]
      BY <1>1, <1>3 DEF PageInv, PageTypes
    <3> QED BY <1>1, <1>3, <3>1, WrittenTypes, NoneApart
  <2>4. h.cached \in Views
    BY <1>1 DEF Hydrations
  <2>5. SummaryAfter(s, h) = Overlaid(h.cached, entry, RunAt(s, k))
    BY <1>3, <2>1 DEF SummaryAfter
  <2> QED BY <1>1, <1>3, <2>2, <2>3, <2>4, <2>5, OverlaidView
<1> QED BY <1>2, <1>3

(* The view of a hydration rests on the state of the run it has read.      *)
LEMMA MergedShows ==
  ASSUME TInv, PageInv, NEW s \in Scans, Complete(s), NEW h, h = hydration[s],
         NEW r, r = ReadAfter(h)
  PROVE  /\ Merged(s, h) \in Views
         /\ r # 0 /\ Runs[s][r].decision # NONE =>
              /\ Merged(s, h).decision = Runs[s][r].decision
              /\ Merged(s, h).status = Runs[s][r].status
              /\ Runs[s][r].quarantined => Merged(s, h).quarantined
<1>1. PICK summary : summary = SummaryAfter(s, h)
  OBVIOUS
<1>2. PICK k : k = IF h.snapshot # FAILED THEN h.snapshot[2] ELSE h.entry[3]
  OBVIOUS
<1>3. /\ summary \in Views /\ k \in 0..saved[s]
      /\ k # 0 => ViewIs(summary, Runs[s][k])
  BY <1>1, <1>2, SummaryShows
<1>4. PICK run : run = RunOf(s, h)
  OBVIOUS
<1>5. Merged(s, h) = MergedRun(summary, run)
  BY <1>1, <1>4 DEF Merged
<1>6. CASE h.run \notin {FAILED, 0}
  <2>1. h.run \in 1..saved[s] /\ r = h.run
    BY <1>6, AnswersAre DEF ReadAfter
  <2>2. run = Runs[s][r] /\ run \in RunStates /\ run # NoRun /\ run \in RunFiles
    BY <1>4, <1>6, <2>1, WrittenTypes, NoneApart DEF RunOf, RunFiles
  <2> QED BY <1>3, <1>5, <2>2, MergedView
<1>7. CASE h.run \in {FAILED, 0}
  <2>1. run = NoRun /\ r = k
    BY <1>2, <1>4, <1>7 DEF RunOf, RunAt, ReadAfter
  <2>2. Merged(s, h) = summary
    BY <1>5, <2>1 DEF MergedRun
  <2> QED BY <1>3, <2>1, <2>2 DEF ViewIs
<1> QED BY <1>6, <1>7

(* What the page becomes once the answers h are taken in.                  *)
TakenIn(s, h) ==
  /\ shown' = [shown EXCEPT ![s] = ShownAfter(s, h)] /\ ShownAfter(s, h) \subseteq WrittenKeys(s)
  /\ version' = [version EXCEPT ![s] = VersionAfter(h)] /\ VersionAfter(h) \in 0..log[s]
  /\ read' = [read EXCEPT ![s] = ReadAfter(h)] /\ ReadAfter(h) \in h.entry[3]..saved[s]
  /\ views' = [views EXCEPT ![s] = Derived(Merged(s, h), Contents(s, ShownAfter(s, h)))]
  /\ views'[s] = Derived(Merged(s, h), Contents(s, ShownAfter(s, h))) /\ views'[s] \in Views
  /\ Merged(s, h) \in Views /\ Contents(s, ShownAfter(s, h)) \in SUBSET Events
  /\ hydration' = [hydration EXCEPT ![s] = NONE]

(* What the page makes of the answers of a hydration.                      *)
LEMMA HydrateIs ==
  ASSUME TInv, PageInv, NEW s \in Scans, Hydrate(s), NEW h, h = hydration[s]
  PROVE  Complete(s) /\ TakenIn(s, h)
<1>0. Complete(s)
  BY DEF Hydrate
<1>1. /\ shown' = [shown EXCEPT ![s] = ShownAfter(s, h)]
      /\ version' = [version EXCEPT ![s] = VersionAfter(h)]
      /\ read' = [read EXCEPT ![s] = ReadAfter(h)]
      /\ views' = [views EXCEPT ![s] = Derived(Merged(s, h), Contents(s, shown'[s]))]
      /\ hydration' = [hydration EXCEPT ![s] = NONE]
  BY DEF Hydrate, Merged
<1>2. shown'[s] = ShownAfter(s, h)
  BY <1>1 DEF PageInv, PageTypes
<1>3. ShownAfter(s, h) \subseteq WrittenKeys(s)
  <2>1. shown[s] \subseteq WrittenKeys(s)
    BY DEF PageInv, Founded
  <2>2. Fetched(h) \subseteq WrittenKeys(s)
    <3>1. CASE h.events = FAILED
      BY <3>1 DEF Fetched
    <3>2. CASE h.events # FAILED
      <4>1. h.events \in 0..log[s] /\ h.after \in Nat /\ log[s] \in Nat
        BY <1>0, <3>2, AnswersAre DEF TInv, ServerTypes
      <4>2. (h.after + 1)..h.events \subseteq 1..log[s]
        BY <4>1
      <4> QED BY <3>2, <4>2 DEF Fetched, WrittenKeys
    <3> QED BY <3>1, <3>2
  <2>3. Stages(RunOf(s, h)) \subseteq WrittenKeys(s)
    <3>1. CASE h.run \in {FAILED, 0}
      <4>1. RunOf(s, h) = NoRun /\ Len(NoRun.failed) = 0
        BY <3>1 DEF RunOf, RunAt, NoRun
      <4> QED BY <4>1 DEF Stages
    <3>2. CASE h.run \notin {FAILED, 0}
      <4>1. h.run \in 1..saved[s]
        BY <1>0, <3>2, AnswersAre
      <4>2. RunOf(s, h) = Runs[s][h.run]
        BY <3>2 DEF RunOf, RunAt
      <4> QED BY <4>1, <4>2 DEF WrittenKeys
    <3> QED BY <3>1, <3>2
  <2> QED BY <2>1, <2>2, <2>3 DEF ShownAfter
<1>4. VersionAfter(h) \in 0..log[s]
  <2>1. log[s] \in Nat /\ h.entry[2] \in 1..log[s] /\ h.snapshot # FAILED => h.snapshot[1] \in 1..log[s]
    BY <1>0, AnswersAre DEF TInv, ServerTypes
  <2>2. Fetched(h) # {} => h.events \in 0..log[s]
    BY <1>0, AnswersAre DEF Fetched
  <2> QED BY <1>0, <2>1, <2>2, AnswersAre DEF VersionAfter
<1>5. ReadAfter(h) \in h.entry[3]..saved[s]
  BY <1>0, ReadIs
<1>6. Merged(s, h) \in Views
  BY <1>0, MergedShows
<1>7. Contents(s, ShownAfter(s, h)) \in SUBSET Events
  BY <1>3, ContentsType
<1>8. Derived(Merged(s, h), Contents(s, ShownAfter(s, h))) \in Views
  BY <1>6, <1>7, DerivedView
<1>9. /\ views' = [views EXCEPT ![s] = Derived(Merged(s, h), Contents(s, ShownAfter(s, h)))]
      /\ views'[s] = Derived(Merged(s, h), Contents(s, ShownAfter(s, h)))
  BY <1>1, <1>2 DEF PageInv, PageTypes
<1> QED BY <1>0, <1>1, <1>3, <1>4, <1>5, <1>6, <1>7, <1>8, <1>9 DEF TakenIn

(* Taking in the answers preserves the invariant of the page.              *)
LEMMA HydrateStep ==
  ASSUME TInv, TInv', PageInv, NEW s \in Scans, Hydrate(s)
  PROVE  PageInv'
<1>1. PICK h : h = hydration[s]
  OBVIOUS
<1>2. Complete(s) /\ TakenIn(s, h)
  BY <1>1, HydrateIs
<1>3. /\ PageFrame /\ appends' = appends /\ wire' = wire
      /\ UNCHANGED <<order, refresh, tries, loaded, saved, log>>
  BY DEF Hydrate, PageFrame, svars, store, written
<1>4. /\ h \in Hydrations /\ refresh.phase = "hydrating" /\ h.entry[3] \in read[s]..saved[s]
      /\ h.entry[3] \in Nat /\ read[s] \in Nat /\ saved[s] \in Nat /\ log[s] \in Nat
  BY <1>1, <1>2, AnswersAre DEF TInv, ServerTypes
<1>5. \A r \in Scans :
        /\ shown'[r] = IF r = s THEN ShownAfter(s, h) ELSE shown[r]
        /\ version'[r] = IF r = s THEN VersionAfter(h) ELSE version[r]
        /\ read'[r] = IF r = s THEN ReadAfter(h) ELSE read[r]
        /\ hydration'[r] = IF r = s THEN NONE ELSE hydration[r]
        /\ r # s => views'[r] = views[r]
  BY <1>2 DEF TakenIn, PageInv, PageTypes
<1>6. PageTypes'
  <2>1. WrittenKeys(s) \subseteq Keys
    BY DEF WrittenKeys, Real, Stages, Synthetic, Keys
  <2>2. ShownAfter(s, h) \in SUBSET Keys /\ VersionAfter(h) \in Nat /\ ReadAfter(h) \in Nat
    BY <1>2, <1>4, <2>1 DEF TakenIn
  <2>3. /\ shown' \in [Scans -> SUBSET Keys] /\ version' \in [Scans -> Nat]
        /\ read' \in [Scans -> Nat]
    BY <1>2, <2>2 DEF TakenIn, PageInv, PageTypes
  <2>4. /\ views' \in [Scans -> Views \cup {NONE}]
        /\ hydration' \in [Scans -> Hydrations \cup {NONE}]
    BY <1>2 DEF TakenIn, PageInv, PageTypes
  <2> QED BY <1>3, <2>3, <2>4 DEF PageInv, PageTypes
<1>7. ListOfScans(order)' /\ ListSound'
  BY <1>3, <1>4 DEF PageInv, ListOfScans, Distinct, Known, ListSound
<1>8. Unopened'
  BY <1>3, <1>4 DEF PageInv, Unopened
<1>9. ASSUME NEW r \in Scans PROVE Founded(r)' /\ HydrationSound(r)' /\ ViewSound(r)'
  <2>1. CASE r # s
    <3>1. Founded(r)' /\ ViewSound(r)'
      BY <1>3, <1>5, <2>1, FrameKeeps DEF PageInv, Founded, ViewSound
    <3>2. HydrationSound(r)'
      <4>1. CASE hydration[r] = NONE
        BY <1>5, <2>1, <4>1 DEF HydrationSound
      <4>2. CASE hydration[r] # NONE
        <5>1. AnswersFit(r, hydration[r]) /\ hydration[r].entry[1] = r
          BY <4>2 DEF PageInv, HydrationSound, AnswersFit
        <5>2. AnswersFit(r, hydration[r])'
          BY <1>3, <1>5, <2>1, <5>1 DEF AnswersFit, EntrySound
        <5> QED BY <1>3, <1>4, <5>2 DEF HydrationSound
      <4> QED BY <4>1, <4>2
    <3> QED BY <3>1, <3>2
  <2>2. CASE r = s
    <3>1. Founded(s)'
      BY <1>2, <1>3, <1>4, <1>5, FrameKeeps DEF TakenIn, Founded
    <3>2. HydrationSound(s)'
      BY <1>5 DEF HydrationSound
    <3>3. ViewSound(s)'
      <4>1. PICK k : k = ReadAfter(h)
        OBVIOUS
      <4>2. PICK view : view = Merged(s, h)
        OBVIOUS
      <4>3. PICK events : events = Contents(s, ShownAfter(s, h))
        OBVIOUS
      <4>4. view \in Views /\ events \in SUBSET Events /\ views'[s] = Derived(view, events)
            /\ views'[s] \in Views
        BY <1>2, <4>2, <4>3 DEF TakenIn
      <4>5. k # 0 /\ Runs[s][k].decision # NONE =>
              view.decision = Runs[s][k].decision /\ (Runs[s][k].quarantined => view.quarantined)
        BY <1>1, <1>2, <4>1, <4>2, MergedShows
      <4>6. view.decision # NONE =>
              /\ views'[s].decision = view.decision
              /\ view.quarantined => views'[s].quarantined
        BY <4>4, DerivedView
      <4>7. read'[s] = k
        BY <1>5, <4>1
      <4> QED BY <4>4, <4>5, <4>6, <4>7 DEF ViewSound
    <3> QED BY <2>2, <3>1, <3>2, <3>3
  <2> QED BY <2>1, <2>2
<1> QED BY <1>3, <1>6, <1>7, <1>8, <1>9, FrameKeeps DEF PageInv

(* Every step preserves the invariant of the page.                         *)
LEMMA PageStep == TInv /\ TInv' /\ PageInv /\ [Next]_vars => PageInv'
<1> SUFFICES ASSUME TInv, TInv', PageInv, [Next]_vars PROVE PageInv'
  OBVIOUS
<1>1. CASE Writers
  BY <1>1, HandlingStep DEF Writers, Handling
<1>2. CASE Clock
  <2>1. PageFrame
    BY <1>2 DEF Clock, Tick, NextDay, PageFrame, store, written
  <2> QED BY <1>2, <2>1, StillStep DEF Clock, Tick, NextDay, written, page, rest
<1>3. CASE \/ \E s \in Scans : (\E here \in BOOLEAN : Emit(s, here)) \/ SaveRun(s)
           \/ \E a \in appends : IndexEvent(a) \/ SnapshotEvent(a) \/ Broadcast(a)
  BY <1>3, WriterStep
<1>4. CASE Connect \/ Drop
  BY <1>4, SocketStep
<1>5. CASE Deliver
  BY <1>5, DeliverStep
<1>6. CASE StartRefresh \/ LatestFails \/ FinishRefresh
  BY <1>6, PhaseStep
<1>7. CASE Load
  BY <1>7, LoadStep
<1>8. CASE AnswerLatest
  BY <1>8, LatestStep
<1>9. CASE TakeList
  BY <1>9, TakeListStep
<1>10. CASE \E s \in Scans : AnswerStep(s) \/ RequestFails(s)
  BY <1>10, AnsweredStep
<1>11. CASE \E s \in Scans : Hydrate(s)
  BY <1>11, HydrateStep
<1>12. CASE UNCHANGED vars
  <2>1. PageFrame
    BY <1>12 DEF vars, svars, store, written, PageFrame
  <2> QED BY <1>12, <2>1, StillStep DEF vars, svars, written, page, rest
<1> QED BY <1>1, <1>2, <1>3, <1>4, <1>5, <1>6, <1>7, <1>8, <1>9, <1>10, <1>11, <1>12
     DEF Next, RefreshStep

(* The invariant of the page holds always.                                 *)
LEMMA PageInvKept == Spec => []PageInv
<1>1. Init => PageInv
  BY PageBegins
<1>2. TInv /\ TInv' /\ PageInv /\ [Next]_vars => PageInv'
  BY PageStep
<1> QED BY <1>1, <1>2, ServerTypesKept, PTL DEF Spec

(* TypeOK of the feed: the lists hold accepted scans, none of them twice,  *)
(* snapshots and messages tell of events that are there, the page shows    *)
(* nothing that has not been written, and its answers are those of a       *)
(* refresh under way, whatever the writers, the socket and failed requests *)
(* do beside it.                                                           *)
THEOREM PageTypesKept == Spec => []TypeOK
<1>1. ASSUME TInv, PageInv PROVE TypeOK
  <2>1. \A s \in Scans : log[s] \in Versions(s) /\ saved[s] \in States(s)
    BY <1>1 DEF PageInv, Written
  <2>2. ListOfScans(recent) /\ \A s \in Scans : snapshot[s] \in 0..log[s]
    <3>1. \A s \in Scans : snapshot[s] \in Nat /\ log[s] \in Nat /\ snapshot[s] <= log[s]
      BY <1>1 DEF PageInv, Written, TInv, ServerTypes
    <3> QED BY <1>1, <3>1 DEF PageInv, Written
  <2>3. \A a \in appends : /\ a.scan \in Scans /\ a.sequence \in 1..log[a.scan]
                           /\ a.here \in BOOLEAN /\ a.step \in {"index", "snapshot", "publish"}
    BY <1>1 DEF PageInv, Messages, Appends
  <2>4. wire # NONE => \A m \in Known(wire) : m[1] \in Scans /\ m[2] \in 1..log[m[1]]
    BY <1>1 DEF PageInv, Messages, Known
  <2>5. /\ auditLock \in Threads \cup {NONE}
        /\ \A t \in Threads : call[t].code \in {0, 200, 202, 400, 409, 429, 500}
    BY <1>1 DEF TInv, ServerTypes, Request, Codes
  <2>6. /\ loaded \in BOOLEAN /\ tries \in 0..Attempts /\ ListOfScans(order)
        /\ refresh.phase \in {"idle", "asked", "listed", "hydrating"}
    BY <1>1 DEF PageInv, PageTypes
  <2>7. ASSUME NEW s \in Scans
        PROVE  /\ views[s] \in Views \cup {NONE} /\ read[s] \in 0..saved[s]
               /\ shown[s] \subseteq WrittenKeys(s)
               /\ version[s] \in 0..log[s]
               /\ hydration[s] # NONE => hydration[s] \in Hydrations /\ refresh.phase = "hydrating"
    <3>1. views[s] \in Views \cup {NONE} /\ hydration[s] \in Hydrations \cup {NONE}
      BY <1>1 DEF PageInv, PageTypes
    <3>2. read[s] \in Nat /\ saved[s] \in Nat /\ version[s] \in Nat /\ log[s] \in Nat
      BY <1>1 DEF PageInv, PageTypes, TInv, ServerTypes
    <3>3. read[s] <= saved[s] /\ version[s] <= log[s] /\ shown[s] \subseteq WrittenKeys(s)
      BY <1>1 DEF PageInv, Founded
    <3>4. hydration[s] # NONE => refresh.phase = "hydrating"
      BY <1>1 DEF PageInv, HydrationSound
    <3> QED BY <3>1, <3>2, <3>3, <3>4
  <2> QED BY <2>1, <2>2, <2>3, <2>4, <2>5, <2>6, <2>7 DEF TypeOK
<1> QED BY <1>1, ServerTypesKept, PageInvKept, PTL

-----------------------------------------------------------------------------
(* What the page does not take back.                                       *)

(* Only opening the page, a list, a message or a hydration change what it  *)
(* shows.                                                                  *)
LEMMA PageMoves ==
  [Next]_vars => \/ UNCHANGED <<shown, views, read>>
                 \/ Load \/ TakeList \/ Deliver \/ \E s \in Scans : Hydrate(s)
<1> SUFFICES ASSUME [Next]_vars
             PROVE  \/ UNCHANGED <<shown, views, read>>
                    \/ Load \/ TakeList \/ Deliver \/ \E s \in Scans : Hydrate(s)
  OBVIOUS
<1>1. CASE Writers \/ Clock
  BY <1>1 DEF Writers, Clock, page
<1>2. CASE \/ \E s \in Scans : \/ \E here \in BOOLEAN : Emit(s, here)
                               \/ SaveRun(s) \/ RequestFails(s) \/ AnswerStep(s)
           \/ \E a \in appends : IndexEvent(a) \/ SnapshotEvent(a) \/ Broadcast(a)
  BY <1>2 DEF Emit, IndexEvent, SnapshotEvent, Broadcast, SaveRun, RequestFails, AnswerStep, AnswerSnapshot, AnswerEvents,
     AnswerRun, Answered, page
<1>3. CASE Connect \/ Drop \/ StartRefresh \/ LatestFails \/ FinishRefresh \/ AnswerLatest
  BY <1>3 DEF Connect, Drop, StartRefresh, LatestFails, FinishRefresh, AnswerLatest, page
<1>4. CASE UNCHANGED vars
  BY <1>4 DEF vars, page
<1> QED BY <1>1, <1>2, <1>3, <1>4 DEF Next, RefreshStep

(* Only the answers to a hydration end it.                                 *)
LEMMA HydrationEnds ==
  ASSUME TInv, PageInv, [Next]_vars, NEW s \in Scans, hydration[s] # NONE, hydration'[s] = NONE
  PROVE  Hydrate(s)
<1>0. hydration[s] \in Hydrations /\ refresh.phase = "hydrating" /\ NONE \notin Hydrations
  BY DashboardAssumption DEF PageInv, PageTypes, HydrationSound
<1>1. hydration' # hydration
  OBVIOUS
<1>2. CASE \E r \in Scans : Hydrate(r)
  BY <1>2 DEF Hydrate, PageInv, PageTypes
<1>3. CASE \E r \in Scans : AnswerStep(r) \/ RequestFails(r)
  <2>1. PICK r \in Scans : AnswerStep(r) \/ RequestFails(r)
    BY <1>3
  <2>2. r = s
    BY <2>1 DEF AnswerStep, AnswerSnapshot, AnswerEvents, AnswerRun, RequestFails, Answered,
       PageInv, PageTypes
  <2>3. PICK h \in Hydrations : h = hydration[s]
    BY <1>0
  <2>4. \/ hydration'[s] = [h EXCEPT !.snapshot = <<Seen(s), saved[s]>>]
        \/ hydration'[s] = [h EXCEPT !.events = log[s]]
        \/ hydration'[s] = [h EXCEPT !.run = saved[s]]
        \/ hydration'[s] = [h EXCEPT !.snapshot = FAILED]
        \/ hydration'[s] = [h EXCEPT !.events = FAILED]
        \/ hydration'[s] = [h EXCEPT !.run = FAILED]
    BY <2>1, <2>2, <2>3 DEF AnswerStep, AnswerSnapshot, AnswerEvents, AnswerRun, RequestFails,
       Answered, PageInv, PageTypes
  <2>5. hydration'[s] \in Hydrations
    <3>1. Seen(s) \in Nat /\ log[s] \in Nat /\ saved[s] \in Nat /\ FAILED \in Pending
      BY SeenIs DEF TInv, ServerTypes, PageInv, PageTypes, Pending
    <3> QED BY <2>3, <2>4, <3>1 DEF Hydrations
  <2> QED BY <1>0, <2>5
<1>4. CASE TakeList
  BY <1>0, <1>4 DEF TakeList
<1>5. CASE Writers \/ Clock \/ Connect \/ Drop \/ Deliver \/ Load
  BY <1>1, <1>5 DEF Writers, Clock, Connect, Drop, Deliver, Load, rest
<1>6. CASE StartRefresh \/ LatestFails \/ FinishRefresh \/ AnswerLatest
  BY <1>1, <1>6 DEF StartRefresh, LatestFails, FinishRefresh, AnswerLatest
<1>7. CASE \/ \E r \in Scans : (\E here \in BOOLEAN : Emit(r, here)) \/ SaveRun(r)
           \/ \E a \in appends : IndexEvent(a) \/ SnapshotEvent(a) \/ Broadcast(a)
  BY <1>1, <1>7 DEF Emit, IndexEvent, SnapshotEvent, Broadcast, SaveRun, rest
<1>8. CASE UNCHANGED vars
  BY <1>1, <1>8 DEF vars, rest
<1> QED BY <1>2, <1>3, <1>4, <1>5, <1>6, <1>7, <1>8 DEF Next, RefreshStep

(* No step takes an event from the page (EventsKept).                      *)
LEMMA EventsStay ==
  ASSUME TInv, PageInv, [Next]_vars, NEW s \in Scans
  PROVE  shown[s] \subseteq shown'[s]
<1>1. CASE UNCHANGED <<shown, views, read>> \/ Load \/ TakeList
  BY <1>1 DEF Load, TakeList
<1>2. CASE Deliver
  <2>1. PICK r \in Scans : \E i \in 1..log[r] : Delivered(r, i)
    BY <1>2, DeliverIs
  <2>2. \E i : shown' = [shown EXCEPT ![r] = @ \cup {Real(i)}]
    BY <2>1 DEF Delivered
  <2> QED BY <2>2 DEF PageInv, PageTypes
<1>3. CASE \E r \in Scans : Hydrate(r)
  <2>1. PICK r \in Scans : Hydrate(r)
    BY <1>3
  <2>2. PICK h : h = hydration[r]
    OBVIOUS
  <2>3. shown' = [shown EXCEPT ![r] = ShownAfter(r, h)] /\ shown[r] \subseteq ShownAfter(r, h)
    BY <2>1, <2>2, HydrateIs DEF TakenIn, ShownAfter
  <2> QED BY <2>3 DEF PageInv, PageTypes
<1> QED BY <1>1, <1>2, <1>3, PageMoves

(* No step makes the page show an older state of a run (RunsAdvance).      *)
LEMMA ReadingAdvances ==
  ASSUME TInv, PageInv, [Next]_vars, NEW s \in Scans
  PROVE  read[s] <= read'[s]
<1>0. read[s] \in Nat /\ saved[s] \in Nat
  BY DEF PageInv, PageTypes
<1>1. CASE UNCHANGED <<shown, views, read>> \/ Load \/ Deliver
  BY <1>0, <1>1 DEF Load, Deliver
<1>2. CASE TakeList
  <2>1. PICK list : list = refresh.list
    OBVIOUS
  <2>2. PICK e : e = EntryOf(list, s)
    OBVIOUS
  <2>3. PICK new \in BOOLEAN : new <=> views[s] = NONE /\ Listed(list, s)
    OBVIOUS
  <2>4. refresh.phase = "listed" /\ read'[s] = IF new THEN e[3] ELSE read[s]
    <3>1. /\ refresh.phase = "listed"
          /\ views'[s] = IF new THEN Summary(s, e[2], e[3]) ELSE views[s]
          /\ read'[s] = IF new THEN e[3] ELSE read[s]
          /\ hydration'[s] = NONE \/
               /\ Listed(list, s)
               /\ hydration'[s] = [cached |-> views'[s], after |-> version[s], entry |-> e,
                                   snapshot |-> WAITING, events |-> WAITING, run |-> WAITING]
      BY <1>2, <2>1, <2>2, <2>3, TakeListIs
    <3> QED BY <3>1
  <2>5. new => e[3] \in read[s]..saved[s]
    BY <2>1, <2>2, <2>3, <2>4, EntryIs
  <2> QED BY <1>0, <2>4, <2>5
<1>3. CASE \E r \in Scans : Hydrate(r)
  <2>1. PICK r \in Scans : Hydrate(r)
    BY <1>3
  <2>2. PICK h : h = hydration[r]
    OBVIOUS
  <2>3. Complete(r) /\ read' = [read EXCEPT ![r] = ReadAfter(h)]
        /\ ReadAfter(h) \in h.entry[3]..saved[r]
    BY <2>1, <2>2, HydrateIs DEF TakenIn
  <2>4. h.entry[3] \in read[r]..saved[r] /\ read[r] \in Nat /\ saved[r] \in Nat
    BY <2>2, <2>3, AnswersAre
  <2>5. read[r] <= ReadAfter(h)
    BY <2>3, <2>4
  <2>6. CASE r = s
    BY <2>3, <2>5, <2>6 DEF PageInv, PageTypes
  <2>7. CASE r # s
    BY <1>0, <2>3, <2>7 DEF PageInv, PageTypes
  <2> QED BY <2>6, <2>7
<1> QED BY <1>1, <1>2, <1>3, PageMoves

(* The verdict on a run is what it ended with.                             *)
LEMMA VerdictIs ==
  ASSUME TInv, PageInv, NEW s \in Scans, Over(s)
  PROVE  /\ Last(s) \in RunStates /\ Last(s) # NoRun /\ Last(s).decision # NONE
         /\ Last(s) = Runs[s][Len(Runs[s])]
         /\ Verdict(s) = EndOf(Last(s))
<1>1. /\ Last(s) \in RunStates /\ Last(s) # NoRun /\ Last(s).decision # NONE
      /\ Last(s) = Runs[s][Len(Runs[s])] /\ Last(s) \in RunFiles
  <2>1. Len(Runs[s]) \in 1..Len(Runs[s])
    BY ScriptTypes DEF Over
  <2>2. Last(s) = Runs[s][Len(Runs[s])]
    BY DEF Last, RunAt, Over
  <2> QED BY <2>1, <2>2, ScriptTypes, NoneApart DEF Over, RunFiles
<1>2. Journal[s][1] \in Events
  BY ScriptTypes
<1>3. PICK view : view = Enriched(Journal[s][1], Last(s))
  OBVIOUS
<1>4. view \in Views /\ view.status = Last(s).status /\ view.decision = Last(s).decision
      /\ (view.quarantined <=> Last(s).quarantined)
  BY <1>1, <1>2, <1>3, EnrichedView
<1>5. PICK merged : merged = MergedRun(view, Last(s))
  OBVIOUS
<1>6. merged \in Views /\ merged.status = Last(s).status /\ merged.decision = Last(s).decision
      /\ (merged.quarantined <=> Last(s).quarantined)
  BY <1>1, <1>4, <1>5, MergedView
<1>7. StatusOf(merged) = EndOf(Last(s))
  BY <1>1, <1>6, EndShown
<1> QED BY <1>1, <1>3, <1>5, <1>7 DEF Verdict

(* A page that has seen the end of a run makes the same of every answer.   *)
LEMMA EndMerged ==
  ASSUME TInv, PageInv, NEW s \in Scans, Complete(s), NEW h, h = hydration[s],
         Over(s), read[s] = Len(Runs[s])
  PROVE  Merged(s, h).decision = Last(s).decision /\ StatusOf(Merged(s, h)) = EndOf(Last(s))
<1>1. PICK n \in Nat : n = Len(Runs[s])
  BY ScriptTypes
<1>2. n > 0 /\ saved[s] = n /\ read[s] = n
  BY <1>1 DEF Over
<1>3. h.entry[3] = n /\ (h.snapshot # FAILED => h.snapshot[2] = n) /\ (h.run # FAILED => h.run = n)
  BY <1>2, AnswersAre
<1>4. PICK run : run = Last(s)
  OBVIOUS
<1>5. run \in RunStates /\ run # NoRun /\ run.decision # NONE /\ run = Runs[s][n] /\ run \in RunFiles
  BY <1>1, <1>4, VerdictIs DEF RunFiles
<1>6. PICK summary : summary = SummaryAfter(s, h)
  OBVIOUS
<1>7. summary \in Views /\ ViewIs(summary, run)
  BY <1>2, <1>3, <1>5, <1>6, SummaryShows
<1>8. PICK merged : merged = Merged(s, h)
  OBVIOUS
<1>9. merged \in Views /\ ViewIs(merged, run)
  <2>1. CASE h.run = FAILED
    BY <1>6, <1>7, <1>8, <2>1 DEF Merged, MergedRun, RunOf
  <2>2. CASE h.run # FAILED
    <3>1. RunOf(s, h) = run
      BY <1>2, <1>3, <1>5, <2>2 DEF RunOf, RunAt
    <3>2. merged = MergedRun(summary, run)
      BY <1>6, <1>8, <3>1 DEF Merged
    <3> QED BY <1>5, <1>7, <3>2, MergedView DEF ViewIs
  <2> QED BY <2>1, <2>2
<1>10. StatusOf(merged) = EndOf(run)
  BY <1>5, <1>9, EndShown DEF ViewIs
<1> QED BY <1>4, <1>8, <1>9, <1>10 DEF ViewIs

(* No step takes back the end of a run that is shown (DecidedStays).       *)
LEMMA VerdictStays ==
  ASSUME TInv, PageInv, [Next]_vars, NEW s \in Scans, Informed(s),
         StatusOf(views[s]) = Verdict(s), Verdict(s) \in Verdicts
  PROVE  StatusOf(views'[s]) = Verdict(s) \/ LateWord(s)
<1>0. /\ Over(s) /\ views[s] # NONE /\ read[s] = Len(Runs[s]) /\ read[s] # 0
      /\ views[s] \in Views
  BY DEF Informed, Over, PageInv, PageTypes
<1>1. PICK run : run = Last(s)
  OBVIOUS
<1>2. run \in RunStates /\ run.decision # NONE /\ run = Runs[s][read[s]] /\ Verdict(s) = EndOf(run)
  BY <1>0, <1>1, VerdictIs
<1>3. CASE UNCHANGED <<shown, views, read>>
  BY <1>3
<1>4. CASE Load
  BY <1>0, <1>4 DEF Load, PageInv, Unopened
<1>5. CASE TakeList
  <2>1. views'[s] = views[s]
    BY <1>0, <1>5, TakeListIs
  <2> QED BY <2>1
<1>6. CASE Deliver
  <2>1. PICK r \in Scans : \E i \in 1..log[r] : Delivered(r, i)
    BY <1>6, DeliverIs
  <2>2. PICK i \in 1..log[r] : Delivered(r, i)
    BY <2>1
  <2>3. CASE r # s
    <3>1. views'[s] = views[s]
      BY <2>2, <2>3 DEF Delivered, PageInv, PageTypes
    <3> QED BY <3>1
  <2>4. CASE r = s /\ ~LateWord(s)
    <3>1. PICK event : event = Journal[s][i]
      OBVIOUS
    <3>2. PICK old : old = views[s]
      OBVIOUS
    <3>3. PICK view : view = SocketView(old, event)
      OBVIOUS
    <3>4. PICK events : events = Contents(s, shown[s] \cup {Real(i)})
      OBVIOUS
    <3>5. event \in Events /\ view \in Views /\ views'[s] = Derived(view, events)
          /\ events \in SUBSET Events
      <4>1. event \in Events /\ view \in Views
        BY <2>2, <2>4, <3>1, <3>2, <3>3 DEF Delivered
      <4>2. views'[s] = Derived(view, events)
        BY <2>2, <2>4, <3>1, <3>2, <3>3, <3>4 DEF Delivered, PageInv, PageTypes
      <4>3. events \in SUBSET Events
        BY <2>2, <2>4, <3>4, ContentsType DEF Delivered
      <4> QED BY <4>1, <4>2, <4>3
    <3>6. EventStatus(event) \notin {"MANUAL_REVIEW", "LICENSE_REQUIRED", "QUARANTINED"}
      BY <2>2, <2>4, <3>1 DEF Delivered, LateWord
    <3>7. old \in Views /\ old.decision = run.decision /\ (run.quarantined => old.quarantined)
      BY <1>0, <1>2, <3>2 DEF PageInv, ViewSound
    <3>8. StatusOf(view) = EndOf(run) /\ view.decision = old.decision
      BY <1>2, <3>2, <3>3, <3>5, <3>6, <3>7, LateEvent, SocketViewIs, NoneApart
    <3>9. StatusOf(Derived(view, events)) = StatusOf(view)
      BY <1>2, <3>5, <3>7, <3>8, DerivedStatus
    <3> QED BY <1>2, <3>5, <3>8, <3>9
  <2> QED BY <2>3, <2>4
<1>7. CASE \E r \in Scans : Hydrate(r)
  <2>1. PICK r \in Scans : Hydrate(r)
    BY <1>7
  <2>2. PICK h : h = hydration[r]
    OBVIOUS
  <2>3. Complete(r) /\ TakenIn(r, h)
    BY <2>1, <2>2, HydrateIs
  <2>4. CASE r # s
    <3>1. views'[s] = views[s]
      BY <2>3, <2>4 DEF TakenIn, PageInv, PageTypes
    <3> QED BY <3>1
  <2>5. CASE r = s
    <3>1. PICK view : view = Merged(s, h)
      OBVIOUS
    <3>2. PICK events : events = Contents(s, ShownAfter(s, h))
      OBVIOUS
    <3>3. view \in Views /\ events \in SUBSET Events /\ views'[s] = Derived(view, events)
      BY <2>3, <2>5, <3>1, <3>2 DEF TakenIn
    <3>4. view.decision = run.decision /\ StatusOf(view) = EndOf(run)
      BY <1>0, <1>1, <2>2, <2>3, <2>5, <3>1, EndMerged
    <3>5. StatusOf(Derived(view, events)) = StatusOf(view)
      BY <1>2, <3>3, <3>4, DerivedStatus
    <3> QED BY <1>2, <3>3, <3>4, <3>5
  <2> QED BY <2>4, <2>5
<1> QED BY <1>3, <1>4, <1>5, <1>6, <1>7, PageMoves

(* A hydration that read the end of a refused run shows a refusal, and a   *)
(* high risk (DenialShown).                                                *)
LEMMA RefusalShown ==
  ASSUME TInv, PageInv, [Next]_vars, NEW s \in Scans,
         hydration[s] # NONE, hydration'[s] = NONE, Over(s),
         hydration[s].run = Len(Runs[s]), Last(s).decision \in Quarantining \cup Refusing
  PROVE  StatusOf(views'[s]) \in {"REJECTED", "QUARANTINED"} /\ HighRisk(views'[s])
<1>1. PICK h : h = hydration[s]
  OBVIOUS
<1>2. Complete(s) /\ TakenIn(s, h)
  BY <1>1, HydrationEnds, HydrateIs
<1>3. PICK run : run = Last(s)
  OBVIOUS
<1>4. run \in RunStates /\ run # NoRun /\ run.decision # NONE /\ run \in RunFiles
      /\ run.decision \in Quarantining \cup Refusing
  BY <1>3, VerdictIs DEF RunFiles
<1>5. RunOf(s, h) = run
  <2>1. Len(Runs[s]) \in Nat /\ Len(Runs[s]) > 0
    BY ScriptTypes DEF Over
  <2>2. h.run # FAILED /\ h.run = Len(Runs[s])
    BY <1>1, <2>1, PendingApart DEF Pending
  <2> QED BY <1>3, <2>1, <2>2 DEF RunOf, Last
<1>6. PICK view : view = Merged(s, h)
  OBVIOUS
<1>7. view \in Views /\ view.decision = run.decision /\ view.status = run.status
  <2>1. PICK summary : summary = SummaryAfter(s, h)
    OBVIOUS
  <2>2. summary \in Views
    BY <1>1, <1>2, <2>1, SummaryShows
  <2>3. view = MergedRun(summary, run)
    BY <1>5, <1>6, <2>1 DEF Merged
  <2> QED BY <1>4, <2>2, <2>3, MergedView
<1>8. StatusOf(view) \in {"REJECTED", "QUARANTINED"}
  <2>1. run.status \in RunStatuses /\ (run.status = "MANUAL_REVIEW" => run.decision \in Review)
    BY <1>4 DEF RunStates
  <2>2. view.status \notin {"MANUAL_REVIEW", "LICENSE_REQUIRED"}
    BY <1>4, <1>7, <2>1, WordsApart DEF RunStatuses
  <2> QED BY <1>4, <1>7, <2>2, WordsApart DEF StatusOf, First
<1>9. PICK events : events = Contents(s, ShownAfter(s, h))
  OBVIOUS
<1>10. events \in SUBSET Events /\ views'[s] = Derived(view, events) /\ views'[s] \in Views
  BY <1>2, <1>6, <1>9 DEF TakenIn
<1>11. StatusOf(Derived(view, events)) = StatusOf(view)
  BY <1>4, <1>7, <1>8, <1>10, DerivedStatus DEF Verdicts
<1>12. StatusOf(views'[s]) \in {"REJECTED", "QUARANTINED"}
  BY <1>8, <1>10, <1>11
<1> QED BY <1>10, <1>12, RefusedRisk

(* PageSteady: neither a refresh that was overtaken by the socket, nor     *)
(* answers out of order, failed requests or late events make the page      *)
(* forget an event, go back to an older state of a run, take back a        *)
(* verdict or show a refused chip approved.                                *)
THEOREM PageIsSteady == Spec => PageSteady
<1>1. TInv /\ PageInv /\ [Next]_vars => [\A s \in Scans : shown[s] \subseteq shown'[s]]_shown
  BY EventsStay
<1>2. TInv /\ PageInv /\ [Next]_vars => [\A s \in Scans : read[s] <= read'[s]]_read
  BY ReadingAdvances
<1>3. TInv /\ PageInv /\ [Next]_vars =>
        [\A s \in Scans : Informed(s) /\ StatusOf(views[s]) = Verdict(s) /\ Verdict(s) \in Verdicts
           => StatusOf(views'[s]) = Verdict(s) \/ LateWord(s)]_views
  BY VerdictStays
<1>4. TInv /\ PageInv /\ [Next]_vars =>
        [\A s \in Scans :
           /\ hydration[s] # NONE /\ hydration'[s] = NONE /\ Over(s)
           /\ hydration[s].run = Len(Runs[s]) /\ Last(s).decision \in Quarantining \cup Refusing
           => /\ StatusOf(views'[s]) \in {"REJECTED", "QUARANTINED"}
              /\ HighRisk(views'[s])]_hydration
  BY RefusalShown
<1> QED BY <1>1, <1>2, <1>3, <1>4, ServerTypesKept, PageInvKept, PTL
     DEF Spec, PageSteady, EventsKept, RunsAdvance, DecidedStays, DenialShown
=============================================================================
