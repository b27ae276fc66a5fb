------------------------------ MODULE Dashboard ------------------------------
(***************************************************************************)
(* The live dashboard: a page that is fed by socket messages and by a      *)
(* refresh over REST, beside the server and the pipelines that write what  *)
(* it shows.                                                               *)
(*                                                                         *)
(* Once a scan is accepted (WebServer), stages append events to its        *)
(* journal, write its projections and, in the server, broadcast the event; *)
(* a command-line process has no browser to tell.  An append may also end  *)
(* half way.  The run file of the scan is saved over and over.  What they  *)
(* write is a constant of the model: Journal[s] are the events of s and    *)
(* Runs[s] the saved states of its run, and log[s], snapshot[s] and        *)
(* saved[s] say how far they got.                                          *)
(*                                                                         *)
(* The page is one thread: what it does between two awaits is one action.  *)
(* A refresh asks for the latest scans, then for the first HydrateLimit of *)
(* them three things each, all at once, and takes the answers of a scan    *)
(* when the third is there.                                                *)
(***************************************************************************)
EXTENDS WebServer

CONSTANTS
  Journal,       \* Journal[s]: the events of s in order, the first scan.accepted
  Runs,          \* Runs[s]: the saved states of the run of s in order, maybe none
  ListLimit,     \* scans asked for, 50 in the code
  HydrateLimit,  \* scans hydrated, 24 in the code
  Attempts,      \* reconnections the socket client tries, 8 in the code
  MaxDrops,      \* bound on lost connections
  MaxFailures,   \* bound on requests of the page that fail
  WAITING, FAILED  \* a request that is not answered yet, and one that failed

(* A hydration: the view, the version and the list entry it was sent with, *)
(* and its three requests.                                                 *)
Pending    == {WAITING, FAILED}
Entries    == Scans \X Nat \X Nat
Hydrations ==
  [cached : Views, after : Nat, entry : Entries, snapshot : Pending \cup (Nat \X Nat),
   events : Pending \cup Nat, run : Pending \cup Nat]

ASSUME DashboardAssumption ==
  /\ ListLimit \in Nat \ {0} /\ HydrateLimit \in 1..ListLimit
  /\ Attempts \in Nat /\ MaxDrops \in Nat /\ MaxFailures \in Nat
  /\ NONE \notin Words \cup ShownStatuses \cup Int \cup Views \cup Hydrations
  /\ WAITING # FAILED /\ Pending \cap Nat = {}
  /\ WAITING \notin Nat \X Nat /\ FAILED \notin Nat \X Nat
  /\ \A s \in Scans : /\ Journal[s] \in Seq(Events) /\ Runs[s] \in Seq(RunStates)
                      /\ Journal[s] # <<>> /\ Journal[s][1].type = "scan.accepted"

VARIABLES
  saved,     \* saved[s]: how many states of the run of s have been saved
  appends,   \* the appends of events that are under way
  tries,     \* connections of the socket client that failed since the last one
  loaded,    \* the page has been opened
  order,     \* state.scanOrder
  views,     \* state.scans: the view of each scan, or NONE
  shown,     \* state.eventsByScan: the events of each scan, by their keys
  version,   \* state.eventVersions
  told,      \* state.notificationSignatures
  read,      \* history: read[s]: which saved state of its run the view of s shows
  refresh,   \* the refresh under way
  hydration, \* hydration[s]: the three requests for s and their answers, or NONE
  drops, failures

written == <<saved, appends>>
page    == <<order, views, shown, version, told, read>>
rest    == <<refresh, hydration>>
bounds  == <<drops, failures>>
vars    == <<svars, written, tries, loaded, page, rest, bounds>>

(* The state of the run file of s when k states have been saved.           *)
RunAt(s, k) == IF k = 0 THEN NoRun ELSE Runs[s][k]

(* Keys of events, which the page keeps sorted: those of the journal by    *)
(* their sequence, and those made up for the stages of the run.            *)
Real(i)      == <<"event", i>>
Synthetic(i) == <<"stage", i>>
KeysOf(s)    == {Real(i) : i \in 1..Len(Journal[s])}

Idle    == [phase |-> "idle", list |-> <<>>]

PageInit ==
  /\ saved = [s \in Scans |-> 0] /\ appends = {}
  /\ tries = 0 /\ loaded = FALSE
  /\ order = <<>> /\ views = [s \in Scans |-> NONE]
  /\ shown = [s \in Scans |-> {}] /\ version = [s \in Scans |-> 0]
  /\ told = [s \in Scans |-> NONE] /\ read = [s \in Scans |-> 0]
  /\ refresh = Idle /\ hydration = [s \in Scans |-> NONE]
  /\ drops = 0 /\ failures = 0

Init == ServerInit /\ PageInit

-----------------------------------------------------------------------------
(* The writers.                                                            *)

(* An event of a scan that is under way, as far as its journal.            *)
Emit(s, here) ==
  /\ log[s] \in 1..(Len(Journal[s]) - 1)
  /\ log' = [log EXCEPT ![s] = @ + 1]
  /\ appends' = appends \cup {[scan |-> s, sequence |-> log'[s], here |-> here, step |-> "index"]}
  /\ UNCHANGED <<recent, snapshot, limiter, auditing, wire, pc, call, clock, hist, saved,
                 tries, loaded, page, rest, bounds>>

(* Its indexes, its snapshot, and publish_record once append has returned. *)
IndexEvent(a) ==
  /\ a.step = "index"
  /\ recent' = MovedToFront(a.scan)
  /\ appends' = (appends \ {a}) \cup {[a EXCEPT !.step = "snapshot"]}
  /\ UNCHANGED <<log, snapshot, limiter, auditing, wire, pc, call, clock, hist, saved,
                 tries, loaded, page, rest, bounds>>

SnapshotEvent(a) ==
  /\ a.step = "snapshot"
  /\ snapshot' = [snapshot EXCEPT ![a.scan] = a.sequence]
  /\ appends' = (appends \ {a}) \cup (IF a.here THEN {[a EXCEPT !.step = "publish"]} ELSE {})
  /\ UNCHANGED <<log, recent, limiter, auditing, wire, pc, call, clock, hist, saved,
                 tries, loaded, page, rest, bounds>>

Broadcast(a) ==
  /\ a.step = "publish"
  /\ wire' = Sent(a.scan, a.sequence)
  /\ appends' = appends \ {a}
  /\ UNCHANGED <<store, limiter, auditing, pc, call, clock, hist, saved, tries, loaded,
                 page, rest, bounds>>

SaveRun(s) ==
  /\ log[s] > 0 /\ saved[s] < Len(Runs[s])
  /\ saved' = [saved EXCEPT ![s] = @ + 1]
  /\ UNCHANGED <<svars, appends, tries, loaded, page, rest, bounds>>

Writers ==
  /\ \E t \in Threads : \/ \E s \in Scans : Arrive(t, s)
                        \/ RequestStep(t) \/ Mishap(t)
  /\ UNCHANGED <<written, tries, loaded, page, rest, bounds>>

Clock ==
  /\ Tick \/ NextDay
  /\ UNCHANGED <<written, tries, loaded, page, rest, bounds>>

-----------------------------------------------------------------------------
(* The page.                                                               *)

Upto(list, limit) == SubSeq(list, 1, IF Len(list) < limit THEN Len(list) ELSE limit)

Known(list) == {list[i] : i \in 1..Len(list)}

(* What the page knows of the content of the events it has.                *)
Contents(s, keys) == {Journal[s][k[2]] : k \in {k \in keys : k[1] = "event"}}

(* initial_scans, rendered into the page by the server.                    *)
Load ==
  /\ ~loaded /\ loaded' = TRUE
  /\ order' = Upto(recent, ListLimit)
  /\ views' = [s \in Scans |-> IF s \in Known(order')
                                THEN Snapshot(Journal[s][Seen(s)]) ELSE NONE]
  /\ UNCHANGED <<svars, written, tries, shown, version, told, read, rest, bounds>>

Connect ==
  /\ loaded /\ wire = NONE /\ tries < Attempts
  /\ \/ wire' = <<>> /\ tries' = 0
     \/ wire' = wire /\ tries' = tries + 1
  /\ UNCHANGED <<store, limiter, auditing, pc, call, clock, hist, written, loaded, page,
                 rest, bounds>>

(* Messages on their way are lost with the connection; nothing asks for    *)
(* them again, subscribeToScan and requestReplay have no caller.           *)
Drop ==
  /\ wire # NONE /\ drops < MaxDrops
  /\ wire' = NONE /\ drops' = drops + 1
  /\ UNCHANGED <<store, limiter, auditing, pc, call, clock, hist, written, tries, loaded,
                 page, rest, failures>>

(* mergeSocketEvent                                                        *)
Deliver ==
  /\ wire # NONE /\ wire # <<>>
  /\ LET s == Head(wire)[1]
         i == Head(wire)[2]
     IN  /\ shown' = [shown EXCEPT ![s] = @ \cup {Real(i)}]
         /\ version' = [version EXCEPT ![s] = i]
         /\ \E view \in {SocketView(views[s], Journal[s][i])} :
              views' = [views EXCEPT ![s] = Derived(view, Contents(s, shown'[s]))]
         /\ order' = <<s>> \o Without(order, s)
  /\ wire' = Tail(wire)
  /\ UNCHANGED <<store, limiter, auditing, pc, call, clock, hist, written, tries, loaded,
                 told, read, rest, bounds>>

-----------------------------------------------------------------------------
(* A refresh.  The timer skips one while another is under way, and the     *)
(* button is disabled then, so there is one at a time.                     *)
StartRefresh ==
  /\ loaded /\ refresh.phase = "idle"
  /\ refresh' = [Idle EXCEPT !.phase = "asked"]
  /\ UNCHANGED <<svars, written, tries, loaded, page, hydration, bounds>>

(* GET /scans/latest: every scan listed with its snapshot and its run.     *)
AnswerLatest ==
  /\ refresh.phase = "asked"
  /\ LET list == Upto(recent, ListLimit)
     IN  refresh' = [phase |-> "listed",
                     list |-> [i \in 1..Len(list) |->
                                 <<list[i], Seen(list[i]), saved[list[i]]>>]]
  /\ UNCHANGED <<svars, written, tries, loaded, page, hydration, bounds>>

(* Fault: the flag is not cleared when the request fails.                  *)
LatestFailsStuck ==
  /\ refresh.phase = "asked" /\ failures < MaxFailures
  /\ refresh' = [Idle EXCEPT !.phase = "failed"] /\ failures' = failures + 1
  /\ UNCHANGED <<svars, written, tries, loaded, page, hydration, drops>>

(* The catch block and the finally block of refreshScans.                  *)
LatestFails ==
  /\ refresh.phase = "asked" /\ failures < MaxFailures
  /\ refresh' = Idle /\ failures' = failures + 1
  /\ UNCHANGED <<svars, written, tries, loaded, page, hydration, drops>>

Summary(s, i, k) == Enriched(Journal[s][i], RunAt(s, k))

(* The list is there: scans not seen before are entered as listed, and the *)
(* requests of the hydrations leave.  "after" is read now.                 *)
TakeList ==
  /\ refresh.phase = "listed"
  /\ LET list     == refresh.list
         first    == Upto(list, HydrateLimit)
         Has(s, l) == \E i \in 1..Len(l) : l[i][1] = s
         Entry(s) == list[CHOOSE i \in 1..Len(list) : list[i][1] = s]
         New(s)   == views[s] = NONE /\ Has(s, list)
     IN  /\ order' = [i \in 1..Len(list) |-> list[i][1]]
         /\ views' = [s \in Scans |-> IF New(s) THEN Summary(s, Entry(s)[2], Entry(s)[3])
                                                ELSE views[s]]
         /\ read' = [s \in Scans |-> IF New(s) THEN Entry(s)[3] ELSE read[s]]
         /\ hydration' = [s \in Scans |->
              IF Has(s, first)
              THEN [cached |-> views'[s], after |-> version[s], entry |-> Entry(s),
                    snapshot |-> WAITING, events |-> WAITING, run |-> WAITING]
              ELSE NONE]
  /\ refresh' = [Idle EXCEPT !.phase = "hydrating"]
  /\ UNCHANGED <<svars, written, tries, loaded, shown, version, told, bounds>>

Answered(s, field, answer) ==
  /\ hydration[s] # NONE
  /\ hydration' = [hydration EXCEPT ![s] = [@ EXCEPT ![field] = answer]]
  /\ UNCHANGED <<svars, written, tries, loaded, page, refresh>>

Asked(s, field) == hydration[s] # NONE /\ hydration[s][field] = WAITING

(* GET /scans/<s>, /scans/<s>/events?after_sequence and                    *)
(* /integration/runs/<s>, which is a 404 without a run.                    *)
AnswerSnapshot(s) ==
  /\ Asked(s, "snapshot")
  /\ Answered(s, "snapshot", <<Seen(s), saved[s]>>) /\ UNCHANGED bounds
AnswerEvents(s) ==
  /\ Asked(s, "events") /\ Answered(s, "events", log[s]) /\ UNCHANGED bounds
AnswerRun(s) ==
  /\ Asked(s, "run") /\ Answered(s, "run", saved[s]) /\ UNCHANGED bounds

(* A request of the page fails: ten seconds are over, or an error answer.  *)
RequestFails(s) ==
  /\ failures < MaxFailures /\ failures' = failures + 1 /\ UNCHANGED drops
  /\ \E field \in {"snapshot", "events", "run"} :
       Asked(s, field) /\ Answered(s, field, FAILED)

Complete(s) ==
  hydration[s] # NONE /\ \A field \in {"snapshot", "events", "run"} : hydration[s][field] # WAITING

(* What a hydration adds: events after the version it was sent with, and   *)
(* one for each stage of the run.                                          *)
Fetched(h) == IF h.events = FAILED THEN {} ELSE {Real(i) : i \in (h.after + 1)..h.events}
RunOf(s, h) == IF h.run = FAILED THEN NoRun ELSE RunAt(s, h.run)
Stages(run) == {Synthetic(i) : i \in 1..Len(run.failed)}

(* Fault: the list of events is the one fetched.                           *)
ShownAfterReplaced(s, h) == Fetched(h) \cup Stages(RunOf(s, h))

(* The list as it is now, which a socket event may have grown meanwhile.   *)
ShownAfter(s, h) == shown[s] \cup Fetched(h) \cup Stages(RunOf(s, h))

VersionAfter(h) ==
  IF Fetched(h) # {} THEN h.events
  ELSE IF h.snapshot # FAILED THEN h.snapshot[1]
  ELSE h.entry[2]

SummaryAfter(s, h) ==
  LET entry == Summary(s, h.entry[2], h.entry[3])
  IN  IF h.snapshot = FAILED THEN Overlaid(h.cached, entry, RunAt(s, h.entry[3]))
                             ELSE Summary(s, h.snapshot[1], h.snapshot[2])

(* The saved state of the run that lies uppermost after it.                *)
ReadAfter(h) ==
  IF h.run \notin {FAILED, 0} THEN h.run
  ELSE IF h.snapshot # FAILED THEN h.snapshot[2]
  ELSE h.entry[3]

(* The rest of hydrateScan, once all three requests are settled.           *)
Hydrate(s) ==
  /\ Complete(s)
  /\ \E h \in {hydration[s]} :
         /\ shown' = [shown EXCEPT ![s] = ShownAfter(s, h)]
         /\ version' = [version EXCEPT ![s] = VersionAfter(h)]
         /\ read' = [read EXCEPT ![s] = ReadAfter(h)]
         /\ \E summary \in {SummaryAfter(s, h)} :
            \E view \in {MergedRun(summary, RunOf(s, h))} :
              views' = [views EXCEPT ![s] = Derived(view, Contents(s, shown'[s]))]
  /\ hydration' = [hydration EXCEPT ![s] = NONE]
  /\ UNCHANGED <<svars, written, tries, loaded, order, told, refresh, bounds>>

Signature(view) == <<StatusOf(view), view.decision>>

Told == [s \in Scans |-> IF s \in Known(order) /\ views[s] # NONE
                          THEN Signature(views[s]) ELSE told[s]]

(* Fault: the hydrations are not awaited.                                  *)
FinishEarly ==
  /\ refresh.phase = "hydrating"
  /\ told' = Told /\ refresh' = Idle
  /\ UNCHANGED <<svars, written, tries, loaded, order, views, shown, version, read,
                 hydration, bounds>>

(* syncRestNotifications, and the flag is cleared.                         *)
FinishRefresh ==
  /\ refresh.phase = "hydrating" /\ \A s \in Scans : hydration[s] = NONE
  /\ told' = Told /\ refresh' = Idle
  /\ UNCHANGED <<svars, written, tries, loaded, order, views, shown, version, read,
                 hydration, bounds>>

AnswerStep(s) == AnswerSnapshot(s) \/ AnswerEvents(s) \/ AnswerRun(s)

(* What the page and the server it asks do by themselves: a refresh is one *)
(* sequence of steps, the socket another.                                  *)
RefreshStep ==
  \/ Load \/ StartRefresh \/ AnswerLatest \/ TakeList \/ FinishRefresh
  \/ \E s \in Scans : AnswerStep(s) \/ Hydrate(s)

Next ==
  \/ Writers \/ Clock
  \/ \E s \in Scans : \/ \E here \in BOOLEAN : Emit(s, here)
                      \/ SaveRun(s) \/ RequestFails(s)
  \/ \E a \in appends : IndexEvent(a) \/ SnapshotEvent(a) \/ Broadcast(a)
  \/ Connect \/ Drop \/ Deliver \/ LatestFails
  \/ RefreshStep

Spec == Init /\ [][Next]_vars

-----------------------------------------------------------------------------
Versions(s) == 0..Len(Journal[s])
States(s)   == 0..Len(Runs[s])

Distinct(list) == \A i, j \in 1..Len(list) : list[i] = list[j] => i = j

(* A list of scans, without repetitions, that have been accepted.          *)
ListOfScans(list) ==
  list \in Seq(Scans) /\ Distinct(list) /\ \A s \in Known(list) : log[s] > 0

(* Keys of events and run states that have been written.                   *)
WrittenKeys(s) == {Real(i) : i \in 1..log[s]} \cup UNION {Stages(Runs[s][k]) : k \in 1..saved[s]}

TypeOK ==
  /\ \A s \in Scans : log[s] \in Versions(s) /\ saved[s] \in States(s)
  /\ ListOfScans(recent) /\ \A s \in Scans : snapshot[s] \in 0..log[s]
  /\ \A a \in appends : /\ a.scan \in Scans /\ a.sequence \in 1..log[a.scan]
                         /\ a.here \in BOOLEAN /\ a.step \in {"index", "snapshot", "publish"}
  /\ wire # NONE => \A m \in Known(wire) : m[1] \in Scans /\ m[2] \in 1..log[m[1]]
  /\ auditLock \in Threads \cup {NONE} /\ \A t \in Threads : call[t].code \in {0, 200, 202, 400, 409, 429, 500}
  /\ loaded \in BOOLEAN /\ tries \in 0..Attempts
  /\ ListOfScans(order)
  /\ \A s \in Scans : /\ views[s] \in Views \cup {NONE} /\ read[s] \in 0..saved[s]
                      /\ shown[s] \subseteq WrittenKeys(s)
                      /\ version[s] \in 0..log[s]
                      /\ hydration[s] # NONE => hydration[s] \in Hydrations /\ refresh.phase = "hydrating"
  /\ refresh.phase \in {"idle", "asked", "listed", "hydrating"}

(* The page forgets no event it has shown, whatever a refresh brings back  *)
(* and whatever the socket added while the refresh was under way.          *)
EventsKept == [][\A s \in Scans : shown[s] \subseteq shown'[s]]_shown

(* The page never goes back to an older state of a run, whichever order    *)
(* the answers of a refresh come in and whichever of them fail.            *)
RunsAdvance == [][\A s \in Scans : read[s] <= read'[s]]_read

(* The run of s ended with a decision, and this is what the page ought to  *)
(* make of it.                                                             *)
Last(s)      == RunAt(s, Len(Runs[s]))
Over(s)      == Len(Runs[s]) > 0 /\ saved[s] = Len(Runs[s]) /\ Last(s).decision # NONE
Verdict(s)   == StatusOf(MergedRun(Enriched(Journal[s][1], Last(s)), Last(s)))
Verdicts     == {"APPROVED", "REJECTED", "QUARANTINED", "MANUAL_REVIEW"}
Informed(s)  == Over(s) /\ views[s] # NONE /\ read[s] = Len(Runs[s])

(* The message that is delivered is about s and puts in a word of its own. *)
LateWord(s) ==
  /\ wire # NONE /\ wire # <<>> /\ wire' = Tail(wire) /\ Head(wire)[1] = s
  /\ EventStatus(Journal[s][Head(wire)[2]])
       \in {"MANUAL_REVIEW", "LICENSE_REQUIRED", "QUARANTINED"}

(* Once the page shows what a run ended with, no answer from before the    *)
(* end, no failed request and no late event takes it back, but for an      *)
(* event that says itself that the chip is to be looked at or quarantined. *)
DecidedStays ==
  [][\A s \in Scans : Informed(s) /\ StatusOf(views[s]) = Verdict(s) /\ Verdict(s) \in Verdicts
       => StatusOf(views'[s]) = Verdict(s) \/ LateWord(s)]_views

(* A chip the pipeline refused is never shown approved once the page has   *)
(* read the end of its run, and it counts as a high risk even when it was  *)
(* stopped before any risk was measured; a hold for a person does not.     *)
DenialShown ==
  [][\A s \in Scans :
       /\ hydration[s] # NONE /\ hydration'[s] = NONE /\ Over(s)
       /\ hydration[s].run = Len(Runs[s]) /\ Last(s).decision \in Quarantining \cup Refusing
       => /\ StatusOf(views'[s]) \in {"REJECTED", "QUARANTINED"}
          /\ HighRisk(views'[s])]_hydration

(* What the page has shown it does not take back, and a refusal it does    *)
(* not hide.                                                               *)
PageSteady == EventsKept /\ RunsAdvance /\ DecidedStays /\ DenialShown

-----------------------------------------------------------------------------
(* The browser runs its timers and callbacks, the server answers: a step   *)
(* of the refresh, of the socket, and of each request, is taken some time. *)
ServerFairness == \A t \in Threads : WF_pc(RequestStep(t))

Fairness ==
  /\ ServerFairness
  /\ WF_<<loaded, refresh, hydration>>(RefreshStep) /\ WF_wire(Deliver)

FairSpec == Spec /\ Fairness

Hydrated == Known(Upto(recent, HydrateLimit))

(* What a complete and current hydration of s makes of it.                 *)
Settled(s) ==
  LET run == RunAt(s, saved[s])
  IN  /\ views[s] = Derived(MergedRun(Enriched(Journal[s][Seen(s)], run), run),
                            Contents(s, shown[s]))
      /\ Stages(run) \subseteq shown[s]
      /\ told[s] = Signature(views[s])

(* An open page comes to show, and to announce, every scan it hydrates as  *)
(* its run file and its snapshot have it, although messages are lost with  *)
(* connections, the socket gives up, requests fail and other processes     *)
(* write without telling the server.  The snapshot is that of the append   *)
(* that wrote it last, which need not be the last event: of a scan without *)
(* a saved run the page may show an older status for good.                 *)
FeedSettles == <>[](loaded => \A s \in Hydrated : Settled(s))

(* "REST polling repairs missed events": every event of a scan the page    *)
(* hydrates is shown some time.                                            *)
EventsRepaired ==
  <>[](loaded => \A s \in Hydrated : {Real(i) : i \in 1..log[s]} \subseteq shown[s])

(* Every request is answered some time, whatever the disk does: there come *)
(* no more than MaxRequests, and in the end none of them waits.            *)
RequestsAnswered == <>[](\A i \in 1..requests : answered[i] # 0)
=============================================================================
