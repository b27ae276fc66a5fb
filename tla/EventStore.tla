----------------------------- MODULE EventStore ------------------------------
(***************************************************************************)
(* The JSON event store (app/storage/event_store, indexes, snapshots).     *)
(*                                                                         *)
(* Threads of the web server and command-line processes append events to   *)
(* per-scan journals under a per-scan flock, and only after that lock is   *)
(* dropped bring the four index files (one global flock) and the scan's    *)
(* snapshot file up to date.  `rebuild` runs in a process of its own,      *)
(* beside the server: it deletes the index files without a lock and        *)
(* replays what it read from the journals.                                 *)
(*                                                                         *)
(* Any call can die between two steps (an exception, a full disk, a killed *)
(* process); the kernel then drops its locks.                              *)
(*                                                                         *)
(* Definitions headed "Fault:" are plausible bugs.  Nothing uses them; each*)
(* stands before the definition it would replace, and each property of a   *)
(* run is known to notice one of them.                                     *)
(***************************************************************************)
EXTENDS HashChain, JsonLines, FiniteSets

CONSTANTS
  Writers,       \* threads and processes that append
  Rebuilders,    \* processes that run rebuild-event-store
  Scans,
  Months,        \* 1..Months are the calendar months of the model
  ShortWrites,   \* what a short os.write may leave: "fragment", "unterminated"
  LatestCap,     \* length limit of latest.json (1000 in the code)
  MaxAppends,    \* bound on appends begun; also numbers their events
  MaxRebuilds,   \* bound on rebuilds started
  MaxFaults,     \* bound on calls that die and writes that fall short
  NONE

ASSUME StoreAssumption ==
  /\ Months \in Nat \ {0} /\ LatestCap \in Nat \ {0}
  /\ MaxAppends \in Nat /\ MaxRebuilds \in Nat /\ MaxFaults \in Nat
  /\ ShortWrites \subseteq {"fragment", "unterminated"}
  /\ Writers \cap Rebuilders = {}
  /\ NONE \notin Writers \cup Rebuilders
  /\ NONE \notin Event

Procs      == Writers \cup Rebuilders
Partitions == 1..Months

VARIABLES
  \* the disk
  files,      \* files[s][m]: the journal of scan s in the partition of month m
  index,      \* the four index files
  snapshot,   \* snapshot[s]: the event projected in s.json, NONE without a file
  \* the kernel's locks
  scanLock,   \* scanLock[s]: holder of the lock file of scan s, or NONE
  indexLock,  \* holder of indexes/global.lock, or NONE
  \* the processes
  pc,         \* pc[p]: the step p takes next
  call,       \* call[p]: the arguments of the call p is in
  path,       \* path[p]: the partition p decided on
  event,      \* event[p]: the event p is storing or projecting
  buf,        \* buf[p]: the index files as p read and changed them
  cursor,     \* cursor[p]: the index file p reads, writes or deletes next
  todo,       \* todo[r]: the journals rebuild r has listed and not yet read
  queue,      \* queue[r]: events of a journal that r has still to replay
  \* the clock, and history that exists for the properties and the bounds
  month, acked, appends, rebuilds, faults,
  torn        \* scans a short write left part of a line in the journal of

disk  == <<files, index, snapshot>>
locks == <<scanLock, indexLock>>
local == <<call, path, event, buf, cursor, todo, queue>>
hist  == <<month, acked, appends, rebuilds, faults, torn>>
vars  == <<disk, locks, pc, local, hist>>

-----------------------------------------------------------------------------
Existing(s)  == {m \in Partitions : files[s][m].tail # "absent"}
AllFiles     == {f \in Scans \X Partitions : files[f[1]][f[2]].tail # "absent"}
-----------------------------------------------------------------------------
(* Index files.  A missing or unreadable file is read as its empty         *)
(* default, so deleting one is writing that default.                       *)

IndexFile  == <<"scan", "chip", "status", "latest">>
Entry      == [month : Partitions, sequence : Nat \ {0}, status : Statuses]
EmptyIndex == [scan   |-> [s \in Scans |-> NONE], chip |-> {},
               status |-> [st \in Statuses |-> {}], latest |-> <<>>]

(* There are finitely many scans, so that their number can be held against *)
(* the limit of latest.json, and no entry is taken for a missing one.      *)
ASSUME IndexAssumption == IsFiniteSet(Scans) /\ NONE \notin Entry

(* A scan is in latest.json at most once, so one entry is to be dropped.   *)
Without(latest, s) ==
  LET at == {i \in 1..Len(latest) : latest[i].scan = s}
      k  == CHOOSE i \in at : TRUE
  IN  IF at = {} THEN latest
                 ELSE SubSeq(latest, 1, k-1) \o SubSeq(latest, k+1, Len(latest))

MoveToFront(latest, s, status) ==
  LET list == <<[scan |-> s, status |-> status]>> \o Without(latest, s)
  IN  SubSeq(list, 1, IF Len(list) < LatestCap THEN Len(list) ELSE LatestCap)

Listed(lists, s, status) ==
  [st \in Statuses |-> IF st = status THEN lists[st] \cup {s} ELSE lists[st] \ {s}]

(* Fault: an entry, once there, is left as it is.                          *)
EnteredOnce(entries, s, entry) ==
  IF entries[s] = NONE THEN [entries EXCEPT ![s] = entry] ELSE entries

Entered(entries, s, entry) == [entries EXCEPT ![s] = entry]

(* What IndexBuilder.update makes of the content of each file for event e  *)
(* of scan s.  chip_index is the set of scans listed under their own chip. *)
Updated(name, old, s, m, e) ==
  CASE name = "scan"   -> Entered(old, s, [month |-> m, sequence |-> e.sequence,
                                           status |-> e.status])
    [] name = "chip"   -> old \cup {s}
    [] name = "status" -> Listed(old, s, e.status)
    [] name = "latest" -> MoveToFront(old, s, e.status)

(* Fault: no search when the index is silent.                              *)
LocatedByIndex(s) ==
  LET entry == index.scan[s]
  IN  IF entry # NONE /\ entry.month \in Existing(s) THEN {entry.month} ELSE {}

(* IndexReader.scan_path followed by exists(): the partition the index     *)
(* names, if the journal is there; else whatever rglob finds.              *)
Located(s) ==
  LET entry == index.scan[s]
  IN  IF entry # NONE /\ entry.month \in Existing(s) THEN {entry.month}
                                                     ELSE Existing(s)

(* EventReader.locate and .lines: nothing without exactly one journal,    *)
(* IntegrityError when a line or the chain is bad.                         *)
Readable(s) ==
  \E m \in Located(s) : /\ Located(s) = {m}
                        /\ Parses(files[s][m])
                        /\ VerifyChain(files[s][m].lines)

-----------------------------------------------------------------------------
NoCall == [scan |-> NONE, status |-> NONE, opening |-> FALSE, id |-> 0]

Init ==
  /\ files = [s \in Scans |-> [m \in Partitions |-> NoFile]]
  /\ index = EmptyIndex
  /\ snapshot = [s \in Scans |-> NONE]
  /\ scanLock = [s \in Scans |-> NONE] /\ indexLock = NONE
  /\ pc = [p \in Procs |-> "idle"]
  /\ call = [p \in Procs |-> NoCall]
  /\ path = [p \in Procs |-> 0]
  /\ event = [p \in Procs |-> NONE]
  /\ buf = [p \in Procs |-> EmptyIndex]
  /\ cursor = [p \in Procs |-> 0]
  /\ todo = [p \in Procs |-> {}]
  /\ queue = [p \in Procs |-> <<>>]
  /\ month = 1
  /\ acked = [s \in Scans |-> {}]
  /\ appends = 0 /\ rebuilds = 0 /\ faults = 0 /\ torn = {}

(* p leaves its call: locals go back to their defaults, locks p still      *)
(* holds are dropped by FileLock.__exit__ or by the kernel.                *)
Leave(p) ==
  /\ pc' = [pc EXCEPT ![p] = "idle"]
  /\ call' = [call EXCEPT ![p] = NoCall]
  /\ path' = [path EXCEPT ![p] = 0]
  /\ event' = [event EXCEPT ![p] = NONE]
  /\ buf' = [buf EXCEPT ![p] = EmptyIndex]
  /\ cursor' = [cursor EXCEPT ![p] = 0]
  /\ todo' = [todo EXCEPT ![p] = {}]
  /\ queue' = [queue EXCEPT ![p] = <<>>]
  /\ scanLock' = [s \in Scans |-> IF scanLock[s] = p THEN NONE ELSE scanLock[s]]
  /\ indexLock' = IF indexLock = p THEN NONE ELSE indexLock

Goto(p, from, to) == pc[p] = from /\ pc' = [pc EXCEPT ![p] = to]

-----------------------------------------------------------------------------
(* EventWriter.append, under the scan's lock.                              *)

Begin(w, s, status, opening) ==
  /\ appends < MaxAppends
  /\ Goto(w, "idle", "acquire")
  /\ appends' = appends + 1
  /\ call' = [call EXCEPT ![w] = [scan |-> s, status |-> status, opening |-> opening,
                                  id |-> appends']]
  /\ UNCHANGED <<disk, locks, path, event, buf, cursor, todo, queue,
                 month, acked, rebuilds, faults, torn>>

(* Fault: a shared lock where an exclusive one is needed.                  *)
AcquireShared(w) ==
  /\ Goto(w, "acquire", "prepare")
  /\ scanLock' = [scanLock EXCEPT ![call[w].scan] = w]
  /\ UNCHANGED <<disk, indexLock, local, hist>>

Acquire(w) ==
  /\ Goto(w, "acquire", "prepare")
  /\ scanLock[call[w].scan] = NONE
  /\ scanLock' = [scanLock EXCEPT ![call[w].scan] = w]
  /\ UNCHANGED <<disk, indexLock, local, hist>>

(* More than one journal, an opening append on a scan that has one, or a   *)
(* last line that does not parse: the call raises.                         *)
Refused(w) ==
  LET s == call[w].scan
  IN  \/ Cardinality(Located(s)) > 1
      \/ call[w].opening /\ Located(s) # {}
      \/ \E m \in Located(s) : ~Parses(files[s][m])

Refuse(w) ==
  /\ pc[w] = "prepare" /\ Refused(w)
  /\ Leave(w)
  /\ UNCHANGED <<disk, hist>>

(* Fault: the partition of the present month, whatever exists already.     *)
TargetNow(s) == month

(* The journal that exists, or else one in the present month's partition.  *)
Target(s) == IF Located(s) = {} THEN month ELSE CHOOSE x \in Located(s) : TRUE

Prepare(w) ==
  LET s == call[w].scan
      m == Target(s)
  IN  /\ Goto(w, "prepare", "open")
      /\ ~Refused(w)
      /\ path' = [path EXCEPT ![w] = m]
      /\ event' = [event EXCEPT ![w] = Seal(files[s][m].lines, call[w].id,
                                            call[w].status, call[w].opening)]
      /\ UNCHANGED <<disk, locks, call, buf, cursor, todo, queue, hist>>

(* os.open with O_CREAT: the file exists, possibly empty, from here on.    *)
Open(w) ==
  LET s == call[w].scan
      m == path[w]
  IN  /\ Goto(w, "open", "write")
      /\ files' = [files EXCEPT ![s][m] = Opened(@)]
      /\ UNCHANGED <<index, snapshot, locks, local, hist>>

(* The whole line is written and synced, and the scan lock released.       *)
Write(w) ==
  /\ Goto(w, "write", "index")
  /\ files' = [files EXCEPT ![call[w].scan][path[w]] = WriteLine(@, event[w])]
  /\ scanLock' = [scanLock EXCEPT ![call[w].scan] = NONE]
  /\ UNCHANGED <<index, snapshot, indexLock, local, hist>>

(* Fault: the count os.write returns is not looked at.                     *)
ShortWriteUnnoticed(w) ==
  /\ Goto(w, "write", "index") /\ faults < MaxFaults
  /\ \E left \in ShortWrites :
       files' = [files EXCEPT ![call[w].scan][path[w]] = WritePart(@, event[w], left)]
  /\ faults' = faults + 1
  /\ scanLock' = [scanLock EXCEPT ![call[w].scan] = NONE]
  /\ UNCHANGED <<index, snapshot, indexLock, local, month, acked, appends, rebuilds, torn>>

(* "Incomplete event journal write": what reached the file stays there.    *)
ShortWrite(w) ==
  /\ pc[w] = "write" /\ faults < MaxFaults
  /\ \E left \in ShortWrites :
       files' = [files EXCEPT ![call[w].scan][path[w]] = WritePart(@, event[w], left)]
  /\ faults' = faults + 1
  /\ torn' = torn \cup {call[w].scan}
  /\ Leave(w)
  /\ UNCHANGED <<index, snapshot, month, acked, appends, rebuilds>>

-----------------------------------------------------------------------------
(* IndexBuilder.update, called by an append and by each step of a replay.  *)

(* Fault: the lock is taken without waiting for its holder.                *)
IndexLockShared(p) ==
  /\ Goto(p, "index", "readindex")
  /\ indexLock' = p
  /\ cursor' = [cursor EXCEPT ![p] = 1]
  /\ UNCHANGED <<disk, scanLock, call, path, event, buf, todo, queue, hist>>

IndexLock(p) ==
  /\ Goto(p, "index", "readindex")
  /\ indexLock = NONE
  /\ indexLock' = p
  /\ cursor' = [cursor EXCEPT ![p] = 1]
  /\ UNCHANGED <<disk, scanLock, call, path, event, buf, todo, queue, hist>>

ReadIndex(p) ==
  LET name == IndexFile[cursor[p]]
  IN  /\ pc[p] = "readindex"
      /\ buf' = [buf EXCEPT ![p][name] = Updated(name, index[name], call[p].scan,
                                                 path[p], event[p])]
      /\ cursor' = [cursor EXCEPT ![p] = IF @ = 4 THEN 1 ELSE @ + 1]
      /\ pc' = [pc EXCEPT ![p] = IF cursor[p] = 4 THEN "writeindex" ELSE @]
      /\ UNCHANGED <<disk, locks, call, path, event, todo, queue, hist>>

(* Fault: the lock is kept until the call returns.                         *)
WriteIndexLocked(p) ==
  LET name == IndexFile[cursor[p]]
      done == cursor[p] = 4
  IN  /\ pc[p] = "writeindex"
      /\ index' = [index EXCEPT ![name] = buf[p][name]]
      /\ cursor' = [cursor EXCEPT ![p] = IF done THEN 0 ELSE @ + 1]
      /\ pc' = [pc EXCEPT ![p] = IF ~done THEN @ ELSE IF p \in Writers THEN "snapshot"
                                                                       ELSE "replay"]
      /\ UNCHANGED <<files, snapshot, locks, call, path, event, buf, todo, queue, hist>>

WriteIndex(p) ==
  LET name == IndexFile[cursor[p]]
      done == cursor[p] = 4
  IN  /\ pc[p] = "writeindex"
      /\ index' = [index EXCEPT ![name] = buf[p][name]]
      /\ cursor' = [cursor EXCEPT ![p] = IF done THEN 0 ELSE @ + 1]
      /\ buf' = IF done THEN [buf EXCEPT ![p] = EmptyIndex] ELSE buf
      /\ indexLock' = IF done THEN NONE ELSE indexLock
      /\ pc' = [pc EXCEPT ![p] = IF ~done THEN @ ELSE IF p \in Writers THEN "snapshot"
                                                                       ELSE "replay"]
      /\ UNCHANGED <<files, snapshot, scanLock, call, path, event, todo, queue, hist>>

(* SnapshotBuilder.update replaces s.json whatever it held, and the call   *)
(* returns its event.                                                      *)
WriteSnapshot(w) ==
  LET s == call[w].scan
  IN  /\ pc[w] = "snapshot"
      /\ snapshot' = [snapshot EXCEPT ![s] = event[w]]
      /\ acked' = [acked EXCEPT ![s] = @ \cup {event[w]}]
      /\ Leave(w)
      /\ UNCHANGED <<files, index, month, appends, rebuilds, faults, torn>>

-----------------------------------------------------------------------------
(* EventStoreRecovery.rebuild.                                             *)

AllValid == \A f \in AllFiles : /\ Parses(files[f[1]][f[2]])
                                /\ VerifyChain(files[f[1]][f[2]].lines)

(* An invalid journal anywhere ends the rebuild before it changes a thing. *)
StartRebuild(r) ==
  /\ rebuilds < MaxRebuilds
  /\ AllValid
  /\ Goto(r, "idle", "unlink")
  /\ cursor' = [cursor EXCEPT ![r] = 1]
  /\ rebuilds' = rebuilds + 1
  /\ UNCHANGED <<disk, locks, call, path, event, buf, todo, queue,
                 month, acked, appends, faults, torn>>

Unlink(r) ==
  LET name == IndexFile[cursor[r]]
  IN  /\ pc[r] = "unlink"
      /\ index' = [index EXCEPT ![name] = EmptyIndex[name]]
      /\ cursor' = [cursor EXCEPT ![r] = IF @ = 4 THEN 0 ELSE @ + 1]
      /\ pc' = [pc EXCEPT ![r] = IF cursor[r] = 4 THEN "list" ELSE @]
      /\ UNCHANGED <<files, snapshot, locks, call, path, event, buf, todo, queue, hist>>

(* sorted(rglob(...)) is a list made once; the directory digest makes its  *)
(* order arbitrary, so the model takes the journals in any order.          *)
List(r) ==
  /\ \/ Goto(r, "list", "pick")
     \/ Goto(r, "snaplist", "snappick")
  /\ todo' = [todo EXCEPT ![r] = AllFiles]
  /\ UNCHANGED <<disk, locks, call, path, event, buf, cursor, queue, hist>>

(* read_text() of one listed journal; NONE stands for the line that does   *)
(* not parse, before which some lines did.                                 *)
ReadJournal(r) ==
  /\ Goto(r, "pick", "replay")
  /\ \E f \in todo[r] :
       LET file == files[f[1]][f[2]]
       IN  /\ todo' = [todo EXCEPT ![r] = @ \ {f}]
           /\ call' = [call EXCEPT ![r].scan = f[1]]
           /\ path' = [path EXCEPT ![r] = f[2]]
           /\ \/ /\ Parses(file)
                 /\ queue' = [queue EXCEPT ![r] = file.lines]
              \/ /\ ~Parses(file)
                 /\ \E k \in 0..Len(file.lines) :
                      queue' = [queue EXCEPT ![r] = Append(SubSeq(file.lines, 1, k), NONE)]
  /\ UNCHANGED <<disk, locks, event, buf, cursor, hist>>

Replay(r) ==
  /\ pc[r] = "replay"
  /\ \/ /\ queue[r] = <<>>
        /\ pc' = [pc EXCEPT ![r] = IF todo[r] = {} THEN "snaplist" ELSE "pick"]
        /\ UNCHANGED <<disk, locks, local, hist>>
     \/ /\ queue[r] # <<>> /\ Head(queue[r]) # NONE
        /\ pc' = [pc EXCEPT ![r] = "index"]
        /\ event' = [event EXCEPT ![r] = Head(queue[r])]
        /\ queue' = [queue EXCEPT ![r] = Tail(@)]
        /\ UNCHANGED <<disk, locks, call, path, buf, cursor, todo, hist>>
     \/ /\ queue[r] # <<>> /\ Head(queue[r]) = NONE   \* JSONDecodeError
        /\ Leave(r)
        /\ UNCHANGED <<disk, hist>>

(* Nothing was listed: go on to the snapshots, or finish.                  *)
NothingListed(r) ==
  /\ todo[r] = {}
  /\ \/ Goto(r, "pick", "snaplist") /\ UNCHANGED <<disk, locks, local, hist>>
     \/ pc[r] = "snappick" /\ Leave(r) /\ UNCHANGED <<disk, hist>>

SnapshotRead(r) ==
  /\ pc[r] = "snappick"
  /\ \E f \in todo[r] :
       LET file == files[f[1]][f[2]]
       IN  \/ /\ ~Parses(file)
              /\ Leave(r)
              /\ UNCHANGED <<disk, hist>>
           \/ /\ Parses(file)
              /\ todo' = [todo EXCEPT ![r] = @ \ {f}]
              /\ IF file.lines = <<>>
                 THEN UNCHANGED <<pc, call, event>>
                 ELSE /\ pc' = [pc EXCEPT ![r] = "snapwrite"]
                      /\ call' = [call EXCEPT ![r].scan = f[1]]
                      /\ event' = [event EXCEPT ![r] = file.lines[Len(file.lines)]]
              /\ UNCHANGED <<disk, locks, path, buf, cursor, queue, hist>>

SnapshotWrite(r) ==
  /\ Goto(r, "snapwrite", "snappick")
  /\ snapshot' = [snapshot EXCEPT ![call[r].scan] = event[r]]
  /\ UNCHANGED <<files, index, locks, local, hist>>

-----------------------------------------------------------------------------
(* An exception, ENOSPC before a byte is written, an event over the size   *)
(* limit, or the death of the process, at any step of a call.              *)
Die(p) ==
  /\ pc[p] # "idle" /\ faults < MaxFaults
  /\ faults' = faults + 1
  /\ Leave(p)
  /\ UNCHANGED <<disk, month, acked, appends, rebuilds, torn>>

NextMonth ==
  /\ month < Months
  /\ month' = month + 1
  /\ UNCHANGED <<disk, locks, pc, local, acked, appends, rebuilds, faults, torn>>

AppendStep(w) == \/ Acquire(w) \/ Refuse(w) \/ Prepare(w) \/ Open(w) \/ Write(w)
                 \/ WriteSnapshot(w)
IndexStep(p)  == IndexLock(p) \/ ReadIndex(p) \/ WriteIndex(p)
RebuildStep(r) == \/ Unlink(r) \/ List(r) \/ ReadJournal(r) \/ Replay(r)
                  \/ NothingListed(r) \/ SnapshotRead(r) \/ SnapshotWrite(r)

Next ==
  \/ \E w \in Writers, s \in Scans, status \in Statuses, opening \in BOOLEAN :
       Begin(w, s, status, opening)
  \/ \E w \in Writers : AppendStep(w) \/ ShortWrite(w)
  \/ \E p \in Procs : IndexStep(p) \/ Die(p)
  \/ \E r \in Rebuilders : StartRebuild(r) \/ RebuildStep(r)
  \/ NextMonth

Spec == Init /\ [][Next]_vars

(* Threads keep running, and flock wakes its waiters in turn, so a waiter  *)
(* is not passed over for ever; a process has one next step at a time.     *)
Step(p)  == AppendStep(p) \/ IndexStep(p) \/ RebuildStep(p)
Fairness == \A p \in Procs : SF_vars(Step(p))

FairSpec == Spec /\ Fairness

-----------------------------------------------------------------------------
(* Type invariant.                                                         *)

PCs == {"idle", "acquire", "prepare", "open", "write", "index", "readindex",
        "writeindex", "snapshot", "unlink", "list", "pick", "replay",
        "snaplist", "snappick", "snapwrite"}
Call  == [scan : Scans \cup {NONE}, status : Statuses \cup {NONE},
          opening : BOOLEAN, id : Nat]
Item  == [scan : Scans, status : Statuses]
Index == [scan : [Scans -> Entry \cup {NONE}], chip : SUBSET Scans,
          status : [Statuses -> SUBSET Scans], latest : Seq(Item)]

(* Every variable holds a value of its kind.                               *)
TypeOK ==
  /\ files \in [Scans -> [Partitions -> [lines : Seq(Event), tail : Tail_]]]
  /\ index \in Index
  /\ snapshot \in [Scans -> Event \cup {NONE}]
  /\ scanLock \in [Scans -> Writers \cup {NONE}]
  /\ indexLock \in Procs \cup {NONE}
  /\ pc \in [Procs -> PCs]
  /\ call \in [Procs -> Call]
  /\ path \in [Procs -> Partitions \cup {0}]
  /\ event \in [Procs -> Event \cup {NONE}]
  /\ buf \in [Procs -> Index]
  /\ cursor \in [Procs -> 0..4]
  /\ todo \in [Procs -> SUBSET (Scans \X Partitions)]
  /\ queue \in [Procs -> Seq(Event \cup {NONE})]
  /\ month \in Partitions
  /\ acked \in [Scans -> SUBSET Event]
  /\ appends \in 0..MaxAppends /\ rebuilds \in 0..MaxRebuilds /\ faults \in 0..MaxFaults
  /\ torn \subseteq Scans

-----------------------------------------------------------------------------
(* Safety.                                                                 *)

Quiet == \A p \in Procs : pc[p] = "idle"

(* A scan never gets journals in two partitions, however its first appends *)
(* race each other across the turn of a month: the search for an existing  *)
(* journal and the creation of a new one are under one lock.               *)
OneJournal == \A s \in Scans : \A m, n \in Existing(s) : m = n

(* Whatever threads, crashes, short writes and rebuilds did, the events of *)
(* a journal form one chain: numbered from 1, each naming the hash of the  *)
(* event before it.                                                        *)
ChainIntact == \A s \in Scans, m \in Partitions : VerifyChain(files[s][m].lines)

(* Of all appends that insist on a new scan (reject_existing_scan), at     *)
(* most one per scan gets in, and nothing gets in before it.               *)
OpenedOnce ==
  \A s \in Scans, m \in Partitions :
    \A i \in 1..Len(files[s][m].lines) : files[s][m].lines[i].opening => i = 1

(* An event whose append returned is served to every later reader of its   *)
(* scan: the index or the search leads to one journal, all of it parses and*)
(* chains, and the event is at its position, also while a rebuild has      *)
(* deleted the index and after one died half-way.  The one exception is a  *)
(* scan whose journal a short write tore.  Nothing repairs the line, and   *)
(* when only its newline is missing the next append joins it and is        *)
(* acknowledged all the same: from then on the reader raises for the whole *)
(* journal, and what is left of the promise is that the record was written *)
(* at its place in the file the search leads to.                           *)
AckedFound ==
  \A s \in Scans : \A e \in acked[s] :
    /\ \E m \in Partitions : /\ Located(s) = {m}
                             /\ e.sequence \in 1..Len(files[s][m].lines)
                             /\ files[s][m].lines[e.sequence] = e
    /\ Readable(s) \/ s \in torn

(* A snapshot never shows an event that is not in the journal.             *)
SnapshotFaithful ==
  \A s \in Scans : snapshot[s] # NONE =>
    \E m \in Partitions : /\ snapshot[s].sequence \in 1..Len(files[s][m].lines)
                          /\ files[s][m].lines[snapshot[s].sequence] = snapshot[s]

(* Once all calls have returned and none of them died, the four index      *)
(* files tell one story about every scan that has events: it is listed     *)
(* under its chip, in exactly one status, and (while it fits) among the    *)
(* latest, with the status its scan_index entry shows.                     *)
Consistent(s) ==
  LET entry == index.scan[s]
      at    == {i \in 1..Len(index.latest) : index.latest[i].scan = s}
  IN  /\ entry # NONE
      /\ s \in index.chip
      /\ {st \in Statuses : s \in index.status[st]} = {entry.status}
      /\ Cardinality(at) <= 1
      /\ Cardinality(Scans) <= LatestCap =>
           \E i \in at : index.latest[i].status = entry.status
IndexesAgree == Quiet /\ faults = 0 =>
  \A s \in Scans : acked[s] # {} => Consistent(s)

(* The projections tell the truth: the snapshots of what is in the         *)
(* journals, the four index files the same of every scan.                  *)
ProjectionsTrue == SnapshotFaithful /\ IndexesAgree

-----------------------------------------------------------------------------
(* What holds of the projections when one thread appends, and does not     *)
(* when two do or when a rebuild runs beside the server.                   *)

Head_(s) == CHOOSE e \in UNION {{files[s][m].lines[i] : i \in 1..Len(files[s][m].lines)} :
                               m \in Partitions} :
             \A m \in Partitions : e.sequence >= Len(files[s][m].lines)

(* After the dust settles a snapshot shows the last event of its journal.  *)
SnapshotLatest == Quiet /\ faults = 0 =>
  \A s \in Scans : acked[s] # {} => snapshot[s] = Head_(s)

(* After the dust settles scan_index shows the last event of each journal. *)
IndexLatest == Quiet /\ faults = 0 =>
  \A s \in Scans : acked[s] # {} => /\ index.scan[s] # NONE
                                    /\ index.scan[s].sequence = Head_(s).sequence

-----------------------------------------------------------------------------
(* Liveness: nobody waits for ever on a lock, every call that does not die *)
(* comes back.                                                             *)
CallsReturn == \A p \in Procs : pc[p] # "idle" ~> pc[p] = "idle"

-----------------------------------------------------------------------------
(* The store implements the abstract event log.                            *)
LogOf(s) == IF Existing(s) = {} THEN <<>>
                                ELSE files[s][CHOOSE m \in Existing(s) : TRUE].lines
Log == INSTANCE EventLog WITH log <- [s \in Scans |-> LogOf(s)], acked <- acked,
                              Hashes <- 1..MaxAppends
ImplementsLog == Log!Spec
=============================================================================
