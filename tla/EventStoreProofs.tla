-------------------------- MODULE EventStoreProofs ---------------------------
(***************************************************************************)
(* Proofs about EventStore, for any number of threads, rebuilds, scans,    *)
(* months, appends and faults.                                             *)
(***************************************************************************)
EXTENDS EventStore, SequenceTheorems, TLAPS

(***************************************************************************)
(* Which locals of a process are set at which of its steps.                *)
(***************************************************************************)
LocalsOK ==
  \A p \in Procs :
    /\ pc[p] \in {"acquire", "prepare", "open", "write", "snapshot"} => p \in Writers
    /\ pc[p] \in {"acquire", "prepare", "open", "write", "index", "readindex",
                  "writeindex", "snapshot", "replay", "snapwrite"} =>
         call[p].scan \in Scans
    /\ pc[p] \in {"acquire", "prepare"} =>
         call[p].status \in Statuses /\ call[p].id \in 1..MaxAppends
    /\ pc[p] \in {"open", "write", "index", "readindex", "writeindex", "replay"} =>
         path[p] \in Partitions
    /\ pc[p] \in {"open", "write", "index", "readindex", "writeindex", "snapshot",
                  "snapwrite"} => event[p] \in Event
    /\ pc[p] \in {"readindex", "writeindex", "unlink"} => cursor[p] \in 1..4

TypeInv == TypeOK /\ LocalsOK

(* A process that gives the store up keeps the types.                      *)
LEMMA LeaveTypes ==
  ASSUME TypeInv, NEW p \in Procs, Leave(p)
  PROVE  /\ pc' \in [Procs -> PCs] /\ LocalsOK'
         /\ call' \in [Procs -> Call]
         /\ path' \in [Procs -> Partitions \cup {0}]
         /\ event' \in [Procs -> Event \cup {NONE}]
         /\ buf' \in [Procs -> Index]
         /\ cursor' \in [Procs -> 0..4]
         /\ todo' \in [Procs -> SUBSET (Scans \X Partitions)]
         /\ queue' \in [Procs -> Seq(Event \cup {NONE})]
         /\ scanLock' \in [Scans -> Writers \cup {NONE}]
         /\ indexLock' \in Procs \cup {NONE}
<1>1. EmptyIndex \in Index
  BY DEF EmptyIndex, Index
<1>2. NoCall \in Call
  BY DEF NoCall, Call
<1>3. LocalsOK'
  BY DEF LocalsOK, Leave, TypeInv, TypeOK
<1>. QED
  BY <1>1, <1>2, <1>3 DEF Leave, TypeInv, TypeOK, PCs

(* The empty store is well typed.                                          *)
LEMMA InitTypes == Init => TypeInv
<1>. SUFFICES ASSUME Init PROVE TypeInv
  OBVIOUS
<1>1. EmptyIndex \in Index
  BY DEF EmptyIndex, Index
<1>2. NoFile \in [lines : Seq(Event), tail : Tail_]
  BY DEF NoFile, Tail_
<1>3. TypeOK
  BY <1>1, <1>2, StoreAssumption DEF Init, TypeOK, NoCall, Call, PCs, Partitions
<1>4. LocalsOK
  BY DEF Init, LocalsOK
<1>. QED  BY <1>3, <1>4 DEF TypeInv

LEMMA SealType ==
  ASSUME NEW log \in Seq(Event), NEW hash \in Nat \ {0}, NEW status \in Statuses,
         NEW opening \in BOOLEAN
  PROVE  Seal(log, hash, status, opening) \in Event
<1>1. log # <<>> => log[Len(log)] \in Event
  OBVIOUS
<1>. QED
  BY <1>1 DEF Seal, NextSequence, HeadHash, Genesis, Event

LEMMA SetScanType ==
  ASSUME call \in [Procs -> Call], NEW p \in Procs, NEW s \in Scans
  PROVE  [call EXCEPT ![p].scan = s] \in [Procs -> Call]
<1>1. call[p] \in Call
  OBVIOUS
<1>2. [call[p] EXCEPT !.scan = s] \in Call
  BY <1>1 DEF Call
<1>. QED  BY <1>2

LEMMA WriteTypes ==
  ASSUME NEW file \in [lines : Seq(Event), tail : Tail_], NEW e \in Event,
         NEW left \in {"fragment", "unterminated"}
  PROVE  /\ WriteLine(file, e) \in [lines : Seq(Event), tail : Tail_]
         /\ WritePart(file, e, left) \in [lines : Seq(Event), tail : Tail_]
  BY DEF WriteLine, WritePart, Tail_

LEMMA LocatedTypes ==
  ASSUME TypeOK, NEW s \in Scans
  PROVE  /\ Located(s) \subseteq Existing(s)
         /\ Existing(s) \subseteq Partitions
         /\ (Located(s) = {}) <=> (Existing(s) = {})
  BY DEF Located, Existing

(* MoveToFront returns a list of the same kind of items.                   *)
LEMMA MoveToFrontType ==
  ASSUME StoreAssumption, NEW latest \in Seq(Item), NEW s \in Scans, NEW status \in Statuses
  PROVE  MoveToFront(latest, s, status) \in Seq(Item)
<1>. DEFINE at   == {i \in 1..Len(latest) : latest[i].scan = s}
            k    == CHOOSE i \in at : TRUE
            rest == Without(latest, s)
            list == <<[scan |-> s, status |-> status]>> \o rest
            n    == IF Len(list) < LatestCap THEN Len(list) ELSE LatestCap
<1>1. rest \in Seq(Item)
  <2>1. CASE at = {}
    BY <2>1 DEF Without
  <2>2. CASE at # {}
    <3>1. k \in 1..Len(latest)
      BY <2>2
    <3>. HIDE DEF k
    <3>2. SubSeq(latest, 1, k-1) \in Seq(Item)
      <4>1. \A i \in 1..(k-1) : latest[i] \in Item
        BY <3>1
      <4>. QED  BY <3>1, <4>1, SubSeqProperties, 1 \in Int, k-1 \in Int
    <3>3. SubSeq(latest, k+1, Len(latest)) \in Seq(Item)
      <4>1. \A i \in (k+1)..Len(latest) : latest[i] \in Item
        BY <3>1
      <4>. QED  BY <3>1, <4>1, SubSeqProperties, k+1 \in Int, Len(latest) \in Int
    <3>4. rest = SubSeq(latest, 1, k-1) \o SubSeq(latest, k+1, Len(latest))
      BY <2>2 DEF Without, k
    <3>. HIDE DEF rest
    <3>. QED  BY <3>2, <3>3, <3>4
  <2>. QED  BY <2>1, <2>2
<1>. HIDE DEF rest
<1>2. list \in Seq(Item)
  BY <1>1 DEF Item
<1>3. n \in Nat /\ n <= Len(list)
  BY <1>2, StoreAssumption
<1>. HIDE DEF list, n
<1>4. \A i \in 1..n : list[i] \in Item
  BY <1>2, <1>3
<1>5. SubSeq(list, 1, n) \in Seq(Item)
  BY <1>3, <1>4, SubSeqProperties
<1>6. MoveToFront(latest, s, status) = SubSeq(list, 1, n)
  BY DEF MoveToFront, list, n, rest
<1>. QED
  BY <1>5, <1>6

(* An index file read and updated is written back into a record of files.  *)
LEMMA IndexTypes ==
  ASSUME NEW idx \in Index, NEW old \in Index, NEW s \in Scans, NEW m \in Partitions,
         NEW e \in Event, NEW c \in 1..4
  PROVE  LET name == IndexFile[c]
         IN  /\ [idx EXCEPT ![name] = Updated(name, old[name], s, m, e)] \in Index
             /\ [idx EXCEPT ![name] = old[name]] \in Index
<1>1. CASE c = 1
  <2>1. IndexFile[c] = "scan"
    BY <1>1 DEF IndexFile
  <2>2. Updated("scan", old.scan, s, m, e) \in [Scans -> Entry \cup {NONE}]
    BY DEF Updated, Entered, Index, Entry, Event
  <2>. QED  BY <2>1, <2>2 DEF Index
<1>2. CASE c = 2
  <2>1. IndexFile[c] = "chip"
    BY <1>2 DEF IndexFile
  <2>2. Updated("chip", old.chip, s, m, e) \in SUBSET Scans
    BY DEF Updated, Index
  <2>. QED  BY <2>1, <2>2 DEF Index
<1>3. CASE c = 3
  <2>1. IndexFile[c] = "status"
    BY <1>3 DEF IndexFile
  <2>2. Updated("status", old.status, s, m, e) \in [Statuses -> SUBSET Scans]
    BY DEF Updated, Listed, Index
  <2>. QED  BY <2>1, <2>2 DEF Index
<1>4. CASE c = 4
  <2>1. IndexFile[c] = "latest"
    BY <1>4 DEF IndexFile
  <2>2. Updated("latest", old.latest, s, m, e) = MoveToFront(old.latest, s, e.status)
    BY DEF Updated
  <2>3. Updated("latest", old.latest, s, m, e) \in Seq(Item)
    BY <2>2, StoreAssumption, MoveToFrontType DEF Index, Event
  <2>. QED  BY <2>1, <2>3 DEF Index
<1>. QED  BY <1>1, <1>2, <1>3, <1>4

(* Every step keeps the types.                                             *)
LEMMA StepTypes == TypeInv /\ [Next]_vars => TypeInv'
<1>. SUFFICES ASSUME TypeInv, [Next]_vars PROVE TypeInv'
  OBVIOUS
<1>. USE StoreAssumption
<1>. USE DEF TypeInv, disk, locks, local, hist
<1>1. ASSUME NEW w \in Writers, NEW s \in Scans, NEW status \in Statuses,
             NEW opening \in BOOLEAN, Begin(w, s, status, opening)
      PROVE  TypeInv'
  <2>1. TypeOK'
    BY <1>1 DEF Begin, Goto, TypeOK, Call, PCs, Procs
  <2>2. LocalsOK'
    BY <1>1 DEF Begin, Goto, TypeOK, LocalsOK, Call, Procs
  <2>. QED  BY <2>1, <2>2
<1>2. ASSUME NEW w \in Writers, Acquire(w)
      PROVE  TypeInv'
  <2>1. TypeOK'
    BY <1>2 DEF Acquire, Goto, TypeOK, PCs, Procs
  <2>2. LocalsOK'
    BY <1>2 DEF Acquire, Goto, TypeOK, LocalsOK, Procs
  <2>. QED  BY <2>1, <2>2
<1>3. ASSUME NEW w \in Writers, Refuse(w)
      PROVE  TypeInv'
  BY <1>3, LeaveTypes DEF Refuse, TypeOK, Procs
<1>4. ASSUME NEW w \in Writers, Prepare(w)
      PROVE  TypeInv'
  <2>. DEFINE s == call[w].scan
              m == Target(s)
              e == Seal(files[s][m].lines, call[w].id, call[w].status, call[w].opening)
  <2>1. s \in Scans /\ call[w].status \in Statuses /\ call[w].id \in Nat \ {0}
    BY <1>4 DEF Prepare, Goto, LocalsOK, TypeOK, Procs
  <2>2. m \in Partitions
    BY <2>1, LocatedTypes DEF TypeOK, Target
  <2>3. files[s][m].lines \in Seq(Event)
    <3>. HIDE DEF m
    <3>. QED  BY <2>1, <2>2 DEF TypeOK
  <2>4. call[w].opening \in BOOLEAN
    BY DEF TypeOK, Call, Procs
  <2>5. e \in Event
    BY <2>1, <2>3, <2>4, SealType
  <2>6. path' = [path EXCEPT ![w] = m] /\ event' = [event EXCEPT ![w] = e]
    BY <1>4 DEF Prepare
  <2>. HIDE DEF m, e
  <2>7. TypeOK'
    <3>1. /\ path' \in [Procs -> Partitions \cup {0}]
          /\ event' \in [Procs -> Event \cup {NONE}]
      BY <2>2, <2>5, <2>6 DEF TypeOK
    <3>. QED  BY <1>4, <3>1 DEF Prepare, Goto, TypeOK, PCs, Procs
  <2>8. LocalsOK'
    BY <1>4, <2>1, <2>2, <2>5, <2>6 DEF Prepare, Goto, TypeOK, LocalsOK, Procs
  <2>. QED  BY <2>7, <2>8
<1>5. ASSUME NEW w \in Writers, Open(w)
      PROVE  TypeInv'
  <2>1. EmptyFile \in [lines : Seq(Event), tail : Tail_]
    BY DEF EmptyFile, Tail_
  <2>2. call[w].scan \in Scans /\ path[w] \in Partitions
    BY <1>5 DEF Open, Goto, LocalsOK, Procs
  <2>3. files' \in [Scans -> [Partitions -> [lines : Seq(Event), tail : Tail_]]]
    BY <1>5, <2>1, <2>2 DEF Open, Opened, TypeOK
  <2>4. TypeOK'
    BY <1>5, <2>3 DEF Open, Goto, TypeOK, PCs, Procs
  <2>5. LocalsOK'
    BY <1>5 DEF Open, Goto, TypeOK, LocalsOK, Procs
  <2>. QED  BY <2>4, <2>5
<1>6. ASSUME NEW w \in Writers, Write(w)
      PROVE  TypeInv'
  <2>1. event[w] \in Event /\ call[w].scan \in Scans /\ path[w] \in Partitions
    BY <1>6 DEF Write, Goto, LocalsOK, Procs
  <2>2. files[call[w].scan][path[w]] \in [lines : Seq(Event), tail : Tail_]
    BY <2>1 DEF TypeOK
  <2>3. WriteLine(files[call[w].scan][path[w]], event[w]) \in [lines : Seq(Event), tail : Tail_]
    BY <2>1, <2>2, WriteTypes
  <2>4. TypeOK'
    BY <1>6, <2>3 DEF Write, Goto, TypeOK, PCs, Procs
  <2>5. LocalsOK'
    BY <1>6 DEF Write, Goto, TypeOK, LocalsOK, Procs
  <2>. QED  BY <2>4, <2>5
<1>7. ASSUME NEW w \in Writers, ShortWrite(w)
      PROVE  TypeInv'
  <2>1. event[w] \in Event /\ call[w].scan \in Scans /\ path[w] \in Partitions
    BY <1>7 DEF ShortWrite, LocalsOK, Procs
  <2>2. files[call[w].scan][path[w]] \in [lines : Seq(Event), tail : Tail_]
    BY <2>1 DEF TypeOK
  <2>3. \A left \in ShortWrites :
          WritePart(files[call[w].scan][path[w]], event[w], left)
            \in [lines : Seq(Event), tail : Tail_]
    BY <2>1, <2>2, WriteTypes
  <2>4. PICK left \in ShortWrites :
          files' = [files EXCEPT ![call[w].scan][path[w]] = WritePart(@, event[w], left)]
    BY <1>7 DEF ShortWrite
  <2>5. files' \in [Scans -> [Partitions -> [lines : Seq(Event), tail : Tail_]]]
    BY <2>1, <2>3, <2>4 DEF TypeOK
  <2>6. Leave(w) /\ faults < MaxFaults /\ faults' = faults + 1
        /\ torn' = torn \cup {call[w].scan}
        /\ UNCHANGED <<index, snapshot, month, acked, appends, rebuilds>>
    BY <1>7 DEF ShortWrite
  <2>7. w \in Procs /\ faults' \in 0..MaxFaults
    BY <2>6 DEF Procs, TypeOK
  <2>8. torn' \subseteq Scans
    BY <2>1, <2>6 DEF TypeOK
  <2>. QED  BY <2>5, <2>6, <2>7, <2>8, LeaveTypes DEF TypeOK
<1>8. ASSUME NEW w \in Writers, WriteSnapshot(w)
      PROVE  TypeInv'
  <2>1. event[w] \in Event /\ call[w].scan \in Scans
    BY <1>8 DEF WriteSnapshot, LocalsOK, Procs
  <2>2. acked' \in [Scans -> SUBSET Event] /\ snapshot' \in [Scans -> Event \cup {NONE}]
    BY <1>8, <2>1 DEF WriteSnapshot, TypeOK
  <2>. QED  BY <1>8, <2>2, LeaveTypes DEF WriteSnapshot, TypeOK, Procs
<1>9. ASSUME NEW p \in Procs, IndexLock(p)
      PROVE  TypeInv'
  <2>1. TypeOK'
    BY <1>9 DEF IndexLock, Goto, TypeOK, PCs
  <2>2. LocalsOK'
    BY <1>9 DEF IndexLock, Goto, TypeOK, LocalsOK
  <2>. QED  BY <2>1, <2>2
<1>10. ASSUME NEW p \in Procs, ReadIndex(p)
       PROVE  TypeInv'
  <2>1. /\ event[p] \in Event /\ call[p].scan \in Scans /\ path[p] \in Partitions
        /\ cursor[p] \in 1..4 /\ buf[p] \in Index /\ index \in Index
    BY <1>10 DEF ReadIndex, LocalsOK, TypeOK
  <2>2. buf' \in [Procs -> Index]
    <3>. DEFINE name == IndexFile[cursor[p]]
                new  == [buf[p] EXCEPT ![name] = Updated(name, index[name], call[p].scan,
                                                         path[p], event[p])]
    <3>1. new \in Index
      BY <2>1, IndexTypes
    <3>2. buf' = [buf EXCEPT ![p] = new]
      BY <1>10 DEF ReadIndex
    <3>. QED  BY <3>1, <3>2 DEF TypeOK
  <2>3. cursor' \in [Procs -> 0..4] /\ cursor'[p] \in 1..4
    BY <1>10, <2>1 DEF ReadIndex, TypeOK
  <2>4. TypeOK'
    BY <1>10, <2>2, <2>3 DEF ReadIndex, TypeOK, PCs
  <2>5. LocalsOK'
    BY <1>10, <2>1, <2>3 DEF ReadIndex, TypeOK, LocalsOK
  <2>. QED  BY <2>4, <2>5
<1>11. ASSUME NEW p \in Procs, WriteIndex(p)
       PROVE  TypeInv'
  <2>1. /\ event[p] \in Event /\ call[p].scan \in Scans
        /\ cursor[p] \in 1..4 /\ buf[p] \in Index /\ index \in Index
    BY <1>11 DEF WriteIndex, LocalsOK, TypeOK
  <2>2. index' \in Index
    <3>. DEFINE name == IndexFile[cursor[p]]
    <3>1. PICK s \in Scans : s = call[p].scan
      BY <2>1
    <3>2. 1 \in Partitions
      BY DEF Partitions
    <3>3. [index EXCEPT ![name] = buf[p][name]] \in Index
      BY <2>1, <3>2, IndexTypes
    <3>4. index' = [index EXCEPT ![name] = buf[p][name]]
      BY <1>11 DEF WriteIndex
    <3>. QED  BY <3>3, <3>4
  <2>3. cursor' \in [Procs -> 0..4] /\ (cursor[p] # 4 => cursor'[p] \in 1..4)
    BY <1>11, <2>1 DEF WriteIndex, TypeOK
  <2>4. EmptyIndex \in Index
    BY DEF EmptyIndex, Index
  <2>5. TypeOK'
    BY <1>11, <2>2, <2>3, <2>4 DEF WriteIndex, TypeOK, PCs
  <2>6. LocalsOK'
    <3>1. path[p] \in Partitions /\ pc' = [pc EXCEPT ![p] = pc'[p]]
          /\ \/ pc'[p] = "writeindex" /\ cursor'[p] \in 1..4
             \/ pc'[p] = "snapshot" /\ p \in Writers
             \/ pc'[p] = "replay"
      BY <1>11, <2>3 DEF WriteIndex, TypeOK, LocalsOK
    <3>2. /\ UNCHANGED <<call, path, event>>
          /\ \A q \in Procs \ {p} : cursor'[q] = cursor[q] /\ pc'[q] = pc[q]
      BY <1>11, <3>1 DEF WriteIndex, TypeOK
    <3>. QED  BY <2>1, <3>1, <3>2 DEF LocalsOK
  <2>. QED  BY <2>5, <2>6
<1>12. ASSUME NEW p \in Procs, Die(p)
       PROVE  TypeInv'
  <2>1. faults' \in 0..MaxFaults
    BY <1>12 DEF Die, TypeOK
  <2>. QED  BY <1>12, <2>1, LeaveTypes DEF Die, TypeOK
<1>13. ASSUME NEW r \in Rebuilders, StartRebuild(r)
       PROVE  TypeInv'
  <2>1. TypeOK'
    BY <1>13 DEF StartRebuild, Goto, TypeOK, PCs, Procs
  <2>2. LocalsOK'
    BY <1>13 DEF StartRebuild, Goto, TypeOK, LocalsOK, Procs
  <2>. QED  BY <2>1, <2>2
<1>14. ASSUME NEW r \in Rebuilders, Unlink(r)
       PROVE  TypeInv'
  <2>1. cursor[r] \in 1..4 /\ EmptyIndex \in Index /\ index \in Index
    BY <1>14 DEF Unlink, LocalsOK, TypeOK, Procs, EmptyIndex, Index
  <2>2. index' \in Index
    <3>1. IndexFile[cursor[r]] \in {"scan", "chip", "status", "latest"}
      BY <2>1 DEF IndexFile
    <3>. QED  BY <1>14, <2>1, <3>1 DEF Unlink, Index
  <2>3. cursor' \in [Procs -> 0..4] /\ (cursor[r] # 4 => cursor'[r] \in 1..4)
    BY <1>14, <2>1 DEF Unlink, TypeOK, Procs
  <2>4. TypeOK'
    BY <1>14, <2>2, <2>3 DEF Unlink, TypeOK, PCs
  <2>5. LocalsOK'
    BY <1>14, <2>1, <2>3 DEF Unlink, TypeOK, LocalsOK, Procs
  <2>. QED  BY <2>4, <2>5
<1>15. ASSUME NEW r \in Rebuilders, List(r)
       PROVE  TypeInv'
  <2>1. AllFiles \in SUBSET (Scans \X Partitions)
    BY DEF AllFiles
  <2>2. TypeOK'
    BY <1>15, <2>1 DEF List, Goto, TypeOK, PCs
  <2>3. LocalsOK'
    BY <1>15 DEF List, Goto, TypeOK, LocalsOK, Procs
  <2>. QED  BY <2>2, <2>3
<1>16. ASSUME NEW r \in Rebuilders, ReadJournal(r)
       PROVE  TypeInv'
  <2>1. PICK f \in todo[r] :
          LET file == files[f[1]][f[2]]
          IN  /\ todo' = [todo EXCEPT ![r] = @ \ {f}]
              /\ call' = [call EXCEPT ![r].scan = f[1]]
              /\ path' = [path EXCEPT ![r] = f[2]]
              /\ \/ queue' = [queue EXCEPT ![r] = file.lines]
                 \/ \E k \in 0..Len(file.lines) :
                      queue' = [queue EXCEPT ![r] = Append(SubSeq(file.lines, 1, k), NONE)]
    BY <1>16 DEF ReadJournal
  <2>2. f[1] \in Scans /\ f[2] \in Partitions
    BY DEF TypeOK, Procs
  <2>3. files[f[1]][f[2]].lines \in Seq(Event)
    BY <2>2 DEF TypeOK
  <2>4. /\ files[f[1]][f[2]].lines \in Seq(Event \cup {NONE})
        /\ \A k \in 0..Len(files[f[1]][f[2]].lines) :
             Append(SubSeq(files[f[1]][f[2]].lines, 1, k), NONE) \in Seq(Event \cup {NONE})
    BY <2>3
  <2>5. queue' \in [Procs -> Seq(Event \cup {NONE})]
    <3>1. PICK q \in Seq(Event \cup {NONE}) : queue' = [queue EXCEPT ![r] = q]
      BY <2>1, <2>4, Zenon
    <3>. QED  BY <3>1 DEF TypeOK
  <2>6. /\ \A q \in Procs \ {r} : call'[q] = call[q] /\ path'[q] = path[q]
        /\ call'[r] = [call[r] EXCEPT !.scan = f[1]] /\ path'[r] = f[2]
        /\ DOMAIN call' = Procs /\ DOMAIN path' = Procs
    BY <2>1 DEF TypeOK, Procs
  <2>7. call' \in [Procs -> Call]
    BY <2>1, <2>2, SetScanType DEF TypeOK, Procs
  <2>8. path' \in [Procs -> Partitions \cup {0}]
    BY <2>1, <2>2 DEF TypeOK
  <2>9. todo' \in [Procs -> SUBSET (Scans \X Partitions)]
    BY <2>1 DEF TypeOK
  <2>10. TypeOK'
    BY <1>16, <2>5, <2>7, <2>8, <2>9 DEF ReadJournal, Goto, TypeOK, PCs
  <2>11. call'[r].scan \in Scans /\ path'[r] \in Partitions
    BY <2>2, <2>6 DEF TypeOK, Call, Procs
  <2>12. LocalsOK'
    BY <1>16, <2>6, <2>11 DEF ReadJournal, Goto, TypeOK, LocalsOK, Procs
  <2>. QED  BY <2>10, <2>12
<1>17. ASSUME NEW r \in Rebuilders, Replay(r)
       PROVE  TypeInv'
  <2>1. CASE queue[r] = <<>>
    <3>1. TypeOK'
      BY <1>17, <2>1, ZenonT(60) DEF Replay, TypeOK, PCs
    <3>2. /\ \/ pc' = [pc EXCEPT ![r] = "snaplist"]
             \/ pc' = [pc EXCEPT ![r] = "pick"]
          /\ UNCHANGED <<call, path, event, cursor>>
      BY <1>17, <2>1 DEF Replay
    <3>3. LocalsOK'
      BY <3>2 DEF TypeOK, LocalsOK, Procs
    <3>. QED  BY <3>1, <3>3
  <2>2. CASE queue[r] # <<>> /\ Head(queue[r]) # NONE
    <3>1. Head(queue[r]) \in Event /\ Tail(queue[r]) \in Seq(Event \cup {NONE})
      BY <2>2 DEF TypeOK, Procs
    <3>2. /\ pc[r] = "replay" /\ pc' = [pc EXCEPT ![r] = "index"]
          /\ event' = [event EXCEPT ![r] = Head(queue[r])]
          /\ queue' = [queue EXCEPT ![r] = Tail(@)]
          /\ UNCHANGED <<disk, locks, call, path, buf, cursor, todo, hist>>
      BY <1>17, <2>2 DEF Replay
    <3>3. queue' \in [Procs -> Seq(Event \cup {NONE})]
          /\ event' \in [Procs -> Event \cup {NONE}]
      BY <3>1, <3>2 DEF TypeOK, Procs
    <3>4. TypeOK'
      BY <3>2, <3>3 DEF TypeOK, PCs
    <3>5. LocalsOK'
      BY <3>1, <3>2 DEF TypeOK, LocalsOK, Procs
    <3>. QED  BY <3>4, <3>5
  <2>3. CASE queue[r] # <<>> /\ Head(queue[r]) = NONE
    BY <1>17, <2>3, LeaveTypes DEF Replay, TypeOK, Procs
  <2>. QED  BY <2>1, <2>2, <2>3
<1>18. ASSUME NEW r \in Rebuilders, NothingListed(r)
       PROVE  TypeInv'
  <2>1. CASE pc[r] = "pick"
    <3>1. TypeOK'
      BY <1>18, <2>1, ZenonT(60) DEF NothingListed, Goto, TypeOK, PCs
    <3>2. LocalsOK'
      BY <1>18, <2>1 DEF NothingListed, Goto, TypeOK, LocalsOK, Procs
    <3>. QED  BY <3>1, <3>2
  <2>2. CASE pc[r] = "snappick"
    BY <1>18, <2>2, LeaveTypes DEF NothingListed, Goto, TypeOK, Procs
  <2>. QED  BY <1>18, <2>1, <2>2 DEF NothingListed, Goto
<1>19. ASSUME NEW r \in Rebuilders, SnapshotRead(r)
       PROVE  TypeInv'
  <2>1. CASE Leave(r) /\ UNCHANGED <<disk, hist>>
    BY <2>1, LeaveTypes DEF TypeOK, Procs
  <2>2. CASE ~(Leave(r) /\ UNCHANGED <<disk, hist>>)
    <3>1. PICK f \in todo[r] :
            /\ todo' = [todo EXCEPT ![r] = @ \ {f}]
            /\ IF files[f[1]][f[2]].lines = <<>>
               THEN UNCHANGED <<pc, call, event>>
               ELSE /\ pc' = [pc EXCEPT ![r] = "snapwrite"]
                    /\ call' = [call EXCEPT ![r].scan = f[1]]
                    /\ event' = [event EXCEPT ![r] =
                                   files[f[1]][f[2]].lines[Len(files[f[1]][f[2]].lines)]]
            /\ UNCHANGED <<disk, locks, path, buf, cursor, queue, hist>>
      BY <1>19, <2>2 DEF SnapshotRead
    <3>2. f[1] \in Scans /\ f[2] \in Partitions
      BY DEF TypeOK, Procs
    <3>3. files[f[1]][f[2]].lines \in Seq(Event)
      BY <3>2 DEF TypeOK
    <3>4. files[f[1]][f[2]].lines # <<>> =>
            files[f[1]][f[2]].lines[Len(files[f[1]][f[2]].lines)] \in Event
      BY <3>3
    <3>5. todo' \in [Procs -> SUBSET (Scans \X Partitions)]
      BY <3>1 DEF TypeOK
    <3>6. CASE files[f[1]][f[2]].lines = <<>>
      BY <3>1, <3>5, <3>6 DEF TypeOK, LocalsOK
    <3>7. CASE files[f[1]][f[2]].lines # <<>>
      <4>1. PICK e \in Event : event' = [event EXCEPT ![r] = e]
        BY <3>1, <3>4, <3>7
      <4>2. event' \in [Procs -> Event \cup {NONE}]
        BY <4>1 DEF TypeOK
      <4>3. call' \in [Procs -> Call]
        <5>1. r \in Procs /\ call \in [Procs -> Call]
          BY DEF Procs, TypeOK
        <5>2. call' = [call EXCEPT ![r].scan = f[1]]
          BY <3>1, <3>7
        <5>. QED  BY <3>2, <5>1, <5>2, SetScanType
      <4>4. TypeOK'
        BY <3>1, <3>5, <3>7, <4>2, <4>3, ZenonT(60) DEF TypeOK, PCs
      <4>5. /\ call'[r].scan \in Scans /\ event'[r] \in Event
            /\ \A q \in Procs \ {r} : call'[q] = call[q] /\ event'[q] = event[q]
                                      /\ pc'[q] = pc[q]
            /\ pc'[r] = "snapwrite"
        BY <3>1, <3>2, <3>7, <4>1, SMTT(60) DEF TypeOK, Call, Procs
      <4>6. LocalsOK'
        BY <3>1, <4>5 DEF LocalsOK
      <4>. QED  BY <4>4, <4>6
    <3>. QED  BY <3>6, <3>7
  <2>. QED  BY <2>1, <2>2
<1>20. ASSUME NEW r \in Rebuilders, SnapshotWrite(r)
       PROVE  TypeInv'
  <2>1. event[r] \in Event /\ call[r].scan \in Scans
    BY <1>20 DEF SnapshotWrite, Goto, LocalsOK, Procs
  <2>2. TypeOK'
    BY <1>20, <2>1 DEF SnapshotWrite, Goto, TypeOK, PCs
  <2>3. LocalsOK'
    BY <1>20 DEF SnapshotWrite, Goto, TypeOK, LocalsOK, Procs
  <2>. QED  BY <2>2, <2>3
<1>21. CASE NextMonth
  <2>1. TypeOK'
    BY <1>21 DEF NextMonth, TypeOK, Partitions
  <2>2. LocalsOK'
    BY <1>21 DEF NextMonth, LocalsOK
  <2>. QED  BY <2>1, <2>2
<1>22. CASE UNCHANGED vars
  BY <1>22 DEF vars, TypeOK, LocalsOK
<1>. QED
  BY <1>1, <1>2, <1>3, <1>4, <1>5, <1>6, <1>7, <1>8, <1>9, <1>10, <1>11, <1>12, <1>13,
     <1>14, <1>15, <1>16, <1>17, <1>18, <1>19, <1>20, <1>21, <1>22
     DEF Next, AppendStep, IndexStep, RebuildStep

(* Type correctness: every variable keeps its type, whatever the sets of   *)
(* threads, rebuilds and scans and whatever the bounds.                    *)
THEOREM TypeCorrect == Spec => []TypeOK
<1>1. TypeInv => TypeOK
  BY DEF TypeInv
<1>. QED  BY InitTypes, StepTypes, <1>1, PTL DEF Spec

-----------------------------------------------------------------------------
(***************************************************************************)
(* Journals.  ChainIntact is not inductive: that an append finds its event *)
(* still fitting when it writes rests on the scan lock, so the invariant   *)
(* says who holds it (LockOK) and what a thread that has prepared its      *)
(* event may rely on (PreparedOK).                                         *)
(***************************************************************************)
Critical == {"prepare", "open", "write"}

FilesOK == \A s \in Scans, m \in Partitions :
             files[s][m].tail = "absent" => files[s][m].lines = <<>>

LockOK == \A w \in Writers : pc[w] \in Critical => scanLock[call[w].scan] = w

Prepared(w) ==
  LET s   == call[w].scan
      log == files[s][path[w]].lines
  IN  /\ Existing(s) \subseteq {path[w]}
      /\ pc[w] = "write" => path[w] \in Existing(s)
      /\ event[w].sequence = NextSequence(log)
      /\ event[w].previous = HeadHash(log)
      /\ event[w].opening => log = <<>>
PreparedOK == \A w \in Writers : pc[w] \in {"open", "write"} => Prepared(w)

JournalInv == FilesOK /\ LockOK /\ PreparedOK /\ OneJournal /\ ChainIntact /\ OpenedOnce

(* What appending does to the positions of a sequence.                     *)
LEMMA AppendFacts ==
  ASSUME NEW S, NEW log \in Seq(S), NEW e \in S
  PROVE  /\ Len(log) \in Nat
         /\ Len(Append(log, e)) = Len(log) + 1
         /\ Append(log, e)[Len(log) + 1] = e
         /\ \A i \in 1..Len(log) : Append(log, e)[i] = log[i]
         /\ log = <<>> <=> Len(log) = 0
  OBVIOUS

(* Only the first event of a chain may be an opening one, and an opening   *)
(* event is only ever appended to an empty chain.                          *)
LEMMA OpeningExtends ==
  ASSUME NEW log \in Seq(Event), NEW e \in Event, e.opening => log = <<>>,
         \A i \in 1..Len(log) : log[i].opening => i = 1
  PROVE  \A i \in 1..Len(Append(log, e)) : Append(log, e)[i].opening => i = 1
<1>. DEFINE new == Append(log, e)
<1>1. /\ Len(log) \in Nat /\ Len(new) = Len(log) + 1 /\ new[Len(log) + 1] = e
      /\ \A i \in 1..Len(log) : new[i] = log[i]
      /\ log = <<>> <=> Len(log) = 0
  BY AppendFacts
<1>. HIDE DEF new
<1>2. ASSUME NEW i \in 1..Len(new), new[i].opening
      PROVE  i = 1
  <2>1. CASE i \in 1..Len(log)
    BY <1>1, <1>2, <2>1
  <2>2. CASE i = Len(log) + 1
    <3>1. e.opening
      BY <1>1, <1>2, <2>2
    <3>2. Len(log) = 0
      BY <1>1, <3>1
    <3>. QED  BY <2>2, <3>2
  <2>. QED  BY <1>1, <2>1, <2>2
<1>. QED  BY <1>2 DEF new

(* An event that fits the end of a chain extends it.                       *)
LEMMA ChainExtends ==
  ASSUME NEW log \in Seq(Event), VerifyChain(log), NEW e \in Event,
         e.sequence = NextSequence(log), e.previous = HeadHash(log)
  PROVE  VerifyChain(Append(log, e))
<1>. DEFINE new == Append(log, e)
<1>1. Len(new) = Len(log) + 1 /\ new[Len(log) + 1] = e
      /\ \A i \in 1..Len(log) : new[i] = log[i]
  OBVIOUS
<1>2. e.sequence = Len(log) + 1
  BY DEF NextSequence, VerifyChain
<1>3. e.previous = IF Len(log) = 0 THEN Genesis ELSE log[Len(log)].hash
  BY DEF HeadHash
<1>. HIDE DEF new
<1>4. ASSUME NEW i \in 1..Len(new)
      PROVE  /\ new[i].sequence = i
             /\ new[i].previous = IF i = 1 THEN Genesis ELSE new[i-1].hash
  <2>1. CASE i = Len(log) + 1
    BY <1>1, <1>2, <1>3, <2>1
  <2>2. CASE i \in 1..Len(log)
    <3>1. new[i] = log[i] /\ (i # 1 => i-1 \in 1..Len(log) /\ new[i-1] = log[i-1])
      BY <1>1, <2>2
    <3>. QED  BY <2>2, <3>1 DEF VerifyChain
  <2>. QED  BY <1>1, <2>1, <2>2
<1>. QED  BY <1>4 DEF VerifyChain, new

(* A step that leaves the journals alone and lets nobody into a critical   *)
(* section keeps the invariant.                                            *)
LEMMA JournalFrame ==
  ASSUME TypeInv, JournalInv, UNCHANGED files,
         \A w \in Writers : pc'[w] \in Critical =>
           /\ pc'[w] = pc[w] /\ call'[w].scan = call[w].scan
           /\ path'[w] = path[w] /\ event'[w] = event[w]
           /\ scanLock'[call[w].scan] = scanLock[call[w].scan]
  PROVE  JournalInv'
<1>1. FilesOK' /\ OneJournal' /\ ChainIntact' /\ OpenedOnce'
  BY DEF JournalInv, FilesOK, OneJournal, ChainIntact, OpenedOnce, Existing
<1>2. LockOK'
  BY DEF JournalInv, LockOK
<1>3. PreparedOK'
  BY DEF JournalInv, PreparedOK, Prepared, Existing, Critical
<1>. QED  BY <1>1, <1>2, <1>3 DEF JournalInv

LEMMA LeaveFrame ==
  ASSUME TypeInv, JournalInv, NEW p \in Procs, Leave(p), UNCHANGED files
  PROVE  JournalInv'
<1>1. ASSUME NEW w \in Writers, pc'[w] \in Critical
      PROVE  /\ pc'[w] = pc[w] /\ call'[w].scan = call[w].scan
             /\ path'[w] = path[w] /\ event'[w] = event[w]
             /\ scanLock'[call[w].scan] = scanLock[call[w].scan]
  <2>1. w # p /\ w \in Procs
    BY <1>1 DEF Leave, Critical, TypeInv, TypeOK, Procs
  <2>2. /\ pc'[w] = pc[w] /\ call'[w] = call[w] /\ path'[w] = path[w]
        /\ event'[w] = event[w]
    BY <2>1 DEF Leave, TypeInv, TypeOK
  <2>3. scanLock[call[w].scan] = w /\ call[w].scan \in Scans
    BY <1>1, <2>1, <2>2 DEF JournalInv, LockOK, TypeInv, LocalsOK, Critical
  <2>. QED  BY <2>1, <2>2, <2>3 DEF Leave
<1>. QED  BY <1>1, JournalFrame

(* Two threads are never in the critical section of one scan.              *)
LEMMA Exclusion ==
  ASSUME JournalInv, NEW v \in Writers, NEW w \in Writers,
         pc[v] \in Critical, pc[w] \in Critical, call[v].scan = call[w].scan
  PROVE  v = w
  BY DEF JournalInv, LockOK

(* The one journal of the scan a prepared thread works on is created, or   *)
(* gets the prepared event, or only its tail changes.                      *)
LEMMA JournalGrows ==
  ASSUME TypeInv, JournalInv, NEW w \in Writers, pc[w] \in {"open", "write"},
         NEW new \in [lines : Seq(Event), tail : Tail_], new.tail # "absent",
         files' = [files EXCEPT ![call[w].scan][path[w]] = new],
         \/ new.lines = files[call[w].scan][path[w]].lines
         \/ new.lines = Append(files[call[w].scan][path[w]].lines, event[w])
  PROVE  FilesOK' /\ OneJournal' /\ ChainIntact' /\ OpenedOnce'
<1>. DEFINE s   == call[w].scan
            m   == path[w]
            log == files[s][m].lines
            e   == event[w]
<1>1. s \in Scans /\ m \in Partitions /\ e \in Event
  BY DEF TypeInv, LocalsOK, Procs
<1>2. /\ files'[s][m] = new
      /\ \A t \in Scans, n \in Partitions : t # s \/ n # m => files'[t][n] = files[t][n]
  BY <1>1 DEF TypeInv, TypeOK
<1>3. log \in Seq(Event) /\ VerifyChain(log)
  BY <1>1 DEF TypeInv, TypeOK, JournalInv, ChainIntact
<1>4. /\ Existing(s) \subseteq {m}
      /\ e.sequence = NextSequence(log) /\ e.previous = HeadHash(log)
      /\ e.opening => log = <<>>
  BY DEF JournalInv, PreparedOK, Prepared
<1>5. new.lines = log \/ new.lines = Append(log, e)
  OBVIOUS
<1>6. \A i \in 1..Len(log) : log[i].opening => i = 1
  BY <1>1 DEF JournalInv, OpenedOnce
<1>. HIDE DEF s, m, log, e
<1>7. FilesOK'
  <2>1. ASSUME NEW t \in Scans, NEW n \in Partitions, files'[t][n].tail = "absent"
        PROVE  files'[t][n].lines = <<>>
    BY <1>2, <2>1, ZenonT(60) DEF FilesOK, JournalInv
  <2>. QED  BY <2>1 DEF FilesOK
<1>8. OneJournal'
  <2>1. \A n \in Partitions : files'[s][n].tail # "absent" => n = m
    BY <1>1, <1>2, <1>4 DEF Existing
  <2>2. ASSUME NEW t \in Scans, NEW k \in Existing(t)', NEW n \in Existing(t)'
        PROVE  k = n
    <3>1. CASE t = s
      BY <2>1, <3>1 DEF Existing
    <3>2. CASE t # s
      <4>1. k \in Existing(t) /\ n \in Existing(t)
        BY <1>2, <3>2 DEF Existing
      <4>. QED  BY <4>1 DEF OneJournal, JournalInv
    <3>. QED  BY <3>1, <3>2
  <2>. QED  BY <2>2 DEF OneJournal
<1>9. VerifyChain(new.lines)
  <2>1. CASE new.lines = log
    BY <1>3, <2>1
  <2>2. CASE new.lines = Append(log, e)
    BY <1>1, <1>3, <1>4, <2>2, ChainExtends
  <2>. QED  BY <1>5, <2>1, <2>2
<1>10. ChainIntact'
  BY <1>2, <1>9 DEF ChainIntact, JournalInv
<1>11. \A i \in 1..Len(new.lines) : new.lines[i].opening => i = 1
  <2>1. CASE new.lines = log
    BY <1>6, <2>1
  <2>2. CASE new.lines = Append(log, e)
    <3>1. \A i \in 1..Len(Append(log, e)) : Append(log, e)[i].opening => i = 1
      BY <1>1, <1>3, <1>4, <1>6, OpeningExtends
    <3>. QED  BY <2>2, <3>1
  <2>. QED  BY <1>5, <2>1, <2>2
<1>12. OpenedOnce'
  <2>1. ASSUME NEW t \in Scans, NEW n \in Partitions
        PROVE  \A i \in 1..Len(files'[t][n].lines) : files'[t][n].lines[i].opening => i = 1
    BY <1>2, <1>11 DEF OpenedOnce, JournalInv
  <2>. QED  BY <2>1 DEF OpenedOnce
<1>. QED  BY <1>7, <1>8, <1>10, <1>12

(* Other prepared threads work on other scans and notice nothing.          *)
LEMMA OthersPrepared ==
  ASSUME TypeInv, JournalInv, NEW w \in Writers, pc[w] \in {"open", "write"},
         \A t \in Scans \ {call[w].scan} : files'[t] = files[t],
         \A v \in Writers \ {w} : /\ pc'[v] = pc[v] /\ call'[v] = call[v]
                                  /\ path'[v] = path[v] /\ event'[v] = event[v]
  PROVE  \A v \in Writers \ {w} : pc'[v] \in {"open", "write"} => Prepared(v)'
<1>. SUFFICES ASSUME NEW v \in Writers \ {w}, pc'[v] \in {"open", "write"}
              PROVE  Prepared(v)'
  OBVIOUS
<1>1. Prepared(v) /\ call[v].scan \in Scans
  BY DEF JournalInv, PreparedOK, TypeInv, LocalsOK, Procs
<1>2. call[v].scan # call[w].scan
  BY Exclusion DEF Critical
<1>. QED  BY <1>1, <1>2, SMTT(60) DEF Prepared, Existing

(* The empty store satisfies the invariant of the journals.                *)
LEMMA InitJournal == Init => JournalInv
  BY DEF Init, JournalInv, FilesOK, LockOK, PreparedOK, OneJournal, ChainIntact,
         OpenedOnce, Existing, NoFile, VerifyChain, Critical, Procs

(* Every step keeps the invariant of the journals, one case per action.    *)
LEMMA StepJournal == TypeInv /\ JournalInv /\ [Next]_vars => JournalInv'
<1>. SUFFICES ASSUME TypeInv, JournalInv, [Next]_vars PROVE JournalInv'
  OBVIOUS
<1>. USE DEF disk, locks, local, hist
<1>1. ASSUME NEW w \in Writers, NEW s \in Scans, NEW status \in Statuses,
             NEW opening \in BOOLEAN, Begin(w, s, status, opening)
      PROVE  JournalInv'
  BY <1>1, JournalFrame DEF Begin, Goto, Critical, TypeInv, TypeOK, Procs
<1>2. ASSUME NEW w \in Writers, Acquire(w)
      PROVE  JournalInv'
  <2>1. /\ w \in Procs /\ call[w].scan \in Scans /\ pc' = [pc EXCEPT ![w] = "prepare"]
        /\ pc[w] = "acquire" /\ scanLock[call[w].scan] = NONE
        /\ scanLock' = [scanLock EXCEPT ![call[w].scan] = w]
        /\ UNCHANGED <<files, call, path, event>>
    BY <1>2 DEF Acquire, Goto, TypeInv, LocalsOK, Procs
  <2>2. FilesOK' /\ OneJournal' /\ ChainIntact' /\ OpenedOnce'
    BY <2>1 DEF JournalInv, FilesOK, OneJournal, ChainIntact, OpenedOnce, Existing
  <2>3. LockOK'
    <3>. SUFFICES ASSUME NEW v \in Writers, pc'[v] \in Critical
                  PROVE  scanLock'[call[v].scan] = v
      BY <2>1 DEF LockOK
    <3>1. CASE v = w
      BY <2>1, <3>1 DEF TypeInv, TypeOK
    <3>2. CASE v # w
      <4>1. scanLock[call[v].scan] = v /\ v # NONE
        BY <2>1, <3>2, StoreAssumption DEF JournalInv, LockOK, TypeInv, TypeOK, Procs
      <4>2. call[v].scan # call[w].scan
        BY <2>1, <4>1
      <4>. QED  BY <2>1, <4>1, <4>2 DEF TypeInv, TypeOK
    <3>. QED  BY <3>1, <3>2
  <2>4. PreparedOK'
    BY <2>1 DEF JournalInv, PreparedOK, Prepared, Existing, TypeInv, TypeOK, Procs
  <2>. QED  BY <2>2, <2>3, <2>4 DEF JournalInv
<1>3. ASSUME NEW w \in Writers, Refuse(w)
      PROVE  JournalInv'
  BY <1>3, LeaveFrame DEF Refuse, Procs
<1>4. ASSUME NEW w \in Writers, Prepare(w)
      PROVE  JournalInv'
  <2>. DEFINE s == call[w].scan
              m == Target(s)
  <2>1. /\ w \in Procs /\ s \in Scans /\ pc[w] = "prepare"
        /\ pc' = [pc EXCEPT ![w] = "open"]
        /\ ~Refused(w)
        /\ path' = [path EXCEPT ![w] = m]
        /\ event' = [event EXCEPT ![w] = Seal(files[s][m].lines, call[w].id,
                                              call[w].status, call[w].opening)]
        /\ UNCHANGED <<files, scanLock, call>>
    BY <1>4 DEF Prepare, Goto, TypeInv, LocalsOK, Procs
  <2>2. FilesOK' /\ OneJournal' /\ ChainIntact' /\ OpenedOnce'
    BY <2>1 DEF JournalInv, FilesOK, OneJournal, ChainIntact, OpenedOnce, Existing
  <2>3. LockOK'
    BY <2>1 DEF JournalInv, LockOK, Critical, TypeInv, TypeOK
  <2>4. m \in Partitions /\ Existing(s) \subseteq {m}
    <3>. USE DEF Target
    <3>1. CASE Located(s) = {}
      BY <2>1, <3>1, LocatedTypes DEF TypeInv, TypeOK
    <3>2. CASE Located(s) # {}
      <4>1. m \in Located(s)
        BY <3>2
      <4>. QED  BY <2>1, <4>1, LocatedTypes DEF JournalInv, OneJournal, TypeInv
    <3>. QED  BY <3>1, <3>2
  <2>5. call[w].opening => files[s][m].lines = <<>>
    <3>1. call[w].opening => Located(s) = {}
      BY <2>1 DEF Refused
    <3>2. call[w].opening => Existing(s) = {}
      BY <2>1, <3>1, LocatedTypes DEF TypeInv
    <3>. HIDE DEF m
    <3>. QED  BY <2>1, <2>4, <3>2 DEF Existing, JournalInv, FilesOK
  <2>. HIDE DEF m
  <2>6. Prepared(w)'
    <3>1. /\ pc'[w] = "open" /\ path'[w] = m
          /\ event'[w] = Seal(files[s][m].lines, call[w].id, call[w].status, call[w].opening)
      BY <2>1 DEF TypeInv, TypeOK
    <3>. QED  BY <2>1, <2>4, <2>5, <3>1, SMTT(60) DEF Prepared, Existing, Seal
  <2>7. ASSUME NEW v \in Writers, v # w, pc'[v] \in {"open", "write"}
        PROVE  Prepared(v)'
    <3>1. pc'[v] = pc[v] /\ path'[v] = path[v] /\ event'[v] = event[v] /\ v \in Procs
      BY <2>1, <2>7 DEF TypeInv, TypeOK, Procs
    <3>2. Prepared(v)
      BY <2>7, <3>1 DEF JournalInv, PreparedOK
    <3>. QED  BY <2>1, <3>1, <3>2 DEF Prepared, Existing
  <2>8. PreparedOK'
    BY <2>6, <2>7 DEF PreparedOK
  <2>. QED  BY <2>2, <2>3, <2>8 DEF JournalInv
<1>5. ASSUME NEW w \in Writers, Open(w)
      PROVE  JournalInv'
  <2>. DEFINE s   == call[w].scan
              m   == path[w]
              old == files[s][m]
              new == Opened(old)
  <2>1. /\ w \in Procs /\ s \in Scans /\ m \in Partitions /\ pc[w] = "open"
        /\ pc' = [pc EXCEPT ![w] = "write"]
        /\ files' = [files EXCEPT ![s][m] = new]
        /\ UNCHANGED <<scanLock, call, path, event>>
    BY <1>5 DEF Open, Goto, TypeInv, LocalsOK, Procs
  <2>2. /\ new \in [lines : Seq(Event), tail : Tail_]
        /\ new.tail # "absent" /\ new.lines = old.lines
    BY <2>1 DEF Opened, EmptyFile, Tail_, TypeInv, TypeOK, JournalInv, FilesOK
  <2>. HIDE DEF new
  <2>3. FilesOK' /\ OneJournal' /\ ChainIntact' /\ OpenedOnce'
    BY <2>1, <2>2, JournalGrows
  <2>4. LockOK'
    BY <2>1 DEF JournalInv, LockOK, Critical, TypeInv, TypeOK
  <2>5. Prepared(w) /\ files'[s][m] = new
        /\ \A n \in Partitions \ {m} : files'[s][n] = files[s][n]
    BY <2>1 DEF JournalInv, PreparedOK, TypeInv, TypeOK
  <2>6. Prepared(w)'
    BY <2>1, <2>2, <2>5, ZenonT(60) DEF Prepared, Existing, TypeInv, TypeOK
  <2>7. \A v \in Writers \ {w} : pc'[v] \in {"open", "write"} => Prepared(v)'
    <3>1. \A t \in Scans \ {s} : files'[t] = files[t]
      BY <2>1 DEF TypeInv, TypeOK
    <3>2. \A v \in Writers \ {w} : pc'[v] = pc[v]
      BY <2>1 DEF TypeInv, TypeOK, Procs
    <3>. QED  BY <2>1, <3>1, <3>2, OthersPrepared
  <2>. QED  BY <2>3, <2>4, <2>6, <2>7 DEF JournalInv, PreparedOK
<1>6. ASSUME NEW w \in Writers, Write(w)
      PROVE  JournalInv'
  <2>. DEFINE s   == call[w].scan
              m   == path[w]
              old == files[s][m]
              new == WriteLine(old, event[w])
  <2>1. /\ w \in Procs /\ s \in Scans /\ m \in Partitions /\ pc[w] = "write"
        /\ event[w] \in Event /\ old \in [lines : Seq(Event), tail : Tail_]
        /\ pc' = [pc EXCEPT ![w] = "index"]
        /\ files' = [files EXCEPT ![s][m] = new]
        /\ scanLock' = [scanLock EXCEPT ![s] = NONE]
        /\ UNCHANGED <<call, path, event>>
    BY <1>6 DEF Write, Goto, TypeInv, LocalsOK, TypeOK, Procs
  <2>2. /\ new \in [lines : Seq(Event), tail : Tail_]
        /\ new.tail # "absent" /\ new.lines = Append(old.lines, event[w])
    BY <2>1, WriteTypes DEF WriteLine
  <2>. HIDE DEF new
  <2>3. FilesOK' /\ OneJournal' /\ ChainIntact' /\ OpenedOnce'
    BY <2>1, <2>2, JournalGrows
  <2>4. \A v \in Writers : pc'[v] \in Critical =>
          v # w /\ pc'[v] = pc[v] /\ call[v].scan \in Scans /\ call[v].scan # s
    <3>. SUFFICES ASSUME NEW v \in Writers, pc'[v] \in Critical
                  PROVE  v # w /\ pc'[v] = pc[v] /\ call[v].scan \in Scans /\ call[v].scan # s
      OBVIOUS
    <3>1. v # w /\ pc'[v] = pc[v] /\ v \in Procs
      BY <2>1 DEF Critical, TypeInv, TypeOK, Procs
    <3>2. call[v].scan \in Scans
      BY <3>1 DEF Critical, TypeInv, LocalsOK
    <3>. QED  BY <2>1, <3>1, <3>2, Exclusion DEF Critical
  <2>5. LockOK'
    BY <2>1, <2>4 DEF JournalInv, LockOK, TypeInv, TypeOK
  <2>6. \A v \in Writers \ {w} : pc'[v] \in {"open", "write"} => Prepared(v)'
    <3>1. \A t \in Scans \ {s} : files'[t] = files[t]
      BY <2>1 DEF TypeInv, TypeOK
    <3>2. \A v \in Writers \ {w} : pc'[v] = pc[v]
      BY <2>1 DEF TypeInv, TypeOK, Procs
    <3>. QED  BY <2>1, <3>1, <3>2, OthersPrepared
  <2>7. pc'[w] = "index"
    BY <2>1 DEF TypeInv, TypeOK
  <2>. QED  BY <2>3, <2>5, <2>6, <2>7 DEF JournalInv, PreparedOK
<1>7. ASSUME NEW w \in Writers, ShortWrite(w)
      PROVE  JournalInv'
  <2>. DEFINE s == call[w].scan
              m == path[w]
              old == files[s][m]
  <2>1. PICK left \in ShortWrites :
          files' = [files EXCEPT ![s][m] = WritePart(old, event[w], left)]
    BY <1>7 DEF ShortWrite
  <2>. DEFINE new == WritePart(old, event[w], left)
  <2>2. /\ w \in Procs /\ s \in Scans /\ m \in Partitions /\ pc[w] = "write"
        /\ event[w] \in Event /\ old \in [lines : Seq(Event), tail : Tail_]
        /\ files' = [files EXCEPT ![s][m] = new]
        /\ Leave(w)
    <3>1. pc[w] = "write" /\ Leave(w)
      BY <1>7 DEF ShortWrite
    <3>2. w \in Procs /\ s \in Scans /\ m \in Partitions /\ event[w] \in Event
      BY <3>1 DEF TypeInv, LocalsOK, Procs
    <3>3. old \in [lines : Seq(Event), tail : Tail_]
      BY <3>2 DEF TypeInv, TypeOK
    <3>. QED  BY <2>1, <3>1, <3>2, <3>3
  <2>3. Prepared(w) /\ old.tail # "absent"
    BY <2>2 DEF JournalInv, PreparedOK, Prepared, Existing
  <2>4. /\ new \in [lines : Seq(Event), tail : Tail_]
        /\ new.tail # "absent"
        /\ new.lines = old.lines \/ new.lines = Append(old.lines, event[w])
    BY <2>2, <2>3, StoreAssumption, WriteTypes DEF WritePart
  <2>. HIDE DEF new
  <2>5. FilesOK' /\ OneJournal' /\ ChainIntact' /\ OpenedOnce'
    BY <2>2, <2>4, JournalGrows
  <2>6. /\ pc'[w] = "idle"
        /\ \A v \in Writers \ {w} : /\ pc'[v] = pc[v] /\ call'[v] = call[v]
                                    /\ path'[v] = path[v] /\ event'[v] = event[v]
    BY <2>2 DEF Leave, TypeInv, TypeOK, Procs
  <2>7. LockOK'
    <3>. SUFFICES ASSUME NEW v \in Writers, pc'[v] \in Critical
                  PROVE  scanLock'[call'[v].scan] = v
      BY DEF LockOK
    <3>1. v # w /\ pc[v] \in Critical /\ call'[v] = call[v]
      BY <2>6 DEF Critical
    <3>2. scanLock[call[v].scan] = v /\ call[v].scan \in Scans
      BY <3>1 DEF JournalInv, LockOK, TypeInv, LocalsOK, Critical, Procs
    <3>. QED  BY <2>2, <3>1, <3>2 DEF Leave
  <2>8. \A v \in Writers \ {w} : pc'[v] \in {"open", "write"} => Prepared(v)'
    <3>1. \A t \in Scans \ {s} : files'[t] = files[t]
      BY <2>2 DEF TypeInv, TypeOK
    <3>. QED  BY <2>2, <2>6, <3>1, OthersPrepared
  <2>. QED  BY <2>5, <2>6, <2>7, <2>8 DEF JournalInv, PreparedOK
<1>8. ASSUME NEW w \in Writers, WriteSnapshot(w)
      PROVE  JournalInv'
  BY <1>8, LeaveFrame DEF WriteSnapshot, Procs
<1>9. ASSUME NEW p \in Procs, IndexStep(p)
      PROVE  JournalInv'
  <2>1. /\ UNCHANGED <<files, scanLock, call, path, event>>
        /\ \A w \in Writers : pc'[w] \in Critical => pc'[w] = pc[w]
    BY <1>9 DEF IndexStep, IndexLock, ReadIndex, WriteIndex, Goto, Critical,
                TypeInv, TypeOK, Procs
  <2>. QED  BY <2>1, JournalFrame
<1>10. ASSUME NEW p \in Procs, Die(p)
       PROVE  JournalInv'
  BY <1>10, LeaveFrame DEF Die
<1>11. ASSUME NEW r \in Rebuilders, StartRebuild(r) \/ RebuildStep(r)
       PROVE  JournalInv'
  <2>1. r \in Procs /\ r \notin Writers
    BY StoreAssumption DEF Procs
  <2>2. UNCHANGED files
    BY <1>11 DEF StartRebuild, RebuildStep, Unlink, List, ReadJournal, Replay,
                 NothingListed, SnapshotRead, SnapshotWrite, Leave
  <2>3. CASE Leave(r)
    BY <2>1, <2>2, <2>3, LeaveFrame
  <2>4. CASE ~Leave(r)
    <3>1. scanLock' = scanLock
      BY <1>11, <2>4 DEF StartRebuild, RebuildStep, Unlink, List, ReadJournal, Replay,
                 NothingListed, SnapshotRead, SnapshotWrite
    <3>2. \A w \in Procs \ {r} : /\ pc'[w] = pc[w] /\ call'[w] = call[w]
                                 /\ path'[w] = path[w] /\ event'[w] = event[w]
      <4>1. ASSUME StartRebuild(r) \/ Unlink(r) \/ List(r) \/ SnapshotWrite(r)
                   \/ NothingListed(r)
            PROVE  \A w \in Procs \ {r} : /\ pc'[w] = pc[w] /\ call'[w] = call[w]
                                 /\ path'[w] = path[w] /\ event'[w] = event[w]
        BY <2>4, <4>1 DEF StartRebuild, Unlink, List, SnapshotWrite, NothingListed, Goto,
                          TypeInv, TypeOK
      <4>2. ASSUME Replay(r)
            PROVE  \A w \in Procs \ {r} : /\ pc'[w] = pc[w] /\ call'[w] = call[w]
                                 /\ path'[w] = path[w] /\ event'[w] = event[w]
        BY <2>4, <4>2 DEF Replay, TypeInv, TypeOK
      <4>3. ASSUME ReadJournal(r)
            PROVE  \A w \in Procs \ {r} : /\ pc'[w] = pc[w] /\ call'[w] = call[w]
                                 /\ path'[w] = path[w] /\ event'[w] = event[w]
        BY <4>3 DEF ReadJournal, Goto, TypeInv, TypeOK
      <4>4. ASSUME SnapshotRead(r)
            PROVE  \A w \in Procs \ {r} : /\ pc'[w] = pc[w] /\ call'[w] = call[w]
                                 /\ path'[w] = path[w] /\ event'[w] = event[w]
        BY <2>4, <4>4 DEF SnapshotRead, TypeInv, TypeOK
      <4>. QED  BY <1>11, <4>1, <4>2, <4>3, <4>4 DEF RebuildStep
    <3>3. \A w \in Writers : w \in Procs \ {r}
      BY <2>1 DEF Procs
    <3>. QED  BY <2>2, <3>1, <3>2, <3>3, JournalFrame
  <2>. QED  BY <2>3, <2>4
<1>12. CASE NextMonth
  BY <1>12, JournalFrame DEF NextMonth
<1>13. CASE UNCHANGED vars
  BY <1>13, JournalFrame DEF vars
<1>. QED
  BY <1>1, <1>2, <1>3, <1>4, <1>5, <1>6, <1>7, <1>8, <1>9, <1>10, <1>11, <1>12, <1>13
     DEF Next, AppendStep

(* Types and the invariant of the journals hold in every state.            *)
THEOREM JournalInvariant == Spec => [](TypeInv /\ JournalInv)
  BY InitTypes, StepTypes, InitJournal, StepJournal, PTL DEF Spec

(* The search for a journal and its creation are under one lock, so a scan *)
(* has a journal in at most one partition.                                 *)
THEOREM OneJournalPerScan == Spec => []OneJournal
<1>1. JournalInv => OneJournal
  BY DEF JournalInv
<1>. QED  BY JournalInvariant, <1>1, PTL

(* Every journal is an intact hash chain at every moment.                  *)
THEOREM ChainsStayIntact == Spec => []ChainIntact
<1>1. JournalInv => ChainIntact
  BY DEF JournalInv
<1>. QED  BY JournalInvariant, <1>1, PTL

(* At most one append that insists on a new scan succeeds for each scan.   *)
THEOREM ScansOpenedOnce == Spec => []OpenedOnce
<1>1. JournalInv => OpenedOnce
  BY DEF JournalInv
<1>. QED  BY JournalInvariant, <1>1, PTL
-----------------------------------------------------------------------------
(***************************************************************************)
(* Whatever is acknowledged, projected, or about to be, is in a journal    *)
(* for good.                                                               *)
(***************************************************************************)
At(s, m, e) == e.sequence \in 1..Len(files[s][m].lines) /\ files[s][m].lines[e.sequence] = e

InJournal(s, e) == \E m \in Partitions : At(s, m, e)

Holding == {"index", "readindex", "writeindex", "snapshot", "snapwrite"}
Replaying == {"replay", "index", "readindex", "writeindex"}
Held(p) == pc[p] \in Holding => InJournal(call[p].scan, event[p])

Queued(r) ==
  r \in Rebuilders /\ pc[r] \in Replaying =>
    \A i \in 1..Len(queue[r]) : queue[r][i] # NONE => InJournal(call[r].scan, queue[r][i])

(* What a thread is about to write is a digest of its own append.          *)
Minted(w) == pc[w] \in {"open", "write"} => event[w].hash \in 1..MaxAppends

Stored(p) == Held(p) /\ Queued(p) /\ Minted(p)

Shown(s) == /\ \A e \in acked[s] : InJournal(s, e)
            /\ snapshot[s] # NONE => InJournal(s, snapshot[s])

StoredInv == (\A p \in Procs : Stored(p)) /\ (\A s \in Scans : Shown(s))

(* A step adds at most one event, the one its thread has prepared, at the  *)
(* end of a journal.                                                       *)
LEMMA JournalsGrow ==
  ASSUME TypeInv, JournalInv, [Next]_vars
  PROVE  \/ \A s \in Scans, m \in Partitions : files'[s][m].lines = files[s][m].lines
         \/ \E w \in Writers :
              /\ pc[w] = "write" /\ UNCHANGED <<acked, snapshot>>
              /\ \A s \in Scans, m \in Partitions :
                   files'[s][m].lines = IF s = call[w].scan /\ m = path[w]
                                        THEN Append(files[s][m].lines, event[w])
                                        ELSE files[s][m].lines
<1>. USE DEF disk, locks, local, hist
<1>. DEFINE same == \A s \in Scans, m \in Partitions : files'[s][m].lines = files[s][m].lines
            more(w) == \A s \in Scans, m \in Partitions :
                         files'[s][m].lines = IF s = call[w].scan /\ m = path[w]
                                              THEN Append(files[s][m].lines, event[w])
                                              ELSE files[s][m].lines
<1>1. ASSUME NEW w \in Writers, pc[w] \in {"open", "write"}
      PROVE  /\ call[w].scan \in Scans /\ path[w] \in Partitions
             /\ files[call[w].scan][path[w]].tail = "absent" => files[call[w].scan][path[w]].lines = <<>>
  BY <1>1 DEF TypeInv, LocalsOK, Procs, JournalInv, FilesOK
<1>2. ASSUME NEW w \in Writers, pc[w] \in {"open", "write"}
      PROVE  files[call[w].scan][path[w]] \in [lines : Seq(Event), tail : Tail_]
  BY <1>1, <1>2 DEF TypeInv, TypeOK
<1>3. ASSUME NEW w \in Writers, Open(w)
      PROVE  same
  <2>1. PICK new : new = Opened(files[call[w].scan][path[w]])
    OBVIOUS
  <2>2. pc[w] = "open" /\ files' = [files EXCEPT ![call[w].scan][path[w]] = new]
    BY <1>1, <1>3, <2>1 DEF Open, Goto, TypeInv, TypeOK
  <2>3. new.lines = files[call[w].scan][path[w]].lines
    BY <1>1, <2>1, <2>2 DEF Opened, EmptyFile
  <2>4. \A s \in Scans, m \in Partitions :
          files'[s][m] = IF s = call[w].scan /\ m = path[w] THEN new ELSE files[s][m]
    BY <1>1, <2>2 DEF TypeInv, TypeOK
  <2>. QED  BY <2>3, <2>4
<1>4. ASSUME NEW w \in Writers, Write(w)
      PROVE  pc[w] = "write" /\ more(w) /\ UNCHANGED <<acked, snapshot>>
  <2>1. PICK new : new = WriteLine(files[call[w].scan][path[w]], event[w])
    OBVIOUS
  <2>2. /\ pc[w] = "write" /\ UNCHANGED <<acked, snapshot>>
        /\ files' = [files EXCEPT ![call[w].scan][path[w]] = new]
    BY <1>1, <1>4, <2>1 DEF Write, Goto, TypeInv, TypeOK
  <2>3. new.lines = Append(files[call[w].scan][path[w]].lines, event[w])
    BY <1>2, <2>1, <2>2 DEF WriteLine
  <2>4. \A s \in Scans, m \in Partitions :
          files'[s][m] = IF s = call[w].scan /\ m = path[w] THEN new ELSE files[s][m]
    BY <1>1, <2>2 DEF TypeInv, TypeOK
  <2>5. more(w)
    BY <2>3, <2>4
  <2>. QED  BY <2>2, <2>5
<1>5. ASSUME NEW w \in Writers, ShortWrite(w)
      PROVE  pc[w] = "write" /\ (same \/ more(w)) /\ UNCHANGED <<acked, snapshot>>
  <2>1. pc[w] = "write" /\ UNCHANGED <<acked, snapshot>>
    BY <1>5 DEF ShortWrite
  <2>2. PICK left \in ShortWrites :
          files' = [files EXCEPT ![call[w].scan][path[w]] = WritePart(@, event[w], left)]
    BY <1>5 DEF ShortWrite
  <2>3. PICK new : new = WritePart(files[call[w].scan][path[w]], event[w], left)
    OBVIOUS
  <2>4. files' = [files EXCEPT ![call[w].scan][path[w]] = new]
    BY <1>1, <2>1, <2>2, <2>3 DEF TypeInv, TypeOK
  <2>5. files[call[w].scan][path[w]] \in [lines : Seq(Event), tail : Tail_]
    BY <1>2, <2>1
  <2>6. \/ new.lines = files[call[w].scan][path[w]].lines
        \/ new.lines = Append(files[call[w].scan][path[w]].lines, event[w])
    BY <2>3, <2>5 DEF WritePart
  <2>7. \A s \in Scans, m \in Partitions :
          files'[s][m] = IF s = call[w].scan /\ m = path[w] THEN new ELSE files[s][m]
    BY <1>1, <2>1, <2>4 DEF TypeInv, TypeOK
  <2>8. CASE new.lines = files[call[w].scan][path[w]].lines
    BY <2>1, <2>7, <2>8
  <2>9. CASE new.lines = Append(files[call[w].scan][path[w]].lines, event[w])
    <3>1. more(w)
      BY <2>7, <2>9
    <3>. QED  BY <2>1, <3>1
  <2>. QED  BY <2>6, <2>8, <2>9
<1>6. ASSUME NEW w \in Writers, AppendStep(w), ~Open(w), ~Write(w)
      PROVE  UNCHANGED files
  BY <1>6 DEF AppendStep, Acquire, Refuse, Prepare, WriteSnapshot
<1>7. ASSUME NEW p \in Procs, IndexStep(p) \/ Die(p)
      PROVE  UNCHANGED files
  BY <1>7 DEF IndexStep, IndexLock, ReadIndex, WriteIndex, Die
<1>8. ASSUME NEW r \in Rebuilders, StartRebuild(r) \/ RebuildStep(r)
      PROVE  UNCHANGED files
  BY <1>8 DEF StartRebuild, RebuildStep, Unlink, List, ReadJournal, Replay, NothingListed,
              SnapshotRead, SnapshotWrite
<1>9. ASSUME NEW w \in Writers, NEW s \in Scans, NEW status \in Statuses, NEW opening \in BOOLEAN,
             Begin(w, s, status, opening)
      PROVE  UNCHANGED files
  BY <1>9 DEF Begin
<1>10. ASSUME NextMonth \/ UNCHANGED vars
       PROVE  UNCHANGED files
  BY <1>10 DEF NextMonth, vars
<1>11. UNCHANGED files => same
  OBVIOUS
<1>. HIDE DEF same, more
<1>12. same \/ \E w \in Writers : pc[w] = "write" /\ UNCHANGED <<acked, snapshot>> /\ more(w)
  <2>1. CASE \E w \in Writers : Open(w) \/ Write(w) \/ ShortWrite(w)
    BY <1>3, <1>4, <1>5, <2>1
  <2>2. CASE ~\E w \in Writers : Open(w) \/ Write(w) \/ ShortWrite(w)
    <3>1. UNCHANGED files
      BY <1>6, <1>7, <1>8, <1>9, <1>10, <2>2 DEF Next
    <3>. QED  BY <1>11, <3>1
  <2>. QED  BY <2>1, <2>2
<1>. QED  BY <1>12 DEF same, more

(* What is in a journal stays there, where it is.                          *)
LEMMA InJournalStays ==
  ASSUME TypeInv, JournalInv, [Next]_vars, NEW s \in Scans, NEW e, InJournal(s, e)
  PROVE  InJournal(s, e)'
<1>1. PICK m \in Partitions : e.sequence \in 1..Len(files[s][m].lines) /\ files[s][m].lines[e.sequence] = e
  BY DEF InJournal, At
<1>2. files[s][m].lines \in Seq(Event)
  BY DEF TypeInv, TypeOK
<1>3. files'[s][m].lines = files[s][m].lines \/ \E w : files'[s][m].lines = Append(files[s][m].lines, event[w])
  BY JournalsGrow
<1>4. e.sequence \in 1..Len(files'[s][m].lines) /\ files'[s][m].lines[e.sequence] = e
  <2>1. CASE files'[s][m].lines = files[s][m].lines
    BY <1>1, <2>1
  <2>2. ASSUME NEW w, files'[s][m].lines = Append(files[s][m].lines, event[w])
        PROVE  e.sequence \in 1..Len(files'[s][m].lines) /\ files'[s][m].lines[e.sequence] = e
    <3>. DEFINE log == files[s][m].lines
    <3>1. log \in Seq(Event) /\ e.sequence \in 1..Len(log) /\ log[e.sequence] = e
      BY <1>1, <1>2
    <3>2. files'[s][m].lines = Append(log, event[w])
      BY <2>2
    <3>. HIDE DEF log
    <3>. QED  BY <3>1, <3>2, AppendProperties
  <2>. QED  BY <1>3, <2>1, <2>2
<1>. QED  BY <1>4 DEF InJournal, At
Resting(q) == pc'[q] = pc[q] /\ call'[q] = call[q] /\ event'[q] = event[q] /\ queue'[q] = queue[q]

(* In the empty store nothing was written that could be lost.              *)
LEMMA InitStored == Init => StoredInv
  BY DEF Init, StoredInv, Stored, Held, Queued, Minted, Shown, Holding, Replaying, Procs

(* A process that rests holds what it held.                                *)
LEMMA RestingStored ==
  ASSUME TypeInv, JournalInv, StoredInv, [Next]_vars, NEW q \in Procs, Resting(q)
  PROVE  Stored(q)'
<1>1. Stored(q) /\ (pc[q] \in Holding \cup Replaying => call[q].scan \in Scans)
  BY DEF StoredInv, TypeInv, LocalsOK, Holding, Replaying
<1>2. Held(q)'
  BY <1>1, InJournalStays DEF Stored, Held, Resting
<1>3. Queued(q)'
  BY <1>1, InJournalStays DEF Stored, Queued, Resting
<1>4. Minted(q)'
  BY <1>1 DEF Stored, Minted, Resting
<1>. QED  BY <1>2, <1>3, <1>4 DEF Stored

LEMMA StoredMoved ==
  ASSUME TypeInv, JournalInv, StoredInv, [Next]_vars, NEW p \in Procs,
         \A q \in Procs \ {p} : Resting(q), Stored(p)', UNCHANGED <<snapshot, acked>>
  PROVE  StoredInv'
<1>1. \A s \in Scans : Shown(s)'
  BY InJournalStays DEF StoredInv, Shown
<1>. QED  BY <1>1, RestingStored DEF StoredInv

LEMMA LeaveRests ==
  ASSUME TypeInv, NEW p \in Procs, Leave(p)
  PROVE  Stored(p)' /\ \A q \in Procs \ {p} : Resting(q)
<1>1. pc'[p] = "idle"
  BY DEF Leave, TypeInv, TypeOK
<1>2. \A q \in Procs \ {p} : Resting(q)
  BY DEF Leave, TypeInv, TypeOK, Resting
<1>. QED  BY <1>1, <1>2 DEF Stored, Held, Queued, Minted, Holding, Replaying

(* The last event of a chain, as any of its events, is at its own place.   *)
LEMMA LinesInJournal ==
  ASSUME TypeInv, JournalInv, NEW s \in Scans, NEW m \in Partitions, NEW i \in 1..Len(files[s][m].lines)
  PROVE  InJournal(s, files[s][m].lines[i]) /\ files[s][m].lines[i] \in Event
<1>1. files[s][m].lines \in Seq(Event) /\ files[s][m].lines[i].sequence = i
  BY DEF TypeInv, TypeOK, JournalInv, ChainIntact, VerifyChain
<1>. QED  BY <1>1 DEF InJournal, At

(* A writer that has written finds its event in the journal.               *)
LEMMA WrittenInJournal ==
  ASSUME TypeInv, JournalInv, [Next]_vars, NEW w \in Writers, Write(w)
  PROVE  InJournal(call[w].scan, event[w])'
<1>. USE DEF disk, locks, local, hist
<1>1. /\ pc[w] = "write" /\ UNCHANGED <<call, event, path>>
      /\ call[w].scan \in Scans /\ path[w] \in Partitions /\ event[w] \in Event
  BY DEF Write, Goto, TypeInv, LocalsOK, Procs
<1>. DEFINE log == files[call[w].scan][path[w]].lines
<1>2. files'[call[w].scan][path[w]].lines = Append(log, event[w])
  BY <1>1 DEF Write, WriteLine, TypeInv, TypeOK
<1>3. log \in Seq(Event) /\ VerifyChain(log) /\ event[w].sequence = NextSequence(log)
  BY <1>1 DEF TypeInv, TypeOK, JournalInv, ChainIntact, PreparedOK, Prepared
<1>. HIDE DEF log
<1>4. event[w].sequence = Len(log) + 1
  BY <1>3 DEF NextSequence, VerifyChain
<1>5. Len(Append(log, event[w])) = Len(log) + 1 /\ Append(log, event[w])[Len(log) + 1] = event[w]
  BY <1>1, <1>3, AppendFacts
<1>6. Len(log) + 1 \in 1..(Len(log) + 1)
  BY <1>3
<1>. QED  BY <1>1, <1>2, <1>4, <1>5, <1>6 DEF InJournal, At

(* Every step keeps the place of what was written, and what threads rely   *)
(* on of it.                                                               *)
LEMMA StepStored == TypeInv /\ JournalInv /\ StoredInv /\ [Next]_vars => StoredInv'
<1>. SUFFICES ASSUME TypeInv, JournalInv, StoredInv, [Next]_vars PROVE StoredInv'
  OBVIOUS
<1>. USE DEF disk, locks, local, hist
<1>0. /\ pc \in [Procs -> PCs] /\ call \in [Procs -> Call] /\ queue \in [Procs -> Seq(Event \cup {NONE})]
      /\ event \in [Procs -> Event \cup {NONE}] /\ \A w \in Writers : w \in Procs /\ w \notin Rebuilders
      /\ \A r \in Rebuilders : r \in Procs
  BY StoreAssumption DEF TypeInv, TypeOK, Procs
<1>00. (\A p \in Procs : Stored(p)) /\ (\A s \in Scans : Shown(s))
  BY DEF StoredInv
<1>1. ASSUME NEW w \in Writers, NEW s \in Scans, NEW status \in Statuses, NEW opening \in BOOLEAN,
             Begin(w, s, status, opening)
      PROVE  StoredInv'
  <2>1. /\ pc'[w] = "acquire" /\ UNCHANGED <<snapshot, acked>>
        /\ \A q \in Procs \ {w} : Resting(q)
    BY <1>0, <1>1 DEF Begin, Goto, Resting
  <2>2. Stored(w)'
    BY <2>1 DEF Stored, Held, Queued, Minted, Holding, Replaying
  <2>. QED  BY <1>0, <2>1, <2>2, StoredMoved
<1>2. ASSUME NEW w \in Writers, Acquire(w)
      PROVE  StoredInv'
  <2>1. pc'[w] = "prepare" /\ UNCHANGED <<snapshot, acked>> /\ \A q \in Procs \ {w} : Resting(q)
    BY <1>0, <1>2 DEF Acquire, Goto, Resting
  <2>2. Stored(w)'
    BY <2>1 DEF Stored, Held, Queued, Minted, Holding, Replaying
  <2>. QED  BY <1>0, <2>1, <2>2, StoredMoved
<1>3. ASSUME NEW p \in Procs, Leave(p), UNCHANGED <<snapshot, acked>>
      PROVE  StoredInv'
  BY <1>3, LeaveRests, StoredMoved
<1>4. ASSUME NEW w \in Writers, Prepare(w)
      PROVE  StoredInv'
  <2>1. /\ pc[w] = "prepare" /\ pc'[w] = "open" /\ UNCHANGED <<snapshot, acked>>
        /\ \A q \in Procs \ {w} : Resting(q)
    BY <1>0, <1>4 DEF Prepare, Goto, Resting
  <2>2. event'[w].hash = call[w].id
    BY <1>0, <1>4 DEF Prepare, Seal
  <2>3. call[w].id \in 1..MaxAppends
    BY <1>0, <2>1 DEF TypeInv, LocalsOK
  <2>4. Stored(w)'
    BY <1>0, <2>1, <2>2, <2>3 DEF Stored, Held, Queued, Minted, Holding, Replaying
  <2>. QED  BY <1>0, <2>1, <2>4, StoredMoved
<1>5. ASSUME NEW w \in Writers, Open(w)
      PROVE  StoredInv'
  <2>1. /\ pc[w] = "open" /\ pc'[w] = "write" /\ UNCHANGED <<snapshot, acked, event>>
        /\ \A q \in Procs \ {w} : Resting(q)
    BY <1>0, <1>5 DEF Open, Goto, Resting
  <2>2. Stored(w)'
    BY <1>0, <1>00, <2>1 DEF Stored, Held, Queued, Minted, Holding, Replaying
  <2>. QED  BY <1>0, <2>1, <2>2, StoredMoved
<1>6. ASSUME NEW w \in Writers, Write(w)
      PROVE  StoredInv'
  <2>1. /\ pc'[w] = "index" /\ UNCHANGED <<snapshot, acked, call, event>>
        /\ \A q \in Procs \ {w} : Resting(q)
    BY <1>0, <1>6 DEF Write, Goto, Resting
  <2>2. Stored(w)'
    BY <1>0, <1>6, <2>1, WrittenInJournal DEF Stored, Held, Queued, Minted
  <2>. QED  BY <1>0, <2>1, <2>2, StoredMoved
<1>7. ASSUME NEW w \in Writers, WriteSnapshot(w)
      PROVE  StoredInv'
  <2>1. /\ pc[w] = "snapshot" /\ Leave(w) /\ call[w].scan \in Scans
        /\ snapshot' = [snapshot EXCEPT ![call[w].scan] = event[w]]
        /\ acked' = [acked EXCEPT ![call[w].scan] = @ \cup {event[w]}]
    BY <1>0, <1>7 DEF WriteSnapshot, TypeInv, LocalsOK
  <2>2. InJournal(call[w].scan, event[w])
    BY <1>0, <1>00, <2>1 DEF Stored, Held, Holding
  <2>3. ASSUME NEW s \in Scans
        PROVE  Shown(s)'
    <3>1. snapshot'[s] # NONE => InJournal(s, snapshot'[s])
      BY <1>00, <2>1, <2>2, <2>3 DEF Shown, TypeInv, TypeOK
    <3>2. \A e \in acked'[s] : InJournal(s, e)
      BY <1>00, <2>1, <2>2, <2>3 DEF Shown, TypeInv, TypeOK
    <3>3. \A e \in acked'[s] : InJournal(s, e)'
      BY <3>2, InJournalStays
    <3>4. PICK shown : shown = snapshot'[s]
      OBVIOUS
    <3>5. shown # NONE => InJournal(s, shown)'
      BY <3>1, <3>4, InJournalStays
    <3>. QED  BY <3>3, <3>4, <3>5 DEF Shown
  <2>. QED  BY <1>0, <2>1, <2>3, LeaveRests, RestingStored DEF StoredInv
<1>8. ASSUME NEW p \in Procs, IndexStep(p)
      PROVE  StoredInv'
  <2>1. /\ pc[p] \in {"index", "readindex", "writeindex"}
        /\ pc'[p] \in {"index", "readindex", "writeindex", "snapshot", "replay"}
        /\ UNCHANGED <<snapshot, acked, call, event, queue>>
        /\ \A q \in Procs \ {p} : Resting(q)
    BY <1>0, <1>8 DEF IndexStep, IndexLock, ReadIndex, WriteIndex, Goto, Resting
  <2>2. Held(p)' /\ Queued(p)' /\ Minted(p)'
    <3>1. call[p].scan \in Scans /\ InJournal(call[p].scan, event[p])
      BY <1>00, <2>1 DEF Stored, Held, Holding, TypeInv, LocalsOK
    <3>2. Held(p)'
      BY <2>1, <3>1, InJournalStays DEF Held
    <3>3. Queued(p)'
      BY <1>00, <2>1, <3>1, InJournalStays DEF Stored, Queued, Replaying
    <3>. QED  BY <2>1, <3>2, <3>3 DEF Minted
  <2>. QED  BY <2>1, <2>2, StoredMoved DEF Stored
<1>9. ASSUME NEW r \in Rebuilders, StartRebuild(r) \/ Unlink(r) \/ List(r)
      PROVE  StoredInv'
  <2>1. /\ pc'[r] \in {"unlink", "list", "pick", "snappick"} /\ UNCHANGED <<snapshot, acked>>
        /\ \A q \in Procs \ {r} : Resting(q)
    BY <1>0, <1>9 DEF StartRebuild, Unlink, List, Goto, Resting
  <2>2. Stored(r)'
    BY <2>1 DEF Stored, Held, Queued, Minted, Holding, Replaying
  <2>. QED  BY <1>0, <2>1, <2>2, StoredMoved
<1>10. ASSUME NEW r \in Rebuilders, ReadJournal(r)
       PROVE  StoredInv'
  <2>1. PICK f \in todo[r] :
          /\ call' = [call EXCEPT ![r].scan = f[1]]
          /\ \/ queue' = [queue EXCEPT ![r] = files[f[1]][f[2]].lines]
             \/ \E k \in 0..Len(files[f[1]][f[2]].lines) :
                  queue' = [queue EXCEPT ![r] = Append(SubSeq(files[f[1]][f[2]].lines, 1, k), NONE)]
    BY <1>10 DEF ReadJournal
  <2>2. PICK s, m : s = f[1] /\ m = f[2] /\ s \in Scans /\ m \in Partitions
    BY <1>0 DEF TypeInv, TypeOK
  <2>. DEFINE log == files[s][m].lines
  <2>3. /\ pc'[r] = "replay" /\ call'[r].scan = s /\ UNCHANGED <<snapshot, acked, event>>
        /\ \A q \in Procs \ {r} : Resting(q)
    BY <1>0, <1>10, <2>1, <2>2, ZenonT(60) DEF ReadJournal, Goto, Resting, Call
  <2>4. log \in Seq(Event)
    BY <2>2 DEF TypeInv, TypeOK
  <2>5. \A i \in 1..Len(log) : InJournal(s, log[i])
    BY <2>2, LinesInJournal
  <2>6. queue'[r] = log \/ \E k \in 0..Len(log) : queue'[r] = Append(SubSeq(log, 1, k), NONE)
    BY <1>0, <2>1, <2>2
  <2>. HIDE DEF log
  <2>7. \A i \in 1..Len(queue'[r]) : queue'[r][i] = NONE \/ \E j \in 1..Len(log) : queue'[r][i] = log[j]
    <3>1. CASE queue'[r] = log
      BY <3>1
    <3>2. ASSUME NEW k \in 0..Len(log), queue'[r] = Append(SubSeq(log, 1, k), NONE)
          PROVE  \A i \in 1..Len(queue'[r]) : queue'[r][i] = NONE \/ \E j \in 1..Len(log) : queue'[r][i] = log[j]
      <4>. DEFINE part == SubSeq(log, 1, k)
      <4>1. /\ part \in Seq(Event \cup {NONE}) /\ Len(part) = k /\ k <= Len(log) /\ k \in Nat
            /\ \A i \in 1..k : part[i] = log[i]
        BY <2>4
      <4>. HIDE DEF part
      <4>2. /\ Len(Append(part, NONE)) = k + 1 /\ Append(part, NONE)[k + 1] = NONE
            /\ \A i \in 1..k : Append(part, NONE)[i] = log[i]
        BY <4>1, AppendFacts
      <4>. QED  BY <2>4, <3>2, <4>1, <4>2 DEF part
    <3>. QED  BY <2>6, <3>1, <3>2
  <2>8. \A e : InJournal(s, e) => InJournal(s, e)'
    BY <2>2, InJournalStays
  <2>9. PICK q : q = queue'[r]
    OBVIOUS
  <2>10. \A i \in 1..Len(q) : q[i] # NONE => InJournal(s, q[i])'
    BY <2>5, <2>7, <2>8, <2>9
  <2>11. Stored(r)'
    BY <2>3, <2>9, <2>10 DEF Stored, Held, Queued, Minted, Holding
  <2>. QED  BY <1>0, <2>3, <2>11, StoredMoved
<1>11. ASSUME NEW r \in Rebuilders, Replay(r)
       PROVE  StoredInv'
  <2>1. UNCHANGED <<snapshot, acked>> /\ pc[r] = "replay" /\ call[r].scan \in Scans
        /\ queue[r] \in Seq(Event \cup {NONE})
    BY <1>0, <1>11 DEF Replay, TypeInv, LocalsOK
  <2>2. CASE queue[r] = <<>>
    <3>1. pc'[r] \in {"snaplist", "pick"} /\ \A q \in Procs \ {r} : Resting(q)
      BY <1>0, <1>11, <2>2 DEF Replay, Resting
    <3>2. Stored(r)'
      BY <3>1 DEF Stored, Held, Queued, Minted, Holding, Replaying
    <3>. QED  BY <1>0, <2>1, <3>1, <3>2, StoredMoved
  <2>3. CASE queue[r] # <<>> /\ Head(queue[r]) = NONE
    BY <1>0, <1>3, <1>11, <2>1, <2>3 DEF Replay
  <2>4. CASE queue[r] # <<>> /\ Head(queue[r]) # NONE
    <3>0. PICK q, s : q = queue[r] /\ s = call[r].scan
      OBVIOUS
    <3>1. /\ pc'[r] = "index" /\ event'[r] = Head(q) /\ queue'[r] = Tail(q) /\ call'[r].scan = s
          /\ \A p \in Procs \ {r} : Resting(p)
      BY <1>0, <1>11, <2>4, <3>0 DEF Replay, Resting
    <3>2. \A i \in 1..Len(q) : q[i] # NONE => InJournal(s, q[i])'
      <4>1. \A i \in 1..Len(q) : q[i] # NONE => InJournal(s, q[i])
        BY <1>0, <1>00, <2>1, <3>0 DEF Stored, Queued, Replaying
      <4>. QED  BY <2>1, <3>0, <4>1, InJournalStays
    <3>3. q # <<>> /\ Head(q) # NONE /\ q \in Seq(Event \cup {NONE})
      BY <2>1, <2>4, <3>0
    <3>4. /\ 1 \in 1..Len(q) /\ Head(q) = q[1]
          /\ \A i \in 1..Len(Tail(q)) : i + 1 \in 1..Len(q) /\ Tail(q)[i] = q[i + 1]
      BY <3>3
    <3>5. Held(r)'
      BY <3>1, <3>2, <3>3, <3>4 DEF Held
    <3>6. Queued(r)'
      BY <3>1, <3>2, <3>4 DEF Queued
    <3>7. Minted(r)'
      BY <3>1 DEF Minted
    <3>. QED  BY <1>0, <2>1, <3>1, <3>5, <3>6, <3>7, StoredMoved DEF Stored
  <2>. QED  BY <2>2, <2>3, <2>4
<1>12. ASSUME NEW r \in Rebuilders, NothingListed(r)
       PROVE  StoredInv'
  <2>1. UNCHANGED <<snapshot, acked>>
    BY <1>12 DEF NothingListed
  <2>2. CASE ~Leave(r)
    <3>1. pc'[r] = "snaplist" /\ \A q \in Procs \ {r} : Resting(q)
      BY <1>0, <1>12, <2>2 DEF NothingListed, Goto, Resting
    <3>2. Stored(r)'
      BY <3>1 DEF Stored, Held, Queued, Minted, Holding, Replaying
    <3>. QED  BY <1>0, <2>1, <3>1, <3>2, StoredMoved
  <2>. QED  BY <1>0, <1>3, <2>1, <2>2
<1>13. ASSUME NEW r \in Rebuilders, SnapshotRead(r)
       PROVE  StoredInv'
  <2>1. UNCHANGED <<snapshot, acked>> /\ pc[r] = "snappick"
    BY <1>13 DEF SnapshotRead
  <2>2. CASE ~Leave(r)
    <3>1. PICK f \in todo[r] :
            IF files[f[1]][f[2]].lines = <<>>
            THEN UNCHANGED <<pc, call, event>>
            ELSE /\ pc' = [pc EXCEPT ![r] = "snapwrite"]
                 /\ call' = [call EXCEPT ![r].scan = f[1]]
                 /\ event' = [event EXCEPT ![r] = files[f[1]][f[2]].lines[Len(files[f[1]][f[2]].lines)]]
      BY <1>13, <2>2 DEF SnapshotRead
    <3>2. UNCHANGED queue
      BY <1>13, <2>2 DEF SnapshotRead
    <3>3. PICK s, m : s = f[1] /\ m = f[2] /\ s \in Scans /\ m \in Partitions
      BY <1>0 DEF TypeInv, TypeOK
    <3>. DEFINE log == files[s][m].lines
    <3>4. log \in Seq(Event)
      BY <3>3 DEF TypeInv, TypeOK
    <3>5. CASE log = <<>>
      <4>1. \A q \in Procs : Resting(q)
        BY <3>1, <3>2, <3>3, <3>5 DEF Resting
      <4>. QED  BY <1>0, <2>1, <4>1, StoredMoved, RestingStored
    <3>6. CASE log # <<>>
      <4>1. /\ pc'[r] = "snapwrite" /\ call'[r].scan = s /\ event'[r] = log[Len(log)]
            /\ \A q \in Procs \ {r} : Resting(q)
        BY <1>0, <3>1, <3>2, <3>3, <3>6 DEF Resting, Call
      <4>2. Len(log) \in 1..Len(log)
        BY <3>4, <3>6
      <4>3. InJournal(s, log[Len(log)])
        BY <3>3, <4>2, LinesInJournal
      <4>4. PICK e : e = log[Len(log)]
        OBVIOUS
      <4>5. InJournal(s, e)'
        BY <3>3, <4>3, <4>4, InJournalStays
      <4>. HIDE DEF log
      <4>6. Stored(r)'
        BY <4>1, <4>4, <4>5 DEF Stored, Held, Queued, Minted, Replaying
      <4>. QED  BY <1>0, <2>1, <4>1, <4>6, StoredMoved
    <3>. QED  BY <3>5, <3>6
  <2>. QED  BY <1>0, <1>3, <2>1, <2>2
<1>14. ASSUME NEW r \in Rebuilders, SnapshotWrite(r)
       PROVE  StoredInv'
  <2>1. /\ pc[r] = "snapwrite" /\ pc'[r] = "snappick" /\ call[r].scan \in Scans /\ UNCHANGED acked
        /\ snapshot' = [snapshot EXCEPT ![call[r].scan] = event[r]]
        /\ \A q \in Procs \ {r} : Resting(q)
    BY <1>0, <1>14 DEF SnapshotWrite, Goto, Resting, TypeInv, LocalsOK
  <2>2. InJournal(call[r].scan, event[r])
    BY <1>0, <1>00, <2>1 DEF Stored, Held, Holding
  <2>3. ASSUME NEW s \in Scans
        PROVE  Shown(s)'
    <3>1. snapshot'[s] # NONE => InJournal(s, snapshot'[s])
      BY <1>00, <2>1, <2>2, <2>3 DEF Shown, TypeInv, TypeOK
    <3>2. PICK shown : shown = snapshot'[s]
      OBVIOUS
    <3>3. shown # NONE => InJournal(s, shown)'
      BY <3>1, <3>2, InJournalStays
    <3>4. \A e \in acked[s] : InJournal(s, e)'
      BY <1>00, InJournalStays DEF Shown
    <3>. QED  BY <2>1, <3>2, <3>3, <3>4 DEF Shown
  <2>4. Stored(r)'
    BY <2>1 DEF Stored, Held, Queued, Minted, Holding, Replaying
  <2>. QED  BY <1>0, <2>1, <2>3, <2>4, RestingStored DEF StoredInv
<1>15. ASSUME NEW w \in Writers, Refuse(w) \/ ShortWrite(w)
       PROVE  StoredInv'
  BY <1>0, <1>3, <1>15 DEF Refuse, ShortWrite
<1>16. ASSUME NEW p \in Procs, Die(p)
       PROVE  StoredInv'
  BY <1>3, <1>16 DEF Die
<1>17. CASE NextMonth \/ UNCHANGED vars
  <2>1. UNCHANGED <<snapshot, acked>> /\ \A q \in Procs : Resting(q)
    BY <1>17 DEF NextMonth, vars, Resting
  <2>2. \A s \in Scans : Shown(s)'
    BY <1>00, <2>1, InJournalStays DEF StoredInv, Shown
  <2>. QED  BY <2>1, <2>2, RestingStored DEF StoredInv
<1>. QED
  BY <1>1, <1>2, <1>4, <1>5, <1>6, <1>7, <1>8, <1>9, <1>10, <1>11, <1>12, <1>13, <1>14, <1>15, <1>16,
     <1>17 DEF Next, AppendStep, RebuildStep

(* The invariant of the whole store.                                       *)
StoreInv == TypeInv /\ JournalInv /\ StoredInv

(* The invariant of the whole store holds in every state.                  *)
LEMMA StoreInvariant == Spec => []StoreInv
<1>1. Init => StoreInv
  BY InitTypes, InitJournal, InitStored DEF StoreInv
<1>2. StoreInv /\ [Next]_vars => StoreInv'
  BY StepTypes, StepJournal, StepStored DEF StoreInv
<1>. QED  BY <1>1, <1>2, PTL DEF Spec

(* The journal that holds an event is the only one of its scan.            *)
LEMMA OnlyJournal ==
  ASSUME TypeInv, JournalInv, NEW s \in Scans, NEW m \in Partitions, Len(files[s][m].lines) # 0
  PROVE  Existing(s) = {m} /\ Located(s) = {m}
<1>1. files[s][m].tail # "absent"
  BY DEF JournalInv, FilesOK
<1>2. Existing(s) = {m}
  BY <1>1 DEF Existing, JournalInv, OneJournal
<1>. QED  BY <1>2, LocatedTypes DEF TypeInv

(* Only a short write leaves a line that is not whole.                     *)
TornOK == \A s \in Scans, m \in Partitions :
            files[s][m].tail \in {"unterminated", "garbage"} => s \in torn

(* Once torn, a journal counts as torn for good.                           *)
LEMMA TornStays ==
  ASSUME [Next]_vars
  PROVE  torn \subseteq torn'
<1>. USE DEF disk, locks, local, hist
<1>1. ASSUME NEW w \in Writers, AppendStep(w) \/ ShortWrite(w)
      PROVE  torn \subseteq torn'
  BY <1>1 DEF AppendStep, Acquire, Refuse, Prepare, Open, Write, WriteSnapshot, ShortWrite
<1>2. ASSUME NEW p \in Procs, IndexStep(p) \/ Die(p)
      PROVE  torn \subseteq torn'
  BY <1>2 DEF IndexStep, IndexLock, ReadIndex, WriteIndex, Die
<1>3. ASSUME NEW r \in Rebuilders, StartRebuild(r) \/ RebuildStep(r)
      PROVE  torn \subseteq torn'
  BY <1>3 DEF StartRebuild, RebuildStep, Unlink, List, ReadJournal, Replay, NothingListed,
              SnapshotRead, SnapshotWrite
<1>4. ASSUME NEW w \in Writers, NEW s \in Scans, NEW status \in Statuses, NEW opening \in BOOLEAN,
             Begin(w, s, status, opening)
      PROVE  torn \subseteq torn'
  BY <1>4 DEF Begin
<1>5. ASSUME NextMonth \/ UNCHANGED vars
      PROVE  torn \subseteq torn'
  BY <1>5 DEF NextMonth, vars
<1>. QED  BY <1>1, <1>2, <1>3, <1>4, <1>5 DEF Next

(* A step changes the journals by opening, writing or tearing one of them. *)
LEMMA JournalsChange ==
  ASSUME [Next]_vars
  PROVE  \/ UNCHANGED files
         \/ \E w \in Writers : Open(w) \/ Write(w) \/ ShortWrite(w)
<1>. USE DEF disk, locks, local, hist
<1>1. ASSUME NEW w \in Writers, AppendStep(w) \/ ShortWrite(w)
      PROVE  UNCHANGED files \/ Open(w) \/ Write(w) \/ ShortWrite(w)
  BY <1>1 DEF AppendStep, Acquire, Refuse, Prepare, WriteSnapshot
<1>2. ASSUME NEW p \in Procs, IndexStep(p) \/ Die(p)
      PROVE  UNCHANGED files
  BY <1>2 DEF IndexStep, IndexLock, ReadIndex, WriteIndex, Die
<1>3. ASSUME NEW r \in Rebuilders, StartRebuild(r) \/ RebuildStep(r)
      PROVE  UNCHANGED files
  BY <1>3 DEF StartRebuild, RebuildStep, Unlink, List, ReadJournal, Replay, NothingListed,
              SnapshotRead, SnapshotWrite
<1>4. ASSUME NEW w \in Writers, NEW s \in Scans, NEW status \in Statuses, NEW opening \in BOOLEAN,
             Begin(w, s, status, opening)
      PROVE  UNCHANGED files
  BY <1>4 DEF Begin
<1>5. ASSUME NextMonth \/ UNCHANGED vars
      PROVE  UNCHANGED files
  BY <1>5 DEF NextMonth, vars
<1>. QED  BY <1>1, <1>2, <1>3, <1>4, <1>5 DEF Next

(* No step but a short write leaves a line that is not whole.              *)
LEMMA StepTorn == TypeInv /\ TornOK /\ [Next]_vars => TornOK'
<1>. SUFFICES ASSUME TypeInv, TornOK, [Next]_vars PROVE TornOK'
  OBVIOUS
<1>0. torn \subseteq torn'
  BY TornStays
<1>1. CASE UNCHANGED files
  BY <1>0, <1>1 DEF TornOK
<1>2. ASSUME NEW w \in Writers, Open(w) \/ Write(w) \/ ShortWrite(w)
      PROVE  TornOK'
  <2>1. PICK s, m : s = call[w].scan /\ m = path[w]
    OBVIOUS
  <2>2. s \in Scans /\ m \in Partitions
    BY <1>2, <2>1 DEF Open, Write, ShortWrite, Goto, TypeInv, LocalsOK, Procs
  <2>3. files[s][m] \in [lines : Seq(Event), tail : Tail_]
    BY <2>2 DEF TypeInv, TypeOK
  <2>4. PICK new : /\ files' = [files EXCEPT ![s][m] = new]
                   /\ new.tail \in {"unterminated", "garbage"} =>
                        files[s][m].tail \in {"unterminated", "garbage"} \/ s \in torn'
    <3>1. CASE Open(w)
      <4>1. files' = [files EXCEPT ![s][m] = Opened(files[s][m])]
        BY <2>1, <3>1 DEF Open
      <4>2. Opened(files[s][m]).tail \in {"unterminated", "garbage"} =>
              files[s][m].tail \in {"unterminated", "garbage"}
        BY DEF Opened, EmptyFile
      <4>. QED  BY <4>1, <4>2
    <3>2. CASE Write(w)
      <4>1. files' = [files EXCEPT ![s][m] = WriteLine(files[s][m], event[w])]
        BY <2>1, <3>2 DEF Write
      <4>2. WriteLine(files[s][m], event[w]).tail \in {"unterminated", "garbage"} =>
              files[s][m].tail \in {"unterminated", "garbage"}
        BY <2>3 DEF WriteLine, Tail_
      <4>. QED  BY <4>1, <4>2
    <3>3. CASE ShortWrite(w)
      <4>1. PICK left \in ShortWrites :
              files' = [files EXCEPT ![s][m] = WritePart(files[s][m], event[w], left)]
        BY <2>1, <3>3 DEF ShortWrite
      <4>2. s \in torn'
        BY <2>1, <3>3 DEF ShortWrite
      <4>. QED  BY <4>1, <4>2
    <3>. QED  BY <1>2, <3>1, <3>2, <3>3
  <2>5. ASSUME NEW t \in Scans, NEW n \in Partitions,
               files'[t][n].tail \in {"unterminated", "garbage"}
        PROVE  t \in torn'
    <3>1. CASE t = s /\ n = m
      <4>1. files'[t][n] = new
        BY <2>2, <2>4, <3>1 DEF TypeInv, TypeOK
      <4>. QED  BY <1>0, <2>2, <2>4, <2>5, <3>1, <4>1 DEF TornOK
    <3>2. CASE ~(t = s /\ n = m)
      <4>1. files'[t][n] = files[t][n]
        BY <2>2, <2>4, <3>2 DEF TypeInv, TypeOK
      <4>. QED  BY <1>0, <2>5, <4>1 DEF TornOK
    <3>. QED  BY <3>1, <3>2
  <2>. QED  BY <2>5 DEF TornOK
<1>. QED  BY <1>1, <1>2, JournalsChange

(* An event whose append returned is served to every later reader of its   *)
(* scan, also while a rebuild has the index files deleted and after one    *)
(* died half-way; where a short write tore the journal, and there only,    *)
(* the record is known to be at its place in the file, which may no longer *)
(* parse.                                                                  *)
THEOREM AcknowledgedIsFound == Spec => []AckedFound
<1>1. ASSUME StoreInv, TornOK PROVE AckedFound
  <2>. SUFFICES ASSUME NEW s \in Scans, NEW e \in acked[s]
                PROVE  /\ \E m \in Partitions : /\ Located(s) = {m}
                                                /\ e.sequence \in 1..Len(files[s][m].lines)
                                                /\ files[s][m].lines[e.sequence] = e
                       /\ Readable(s) \/ s \in torn
    BY DEF AckedFound
  <2>1. PICK m \in Partitions : At(s, m, e)
    BY <1>1 DEF StoreInv, StoredInv, Shown, InJournal
  <2>2. files[s][m].lines \in Seq(Event)
    BY <1>1 DEF StoreInv, TypeInv, TypeOK
  <2>3. Len(files[s][m].lines) # 0
    BY <2>1, <2>2 DEF At
  <2>4. Located(s) = {m}
    BY <1>1, <2>3, OnlyJournal DEF StoreInv
  <2>5. Parses(files[s][m]) \/ s \in torn
    BY <1>1 DEF TornOK, Parses
  <2>6. VerifyChain(files[s][m].lines)
    BY <1>1 DEF StoreInv, JournalInv, ChainIntact
  <2>. QED  BY <2>1, <2>4, <2>5, <2>6 DEF At, Readable
<1>2. Init => TornOK
  BY DEF Init, TornOK, NoFile
<1>3. StoreInv /\ TornOK /\ [Next]_vars => TornOK'
  BY StepTorn DEF StoreInv
<1>. QED  BY <1>1, <1>2, <1>3, StoreInvariant, PTL DEF Spec

(* A snapshot file, whoever wrote it last, shows an event of its journal.  *)
THEOREM SnapshotsAreFaithful == Spec => []SnapshotFaithful
<1>1. StoreInv => SnapshotFaithful
  BY DEF StoreInv, StoredInv, Shown, InJournal, At, SnapshotFaithful
<1>. QED  BY <1>1, StoreInvariant, PTL

-----------------------------------------------------------------------------
(* The log.                                                                *)

LEMMA LogOfJournal ==
  ASSUME TypeInv, JournalInv, NEW s \in Scans, NEW m \in Partitions, Existing(s) \subseteq {m}
  PROVE  LogOf(s) = files[s][m].lines
<1>1. CASE Existing(s) = {}
  BY <1>1 DEF LogOf, Existing, JournalInv, FilesOK
<1>2. CASE Existing(s) # {}
  <2>1. Existing(s) = {m}
    BY <1>2
  <2>. QED  BY <2>1 DEF LogOf
<1>. QED  BY <1>1, <1>2

(* The partition that holds, or would hold, the journal of a scan.         *)
LEMMA HomeOf ==
  ASSUME TypeInv, JournalInv, NEW s \in Scans
  PROVE  \E m \in Partitions : Existing(s) \subseteq {m}
<1>1. CASE Existing(s) = {}
  BY <1>1 DEF TypeInv, TypeOK
<1>2. CASE Existing(s) # {}
  BY <1>2 DEF JournalInv, OneJournal, Existing
<1>. QED  BY <1>1, <1>2

(* The history of a scan moves only by the event of a thread that writes.  *)
LEMMA LogsGrow ==
  ASSUME TypeInv, JournalInv, [Next]_vars, TypeInv', JournalInv'
  PROVE  \/ \A s \in Scans : LogOf(s)' = LogOf(s)
         \/ \E w \in Writers :
              /\ pc[w] = "write" /\ UNCHANGED acked /\ call[w].scan \in Scans
              /\ \A s \in Scans : LogOf(s)' = IF s = call[w].scan THEN Append(LogOf(s), event[w])
                                                                  ELSE LogOf(s)
<1>0. ASSUME NEW s \in Scans, NEW m \in Partitions, Len(files'[s][m].lines) # 0
      PROVE  Existing(s)' = {m}
  <2>1. files'[s][m].tail # "absent"
    BY <1>0 DEF JournalInv, FilesOK
  <2>. QED  BY <2>1 DEF Existing, JournalInv, OneJournal
<1>1. ASSUME NEW s \in Scans, \A m \in Partitions : files'[s][m].lines = files[s][m].lines
      PROVE  LogOf(s)' = LogOf(s)
  <2>1. CASE \E m \in Partitions : files[s][m].lines # <<>>
    <3>1. PICK m \in Partitions : files[s][m].lines # <<>>
      BY <2>1
    <3>2. files[s][m].lines \in Seq(Event) /\ files'[s][m].lines = files[s][m].lines
      BY <1>1 DEF TypeInv, TypeOK
    <3>3. Len(files[s][m].lines) # 0
      BY <3>1, <3>2
    <3>4. Existing(s) = {m} /\ Existing(s)' = {m}
      BY <1>0, <3>2, <3>3, OnlyJournal
    <3>. QED  BY <3>2, <3>4 DEF LogOf
  <2>2. CASE \A m \in Partitions : files[s][m].lines = <<>>
    BY <1>1, <2>2 DEF LogOf, Existing
  <2>. QED  BY <2>1, <2>2
<1>2. ASSUME NEW w \in Writers, pc[w] = "write", UNCHANGED acked,
             \A s \in Scans, m \in Partitions :
               files'[s][m].lines = IF s = call[w].scan /\ m = path[w]
                                    THEN Append(files[s][m].lines, event[w])
                                    ELSE files[s][m].lines
      PROVE  /\ call[w].scan \in Scans
             /\ \A s \in Scans : LogOf(s)' = IF s = call[w].scan THEN Append(LogOf(s), event[w])
                                                                 ELSE LogOf(s)
  <2>1. PICK s, m : s = call[w].scan /\ m = path[w]
    OBVIOUS
  <2>2. s \in Scans /\ m \in Partitions /\ Existing(s) \subseteq {m} /\ event[w] \in Event
    BY <1>2, <2>1 DEF TypeInv, LocalsOK, Procs, JournalInv, PreparedOK, Prepared
  <2>3. LogOf(s) = files[s][m].lines /\ files[s][m].lines \in Seq(Event)
    <3>1. files[s][m].lines \in Seq(Event)
      BY <2>2 DEF TypeInv, TypeOK
    <3>2. LogOf(s) = files[s][m].lines
      BY <2>2, LogOfJournal
    <3>. QED  BY <3>1, <3>2
  <2>4. files'[s][m].lines = Append(files[s][m].lines, event[w])
    BY <1>2, <2>1, <2>2
  <2>5. Len(files'[s][m].lines) # 0
    BY <2>2, <2>3, <2>4
  <2>6. Existing(s)' = {m}
    BY <1>0, <2>2, <2>5
  <2>7. LogOf(s)' = Append(LogOf(s), event[w])
    BY <2>3, <2>4, <2>6 DEF LogOf
  <2>. QED  BY <1>1, <1>2, <2>1, <2>2, <2>7
<1>. QED  BY <1>1, <1>2, JournalsGrow
(* Only an append that returns is acknowledged.                            *)
LEMMA OthersAcknowledgeNothing ==
  ASSUME [Next]_vars, ~\E w \in Writers : WriteSnapshot(w)
  PROVE  UNCHANGED acked
<1>. USE DEF disk, locks, local, hist
<1>1. ASSUME NEW w \in Writers, AppendStep(w) \/ ShortWrite(w)
      PROVE  UNCHANGED acked
  BY <1>1 DEF AppendStep, Acquire, Refuse, Prepare, Open, Write, ShortWrite
<1>2. ASSUME NEW p \in Procs, IndexStep(p) \/ Die(p)
      PROVE  UNCHANGED acked
  BY <1>2 DEF IndexStep, IndexLock, ReadIndex, WriteIndex, Die
<1>3. ASSUME NEW r \in Rebuilders, StartRebuild(r) \/ RebuildStep(r)
      PROVE  UNCHANGED acked
  BY <1>3 DEF StartRebuild, RebuildStep, Unlink, List, ReadJournal, Replay, NothingListed,
              SnapshotRead, SnapshotWrite
<1>4. ASSUME NEW w \in Writers, NEW s \in Scans, NEW status \in Statuses, NEW opening \in BOOLEAN,
             Begin(w, s, status, opening)
      PROVE  UNCHANGED acked
  BY <1>4 DEF Begin
<1>5. ASSUME NextMonth \/ UNCHANGED vars
      PROVE  UNCHANGED acked
  BY <1>5 DEF NextMonth, vars
<1>. QED  BY <1>1, <1>2, <1>3, <1>4, <1>5 DEF Next

(* The empty store shows empty histories.                                  *)
LEMMA LogInit == Init => Log!Init
<1>. SUFFICES ASSUME Init PROVE Log!Init
  OBVIOUS
<1>1. \A s \in Scans : LogOf(s) = <<>>
  BY DEF Init, LogOf, Existing, NoFile
<1>. QED  BY <1>1 DEF Init, Log!Init

(* The event of a thread that writes is the one the log calls for.         *)
LEMMA WritingExtends ==
  ASSUME StoreInv, NEW w \in Writers, pc[w] = "write"
  PROVE  \E hash \in 1..MaxAppends, status \in Statuses, opening \in BOOLEAN :
           /\ event[w] = Log!Seal(LogOf(call[w].scan), hash, status, opening)
           /\ opening => LogOf(call[w].scan) = <<>>
<1>1. /\ call[w].scan \in Scans /\ path[w] \in Partitions /\ event[w] \in Event
      /\ Prepared(w) /\ event[w].hash \in 1..MaxAppends
  BY DEF StoreInv, TypeInv, LocalsOK, Procs, JournalInv, PreparedOK, StoredInv, Stored, Minted
<1>2. LogOf(call[w].scan) = files[call[w].scan][path[w]].lines
  BY <1>1, LogOfJournal DEF Prepared, StoreInv
<1>3. PICK e, log : e = event[w] /\ log = LogOf(call[w].scan)
  OBVIOUS
<1>4. e \in Event /\ e.sequence = NextSequence(log) /\ e.previous = HeadHash(log) /\ (e.opening => log = <<>>)
  BY <1>1, <1>2, <1>3 DEF Prepared
<1>5. e = Log!Seal(log, e.hash, e.status, e.opening)
  BY <1>4 DEF Log!Seal, Log!NextSequence, Log!HeadHash, NextSequence, HeadHash, Event, Genesis, Log!Genesis
<1>6. e.hash \in 1..MaxAppends /\ e.status \in Statuses /\ e.opening \in BOOLEAN
  BY <1>1, <1>3, <1>4 DEF Event
<1>. QED  BY <1>3, <1>4, <1>5, <1>6

(* Every step of the store extends one history by one event, acknowledges  *)
(* one, or is not seen in the log.                                         *)
LEMMA LogStep ==
  ASSUME StoreInv, StoreInv', [Next]_vars
  PROVE  [Log!Next]_(<<[s \in Scans |-> LogOf(s)], acked>>)
<1>. DEFINE log == [s \in Scans |-> LogOf(s)]
<1>1. CASE \E w \in Writers : WriteSnapshot(w)
  <2>1. PICK w \in Writers : WriteSnapshot(w)
    BY <1>1
  <2>2. /\ pc[w] = "snapshot" /\ UNCHANGED files /\ call[w].scan \in Scans
        /\ acked' = [acked EXCEPT ![call[w].scan] = @ \cup {event[w]}]
    BY <2>1 DEF WriteSnapshot, StoreInv, TypeInv, LocalsOK, Procs
  <2>3. PICK s, e : s = call[w].scan /\ e = event[w]
    OBVIOUS
  <2>4. InJournal(s, e) /\ s \in Scans
    BY <2>2, <2>3 DEF StoreInv, StoredInv, Stored, Held, Holding, Procs
  <2>5. PICK m \in Partitions : At(s, m, e)
    BY <2>4 DEF InJournal
  <2>6. files[s][m].lines \in Seq(Event)
    BY <2>4 DEF StoreInv, TypeInv, TypeOK
  <2>7. Len(files[s][m].lines) # 0
    BY <2>5, <2>6 DEF At
  <2>8. LogOf(s) = files[s][m].lines
    BY <2>4, <2>7, OnlyJournal, LogOfJournal DEF StoreInv
  <2>9. e.sequence \in 1..Len(log[s]) /\ log[s][e.sequence] = e
    BY <2>4, <2>5, <2>8 DEF At
  <2>10. \A t \in Scans : LogOf(t)' = LogOf(t)
    BY <2>2 DEF LogOf, Existing
  <2>11. log' = log
    BY <2>10
  <2>12. acked' = [acked EXCEPT ![s] = @ \cup {log[s][e.sequence]}]
    BY <2>2, <2>3, <2>9
  <2>13. Log!Acknowledge(s, e.sequence)
    BY <2>11, <2>12 DEF Log!Acknowledge
  <2>. QED  BY <2>4, <2>9, <2>13 DEF Log!Next
<1>2. CASE \A s \in Scans : LogOf(s)' = LogOf(s)
  <2>1. log' = log
    BY <1>2
  <2>. QED  BY <1>1, <2>1, OthersAcknowledgeNothing
<1>3. ASSUME NEW w \in Writers, pc[w] = "write", UNCHANGED acked, call[w].scan \in Scans,
             \A s \in Scans : LogOf(s)' = IF s = call[w].scan THEN Append(LogOf(s), event[w])
                                                              ELSE LogOf(s)
      PROVE  Log!Next
  <2>1. PICK hash \in 1..MaxAppends, status \in Statuses, opening \in BOOLEAN :
          /\ event[w] = Log!Seal(LogOf(call[w].scan), hash, status, opening)
          /\ opening => LogOf(call[w].scan) = <<>>
    BY <1>3, WritingExtends
  <2>2. PICK s \in Scans : s = call[w].scan
    BY <1>3
  <2>3. event[w] = Log!Seal(log[s], hash, status, opening) /\ (opening => log[s] = <<>>)
    BY <2>1, <2>2
  <2>4. log' = [log EXCEPT ![s] = Append(@, event[w])]
    BY <1>3, <2>2
  <2>. HIDE DEF log
  <2>5. log' = [log EXCEPT ![s] = Append(@, Log!Seal(@, hash, status, opening))]
    BY <2>3, <2>4
  <2>6. Log!Extend(s, hash, status, opening)
    BY <1>3, <2>3, <2>5 DEF Log!Extend, log
  <2>. QED  BY <2>6 DEF Log!Next
<1>. QED  BY <1>2, <1>3, LogsGrow DEF StoreInv

(* Files, locks, indexes, partitions, crashes and rebuilds implement the   *)
(* log: one history per scan that only grows at its end, opened at most    *)
(* once, with success told only of events that are in it.                  *)
THEOREM StoreImplementsLog == Spec => ImplementsLog
  BY LogInit, LogStep, StoreInvariant, PTL DEF Spec, ImplementsLog, Log!Spec, Log!lvars
=============================================================================
