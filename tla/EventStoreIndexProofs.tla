------------------------ MODULE EventStoreIndexProofs -------------------------
(***************************************************************************)
(* Proofs about the index files, the snapshots and the latest list of      *)
(* EventStore, for any number of threads, rebuilds, months, appends and    *)
(* any finite set of scans: undamaged, the files tell what the journals    *)
(* say (ProjectionsTrue), and a caller that was alone finds its event last *)
(* in them (LatestAlone).                                                  *)
(***************************************************************************)
EXTENDS EventStoreProofs, MCEventStore, FiniteSetTheorems

-----------------------------------------------------------------------------
(***************************************************************************)
(* The projections: what the four index files say of one scan.             *)
(***************************************************************************)
Distinct(list) == \A i, j \in 1..Len(list) : list[i].scan = list[j].scan => i = j

(* The content of an index file says of scan s that its status is st.      *)
Shows(name, content, s, st) ==
  CASE name = "scan"   -> content[s] # NONE /\ content[s].status = st
    [] name = "chip"   -> s \in content
    [] name = "status" -> {x \in Statuses : s \in content[x]} = {st}
    [] name = "latest" -> Cardinality(Scans) <= LatestCap =>
                            \E i \in 1..Len(content) : content[i].scan = s /\ content[i].status = st

(* latest.json less a scan, and with a scan in front.                      *)
Removed(rest, latest, s) ==
  /\ rest \in Seq(Item) /\ Distinct(rest)
  /\ \A i \in 1..Len(rest) : rest[i].scan # s
  /\ \A j \in 1..Len(latest) : latest[j].scan # s => \E i \in 1..Len(rest) : rest[i] = latest[j]

Fronted(new, latest, s, status) ==
  /\ new \in Seq(Item) /\ Distinct(new)
  /\ 1 \in 1..Len(new) /\ new[1] = [scan |-> s, status |-> status]
  /\ Cardinality(Scans) <= LatestCap =>
       \A j \in 1..Len(latest) : latest[j].scan # s => \E i \in 1..Len(new) : new[i] = latest[j]

(* What is left of latest.json without one of its scans.                   *)
LEMMA WithoutFacts ==
  ASSUME NEW latest \in Seq(Item), Distinct(latest), NEW s \in Scans,
         NEW rest, rest = Without(latest, s)
  PROVE  Removed(rest, latest, s)
<1>. DEFINE at == {i \in 1..Len(latest) : latest[i].scan = s}
<1>1. CASE at = {}
  <2>1. rest = latest
    BY <1>1 DEF Without
  <2>. QED  BY <1>1, <2>1 DEF Removed
<1>2. CASE at # {}
  <2>1. PICK k : k = CHOOSE i \in at : TRUE
    OBVIOUS
  <2>2. k \in 1..Len(latest) /\ latest[k].scan = s
    BY <1>2, <2>1
  <2>3. PICK a, b : a = SubSeq(latest, 1, k-1) /\ b = SubSeq(latest, k+1, Len(latest))
    OBVIOUS
  <2>4. rest = a \o b
    BY <1>2, <2>1, <2>3 DEF Without
  <2>5. a \in Seq(Item) /\ Len(a) = k-1 /\ \A i \in 1..(k-1) : a[i] = latest[i]
    <3>1. \A i \in 1..(k-1) : latest[i] \in Item
      BY <2>2
    <3>. QED  BY <2>2, <2>3, <3>1, SubSeqProperties, 1 \in Int, k-1 \in Int
  <2>6. /\ b \in Seq(Item) /\ Len(b) = Len(latest) - k
        /\ \A i \in 1..(Len(latest) - k) : b[i] = latest[k+i]
    <3>1. \A i \in (k+1)..Len(latest) : latest[i] \in Item
      BY <2>2
    <3>2. k+1 \in Int /\ Len(latest) \in Int
      BY <2>2
    <3>3. /\ b \in Seq(Item)
          /\ Len(b) = IF k+1 <= Len(latest) THEN Len(latest)-(k+1)+1 ELSE 0
          /\ \A i \in 1..(Len(latest)-(k+1)+1) : b[i] = latest[(k+1)+i-1]
      BY <2>3, <3>1, <3>2, SubSeqProperties
    <3>. QED  BY <2>2, <3>2, <3>3
  <2>7. /\ rest \in Seq(Item) /\ Len(rest) = Len(latest) - 1
        /\ \A i \in 1..Len(rest) : rest[i] = IF i < k THEN latest[i] ELSE latest[i+1]
    <3>1. /\ rest \in Seq(Item) /\ Len(rest) = Len(a) + Len(b)
          /\ \A i \in 1..(Len(a) + Len(b)) : rest[i] = IF i <= Len(a) THEN a[i] ELSE b[i - Len(a)]
      <4>1. a \in Seq(Item) /\ b \in Seq(Item)
        BY <2>5, <2>6
      <4>2. a \o b \in Seq(Item) /\ Len(a \o b) = Len(a) + Len(b)
        BY <4>1, ConcatProperties
      <4>3. \A i \in 1..(Len(a) + Len(b)) :
              (a \o b)[i] = IF i <= Len(a) THEN a[i] ELSE b[i - Len(a)]
        BY <4>1, ConcatProperties
      <4>. QED  BY <2>4, <4>2, <4>3
    <3>2. Len(rest) = Len(latest) - 1
      BY <2>2, <2>5, <2>6, <3>1
    <3>3. ASSUME NEW i \in 1..Len(rest)
          PROVE  rest[i] = IF i < k THEN latest[i] ELSE latest[i+1]
      <4>0. PICK n : n = Len(latest) /\ n \in Nat
        OBVIOUS
      <4>a. /\ k \in Int /\ i \in Int /\ i \in 1..(n-1) /\ Len(a) = k-1 /\ Len(b) = n-k
            /\ rest[i] = IF i <= k-1 THEN a[i] ELSE b[i - (k-1)]
        BY <2>2, <2>5, <2>6, <3>1, <3>2, <4>0
      <4>1. CASE i < k
        <5>1. i \in 1..(k-1) /\ i <= k-1
          BY <4>a, <4>1
        <5>2. a[i] = latest[i]
          BY <2>5, <5>1
        <5>. QED  BY <4>a, <4>1, <5>1, <5>2
      <4>2. CASE i >= k
        <5>1. /\ i - (k-1) \in 1..(n-k) /\ k + (i - (k-1)) = i + 1
              /\ ~(i <= k-1) /\ ~(i < k)
          BY <4>0, <4>a, <4>2
        <5>2. b[i - (k-1)] = latest[k + (i - (k-1))]
          BY <2>6, <4>0, <5>1
        <5>. QED  BY <4>a, <5>1, <5>2
      <4>. QED  BY <2>2, <4>1, <4>2
    <3>. QED  BY <3>1, <3>2, <3>3
  <2>8. \A i \in 1..Len(rest) : rest[i].scan # s
    BY <2>2, <2>7 DEF Distinct
  <2>9. Distinct(rest)
    <3>1. PICK n, l : n = Len(latest) /\ l = Len(rest)
      OBVIOUS
    <3>2. n \in Nat
      BY <3>1
    <3>. DEFINE place(i) == IF i < k THEN i ELSE i+1
    <3>3. l = n-1 /\ k \in 1..n
      BY <2>2, <2>7, <3>1
    <3>4. ASSUME NEW i \in 1..l
          PROVE  place(i) \in 1..n /\ rest[i] = latest[place(i)]
      <4>1. rest[i] = IF i < k THEN latest[i] ELSE latest[i+1]
        BY <2>7, <3>1
      <4>2. i \in 1..n /\ i+1 \in 1..n
        BY <3>1, <3>2, <3>3
      <4>. QED  BY <4>1, <4>2
    <3>5. ASSUME NEW i \in 1..l, NEW j \in 1..l, place(i) = place(j)
          PROVE  i = j
      BY <3>1, <3>2, <3>3, <3>5
    <3>6. ASSUME NEW i \in 1..l, NEW j \in 1..l, rest[i].scan = rest[j].scan
          PROVE  i = j
      <4>1. latest[place(i)].scan = latest[place(j)].scan
        BY <3>4, <3>6
      <4>2. place(i) = place(j)
        BY <3>1, <3>4, <4>1 DEF Distinct
      <4>. QED  BY <3>5, <4>2
    <3>. QED  BY <3>1, <3>6 DEF Distinct
  <2>10. ASSUME NEW j \in 1..Len(latest), latest[j].scan # s
         PROVE  \E i \in 1..Len(rest) : rest[i] = latest[j]
    <3>1. CASE j < k
      BY <2>2, <2>7, <3>1
    <3>2. CASE j > k
      <4>1. j - 1 \in 1..Len(rest) /\ rest[j-1] = latest[j]
        BY <2>2, <2>7, <3>2
      <4>. QED  BY <4>1
    <3>. QED  BY <2>2, <2>10, <3>1, <3>2
  <2>. QED  BY <2>7, <2>8, <2>9, <2>10 DEF Removed
<1>. QED  BY <1>1, <1>2

(* A list that names each scan once is not longer than there are scans.    *)
LEMMA DistinctIsShort ==
  ASSUME NEW list \in Seq(Item), Distinct(list)
  PROVE  Cardinality(Scans) \in Nat /\ Len(list) <= Cardinality(Scans)
<1>1. PICK f : f = [i \in 1..Len(list) |-> list[i].scan]
  OBVIOUS
<1>2. f \in Injection(1..Len(list), Scans)
  <2>0. \A i \in 1..Len(list) : list[i] \in Item
    OBVIOUS
  <2>1. \A i \in 1..Len(list) : list[i].scan \in Scans
    BY <2>0 DEF Item
  <2>2. f \in [1..Len(list) -> Scans]
    BY <1>1, <2>1, Zenon
  <2>3. \A i, j \in 1..Len(list) : f[i] = f[j] => i = j
    BY <1>1 DEF Distinct
  <2>. QED  BY <2>2, <2>3 DEF Injection, IsInjective
<1>3. Cardinality(1..Len(list)) <= Cardinality(Scans) /\ IsFiniteSet(1..Len(list))
  BY <1>2, IndexAssumption, FS_Injection
<1>4. Cardinality(1..Len(list)) = Len(list)
  <2>1. Len(list) \in Nat
    OBVIOUS
  <2>2. Cardinality(1..Len(list)) = IF 1 > Len(list) THEN 0 ELSE Len(list)-1+1
    BY <2>1, 1 \in Int, Len(list) \in Int, FS_Interval
  <2>. QED  BY <2>1, <2>2
<1>. QED  BY <1>3, <1>4, IndexAssumption, FS_CardinalityType

(* A scan moved to the front of latest.json drives none out that fits.     *)
LEMMA MoveToFrontFacts ==
  ASSUME NEW latest \in Seq(Item), Distinct(latest), NEW s \in Scans, NEW status \in Statuses,
         NEW new, new = MoveToFront(latest, s, status)
  PROVE  Fronted(new, latest, s, status)
<1>1. PICK rest : rest = Without(latest, s)
  OBVIOUS
<1>0. Removed(rest, latest, s)
  BY <1>1, WithoutFacts
<1>2. /\ rest \in Seq(Item) /\ Distinct(rest)
      /\ \A i \in 1..Len(rest) : rest[i].scan # s
      /\ \A j \in 1..Len(latest) : latest[j].scan # s =>
           \E i \in 1..Len(rest) : rest[i] = latest[j]
  BY <1>0 DEF Removed
<1>3. PICK front : front = <<[scan |-> s, status |-> status]>>
  OBVIOUS
<1>4. front \in Seq(Item) /\ Len(front) = 1 /\ front[1] = [scan |-> s, status |-> status]
  BY <1>3 DEF Item
<1>5. PICK list : list = front \o rest
  OBVIOUS
<1>6. /\ list \in Seq(Item) /\ Len(list) = 1 + Len(rest)
      /\ list[1] = [scan |-> s, status |-> status]
      /\ \A i \in 1..Len(rest) : list[1 + i] = rest[i]
  <2>1. /\ list \in Seq(Item) /\ Len(list) = Len(front) + Len(rest)
        /\ \A i \in 1..(Len(front) + Len(rest)) :
             list[i] = IF i <= Len(front) THEN front[i] ELSE rest[i - Len(front)]
    BY <1>2, <1>4, <1>5, ConcatProperties
  <2>2. list[1] = front[1]
    BY <1>2, <1>4, <2>1
  <2>3. \A i \in 1..Len(rest) : list[1 + i] = rest[i]
    BY <1>2, <1>4, <2>1
  <2>. QED  BY <1>4, <2>1, <2>2, <2>3
<1>7. Distinct(list)
  <2>1. \A i \in 2..Len(list) : i - 1 \in 1..Len(rest) /\ list[i] = rest[i-1]
    BY <1>2, <1>6
  <2>2. ASSUME NEW i \in 1..Len(list), NEW j \in 1..Len(list), list[i].scan = list[j].scan
        PROVE  i = j
    <3>1. CASE i = 1 /\ j = 1
      BY <3>1
    <3>2. CASE i = 1 /\ j # 1
      <4>1. j \in 2..Len(list)
        BY <3>2
      <4>2. list[j].scan # s
        BY <1>2, <2>1, <4>1
      <4>. QED  BY <1>6, <2>2, <3>2, <4>2
    <3>3. CASE i # 1 /\ j = 1
      <4>1. i \in 2..Len(list)
        BY <3>3
      <4>2. list[i].scan # s
        BY <1>2, <2>1, <4>1
      <4>. QED  BY <1>6, <2>2, <3>3, <4>2
    <3>4. CASE i # 1 /\ j # 1
      <4>1. i \in 2..Len(list) /\ j \in 2..Len(list)
        BY <3>4
      <4>2. /\ i-1 \in 1..Len(rest) /\ list[i] = rest[i-1]
            /\ j-1 \in 1..Len(rest) /\ list[j] = rest[j-1]
        BY <2>1, <4>1
      <4>3. rest[i-1].scan = rest[j-1].scan
        BY <2>2, <4>2
      <4>4. i-1 = j-1
        BY <1>2, <4>2, <4>3 DEF Distinct
      <4>. QED  BY <4>4
    <3>. QED  BY <3>1, <3>2, <3>3, <3>4
  <2>. QED  BY <2>2 DEF Distinct
<1>8. PICK n : n = IF Len(list) < LatestCap THEN Len(list) ELSE LatestCap
  OBVIOUS
<1>9. new = SubSeq(list, 1, n) /\ n \in Nat \ {0} /\ n <= Len(list)
  BY <1>1, <1>3, <1>5, <1>6, <1>8, StoreAssumption DEF MoveToFront
<1>10. /\ new \in Seq(Item) /\ Len(new) = n
       /\ \A i \in 1..n : new[i] = list[i]
  <2>1. \A i \in 1..n : list[i] \in Item
    BY <1>6, <1>9
  <2>2. /\ new \in Seq(Item) /\ Len(new) = IF 1 <= n THEN n-1+1 ELSE 0
        /\ \A i \in 1..(n-1+1) : new[i] = list[1+i-1]
    BY <1>9, <2>1, SubSeqProperties, 1 \in Int
  <2>. QED  BY <1>9, <2>2
<1>11. Distinct(new) /\ 1 \in 1..Len(new) /\ new[1] = [scan |-> s, status |-> status]
  BY <1>6, <1>7, <1>9, <1>10 DEF Distinct
<1>12. ASSUME Cardinality(Scans) <= LatestCap, NEW j \in 1..Len(latest), latest[j].scan # s
       PROVE  \E i \in 1..Len(new) : new[i] = latest[j]
  <2>1. n = Len(list)
    BY <1>6, <1>7, <1>8, <1>12, DistinctIsShort, StoreAssumption
  <2>2. PICK i \in 1..Len(rest) : rest[i] = latest[j]
    BY <1>2, <1>12
  <2>3. 1 + i \in 1..Len(new) /\ new[1 + i] = latest[j]
    BY <1>2, <1>6, <1>10, <2>1, <2>2
  <2>. QED  BY <2>3
<1>. QED  BY <1>10, <1>11, <1>12 DEF Fronted

(* The file that is updated for an event says what the event says.         *)
LEMMA UpdateShows ==
  ASSUME NEW idx \in Index, Distinct(idx.latest), NEW s \in Scans, NEW m \in Partitions,
         NEW e \in Event, NEW c \in 1..4, NEW name, name = IndexFile[c],
         NEW new, new = Updated(name, idx[name], s, m, e)
  PROVE  /\ Shows(name, new, s, e.status)
         /\ \A x \in Scans \ {s} : \A st \in Statuses :
              Shows(name, idx[name], x, st) => Shows(name, new, x, st)
         /\ name = "latest" => Distinct(new)
<1>0. e.status \in Statuses
  BY DEF Event
<1>1. CASE c = 1
  <2>1. name = "scan"
    BY <1>1 DEF IndexFile
  <2>2. PICK entry : entry = [month |-> m, sequence |-> e.sequence, status |-> e.status]
    OBVIOUS
  <2>3. new = [idx.scan EXCEPT ![s] = entry]
    BY <2>1, <2>2 DEF Updated, Entered
  <2>4. entry \in Entry /\ entry.status = e.status
    BY <2>2 DEF Entry, Event
  <2>5. entry # NONE
    BY <2>4, IndexAssumption
  <2>. QED  BY <2>1, <2>3, <2>4, <2>5 DEF Shows, Index
<1>2. CASE c = 2
  <2>1. name = "chip"
    BY <1>2 DEF IndexFile
  <2>. QED  BY <2>1 DEF Shows, Updated, Index
<1>3. CASE c = 3
  <2>1. name = "status"
    BY <1>3 DEF IndexFile
  <2>2. new = Listed(idx.status, s, e.status)
    BY <2>1 DEF Updated
  <2>3. idx.status \in [Statuses -> SUBSET Scans]
    BY DEF Index
  <2>. QED  BY <1>0, <2>1, <2>2, <2>3 DEF Shows, Listed
<1>4. CASE c = 4
  <2>1. name = "latest"
    BY <1>4 DEF IndexFile
  <2>2. new = MoveToFront(idx.latest, s, e.status)
    BY <2>1 DEF Updated
  <2>3. idx.latest \in Seq(Item)
    BY DEF Index
  <2>4. PICK latest : latest = idx.latest
    OBVIOUS
  <2>5. Fronted(new, latest, s, e.status)
    BY <1>0, <2>2, <2>3, <2>4, MoveToFrontFacts
  <2>6. Shows(name, new, s, e.status)
    BY <2>1, <2>5 DEF Shows, Fronted
  <2>7. ASSUME NEW x \in Scans \ {s}, NEW st \in Statuses, Shows(name, latest, x, st)
        PROVE  Shows(name, new, x, st)
    BY <2>1, <2>5, <2>7 DEF Shows, Fronted
  <2>. QED  BY <2>1, <2>4, <2>5, <2>6, <2>7 DEF Fronted
<1>. QED  BY <1>1, <1>2, <1>3, <1>4

(* One of the four files is replaced, the others stay.                     *)
Replaced(new, idx, c, v) ==
  \A d \in 1..4 : new[IndexFile[d]] = IF d = c THEN v ELSE idx[IndexFile[d]]

(* Writing the file of step c replaces that file and no other.             *)
LEMMA FileReplaced ==
  ASSUME NEW idx \in Index, NEW c \in 1..4, NEW v
  PROVE  Replaced([idx EXCEPT ![IndexFile[c]] = v], idx, c, v)
<1>. DEFINE new == [idx EXCEPT ![IndexFile[c]] = v]
<1>1. DOMAIN idx = {"scan", "chip", "status", "latest"}
  BY DEF Index
<1>2. /\ IndexFile[1] = "scan" /\ IndexFile[2] = "chip"
      /\ IndexFile[3] = "status" /\ IndexFile[4] = "latest"
  BY DEF IndexFile
<1>3. \A d \in 1..4 : d = 1 \/ d = 2 \/ d = 3 \/ d = 4
  OBVIOUS
<1>4. \A d \in 1..4 : IndexFile[d] \in DOMAIN idx /\ (IndexFile[d] = IndexFile[c] => d = c)
  BY <1>1, <1>2, <1>3
<1>5. \A x \in DOMAIN idx : new[x] = IF x = IndexFile[c] THEN v ELSE idx[x]
  OBVIOUS
<1>. QED  BY <1>4, <1>5 DEF Replaced

-----------------------------------------------------------------------------
(* Who will still bring a scan up to date: a rebuild that deletes the      *)
(* files, or has events of the scan ahead of it, and whoever waits for the *)
(* lock of the index with an event of the scan.                            *)
Updating == {"readindex", "writeindex"}

Ahead(r, s) ==
  \/ pc[r] \in {"unlink", "list"}
  \/ /\ pc[r] \in {"pick"} \cup Replaying
     /\ \E m \in Partitions : <<s, m>> \in todo[r] /\ Len(files[s][m].lines) # 0
  \/ pc[r] \in Replaying /\ call[r].scan = s /\ queue[r] # <<>>

Due(p, s) ==
  \/ p \in Rebuilders /\ Ahead(p, s)
  \/ pc[p] = "index" /\ call[p].scan = s

(* A file on the disk, or as p has read and changed it, shows st for s.    *)
OnDisk(c, s, st)    == Shows(IndexFile[c], index[IndexFile[c]], s, st)
InHand(p, c, s, st) == Shows(IndexFile[c], buf[p][IndexFile[c]], s, st)

AtWork(p, s, st) ==
  /\ call[p].scan = s => st = event[p].status
  /\ pc[p] = "readindex" =>
       \A c \in 1..4 : /\ c < cursor[p] => InHand(p, c, s, st)
                       /\ call[p].scan # s => OnDisk(c, s, st)
  /\ pc[p] = "writeindex" =>
       \A c \in 1..4 : /\ c >= cursor[p] => InHand(p, c, s, st)
                       /\ c < cursor[p] \/ call[p].scan # s => OnDisk(c, s, st)

Current(s, st) ==
  /\ \A p \in Procs : pc[p] \in Updating => AtWork(p, s, st)
  /\ (\A p \in Procs : pc[p] \notin Updating) => \A c \in 1..4 : OnDisk(c, s, st)

Registered(s) == \E m \in Partitions : Len(files[s][m].lines) # 0

(* What has events and is nobody's to do is told by all four files, or     *)
(* will be once the one that holds the lock is done.                       *)
Told(s) == Registered(s) /\ (\A p \in Procs : ~Due(p, s)) => \E st \in Statuses : Current(s, st)

Undamaged ==
  /\ \A s \in Scans, m \in Partitions : files[s][m].tail \in {"absent", "clean"}
  /\ \A r \in Rebuilders : pc[r] \in Replaying => \A i \in 1..Len(queue[r]) : queue[r][i] # NONE

LatestOK    == Distinct(index.latest) /\ \A p \in Procs : Distinct(buf[p].latest)
IndexLocked == \A p \in Procs : pc[p] \in Updating => indexLock = p

IndexInv ==
  /\ LatestOK /\ IndexLocked
  /\ faults = 0 => Undamaged /\ \A s \in Scans : Told(s)

-----------------------------------------------------------------------------
(* The lock, and the list of the latest scans.                             *)

(* A process that gives the store up leaves the latest list without        *)
(* duplicates and the index lock with whoever updates it.                  *)
LEMMA LeaveLatest ==
  ASSUME TypeInv, LatestOK, IndexLocked, NEW p \in Procs, Leave(p), UNCHANGED index
  PROVE  LatestOK' /\ IndexLocked'
<1>1. Distinct(EmptyIndex.latest)
  BY DEF EmptyIndex, Distinct
<1>2. LatestOK'
  BY <1>1 DEF LatestOK, Leave, TypeInv, TypeOK
<1>3. IndexLocked'
  BY DEF IndexLocked, Leave, Updating, TypeInv, TypeOK
<1>. QED  BY <1>2, <1>3

(* Every step keeps the latest lists without duplicates, and the index     *)
(* files are read and written only by the holder of the index lock.        *)
LEMMA StepLatest == TypeInv /\ LatestOK /\ IndexLocked /\ [Next]_vars => LatestOK' /\ IndexLocked'
<1>. SUFFICES ASSUME TypeInv, LatestOK, IndexLocked, [Next]_vars
              PROVE  LatestOK' /\ IndexLocked'
  OBVIOUS
<1>. USE DEF disk, locks, local, hist
<1>0. /\ pc \in [Procs -> PCs] /\ buf \in [Procs -> Index] /\ index \in Index
      /\ indexLock \in Procs \cup {NONE} /\ NONE \notin Procs
      /\ \A w \in Writers : w \in Procs
      /\ \A r \in Rebuilders : r \in Procs
  BY StoreAssumption DEF TypeInv, TypeOK, Procs
<1>1. ASSUME NEW p \in Procs, pc[p] \notin Updating, pc'[p] \notin Updating,
             \A q \in Procs \ {p} : pc'[q] = pc[q], UNCHANGED <<index, buf, indexLock>>
      PROVE  LatestOK' /\ IndexLocked'
  BY <1>1 DEF LatestOK, IndexLocked
<1>2. ASSUME NEW p \in Procs, Leave(p), UNCHANGED index
      PROVE  LatestOK' /\ IndexLocked'
  BY <1>2, LeaveLatest
<1>3. ASSUME NEW w \in Writers, NEW s \in Scans, NEW status \in Statuses, NEW opening \in BOOLEAN,
             Begin(w, s, status, opening)
      PROVE  LatestOK' /\ IndexLocked'
  BY <1>0, <1>1, <1>3 DEF Begin, Goto, Updating
<1>4. ASSUME NEW w \in Writers, Acquire(w) \/ Prepare(w) \/ Open(w)
      PROVE  LatestOK' /\ IndexLocked'
  BY <1>0, <1>1, <1>4 DEF Acquire, Prepare, Open, Goto, Updating
<1>5. ASSUME NEW w \in Writers, Write(w)
      PROVE  LatestOK' /\ IndexLocked'
  BY <1>0, <1>1, <1>5 DEF Write, Goto, Updating
<1>6. ASSUME NEW w \in Writers, Refuse(w) \/ WriteSnapshot(w) \/ ShortWrite(w)
      PROVE  LatestOK' /\ IndexLocked'
  BY <1>0, <1>2, <1>6 DEF Refuse, WriteSnapshot, ShortWrite
<1>7. ASSUME NEW p \in Procs, IndexLock(p)
      PROVE  LatestOK' /\ IndexLocked'
  <2>1. /\ pc[p] = "index" /\ pc'[p] = "readindex" /\ \A q \in Procs \ {p} : pc'[q] = pc[q]
        /\ indexLock = NONE /\ indexLock' = p /\ UNCHANGED <<index, buf>>
    BY <1>0, <1>7 DEF IndexLock, Goto
  <2>2. \A q \in Procs : pc[q] \notin Updating
    BY <1>0, <2>1 DEF IndexLocked
  <2>. QED  BY <2>1, <2>2 DEF LatestOK, IndexLocked
<1>8. ASSUME NEW p \in Procs, ReadIndex(p)
      PROVE  LatestOK' /\ IndexLocked'
  <2>1. PICK c, name, new : /\ c = cursor[p] /\ name = IndexFile[c]
                            /\ new = Updated(name, index[name], call[p].scan, path[p], event[p])
    OBVIOUS
  <2>2. /\ pc[p] = "readindex" /\ pc'[p] \in Updating /\ \A q \in Procs \ {p} : pc'[q] = pc[q]
        /\ UNCHANGED <<index, indexLock>>
        /\ buf'[p] = [buf[p] EXCEPT ![name] = new] /\ \A q \in Procs \ {p} : buf'[q] = buf[q]
    BY <1>0, <1>8, <2>1 DEF ReadIndex, Updating
  <2>3. /\ c \in 1..4 /\ call[p].scan \in Scans /\ path[p] \in Partitions /\ event[p] \in Event
        /\ buf[p] \in Index
    BY <1>0, <2>1, <2>2 DEF TypeInv, LocalsOK
  <2>4. name = "latest" => Distinct(new)
    BY <1>0, <2>1, <2>3, UpdateShows DEF LatestOK
  <2>5. buf'[p].latest = IF c = 4 THEN new ELSE buf[p].latest
    <3>1. Replaced(buf'[p], buf[p], c, new)
      BY <2>1, <2>2, <2>3, FileReplaced
    <3>2. IndexFile[4] = "latest"
      BY DEF IndexFile
    <3>. QED  BY <3>1, <3>2 DEF Replaced
  <2>6. c = 4 => name = "latest"
    BY <2>1 DEF IndexFile
  <2>7. LatestOK'
    BY <2>2, <2>4, <2>5, <2>6 DEF LatestOK
  <2>8. IndexLocked'
    BY <2>2 DEF IndexLocked, Updating
  <2>. QED  BY <2>7, <2>8
<1>9. ASSUME NEW p \in Procs, WriteIndex(p)
      PROVE  LatestOK' /\ IndexLocked'
  <2>1. PICK c, name : c = cursor[p] /\ name = IndexFile[c]
    OBVIOUS
  <2>2. /\ pc[p] = "writeindex" /\ \A q \in Procs \ {p} : pc'[q] = pc[q]
        /\ index' = [index EXCEPT ![name] = buf[p][name]]
        /\ c # 4 => UNCHANGED <<indexLock, buf>> /\ pc'[p] = "writeindex"
        /\ c = 4 => /\ pc'[p] \in {"snapshot", "replay"} /\ indexLock' = NONE
                    /\ buf' = [buf EXCEPT ![p] = EmptyIndex]
    BY <1>0, <1>9, <2>1 DEF WriteIndex
  <2>3. c \in 1..4 /\ indexLock = p
    BY <1>0, <2>1, <2>2 DEF TypeInv, LocalsOK, IndexLocked, Updating
  <2>4. index'.latest = IF c = 4 THEN buf[p].latest ELSE index.latest
    <3>1. Replaced(index', index, c, buf[p][name])
      BY <1>0, <2>1, <2>2, <2>3, FileReplaced
    <3>2. IndexFile[4] = "latest"
      BY DEF IndexFile
    <3>. QED  BY <2>1, <3>1, <3>2 DEF Replaced
  <2>5. Distinct(EmptyIndex.latest)
    BY DEF EmptyIndex, Distinct
  <2>6. LatestOK'
    BY <1>0, <2>2, <2>4, <2>5 DEF LatestOK
  <2>7. IndexLocked'
    BY <2>2, <2>3 DEF IndexLocked, Updating
  <2>. QED  BY <2>6, <2>7
<1>10. ASSUME NEW r \in Rebuilders, Unlink(r)
       PROVE  LatestOK' /\ IndexLocked'
  <2>1. PICK c, name : c = cursor[r] /\ name = IndexFile[c]
    OBVIOUS
  <2>2. /\ pc[r] = "unlink" /\ pc'[r] \in {"unlink", "list"} /\ \A q \in Procs \ {r} : pc'[q] = pc[q]
        /\ index' = [index EXCEPT ![name] = EmptyIndex[name]] /\ UNCHANGED <<indexLock, buf>>
    BY <1>0, <1>10, <2>1 DEF Unlink
  <2>3. c \in 1..4
    BY <1>0, <2>1, <2>2 DEF TypeInv, LocalsOK
  <2>4. index'.latest = IF c = 4 THEN EmptyIndex.latest ELSE index.latest
    <3>1. Replaced(index', index, c, EmptyIndex[name])
      BY <1>0, <2>1, <2>2, <2>3, FileReplaced
    <3>2. IndexFile[4] = "latest"
      BY DEF IndexFile
    <3>. QED  BY <2>1, <3>1, <3>2 DEF Replaced
  <2>5. Distinct(EmptyIndex.latest)
    BY DEF EmptyIndex, Distinct
  <2>6. LatestOK'
    BY <2>2, <2>4, <2>5 DEF LatestOK
  <2>7. IndexLocked'
    BY <1>0, <2>2 DEF IndexLocked, Updating
  <2>. QED  BY <2>6, <2>7
<1>11. ASSUME NEW r \in Rebuilders, StartRebuild(r) \/ List(r) \/ ReadJournal(r) \/ SnapshotWrite(r)
       PROVE  LatestOK' /\ IndexLocked'
  BY <1>0, <1>1, <1>11 DEF StartRebuild, List, ReadJournal, SnapshotWrite, Goto, Updating
<1>12. ASSUME NEW r \in Rebuilders, Replay(r) \/ NothingListed(r) \/ SnapshotRead(r)
       PROVE  LatestOK' /\ IndexLocked'
  <2>1. UNCHANGED index
    BY <1>12 DEF Replay, NothingListed, SnapshotRead
  <2>2. CASE ~Leave(r)
    <3>1. /\ pc[r] \notin Updating /\ pc'[r] \notin Updating /\ UNCHANGED <<buf, indexLock>>
          /\ \A q \in Procs \ {r} : pc'[q] = pc[q]
      BY <1>0, <1>12, <2>2, SMTT(60) DEF Replay, NothingListed, SnapshotRead, Goto, Updating
    <3>. QED  BY <1>0, <1>1, <2>1, <3>1
  <2>. QED  BY <1>0, <1>2, <2>1, <2>2
<1>13. ASSUME NEW p \in Procs, Die(p)
       PROVE  LatestOK' /\ IndexLocked'
  BY <1>2, <1>13 DEF Die
<1>14. CASE NextMonth \/ UNCHANGED vars
  BY <1>14 DEF NextMonth, vars, LatestOK, IndexLocked
<1>. QED
  BY <1>3, <1>4, <1>5, <1>6, <1>7, <1>8, <1>9, <1>10, <1>11, <1>12, <1>13, <1>14
     DEF Next, AppendStep, IndexStep, RebuildStep

-----------------------------------------------------------------------------
(* Without a fault no journal is damaged, and no replay meets a bad line.  *)
LEMMA StepUndamaged ==
  ASSUME TypeInv, JournalInv, Undamaged, [Next]_vars, faults = 0, faults' = 0
  PROVE  Undamaged'
<1>. USE DEF disk, locks, local, hist
<1>0. /\ pc \in [Procs -> PCs] /\ queue \in [Procs -> Seq(Event \cup {NONE})]
      /\ files \in [Scans -> [Partitions -> [lines : Seq(Event), tail : Tail_]]]
      /\ \A w \in Writers : w \in Procs /\ w \notin Rebuilders
      /\ \A r \in Rebuilders : r \in Procs
  BY StoreAssumption DEF TypeInv, TypeOK, Procs
<1>1. ASSUME NEW p \in Procs, UNCHANGED files,
             \A q \in Procs \ {p} : pc'[q] = pc[q] /\ queue'[q] = queue[q],
             pc'[p] \in Replaying => pc[p] \in Replaying /\ queue'[p] = queue[p]
      PROVE  Undamaged'
  BY <1>0, <1>1 DEF Undamaged
<1>2. ASSUME NEW p \in Procs, Leave(p), UNCHANGED files
      PROVE  Undamaged'
  <2>1. pc'[p] = "idle" /\ \A q \in Procs \ {p} : pc'[q] = pc[q] /\ queue'[q] = queue[q]
    BY <1>0, <1>2 DEF Leave
  <2>. QED  BY <1>1, <1>2, <2>1 DEF Replaying
<1>3. ASSUME NEW w \in Writers, NEW s \in Scans, NEW status \in Statuses, NEW opening \in BOOLEAN,
             Begin(w, s, status, opening)
      PROVE  Undamaged'
  BY <1>0, <1>1, <1>3 DEF Begin, Goto, Replaying
<1>4. ASSUME NEW w \in Writers, Acquire(w) \/ Prepare(w)
      PROVE  Undamaged'
  BY <1>0, <1>1, <1>4 DEF Acquire, Prepare, Goto, Replaying
<1>5. ASSUME NEW w \in Writers, Open(w) \/ Write(w)
      PROVE  Undamaged'
  <2>1. /\ pc[w] \in {"open", "write"} /\ UNCHANGED queue
        /\ \A q \in Procs \ {w} : pc'[q] = pc[q]
    BY <1>0, <1>5 DEF Open, Write, Goto
  <2>2. call[w].scan \in Scans /\ path[w] \in Partitions
    BY <1>0, <2>1 DEF TypeInv, LocalsOK
  <2>3. PICK s0, m0 : s0 = call[w].scan /\ m0 = path[w]
    OBVIOUS
  <2>4. PICK old, new : old = files[s0][m0] /\ (new = Opened(old) \/ new = WriteLine(old, event[w]))
                        /\ files' = [files EXCEPT ![s0][m0] = new]
    BY <1>5, <2>3 DEF Open, Write
  <2>5. new.tail \in {"absent", "clean"}
    <3>1. old.tail \in {"absent", "clean"}
      BY <2>2, <2>3, <2>4 DEF Undamaged
    <3>. QED  BY <2>4, <3>1 DEF Opened, WriteLine, EmptyFile
  <2>6. \A s \in Scans, m \in Partitions :
          files'[s][m] = IF s = s0 /\ m = m0 THEN new ELSE files[s][m]
    BY <1>0, <2>2, <2>3, <2>4
  <2>. QED  BY <1>0, <2>1, <2>5, <2>6 DEF Undamaged
<1>6. ASSUME NEW w \in Writers, Refuse(w) \/ WriteSnapshot(w)
      PROVE  Undamaged'
  BY <1>0, <1>2, <1>6 DEF Refuse, WriteSnapshot
<1>7. ASSUME NEW w \in Writers, ShortWrite(w)
      PROVE  Undamaged'
  BY <1>7 DEF ShortWrite
<1>8. ASSUME NEW p \in Procs, IndexStep(p)
      PROVE  Undamaged'
  <2>1. /\ pc[p] \in Replaying /\ UNCHANGED <<files, queue>> /\ \A q \in Procs \ {p} : pc'[q] = pc[q]
    BY <1>0, <1>8 DEF IndexStep, IndexLock, ReadIndex, WriteIndex, Goto, Replaying
  <2>. QED  BY <1>0, <1>1, <2>1
<1>9. ASSUME NEW r \in Rebuilders, StartRebuild(r) \/ Unlink(r) \/ List(r) \/ SnapshotWrite(r)
      PROVE  Undamaged'
  <2>1. /\ pc'[r] \notin Replaying /\ UNCHANGED <<files, queue>>
        /\ \A q \in Procs \ {r} : pc'[q] = pc[q]
    BY <1>0, <1>9 DEF StartRebuild, Unlink, List, SnapshotWrite, Goto, Replaying
  <2>. QED  BY <1>0, <1>1, <2>1
<1>10. ASSUME NEW r \in Rebuilders, ReadJournal(r)
       PROVE  Undamaged'
  <2>1. PICK f \in todo[r] :
          \/ queue' = [queue EXCEPT ![r] = files[f[1]][f[2]].lines]
          \/ ~Parses(files[f[1]][f[2]])
    BY <1>10 DEF ReadJournal
  <2>2. f[1] \in Scans /\ f[2] \in Partitions
    BY <1>0 DEF TypeInv, TypeOK
  <2>3. queue' = [queue EXCEPT ![r] = files[f[1]][f[2]].lines]
    BY <2>1, <2>2 DEF Parses, Undamaged
  <2>4. PICK lines : lines = files[f[1]][f[2]].lines
    OBVIOUS
  <2>5. lines \in Seq(Event)
    BY <1>0, <2>2, <2>4
  <2>6. \A i \in 1..Len(lines) : lines[i] # NONE
    BY <2>5, StoreAssumption
  <2>7. /\ UNCHANGED files /\ \A q \in Procs \ {r} : pc'[q] = pc[q] /\ queue'[q] = queue[q]
        /\ queue'[r] = lines
    BY <1>0, <1>10, <2>3, <2>4 DEF ReadJournal, Goto
  <2>. QED  BY <1>0, <2>6, <2>7 DEF Undamaged
<1>11. ASSUME NEW r \in Rebuilders, Replay(r)
       PROVE  Undamaged'
  <2>1. CASE Leave(r)
    BY <1>0, <1>2, <1>11, <2>1 DEF Replay
  <2>2. CASE UNCHANGED queue
    <3>1. /\ UNCHANGED files /\ pc[r] \in Replaying /\ \A q \in Procs \ {r} : pc'[q] = pc[q]
      BY <1>0, <1>2, <1>11, <2>1, <2>2 DEF Replay, Replaying, Leave
    <3>. QED  BY <1>0, <1>1, <2>2, <3>1
  <2>3. CASE queue[r] # <<>> /\ queue' = [queue EXCEPT ![r] = Tail(@)] /\ ~Leave(r)
    <3>1. PICK old, new : old = queue[r] /\ new = queue'[r]
      OBVIOUS
    <3>2. old \in Seq(Event \cup {NONE}) /\ old # <<>> /\ new = Tail(old)
      BY <1>0, <2>3, <3>1
    <3>3. \A i \in 1..Len(new) : i + 1 \in 1..Len(old) /\ new[i] = old[i + 1]
      BY <3>2
    <3>4. \A i \in 1..Len(old) : old[i] # NONE
      BY <1>11, <3>1 DEF Undamaged, Replay, Replaying
    <3>5. UNCHANGED files /\ \A q \in Procs \ {r} : pc'[q] = pc[q] /\ queue'[q] = queue[q]
      BY <1>0, <1>11, <2>3 DEF Replay
    <3>6. \A i \in 1..Len(new) : new[i] # NONE
      BY <3>3, <3>4
    <3>7. ASSUME NEW q \in Rebuilders, pc'[q] \in Replaying, NEW i \in 1..Len(queue'[q])
          PROVE  queue'[q][i] # NONE
      <4>1. CASE q = r
        BY <3>1, <3>6, <3>7, <4>1
      <4>2. CASE q # r
        <5>1. pc'[q] = pc[q] /\ queue'[q] = queue[q]
          BY <1>0, <3>5, <4>2
        <5>. QED  BY <3>7, <5>1 DEF Undamaged
      <4>. QED  BY <4>1, <4>2
    <3>8. \A s \in Scans, m \in Partitions : files'[s][m].tail \in {"absent", "clean"}
      BY <3>5 DEF Undamaged
    <3>. QED  BY <3>7, <3>8 DEF Undamaged
  <2>. QED  BY <1>11, <2>1, <2>2, <2>3 DEF Replay
<1>12. ASSUME NEW r \in Rebuilders, NothingListed(r) \/ SnapshotRead(r)
       PROVE  Undamaged'
  <2>1. UNCHANGED files
    BY <1>12 DEF NothingListed, SnapshotRead
  <2>2. CASE ~Leave(r)
    <3>1. /\ pc'[r] \notin Replaying /\ UNCHANGED queue /\ \A q \in Procs \ {r} : pc'[q] = pc[q]
      BY <1>0, <1>12, <2>2, SMTT(60) DEF NothingListed, SnapshotRead, Goto, Replaying
    <3>. QED  BY <1>0, <1>1, <2>1, <3>1
  <2>. QED  BY <1>0, <1>2, <2>1, <2>2
<1>13. ASSUME NEW p \in Procs, Die(p)
       PROVE  Undamaged'
  BY <1>13 DEF Die
<1>14. CASE NextMonth \/ UNCHANGED vars
  BY <1>14 DEF NextMonth, vars, Undamaged
<1>. QED
  BY <1>3, <1>4, <1>5, <1>6, <1>7, <1>8, <1>9, <1>10, <1>11, <1>12, <1>13, <1>14
     DEF Next, AppendStep, RebuildStep

-----------------------------------------------------------------------------
(* Each scan with events is told of by all files, or is somebody's to do.  *)
Rests(q) ==
  /\ pc'[q] = pc[q] /\ call'[q] = call[q] /\ event'[q] = event[q] /\ buf'[q] = buf[q]
  /\ cursor'[q] = cursor[q] /\ todo'[q] = todo[q] /\ queue'[q] = queue[q]

(* Journals do not lose their events.                                      *)
LEMMA EventsStay ==
  ASSUME TypeInv, JournalInv, [Next]_vars, NEW s \in Scans, NEW m \in Partitions,
         Len(files[s][m].lines) # 0
  PROVE  Len(files'[s][m].lines) # 0
<1>1. PICK old, new : old = files[s][m].lines /\ new = files'[s][m].lines
  OBVIOUS
<1>2. old \in Seq(Event) /\ event \in [Procs -> Event \cup {NONE}]
  BY <1>1 DEF TypeInv, TypeOK
<1>3. new = old \/ \E e : new = Append(old, e)
  BY <1>1, JournalsGrow
<1>. QED  BY <1>1, <1>2, <1>3

(* What a process that rests has to do, it still has to do.                *)
LEMMA RestsDue ==
  ASSUME TypeInv, JournalInv, [Next]_vars, NEW s \in Scans, NEW q \in Procs, Rests(q), Due(q, s)
  PROVE  Due(q, s)'
  BY EventsStay DEF Due, Ahead, Rests

(* A step of a process that does not hold the lock of the index.           *)
LEMMA QuietStep ==
  ASSUME TypeInv, JournalInv, [Next]_vars, NEW s \in Scans, Told(s), UNCHANGED index,
         \A q \in Procs :
           \/ Rests(q)
           \/ /\ pc[q] \notin Updating /\ pc'[q] \notin Updating
              /\ Registered(s) /\ Due(q, s) => Due(q, s)',
         Registered(s)' => Registered(s) \/ \E q \in Procs : Due(q, s)'
  PROVE  Told(s)'
<1>. SUFFICES ASSUME Registered(s)', \A p \in Procs : ~Due(p, s)'
              PROVE  \E st \in Statuses : Current(s, st)'
  BY DEF Told
<1>1. Registered(s)
  OBVIOUS
<1>2. \A q \in Procs : ~Due(q, s)
  BY <1>1, RestsDue
<1>3. PICK st \in Statuses : Current(s, st)
  BY <1>1, <1>2 DEF Told
<1>4. \A c \in 1..4 : OnDisk(c, s, st) => OnDisk(c, s, st)'
  BY DEF OnDisk
<1>5. ASSUME NEW q \in Procs, pc'[q] \in Updating
      PROVE  AtWork(q, s, st)'
  <2>1. Rests(q) /\ pc[q] \in Updating
    BY <1>5 DEF Rests
  <2>2. AtWork(q, s, st)
    BY <1>3, <2>1 DEF Current
  <2>. QED  BY <1>4, <2>1, <2>2 DEF AtWork, Rests, InHand
<1>6. (\A q \in Procs : pc'[q] \notin Updating) => \A q \in Procs : pc[q] \notin Updating
  BY DEF Rests
<1>7. (\A q \in Procs : pc'[q] \notin Updating) => \A c \in 1..4 : OnDisk(c, s, st)'
  BY <1>3, <1>4, <1>6 DEF Current
<1>8. Current(s, st)'
  BY <1>5, <1>7 DEF Current
<1>. QED  BY <1>8

(* A call that ends with the lock in nobody's hands.                       *)
LEMMA LeavingTold ==
  ASSUME TypeInv, JournalInv, [Next]_vars, NEW s \in Scans, Told(s), NEW p \in Procs, Leave(p),
         pc[p] \in {"prepare", "snapshot", "snappick"}, UNCHANGED <<files, index>>
  PROVE  Told(s)'
<1>1. pc'[p] = "idle" /\ \A q \in Procs \ {p} : Rests(q)
  BY DEF Leave, Rests, TypeInv, TypeOK
<1>2. ~Due(p, s)
  BY DEF Due, Ahead, Replaying
<1>3. Registered(s)' <=> Registered(s)
  BY DEF Registered
<1>. QED  BY <1>1, <1>2, <1>3, QuietStep DEF Updating

(* The lock of the index is taken.                                         *)
LEMMA LockTold ==
  ASSUME TypeInv, JournalInv, IndexLocked, [Next]_vars, NEW s \in Scans, Told(s), NEW p \in Procs, IndexLock(p)
  PROVE  Told(s)'
<1>. SUFFICES ASSUME Registered(s)', \A q \in Procs : ~Due(q, s)'
              PROVE  \E st \in Statuses : Current(s, st)'
  BY DEF Told
<1>. USE DEF disk, locks, local, hist
<1>1. /\ pc[p] = "index" /\ pc'[p] = "readindex" /\ indexLock = NONE /\ cursor'[p] = 1
      /\ UNCHANGED <<files, index, call, event, todo, queue>> /\ \A q \in Procs \ {p} : Rests(q)
  BY DEF IndexLock, Goto, Rests, TypeInv, TypeOK
<1>2. \A q \in Procs : pc[q] \notin Updating
  BY <1>1, StoreAssumption DEF IndexLocked, Procs
<1>3. \A q \in Procs : pc'[q] \in Updating => q = p
  BY <1>2 , <1>1 DEF Rests
<1>4. Registered(s)
  BY <1>1 DEF Registered
<1>5. CASE call[p].scan = s
  <2>1. event[p] \in Event /\ event[p].status \in Statuses
    BY <1>1 DEF TypeInv, LocalsOK, Event
  <2>2. PICK st : st = event[p].status
    OBVIOUS
  <2>3. AtWork(p, s, st)'
    BY <1>1, <1>5, <2>2 DEF AtWork
  <2>4. Current(s, st)'
    BY <1>1, <1>3, <2>3 DEF Current, Updating
  <2>. QED  BY <2>1, <2>2, <2>4
<1>6. CASE call[p].scan # s
  <2>1. Due(p, s) => Due(p, s)'
    BY <1>1, <1>6 DEF Due, Ahead, Replaying
  <2>2. \A q \in Procs : ~Due(q, s)
    BY <1>1, <2>1, RestsDue
  <2>3. PICK st \in Statuses : Current(s, st)
    BY <1>4, <2>2 DEF Told
  <2>4. \A c \in 1..4 : OnDisk(c, s, st)'
    BY <1>1, <1>2, <2>3 DEF Current, OnDisk
  <2>5. AtWork(p, s, st)'
    BY <1>1, <1>6, <2>4 DEF AtWork
  <2>6. Current(s, st)'
    BY <1>1, <1>3, <2>5 DEF Current, Updating
  <2>. QED  BY <2>6
<1>. QED  BY <1>5, <1>6

(* A file is read, and its content changed for the event.                  *)
LEMMA ReadTold ==
  ASSUME TypeInv, JournalInv, LatestOK, IndexLocked, [Next]_vars, NEW s \in Scans, Told(s),
         NEW p \in Procs, ReadIndex(p)
  PROVE  Told(s)'
<1>. SUFFICES ASSUME Registered(s)', \A q \in Procs : ~Due(q, s)'
              PROVE  \E st \in Statuses : Current(s, st)'
  BY DEF Told
<1>. USE DEF disk, locks, local, hist
<1>1. PICK c0, name, e, new :
        /\ c0 = cursor[p] /\ name = IndexFile[c0] /\ e = event[p]
        /\ new = Updated(name, index[name], call[p].scan, path[p], e)
  OBVIOUS
<1>2. /\ pc[p] = "readindex" /\ pc'[p] = (IF c0 = 4 THEN "writeindex" ELSE "readindex")
      /\ cursor'[p] = (IF c0 = 4 THEN 1 ELSE c0 + 1)
      /\ buf'[p] = [buf[p] EXCEPT ![name] = new]
      /\ UNCHANGED <<files, index, call, event, todo, queue>> /\ \A q \in Procs \ {p} : Rests(q)
  BY <1>1 DEF ReadIndex, Rests, TypeInv, TypeOK
<1>3. /\ c0 \in 1..4 /\ call[p].scan \in Scans /\ path[p] \in Partitions /\ e \in Event
      /\ buf[p] \in Index /\ index \in Index /\ Distinct(index.latest)
  BY <1>1, <1>2 DEF TypeInv, TypeOK, LocalsOK, LatestOK
<1>4. /\ Registered(s) /\ (Due(p, s) => Due(p, s)')
      /\ \A q \in Procs : pc'[q] \in Updating => q = p
  BY <1>2 DEF Registered, Due, Ahead, Replaying, Updating, IndexLocked, Rests
<1>5. \A q \in Procs : ~Due(q, s)
  BY <1>2, <1>4, RestsDue
<1>6. PICK st \in Statuses : Current(s, st)
  BY <1>4, <1>5 DEF Told
<1>7. AtWork(p, s, st)
  BY <1>2, <1>6 DEF Current, Updating
<1>8. Replaced(buf'[p], buf[p], c0, new)
  BY <1>1, <1>2, <1>3, FileReplaced
<1>9. /\ Shows(name, new, call[p].scan, e.status)
      /\ \A x \in Scans \ {call[p].scan} : \A t \in Statuses :
           Shows(name, index[name], x, t) => Shows(name, new, x, t)
  BY <1>1, <1>3, UpdateShows
<1>10. Shows(name, new, s, st)
  <2>1. CASE call[p].scan = s
    BY <1>1, <1>7, <1>9, <2>1 DEF AtWork
  <2>2. CASE call[p].scan # s
    BY <1>1, <1>2, <1>3, <1>7, <1>9, <2>2 DEF AtWork, OnDisk
  <2>. QED  BY <2>1, <2>2
<1>11. \A c \in 1..4 : c <= c0 => InHand(p, c, s, st)'
  <2>1. ASSUME NEW c \in 1..4, c < c0
        PROVE  InHand(p, c, s, st)'
    <3>1. InHand(p, c, s, st)
      BY <1>1, <1>2, <1>7, <2>1 DEF AtWork
    <3>. QED  BY <1>3, <1>8, <2>1, <3>1 DEF InHand, Replaced
  <2>2. InHand(p, c0, s, st)'
    BY <1>1, <1>3, <1>8, <1>10 DEF InHand, Replaced
  <2>. QED  BY <1>3, <2>1, <2>2
<1>12. call[p].scan # s => \A c \in 1..4 : OnDisk(c, s, st)'
  BY <1>2, <1>7 DEF AtWork, OnDisk
<1>13. AtWork(p, s, st)'
  <2>1. \A c \in 1..4 : c < 1 => FALSE
    OBVIOUS
  <2>. QED  BY <1>2, <1>3, <1>7, <1>11, <1>12, <2>1 DEF AtWork
<1>14. Current(s, st)'
  BY <1>2, <1>4, <1>13 DEF Current, Updating
<1>. QED  BY <1>14

(* A file is written; with the last one the lock is given back.            *)
LEMMA WriteTold ==
  ASSUME TypeInv, JournalInv, IndexLocked, [Next]_vars, NEW s \in Scans, Told(s),
         NEW p \in Procs, WriteIndex(p)
  PROVE  Told(s)'
<1>. SUFFICES ASSUME Registered(s)', \A q \in Procs : ~Due(q, s)'
              PROVE  \E st \in Statuses : Current(s, st)'
  BY DEF Told
<1>. USE DEF disk, locks, local, hist
<1>1. PICK c0, name, v : c0 = cursor[p] /\ name = IndexFile[c0] /\ v = buf[p][name]
  OBVIOUS
<1>2. /\ pc[p] = "writeindex" /\ index' = [index EXCEPT ![name] = v]
      /\ c0 # 4 => pc'[p] = "writeindex" /\ cursor'[p] = c0 + 1 /\ buf'[p] = buf[p]
      /\ c0 = 4 => pc'[p] = IF p \in Writers THEN "snapshot" ELSE "replay"
      /\ UNCHANGED <<files, call, event, todo, queue>> /\ \A q \in Procs \ {p} : Rests(q)
  BY <1>1 DEF WriteIndex, Rests, TypeInv, TypeOK
<1>3. c0 \in 1..4 /\ index \in Index
  BY <1>1, <1>2 DEF TypeInv, TypeOK, LocalsOK
<1>4. /\ Registered(s) /\ (Due(p, s) => Due(p, s)')
      /\ \A q \in Procs : pc[q] \in Updating => q = p
  BY <1>2, StoreAssumption DEF Registered, Due, Ahead, Replaying, Updating, IndexLocked, Procs
<1>5. \A q \in Procs : ~Due(q, s)
  BY <1>2, <1>4, RestsDue
<1>6. PICK st \in Statuses : Current(s, st)
  BY <1>4, <1>5 DEF Told
<1>7. AtWork(p, s, st)
  BY <1>2, <1>6 DEF Current, Updating
<1>8. Replaced(index', index, c0, v)
  BY <1>1, <1>2, <1>3, FileReplaced
<1>9. ASSUME NEW c \in 1..4, c <= c0 \/ call[p].scan # s
      PROVE  OnDisk(c, s, st)'
  <2>1. CASE c = c0
    <3>1. InHand(p, c0, s, st)
      BY <1>1, <1>2, <1>3, <1>7 DEF AtWork
    <3>. QED  BY <1>1, <1>8, <2>1, <3>1 DEF InHand, OnDisk, Replaced
  <2>2. CASE c # c0
    <3>1. OnDisk(c, s, st)
      BY <1>1, <1>2, <1>3, <1>7, <1>9, <2>2 DEF AtWork
    <3>. QED  BY <1>8, <2>2, <3>1 DEF OnDisk, Replaced
  <2>. QED  BY <2>1, <2>2
<1>10. CASE c0 = 4
  <2>1. \A q \in Procs : pc'[q] \notin Updating
    BY <1>2, <1>4, <1>10 DEF Updating, Rests
  <2>2. Current(s, st)'
    BY <1>9, <1>10, <2>1 DEF Current
  <2>. QED  BY <2>2
<1>11. CASE c0 # 4
  <2>1. \A c \in 1..4 : c >= c0 + 1 => InHand(p, c, s, st)'
    BY <1>1, <1>2, <1>3, <1>7, <1>11 DEF AtWork, InHand
  <2>2. AtWork(p, s, st)'
    BY <1>2, <1>3, <1>7, <1>9, <1>11, <2>1 DEF AtWork
  <2>3. \A q \in Procs : pc'[q] \in Updating => q = p
    BY <1>2, <1>4 DEF Rests
  <2>4. Current(s, st)'
    BY <1>2, <1>11, <2>2, <2>3 DEF Current, Updating
  <2>. QED  BY <2>4
<1>. QED  BY <1>10, <1>11

(* As long as nothing was damaged, every step keeps what is told of a      *)
(* scan: all four files show its status, or someone is due to bring them   *)
(* up to it.                                                               *)
LEMMA StepTold ==
  ASSUME TypeInv, JournalInv, LatestOK, IndexLocked, Undamaged, [Next]_vars, faults = 0, faults' = 0,
         NEW s \in Scans, Told(s)
  PROVE  Told(s)'
<1>. USE DEF disk, locks, local, hist
<1>0. /\ pc \in [Procs -> PCs] /\ call \in [Procs -> Call] /\ event \in [Procs -> Event \cup {NONE}]
      /\ buf \in [Procs -> Index] /\ cursor \in [Procs -> 0..4]
      /\ todo \in [Procs -> SUBSET (Scans \X Partitions)]
      /\ queue \in [Procs -> Seq(Event \cup {NONE})]
      /\ files \in [Scans -> [Partitions -> [lines : Seq(Event), tail : Tail_]]]
      /\ \A w \in Writers : w \in Procs /\ w \notin Rebuilders
      /\ \A r \in Rebuilders : r \in Procs
  BY StoreAssumption DEF TypeInv, TypeOK, Procs
<1>1. ASSUME NEW p \in Procs, UNCHANGED <<files, index>>, \A q \in Procs \ {p} : Rests(q),
             pc[p] \notin Updating, pc'[p] \notin Updating,
             Registered(s) /\ Due(p, s) => Due(p, s)'
      PROVE  Told(s)'
  <2>1. Registered(s)' <=> Registered(s)
    BY <1>1 DEF Registered
  <2>. QED  BY <1>1, <2>1, QuietStep
<1>2. ASSUME NEW p \in Procs, Leave(p), pc[p] \in {"prepare", "snapshot", "snappick"},
             UNCHANGED <<files, index>>
      PROVE  Told(s)'
  BY <1>2, LeavingTold
<1>3. ASSUME NEW w \in Writers, NEW x \in Scans, NEW status \in Statuses, NEW opening \in BOOLEAN,
             Begin(w, x, status, opening)
      PROVE  Told(s)'
  <2>1. /\ pc[w] = "idle" /\ pc'[w] = "acquire" /\ UNCHANGED <<files, index>>
        /\ \A q \in Procs \ {w} : Rests(q)
    BY <1>0, <1>3 DEF Begin, Goto, Rests
  <2>2. ~Due(w, s)
    BY <1>0, <2>1 DEF Due
  <2>. QED  BY <1>0, <1>1, <2>1, <2>2 DEF Updating
<1>4. ASSUME NEW w \in Writers, Acquire(w) \/ Prepare(w)
      PROVE  Told(s)'
  <2>1. /\ pc[w] \in {"acquire", "prepare"} /\ pc'[w] \in {"prepare", "open"} /\ UNCHANGED <<files, index>>
        /\ \A q \in Procs \ {w} : Rests(q)
    BY <1>0, <1>4 DEF Acquire, Prepare, Goto, Rests
  <2>2. ~Due(w, s)
    BY <1>0, <2>1 DEF Due
  <2>. QED  BY <1>0, <1>1, <2>1, <2>2 DEF Updating
<1>5. ASSUME NEW w \in Writers, Open(w)
      PROVE  Told(s)'
  <2>1. /\ pc[w] = "open" /\ pc'[w] = "write" /\ UNCHANGED index
        /\ \A q \in Procs \ {w} : Rests(q)
    BY <1>0, <1>5 DEF Open, Goto, Rests
  <2>2. ~Due(w, s)
    BY <1>0, <2>1 DEF Due
  <2>3. call[w].scan \in Scans /\ path[w] \in Partitions
    BY <1>0, <2>1 DEF TypeInv, LocalsOK
  <2>4. PICK s0, m0, old, new : /\ s0 = call[w].scan /\ m0 = path[w] /\ old = files[s0][m0]
                                /\ new = Opened(old) /\ files' = [files EXCEPT ![s0][m0] = new]
    BY <1>5 DEF Open
  <2>5. \A m \in Partitions : files'[s][m] = IF s = s0 /\ m = m0 THEN new ELSE files[s][m]
    BY <1>0, <2>3, <2>4
  <2>6. Len(new.lines) # 0 => new = old
    BY <2>4 DEF Opened, EmptyFile
  <2>7. Registered(s)' => Registered(s)
    BY <2>3, <2>4, <2>5, <2>6 DEF Registered
  <2>. QED  BY <1>0, <2>1, <2>2, <2>7, QuietStep DEF Updating
<1>6. ASSUME NEW w \in Writers, Write(w)
      PROVE  Told(s)'
  <2>1. /\ pc[w] = "write" /\ pc'[w] = "index" /\ UNCHANGED <<index, call>>
        /\ \A q \in Procs \ {w} : Rests(q)
    BY <1>0, <1>6 DEF Write, Goto, Rests
  <2>2. ~Due(w, s)
    BY <1>0, <2>1 DEF Due
  <2>3. call[w].scan \in Scans /\ path[w] \in Partitions
    BY <1>0, <2>1 DEF TypeInv, LocalsOK
  <2>4. s # call[w].scan => UNCHANGED files[s]
    BY <1>0, <1>6, <2>3 DEF Write
  <2>5. s = call[w].scan => Due(w, s)'
    BY <2>1 DEF Due
  <2>6. Registered(s)' => Registered(s) \/ Due(w, s)'
    BY <2>4, <2>5 DEF Registered
  <2>. QED  BY <1>0, <2>1, <2>2, <2>6, QuietStep DEF Updating
<1>7. ASSUME NEW w \in Writers, Refuse(w) \/ WriteSnapshot(w) \/ ShortWrite(w)
      PROVE  Told(s)'
  BY <1>0, <1>2, <1>7 DEF Refuse, WriteSnapshot, ShortWrite
<1>8. ASSUME NEW p \in Procs, IndexStep(p)
      PROVE  Told(s)'
  BY <1>8, LockTold, ReadTold, WriteTold DEF IndexStep
<1>9. ASSUME NEW r \in Rebuilders, StartRebuild(r)
      PROVE  Told(s)'
  <2>1. /\ pc[r] = "idle" /\ pc'[r] = "unlink" /\ UNCHANGED <<files, index>>
        /\ \A q \in Procs \ {r} : Rests(q)
    BY <1>0, <1>9 DEF StartRebuild, Goto, Rests
  <2>2. Due(r, s)'
    BY <2>1 DEF Due, Ahead
  <2>. QED  BY <1>0, <1>1, <2>1, <2>2 DEF Updating
<1>10. ASSUME NEW r \in Rebuilders, Unlink(r)
       PROVE  Told(s)'
  <2>1. pc'[r] \in {"unlink", "list"}
    BY <1>0, <1>10 DEF Unlink
  <2>2. Due(r, s)'
    BY <2>1 DEF Due, Ahead
  <2>. QED  BY <1>0, <2>2 DEF Told
<1>11. ASSUME NEW r \in Rebuilders, List(r)
       PROVE  Told(s)'
  <2>1. /\ UNCHANGED <<files, index>> /\ todo'[r] = AllFiles /\ \A q \in Procs \ {r} : Rests(q)
        /\ \/ pc[r] = "list" /\ pc'[r] = "pick"
           \/ pc[r] = "snaplist" /\ pc'[r] = "snappick"
    BY <1>0, <1>11 DEF List, Goto, Rests
  <2>2. CASE pc[r] = "list" /\ pc'[r] = "pick"
    <3>1. Registered(s) => Due(r, s)'
      <4>1. SUFFICES ASSUME NEW m \in Partitions, Len(files[s][m].lines) # 0
                     PROVE  Due(r, s)'
        BY DEF Registered
      <4>2. files[s][m].tail # "absent"
        BY <4>1 DEF JournalInv, FilesOK
      <4>3. <<s, m>> \in todo'[r]
        BY <2>1, <4>2 DEF AllFiles
      <4>. QED  BY <2>1, <2>2, <4>1, <4>3 DEF Due, Ahead
    <3>. QED  BY <1>0, <1>1, <2>1, <2>2, <3>1 DEF Updating
  <2>3. CASE pc[r] = "snaplist" /\ pc'[r] = "snappick"
    <3>1. ~Due(r, s)
      BY <2>3 DEF Due, Ahead, Replaying
    <3>. QED  BY <1>0, <1>1, <2>1, <2>3, <3>1 DEF Updating
  <2>. QED  BY <2>1, <2>2, <2>3
<1>12. ASSUME NEW r \in Rebuilders, ReadJournal(r)
       PROVE  Told(s)'
  <2>1. PICK f \in todo[r] :
          /\ todo' = [todo EXCEPT ![r] = @ \ {f}]
          /\ call' = [call EXCEPT ![r].scan = f[1]]
          /\ \/ queue' = [queue EXCEPT ![r] = files[f[1]][f[2]].lines]
             \/ ~Parses(files[f[1]][f[2]])
    BY <1>12 DEF ReadJournal
  <2>2. PICK s0, m0 : s0 = f[1] /\ m0 = f[2] /\ s0 \in Scans /\ m0 \in Partitions /\ f = <<s0, m0>>
    BY <1>0 DEF TypeInv, TypeOK
  <2>3. PICK lines : lines = files[s0][m0].lines
    OBVIOUS
  <2>4. queue' = [queue EXCEPT ![r] = lines]
    BY <2>1, <2>2, <2>3 DEF Parses, Undamaged
  <2>5. /\ pc[r] = "pick" /\ pc'[r] = "replay" /\ UNCHANGED <<files, index, event, buf, cursor>>
        /\ \A q \in Procs \ {r} : pc'[q] = pc[q]
    BY <1>0, <1>12 DEF ReadJournal, Goto
  <2>6. \A q \in Procs \ {r} : Rests(q)
    BY <1>0, <2>1, <2>4, <2>5 DEF Rests
  <2>7. todo'[r] = todo[r] \ {<<s0, m0>>} /\ call'[r].scan = s0 /\ queue'[r] = lines
    BY <1>0, <2>1, <2>2, <2>4 DEF Call
  <2>8. Due(r, s) => Due(r, s)'
    <3>1. SUFFICES ASSUME Due(r, s) PROVE Due(r, s)'
      OBVIOUS
    <3>2. PICK m \in Partitions : <<s, m>> \in todo[r] /\ Len(files[s][m].lines) # 0
      BY <2>5, <3>1 DEF Due, Ahead, Replaying
    <3>3. CASE s = s0 /\ m = m0
      <4>1. lines # <<>>
        BY <2>3, <3>2, <3>3
      <4>. QED  BY <2>5, <2>7, <3>3, <4>1 DEF Due, Ahead, Replaying
    <3>4. CASE ~(s = s0 /\ m = m0)
      <4>1. <<s, m>> \in todo'[r]
        BY <2>7, <3>2, <3>4
      <4>. QED  BY <2>5, <3>2, <4>1 DEF Due, Ahead, Replaying
    <3>. QED  BY <3>3, <3>4
  <2>. QED  BY <1>0, <1>1, <2>5, <2>6, <2>8 DEF Updating
<1>13. ASSUME NEW r \in Rebuilders, Replay(r)
       PROVE  Told(s)'
  <2>1. pc[r] = "replay" /\ UNCHANGED <<files, index>> /\ queue[r] \in Seq(Event \cup {NONE})
    BY <1>0, <1>13 DEF Replay
  <2>2. queue[r] # <<>> => Head(queue[r]) # NONE
    <3>1. queue[r] # <<>> => 1 \in 1..Len(queue[r]) /\ Head(queue[r]) = queue[r][1]
      BY <2>1
    <3>. QED  BY <2>1, <3>1 DEF Undamaged, Replaying
  <2>3. CASE queue[r] = <<>>
    <3>1. /\ pc'[r] = (IF todo[r] = {} THEN "snaplist" ELSE "pick") /\ UNCHANGED <<todo, queue, call>>
          /\ \A q \in Procs \ {r} : Rests(q)
      BY <1>0, <1>13, <2>3 DEF Replay, Rests
    <3>2. Due(r, s) => Due(r, s)'
      BY <2>1, <2>3, <3>1 DEF Due, Ahead, Replaying
    <3>. QED  BY <1>0, <1>1, <2>1, <3>1, <3>2 DEF Updating
  <2>4. CASE queue[r] # <<>>
    <3>1. /\ pc'[r] = "index" /\ UNCHANGED <<todo, call>> /\ \A q \in Procs \ {r} : Rests(q)
      BY <1>0, <1>13, <2>2, <2>4 DEF Replay, Rests
    <3>2. Due(r, s) => Due(r, s)'
      BY <2>1, <3>1 DEF Due, Ahead, Replaying
    <3>. QED  BY <1>0, <1>1, <2>1, <3>1, <3>2 DEF Updating
  <2>. QED  BY <2>3, <2>4
<1>14. ASSUME NEW r \in Rebuilders, NothingListed(r)
       PROVE  Told(s)'
  <2>1. UNCHANGED <<files, index>> /\ todo[r] = {}
    BY <1>14 DEF NothingListed
  <2>2. CASE Goto(r, "pick", "snaplist") /\ UNCHANGED local
    <3>1. /\ pc[r] = "pick" /\ pc'[r] = "snaplist" /\ \A q \in Procs \ {r} : Rests(q)
      BY <1>0, <2>2 DEF Goto, Rests
    <3>2. ~Due(r, s)
      BY <2>1, <3>1 DEF Due, Ahead, Replaying
    <3>. QED  BY <1>0, <1>1, <2>1, <3>1, <3>2 DEF Updating
  <2>3. CASE pc[r] = "snappick" /\ Leave(r)
    BY <1>0, <1>2, <2>1, <2>3
  <2>. QED  BY <1>14, <2>2, <2>3 DEF NothingListed
<1>15. ASSUME NEW r \in Rebuilders, SnapshotRead(r)
       PROVE  Told(s)'
  <2>1. pc[r] = "snappick" /\ UNCHANGED <<files, index>>
    BY <1>15 DEF SnapshotRead
  <2>2. CASE ~Leave(r)
    <3>1. pc'[r] \in {"snappick", "snapwrite"} /\ \A q \in Procs \ {r} : Rests(q)
      BY <1>0, <1>15, <2>1, <2>2, SMTT(60) DEF SnapshotRead, Rests
    <3>2. ~Due(r, s)
      BY <2>1 DEF Due, Ahead, Replaying
    <3>. QED  BY <1>0, <1>1, <2>1, <3>1, <3>2 DEF Updating
  <2>. QED  BY <1>0, <1>2, <2>1, <2>2
<1>16. ASSUME NEW r \in Rebuilders, SnapshotWrite(r)
       PROVE  Told(s)'
  <2>1. /\ pc[r] = "snapwrite" /\ pc'[r] = "snappick" /\ UNCHANGED <<files, index>>
        /\ \A q \in Procs \ {r} : Rests(q)
    BY <1>0, <1>16 DEF SnapshotWrite, Goto, Rests
  <2>2. ~Due(r, s)
    BY <2>1 DEF Due, Ahead, Replaying
  <2>. QED  BY <1>0, <1>1, <2>1, <2>2 DEF Updating
<1>17. ASSUME NEW p \in Procs, Die(p)
       PROVE  Told(s)'
  BY <1>17 DEF Die
<1>18. CASE NextMonth \/ UNCHANGED vars
  <2>1. UNCHANGED <<files, index>> /\ \A q \in Procs : Rests(q)
    BY <1>18 DEF NextMonth, vars, Rests
  <2>2. Registered(s)' <=> Registered(s)
    BY <2>1 DEF Registered
  <2>. QED  BY <2>1, <2>2, QuietStep
<1>. QED
  BY <1>3, <1>4, <1>5, <1>6, <1>7, <1>8, <1>9, <1>10, <1>11, <1>12, <1>13, <1>14, <1>15, <1>16,
     <1>17, <1>18 DEF Next, AppendStep, RebuildStep

-----------------------------------------------------------------------------
(* A fault stays counted.                                                  *)
LEMMA FaultsStay ==
  ASSUME TypeInv, [Next]_vars, faults' = 0
  PROVE  faults = 0
<1>. USE DEF disk, locks, local, hist
<1>1. faults \in Nat
  BY StoreAssumption DEF TypeInv, TypeOK
<1>2. ASSUME NEW p, Die(p) \/ ShortWrite(p)
      PROVE  faults' = faults + 1
  BY <1>2 DEF Die, ShortWrite
<1>3. ASSUME NEW w \in Writers, AppendStep(w)
      PROVE  faults' = faults
  BY <1>3 DEF AppendStep, Acquire, Refuse, Prepare, Open, Write, WriteSnapshot
<1>4. ASSUME NEW p \in Procs, IndexStep(p)
      PROVE  faults' = faults
  BY <1>4 DEF IndexStep, IndexLock, ReadIndex, WriteIndex
<1>5. ASSUME NEW r \in Rebuilders, StartRebuild(r) \/ RebuildStep(r)
      PROVE  faults' = faults
  <2>1. CASE StartRebuild(r) \/ Unlink(r) \/ List(r) \/ NothingListed(r)
    BY <2>1 DEF StartRebuild, Unlink, List, NothingListed
  <2>2. CASE ReadJournal(r) \/ Replay(r)
    BY <2>2 DEF ReadJournal, Replay
  <2>3. CASE SnapshotRead(r) \/ SnapshotWrite(r)
    BY <2>3 DEF SnapshotRead, SnapshotWrite
  <2>. QED  BY <1>5, <2>1, <2>2, <2>3 DEF RebuildStep
<1>6. ASSUME NEW w \in Writers, NEW s \in Scans, NEW status \in Statuses, NEW opening \in BOOLEAN,
             Begin(w, s, status, opening)
      PROVE  faults' = faults
  BY <1>6 DEF Begin
<1>7. CASE NextMonth \/ UNCHANGED vars
  BY <1>7 DEF NextMonth, vars
<1>. QED  BY <1>1, <1>2, <1>3, <1>4, <1>5, <1>6, <1>7 DEF Next

(* The empty store tells nothing of any scan.                              *)
LEMMA InitIndex == Init => IndexInv
<1>. SUFFICES ASSUME Init PROVE IndexInv
  OBVIOUS
<1>1. \A s \in Scans, m \in Partitions : /\ files[s][m].tail = "absent"
                                        /\ files[s][m].lines = <<>>
  BY DEF Init, NoFile
<1>2. \A p \in Procs : pc[p] = "idle" /\ buf[p] = EmptyIndex
  BY DEF Init
<1>3. LatestOK
  BY <1>2 DEF LatestOK, Init, EmptyIndex, Distinct
<1>4. IndexLocked
  BY <1>2 DEF IndexLocked, Updating
<1>5. Undamaged
  BY <1>1, <1>2 DEF Undamaged, Replaying, Procs
<1>6. \A s \in Scans : Told(s)
  <2>1. \A s \in Scans : ~Registered(s)
    BY <1>1 DEF Registered
  <2>. QED  BY <2>1 DEF Told
<1>. QED  BY <1>3, <1>4, <1>5, <1>6 DEF IndexInv

(* Every step keeps the invariant of the index files.                      *)
LEMMA StepIndex == TypeInv /\ JournalInv /\ IndexInv /\ [Next]_vars => IndexInv'
<1>. SUFFICES ASSUME TypeInv, JournalInv, IndexInv, [Next]_vars PROVE IndexInv'
  OBVIOUS
<1>1. LatestOK /\ IndexLocked /\ (faults' = 0 => faults = 0 /\ Undamaged /\ \A s \in Scans : Told(s))
  BY FaultsStay DEF IndexInv
<1>2. LatestOK' /\ IndexLocked'
  BY <1>1, StepLatest
<1>3. faults' = 0 => Undamaged'
  BY <1>1, StepUndamaged
<1>4. faults' = 0 => \A s \in Scans : Told(s)'
  BY <1>1, StepTold
<1>. QED  BY <1>2, <1>3, <1>4 DEF IndexInv

(* What all four files tell of a scan, they tell consistently.             *)
LEMMA ToldIsConsistent ==
  ASSUME TypeInv, LatestOK, NEW s \in Scans, NEW st \in Statuses, \A c \in 1..4 : OnDisk(c, s, st)
  PROVE  Consistent(s)
<1>1. /\ Shows("scan", index.scan, s, st) /\ Shows("chip", index.chip, s, st)
      /\ Shows("status", index.status, s, st) /\ Shows("latest", index.latest, s, st)
  BY DEF OnDisk, IndexFile
<1>2. index.scan[s] # NONE /\ index.scan[s].status = st /\ s \in index.chip
  BY <1>1 DEF Shows
<1>3. {x \in Statuses : s \in index.status[x]} = {st}
  BY <1>1 DEF Shows
<1>. DEFINE at == {i \in 1..Len(index.latest) : index.latest[i].scan = s}
<1>4. Cardinality(Scans) <= LatestCap => \E i \in at : index.latest[i].status = st
  BY <1>1 DEF Shows
<1>5. Cardinality(at) <= 1
  <2>1. \A i, j \in at : i = j
    BY DEF LatestOK, Distinct
  <2>. HIDE DEF at
  <2>2. CASE at = {}
    BY <2>2, FS_EmptySet
  <2>3. CASE at # {}
    <3>1. PICK i : at = {i}
      BY <2>1, <2>3
    <3>. QED  BY <3>1, FS_Singleton
  <2>. QED  BY <2>2, <2>3
<1>. QED  BY <1>2, <1>3, <1>4, <1>5 DEF Consistent

(* Once nobody is at work and nobody died, the snapshots show events that  *)
(* are in the journals, and the four index files tell the same of every    *)
(* scan an append was acknowledged for, however appends of other scans and *)
(* rebuilds came between the files of one update.                          *)
THEOREM ProjectionsAreTrue == Spec => []ProjectionsTrue
<1>1. Init => StoreInv /\ IndexInv
  BY InitTypes, InitJournal, InitStored, InitIndex DEF StoreInv
<1>2. StoreInv /\ IndexInv /\ [Next]_vars => (StoreInv /\ IndexInv)'
  BY StepTypes, StepJournal, StepStored, StepIndex DEF StoreInv
<1>3. StoreInv => SnapshotFaithful
  BY DEF StoreInv, StoredInv, Shown, InJournal, At, SnapshotFaithful
<1>4. ASSUME StoreInv, IndexInv, Quiet, faults = 0, NEW s \in Scans, acked[s] # {}
      PROVE  Consistent(s)
  <2>1. PICK e \in acked[s] : TRUE
    BY <1>4
  <2>2. PICK m \in Partitions : At(s, m, e)
    BY <1>4 DEF StoreInv, StoredInv, Shown, InJournal
  <2>3. files[s][m].lines \in Seq(Event)
    BY <1>4 DEF StoreInv, TypeInv, TypeOK
  <2>4. Registered(s)
    BY <2>2, <2>3 DEF At, Registered
  <2>5. \A p \in Procs : ~Due(p, s) /\ pc[p] \notin Updating
    BY <1>4 DEF Quiet, Due, Ahead, Replaying, Updating
  <2>6. PICK st \in Statuses : Current(s, st)
    BY <1>4, <2>4, <2>5 DEF IndexInv, Told
  <2>7. \A c \in 1..4 : OnDisk(c, s, st)
    BY <2>5, <2>6 DEF Current
  <2>. QED  BY <1>4, <2>7, ToldIsConsistent DEF StoreInv, IndexInv
<1>5. StoreInv /\ IndexInv => ProjectionsTrue
  BY <1>3, <1>4 DEF ProjectionsTrue, IndexesAgree
<1>. QED  BY <1>1, <1>2, <1>5, PTL DEF Spec

-----------------------------------------------------------------------------
(***************************************************************************)
(* Calls one after the other.  What is behind its journal, the one call    *)
(* that is under way is about to bring up to date.                         *)
(***************************************************************************)
LastOf(s, m) == files[s][m].lines[Len(files[s][m].lines)]

Behind(w, s, e) == call[w].scan = s /\ event[w] = e

EntryAt(entries, s, n) == entries[s] # NONE /\ entries[s].sequence = n

BeforeEntry(w) == pc[w] \in {"index", "readindex"} \/ (pc[w] = "writeindex" /\ cursor[w] = 1)

FreshSnapshot(s, e) ==
  \/ snapshot[s] = e
  \/ \E w \in Writers : pc[w] \in {"index", "readindex", "writeindex", "snapshot"} /\ Behind(w, s, e)

FreshEntry(s, e) ==
  \/ EntryAt(index.scan, s, e.sequence)
  \/ \E w \in Writers : BeforeEntry(w) /\ Behind(w, s, e)

Fresh ==
  \A s \in Scans, m \in Partitions : Len(files[s][m].lines) # 0 =>
    FreshSnapshot(s, LastOf(s, m)) /\ FreshEntry(s, LastOf(s, m))

(* What a thread is to write of scan_index is what is there, but for its   *)
(* own scan.                                                               *)
HandTrue ==
  \A w \in Writers :
    (pc[w] = "readindex" /\ cursor[w] > 1) \/ (pc[w] = "writeindex" /\ cursor[w] = 1) =>
      /\ EntryAt(buf[w].scan, call[w].scan, event[w].sequence)
      /\ \A x \in Scans \ {call[w].scan} : buf[w].scan[x] = index.scan[x]

(* The event of a thread that has written is the last of its journal.      *)
LastHeld ==
  \A w \in Writers, m \in Partitions :
    /\ pc[w] \in {"index", "readindex", "writeindex", "snapshot"}
    /\ Len(files[call[w].scan][m].lines) # 0
    => event[w] = LastOf(call[w].scan, m)

OneAtATime ==
  /\ \A p, q \in Procs : pc[p] # "idle" /\ pc[q] # "idle" => p = q
  /\ \A r \in Rebuilders : pc[r] = "idle"

AloneInv == OneAtATime /\ (faults = 0 => Fresh /\ HandTrue /\ LastHeld)

(* The one call that is under way is an append, and takes the next step.   *)
LEMMA OneCaller ==
  ASSUME TypeInv, OneAtATime, [Next]_vars, Alone, rebuilds' = 0
  PROVE  /\ OneAtATime'
         /\ \/ \E w \in Writers :
                 /\ \A q \in Procs \ {w} : pc[q] = "idle"
                 /\ \/ \E s \in Scans, status \in Statuses, opening \in BOOLEAN : Begin(w, s, status, opening)
                    \/ AppendStep(w) \/ ShortWrite(w) \/ IndexStep(w) \/ Die(w)
            \/ NextMonth \/ UNCHANGED vars
<1>. USE DEF disk, locks, local, hist
<1>0. /\ pc \in [Procs -> PCs] /\ rebuilds \in Nat
      /\ \A w \in Writers : w \in Procs
      /\ \A r \in Rebuilders : r \in Procs
      /\ \A p \in Procs : p \notin Rebuilders => p \in Writers
  BY StoreAssumption DEF TypeInv, TypeOK, Procs
<1>1. \A p \in Procs : pc[p] # "idle" => /\ \A q \in Procs \ {p} : pc[q] = "idle"
                                        /\ p \in Writers
  BY <1>0 DEF OneAtATime
<1>2. ASSUME NEW w \in Writers, NEW s \in Scans, NEW status \in Statuses, NEW opening \in BOOLEAN,
             Begin(w, s, status, opening)
      PROVE  /\ \A q \in Procs \ {w} : pc[q] = "idle"
             /\ pc' = [pc EXCEPT ![w] = "acquire"]
  <2>1. pc' = [pc EXCEPT ![w] = "acquire"]
    BY <1>2 DEF Begin, Goto
  <2>. QED  BY <1>0, <2>1 DEF Alone
<1>3. ASSUME NEW w \in Writers, AppendStep(w) \/ ShortWrite(w)
      PROVE  pc[w] # "idle" /\ \A q \in Procs \ {w} : pc'[q] = pc[q]
  BY <1>0, <1>3 DEF AppendStep, Acquire, Refuse, Prepare, Open, Write, WriteSnapshot, ShortWrite, Leave, Goto
<1>4. ASSUME NEW p \in Procs, IndexStep(p) \/ Die(p)
      PROVE  pc[p] # "idle" /\ \A q \in Procs \ {p} : pc'[q] = pc[q]
  BY <1>0, <1>4 DEF IndexStep, IndexLock, ReadIndex, WriteIndex, Die, Leave, Goto
<1>5. ASSUME NEW r \in Rebuilders, StartRebuild(r) \/ RebuildStep(r)
      PROVE  FALSE
  <2>1. pc[r] = "idle"
    BY DEF OneAtATime
  <2>2. ~StartRebuild(r)
    BY <1>0 DEF StartRebuild
  <2>. QED  BY <1>5, <2>1, <2>2 DEF RebuildStep, Unlink, List, ReadJournal, Replay, NothingListed,
                                    SnapshotRead, SnapshotWrite, Goto
<1>6. CASE NextMonth \/ UNCHANGED vars
  BY <1>6 DEF NextMonth, vars, OneAtATime
<1>7. ASSUME NEW w \in Writers, \A q \in Procs \ {w} : pc[q] = "idle" /\ pc'[q] = pc[q]
      PROVE  OneAtATime'
  BY <1>0, <1>7, StoreAssumption DEF OneAtATime
<1>8. CASE \E w \in Writers, s \in Scans, status \in Statuses, opening \in BOOLEAN :
             Begin(w, s, status, opening)
  BY <1>0, <1>2, <1>7, <1>8
<1>9. CASE \E w \in Writers : AppendStep(w) \/ ShortWrite(w)
  BY <1>0, <1>1, <1>3, <1>7, <1>9
<1>10. CASE \E p \in Procs : IndexStep(p) \/ Die(p)
  BY <1>0, <1>1, <1>4, <1>7, <1>10
<1>. QED  BY <1>5, <1>6, <1>8, <1>9, <1>10 DEF Next

(* After a step, too, a scan has one journal at most.                      *)
LEMMA OnlyJournalNext ==
  ASSUME TypeInv', JournalInv', NEW s \in Scans, NEW m \in Partitions, NEW n \in Partitions,
         Len(files'[s][m].lines) # 0, Len(files'[s][n].lines) # 0
  PROVE  m = n
<1>1. files'[s][m].tail # "absent" /\ files'[s][n].tail # "absent"
  BY DEF JournalInv, FilesOK
<1>. QED  BY <1>1 DEF JournalInv, OneJournal, Existing

(* A thread that is the only one in a call leaves nothing behind.          *)
LEMMA AloneStep ==
  ASSUME TypeInv, JournalInv, Fresh, HandTrue, LastHeld, [Next]_vars, TypeInv', JournalInv', NEW w \in Writers,
         \A q \in Procs \ {w} : pc[q] = "idle", faults = 0, faults' = 0,
         \/ \E s \in Scans, status \in Statuses, opening \in BOOLEAN : Begin(w, s, status, opening)
         \/ AppendStep(w) \/ ShortWrite(w) \/ IndexStep(w) \/ Die(w)
  PROVE  Fresh' /\ HandTrue' /\ LastHeld'
<1>. USE DEF disk, locks, local, hist
<1>0. /\ pc \in [Procs -> PCs] /\ call \in [Procs -> Call] /\ event \in [Procs -> Event \cup {NONE}]
      /\ buf \in [Procs -> Index] /\ cursor \in [Procs -> 0..4]
      /\ files \in [Scans -> [Partitions -> [lines : Seq(Event), tail : Tail_]]]
      /\ snapshot \in [Scans -> Event \cup {NONE}] /\ index \in Index
      /\ w \in Procs /\ \A v \in Writers : v \in Procs
  BY DEF TypeInv, TypeOK, Procs
<1>. DEFINE after == {"index", "readindex", "writeindex", "snapshot"}
<1>1. \A v \in Writers : pc[v] \in after \/ BeforeEntry(v) => v = w
  BY <1>0 DEF BeforeEntry
<1>2. ASSUME pc[w] \notin after, pc'[w] \notin after, \A q \in Procs \ {w} : pc'[q] = pc[q],
             UNCHANGED <<index, snapshot>>,
             \A s \in Scans, m \in Partitions : Len(files'[s][m].lines) # 0 => files'[s][m].lines = files[s][m].lines
      PROVE  Fresh' /\ HandTrue' /\ LastHeld'
  <2>1. ASSUME NEW s \in Scans, NEW m \in Partitions, Len(files'[s][m].lines) # 0
        PROVE  /\ LastOf(s, m)' = LastOf(s, m) /\ snapshot[s] = LastOf(s, m)
               /\ EntryAt(index.scan, s, LastOf(s, m).sequence)
    <3>1. FreshSnapshot(s, LastOf(s, m)) /\ FreshEntry(s, LastOf(s, m))
      BY <1>2, <2>1 DEF Fresh
    <3>2. \A v \in Writers : pc[v] \notin after /\ ~BeforeEntry(v)
      BY <1>1, <1>2 DEF BeforeEntry
    <3>. QED  BY <1>2, <2>1, <3>1, <3>2 DEF FreshSnapshot, FreshEntry, LastOf
  <2>2. Fresh'
    BY <1>2, <2>1 DEF Fresh, FreshSnapshot, FreshEntry
  <2>3. HandTrue' /\ LastHeld'
    BY <1>0, <1>2 DEF HandTrue, LastHeld
  <2>. QED  BY <2>2, <2>3
<1>3. ASSUME NEW s \in Scans, NEW status \in Statuses, NEW opening \in BOOLEAN, Begin(w, s, status, opening)
      PROVE  Fresh' /\ HandTrue' /\ LastHeld'
  <2>1. /\ pc[w] = "idle" /\ pc'[w] = "acquire" /\ UNCHANGED <<files, index, snapshot>>
        /\ \A q \in Procs \ {w} : pc'[q] = pc[q]
    BY <1>0, <1>3 DEF Begin, Goto
  <2>. QED  BY <1>2, <2>1
<1>4. CASE Acquire(w) \/ Prepare(w)
  <2>1. /\ pc[w] \in {"acquire", "prepare"} /\ pc'[w] \in {"prepare", "open"}
        /\ UNCHANGED <<files, index, snapshot>> /\ \A q \in Procs \ {w} : pc'[q] = pc[q]
    BY <1>0, <1>4 DEF Acquire, Prepare, Goto
  <2>. QED  BY <1>2, <2>1
<1>5. CASE Refuse(w)
  <2>1. /\ pc[w] = "prepare" /\ pc'[w] = "idle"
        /\ UNCHANGED <<files, index, snapshot>> /\ \A q \in Procs \ {w} : pc'[q] = pc[q]
    BY <1>0, <1>5 DEF Refuse, Leave
  <2>. QED  BY <1>2, <2>1
<1>6. CASE Open(w)
  <2>1. /\ pc[w] = "open" /\ pc'[w] = "write" /\ UNCHANGED <<index, snapshot>>
        /\ \A q \in Procs \ {w} : pc'[q] = pc[q]
    BY <1>0, <1>6 DEF Open, Goto
  <2>2. call[w].scan \in Scans /\ path[w] \in Partitions
    BY <1>0, <2>1 DEF TypeInv, LocalsOK
  <2>3. PICK s0, m0, old, new : /\ s0 = call[w].scan /\ m0 = path[w] /\ old = files[s0][m0]
                                /\ new = Opened(old) /\ files' = [files EXCEPT ![s0][m0] = new]
    BY <1>6 DEF Open
  <2>4. \A s \in Scans, m \in Partitions : files'[s][m] = IF s = s0 /\ m = m0 THEN new ELSE files[s][m]
    BY <1>0, <2>2, <2>3
  <2>5. Len(new.lines) # 0 => new = old
    BY <2>3 DEF Opened, EmptyFile
  <2>6. \A s \in Scans, m \in Partitions : Len(files'[s][m].lines) # 0 => files'[s][m].lines = files[s][m].lines
    BY <2>3, <2>4, <2>5
  <2>. QED  BY <1>2, <2>1, <2>6
<1>7. CASE Write(w)
  <2>1. /\ pc[w] = "write" /\ pc'[w] = "index" /\ UNCHANGED <<index, snapshot, call, event, cursor>>
        /\ \A q \in Procs \ {w} : pc'[q] = pc[q]
    BY <1>0, <1>7 DEF Write, Goto
  <2>2. call[w].scan \in Scans /\ path[w] \in Partitions /\ event[w] \in Event
    BY <1>0, <2>1 DEF TypeInv, LocalsOK
  <2>3. PICK s0, m0, e : s0 = call[w].scan /\ m0 = path[w] /\ e = event[w]
    OBVIOUS
  <2>4. PICK old, new : /\ old = files[s0][m0] /\ new = WriteLine(old, e)
                        /\ files' = [files EXCEPT ![s0][m0] = new]
    BY <1>7, <2>3 DEF Write
  <2>5. \A s \in Scans, m \in Partitions : files'[s][m] = IF s = s0 /\ m = m0 THEN new ELSE files[s][m]
    BY <1>0, <2>2, <2>3, <2>4
  <2>6. PICK log, more : log = old.lines /\ more = new.lines /\ log \in Seq(Event) /\ more = Append(log, e)
    <3>1. old.lines \in Seq(Event)
      BY <1>0, <2>2, <2>3, <2>4
    <3>2. new.lines = Append(old.lines, e)
      BY <2>4 DEF WriteLine
    <3>. QED  BY <3>1, <3>2
  <2>7. Len(more) # 0 /\ more[Len(more)] = e
    BY <2>2, <2>3, <2>6, AppendFacts
  <2>8. LastOf(s0, m0)' = e /\ Len(files'[s0][m0].lines) # 0
    BY <2>2, <2>3, <2>5, <2>6, <2>7 DEF LastOf
  <2>9. ASSUME NEW s \in Scans, NEW m \in Partitions, Len(files'[s][m].lines) # 0
        PROVE  FreshSnapshot(s, LastOf(s, m))' /\ FreshEntry(s, LastOf(s, m))'
    <3>1. CASE s = s0
      <4>1. m = m0
        BY <2>2, <2>3, <2>8, <2>9, <3>1, OnlyJournalNext
      <4>2. BeforeEntry(w)' /\ Behind(w, s, e)'
        BY <2>1, <2>3, <3>1 DEF BeforeEntry, Behind
      <4>. QED  BY <2>1, <2>8, <3>1, <4>1, <4>2 DEF FreshSnapshot, FreshEntry
    <3>2. CASE s # s0
      <4>1. files'[s][m] = files[s][m] /\ LastOf(s, m)' = LastOf(s, m)
        BY <2>5, <3>2 DEF LastOf
      <4>2. FreshSnapshot(s, LastOf(s, m)) /\ FreshEntry(s, LastOf(s, m))
        BY <2>9, <4>1 DEF Fresh
      <4>3. snapshot[s] = LastOf(s, m) /\ EntryAt(index.scan, s, LastOf(s, m).sequence)
        BY <1>1, <2>1, <4>2 DEF FreshSnapshot, FreshEntry, BeforeEntry
      <4>. QED  BY <2>1, <4>1, <4>3 DEF FreshSnapshot, FreshEntry
    <3>. QED  BY <3>1, <3>2
  <2>10. Fresh'
    BY <2>9 DEF Fresh
  <2>11. HandTrue'
    BY <1>0, <2>1 DEF HandTrue
  <2>12. LastHeld'
    <3>1. ASSUME NEW m \in Partitions, Len(files'[s0][m].lines) # 0
          PROVE  m = m0
      BY <2>2, <2>3, <2>8, <3>1, OnlyJournalNext
    <3>2. \A v \in Writers : pc'[v] \in after => v = w
      BY <1>0, <2>1
    <3>. QED  BY <2>1, <2>3, <2>8, <3>1, <3>2 DEF LastHeld
  <2>. QED  BY <2>10, <2>11, <2>12
<1>8. ASSUME pc[w] \in after, UNCHANGED <<files, call, event>>, \A q \in Procs \ {w} : pc'[q] = pc[q],
             \A s \in Scans, e \in Event :
               /\ FreshSnapshot(s, e) => FreshSnapshot(s, e)'
               /\ FreshEntry(s, e) => FreshEntry(s, e)'
      PROVE  Fresh'
  <2>1. ASSUME NEW s \in Scans, NEW m \in Partitions, Len(files[s][m].lines) # 0
        PROVE  FreshSnapshot(s, LastOf(s, m))' /\ FreshEntry(s, LastOf(s, m))'
    <3>1. PICK e : e = LastOf(s, m)
      OBVIOUS
    <3>2. e \in Event /\ LastOf(s, m)' = e
      BY <1>0, <1>8, <2>1, <3>1 DEF LastOf
    <3>3. FreshSnapshot(s, e) /\ FreshEntry(s, e)
      BY <2>1, <3>1 DEF Fresh
    <3>. QED  BY <1>8, <3>2, <3>3
  <2>. QED  BY <1>8, <2>1 DEF Fresh
<1>9. ASSUME pc[w] \in after, UNCHANGED <<files, call, event>>, \A q \in Procs \ {w} : pc'[q] = pc[q]
       PROVE  LastHeld'
  <2>1. ASSUME NEW v \in Writers, NEW m \in Partitions, pc'[v] \in after,
               Len(files'[call'[v].scan][m].lines) # 0
        PROVE  event'[v] = LastOf(call[v].scan, m)'
    <3>1. pc[v] \in after
      BY <1>0, <1>9, <2>1
    <3>2. event[v] = LastOf(call[v].scan, m)
      BY <1>9, <2>1, <3>1 DEF LastHeld
    <3>. QED  BY <1>9, <3>2 DEF LastOf
  <2>. QED  BY <2>1 DEF LastHeld
<1>10. CASE IndexLock(w)
  <2>1. /\ pc[w] = "index" /\ pc'[w] = "readindex" /\ cursor'[w] = 1
        /\ UNCHANGED <<files, index, snapshot, call, event, buf>>
        /\ \A q \in Procs \ {w} : pc'[q] = pc[q] /\ cursor'[q] = cursor[q]
    BY <1>0, <1>10 DEF IndexLock, Goto
  <2>2. Fresh'
    <3>1. ASSUME NEW s \in Scans, NEW e \in Event
          PROVE  /\ FreshSnapshot(s, e) => FreshSnapshot(s, e)'
                 /\ FreshEntry(s, e) => FreshEntry(s, e)'
      BY <1>1, <2>1 DEF FreshSnapshot, FreshEntry, BeforeEntry, Behind
    <3>. QED  BY <1>8, <2>1, <3>1
  <2>3. HandTrue'
    <3>1. \A v \in Writers : pc'[v] \in {"readindex", "writeindex"} => v = w
      BY <1>0, <2>1
    <3>. QED  BY <2>1, <3>1 DEF HandTrue
  <2>4. LastHeld'
    BY <1>9, <2>1
  <2>. QED  BY <2>2, <2>3, <2>4
<1>11. CASE ReadIndex(w)
  <2>1. PICK c, name, new : /\ c = cursor[w] /\ name = IndexFile[c]
                            /\ new = Updated(name, index[name], call[w].scan, path[w], event[w])
    OBVIOUS
  <2>2. /\ pc[w] = "readindex" /\ pc'[w] = (IF c = 4 THEN "writeindex" ELSE "readindex")
        /\ cursor'[w] = (IF c = 4 THEN 1 ELSE c + 1)
        /\ UNCHANGED <<files, index, snapshot, call, event>>
        /\ buf'[w] = [buf[w] EXCEPT ![name] = new]
        /\ \A q \in Procs \ {w} : pc'[q] = pc[q] /\ cursor'[q] = cursor[q]
    BY <1>0, <1>11, <2>1 DEF ReadIndex
  <2>3. c \in 1..4 /\ call[w].scan \in Scans /\ path[w] \in Partitions /\ event[w] \in Event
    BY <1>0, <2>1, <2>2 DEF TypeInv, LocalsOK
  <2>4. Fresh'
    <3>1. ASSUME NEW s \in Scans, NEW e \in Event
          PROVE  /\ FreshSnapshot(s, e) => FreshSnapshot(s, e)'
                 /\ FreshEntry(s, e) => FreshEntry(s, e)'
      BY <1>1, <2>2 DEF FreshSnapshot, FreshEntry, BeforeEntry, Behind
    <3>. QED  BY <1>8, <2>2, <3>1
  <2>5. buf'[w].scan = IF c = 1 THEN new ELSE buf[w].scan
    <3>0. buf[w] \in Index
      BY <1>0
    <3>1. Replaced(buf'[w], buf[w], c, new)
      BY <2>1, <2>2, <2>3, <3>0, FileReplaced
    <3>2. IndexFile[1] = "scan"
      BY DEF IndexFile
    <3>. QED  BY <3>1, <3>2 DEF Replaced
  <2>6. c = 1 => /\ EntryAt(new, call[w].scan, event[w].sequence)
                 /\ \A x \in Scans \ {call[w].scan} : new[x] = index.scan[x]
    <3>1. SUFFICES ASSUME c = 1
                   PROVE  /\ EntryAt(new, call[w].scan, event[w].sequence)
                          /\ \A x \in Scans \ {call[w].scan} : new[x] = index.scan[x]
      OBVIOUS
    <3>2. PICK entry : entry = [month |-> path[w], sequence |-> event[w].sequence, status |-> event[w].status]
      OBVIOUS
    <3>3. name = "scan" /\ new = [index.scan EXCEPT ![call[w].scan] = entry]
      BY <2>1, <3>1, <3>2 DEF IndexFile, Updated, Entered
    <3>4. entry \in Entry /\ entry.sequence = event[w].sequence
      BY <2>3, <3>2 DEF Entry, Event
    <3>5. index.scan \in [Scans -> Entry \cup {NONE}] /\ entry # NONE
      BY <1>0, <3>4, IndexAssumption DEF Index
    <3>. QED  BY <2>3, <3>3, <3>4, <3>5 DEF EntryAt
  <2>7. HandTrue'
    <3>1. /\ EntryAt(buf'[w].scan, call[w].scan, event[w].sequence)
          /\ \A x \in Scans \ {call[w].scan} : buf'[w].scan[x] = index.scan[x]
      <4>1. CASE c = 1
        BY <2>5, <2>6, <4>1
      <4>2. CASE c # 1
        <5>1. pc[w] = "readindex" /\ cursor[w] > 1
          BY <2>1, <2>2, <2>3, <4>2
        <5>. QED  BY <2>5, <4>2, <5>1 DEF HandTrue
      <4>. QED  BY <4>1, <4>2
    <3>2. \A v \in Writers : pc'[v] \in {"readindex", "writeindex"} => v = w
      BY <1>0, <2>2
    <3>. QED  BY <2>2, <3>1, <3>2 DEF HandTrue
  <2>8. LastHeld'
    BY <1>9, <2>2
  <2>. QED  BY <2>4, <2>7, <2>8
<1>12. CASE WriteIndex(w)
  <2>1. PICK c, name, v : c = cursor[w] /\ name = IndexFile[c] /\ v = buf[w][name]
    OBVIOUS
  <2>2. /\ pc[w] = "writeindex" /\ pc'[w] = (IF c = 4 THEN "snapshot" ELSE "writeindex")
        /\ cursor'[w] = (IF c = 4 THEN 0 ELSE c + 1)
        /\ UNCHANGED <<files, snapshot, call, event>>
        /\ index' = [index EXCEPT ![name] = v]
        /\ \A q \in Procs \ {w} : pc'[q] = pc[q] /\ cursor'[q] = cursor[q]
    BY <1>0, <1>12, <2>1 DEF WriteIndex
  <2>3. c \in 1..4 /\ call[w].scan \in Scans /\ event[w] \in Event
    BY <1>0, <2>1, <2>2 DEF TypeInv, LocalsOK
  <2>4. index'.scan = IF c = 1 THEN buf[w].scan ELSE index.scan
    <3>1. Replaced(index', index, c, v)
      BY <1>0, <2>1, <2>2, <2>3, FileReplaced
    <3>2. IndexFile[1] = "scan"
      BY DEF IndexFile
    <3>. QED  BY <2>1, <3>1, <3>2 DEF Replaced
  <2>5. c = 1 => /\ EntryAt(buf[w].scan, call[w].scan, event[w].sequence)
                 /\ \A x \in Scans \ {call[w].scan} : buf[w].scan[x] = index.scan[x]
    BY <2>1, <2>2 DEF HandTrue
  <2>6. ASSUME NEW s \in Scans, NEW m \in Partitions, Len(files[s][m].lines) # 0
        PROVE  FreshSnapshot(s, LastOf(s, m))' /\ FreshEntry(s, LastOf(s, m))'
    <3>1. PICK e : e = LastOf(s, m)
      OBVIOUS
    <3>2. e \in Event /\ LastOf(s, m)' = e
      BY <1>0, <2>2, <2>6, <3>1 DEF LastOf
    <3>3. FreshSnapshot(s, e) /\ FreshEntry(s, e)
      BY <2>6, <3>1 DEF Fresh
    <3>4. FreshSnapshot(s, e)'
      BY <1>1, <2>2, <3>3 DEF FreshSnapshot, Behind
    <3>5. FreshEntry(s, e)'
      <4>1. CASE c # 1
        <5>1. \A x \in Writers : ~BeforeEntry(x)
          BY <1>1, <2>1, <2>2, <4>1 DEF BeforeEntry
        <5>. QED  BY <2>4, <3>3, <4>1, <5>1 DEF FreshEntry
      <4>2. CASE c = 1 /\ s = call[w].scan
        <5>1. e = event[w]
          BY <2>2, <2>6, <3>1, <4>2 DEF LastHeld
        <5>. QED  BY <2>4, <2>5, <4>2, <5>1 DEF FreshEntry
      <4>3. CASE c = 1 /\ s # call[w].scan
        <5>1. EntryAt(index.scan, s, e.sequence)
          BY <1>1, <3>3, <4>3 DEF FreshEntry, Behind
        <5>. QED  BY <2>4, <2>5, <4>3, <5>1 DEF FreshEntry, EntryAt
      <4>. QED  BY <4>1, <4>2, <4>3
    <3>. QED  BY <3>2, <3>4, <3>5
  <2>7. Fresh'
    BY <2>2, <2>6 DEF Fresh
  <2>8. HandTrue'
    <3>1. \A x \in Writers : pc'[x] \in {"readindex", "writeindex"} => x = w
      BY <1>0, <2>2
    <3>2. pc'[w] = "writeindex" => cursor'[w] # 1
      BY <2>2, <2>3
    <3>. QED  BY <2>2, <3>1, <3>2 DEF HandTrue
  <2>9. LastHeld'
    BY <1>9, <2>2
  <2>. QED  BY <2>7, <2>8, <2>9
<1>13. CASE WriteSnapshot(w)
  <2>1. /\ pc[w] = "snapshot" /\ pc'[w] = "idle" /\ UNCHANGED <<files, index>>
        /\ \A q \in Procs \ {w} : pc'[q] = pc[q]
        /\ snapshot' = [snapshot EXCEPT ![call[w].scan] = event[w]]
    BY <1>0, <1>13 DEF WriteSnapshot, Leave
  <2>2. ASSUME NEW s \in Scans, NEW m \in Partitions, Len(files[s][m].lines) # 0
        PROVE  FreshSnapshot(s, LastOf(s, m))' /\ FreshEntry(s, LastOf(s, m))'
    <3>1. LastOf(s, m)' = LastOf(s, m)
      BY <2>1 DEF LastOf
    <3>2. FreshSnapshot(s, LastOf(s, m)) /\ FreshEntry(s, LastOf(s, m))
      BY <2>2 DEF Fresh
    <3>3. snapshot'[s] = LastOf(s, m)
      <4>1. CASE s = call[w].scan
        BY <1>0, <2>1, <2>2, <4>1 DEF LastHeld
      <4>2. CASE s # call[w].scan
        <5>1. snapshot[s] = LastOf(s, m)
          BY <1>1, <3>2, <4>2 DEF FreshSnapshot, Behind
        <5>. QED  BY <1>0, <2>1, <4>2, <5>1
      <4>. QED  BY <4>1, <4>2
    <3>4. EntryAt(index.scan, s, LastOf(s, m).sequence)
      BY <1>1, <2>1, <3>2 DEF FreshEntry, BeforeEntry
    <3>. QED  BY <2>1, <3>1, <3>3, <3>4 DEF FreshSnapshot, FreshEntry
  <2>3. Fresh'
    BY <2>1, <2>2 DEF Fresh
  <2>4. HandTrue' /\ LastHeld'
    BY <1>0, <2>1 DEF HandTrue, LastHeld
  <2>. QED  BY <2>3, <2>4
<1>14. CASE ShortWrite(w) \/ Die(w)
  BY <1>14 DEF ShortWrite, Die
<1>. QED  BY <1>3, <1>4, <1>5, <1>6, <1>7, <1>10, <1>11, <1>12, <1>13, <1>14 DEF AppendStep, IndexStep

(* The last event of the only journal of a scan is the head of its chain.  *)
LEMMA HeadIsLast ==
  ASSUME TypeInv, JournalInv, NEW s \in Scans, NEW m \in Partitions, Len(files[s][m].lines) # 0
  PROVE  Head_(s) = LastOf(s, m)
<1>1. \A n \in Partitions : n # m => files[s][n].lines = <<>>
  <2>1. Existing(s) = {m}
    BY OnlyJournal
  <2>. QED  BY <2>1 DEF Existing, JournalInv, FilesOK
<1>2. PICK log : log = files[s][m].lines
  OBVIOUS
<1>3. /\ log \in Seq(Event) /\ Len(log) \in 1..Len(log) /\ log[Len(log)] = LastOf(s, m)
      /\ \A i \in 1..Len(log) : log[i].sequence = i
  BY <1>2 DEF TypeInv, TypeOK, JournalInv, ChainIntact, VerifyChain, LastOf
<1>. DEFINE events == UNION {{files[s][n].lines[i] : i \in 1..Len(files[s][n].lines)} : n \in Partitions}
            heads  == {e \in events : \A n \in Partitions : e.sequence >= Len(files[s][n].lines)}
<1>4. \A e \in events : \E i \in 1..Len(log) : e = log[i]
  BY <1>1, <1>2
<1>5. LastOf(s, m) \in events
  BY <1>2, <1>3
<1>6. \A n \in Partitions : LastOf(s, m).sequence >= Len(files[s][n].lines)
  <2>1. LastOf(s, m).sequence = Len(log) /\ Len(log) \in Nat
    BY <1>3
  <2>2. \A n \in Partitions : Len(files[s][n].lines) = 0 \/ n = m
    BY <1>1
  <2>. QED  BY <1>2, <2>1, <2>2
<1>7. ASSUME NEW e \in events, \A n \in Partitions : e.sequence >= Len(files[s][n].lines)
      PROVE  e = LastOf(s, m)
  <2>1. PICK i \in 1..Len(log) : e = log[i]
    BY <1>4
  <2>2. e.sequence = i /\ e.sequence >= Len(log)
    BY <1>2, <1>3, <1>7, <2>1
  <2>3. i = Len(log)
    BY <1>3, <2>2
  <2>. QED  BY <1>3, <2>1, <2>3
<1>8. Head_(s) = CHOOSE e \in events : \A n \in Partitions : e.sequence >= Len(files[s][n].lines)
  BY DEF Head_
<1>. HIDE DEF events
<1>. QED  BY <1>5, <1>6, <1>7, <1>8

(* When calls come one after the other and none dies, snapshot and         *)
(* scan_index show the last event of each journal once they are over.      *)
THEOREM AloneIsLatest == MCSpec => []LatestAlone
<1>. DEFINE Inv == StoreInv /\ (scenario = "alone" => AloneInv)
<1>1. MCInit => Inv
  <2>1. Init => OneAtATime /\ Fresh /\ HandTrue /\ LastHeld
    BY DEF Init, OneAtATime, Fresh, HandTrue, LastHeld, NoFile, Procs
  <2>. QED  BY <2>1, InitTypes, InitJournal, InitStored DEF StoreInv, MCInit, AloneInv
<1>2. Inv /\ [MCNext]_<<vars, scenario>> => Inv'
  <2>. SUFFICES ASSUME Inv, [MCNext]_<<vars, scenario>> PROVE Inv'
    OBVIOUS
  <2>1. [Next]_vars /\ UNCHANGED scenario
    BY DEF MCNext
  <2>2. StoreInv'
    BY <2>1, StepTypes, StepJournal, StepStored DEF StoreInv
  <2>3. ASSUME scenario = "alone", AloneInv
        PROVE  AloneInv'
    <3>1. CASE UNCHANGED vars
      <4>1. UNCHANGED <<files, index, snapshot, pc, call, event, buf, cursor, faults>>
        BY <3>1 DEF vars, disk, local, hist
      <4>. QED  BY <2>3, <4>1 DEF AloneInv, OneAtATime, Fresh, HandTrue, LastHeld, FreshSnapshot, FreshEntry,
                               BeforeEntry, Behind, LastOf
    <3>2. CASE Next /\ Alone /\ rebuilds' = 0
      <4>1. OneAtATime'
        BY <2>1, <2>3, <3>2, OneCaller DEF AloneInv, StoreInv
      <4>2. ASSUME faults' = 0
            PROVE  Fresh' /\ HandTrue' /\ LastHeld'
        <5>1. faults = 0 /\ Fresh /\ HandTrue /\ LastHeld
          BY <2>1, <2>3, <4>2, FaultsStay DEF AloneInv, StoreInv
        <5>2. CASE NextMonth
          <6>1. UNCHANGED <<files, index, snapshot, pc, call, event, buf, cursor>>
            BY <5>2 DEF NextMonth, disk, local
          <6>. QED  BY <5>1, <6>1 DEF Fresh, HandTrue, LastHeld, FreshSnapshot, FreshEntry, BeforeEntry, Behind, LastOf
        <5>3. CASE UNCHANGED vars
          <6>1. UNCHANGED <<files, index, snapshot, pc, call, event, buf, cursor>>
            BY <5>3 DEF vars, disk, local
          <6>. QED  BY <5>1, <6>1 DEF Fresh, HandTrue, LastHeld, FreshSnapshot, FreshEntry, BeforeEntry, Behind, LastOf
        <5>4. ASSUME NEW w \in Writers, \A q \in Procs \ {w} : pc[q] = "idle",
                     \/ \E s \in Scans, status \in Statuses, opening \in BOOLEAN : Begin(w, s, status, opening)
                     \/ AppendStep(w) \/ ShortWrite(w) \/ IndexStep(w) \/ Die(w)
              PROVE  Fresh' /\ HandTrue' /\ LastHeld'
          BY <2>1, <2>2, <4>2, <5>1, <5>4, AloneStep DEF StoreInv
        <5>. QED  BY <2>1, <2>3, <3>2, <5>2, <5>3, <5>4, OneCaller DEF AloneInv, StoreInv
      <4>. QED  BY <4>1, <4>2 DEF AloneInv
    <3>. QED  BY <2>3, <3>1, <3>2 DEF MCNext, Within
  <2>. QED  BY <2>1, <2>2, <2>3
<1>3. Inv => LatestAlone
  <2>. SUFFICES ASSUME StoreInv, AloneInv, Quiet, faults = 0, NEW s \in Scans, acked[s] # {}
                PROVE  /\ snapshot[s] = Head_(s) /\ index.scan[s] # NONE
                       /\ index.scan[s].sequence = Head_(s).sequence
    BY DEF LatestAlone, SnapshotLatest, IndexLatest
  <2>1. PICK e \in acked[s] : TRUE
    OBVIOUS
  <2>2. PICK m \in Partitions : At(s, m, e)
    BY DEF StoreInv, StoredInv, Shown, InJournal
  <2>3. files[s][m].lines \in Seq(Event)
    BY DEF StoreInv, TypeInv, TypeOK
  <2>4. Len(files[s][m].lines) # 0
    BY <2>2, <2>3 DEF At
  <2>5. FreshSnapshot(s, LastOf(s, m)) /\ FreshEntry(s, LastOf(s, m))
    BY <2>4 DEF AloneInv, Fresh
  <2>6. \A w \in Writers : pc[w] = "idle"
    BY DEF Quiet, Procs
  <2>7. Head_(s) = LastOf(s, m)
    BY <2>4, HeadIsLast DEF StoreInv
  <2>. QED  BY <2>5, <2>6, <2>7 DEF FreshSnapshot, FreshEntry, BeforeEntry, EntryAt
<1>. QED  BY <1>1, <1>2, <1>3, PTL DEF MCSpec
=============================================================================
