------------------------------ MODULE EventLog -------------------------------
(***************************************************************************)
(* What the JSON event store promises, with no files, locks, indexes or    *)
(* partitions in sight: every scan has one chained history that only ever  *)
(* grows at its end, a history is opened at most once, and a caller is     *)
(* told of success only for an event that is in the history.               *)
(***************************************************************************)
EXTENDS HashChain

CONSTANTS
  Scans,
  Hashes       \* digests that can be minted, a set of positive naturals

VARIABLES
  log,     \* log[s]: the history of scan s
  acked    \* acked[s]: events whose append returned to its caller

lvars == <<log, acked>>

Init ==
  /\ log = [s \in Scans |-> <<>>]
  /\ acked = [s \in Scans |-> {}]

(* One event reaches the end of one history, with the position and the     *)
(* previous hash the chain calls for.  Only the first event of a history   *)
(* may have been appended on condition that the scan was new.              *)
Extend(s, hash, status, opening) ==
  /\ opening => log[s] = <<>>
  /\ log' = [log EXCEPT ![s] = Append(@, Seal(@, hash, status, opening))]
  /\ UNCHANGED acked

(* A caller learns that its event is in the history.                       *)
Acknowledge(s, i) ==
  /\ acked' = [acked EXCEPT ![s] = @ \cup {log[s][i]}]
  /\ UNCHANGED log

Next ==
  \E s \in Scans :
    \/ \E hash \in Hashes, status \in Statuses, opening \in BOOLEAN :
         Extend(s, hash, status, opening)
    \/ \E i \in 1..Len(log[s]) : Acknowledge(s, i)

Spec == Init /\ [][Next]_lvars
=============================================================================
