------------------------------ MODULE HashChain ------------------------------
(***************************************************************************)
(* Event records and the hash chain that links them                        *)
(* (app/storage/event_store/schemas.py and hash_chain.py).                 *)
(*                                                                         *)
(* An event is reduced to the fields the store decides on: its position,   *)
(* the two hashes, the status its payload carries, and whether it was      *)
(* appended by a caller that insisted on opening a new scan.  SHA-256 over *)
(* the canonical content, which holds a fresh UUID, is a natural number    *)
(* that no two sealed events share; 0 stands for the empty string that     *)
(* precedes the first event.                                               *)
(***************************************************************************)
EXTENDS Naturals, Sequences

CONSTANT Statuses      \* values of payload["status"]

Genesis == 0           \* previous_event_hash of the first event of a journal

Event == [sequence : Nat \ {0}, previous : Nat, hash : Nat \ {0},
          status : Statuses, opening : BOOLEAN]

(* Fault: events are numbered from 0.  (Nothing uses this; TypeOK of       *)
(* EventStore is known to notice it in place of NextSequence.)             *)
NextFromZero(log) == IF log = <<>> THEN 0 ELSE log[Len(log)].sequence + 1

(* What the next event has to point at, read off the last line.            *)
NextSequence(log) == IF log = <<>> THEN 1 ELSE log[Len(log)].sequence + 1
HeadHash(log)     == IF log = <<>> THEN Genesis ELSE log[Len(log)].hash

(* EventRecord.new followed by seal_event: the hash argument is the digest *)
(* of the record's own content.                                            *)
Seal(log, hash, status, opening) ==
  [sequence |-> NextSequence(log), previous |-> HeadHash(log), hash |-> hash,
   status |-> status, opening |-> opening]

(* verify_chain: positions count from 1 and each event names the hash of   *)
(* the event before it.                                                    *)
VerifyChain(log) ==
  \A i \in 1..Len(log) :
    /\ log[i].sequence = i
    /\ log[i].previous = IF i = 1 THEN Genesis ELSE log[i-1].hash
=============================================================================
