---------------------------- MODULE Attestation ------------------------------
(***************************************************************************)
(* OpenTitan attestation: scripts/demo/mint_hardware_evidence.py writes an *)
(* attestation whose counter is one above the last one accepted, and       *)
(* OpenTitanAttestationVerifier accepts it once, while it is fresh.        *)
(*                                                                         *)
(* The counter is not reserved when it is drawn: the replay state is read  *)
(* without its lock, and only an accepted attestation advances it.  The    *)
(* clock is looked at before the lock is asked for.  The replay state is   *)
(* replaced atomically, so nobody reads half of it; the counter of one     *)
(* device is modelled, -1 while the file does not exist.                   *)
(*                                                                         *)
(* Definitions headed "Fault:" are plausible bugs the properties notice.   *)
(***************************************************************************)
EXTENDS Integers, Sequences, HardwareRules

CONSTANTS
  Mints,     \* executions of the minting script
  Runs,      \* runs of the pipeline that verify
  Policy,    \* the configuration of the stages
  MaxClock   \* bound on the clock

VARIABLES
  pc,           \* pc[p]: the step p takes next
  clock,        \* the time, in units of which Policy.maximumAge are allowed
  replay,       \* the highest counter accepted, as the replay state has it
  replayLock,   \* who holds the lock of the replay state, or NONE
  attestation,  \* the attestation file
  drawn,        \* drawn[m]: the counter mint m has drawn
  made,         \* made[m]: the attestation mint m has signed
  held,         \* held[r]: the attestation run r has read
  seen,         \* seen[r]: the counter run r has read under the lock
  accepted      \* the attestations accepted, in order

counters == <<replay, replayLock, seen, accepted>>
attested == <<clock, counters, attestation, drawn, made, held>>

Goes(p, step) == pc' = [pc EXCEPT ![p] = step]

AttestationInit ==
  /\ clock = 0 /\ replay = -1 /\ replayLock = NONE /\ attestation = NONE
  /\ drawn = [m \in Mints |-> 0] /\ made = [m \in Mints |-> NONE]
  /\ held = [r \in Runs |-> NONE] /\ seen = [r \in Runs |-> -1]
  /\ accepted = <<>>

-----------------------------------------------------------------------------
(* Fault: the counter that was accepted last is used again.                *)
SameCounter == Max({replay, 1})

(* Minting.  A missing state and a missing record both make 1.             *)
NextCounter == Max({replay, 0}) + 1

SignedAttestation(m, counter, stamp) ==
  [mint |-> m, counter |-> counter, stamp |-> stamp, lifecycle |-> "PROD", firmware |-> "simulated",
   nonce |-> [hexadecimal |-> TRUE, digits |-> 48], chain |-> FALSE, signed |-> TRUE,
   named |-> TRUE, digested |-> TRUE]

DrawCounter(m) ==
  /\ pc[m] = "draw" /\ Goes(m, "stamp")
  /\ drawn' = [drawn EXCEPT ![m] = NextCounter]
  /\ UNCHANGED <<clock, counters, attestation, made, held>>

Stamp(m) ==
  /\ pc[m] = "stamp" /\ Goes(m, "write")
  /\ made' = [made EXCEPT ![m] = SignedAttestation(m, drawn[m], clock)]
  /\ UNCHANGED <<clock, counters, attestation, drawn, held>>

WriteAttestation(m) ==
  /\ pc[m] = "write" /\ Goes(m, "enroll")
  /\ attestation' = made[m]
  /\ UNCHANGED <<clock, counters, drawn, made, held>>

-----------------------------------------------------------------------------
(* Verifying.                                                              *)
ReadAttestation(r) ==
  /\ pc[r] = "attest" /\ attestation # NONE /\ Goes(r, "check")
  /\ held' = [held EXCEPT ![r] = attestation]
  /\ UNCHANGED <<clock, counters, attestation, drawn, made>>

CheckAttestation(r) ==
  /\ pc[r] = "check"
  /\ Goes(r, IF AttestationReasons(held[r], clock, Policy) = {} THEN "lock" ELSE "rejected")
  /\ UNCHANGED attested

(* Fault: the state is read and advanced without the lock.                 *)
LockNothing(r) == pc[r] = "lock" /\ Goes(r, "counter") /\ UNCHANGED attested

LockReplay(r) ==
  /\ pc[r] = "lock" /\ replayLock = NONE /\ Goes(r, "counter")
  /\ replayLock' = r
  /\ UNCHANGED <<clock, replay, seen, accepted, attestation, drawn, made, held>>

ReadCounter(r) ==
  /\ pc[r] = "counter"
  /\ seen' = [seen EXCEPT ![r] = replay]
  /\ \/ held[r].counter <= replay /\ replayLock' = NONE /\ Goes(r, "rejected")
     \/ held[r].counter > replay /\ Goes(r, "store") /\ UNCHANGED replayLock
  /\ UNCHANGED <<clock, replay, accepted, attestation, drawn, made, held>>

(* Fault: the lock is left behind with the new state.                      *)
StoreCounterKeepsLock(r) ==
  /\ pc[r] = "store" /\ Goes(r, "capture")
  /\ replay' = held[r].counter
  /\ accepted' = Append(accepted, [run |-> r, counter |-> held[r].counter, stamp |-> held[r].stamp])
  /\ UNCHANGED <<clock, replayLock, seen, attestation, drawn, made, held>>

StoreCounter(r) ==
  /\ pc[r] = "store" /\ Goes(r, "capture")
  /\ replay' = held[r].counter /\ replayLock' = NONE
  /\ accepted' = Append(accepted, [run |-> r, counter |-> held[r].counter, stamp |-> held[r].stamp])
  /\ UNCHANGED <<clock, seen, attestation, drawn, made, held>>

-----------------------------------------------------------------------------
(* Who dies loses the lock with its file descriptor.                       *)
LoseLock(p) == replayLock' = IF replayLock = p THEN NONE ELSE replayLock

Tick ==
  /\ clock < MaxClock /\ clock' = clock + 1
  /\ UNCHANGED <<pc, counters, attestation, drawn, made, held>>

(* Attestations are accepted in the order they were made, each counter     *)
(* once: no run, however it races, brings back an older one.               *)
AttestedInOrder ==
  \A i, j \in DOMAIN accepted : i < j =>
    accepted[i].counter < accepted[j].counter /\ accepted[i].stamp <= accepted[j].stamp
=============================================================================
