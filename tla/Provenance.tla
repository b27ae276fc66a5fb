----------------------------- MODULE Provenance ------------------------------
(***************************************************************************)
(* Recording a scan on two ledgers: BlockchainService.record_scan, the     *)
(* Fabric chaincode semiconductor_provenance, the Solidity contract        *)
(* HashAnchor and the local receipt repository.                            *)
(*                                                                         *)
(* Request threads run record_scan; each is a sequence of remote calls and *)
(* local writes with no transaction around them.  Fabric executes a        *)
(* transaction when it is endorsed and validates it when it is ordered: it *)
(* is invalid if the record changed in between.  Ethereum mines one        *)
(* account's transactions in the order of their nonces.  A call that times *)
(* out leaves its transaction behind, and that may still take effect.      *)
(*                                                                         *)
(* The digest of a provenance document is fresh each time, because the     *)
(* document holds the time; digests are 1, 2, ...  A batch has one leaf,   *)
(* so its Merkle root is that leaf.                                        *)
(*                                                                         *)
(* Definitions headed "Fault:" are plausible bugs the properties notice.   *)
(***************************************************************************)
EXTENDS Naturals, Sequences, FiniteSets

CONSTANTS
  Procs,          \* request threads
  Scans,
  MaxDigests,     \* bound on documents that reach endorsement
  MaxRevokes,     \* bound on revocations
  MaxFaults,      \* bound on timeouts and deaths
  NONE, REJECT

ASSUME ProvenanceAssumption ==
  /\ MaxDigests \in Nat /\ MaxRevokes \in Nat /\ MaxFaults \in Nat
  /\ NONE \notin Procs /\ IsFiniteSet(Procs)

Digests == 1..MaxDigests
Record  == [digest : Digests, root : Digests \cup {0}, tx : Nat \cup {NONE}, revoked : BOOLEAN]

ASSUME NoneIsNoRecord == NONE \notin Record

VARIABLES
  \* Fabric
  record,     \* record[s]: world state under the provenance key of s, or NONE
  version,    \* version[s]: version of that key
  ordered,    \* endorsed transactions on their way to a block
  \* Ethereum
  anchored,   \* roots stored in HashAnchor
  mempool,    \* transactions not mined yet
  nonce,      \* transactions the node has accepted from the account
  \* the platform's disk
  receipts,   \* receipts[r]: transaction of root r in the receipt repository
  journal,    \* journal[s]: ledger events of s in the event store
  \* the threads
  pc, call, verdict,
  minted, revokes, faults

fabric   == <<record, version, ordered>>
ethereum == <<anchored, mempool, nonce>>
disk     == <<receipts, journal>>
local    == <<call, verdict>>
bounds   == <<minted, revokes, faults>>
vars     == <<fabric, ethereum, disk, pc, local, bounds>>

-----------------------------------------------------------------------------
(* The chaincode: what a transaction makes of the record, or REJECT.       *)

RecordProvenance(rec, digest) ==
  IF rec # NONE THEN REJECT
  ELSE [digest |-> digest, root |-> 0, tx |-> NONE, revoked |-> FALSE]

(* Fault: the record is put together afresh.                               *)
AttachFresh(rec, root, tx) ==
  IF rec = NONE \/ (rec.root # 0 /\ <<rec.root, rec.tx>> # <<root, tx>>) THEN REJECT
  ELSE [digest |-> rec.digest, root |-> root, tx |-> tx, revoked |-> FALSE]

AttachEthereumAnchor(rec, root, tx) ==
  IF rec = NONE \/ (rec.root # 0 /\ <<rec.root, rec.tx>> # <<root, tx>>) THEN REJECT
  ELSE [rec EXCEPT !.root = root, !.tx = tx]

(* Fault: a revoked record is emptied.                                     *)
RevokeEmptying(rec) ==
  IF rec = NONE THEN REJECT
  ELSE [digest |-> rec.digest, root |-> 0, tx |-> NONE, revoked |-> TRUE]

RevokeProvenance(rec) == IF rec = NONE THEN REJECT ELSE [rec EXCEPT !.revoked = TRUE]

-----------------------------------------------------------------------------
NoCall == [scan |-> NONE, digest |-> 0, nonce |-> 0, tx |-> NONE]

Init ==
  /\ record = [s \in Scans |-> NONE] /\ version = [s \in Scans |-> 0] /\ ordered = {}
  /\ anchored = {} /\ mempool = {} /\ nonce = 0
  /\ receipts = [r \in Digests |-> NONE] /\ journal = [s \in Scans |-> <<>>]
  /\ pc = [p \in Procs |-> "idle"]
  /\ call = [p \in Procs |-> NoCall]
  /\ verdict = [p \in Procs |-> "none"]
  /\ minted = 0 /\ revokes = 0 /\ faults = 0

Goto(p, from, to) == pc[p] = from /\ pc' = [pc EXCEPT ![p] = to]

(* p's call is over.  Nobody waits for its transactions any more.          *)
Leave(p) ==
  /\ pc' = [pc EXCEPT ![p] = "idle"]
  /\ call' = [call EXCEPT ![p] = NoCall]
  /\ verdict' = [verdict EXCEPT ![p] = "none"]

Orphaned(txs, p) == {IF t.owner = p THEN [t EXCEPT !.owner = NONE] ELSE t : t \in txs}

(* Fabric endorses: the transaction is executed against the present state. *)
Endorsed(owner, s, write) ==
  ordered \cup {[owner |-> owner, scan |-> s, read |-> version[s], write |-> write]}

Answer(t, word) == verdict' = IF t.owner = NONE THEN verdict
                              ELSE [verdict EXCEPT ![t.owner] = word]

Note(s, type, digest) ==
  journal' = [journal EXCEPT ![s] = Append(@, [type |-> type, digest |-> digest])]

-----------------------------------------------------------------------------
(* record_scan                                                             *)

(* A call starts; there is a digest left for its document, or no need of   *)
(* one.                                                                    *)
RecordScan(p, s) ==
  /\ Goto(p, "idle", "submit")
  /\ record[s] # NONE \/ minted + Cardinality({q \in Procs : pc[q] = "submit"}) < MaxDigests
  /\ call' = [call EXCEPT ![p].scan = s]
  /\ UNCHANGED <<fabric, ethereum, disk, verdict, bounds>>

(* Fault: the peer's refusal goes unnoticed.                               *)
SubmitUnchecked(p) ==
  LET s == call[p].scan
  IN  /\ Goto(p, "submit", "commit")
      /\ minted' = minted + 1
      /\ call' = [call EXCEPT ![p].digest = minted']
      /\ ordered' = Endorsed(p, s, RecordProvenance(record[s], minted'))
      /\ UNCHANGED <<record, version, ethereum, disk, verdict, revokes, faults>>

(* FabricTransactions.record_provenance: the peer endorses or refuses.     *)
Submit(p) ==
  LET s     == call[p].scan
      write == RecordProvenance(record[s], minted + 1)
  IN  /\ pc[p] = "submit"
      /\ \/ /\ write = REJECT
            /\ Leave(p)
            /\ UNCHANGED <<ordered, minted>>
         \/ /\ write # REJECT
            /\ minted' = minted + 1
            /\ call' = [call EXCEPT ![p].digest = minted']
            /\ ordered' = Endorsed(p, s, write)
            /\ Goto(p, "submit", "commit")
            /\ UNCHANGED verdict
      /\ UNCHANGED <<record, version, ethereum, disk, revokes, faults>>

(* --waitForEvent: the block came; the transaction in it is valid or not.  *)
Committed(p, from, to) ==
  /\ pc[p] = from
  /\ \/ /\ verdict[p] = "valid"
        /\ Goto(p, from, to)
        /\ verdict' = [verdict EXCEPT ![p] = "none"]
        /\ UNCHANGED call
     \/ /\ verdict[p] = "invalid"
        /\ Leave(p)
  /\ UNCHANGED <<record, version, ordered>>

FabricCommitted(p) ==
  /\ Committed(p, "commit", "fabricEvent")
  /\ UNCHANGED <<ethereum, disk, bounds>>

FabricEvent(p) ==
  /\ Goto(p, "fabricEvent", "lookup")
  /\ Note(call[p].scan, "fabric.committed", call[p].digest)
  /\ UNCHANGED <<fabric, ethereum, receipts, local, bounds>>

(* AnchorService.anchor_hashes: a receipt that exists is used.             *)
LookUpReceipt(p) ==
  LET receipt == receipts[call[p].digest]
  IN  /\ Goto(p, "lookup", IF receipt = NONE THEN "nonce" ELSE "attach")
      /\ call' = [call EXCEPT ![p].tx = receipt]
      /\ UNCHANGED <<fabric, ethereum, disk, verdict, bounds>>

(* EthereumClient.anchor: "already anchored", or the account's pending     *)
(* transaction count is read.                                              *)
ReadNonce(p) ==
  /\ pc[p] = "nonce"
  /\ IF call[p].digest \in anchored
     THEN Leave(p)
     ELSE /\ Goto(p, "nonce", "send")
          /\ call' = [call EXCEPT ![p].nonce = nonce]
          /\ UNCHANGED verdict
  /\ UNCHANGED <<fabric, ethereum, disk, bounds>>

(* send_raw_transaction: a nonce that was used in the meantime is refused, *)
(* or, while its first user is not mined, may replace that transaction.    *)
Send(p) ==
  LET tx     == [owner |-> p, nonce |-> call[p].nonce, root |-> call[p].digest]
      rivals == {t \in mempool : t.nonce = tx.nonce}
  IN  /\ pc[p] = "send"
      /\ \/ /\ tx.nonce = nonce
            /\ nonce' = nonce + 1
            /\ mempool' = mempool \cup {tx}
            /\ Goto(p, "send", "mine")
            /\ UNCHANGED local
         \/ /\ tx.nonce # nonce /\ rivals # {}
            /\ mempool' = (mempool \ rivals) \cup {tx}
            /\ Goto(p, "send", "mine")
            /\ UNCHANGED <<local, nonce>>
         \/ /\ tx.nonce # nonce
            /\ Leave(p)
            /\ UNCHANGED <<mempool, nonce>>
      /\ UNCHANGED <<fabric, anchored, disk, bounds>>

(* Fault: send_raw_transaction's hash is taken for a confirmation.         *)
MinedEarly(p) ==
  /\ Goto(p, "mine", "receipt")
  /\ call' = [call EXCEPT ![p].tx = call[p].nonce]
  /\ verdict' = [verdict EXCEPT ![p] = "none"]
  /\ mempool' = Orphaned(mempool, p)
  /\ UNCHANGED <<fabric, anchored, nonce, disk, bounds>>

(* wait_for_transaction_receipt, and its status.                           *)
Mined(p) ==
  /\ pc[p] = "mine"
  /\ \/ /\ verdict[p] = "valid"
        /\ Goto(p, "mine", "receipt")
        /\ call' = [call EXCEPT ![p].tx = call[p].nonce]
        /\ verdict' = [verdict EXCEPT ![p] = "none"]
     \/ /\ verdict[p] = "invalid"
        /\ Leave(p)
  /\ UNCHANGED <<fabric, ethereum, disk, bounds>>

(* ReceiptRepository.put: a different receipt for the root is an error.    *)
PutReceipt(p) ==
  LET old == receipts[call[p].digest]
  IN  /\ pc[p] = "receipt"
      /\ IF old \in {NONE, call[p].tx}
         THEN /\ receipts' = [receipts EXCEPT ![call[p].digest] = call[p].tx]
              /\ Goto(p, "receipt", "attach")
              /\ UNCHANGED local
         ELSE Leave(p) /\ UNCHANGED receipts
      /\ UNCHANGED <<fabric, ethereum, journal, bounds>>

(* FabricTransactions.update_anchor.                                       *)
Attach(p) ==
  LET s     == call[p].scan
      write == AttachEthereumAnchor(record[s], call[p].digest, call[p].tx)
  IN  /\ pc[p] = "attach"
      /\ \/ /\ write = REJECT
            /\ Leave(p)
            /\ UNCHANGED ordered
         \/ /\ write # REJECT
            /\ ordered' = Endorsed(p, s, write)
            /\ Goto(p, "attach", "attaching")
            /\ UNCHANGED local
      /\ UNCHANGED <<record, version, ethereum, disk, bounds>>

AnchorCommitted(p) ==
  /\ Committed(p, "attaching", "anchorEvent")
  /\ UNCHANGED <<ethereum, disk, bounds>>

AnchorEvent(p) ==
  /\ pc[p] = "anchorEvent"
  /\ Note(call[p].scan, "ethereum.anchor_confirmed", call[p].digest)
  /\ Leave(p)
  /\ UNCHANGED <<fabric, ethereum, receipts, bounds>>

(* The wait for a block, a receipt or any other answer times out, a call   *)
(* fails, or the process dies; what was sent stays sent.                   *)
Die(p) ==
  /\ pc[p] # "idle" /\ faults < MaxFaults
  /\ faults' = faults + 1
  /\ Leave(p)
  /\ ordered' = Orphaned(ordered, p)
  /\ mempool' = Orphaned(mempool, p)
  /\ UNCHANGED <<record, version, anchored, nonce, disk, minted, revokes>>

(* FabricTransactions.revoke, by whoever administers the consortium.       *)
Revoke(s) ==
  LET write == RevokeProvenance(record[s])
  IN  /\ revokes < MaxRevokes /\ write # REJECT
      /\ revokes' = revokes + 1
      /\ ordered' = Endorsed(NONE, s, write)
      /\ UNCHANGED <<record, version, ethereum, disk, pc, local, minted, faults>>

-----------------------------------------------------------------------------
(* The two networks.                                                       *)

(* A block validates a transaction: valid if the key it read is unchanged. *)
Order(t) ==
  LET s     == t.scan
      valid == t.read = version[s]
  IN  /\ ordered' = ordered \ {t}
      /\ record' = IF valid THEN [record EXCEPT ![s] = t.write] ELSE record
      /\ version' = IF valid THEN [version EXCEPT ![s] = @ + 1] ELSE version
      /\ Answer(t, IF valid THEN "valid" ELSE "invalid")
      /\ UNCHANGED <<ethereum, disk, pc, call, bounds>>

(* HashAnchor.anchor runs, for the pending transaction of lowest nonce.    *)
Mine(t) ==
  /\ \A u \in mempool : t.nonce <= u.nonce
  /\ mempool' = mempool \ {t}
  /\ anchored' = anchored \cup {t.root}
  /\ Answer(t, IF t.root \in anchored THEN "invalid" ELSE "valid")
  /\ UNCHANGED <<fabric, nonce, disk, pc, call, bounds>>

Step(p) == \/ Submit(p) \/ FabricCommitted(p) \/ FabricEvent(p) \/ LookUpReceipt(p)
           \/ ReadNonce(p) \/ Send(p) \/ Mined(p) \/ PutReceipt(p) \/ Attach(p)
           \/ AnchorCommitted(p) \/ AnchorEvent(p)

Next ==
  \/ \E p \in Procs : Step(p) \/ Die(p)
  \/ \E p \in Procs, s \in Scans : RecordScan(p, s)
  \/ \E s \in Scans : Revoke(s)
  \/ \E t \in ordered : Order(t)
  \/ \E t \in mempool : Mine(t)

Spec == Init /\ [][Next]_vars

(* Threads run, the networks make progress, and whoever wants a scan       *)
(* recorded asks again and again.                                          *)
Fairness ==
  /\ \A p \in Procs : WF_vars(Step(p))
  /\ WF_vars(\E t \in ordered : Order(t))
  /\ WF_vars(\E t \in mempool : Mine(t))
  /\ \A s \in Scans : SF_vars(\E p \in Procs : RecordScan(p, s))
FairSpec == Spec /\ Fairness

-----------------------------------------------------------------------------
PCs     == {"idle", "submit", "commit", "fabricEvent", "lookup", "nonce", "send", "mine",
            "receipt", "attach", "attaching", "anchorEvent"}
Owner   == Procs \cup {NONE}

Endorsement == [owner : Owner, scan : Scans, read : Nat, write : Record]
Transaction == [owner : Owner, nonce : Nat, root : Digests]
LedgerEvent == [type : {"fabric.committed", "ethereum.anchor_confirmed"}, digest : Digests]
Call        == [scan : Scans \cup {NONE}, digest : Digests \cup {0}, nonce : Nat, tx : Nat \cup {NONE}]

(* Every variable holds a value of its kind.                               *)
TypeOK ==
  /\ record \in [Scans -> Record \cup {NONE}]
  /\ version \in [Scans -> Nat]
  /\ ordered \subseteq Endorsement
  /\ anchored \subseteq Digests
  /\ mempool \subseteq Transaction
  /\ nonce \in Nat
  /\ receipts \in [Digests -> Nat \cup {NONE}]
  /\ journal \in [Scans -> Seq(LedgerEvent)]
  /\ pc \in [Procs -> PCs]
  /\ call \in [Procs -> Call]
  /\ verdict \in [Procs -> {"none", "valid", "invalid"}]
  /\ minted \in 0..MaxDigests /\ revokes \in 0..MaxRevokes /\ faults \in 0..MaxFaults

(* Nothing is sent to Ethereum for a document that Fabric has not          *)
(* committed ("no Ethereum transaction is attempted").                     *)
FabricFirst ==
  \A r \in anchored \cup {t.root : t \in mempool} :
    \E s \in Scans : record[s] # NONE /\ record[s].digest = r

(* A record names an anchor only if it is its own digest's, and is on      *)
(* Ethereum.                                                               *)
AnchorTruthful ==
  \A s \in Scans : record[s] # NONE /\ record[s].root # 0 =>
    record[s].root = record[s].digest /\ record[s].root \in anchored

(* A receipt is kept only for a root that is on Ethereum.                  *)
ReceiptTruthful == \A r \in Digests : receipts[r] # NONE => r \in anchored

(* The event store never claims more than the ledgers hold: one commit of  *)
(* the very document that is on record, then at most one confirmed anchor  *)
(* of it.                                                                  *)
JournalTruthful ==
  \A s \in Scans : \A i \in 1..Len(journal[s]) :
    /\ record[s] # NONE /\ journal[s][i].digest = record[s].digest
    /\ journal[s][i].type = IF i = 1 THEN "fabric.committed"
                                     ELSE "ethereum.anchor_confirmed"
    /\ i <= 2 /\ (i = 2 => record[s].root = record[s].digest)

(* No ledger, receipt or event claims what another does not hold.          *)
ClaimsTruthful == FabricFirst /\ AnchorTruthful /\ ReceiptTruthful /\ JournalTruthful

(* What is on record stays: the document, its anchor and its revocation.   *)
RecordKept ==
  [][\A s \in Scans : record[s] # NONE =>
       /\ record'[s] # NONE /\ record'[s].digest = record[s].digest
       /\ record[s].root # 0 => record'[s].root = record[s].root
       /\ record[s].revoked => record'[s].revoked]_vars

(* A scan that is on record in Fabric is anchored in the end.              *)
AnchoredInTheEnd == \A s \in Scans : record[s] # NONE ~> record[s] # NONE /\ record[s].root # 0

(* The chain of calls, with its timeouts, races and retries, implements    *)
(* the two-step life of a scan on the ledgers that the pipeline counts on. *)
Life == INSTANCE LedgerLife WITH
  stage <- [s \in Scans |-> IF record[s] = NONE THEN "unknown"
                            ELSE IF record[s].root = 0 THEN "committed" ELSE "anchored"]

ImplementsLife == Life!Spec
=============================================================================
