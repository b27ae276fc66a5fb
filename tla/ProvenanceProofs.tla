-------------------------- MODULE ProvenanceProofs ---------------------------
(***************************************************************************)
(* Proofs about Provenance, for any number of request threads, scans,      *)
(* documents, revocations and faults.                                      *)
(*                                                                         *)
(* Nothing serialises the calls: what holds them together is that a digest *)
(* is minted once, so that of all calls for one scan a single one finds    *)
(* its own document on record, and that Fabric lets a transaction take     *)
(* effect only on the record it was endorsed on.                           *)
(***************************************************************************)
EXTENDS Provenance, FiniteSetTheorems, TLAPS

-----------------------------------------------------------------------------
(***************************************************************************)
(* The invariant.                                                          *)
(***************************************************************************)
Versions == \A s \in Scans : version[s] = 0 <=> record[s] = NONE

(* What one valid transaction may make of a record.                        *)
Succeeds(new, old) ==
  /\ new.digest = old.digest
  /\ new.root = old.root \/ (old.root = 0 /\ new.root = old.digest /\ new.root \in anchored)
  /\ old.revoked => new.revoked

(* Endorsed on no record, or on an older one, or on the present one.       *)
EndorsedOn(t) ==
  /\ t.read <= version[t.scan]
  /\ t.read = 0 => t.write.root = 0
  /\ t.read = version[t.scan] /\ t.read # 0 => Succeeds(t.write, record[t.scan])

(* Whose answer is awaited, and by whom.                                   *)
Awaited(t) ==
  LET p == t.owner
  IN  /\ verdict[p] = "none" /\ call[p].scan = t.scan
      /\ \/ pc[p] = "commit" /\ t.read = 0 /\ t.write.digest = call[p].digest
         \/ pc[p] = "attaching" /\ t.read # 0 /\ t.write.root = call[p].digest

MiningAwaited(t) ==
  verdict[t.owner] = "none" /\ pc[t.owner] = "mine" /\ t.root = call[t.owner].digest

Transactions ==
  /\ \A t \in ordered : EndorsedOn(t) /\ (t.owner # NONE => Awaited(t))
  /\ \A t, u \in ordered : t.owner # NONE /\ t.owner = u.owner => t = u
  /\ \A t \in mempool : t.owner # NONE => MiningAwaited(t)
  /\ \A t, u \in mempool : t.owner # NONE /\ t.owner = u.owner => t = u

(* What a call has reached at which of its steps.                          *)
Waiting    == {"commit", "mine", "attaching"}
HasAnchor  == {"receipt", "attach", "attaching", "anchorEvent"}
Noted      == HasAnchor \cup {"lookup", "nonce", "send", "mine"}

Begun(p) ==
  /\ pc[p] # "idle" => call[p].scan \in Scans
  /\ call[p].digest = 0 <=> pc[p] \in {"idle", "submit"}
  /\ call[p].digest <= minted
  /\ pc[p] \notin Waiting => verdict[p] = "none"

OnRecord(p) == pc[p] \in Noted \cup {"fabricEvent"} \/ (pc[p] = "commit" /\ verdict[p] = "valid")

Reached(p) ==
  LET s == call[p].scan
  IN  /\ OnRecord(p) => /\ record[s] # NONE /\ record[s].digest = call[p].digest
                        /\ Len(journal[s]) = IF pc[p] \in Noted THEN 1 ELSE 0
      /\ pc[p] \in HasAnchor \/ (pc[p] = "mine" /\ verdict[p] = "valid") =>
           call[p].digest \in anchored
      /\ pc[p] = "anchorEvent" \/ (pc[p] = "attaching" /\ verdict[p] = "valid") =>
           record[s].root = call[p].digest

Calls ==
  /\ \A p \in Procs : Begun(p) /\ Reached(p)
  /\ \A p, q \in Procs : p # q /\ call[p].digest # 0 => call[p].digest # call[q].digest

(* Whoever is about to submit a first document has a digest left for it.   *)
Minters == {p \in Procs : pc[p] = "submit" /\ record[call[p].scan] = NONE}
Budget  == minted + Cardinality(Minters) <= MaxDigests

IInv == TypeOK /\ Versions /\ Transactions /\ Calls /\ Budget /\ ClaimsTruthful
-----------------------------------------------------------------------------
(* Chaincode and helpers                                                   *)

(* A first record, and what an attachment makes of one.                    *)
LEMMA FirstRecord ==
  ASSUME NEW old, NEW d \in Digests, RecordProvenance(old, d) # REJECT
  PROVE  /\ old = NONE
         /\ RecordProvenance(old, d) \in Record
         /\ RecordProvenance(old, d).digest = d /\ RecordProvenance(old, d).root = 0
  BY DEF RecordProvenance, Record

LEMMA AttachedRecord ==
  ASSUME NEW old \in Record, NEW d \in Digests, NEW tx \in Nat \cup {NONE},
         AttachEthereumAnchor(old, d, tx) # REJECT
  PROVE  LET new == AttachEthereumAnchor(old, d, tx)
         IN  /\ new \in Record
             /\ new.digest = old.digest /\ new.root = d /\ new.revoked = old.revoked
             /\ old.root \in {0, d}
<1>1. old.root = 0 \/ <<old.root, old.tx>> = <<d, tx>>
  BY DEF AttachEthereumAnchor
<1>2. AttachEthereumAnchor(old, d, tx) = [old EXCEPT !.root = d, !.tx = tx]
  BY DEF AttachEthereumAnchor
<1>. QED  BY <1>1, <1>2 DEF Record

LEMMA RevokedRecord ==
  ASSUME NEW old \in Record \cup {NONE}, RevokeProvenance(old) # REJECT
  PROVE  LET new == RevokeProvenance(old)
         IN  /\ old \in Record /\ old # NONE
             /\ new \in Record
             /\ new.digest = old.digest /\ new.root = old.root /\ new.revoked
<1>1. old \in Record /\ old # NONE /\ RevokeProvenance(old) = [old EXCEPT !.revoked = TRUE]
  BY DEF RevokeProvenance
<1>. QED  BY <1>1 DEF Record

LEMMA OrphanedTypes ==
  ASSUME NEW p \in Procs
  PROVE  /\ ordered \subseteq Endorsement => Orphaned(ordered, p) \subseteq Endorsement
         /\ mempool \subseteq Transaction => Orphaned(mempool, p) \subseteq Transaction
<1>1. \A t \in Endorsement : [t EXCEPT !.owner = NONE] \in Endorsement
  BY DEF Endorsement, Owner
<1>2. \A t \in Transaction : [t EXCEPT !.owner = NONE] \in Transaction
  BY DEF Transaction, Owner
<1>. QED  BY <1>1, <1>2 DEF Orphaned

(* There is a digest left for whoever submits a first document.            *)
LEMMA DigestLeft ==
  ASSUME TypeOK, Budget, NEW p \in Minters
  PROVE  minted + 1 \in Digests
<1>1. IsFiniteSet(Minters)
  BY ProvenanceAssumption, FS_Subset DEF Minters
<1>2. Cardinality(Minters) \in Nat /\ Cardinality(Minters) # 0
  BY <1>1, FS_CardinalityType, FS_EmptySet
<1>. QED  BY <1>2, ProvenanceAssumption DEF Budget, TypeOK, Digests

-----------------------------------------------------------------------------
(* Types                                                                   *)

LEMMA LeaveTypes ==
  ASSUME TypeOK, NEW p \in Procs, Leave(p)
  PROVE  pc' \in [Procs -> PCs] /\ call' \in [Procs -> Call]
         /\ verdict' \in [Procs -> {"none", "valid", "invalid"}]
<1>1. NoCall \in Call /\ "idle" \in PCs
  BY DEF NoCall, Call, PCs
<1>. QED  BY <1>1 DEF TypeOK, Leave

LEMMA InitTypes == Init => TypeOK
<1>. SUFFICES ASSUME Init PROVE TypeOK
  OBVIOUS
<1>1. NoCall \in Call /\ "idle" \in PCs
  BY DEF NoCall, Call, PCs
<1>2. minted \in 0..MaxDigests /\ revokes \in 0..MaxRevokes /\ faults \in 0..MaxFaults
  BY ProvenanceAssumption DEF Init
<1>3. journal \in [Scans -> Seq(LedgerEvent)]
  BY DEF Init
<1>. QED  BY <1>1, <1>2, <1>3 DEF Init, TypeOK

(* A transaction that is endorsed, and the event that is noted.            *)
LEMMA EndorsedTypes ==
  ASSUME TypeOK, NEW owner \in Owner, NEW s \in Scans, NEW write \in Record
  PROVE  Endorsed(owner, s, write) \subseteq Endorsement
  BY DEF Endorsed, Endorsement, TypeOK

LEMMA NoteTypes ==
  ASSUME TypeOK, NEW s \in Scans, NEW type \in {"fabric.committed", "ethereum.anchor_confirmed"},
         NEW d \in Digests, Note(s, type, d)
  PROVE  journal' \in [Scans -> Seq(LedgerEvent)]
<1>. DEFINE event == [type |-> type, digest |-> d]
<1>1. event \in LedgerEvent
  BY DEF LedgerEvent
<1>. HIDE DEF event
<1>2. journal' = [journal EXCEPT ![s] = Append(@, event)]
  BY DEF Note, event
<1>3. journal \in [Scans -> Seq(LedgerEvent)] /\ journal[s] \in Seq(LedgerEvent)
  BY DEF TypeOK
<1>4. Append(journal[s], event) \in Seq(LedgerEvent)
  BY <1>1, <1>3
<1>. QED  BY <1>2, <1>3, <1>4

LEMMA StepTypes ==
  TypeOK /\ Calls /\ Budget /\ [Next]_vars => TypeOK'
<1>. SUFFICES ASSUME TypeOK, Calls, Budget, [Next]_vars PROVE TypeOK'
  OBVIOUS
<1>. USE DEF fabric, ethereum, disk, local, bounds
<1>0. /\ record \in [Scans -> Record \cup {NONE}] /\ pc \in [Procs -> PCs]
      /\ call \in [Procs -> Call] /\ verdict \in [Procs -> {"none", "valid", "invalid"}]
      /\ receipts \in [Digests -> Nat \cup {NONE}] /\ nonce \in Nat
      /\ ordered \subseteq Endorsement /\ mempool \subseteq Transaction
      /\ minted \in 0..MaxDigests /\ revokes \in 0..MaxRevokes /\ faults \in 0..MaxFaults
  BY DEF TypeOK
<1>00. \A p \in Procs : /\ call[p].digest \in Digests \cup {0} /\ call[p].nonce \in Nat
                        /\ call[p].tx \in Nat \cup {NONE}
                        /\ pc[p] # "idle" => call[p].scan \in Scans
                        /\ pc[p] \notin {"idle", "submit"} => call[p].digest \in Digests
  BY <1>0 DEF Calls, Begun, Call
<1>1. ASSUME NEW p \in Procs, NEW s \in Scans, RecordScan(p, s)
      PROVE  TypeOK'
  <2>1. [call[p] EXCEPT !.scan = s] \in Call
    BY <1>0 DEF Call
  <2>2. call' \in [Procs -> Call] /\ pc' \in [Procs -> PCs]
    BY <1>0, <1>1, <2>1 DEF RecordScan, Goto, PCs
  <2>. QED  BY <1>1, <2>2 DEF TypeOK, RecordScan
<1>2. ASSUME NEW p \in Procs, Submit(p)
      PROVE  TypeOK'
  <2>. DEFINE s     == call[p].scan
              write == RecordProvenance(record[s], minted + 1)
  <2>1. CASE write = REJECT
    <3>1. Leave(p) /\ UNCHANGED <<ordered, minted, record, version, ethereum, disk, revokes, faults>>
      BY <1>2, <2>1, <1>0, <1>00 DEF Submit
    <3>. QED  BY <3>1, LeaveTypes DEF TypeOK
  <2>2. CASE write # REJECT
    <3>1. /\ minted' = minted + 1 /\ call' = [call EXCEPT ![p].digest = minted']
          /\ ordered' = Endorsed(p, s, write) /\ Goto(p, "submit", "commit")
          /\ UNCHANGED <<verdict, record, version, ethereum, disk, revokes, faults>>
          /\ pc[p] = "submit"
      BY <1>2, <2>2 DEF Submit
    <3>2. p \in Minters
      BY <2>2, <3>1 DEF Minters, RecordProvenance
    <3>3. minted + 1 \in Digests
      BY <3>2, DigestLeft
    <3>4. write \in Record
      BY <2>2, <3>3, FirstRecord
    <3>5. s \in Scans /\ p \in Owner
      BY <1>00, <3>1 DEF Owner
    <3>. HIDE DEF write, s
    <3>6. ordered' \subseteq Endorsement
      BY <3>1, <3>4, <3>5, EndorsedTypes
    <3>7. [call[p] EXCEPT !.digest = minted + 1] \in Call
      BY <1>0, <3>3, ZenonT(60) DEF Call
    <3>8. call' \in [Procs -> Call] /\ pc' \in [Procs -> PCs]
      BY <1>0, <3>1, <3>7 DEF Goto, PCs
    <3>9. minted' \in 0..MaxDigests
      BY <1>0, <3>1, <3>3, ProvenanceAssumption DEF Digests
    <3>. QED  BY <3>1, <3>6, <3>8, <3>9 DEF TypeOK
  <2>. QED  BY <2>1, <2>2
<1>3. ASSUME NEW p \in Procs, FabricCommitted(p) \/ AnchorCommitted(p)
      PROVE  TypeOK'
  <2>1. PICK to \in PCs : \/ /\ pc' = [pc EXCEPT ![p] = to]
                             /\ verdict' = [verdict EXCEPT ![p] = "none"] /\ UNCHANGED call
                          \/ Leave(p)
    BY <1>3 DEF FabricCommitted, AnchorCommitted, Committed, Goto, PCs
  <2>2. UNCHANGED <<record, version, ordered, ethereum, disk, bounds>>
    BY <1>3 DEF FabricCommitted, AnchorCommitted, Committed
  <2>3. pc' \in [Procs -> PCs] /\ call' \in [Procs -> Call]
        /\ verdict' \in [Procs -> {"none", "valid", "invalid"}]
    BY <1>0, <2>1, LeaveTypes
  <2>. QED  BY <2>2, <2>3 DEF TypeOK
<1>4. ASSUME NEW p \in Procs, FabricEvent(p)
      PROVE  TypeOK'
  <2>1. pc[p] = "fabricEvent" /\ Note(call[p].scan, "fabric.committed", call[p].digest)
    BY <1>4 DEF FabricEvent, Goto
  <2>2. journal' \in [Scans -> Seq(LedgerEvent)]
    BY <1>00, <2>1, NoteTypes
  <2>. QED  BY <1>4, <2>2 DEF FabricEvent, Goto, TypeOK, PCs
<1>5. ASSUME NEW p \in Procs, LookUpReceipt(p)
      PROVE  TypeOK'
  <2>. DEFINE receipt == receipts[call[p].digest]
  <2>1. pc[p] = "lookup" /\ receipt \in Nat \cup {NONE}
    BY <1>0, <1>00, <1>5 DEF LookUpReceipt, Goto
  <2>2. call' = [call EXCEPT ![p] = [call[p] EXCEPT !.tx = receipt]]
    BY <1>0, <1>5 DEF LookUpReceipt
  <2>. HIDE DEF receipt
  <2>3. [call[p] EXCEPT !.tx = receipt] \in Call
    BY <1>0, <2>1 DEF Call
  <2>4. call' \in [Procs -> Call]
    BY <1>0, <2>2, <2>3
  <2>. QED  BY <1>5, <2>4 DEF LookUpReceipt, Goto, TypeOK, PCs
<1>6. ASSUME NEW p \in Procs, ReadNonce(p)
      PROVE  TypeOK'
  <2>1. CASE call[p].digest \in anchored
    BY <1>6, <2>1, LeaveTypes DEF ReadNonce, TypeOK
  <2>2. CASE call[p].digest \notin anchored
    <3>1. [call[p] EXCEPT !.nonce = nonce] \in Call
      BY <1>0 DEF Call
    <3>2. call' \in [Procs -> Call]
      BY <1>0, <1>6, <2>2, <3>1 DEF ReadNonce
    <3>. QED  BY <1>6, <2>2, <3>2 DEF ReadNonce, Goto, TypeOK, PCs
  <2>. QED  BY <2>1, <2>2
<1>7. ASSUME NEW p \in Procs, Send(p)
      PROVE  TypeOK'
  <2>. DEFINE tx     == [owner |-> p, nonce |-> call[p].nonce, root |-> call[p].digest]
              rivals == {t \in mempool : t.nonce = tx.nonce}
  <2>1. tx \in Transaction
    BY <1>00, <1>7 DEF Transaction, Owner, Send
  <2>2. /\ mempool' \in {mempool \cup {tx}, (mempool \ rivals) \cup {tx}, mempool}
        /\ nonce' \in {nonce, nonce + 1}
        /\ (pc' = [pc EXCEPT ![p] = "mine"] /\ UNCHANGED local) \/ Leave(p)
        /\ UNCHANGED <<fabric, anchored, disk, bounds>>
    BY <1>7 DEF Send, Goto
  <2>. HIDE DEF tx, rivals
  <2>3. pc' \in [Procs -> PCs] /\ call' \in [Procs -> Call]
        /\ verdict' \in [Procs -> {"none", "valid", "invalid"}]
    BY <1>0, <2>2, LeaveTypes DEF PCs
  <2>4. mempool' \subseteq Transaction /\ nonce' \in Nat
    BY <1>0, <2>1, <2>2
  <2>. QED  BY <2>2, <2>3, <2>4 DEF TypeOK
<1>8. ASSUME NEW p \in Procs, Mined(p)
      PROVE  TypeOK'
  <2>1. UNCHANGED <<fabric, ethereum, disk, bounds>>
    BY <1>8 DEF Mined
  <2>2. CASE Leave(p)
    BY <2>1, <2>2, LeaveTypes DEF TypeOK
  <2>3. CASE ~Leave(p)
    <3>1. [call[p] EXCEPT !.tx = call[p].nonce] \in Call
      BY <1>0, <1>00 DEF Call
    <3>2. call' \in [Procs -> Call] /\ pc' \in [Procs -> PCs]
          /\ verdict' \in [Procs -> {"none", "valid", "invalid"}]
      BY <1>0, <1>8, <2>3, <3>1 DEF Mined, Goto, PCs
    <3>. QED  BY <2>1, <3>2 DEF TypeOK
  <2>. QED  BY <2>2, <2>3
<1>9. ASSUME NEW p \in Procs, PutReceipt(p)
      PROVE  TypeOK'
  <2>1. /\ UNCHANGED <<fabric, ethereum, journal, bounds>>
        /\ (receipts' = [receipts EXCEPT ![call[p].digest] = call[p].tx] \/ UNCHANGED receipts)
        /\ ((pc' = [pc EXCEPT ![p] = "attach"] /\ UNCHANGED local) \/ Leave(p))
    BY <1>9 DEF PutReceipt, Goto
  <2>2. pc' \in [Procs -> PCs] /\ call' \in [Procs -> Call]
        /\ verdict' \in [Procs -> {"none", "valid", "invalid"}]
    BY <1>0, <2>1, LeaveTypes DEF PCs
  <2>3. receipts' \in [Digests -> Nat \cup {NONE}]
    BY <1>0, <1>00, <2>1
  <2>. QED  BY <2>1, <2>2, <2>3 DEF TypeOK
<1>10. ASSUME NEW p \in Procs, Attach(p)
       PROVE  TypeOK'
  <2>. DEFINE s     == call[p].scan
              write == AttachEthereumAnchor(record[s], call[p].digest, call[p].tx)
  <2>1. /\ UNCHANGED <<record, version, ethereum, disk, bounds>>
        /\ \/ UNCHANGED ordered /\ Leave(p)
           \/ /\ write # REJECT /\ ordered' = Endorsed(p, s, write)
              /\ pc' = [pc EXCEPT ![p] = "attaching"] /\ UNCHANGED local
    BY <1>10 DEF Attach, Goto
  <2>2. ASSUME write # REJECT PROVE write \in Record
    <3>1. record[s] # NONE
      BY <2>2 DEF AttachEthereumAnchor
    <3>2. record[s] \in Record /\ call[p].digest \in Digests /\ call[p].tx \in Nat \cup {NONE}
      BY <1>0, <1>00, <1>10, <3>1 DEF Attach
    <3>. QED  BY <2>2, <3>2, AttachedRecord
  <2>3. s \in Scans /\ p \in Owner
    BY <1>00, <1>10 DEF Attach, Owner
  <2>. HIDE DEF write, s
  <2>4. ordered' \subseteq Endorsement
    BY <1>0, <2>1, <2>2, <2>3, EndorsedTypes
  <2>5. pc' \in [Procs -> PCs] /\ call' \in [Procs -> Call]
        /\ verdict' \in [Procs -> {"none", "valid", "invalid"}]
    BY <1>0, <2>1, LeaveTypes DEF PCs
  <2>. QED  BY <2>1, <2>4, <2>5 DEF TypeOK
<1>11. ASSUME NEW p \in Procs, AnchorEvent(p)
       PROVE  TypeOK'
  <2>1. journal' \in [Scans -> Seq(LedgerEvent)]
    BY <1>00, <1>11, NoteTypes DEF AnchorEvent
  <2>. QED  BY <1>11, <2>1, LeaveTypes DEF AnchorEvent, TypeOK
<1>12. ASSUME NEW p \in Procs, Die(p)
       PROVE  TypeOK'
  <2>1. faults' \in 0..MaxFaults
    BY <1>0, <1>12, ProvenanceAssumption DEF Die
  <2>2. ordered' \subseteq Endorsement /\ mempool' \subseteq Transaction
    BY <1>0, <1>12, OrphanedTypes DEF Die
  <2>. QED  BY <1>12, <2>1, <2>2, LeaveTypes DEF Die, TypeOK
<1>13. ASSUME NEW s \in Scans, Revoke(s)
       PROVE  TypeOK'
  <2>1. RevokeProvenance(record[s]) \in Record
    BY <1>0, <1>13, RevokedRecord DEF Revoke
  <2>2. ordered' \subseteq Endorsement
    BY <1>13, <2>1, EndorsedTypes DEF Revoke, Owner
  <2>3. revokes' \in 0..MaxRevokes
    BY <1>0, <1>13, ProvenanceAssumption DEF Revoke
  <2>. QED  BY <1>13, <2>2, <2>3 DEF Revoke, TypeOK
<1>14. ASSUME NEW t \in ordered, Order(t)
       PROVE  TypeOK'
  <2>1. t.owner \in Owner /\ t.scan \in Scans /\ t.write \in Record
    BY <1>0 DEF Endorsement
  <2>2. verdict' \in [Procs -> {"none", "valid", "invalid"}]
    BY <1>0, <1>14, <2>1 DEF Order, Answer, Owner
  <2>3. record' \in [Scans -> Record \cup {NONE}] /\ version' \in [Scans -> Nat]
    BY <1>14, <2>1 DEF Order, TypeOK
  <2>. QED  BY <1>14, <2>2, <2>3 DEF Order, TypeOK
<1>15. ASSUME NEW t \in mempool, Mine(t)
       PROVE  TypeOK'
  <2>1. t.owner \in Owner /\ t.root \in Digests
    BY <1>0 DEF Transaction
  <2>2. verdict' \in [Procs -> {"none", "valid", "invalid"}]
    BY <1>0, <1>15, <2>1 DEF Mine, Answer, Owner
  <2>. QED  BY <1>15, <2>1, <2>2 DEF Mine, TypeOK
<1>16. CASE UNCHANGED vars
  BY <1>16 DEF vars, TypeOK
<1>. QED
  BY <1>1, <1>2, <1>3, <1>4, <1>5, <1>6, <1>7, <1>8, <1>9, <1>10, <1>11, <1>12, <1>13, <1>14, <1>15,
     <1>16 DEF Next, Step
-----------------------------------------------------------------------------
(* Records                                                                 *)

(* Only a block changes a record, and only as endorsed.                    *)
LEMMA OthersLeaveRecords ==
  ASSUME [Next]_vars, ~\E t \in ordered : Order(t)
  PROVE  UNCHANGED <<record, version>>
<1>. USE DEF fabric, ethereum, disk, local, bounds
<1>1. ASSUME NEW p \in Procs, Step(p)
      PROVE  UNCHANGED <<record, version>>
  BY <1>1 DEF Step, Submit, FabricCommitted, FabricEvent, LookUpReceipt, ReadNonce, Send, Mined,
     PutReceipt, Attach, AnchorCommitted, AnchorEvent, Committed
<1>2. ASSUME NEW p \in Procs, Die(p)
      PROVE  UNCHANGED <<record, version>>
  BY <1>2 DEF Die
<1>3. ASSUME NEW p \in Procs, NEW s \in Scans, RecordScan(p, s)
      PROVE  UNCHANGED <<record, version>>
  BY <1>3 DEF RecordScan
<1>4. ASSUME NEW s \in Scans, Revoke(s)
      PROVE  UNCHANGED <<record, version>>
  BY <1>4 DEF Revoke
<1>5. ASSUME NEW t \in mempool, Mine(t)
      PROVE  UNCHANGED <<record, version>>
  BY <1>5 DEF Mine
<1>6. CASE UNCHANGED vars
  BY <1>6 DEF vars
<1>. QED  BY <1>1, <1>2, <1>3, <1>4, <1>5, <1>6 DEF Next

LEMMA AnchoredGrows == [Next]_vars => anchored \subseteq anchored'
<1>. SUFFICES ASSUME [Next]_vars PROVE anchored \subseteq anchored'
  OBVIOUS
<1>. USE DEF fabric, ethereum, disk, local, bounds
<1>1. ASSUME NEW p \in Procs, Step(p)
      PROVE  anchored \subseteq anchored'
  BY <1>1 DEF Step, Submit, FabricCommitted, FabricEvent, LookUpReceipt, ReadNonce, Send, Mined,
     PutReceipt, Attach, AnchorCommitted, AnchorEvent, Committed
<1>2. ASSUME NEW p \in Procs, Die(p)
      PROVE  anchored \subseteq anchored'
  BY <1>2 DEF Die
<1>3. ASSUME NEW p \in Procs, NEW s \in Scans, RecordScan(p, s)
      PROVE  anchored \subseteq anchored'
  BY <1>3 DEF RecordScan
<1>4. ASSUME NEW s \in Scans, Revoke(s)
      PROVE  anchored \subseteq anchored'
  BY <1>4 DEF Revoke
<1>5. ASSUME NEW t \in ordered, Order(t)
      PROVE  anchored \subseteq anchored'
  BY <1>5 DEF Order
<1>6. ASSUME NEW t \in mempool, Mine(t)
      PROVE  anchored \subseteq anchored'
  BY <1>6 DEF Mine
<1>7. CASE UNCHANGED vars
  BY <1>7 DEF vars
<1>. QED  BY <1>1, <1>2, <1>3, <1>4, <1>5, <1>6, <1>7 DEF Next

(* What a block makes of the record of its transaction.                    *)
LEMMA OrderedRecord ==
  ASSUME TypeOK, Versions, Transactions, NEW t \in ordered, Order(t)
  PROVE  /\ t.scan \in Scans /\ t.write \in Record /\ t.owner \in Owner /\ t.read \in Nat
         /\ \A s \in Scans \ {t.scan} : record'[s] = record[s] /\ version'[s] = version[s]
         /\ t.read # version[t.scan] => UNCHANGED <<record, version>>
         /\ t.read = version[t.scan] =>
              /\ record'[t.scan] = t.write /\ version'[t.scan] = version[t.scan] + 1
              /\ IF t.read = 0 THEN record[t.scan] = NONE /\ t.write.root = 0
                               ELSE record[t.scan] # NONE /\ Succeeds(t.write, record[t.scan])
<1>1. t \in Endorsement /\ EndorsedOn(t)
  BY DEF TypeOK, Transactions
<1>2. t.scan \in Scans /\ t.write \in Record /\ t.owner \in Owner /\ t.read \in Nat
  BY <1>1 DEF Endorsement
<1>3. record \in [Scans -> Record \cup {NONE}] /\ version \in [Scans -> Nat]
  BY DEF TypeOK
<1>4. version[t.scan] = 0 <=> record[t.scan] = NONE
  BY <1>2 DEF Versions
<1>. QED  BY <1>1, <1>2, <1>3, <1>4 DEF Order, EndorsedOn

Grows(s) ==
  record[s] # NONE =>
    /\ record'[s] # NONE /\ record'[s].digest = record[s].digest
    /\ record[s].root # 0 => record'[s].root = record[s].root
    /\ record'[s].root # record[s].root =>
         record'[s].root = record[s].digest /\ record'[s].root \in anchored
    /\ record[s].revoked => record'[s].revoked

LEMMA RecordsGrow ==
  ASSUME TypeOK, Versions, Transactions, [Next]_vars, NEW s \in Scans
  PROVE  /\ Grows(s)
         /\ record[s] = NONE /\ record'[s] # NONE => record'[s].root = 0
         /\ (record'[s] = record[s] /\ version'[s] = version[s]) \/ (version'[s] # 0 /\ record'[s] # NONE)
<1>1. CASE UNCHANGED <<record, version>>
  BY <1>1 DEF Grows
<1>2. ASSUME NEW t \in ordered, Order(t)
      PROVE  /\ Grows(s)
             /\ record[s] = NONE /\ record'[s] # NONE => record'[s].root = 0
             /\ \/ record'[s] = record[s] /\ version'[s] = version[s]
                \/ version'[s] # 0 /\ record'[s] # NONE
  <2>1. CASE s # t.scan \/ t.read # version[t.scan]
    BY <1>2, <2>1, OrderedRecord DEF Grows
  <2>2. CASE s = t.scan /\ t.read = version[t.scan]
    <3>1. t.write \in Record /\ t.write # NONE /\ version[s] \in Nat
      BY <1>2, OrderedRecord, NoneIsNoRecord DEF TypeOK
    <3>2. t.read = 0 => record[s] = NONE /\ t.write.root = 0
      BY <1>2, <2>2, OrderedRecord
    <3>3. t.read # 0 => record[s] # NONE /\ Succeeds(t.write, record[s])
      BY <1>2, <2>2, OrderedRecord
    <3>4. record'[s] = t.write /\ version'[s] = version[s] + 1
      BY <1>2, <2>2, OrderedRecord
    <3>. QED  BY <3>1, <3>2, <3>3, <3>4 DEF Grows, Succeeds
  <2>. QED  BY <2>1, <2>2
<1>. QED  BY <1>1, <1>2, OthersLeaveRecords

LEMMA StepVersions == TypeOK /\ Versions /\ Transactions /\ [Next]_vars => Versions'
  BY RecordsGrow DEF Versions

-----------------------------------------------------------------------------
(* Transactions                                                            *)

(* Nothing changes for the rest when a thread moves that awaits nothing.   *)
LEMMA TransactionsKept ==
  ASSUME TypeOK, Transactions, NEW p \in Procs,
         UNCHANGED <<record, version, ordered, anchored, mempool>>,
         \A q \in Procs \ {p} : pc'[q] = pc[q] /\ call'[q] = call[q] /\ verdict'[q] = verdict[q],
         pc[p] \notin Waiting \/ verdict[p] # "none"
  PROVE  Transactions'
<1>1. \A t \in ordered : EndorsedOn(t) /\ (t.owner # NONE => Awaited(t))
  BY DEF Transactions
<1>2. \A t \in mempool : t.owner # NONE => MiningAwaited(t)
  BY DEF Transactions
<1>3. /\ \A t \in ordered : t.owner \in Procs \cup {NONE}
      /\ \A t \in mempool : t.owner \in Procs \cup {NONE}
  BY DEF TypeOK, Endorsement, Transaction, Owner
<1>4. /\ \A t \in ordered : t.owner # NONE => t.owner \in Procs \ {p}
      /\ \A t \in mempool : t.owner # NONE => t.owner \in Procs \ {p}
  BY <1>1, <1>2, <1>3 DEF Awaited, MiningAwaited, Waiting
<1>5. \A t \in ordered : EndorsedOn(t)'
  BY <1>1 DEF EndorsedOn, Succeeds
<1>6. \A t \in ordered : t.owner # NONE => Awaited(t)'
  BY <1>1, <1>4 DEF Awaited
<1>7. \A t \in mempool : t.owner # NONE => MiningAwaited(t)'
  BY <1>2, <1>4 DEF MiningAwaited
<1>. QED  BY <1>5, <1>6, <1>7 DEF Transactions

(* A transaction is endorsed, for a thread that has awaited nothing.       *)
LEMMA TransactionsEndorsed ==
  ASSUME TypeOK, Transactions, NEW t \in Endorsement,
         ordered' = ordered \cup {t}, UNCHANGED <<record, version, anchored, mempool>>,
         \A q \in Procs \ {t.owner} :
           pc'[q] = pc[q] /\ call'[q] = call[q] /\ verdict'[q] = verdict[q],
         EndorsedOn(t), t.owner # NONE => pc[t.owner] \notin Waiting /\ Awaited(t)'
  PROVE  Transactions'
<1>1. \A u \in ordered : EndorsedOn(u) /\ (u.owner # NONE => Awaited(u))
  BY DEF Transactions
<1>2. \A u \in mempool : u.owner # NONE => MiningAwaited(u)
  BY DEF Transactions
<1>3. /\ \A u \in ordered : u.owner \in Procs \cup {NONE}
      /\ \A u \in mempool : u.owner \in Procs \cup {NONE}
  BY DEF TypeOK, Endorsement, Transaction, Owner
<1>4. /\ \A u \in ordered : u.owner # NONE => u.owner \in Procs \ {t.owner}
      /\ \A u \in mempool : u.owner # NONE => u.owner \in Procs \ {t.owner}
  BY <1>1, <1>2, <1>3 DEF Awaited, MiningAwaited, Waiting
<1>5. \A u \in ordered' : EndorsedOn(u)'
  BY <1>1 DEF EndorsedOn, Succeeds
<1>6. \A u \in ordered' : u.owner # NONE => Awaited(u)'
  <2>1. \A u \in ordered : u.owner # NONE => Awaited(u)'
    BY <1>1, <1>4 DEF Awaited
  <2>. QED  BY <2>1
<1>7. \A u \in mempool' : u.owner # NONE => MiningAwaited(u)'
  BY <1>2, <1>4 DEF MiningAwaited
<1>8. \A u, v \in ordered' : u.owner # NONE /\ u.owner = v.owner => u = v
  BY <1>4 DEF Transactions
<1>. QED  BY <1>5, <1>6, <1>7, <1>8 DEF Transactions

LEMMA TransactionsSent ==
  ASSUME TypeOK, Transactions, NEW t \in Transaction, t.owner # NONE,
         mempool' \subseteq mempool \cup {t}, UNCHANGED <<record, version, anchored, ordered>>,
         \A q \in Procs \ {t.owner} :
           pc'[q] = pc[q] /\ call'[q] = call[q] /\ verdict'[q] = verdict[q],
         pc[t.owner] \notin Waiting /\ MiningAwaited(t)'
  PROVE  Transactions'
<1>1. \A u \in ordered : EndorsedOn(u) /\ (u.owner # NONE => Awaited(u))
  BY DEF Transactions
<1>2. \A u \in mempool : u.owner # NONE => MiningAwaited(u)
  BY DEF Transactions
<1>3. /\ \A u \in ordered : u.owner \in Procs \cup {NONE}
      /\ \A u \in mempool : u.owner \in Procs \cup {NONE}
  BY DEF TypeOK, Endorsement, Transaction, Owner
<1>4. /\ \A u \in ordered : u.owner # NONE => u.owner \in Procs \ {t.owner}
      /\ \A u \in mempool : u.owner # NONE => u.owner \in Procs \ {t.owner}
  BY <1>1, <1>2, <1>3 DEF Awaited, MiningAwaited, Waiting
<1>5. \A u \in ordered : EndorsedOn(u)'
  BY <1>1 DEF EndorsedOn, Succeeds
<1>6. \A u \in ordered : u.owner # NONE => Awaited(u)'
  BY <1>1, <1>4 DEF Awaited
<1>7. \A u \in mempool' : u.owner # NONE => MiningAwaited(u)'
  <2>1. \A u \in mempool : u.owner # NONE => MiningAwaited(u)'
    BY <1>2, <1>4 DEF MiningAwaited
  <2>. QED  BY <2>1
<1>8. \A u, v \in mempool' : u.owner # NONE /\ u.owner = v.owner => u = v
  BY <1>4 DEF Transactions
<1>. QED  BY <1>5, <1>6, <1>7, <1>8 DEF Transactions

(* Of who is gone nobody awaits the answers.                               *)
LEMMA TransactionsOrphaned ==
  ASSUME TypeOK, Transactions, NEW p \in Procs,
         ordered' = Orphaned(ordered, p), mempool' = Orphaned(mempool, p),
         UNCHANGED <<record, version, anchored>>,
         \A q \in Procs \ {p} : pc'[q] = pc[q] /\ call'[q] = call[q] /\ verdict'[q] = verdict[q]
  PROVE  Transactions'
<1>1. \A u \in ordered : EndorsedOn(u) /\ (u.owner # NONE => Awaited(u))
  BY DEF Transactions
<1>2. \A u \in mempool : u.owner # NONE => MiningAwaited(u)
  BY DEF Transactions
<1>3. \A t \in ordered' : \E u \in ordered :
        /\ t.scan = u.scan /\ t.read = u.read /\ t.write = u.write
        /\ t.owner # NONE => t = u /\ t.owner \in Procs \ {p}
  <2>. SUFFICES ASSUME NEW t \in ordered'
                PROVE  \E u \in ordered : /\ t.scan = u.scan /\ t.read = u.read /\ t.write = u.write
                                          /\ t.owner # NONE => t = u /\ t.owner \in Procs \ {p}
    OBVIOUS
  <2>1. PICK u \in ordered : t = IF u.owner = p THEN [u EXCEPT !.owner = NONE] ELSE u
    BY DEF Orphaned
  <2>2. u \in [owner : Owner, scan : Scans, read : Nat, write : Record]
    BY DEF TypeOK, Endorsement
  <2>3. u.owner = p => t.owner = NONE /\ t.scan = u.scan /\ t.read = u.read /\ t.write = u.write
    BY <2>1, <2>2
  <2>4. u.owner \in Procs \cup {NONE}
    BY <2>2 DEF Owner
  <2>. QED  BY <2>1, <2>3, <2>4
<1>4. \A t \in mempool' : \E u \in mempool : t.owner # NONE => t = u /\ t.owner \in Procs \ {p}
  BY DEF Orphaned, TypeOK, Transaction, Owner
<1>5. \A t \in ordered' : EndorsedOn(t)'
  <2>. SUFFICES ASSUME NEW t \in ordered' PROVE EndorsedOn(t)'
    OBVIOUS
  <2>1. PICK u \in ordered : t.scan = u.scan /\ t.read = u.read /\ t.write = u.write
    BY <1>3
  <2>2. EndorsedOn(u)
    BY <1>1
  <2>. QED  BY <2>1, <2>2 DEF EndorsedOn, Succeeds
<1>6. \A t \in ordered' : t.owner # NONE => Awaited(t)'
  BY <1>1, <1>3 DEF Awaited
<1>7. \A t \in mempool' : t.owner # NONE => MiningAwaited(t)'
  BY <1>2, <1>4 DEF MiningAwaited
<1>8. \A t, u \in ordered' : t.owner # NONE /\ t.owner = u.owner => t = u
  BY <1>3 DEF Transactions
<1>9. \A t, u \in mempool' : t.owner # NONE /\ t.owner = u.owner => t = u
  BY <1>4 DEF Transactions
<1>. QED  BY <1>5, <1>6, <1>7, <1>8, <1>9 DEF Transactions
(* A block takes a transaction, and answers who awaits it.                 *)
LEMMA TransactionsOrdered ==
  ASSUME TypeOK, Versions, Transactions, NEW t \in ordered, Order(t)
  PROVE  Transactions'
<1>1. \A u \in ordered : EndorsedOn(u) /\ (u.owner # NONE => Awaited(u))
  BY DEF Transactions
<1>2. \A u \in mempool : u.owner # NONE => MiningAwaited(u)
  BY DEF Transactions
<1>3. /\ ordered' = ordered \ {t} /\ UNCHANGED <<anchored, mempool, pc, call>>
      /\ verdict \in [Procs -> {"none", "valid", "invalid"}]
      /\ verdict' = IF t.owner = NONE THEN verdict
                    ELSE [verdict EXCEPT ![t.owner] = IF t.read = version[t.scan] THEN "valid" ELSE "invalid"]
  BY DEF Order, Answer, ethereum, TypeOK
<1>4. /\ \A u \in ordered : u.owner \in Procs \cup {NONE}
      /\ \A u \in mempool : u.owner \in Procs \cup {NONE}
  BY DEF TypeOK, Endorsement, Transaction, Owner
<1>5. \A u \in ordered' : u.owner # NONE => u.owner # t.owner /\ verdict'[u.owner] = verdict[u.owner]
  BY <1>3, <1>4 DEF Transactions
<1>6. t.owner # NONE => pc[t.owner] # "mine"
  BY <1>1 DEF Awaited
<1>7. \A u \in mempool : u.owner # NONE => u.owner # t.owner /\ verdict'[u.owner] = verdict[u.owner]
  BY <1>2, <1>3, <1>4, <1>6 DEF MiningAwaited
<1>8. \A u \in ordered' : EndorsedOn(u)'
  <2>. SUFFICES ASSUME NEW u \in ordered' PROVE EndorsedOn(u)'
    OBVIOUS
  <2>1. EndorsedOn(u) /\ u.read \in Nat /\ u.scan \in Scans /\ version[u.scan] \in Nat
    BY <1>1, <1>3 DEF TypeOK, Endorsement
  <2>2. CASE record'[u.scan] = record[u.scan] /\ version'[u.scan] = version[u.scan]
    BY <1>3, <2>1, <2>2 DEF EndorsedOn, Succeeds
  <2>3. CASE version'[u.scan] = version[u.scan] + 1
    BY <1>3, <2>1, <2>3 DEF EndorsedOn
  <2>. QED  BY <2>1, <2>2, <2>3, OrderedRecord
<1>9. \A u \in ordered' : u.owner # NONE => Awaited(u)'
  BY <1>1, <1>3, <1>5 DEF Awaited
<1>10. \A u \in mempool' : u.owner # NONE => MiningAwaited(u)'
  BY <1>2, <1>3, <1>7 DEF MiningAwaited
<1>. QED  BY <1>3, <1>8, <1>9, <1>10 DEF Transactions

LEMMA TransactionsMined ==
  ASSUME TypeOK, Transactions, NEW t \in mempool, Mine(t)
  PROVE  Transactions'
<1>1. \A u \in ordered : EndorsedOn(u) /\ (u.owner # NONE => Awaited(u))
  BY DEF Transactions
<1>2. \A u \in mempool : u.owner # NONE => MiningAwaited(u)
  BY DEF Transactions
<1>3. /\ mempool' = mempool \ {t} /\ UNCHANGED <<record, version, ordered, pc, call>>
      /\ anchored \subseteq anchored' /\ verdict \in [Procs -> {"none", "valid", "invalid"}]
      /\ verdict' = IF t.owner = NONE THEN verdict
                    ELSE [verdict EXCEPT ![t.owner] = IF t.root \in anchored THEN "invalid" ELSE "valid"]
  BY DEF Mine, Answer, fabric, TypeOK
<1>4. /\ \A u \in ordered : u.owner \in Procs \cup {NONE}
      /\ \A u \in mempool : u.owner \in Procs \cup {NONE}
  BY DEF TypeOK, Endorsement, Transaction, Owner
<1>5. \A u \in mempool' : u.owner # NONE => u.owner # t.owner /\ verdict'[u.owner] = verdict[u.owner]
  BY <1>3, <1>4 DEF Transactions
<1>6. t.owner # NONE => pc[t.owner] = "mine"
  BY <1>2 DEF MiningAwaited
<1>7. \A u \in ordered : u.owner # NONE => u.owner # t.owner /\ verdict'[u.owner] = verdict[u.owner]
  BY <1>1, <1>3, <1>4, <1>6 DEF Awaited
<1>8. \A u \in ordered' : EndorsedOn(u)'
  BY <1>1, <1>3 DEF EndorsedOn, Succeeds
<1>9. \A u \in ordered' : u.owner # NONE => Awaited(u)'
  BY <1>1, <1>3, <1>7 DEF Awaited
<1>10. \A u \in mempool' : u.owner # NONE => MiningAwaited(u)'
  BY <1>2, <1>3, <1>5 DEF MiningAwaited
<1>. QED  BY <1>3, <1>8, <1>9, <1>10 DEF Transactions

(* What a thread that leaves does to the threads.                          *)
LEMMA LeaveAlone ==
  ASSUME TypeOK, NEW p \in Procs, Leave(p)
  PROVE  /\ pc'[p] = "idle" /\ call'[p] = NoCall /\ verdict'[p] = "none"
         /\ \A q \in Procs \ {p} : pc'[q] = pc[q] /\ call'[q] = call[q] /\ verdict'[q] = verdict[q]
  BY DEF TypeOK, Leave

(* The steps of a thread that leave the networks alone: it moves by itself, *)
(* and awaits nothing, or has its answer.                                  *)
Alone(p) ==
  /\ UNCHANGED <<record, version, ordered, anchored, mempool>>
  /\ \A q \in Procs \ {p} : pc'[q] = pc[q] /\ call'[q] = call[q] /\ verdict'[q] = verdict[q]
  /\ pc[p] \notin Waiting \/ verdict[p] # "none"

LEMMA ThreadsAlone ==
  ASSUME TypeOK, NEW p \in Procs
  PROVE  /\ \A s \in Scans : RecordScan(p, s) => Alone(p)
         /\ Submit(p) /\ UNCHANGED minted => Alone(p)
         /\ FabricCommitted(p) \/ FabricEvent(p) \/ LookUpReceipt(p) \/ ReadNonce(p) => Alone(p)
         /\ Mined(p) \/ PutReceipt(p) \/ AnchorCommitted(p) \/ AnchorEvent(p) => Alone(p)
<1>. USE DEF fabric, ethereum, disk, local, bounds
<1>0. pc \in [Procs -> PCs] /\ call \in [Procs -> Call]
      /\ verdict \in [Procs -> {"none", "valid", "invalid"}]
  BY DEF TypeOK
<1>1. \A s \in Scans : RecordScan(p, s) => Alone(p)
  BY <1>0 DEF RecordScan, Goto, Alone, Waiting
<1>2. Submit(p) /\ UNCHANGED minted => Alone(p)
  <2>1. minted' # minted + 1 \/ minted' # minted
    BY ProvenanceAssumption DEF TypeOK
  <2>. QED  BY <1>0, <2>1, LeaveAlone DEF Submit, Alone, Waiting
<1>3. FabricCommitted(p) => Alone(p)
  BY <1>0, LeaveAlone DEF FabricCommitted, Committed, Goto, Alone
<1>4. FabricEvent(p) => Alone(p)
  BY <1>0 DEF FabricEvent, Goto, Alone, Waiting
<1>5. LookUpReceipt(p) => Alone(p)
  BY <1>0 DEF LookUpReceipt, Goto, Alone, Waiting
<1>6. ReadNonce(p) => Alone(p)
  BY <1>0, LeaveAlone DEF ReadNonce, Goto, Alone, Waiting
<1>7. Mined(p) => Alone(p)
  BY <1>0, LeaveAlone DEF Mined, Goto, Alone
<1>8. PutReceipt(p) => Alone(p)
  BY <1>0, LeaveAlone DEF PutReceipt, Goto, Alone, Waiting
<1>9. AnchorCommitted(p) => Alone(p)
  BY <1>0, LeaveAlone DEF AnchorCommitted, Committed, Goto, Alone
<1>10. AnchorEvent(p) => Alone(p)
  BY <1>0, LeaveAlone DEF AnchorEvent, Alone, Waiting
<1>. QED  BY <1>1, <1>2, <1>3, <1>4, <1>5, <1>6, <1>7, <1>8, <1>9, <1>10
(* A first document, and an attachment, on their way.                      *)
LEMMA Submitted ==
  ASSUME TypeOK, Calls, Budget, NEW p \in Procs, Submit(p), minted' # minted
  PROVE  LET s     == call[p].scan
             write == RecordProvenance(record[s], minted + 1)
         IN  /\ pc[p] = "submit" /\ pc'[p] = "commit" /\ minted' = minted + 1 /\ minted + 1 \in Digests
             /\ s \in Scans /\ record[s] = NONE
             /\ write \in Record /\ write.digest = minted + 1 /\ write.root = 0
             /\ call'[p].scan = s /\ call'[p].digest = minted + 1
             /\ verdict'[p] = "none"
             /\ ordered' = ordered \cup {[owner |-> p, scan |-> s, read |-> version[s], write |-> write]}
             /\ UNCHANGED <<record, version, anchored, mempool, receipts, journal>>
             /\ \A q \in Procs \ {p} : pc'[q] = pc[q] /\ call'[q] = call[q] /\ verdict'[q] = verdict[q]
<1>. DEFINE s     == call[p].scan
            write == RecordProvenance(record[s], minted + 1)
<1>0. pc \in [Procs -> PCs] /\ call \in [Procs -> Call]
  BY DEF TypeOK
<1>1. /\ write # REJECT /\ minted' = minted + 1 /\ call' = [call EXCEPT ![p].digest = minted']
      /\ ordered' = Endorsed(p, s, write) /\ pc' = [pc EXCEPT ![p] = "commit"]
      /\ UNCHANGED <<verdict, record, version, ethereum, disk>>
      /\ pc[p] = "submit"
  BY DEF Submit, Goto
<1>2. p \in Minters
  BY <1>1 DEF Minters, RecordProvenance
<1>3. minted + 1 \in Digests
  BY <1>2, DigestLeft
<1>4. /\ record[s] = NONE /\ write \in Record /\ write.digest = minted + 1 /\ write.root = 0
  BY <1>1, <1>3, FirstRecord
<1>5. s \in Scans /\ verdict[p] = "none"
  BY <1>1 DEF Calls, Begun, Waiting
<1>6. ordered' = ordered \cup {[owner |-> p, scan |-> s, read |-> version[s], write |-> write]}
  BY <1>1 DEF Endorsed
<1>7. call'[p] = [call[p] EXCEPT !.digest = minted + 1] /\ \A q \in Procs \ {p} : call'[q] = call[q]
  BY <1>0, <1>1
<1>8. call'[p].scan = call[p].scan /\ call'[p].digest = minted + 1
  BY <1>0, <1>7 DEF Call
<1>. HIDE DEF s, write
<1>9. /\ pc'[p] = "commit" /\ verdict'[p] = "none"
      /\ \A q \in Procs \ {p} : pc'[q] = pc[q] /\ verdict'[q] = verdict[q]
  BY <1>0, <1>1, <1>5
<1>. QED  BY <1>1, <1>3, <1>4, <1>5, <1>6, <1>7, <1>8, <1>9 DEF ethereum, disk, s, write

LEMMA Attached ==
  ASSUME TypeOK, Calls, NEW p \in Procs, Attach(p), ~Leave(p)
  PROVE  LET s     == call[p].scan
             write == AttachEthereumAnchor(record[s], call[p].digest, call[p].tx)
         IN  /\ pc[p] = "attach" /\ pc'[p] = "attaching"
             /\ s \in Scans /\ record[s] # NONE
             /\ write \in Record /\ write.digest = record[s].digest /\ write.root = call[p].digest
             /\ write.revoked = record[s].revoked /\ record[s].root \in {0, call[p].digest}
             /\ call[p].digest \in anchored /\ record[s].digest = call[p].digest
             /\ verdict[p] = "none" /\ UNCHANGED <<call, verdict>>
             /\ ordered' = ordered \cup {[owner |-> p, scan |-> s, read |-> version[s], write |-> write]}
             /\ UNCHANGED <<record, version, anchored, mempool, receipts, journal, minted>>
             /\ \A q \in Procs \ {p} : pc'[q] = pc[q]
<1>. DEFINE s     == call[p].scan
            write == AttachEthereumAnchor(record[s], call[p].digest, call[p].tx)
<1>0. pc \in [Procs -> PCs] /\ call[p] \in Call /\ record \in [Scans -> Record \cup {NONE}]
  BY DEF TypeOK
<1>1. /\ pc[p] = "attach" /\ write # REJECT /\ ordered' = Endorsed(p, s, write)
      /\ pc' = [pc EXCEPT ![p] = "attaching"]
      /\ UNCHANGED <<local, record, version, ethereum, disk, bounds>>
  BY DEF Attach, Goto
<1>2. s \in Scans /\ verdict[p] = "none" /\ call[p].digest \in Digests /\ call[p].tx \in Nat \cup {NONE}
  BY <1>0, <1>1 DEF Calls, Begun, Waiting, Call
<1>3. /\ record[s] # NONE /\ record[s].digest = call[p].digest /\ call[p].digest \in anchored
  BY <1>1 DEF Calls, Reached, OnRecord, Noted, HasAnchor
<1>4. /\ write \in Record /\ write.digest = record[s].digest /\ write.root = call[p].digest
      /\ write.revoked = record[s].revoked /\ record[s].root \in {0, call[p].digest}
  <2>1. record[s] \in Record
    BY <1>0, <1>2, <1>3
  <2>2. write # REJECT
    BY <1>1
  <2>3. call[p].digest \in Digests /\ call[p].tx \in Nat \cup {NONE}
    BY <1>2
  <2>. QED  BY <2>1, <2>2, <2>3, AttachedRecord, ZenonT(60)
<1>5. ordered' = ordered \cup {[owner |-> p, scan |-> s, read |-> version[s], write |-> write]}
  BY <1>1 DEF Endorsed
<1>. HIDE DEF s, write
<1>6. pc'[p] = "attaching" /\ \A q \in Procs \ {p} : pc'[q] = pc[q]
  BY <1>0, <1>1
<1>. QED  BY <1>1, <1>2, <1>3, <1>4, <1>5, <1>6 DEF ethereum, disk, local, bounds, s, write

LEMMA StepTransactions ==
  TypeOK /\ Versions /\ Transactions /\ Calls /\ Budget /\ [Next]_vars => Transactions'
<1>. SUFFICES ASSUME TypeOK, Versions, Transactions, Calls, Budget, [Next]_vars PROVE Transactions'
  OBVIOUS
<1>. USE DEF fabric, ethereum, disk, local, bounds
<1>1. ASSUME NEW p \in Procs, Alone(p)
      PROVE  Transactions'
  BY <1>1, TransactionsKept DEF Alone
<1>2. ASSUME NEW p \in Procs, Submit(p), minted' # minted
      PROVE  Transactions'
  <2>. DEFINE s     == call[p].scan
              write == RecordProvenance(record[s], minted + 1)
  <2>1. /\ s \in Scans /\ record[s] = NONE /\ write \in Record /\ write.root = 0
        /\ write.digest = minted + 1 /\ version[s] = 0 /\ version[s] \in Nat
    BY <1>2, Submitted DEF TypeOK, Versions
  <2>2. PICK t : t = [owner |-> p, scan |-> s, read |-> version[s], write |-> write]
    OBVIOUS
  <2>3. t \in Endorsement /\ t.owner = p /\ t.owner # NONE /\ t.scan = s /\ t.read = 0 /\ t.write = write
    BY <2>1, <2>2, ProvenanceAssumption DEF Endorsement, Owner
  <2>4. /\ pc[p] = "submit" /\ pc'[p] = "commit" /\ verdict'[p] = "none"
        /\ call'[p].scan = s /\ call'[p].digest = minted + 1
        /\ ordered' = ordered \cup {t} /\ UNCHANGED <<record, version, anchored, mempool>>
        /\ \A q \in Procs \ {p} : pc'[q] = pc[q] /\ call'[q] = call[q] /\ verdict'[q] = verdict[q]
    BY <1>2, <2>2, Submitted
  <2>. HIDE DEF s, write
  <2>5. EndorsedOn(t)
    BY <2>1, <2>3 DEF EndorsedOn
  <2>6. Awaited(t)'
    BY <2>1, <2>3, <2>4 DEF Awaited
  <2>. QED  BY <2>3, <2>4, <2>5, <2>6, TransactionsEndorsed DEF Waiting
<1>3. ASSUME NEW p \in Procs, Attach(p)
      PROVE  Transactions'
  <2>1. CASE Leave(p)
    <3>1. pc[p] = "attach" /\ pc'[p] = "idle" /\ UNCHANGED <<record, version, ethereum>>
      BY <1>3, <2>1, LeaveAlone DEF Attach
    <3>2. UNCHANGED ordered
      BY <1>3, <3>1 DEF Attach, Goto, TypeOK
    <3>. QED  BY <2>1, <3>1, <3>2, LeaveAlone, TransactionsKept DEF Waiting
  <2>2. CASE ~Leave(p)
    <3>. DEFINE s     == call[p].scan
                write == AttachEthereumAnchor(record[s], call[p].digest, call[p].tx)
    <3>1. /\ s \in Scans /\ record[s] # NONE /\ write \in Record /\ write.root = call[p].digest
          /\ version[s] # 0 /\ version[s] \in Nat
      BY <1>3, <2>2, Attached DEF TypeOK, Versions
    <3>2. PICK t : t = [owner |-> p, scan |-> s, read |-> version[s], write |-> write]
      OBVIOUS
    <3>3. /\ t \in Endorsement /\ t.owner = p /\ t.owner # NONE /\ t.scan = s /\ t.read = version[s]
          /\ t.write = write
      BY <3>1, <3>2, ProvenanceAssumption DEF Endorsement, Owner
    <3>4. Succeeds(write, record[s])
      BY <1>3, <2>2, Attached DEF Succeeds
    <3>5. /\ pc[p] = "attach" /\ pc'[p] = "attaching" /\ verdict[p] = "none" /\ UNCHANGED <<call, verdict>>
          /\ ordered' = ordered \cup {t} /\ UNCHANGED <<record, version, anchored, mempool>>
          /\ \A q \in Procs \ {p} : pc'[q] = pc[q]
      BY <1>3, <2>2, <3>2, Attached
    <3>6. call[p].scan = s
      OBVIOUS
    <3>. HIDE DEF s, write
    <3>7. EndorsedOn(t)
      BY <3>1, <3>3, <3>4 DEF EndorsedOn
    <3>8. Awaited(t)'
      BY <3>1, <3>3, <3>5, <3>6 DEF Awaited
    <3>. QED  BY <3>3, <3>5, <3>7, <3>8, TransactionsEndorsed DEF Waiting
  <2>. QED  BY <2>1, <2>2
<1>4. ASSUME NEW p \in Procs, Send(p)
      PROVE  Transactions'
  <2>1. CASE Leave(p) /\ UNCHANGED mempool
    BY <1>4, <2>1, LeaveAlone, TransactionsKept DEF Send, Waiting
  <2>2. CASE ~(Leave(p) /\ UNCHANGED mempool)
    <3>1. PICK t : t = [owner |-> p, nonce |-> call[p].nonce, root |-> call[p].digest]
      OBVIOUS
    <3>2. /\ pc[p] = "send" /\ pc' = [pc EXCEPT ![p] = "mine"] /\ UNCHANGED <<local, fabric, anchored>>
          /\ mempool' \subseteq mempool \cup {t}
      BY <1>4, <2>2, <3>1 DEF Send, Goto
    <3>3. call[p].digest \in Digests /\ call[p].nonce \in Nat /\ verdict[p] = "none"
      BY <3>2 DEF TypeOK, Call, Calls, Begun, Waiting
    <3>4. t \in Transaction /\ t.owner = p /\ t.owner # NONE /\ t.root = call[p].digest
      BY <3>1, <3>3, ProvenanceAssumption DEF Transaction, Owner
    <3>5. pc'[p] = "mine" /\ \A q \in Procs \ {p} : pc'[q] = pc[q]
      BY <3>2 DEF TypeOK
    <3>6. MiningAwaited(t)'
      BY <3>2, <3>3, <3>4, <3>5 DEF MiningAwaited
    <3>. QED  BY <3>2, <3>4, <3>5, <3>6, TransactionsSent DEF Waiting
  <2>. QED  BY <2>1, <2>2
<1>5. ASSUME NEW p \in Procs, Die(p)
      PROVE  Transactions'
  BY <1>5, LeaveAlone, TransactionsOrphaned DEF Die
<1>6. ASSUME NEW s \in Scans, Revoke(s)
      PROVE  Transactions'
  <2>. DEFINE write == RevokeProvenance(record[s])
  <2>1. /\ record[s] # NONE /\ write \in Record /\ write.digest = record[s].digest
        /\ write.root = record[s].root /\ write.revoked /\ version[s] # 0 /\ version[s] \in Nat
    BY <1>6, RevokedRecord DEF Revoke, TypeOK, Versions
  <2>2. PICK t : t = [owner |-> NONE, scan |-> s, read |-> version[s], write |-> write]
    OBVIOUS
  <2>3. t \in Endorsement /\ t.owner = NONE /\ t.scan = s /\ t.read = version[s] /\ t.write = write
    BY <2>1, <2>2 DEF Endorsement, Owner
  <2>4. ordered' = ordered \cup {t} /\ UNCHANGED <<record, version, ethereum, pc, local>>
    BY <1>6, <2>2 DEF Revoke, Endorsed
  <2>. HIDE DEF write
  <2>5. EndorsedOn(t)
    BY <2>1, <2>3 DEF EndorsedOn, Succeeds
  <2>. QED  BY <2>3, <2>4, <2>5, TransactionsEndorsed
<1>7. CASE UNCHANGED vars
  BY <1>7 DEF vars, Transactions, EndorsedOn, Succeeds, Awaited, MiningAwaited
<1>. QED
  BY <1>1, <1>2, <1>3, <1>4, <1>5, <1>6, <1>7, ThreadsAlone, TransactionsOrdered, TransactionsMined
     DEF Next, Step
-----------------------------------------------------------------------------
(* Calls                                                                   *)

(* A thread that does not move keeps what it has reached, while another    *)
(* moves: a scan's document on record is that of one call only.            *)
LEMMA OtherCall ==
  ASSUME TypeOK, Versions, Transactions, Calls, [Next]_vars, NEW q \in Procs,
         pc'[q] = pc[q], call'[q] = call[q], verdict'[q] = verdict[q], minted' \in {minted, minted + 1},
         OnRecord(q) => journal'[call[q].scan] = journal[call[q].scan]
  PROVE  Begun(q)' /\ Reached(q)'
<1>1. /\ Begun(q) /\ Reached(q) /\ anchored \subseteq anchored' /\ minted \in Nat
      /\ call[q].digest \in Nat
  BY AnchoredGrows, ProvenanceAssumption DEF Calls, TypeOK, Call, Digests
<1>2. Begun(q)'
  BY <1>1 DEF Begun
<1>3. OnRecord(q) => call[q].scan \in Scans /\ call[q].digest # 0
  BY <1>1 DEF OnRecord, Begun, Noted, HasAnchor
<1>4. OnRecord(q) => Grows(call[q].scan)
  BY <1>3, RecordsGrow
<1>5. Reached(q)'
  BY <1>1, <1>3, <1>4 DEF Reached, OnRecord, Grows, Noted, HasAnchor
<1>. QED  BY <1>2, <1>5

LEMMA CallsMoved ==
  ASSUME TypeOK, Versions, Transactions, Calls, [Next]_vars, NEW p \in Procs,
         \A q \in Procs \ {p} : pc'[q] = pc[q] /\ call'[q] = call[q] /\ verdict'[q] = verdict[q],
         \/ UNCHANGED journal
         \/ OnRecord(p) /\ \A s \in Scans \ {call[p].scan} : journal'[s] = journal[s],
         \/ minted' = minted /\ call'[p].digest \in {call[p].digest, 0}
         \/ minted' = minted + 1 /\ call'[p].digest = minted + 1,
         Begun(p)', Reached(p)'
  PROVE  Calls'
<1>1. minted \in Nat /\ \A q \in Procs : call[q].digest \in Nat /\ call[q].digest <= minted
  BY ProvenanceAssumption DEF TypeOK, Calls, Begun, Call, Digests
<1>2. ASSUME NEW q \in Procs \ {p}
      PROVE  Begun(q)' /\ Reached(q)'
  <2>1. OnRecord(q) /\ OnRecord(p) => call[q].scan # call[p].scan
    BY DEF Calls, Reached, OnRecord, Begun, Noted, HasAnchor
  <2>2. OnRecord(q) => call[q].scan \in Scans
    BY DEF Calls, OnRecord, Begun, Noted, HasAnchor
  <2>3. OnRecord(q) => journal'[call[q].scan] = journal[call[q].scan]
    BY <2>1, <2>2
  <2>. QED  BY <2>3, OtherCall
<1>3. \A q, r \in Procs : q # r /\ call'[q].digest # 0 => call'[q].digest # call'[r].digest
  BY <1>1 DEF Calls
<1>. QED  BY <1>2, <1>3 DEF Calls

LEMMA CallsLeft ==
  ASSUME TypeOK, Versions, Transactions, Calls, [Next]_vars, NEW p \in Procs, Leave(p), minted' = minted,
         \/ UNCHANGED journal
         \/ OnRecord(p) /\ \A s \in Scans \ {call[p].scan} : journal'[s] = journal[s]
  PROVE  Calls'
<1>1. /\ pc'[p] = "idle" /\ call'[p] = NoCall /\ verdict'[p] = "none"
      /\ \A q \in Procs \ {p} : pc'[q] = pc[q] /\ call'[q] = call[q] /\ verdict'[q] = verdict[q]
  BY LeaveAlone
<1>2. call'[p].digest = 0
  BY <1>1 DEF NoCall
<1>3. Begun(p)' /\ Reached(p)'
  BY <1>1, <1>2 DEF Begun, Reached, OnRecord, Noted, HasAnchor, TypeOK
<1>. QED  BY <1>1, <1>2, <1>3, CallsMoved

(* A thread that goes on with its call, on an event or on none.            *)
LEMMA CallsGoOn ==
  ASSUME TypeOK, Versions, Transactions, Calls, [Next]_vars, NEW p \in Procs,
         \A q \in Procs \ {p} : pc'[q] = pc[q] /\ call'[q] = call[q] /\ verdict'[q] = verdict[q],
         UNCHANGED <<record, minted, anchored>>, verdict'[p] = "none",
         pc[p] \notin {"idle", "submit"}, pc'[p] \notin {"idle", "submit", "commit"}, OnRecord(p),
         call'[p].scan = call[p].scan, call'[p].digest = call[p].digest,
         \/ UNCHANGED journal /\ (pc[p] \in Noted <=> pc'[p] \in Noted)
         \/ /\ pc[p] \notin Noted /\ pc'[p] \in Noted
            /\ Len(journal'[call[p].scan]) = Len(journal[call[p].scan]) + 1
            /\ \A s \in Scans \ {call[p].scan} : journal'[s] = journal[s],
         pc'[p] \in HasAnchor => call[p].digest \in anchored,
         pc'[p] = "anchorEvent" => record[call[p].scan].root = call[p].digest
  PROVE  Calls'
<1>1. Begun(p) /\ Reached(p)
  BY DEF Calls
<1>2. Begun(p)'
  BY <1>1 DEF Begun
<1>3. Reached(p)'
  BY <1>1 DEF Reached, OnRecord
<1>. QED  BY <1>2, <1>3, CallsMoved

LEMMA InitCalls == Init => Versions /\ Transactions /\ Calls /\ Budget /\ ClaimsTruthful
<1>. SUFFICES ASSUME Init PROVE Versions /\ Transactions /\ Calls /\ Budget /\ ClaimsTruthful
  OBVIOUS
<1>. USE DEF Init
<1>1. Versions /\ Transactions
  BY DEF Versions, Transactions
<1>2. Calls
  BY DEF Calls, Begun, Reached, OnRecord, Noted, HasAnchor, NoCall
<1>3. Minters = {}
  BY DEF Minters
<1>4. Budget
  BY <1>3, FS_EmptySet, ProvenanceAssumption DEF Budget
<1>5. ClaimsTruthful
  BY DEF ClaimsTruthful, FabricFirst, AnchorTruthful, ReceiptTruthful, JournalTruthful
<1>. QED  BY <1>1, <1>2, <1>4, <1>5
(* The answer to a transaction in a block, and to a mined one.             *)
LEMMA CallsOrdered ==
  ASSUME TypeOK, Versions, Transactions, Calls, ClaimsTruthful, [Next]_vars, NEW t \in ordered, Order(t)
  PROVE  Calls'
<1>. DEFINE s == t.scan
            p == t.owner
            valid == t.read = version[s]
<1>1. /\ UNCHANGED <<ethereum, disk, pc, call, bounds>>
      /\ verdict' = IF p = NONE THEN verdict
                    ELSE [verdict EXCEPT ![p] = IF valid THEN "valid" ELSE "invalid"]
  BY DEF Order, Answer
<1>2. p \in Procs \cup {NONE} /\ verdict \in [Procs -> {"none", "valid", "invalid"}]
  BY OrderedRecord DEF Owner, TypeOK
<1>3. ASSUME NEW q \in Procs, q # p
      PROVE  Begun(q)' /\ Reached(q)'
  <2>1. verdict'[q] = verdict[q]
    BY <1>1, <1>2, <1>3
  <2>. QED  BY <1>1, <2>1, OtherCall DEF disk, bounds
<1>4. ASSUME p # NONE
      PROVE  Begun(p)' /\ Reached(p)'
  <2>1. p \in Procs /\ Awaited(t) /\ Begun(p) /\ Reached(p) /\ s \in Scans /\ call[p].scan = s
    BY <1>2, <1>4, OrderedRecord DEF Transactions, Calls, Awaited
  <2>2. pc[p] \in {"commit", "attaching"} /\ verdict[p] = "none"
    BY <2>1 DEF Awaited
  <2>3. Begun(p)'
    BY <1>1, <2>1, <2>2 DEF Begun, Waiting, bounds
  <2>4. verdict'[p] = IF valid THEN "valid" ELSE "invalid"
    BY <1>1, <1>2, <1>4, <2>1
  <2>5. CASE pc[p] = "commit"
    <3>1. t.read = 0 /\ t.write.digest = call[p].digest
      BY <2>1, <2>5 DEF Awaited
    <3>2. valid => record[s] = NONE /\ record'[s] = t.write /\ t.write # NONE
      BY <3>1, OrderedRecord, NoneIsNoRecord
    <3>3. journal[s] \in Seq(LedgerEvent)
      BY <2>1 DEF TypeOK
    <3>4. valid => Len(journal[s]) = 0
      <4>1. \A i \in 1..Len(journal[s]) : record[s] # NONE
        BY <2>1 DEF ClaimsTruthful, JournalTruthful
      <4>. QED  BY <3>2, <3>3, <4>1
    <3>. QED  BY <1>1, <2>1, <2>3, <2>4, <2>5, <3>1, <3>2, <3>4 DEF Reached, OnRecord, Noted, HasAnchor, disk
  <2>6. CASE pc[p] = "attaching"
    <3>1. t.read # 0 /\ t.write.root = call[p].digest
      BY <2>1, <2>6 DEF Awaited
    <3>2. valid => record'[s] = t.write
      BY OrderedRecord
    <3>3. Grows(s) /\ OnRecord(p)
      BY <2>1, <2>6, RecordsGrow DEF OnRecord, Noted, HasAnchor
    <3>4. Reached(p)'
      BY <1>1, <2>1, <2>4, <2>6, <3>1, <3>2, <3>3 DEF Reached, OnRecord, Grows, Noted, HasAnchor, disk, ethereum
    <3>. QED  BY <2>3, <3>4
  <2>. QED  BY <2>2, <2>5, <2>6
<1>5. \A q \in Procs : Begun(q)' /\ Reached(q)'
  BY <1>2, <1>3, <1>4, ProvenanceAssumption
<1>. QED  BY <1>1, <1>5 DEF Calls

LEMMA CallsMined ==
  ASSUME TypeOK, Versions, Transactions, Calls, [Next]_vars, NEW t \in mempool, Mine(t)
  PROVE  Calls'
<1>. DEFINE p == t.owner
<1>1. /\ UNCHANGED <<fabric, disk, pc, call, bounds>> /\ anchored' = anchored \cup {t.root}
      /\ verdict' = IF p = NONE THEN verdict
                    ELSE [verdict EXCEPT ![p] = IF t.root \in anchored THEN "invalid" ELSE "valid"]
  BY DEF Mine, Answer
<1>2. p \in Procs \cup {NONE} /\ verdict \in [Procs -> {"none", "valid", "invalid"}]
  BY DEF Owner, TypeOK, Transaction
<1>3. ASSUME NEW q \in Procs, q # p
      PROVE  Begun(q)' /\ Reached(q)'
  <2>1. verdict'[q] = verdict[q]
    BY <1>1, <1>2, <1>3
  <2>. QED  BY <1>1, <2>1, OtherCall DEF disk, bounds
<1>4. ASSUME p # NONE
      PROVE  Begun(p)' /\ Reached(p)'
  <2>1. p \in Procs /\ MiningAwaited(t) /\ Begun(p) /\ Reached(p)
    BY <1>2, <1>4 DEF Transactions, Calls
  <2>2. pc[p] = "mine" /\ t.root = call[p].digest
    BY <2>1 DEF MiningAwaited
  <2>3. Begun(p)'
    BY <1>1, <2>1, <2>2 DEF Begun, Waiting, bounds
  <2>4. call[p].digest \in anchored'
    BY <1>1, <2>2
  <2>5. Reached(p)'
    BY <1>1, <2>1, <2>2, <2>4 DEF Reached, OnRecord, Noted, HasAnchor, disk, fabric
  <2>. QED  BY <2>3, <2>5
<1>5. \A q \in Procs : Begun(q)' /\ Reached(q)'
  BY <1>2, <1>3, <1>4, ProvenanceAssumption
<1>. QED  BY <1>1, <1>5 DEF Calls
LEMMA StepCalls ==
  TypeOK /\ Versions /\ Transactions /\ Calls /\ Budget /\ ClaimsTruthful /\ [Next]_vars => Calls'
<1>. SUFFICES ASSUME TypeOK, Versions, Transactions, Calls, Budget, ClaimsTruthful, [Next]_vars
              PROVE  Calls'
  OBVIOUS
<1>. USE DEF fabric, ethereum, disk, local, bounds
<1>0. /\ pc \in [Procs -> PCs] /\ call \in [Procs -> Call]
      /\ verdict \in [Procs -> {"none", "valid", "invalid"}] /\ minted \in Nat
  BY ProvenanceAssumption DEF TypeOK
<1>00. \A p \in Procs : Begun(p) /\ Reached(p)
  BY DEF Calls
<1>1. ASSUME NEW p \in Procs, NEW s \in Scans, RecordScan(p, s)
      PROVE  Calls'
  <2>1. /\ pc[p] = "idle" /\ pc'[p] = "submit" /\ call'[p] = [call[p] EXCEPT !.scan = s]
        /\ UNCHANGED <<verdict, journal, minted>>
        /\ \A q \in Procs \ {p} : pc'[q] = pc[q] /\ call'[q] = call[q] /\ verdict'[q] = verdict[q]
    BY <1>0, <1>1 DEF RecordScan, Goto
  <2>2. call'[p].scan = s /\ call'[p].digest = call[p].digest
    BY <1>0, <2>1 DEF Call
  <2>3. Begun(p)' /\ Reached(p)'
    BY <1>00, <2>1, <2>2 DEF Begun, Reached, OnRecord, Noted, HasAnchor, Waiting
  <2>. QED  BY <2>1, <2>2, <2>3, CallsMoved
<1>2. ASSUME NEW p \in Procs, Submit(p)
      PROVE  Calls'
  <2>1. CASE minted' = minted
    <3>1. Leave(p) /\ UNCHANGED journal
      BY <1>0, <1>2, <2>1 DEF Submit
    <3>. QED  BY <2>1, <3>1, CallsLeft
  <2>2. CASE minted' # minted
    <3>1. /\ pc[p] = "submit" /\ pc'[p] = "commit" /\ minted' = minted + 1 /\ verdict'[p] = "none"
          /\ call'[p].scan \in Scans /\ call'[p].digest = minted + 1 /\ UNCHANGED journal
          /\ \A q \in Procs \ {p} : pc'[q] = pc[q] /\ call'[q] = call[q] /\ verdict'[q] = verdict[q]
      BY <1>2, <2>2, Submitted
    <3>2. Begun(p)' /\ Reached(p)'
      BY <1>0, <3>1 DEF Begun, Reached, OnRecord, Noted, HasAnchor
    <3>. QED  BY <3>1, <3>2, CallsMoved
  <2>. QED  BY <2>1, <2>2
<1>3. ASSUME NEW p \in Procs, FabricCommitted(p) \/ AnchorCommitted(p)
      PROVE  Calls'
  <2>1. UNCHANGED <<record, minted, anchored, journal>>
    BY <1>3 DEF FabricCommitted, AnchorCommitted, Committed
  <2>2. CASE Leave(p)
    BY <2>1, <2>2, CallsLeft
  <2>3. CASE ~Leave(p)
    <3>1. /\ verdict[p] = "valid" /\ verdict'[p] = "none" /\ UNCHANGED call
          /\ \/ pc[p] = "commit" /\ pc'[p] = "fabricEvent"
             \/ pc[p] = "attaching" /\ pc'[p] = "anchorEvent"
          /\ \A q \in Procs \ {p} : pc'[q] = pc[q] /\ verdict'[q] = verdict[q]
      BY <1>0, <1>3, <2>3 DEF FabricCommitted, AnchorCommitted, Committed, Goto
    <3>2. pc'[p] \in HasAnchor => call[p].digest \in anchored /\ record[call[p].scan].root = call[p].digest
      BY <1>00, <3>1 DEF Reached, HasAnchor
    <3>3. /\ OnRecord(p) /\ (pc[p] \in Noted <=> pc'[p] \in Noted)
          /\ pc[p] \notin {"idle", "submit"} /\ pc'[p] \notin {"idle", "submit", "commit"}
      BY <3>1 DEF OnRecord, Noted, HasAnchor
    <3>4. pc'[p] = "anchorEvent" => pc'[p] \in HasAnchor
      BY DEF HasAnchor
    <3>. QED  BY <2>1, <3>1, <3>2, <3>3, <3>4, CallsGoOn
  <2>. QED  BY <2>2, <2>3
<1>4. ASSUME NEW p \in Procs, FabricEvent(p)
      PROVE  Calls'
  <2>. DEFINE s     == call[p].scan
              event == [type |-> "fabric.committed", digest |-> call[p].digest]
  <2>1. /\ pc[p] = "fabricEvent" /\ pc'[p] = "lookup" /\ UNCHANGED <<record, minted, anchored, call, verdict>>
        /\ \A q \in Procs \ {p} : pc'[q] = pc[q]
    BY <1>0, <1>4 DEF FabricEvent, Goto
  <2>2. journal' = [journal EXCEPT ![s] = Append(@, event)]
    BY <1>4 DEF FabricEvent, Note
  <2>3. s \in Scans /\ verdict[p] = "none"
    BY <1>00, <2>1 DEF Begun, Waiting
  <2>4. journal \in [Scans -> Seq(LedgerEvent)] /\ journal[s] \in Seq(LedgerEvent)
    BY <2>3 DEF TypeOK
  <2>. HIDE DEF s, event
  <2>5. Len(journal'[s]) = Len(journal[s]) + 1
    BY <2>2, <2>3, <2>4
  <2>6. \A r \in Scans \ {s} : journal'[r] = journal[r]
    BY <2>2, <2>4
  <2>7. OnRecord(p) /\ pc[p] \notin Noted /\ pc'[p] \in Noted /\ pc'[p] \notin HasAnchor
    BY <2>1 DEF OnRecord, Noted, HasAnchor
  <2>. QED  BY <2>1, <2>3, <2>5, <2>6, <2>7, CallsGoOn DEF s
<1>5. ASSUME NEW p \in Procs, LookUpReceipt(p)
      PROVE  Calls'
  <2>. DEFINE receipt == receipts[call[p].digest]
  <2>1. /\ pc[p] = "lookup" /\ pc'[p] = IF receipt = NONE THEN "nonce" ELSE "attach"
        /\ UNCHANGED <<record, minted, anchored, verdict, journal>>
        /\ \A q \in Procs \ {p} : pc'[q] = pc[q] /\ call'[q] = call[q]
    BY <1>0, <1>5 DEF LookUpReceipt, Goto
  <2>2. call'[p] = [call[p] EXCEPT !.tx = receipt]
    BY <1>0, <1>5 DEF LookUpReceipt
  <2>3. call'[p].scan = call[p].scan /\ call'[p].digest = call[p].digest /\ call[p].digest \in Digests
    BY <1>0, <1>00, <2>1, <2>2 DEF Call, Begun
  <2>4. receipt # NONE => call[p].digest \in anchored
    BY <2>3 DEF ClaimsTruthful, ReceiptTruthful
  <2>. HIDE DEF receipt
  <2>5. pc'[p] \in HasAnchor => call[p].digest \in anchored
    BY <2>1, <2>4 DEF HasAnchor
  <2>6. /\ OnRecord(p) /\ verdict[p] = "none" /\ (pc[p] \in Noted <=> pc'[p] \in Noted)
        /\ pc[p] \notin {"idle", "submit"} /\ pc'[p] \notin {"idle", "submit", "commit", "anchorEvent"}
    BY <1>00, <2>1 DEF OnRecord, Begun, Noted, HasAnchor, Waiting
  <2>. QED  BY <2>1, <2>3, <2>5, <2>6, CallsGoOn
<1>6. ASSUME NEW p \in Procs, ReadNonce(p)
      PROVE  Calls'
  <2>1. UNCHANGED <<record, minted, anchored, journal>>
    BY <1>6 DEF ReadNonce
  <2>2. CASE Leave(p)
    BY <2>1, <2>2, CallsLeft
  <2>3. CASE ~Leave(p)
    <3>1. /\ pc[p] = "nonce" /\ pc'[p] = "send" /\ UNCHANGED verdict
          /\ call'[p] = [call[p] EXCEPT !.nonce = nonce]
          /\ \A q \in Procs \ {p} : pc'[q] = pc[q] /\ call'[q] = call[q]
      BY <1>0, <1>6, <2>3 DEF ReadNonce, Goto
    <3>2. call'[p].scan = call[p].scan /\ call'[p].digest = call[p].digest
      BY <1>0, <3>1 DEF Call
    <3>3. OnRecord(p) /\ verdict[p] = "none" /\ (pc[p] \in Noted <=> pc'[p] \in Noted) /\ pc'[p] \notin HasAnchor
      BY <1>00, <3>1 DEF OnRecord, Begun, Noted, HasAnchor, Waiting
    <3>. QED  BY <2>1, <3>1, <3>2, <3>3, CallsGoOn
  <2>. QED  BY <2>2, <2>3
<1>7. ASSUME NEW p \in Procs, Send(p)
      PROVE  Calls'
  <2>1. UNCHANGED <<record, minted, anchored, journal>>
    BY <1>7 DEF Send
  <2>2. CASE Leave(p)
    BY <2>1, <2>2, CallsLeft
  <2>3. CASE ~Leave(p)
    <3>1. /\ pc[p] = "send" /\ pc'[p] = "mine" /\ UNCHANGED <<call, verdict>>
          /\ \A q \in Procs \ {p} : pc'[q] = pc[q]
      BY <1>0, <1>7, <2>3 DEF Send, Goto
    <3>2. OnRecord(p) /\ verdict[p] = "none" /\ (pc[p] \in Noted <=> pc'[p] \in Noted) /\ pc'[p] \notin HasAnchor
      BY <1>00, <3>1 DEF OnRecord, Begun, Noted, HasAnchor, Waiting
    <3>. QED  BY <2>1, <3>1, <3>2, CallsGoOn
  <2>. QED  BY <2>2, <2>3
<1>8. ASSUME NEW p \in Procs, Mined(p)
      PROVE  Calls'
  <2>1. UNCHANGED <<record, minted, anchored, journal>>
    BY <1>8 DEF Mined
  <2>2. CASE Leave(p)
    BY <2>1, <2>2, CallsLeft
  <2>3. CASE ~Leave(p)
    <3>1. /\ pc[p] = "mine" /\ pc'[p] = "receipt" /\ verdict[p] = "valid" /\ verdict'[p] = "none"
          /\ call'[p] = [call[p] EXCEPT !.tx = call[p].nonce]
          /\ \A q \in Procs \ {p} : pc'[q] = pc[q] /\ call'[q] = call[q] /\ verdict'[q] = verdict[q]
      BY <1>0, <1>8, <2>3 DEF Mined, Goto
    <3>2. call'[p].scan = call[p].scan /\ call'[p].digest = call[p].digest
      BY <1>0, <3>1 DEF Call
    <3>3. OnRecord(p) /\ (pc[p] \in Noted <=> pc'[p] \in Noted) /\ call[p].digest \in anchored
      BY <1>00, <3>1 DEF OnRecord, Reached, Noted, HasAnchor
    <3>. QED  BY <2>1, <3>1, <3>2, <3>3, CallsGoOn
  <2>. QED  BY <2>2, <2>3
<1>9. ASSUME NEW p \in Procs, PutReceipt(p)
      PROVE  Calls'
  <2>1. UNCHANGED <<record, minted, anchored, journal>>
    BY <1>9 DEF PutReceipt
  <2>2. CASE Leave(p)
    BY <2>1, <2>2, CallsLeft
  <2>3. CASE ~Leave(p)
    <3>1. /\ pc[p] = "receipt" /\ pc'[p] = "attach" /\ UNCHANGED <<call, verdict>>
          /\ \A q \in Procs \ {p} : pc'[q] = pc[q]
      BY <1>0, <1>9, <2>3 DEF PutReceipt, Goto
    <3>2. /\ OnRecord(p) /\ verdict[p] = "none" /\ (pc[p] \in Noted <=> pc'[p] \in Noted)
          /\ call[p].digest \in anchored
      BY <1>00, <3>1 DEF OnRecord, Begun, Reached, Noted, HasAnchor, Waiting
    <3>. QED  BY <2>1, <3>1, <3>2, CallsGoOn
  <2>. QED  BY <2>2, <2>3
<1>10. ASSUME NEW p \in Procs, Attach(p)
       PROVE  Calls'
  <2>1. UNCHANGED <<record, minted, anchored, journal>>
    BY <1>10 DEF Attach
  <2>2. CASE Leave(p)
    BY <2>1, <2>2, CallsLeft
  <2>3. CASE ~Leave(p)
    <3>1. /\ pc[p] = "attach" /\ pc'[p] = "attaching" /\ verdict[p] = "none" /\ UNCHANGED <<call, verdict>>
          /\ call[p].digest \in anchored /\ \A q \in Procs \ {p} : pc'[q] = pc[q]
      BY <1>10, <2>3, Attached
    <3>2. OnRecord(p) /\ (pc[p] \in Noted <=> pc'[p] \in Noted)
      BY <3>1 DEF OnRecord, Noted, HasAnchor
    <3>. QED  BY <2>1, <3>1, <3>2, CallsGoOn
  <2>. QED  BY <2>2, <2>3
<1>11. ASSUME NEW p \in Procs, AnchorEvent(p)
       PROVE  Calls'
  <2>1. Leave(p) /\ OnRecord(p) /\ minted' = minted
    BY <1>11 DEF AnchorEvent, OnRecord, Noted, HasAnchor
  <2>2. \A s \in Scans \ {call[p].scan} : journal'[s] = journal[s]
    BY <1>11 DEF AnchorEvent, Note, TypeOK
  <2>. QED  BY <2>1, <2>2, CallsLeft
<1>12. ASSUME NEW p \in Procs, Die(p)
       PROVE  Calls'
  BY <1>12, CallsLeft DEF Die
<1>13. ASSUME NEW s \in Scans, Revoke(s)
       PROVE  Calls'
  <2>1. UNCHANGED <<record, journal, anchored, pc, call, verdict, minted>>
    BY <1>13 DEF Revoke
  <2>. QED  BY <2>1 DEF Calls, Begun, Reached, OnRecord
<1>14. CASE UNCHANGED vars
  BY <1>14 DEF vars, Calls, Begun, Reached, OnRecord
<1>. QED
  BY <1>1, <1>2, <1>3, <1>4, <1>5, <1>6, <1>7, <1>8, <1>9, <1>10, <1>11, <1>12, <1>13, <1>14,
     CallsOrdered, CallsMined DEF Next, Step
-----------------------------------------------------------------------------
(* Digests                                                                 *)
LEMMA NoMoreMinters ==
  ASSUME TypeOK, Budget, minted' = minted, Minters' \subseteq Minters
  PROVE  Budget'
<1>1. IsFiniteSet(Minters)
  BY ProvenanceAssumption, FS_Subset DEF Minters
<1>2. Cardinality(Minters') <= Cardinality(Minters) /\ IsFiniteSet(Minters')
  BY <1>1, FS_Subset
<1>3. Cardinality(Minters) \in Nat /\ Cardinality(Minters') \in Nat /\ minted \in Nat
  BY <1>1, <1>2, FS_CardinalityType, ProvenanceAssumption DEF TypeOK
<1>. QED  BY <1>2, <1>3, ProvenanceAssumption DEF Budget

LEMMA StepBudget ==
  TypeOK /\ Versions /\ Transactions /\ Calls /\ Budget /\ [Next]_vars => Budget'
<1>. SUFFICES ASSUME TypeOK, Versions, Transactions, Calls, Budget, [Next]_vars PROVE Budget'
  OBVIOUS
<1>. USE DEF fabric, ethereum, disk, local, bounds
<1>0. pc \in [Procs -> PCs] /\ call \in [Procs -> Call] /\ minted \in Nat /\ MaxDigests \in Nat
  BY ProvenanceAssumption DEF TypeOK
<1>00. \A q \in Procs : pc[q] = "submit" =>
         call[q].scan \in Scans /\ (record'[call[q].scan] = NONE => record[call[q].scan] = NONE)
  BY RecordsGrow DEF Calls, Begun, Grows
<1>1. ASSUME minted' = minted, \A q \in Procs : pc'[q] = "submit" => pc[q] = "submit" /\ call'[q] = call[q]
      PROVE  Budget'
  <2>1. Minters' \subseteq Minters
    BY <1>00, <1>1 DEF Minters
  <2>. QED  BY <1>1, <2>1, NoMoreMinters
<1>2. ASSUME NEW p \in Procs, NEW s \in Scans, RecordScan(p, s)
      PROVE  Budget'
  <2>1. /\ pc' = [pc EXCEPT ![p] = "submit"] /\ UNCHANGED <<record, minted>>
        /\ call' = [call EXCEPT ![p] = [call[p] EXCEPT !.scan = s]]
    BY <1>0, <1>2 DEF RecordScan, Goto
  <2>2. call'[p].scan = s /\ \A q \in Procs \ {p} : pc'[q] = pc[q] /\ call'[q] = call[q]
    BY <1>0, <2>1 DEF Call
  <2>3. CASE record[s] # NONE
    <3>1. Minters' \subseteq Minters
      BY <2>1, <2>2, <2>3 DEF Minters
    <3>. QED  BY <2>1, <3>1, NoMoreMinters
  <2>4. CASE record[s] = NONE
    <3>. DEFINE submitting == {q \in Procs : pc[q] = "submit"}
    <3>1. minted + Cardinality(submitting) < MaxDigests
      BY <1>2, <2>4 DEF RecordScan
    <3>2. IsFiniteSet(submitting) /\ Cardinality(submitting) \in Nat
      BY ProvenanceAssumption, FS_Subset, FS_CardinalityType
    <3>3. Minters' \subseteq submitting \cup {p}
      BY <2>2 DEF Minters
    <3>. HIDE DEF submitting
    <3>4. /\ IsFiniteSet(submitting \cup {p})
          /\ Cardinality(submitting \cup {p}) \in {Cardinality(submitting), Cardinality(submitting) + 1}
      BY <3>2, FS_AddElement
    <3>5. IsFiniteSet(Minters') /\ Cardinality(Minters') <= Cardinality(submitting \cup {p})
      BY <3>3, <3>4, FS_Subset
    <3>6. Cardinality(Minters') \in Nat
      BY <3>5, FS_CardinalityType
    <3>. QED  BY <1>0, <2>1, <3>1, <3>2, <3>4, <3>5, <3>6 DEF Budget
  <2>. QED  BY <2>3, <2>4
<1>3. ASSUME NEW p \in Procs, Submit(p)
      PROVE  Budget'
  <2>1. CASE minted' = minted
    <3>1. Leave(p)
      BY <1>0, <1>3, <2>1 DEF Submit
    <3>2. pc'[p] = "idle" /\ \A q \in Procs \ {p} : pc'[q] = pc[q] /\ call'[q] = call[q]
      BY <3>1, LeaveAlone
    <3>. QED  BY <1>1, <2>1, <3>2
  <2>2. CASE minted' # minted
    <3>1. /\ p \in Minters /\ minted' = minted + 1 /\ pc'[p] = "commit" /\ UNCHANGED record
          /\ \A q \in Procs \ {p} : pc'[q] = pc[q] /\ call'[q] = call[q]
      BY <1>3, <2>2, Submitted DEF Minters
    <3>2. Minters' \subseteq Minters \ {p}
      BY <3>1 DEF Minters
    <3>3. IsFiniteSet(Minters)
      BY ProvenanceAssumption, FS_Subset DEF Minters
    <3>4. IsFiniteSet(Minters \ {p}) /\ Cardinality(Minters \ {p}) = Cardinality(Minters) - 1
      BY <3>1, <3>3, FS_RemoveElement
    <3>5. IsFiniteSet(Minters') /\ Cardinality(Minters') <= Cardinality(Minters \ {p})
      BY <3>2, <3>4, FS_Subset
    <3>6. Cardinality(Minters') \in Nat /\ Cardinality(Minters) \in Nat
      BY <3>3, <3>5, FS_CardinalityType
    <3>. QED  BY <1>0, <3>1, <3>4, <3>5, <3>6 DEF Budget
  <2>. QED  BY <2>1, <2>2
<1>4. ASSUME NEW p \in Procs, Leave(p), minted' = minted
      PROVE  Budget'
  BY <1>1, <1>4, LeaveAlone
<1>5. ASSUME NEW p \in Procs, NEW to \in PCs \ {"submit"}, pc' = [pc EXCEPT ![p] = to], minted' = minted,
             \A q \in Procs \ {p} : call'[q] = call[q]
      PROVE  Budget'
  BY <1>0, <1>1, <1>5
<1>6. ASSUME NEW p \in Procs, FabricCommitted(p) \/ AnchorCommitted(p)
      PROVE  Budget'
  BY <1>4, <1>5, <1>6 DEF FabricCommitted, AnchorCommitted, Committed, Goto, PCs
<1>7. ASSUME NEW p \in Procs, FabricEvent(p) \/ ReadNonce(p) \/ Send(p)
      PROVE  Budget'
  BY <1>0, <1>4, <1>5, <1>7 DEF FabricEvent, ReadNonce, Send, Goto, PCs
<1>8. ASSUME NEW p \in Procs, LookUpReceipt(p) \/ Mined(p)
      PROVE  Budget'
  BY <1>0, <1>4, <1>5, <1>8 DEF LookUpReceipt, Mined, Goto, PCs
<1>9. ASSUME NEW p \in Procs, PutReceipt(p) \/ Attach(p)
      PROVE  Budget'
  BY <1>4, <1>5, <1>9 DEF PutReceipt, Attach, Goto, PCs
<1>10. ASSUME NEW p \in Procs, AnchorEvent(p) \/ Die(p)
       PROVE  Budget'
  BY <1>4, <1>10 DEF AnchorEvent, Die
<1>11. ASSUME NEW s \in Scans, Revoke(s)
       PROVE  Budget'
  BY <1>1, <1>11 DEF Revoke
<1>12. ASSUME NEW t \in ordered, Order(t)
       PROVE  Budget'
  BY <1>1, <1>12 DEF Order
<1>13. ASSUME NEW t \in mempool, Mine(t)
       PROVE  Budget'
  BY <1>1, <1>13 DEF Mine
<1>14. CASE UNCHANGED vars
  BY <1>1, <1>14 DEF vars
<1>. QED
  BY <1>2, <1>3, <1>6, <1>7, <1>8, <1>9, <1>10, <1>11, <1>12, <1>13, <1>14 DEF Next, Step

-----------------------------------------------------------------------------
(* Claims                                                                  *)

(* A record that is there, and a root that is stored, stay so.             *)
LEMMA ClaimsStay ==
  ASSUME TypeOK, Versions, Transactions, [Next]_vars
  PROVE  /\ anchored \subseteq anchored'
         /\ \A s \in Scans : record[s] # NONE => record'[s] # NONE /\ record'[s].digest = record[s].digest
  BY AnchoredGrows, RecordsGrow DEF Grows

LEMMA StepFabricFirst ==
  TypeOK /\ Versions /\ Transactions /\ Calls /\ FabricFirst /\ [Next]_vars => FabricFirst'
<1>. SUFFICES ASSUME TypeOK, Versions, Transactions, Calls, FabricFirst, [Next]_vars PROVE FabricFirst'
  OBVIOUS
<1>. USE DEF fabric, ethereum, disk, local, bounds
<1>1. ASSUME anchored' \cup {t.root : t \in mempool'} \subseteq anchored \cup {t.root : t \in mempool}
      PROVE  FabricFirst'
  BY <1>1, ClaimsStay DEF FabricFirst
<1>2. ASSUME UNCHANGED <<anchored, mempool>>
      PROVE  FabricFirst'
  BY <1>1, <1>2
<1>3. ASSUME NEW p \in Procs, Send(p)
      PROVE  FabricFirst'
  <2>. DEFINE tx == [owner |-> p, nonce |-> call[p].nonce, root |-> call[p].digest]
  <2>1. pc[p] = "send" /\ anchored' = anchored /\ mempool' \subseteq mempool \cup {tx}
    BY <1>3 DEF Send
  <2>2. tx.root = call[p].digest
    OBVIOUS
  <2>3. /\ call[p].scan \in Scans /\ record[call[p].scan] # NONE
        /\ record[call[p].scan].digest = call[p].digest
    BY <2>1 DEF Calls, Begun, Reached, OnRecord, Noted, HasAnchor
  <2>. HIDE DEF tx
  <2>. QED  BY <2>1, <2>2, <2>3, ClaimsStay DEF FabricFirst
<1>4. ASSUME NEW p \in Procs, Die(p)
      PROVE  FabricFirst'
  <2>1. \A t \in mempool : t \in [owner : Owner, nonce : Nat, root : Digests]
    BY DEF TypeOK, Transaction
  <2>2. \A t \in mempool' : \E u \in mempool : t.root = u.root
    BY <1>4, <2>1 DEF Die, Orphaned
  <2>3. anchored' = anchored
    BY <1>4 DEF Die
  <2>. QED  BY <1>1, <2>2, <2>3
<1>5. ASSUME NEW t \in mempool, Mine(t)
      PROVE  FabricFirst'
  BY <1>1, <1>5 DEF Mine
<1>6. ASSUME NEW p \in Procs, Step(p), ~Send(p)
      PROVE  UNCHANGED <<anchored, mempool>>
  BY <1>6 DEF Step, Submit, FabricCommitted, FabricEvent, LookUpReceipt, ReadNonce, Mined,
     PutReceipt, Attach, AnchorCommitted, AnchorEvent, Committed
<1>7. ASSUME NEW p \in Procs, NEW s \in Scans, RecordScan(p, s)
      PROVE  UNCHANGED <<anchored, mempool>>
  BY <1>7 DEF RecordScan
<1>8. ASSUME NEW s \in Scans, Revoke(s)
      PROVE  UNCHANGED <<anchored, mempool>>
  BY <1>8 DEF Revoke
<1>9. ASSUME NEW t \in ordered, Order(t)
      PROVE  UNCHANGED <<anchored, mempool>>
  BY <1>9 DEF Order
<1>10. CASE UNCHANGED vars
  BY <1>2, <1>10 DEF vars
<1>. QED  BY <1>2, <1>3, <1>4, <1>5, <1>6, <1>7, <1>8, <1>9, <1>10 DEF Next

LEMMA StepAnchorTruthful ==
  TypeOK /\ Versions /\ Transactions /\ AnchorTruthful /\ [Next]_vars => AnchorTruthful'
<1>. SUFFICES ASSUME TypeOK, Versions, Transactions, AnchorTruthful, [Next]_vars, NEW s \in Scans,
                     record'[s] # NONE, record'[s].root # 0
              PROVE  record'[s].root = record'[s].digest /\ record'[s].root \in anchored'
  BY DEF AnchorTruthful
<1>1. record[s] # NONE /\ Grows(s)
  BY RecordsGrow
<1>. QED  BY <1>1, AnchoredGrows DEF Grows, AnchorTruthful

(* Receipts and events of other steps stay.                                *)
LEMMA StepReceiptTruthful ==
  TypeOK /\ Calls /\ ReceiptTruthful /\ [Next]_vars => ReceiptTruthful'
<1>. SUFFICES ASSUME TypeOK, Calls, ReceiptTruthful, [Next]_vars PROVE ReceiptTruthful'
  OBVIOUS
<1>. USE DEF fabric, ethereum, disk, local, bounds
<1>1. CASE UNCHANGED receipts
  BY <1>1, AnchoredGrows DEF ReceiptTruthful
<1>2. ASSUME NEW p \in Procs, PutReceipt(p)
      PROVE  ReceiptTruthful'
  <2>1. call[p].digest \in anchored
    BY <1>2 DEF PutReceipt, Calls, Reached, HasAnchor
  <2>2. \A r \in Digests \ {call[p].digest} : receipts'[r] = receipts[r]
    BY <1>2 DEF PutReceipt, TypeOK
  <2>. QED  BY <2>1, <2>2, AnchoredGrows DEF ReceiptTruthful
<1>3. ASSUME NEW p \in Procs, Step(p), ~PutReceipt(p)
      PROVE  UNCHANGED receipts
  BY <1>3 DEF Step, Submit, FabricCommitted, FabricEvent, LookUpReceipt, ReadNonce, Send, Mined,
     Attach, AnchorCommitted, AnchorEvent, Committed
<1>4. ASSUME NEW p \in Procs, Die(p) \/ \E s \in Scans : RecordScan(p, s)
      PROVE  UNCHANGED receipts
  BY <1>4 DEF Die, RecordScan
<1>5. ASSUME NEW s \in Scans, Revoke(s)
      PROVE  UNCHANGED receipts
  BY <1>5 DEF Revoke
<1>6. ASSUME (\E t \in ordered : Order(t)) \/ (\E t \in mempool : Mine(t))
      PROVE  UNCHANGED receipts
  BY <1>6 DEF Order, Mine
<1>7. CASE UNCHANGED vars
  BY <1>1, <1>7 DEF vars
<1>. QED  BY <1>1, <1>2, <1>3, <1>4, <1>5, <1>6, <1>7 DEF Next
(* What one event in the journal of s claims.                              *)
Claims(s, i) ==
  /\ record[s] # NONE /\ journal[s][i].digest = record[s].digest
  /\ journal[s][i].type = IF i = 1 THEN "fabric.committed" ELSE "ethereum.anchor_confirmed"
  /\ i <= 2 /\ (i = 2 => record[s].root = record[s].digest)

LEMMA ClaimKept ==
  ASSUME TypeOK, Versions, Transactions, [Next]_vars, NEW s \in Scans, NEW i \in Nat, Claims(s, i),
         journal'[s][i] = journal[s][i]
  PROVE  Claims(s, i)'
<1>1. Grows(s) /\ record[s] \in Record
  BY RecordsGrow DEF Claims, TypeOK
<1>2. record[s].digest # 0
  BY <1>1, ProvenanceAssumption DEF Record, Digests
<1>. QED  BY <1>1, <1>2 DEF Grows, Claims

(* An event is noted of the document that is on record.                    *)
LEMMA ClaimNoted ==
  ASSUME TypeOK, JournalTruthful, NEW s \in Scans, record[s] # NONE,
         NEW type \in {"fabric.committed", "ethereum.anchor_confirmed"},
         Note(s, type, record[s].digest), UNCHANGED record,
         \/ Len(journal[s]) = 0 /\ type = "fabric.committed"
         \/ Len(journal[s]) = 1 /\ type = "ethereum.anchor_confirmed" /\ record[s].root = record[s].digest
  PROVE  JournalTruthful'
<1>1. PICK event : event = [type |-> type, digest |-> record[s].digest]
  OBVIOUS
<1>2. event.type = type /\ event.digest = record[s].digest
  BY <1>1
<1>3. event \in LedgerEvent
  BY <1>1 DEF LedgerEvent, TypeOK, Record
<1>4. journal' = [journal EXCEPT ![s] = Append(@, event)]
  BY <1>1 DEF Note
<1>5. journal \in [Scans -> Seq(LedgerEvent)] /\ journal[s] \in Seq(LedgerEvent)
  BY DEF TypeOK
<1>6. /\ journal'[s] = Append(journal[s], event)
      /\ \A r \in Scans \ {s} : journal'[r] = journal[r]
  BY <1>4, <1>5
<1>7. /\ Len(journal'[s]) = Len(journal[s]) + 1
      /\ journal'[s][Len(journal[s]) + 1] = event
      /\ \A i \in 1..Len(journal[s]) : journal'[s][i] = journal[s][i]
  BY <1>3, <1>5, <1>6
<1>8. \A i \in 1..Len(journal'[s]) : Claims(s, i)'
  <2>. SUFFICES ASSUME NEW i \in 1..Len(journal'[s]) PROVE Claims(s, i)'
    OBVIOUS
  <2>1. CASE i = Len(journal[s]) + 1
    <3>1. journal'[s][i].digest = record[s].digest /\ journal'[s][i].type = type
      BY <1>2, <1>7, <2>1
    <3>2. CASE Len(journal[s]) = 0 /\ type = "fabric.committed"
      <4>1. i = 1
        BY <2>1, <3>2
      <4>. QED  BY <3>1, <3>2, <4>1 DEF Claims
    <3>3. CASE /\ Len(journal[s]) = 1 /\ type = "ethereum.anchor_confirmed"
               /\ record[s].root = record[s].digest
      <4>1. i = 2
        BY <2>1, <3>3
      <4>. QED  BY <3>1, <3>3, <4>1 DEF Claims
    <3>. QED  BY <3>2, <3>3
  <2>2. CASE i # Len(journal[s]) + 1
    <3>1. i \in 1..Len(journal[s])
      BY <1>5, <1>7, <2>2
    <3>. QED  BY <1>7, <3>1 DEF Claims, JournalTruthful
  <2>. QED  BY <2>1, <2>2
<1>9. \A r \in Scans \ {s} : \A i \in 1..Len(journal'[r]) : Claims(r, i)'
  BY <1>6 DEF Claims, JournalTruthful
<1>. QED  BY <1>8, <1>9 DEF Claims, JournalTruthful

LEMMA StepJournalTruthful ==
  TypeOK /\ Versions /\ Transactions /\ Calls /\ JournalTruthful /\ [Next]_vars => JournalTruthful'
<1>. SUFFICES ASSUME TypeOK, Versions, Transactions, Calls, JournalTruthful, [Next]_vars
              PROVE  JournalTruthful'
  OBVIOUS
<1>. USE DEF fabric, ethereum, disk, local, bounds
<1>1. CASE UNCHANGED journal
  <2>1. \A s \in Scans : \A i \in 1..Len(journal[s]) : i \in Nat /\ Claims(s, i)
    BY DEF JournalTruthful, Claims, TypeOK
  <2>2. \A s \in Scans : \A i \in 1..Len(journal'[s]) : Claims(s, i)'
    BY <1>1, <2>1, ClaimKept
  <2>. QED  BY <2>2 DEF JournalTruthful, Claims
<1>2. ASSUME NEW p \in Procs, FabricEvent(p)
      PROVE  JournalTruthful'
  <2>1. /\ pc[p] = "fabricEvent" /\ Note(call[p].scan, "fabric.committed", call[p].digest)
        /\ UNCHANGED record
    BY <1>2 DEF FabricEvent, Goto
  <2>2. /\ call[p].scan \in Scans /\ record[call[p].scan] # NONE /\ Len(journal[call[p].scan]) = 0
        /\ record[call[p].scan].digest = call[p].digest
    BY <2>1 DEF Calls, Begun, Reached, OnRecord, Noted, HasAnchor
  <2>. QED  BY <2>1, <2>2, ClaimNoted
<1>3. ASSUME NEW p \in Procs, AnchorEvent(p)
      PROVE  JournalTruthful'
  <2>1. /\ pc[p] = "anchorEvent" /\ Note(call[p].scan, "ethereum.anchor_confirmed", call[p].digest)
        /\ UNCHANGED record
    BY <1>3 DEF AnchorEvent
  <2>2. /\ call[p].scan \in Scans /\ record[call[p].scan] # NONE /\ Len(journal[call[p].scan]) = 1
        /\ record[call[p].scan].digest = call[p].digest /\ record[call[p].scan].root = call[p].digest
    BY <2>1 DEF Calls, Begun, Reached, OnRecord, Noted, HasAnchor
  <2>. QED  BY <2>1, <2>2, ClaimNoted
<1>4. ASSUME NEW p \in Procs, Step(p), ~FabricEvent(p), ~AnchorEvent(p)
      PROVE  UNCHANGED journal
  BY <1>4 DEF Step, Submit, FabricCommitted, LookUpReceipt, ReadNonce, Send, Mined, PutReceipt,
     Attach, AnchorCommitted, Committed
<1>5. ASSUME NEW p \in Procs, Die(p) \/ \E s \in Scans : RecordScan(p, s)
      PROVE  UNCHANGED journal
  BY <1>5 DEF Die, RecordScan
<1>6. ASSUME NEW s \in Scans, Revoke(s)
      PROVE  UNCHANGED journal
  BY <1>6 DEF Revoke
<1>7. ASSUME (\E t \in ordered : Order(t)) \/ (\E t \in mempool : Mine(t))
      PROVE  UNCHANGED journal
  BY <1>7 DEF Order, Mine
<1>8. CASE UNCHANGED vars
  BY <1>1, <1>8 DEF vars
<1>. QED  BY <1>1, <1>2, <1>3, <1>4, <1>5, <1>6, <1>7, <1>8 DEF Next

-----------------------------------------------------------------------------
(* The theorems                                                            *)

LEMMA Invariant == Spec => []IInv
<1>1. Init => IInv
  BY InitTypes, InitCalls DEF IInv
<1>2. IInv /\ [Next]_vars => IInv'
  BY StepTypes, StepVersions, StepTransactions, StepCalls, StepBudget, StepFabricFirst, StepAnchorTruthful,
     StepReceiptTruthful, StepJournalTruthful DEF IInv, ClaimsTruthful
<1>. QED  BY <1>1, <1>2, PTL DEF Spec

(* Every variable keeps to its type: no interleaving of calls, timeouts    *)
(* and blocks takes more digests, revocations or faults than there are.    *)
THEOREM LedgerTypes == Spec => []TypeOK
<1>. QED  BY Invariant, PTL DEF IInv

(* No ledger, receipt or event claims what another does not hold, however  *)
(* many threads record the same scan at once and wherever they are cut     *)
(* off.                                                                    *)
THEOREM LedgersAgree == Spec => []ClaimsTruthful
<1>. QED  BY Invariant, PTL DEF IInv

(* The document on record, its anchor and its revocation stay, whichever   *)
(* of the transactions under way the blocks take first.                    *)
THEOREM RecordsStay == Spec => RecordKept
<1>1. IInv /\ [Next]_vars =>
        [\A s \in Scans : record[s] # NONE =>
           /\ record'[s] # NONE /\ record'[s].digest = record[s].digest
           /\ record[s].root # 0 => record'[s].root = record[s].root
           /\ record[s].revoked => record'[s].revoked]_vars
  BY RecordsGrow DEF IInv, Grows
<1>. QED  BY <1>1, Invariant, PTL DEF Spec, RecordKept
Stage(s) == IF record[s] = NONE THEN "unknown"
            ELSE IF record[s].root = 0 THEN "committed" ELSE "anchored"

LEMMA LifeInit == Init => Life!Init
  BY DEF Init, Life!Init

LEMMA LifeStep ==
  ASSUME IInv, [Next]_vars
  PROVE  [Life!Next]_([s \in Scans |-> IF record[s] = NONE THEN "unknown"
                                       ELSE IF record[s].root = 0 THEN "committed" ELSE "anchored"])
<1>. DEFINE stage == [s \in Scans |-> Stage(s)]
<1>0. stage = [s \in Scans |-> IF record[s] = NONE THEN "unknown"
                               ELSE IF record[s].root = 0 THEN "committed" ELSE "anchored"]
  BY DEF Stage
<1>1. ASSUME NEW s \in Scans, Stage(s)' # Stage(s), \A r \in Scans \ {s} : record'[r] = record[r]
      PROVE  Life!Next
  <2>1. stage' = [stage EXCEPT ![s] = Stage(s)']
    BY <1>1 DEF Stage
  <2>2. \/ Stage(s) = "unknown" /\ Stage(s)' = "committed"
        \/ Stage(s) = "committed" /\ Stage(s)' = "anchored"
    <3>1. /\ Grows(s) /\ (record[s] = NONE /\ record'[s] # NONE => record'[s].root = 0)
          /\ record'[s] = record[s] \/ record'[s] # NONE
      BY RecordsGrow DEF IInv
    <3>. QED  BY <1>1, <3>1 DEF Stage, Grows
  <2>3. stage[s] = Stage(s)
    OBVIOUS
  <2>. HIDE DEF stage
  <2>4. \/ stage[s] = "unknown" /\ stage' = [stage EXCEPT ![s] = "committed"]
        \/ stage[s] = "committed" /\ stage' = [stage EXCEPT ![s] = "anchored"]
    BY <2>1, <2>2, <2>3
  <2>. QED  BY <1>0, <2>4 DEF Life!Next, Life!Commit, Life!Anchor, Stage, stage
<1>2. CASE \A s \in Scans : Stage(s)' = Stage(s)
  <2>1. stage' = stage
    BY <1>2
  <2>. QED  BY <1>0, <2>1 DEF Stage
<1>3. ASSUME NEW s \in Scans, Stage(s)' # Stage(s)
      PROVE  \A r \in Scans \ {s} : record'[r] = record[r]
  <2>1. PICK t \in ordered : Order(t)
    BY <1>3, OthersLeaveRecords DEF Stage
  <2>. QED  BY <1>3, <2>1, OrderedRecord DEF IInv, Stage
<1>. QED  BY <1>1, <1>2, <1>3

(* Recording implements the life of a scan on the ledgers: unknown,        *)
(* committed, anchored, one step at a time and never back.                 *)
THEOREM LedgersImplementLife == Spec => ImplementsLife
  BY LifeInit, LifeStep, Invariant, PTL DEF Spec, ImplementsLife, Life!Spec
=============================================================================
