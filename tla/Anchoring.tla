----------------------------- MODULE Anchoring ------------------------------
(***************************************************************************)
(* Receipt anchoring: dashboard panels (components/anchor-panel.tsx) that  *)
(* preview the unanchored payments, have the wallet sign anchor_batch, and *)
(* record the batch; the two routes and lib/anchor.ts behind them; the     *)
(* ReceiptAnchor contract as a growing sequence of roots.  Several panels  *)
(* run at once, payments keep arriving, and a rewind of the indexer        *)
(* deletes rows.  A request, a signature or an answer may be lost.         *)
(*                                                                         *)
(* Payments are numbered by (ledger, tx_hash).  The record transaction     *)
(* updates one payment per statement: a panel in "writing" holds the rows  *)
(* of its selection it has updated so far, and COMMIT publishes them.  A   *)
(* panel that shows a result (nothing to anchor, recorded, pending) waits  *)
(* for a reload, as an idle one waits for a preview: both are "idle".      *)
(***************************************************************************)
EXTENDS Merkle, FiniteSets

CONSTANTS Payment,      \* payments, in (ledger, tx_hash) order
          Mine,         \* those of the merchant who records
          Panel,        \* open dashboards
          MaxBatch,     \* MAX_BATCH_SIZE
          MaxFaults,    \* bound: lost requests and answers, signatures repeated
          MaxPurges     \* bound: rewinds of the indexer

AnchoringAssumption ==
  /\ Payment \subseteq 1 .. Leaves - 1 /\ Mine \subseteq Payment
  /\ MaxBatch \in Nat \ {0} /\ {MaxFaults, MaxPurges} \subseteq Nat

VARIABLES confirmed,    \* payments with ledger and ts
          batchOf,      \* payments.batch_id, 0 for NULL
          proofOf,      \* payments.receipt_proof
          batches,      \* receipt_batches, by selection
          chain,        \* the roots anchored, by batch id
          panel,
          forgotten,    \* history: payments a rewind deleted with their batch
          faults, purges

payments == <<confirmed, batchOf, proofOf>>
bounds == <<faults, purges>>
vars == <<confirmed, batchOf, proofOf, batches, chain, panel, forgotten, faults, purges>>

Selection == (SUBSET Payment) \ {{}}
NoRow == [status |-> "none", batch |-> 0]
Previewed == [status |-> "previewed", batch |-> 0]
Idle == [phase |-> "idle", sel |-> {}, existing |-> NoRow, batch |-> 0, todo |-> {},
         error |-> FALSE]

Init ==
  /\ confirmed = {}
  /\ batchOf = [p \in Payment |-> 0] /\ proofOf = [p \in Payment |-> <<>>]
  /\ batches = [S \in Selection |-> NoRow]
  /\ chain = <<>>
  /\ panel = [q \in Panel |-> Idle]
  /\ forgotten = {} /\ faults = 0 /\ purges = 0

Rank(S, p) == Cardinality({r \in S : r <= p})
Ordered(S) == [i \in 1 .. Cardinality(S) |-> CHOOSE p \in S : Rank(S, p) = i]
Root(S) == RootOf(Ordered(S))

-----------------------------------------------------------------------------
(* The indexer's side.                                                     *)

\* Windows are committed in ledger order.
Index(p) ==
  /\ p \notin confirmed /\ \A r \in Payment : r < p => r \in confirmed
  /\ confirmed' = confirmed \cup {p}
  /\ UNCHANGED <<batchOf, proofOf, batches, chain, panel, forgotten, bounds>>

Writing(q) == panel[q].phase = "writing"
Held(q) == IF Writing(q) THEN panel[q].sel \ panel[q].todo ELSE {}

\* rollbackSyncToLedger deletes every payment above a ledger, once it gets
\* the rows; receipt_batches keeps its own.
Purge(l) ==
  LET gone == {p \in confirmed : p > l} IN
  /\ purges < MaxPurges /\ purges' = purges + 1
  /\ gone # {} /\ \A q \in Panel : Held(q) \cap gone = {}
  /\ confirmed' = confirmed \ gone
  /\ batchOf' = [p \in Payment |-> IF p \in gone THEN 0 ELSE batchOf[p]]
  /\ proofOf' = [p \in Payment |-> IF p \in gone THEN <<>> ELSE proofOf[p]]
  /\ forgotten' = forgotten \cup {p \in gone : batchOf[p] # 0}
  /\ UNCHANGED <<batches, chain, panel, faults>>

-----------------------------------------------------------------------------
(* GET /api/anchor/preview: the selection, then its row.                   *)

\* Mutant of Unanchored: the upper ledger bound is exclusive.
BelowLatest == {p \in confirmed : batchOf[p] = 0 /\ \E r \in confirmed : p < r}
Unanchored == {p \in confirmed : batchOf[p] = 0}

FirstBatch(S) == {p \in S : Rank(S, p) <= MaxBatch}

\* An error leaves the preview on the screen, to be confirmed again.
Refused(q) == [panel[q] EXCEPT !.phase = "preview", !.batch = 0, !.todo = {}, !.error = TRUE]

Becomes(q, r) == panel' = [panel EXCEPT ![q] = r]

LoadUnanchored(q) ==
  /\ panel[q].phase = "idle" /\ Unanchored # {}
  /\ Becomes(q, [Idle EXCEPT !.phase = "loaded", !.sel = FirstBatch(Unanchored)])
  /\ UNCHANGED <<payments, batches, chain, forgotten, bounds>>

\* persistPreview: an existing row is reported, a new one inserted.
PersistPreview(q) ==
  /\ panel[q].phase = "loaded"
  /\ LET S == panel[q].sel IN
     /\ Becomes(q, [panel[q] EXCEPT !.phase = "preview", !.existing = batches[S]])
     /\ batches' = [batches EXCEPT ![S] = IF @ = NoRow THEN Previewed ELSE @]
  /\ UNCHANGED <<payments, chain, forgotten, bounds>>

-----------------------------------------------------------------------------
(* confirm and submitAnchor.                                               *)

\* A selection that was recorded before is done; one that is 'submitted' goes
\* straight to record (no committed row ever is, see Commit).
SkipSigning(q) ==
  /\ panel[q].phase = "preview" /\ panel[q].existing.batch > 0
  /\ Becomes(q, IF panel[q].existing.status = "recorded"
                THEN Idle
                ELSE [panel[q] EXCEPT !.phase = "recording", !.batch = panel[q].existing.batch])
  /\ UNCHANGED <<payments, batches, chain, forgotten, bounds>>

AnchorBatch(q) == chain' = Append(chain, Root(panel[q].sel))

\* Signing anew after an error counts as a fault, to bound the repetitions.
Sign(q) ==
  /\ panel[q].phase = "preview" /\ panel[q].existing.batch = 0
  /\ panel[q].error => faults < MaxFaults
  /\ faults' = IF panel[q].error THEN faults + 1 ELSE faults
  /\ AnchorBatch(q)
  /\ Becomes(q, [panel[q] EXCEPT !.phase = "recording", !.batch = Len(chain) + 1,
                                 !.error = FALSE])
  /\ UNCHANGED <<payments, batches, forgotten, purges>>

\* The confirmation is not seen in time, or polling fails: the batch is on
\* the chain all the same, or it is not.
SignUnconfirmed(q) ==
  /\ panel[q].phase = "preview" /\ panel[q].existing.batch = 0
  /\ faults < MaxFaults /\ faults' = faults + 1
  /\ AnchorBatch(q) \/ UNCHANGED chain
  /\ Becomes(q, Idle) \/ Becomes(q, Refused(q))
  /\ UNCHANGED <<payments, batches, forgotten, purges>>

-----------------------------------------------------------------------------
(* POST /api/anchor/record and recordAnchoredBatchTx.                      *)

\* The operator looks the batch up and posts its id by hand.
RecordByHand(q) ==
  /\ panel[q].phase = "preview" /\ faults < MaxFaults /\ faults' = faults + 1
  /\ \E b \in 1 .. Len(chain) : Becomes(q, [panel[q] EXCEPT !.phase = "recording", !.batch = b])
  /\ UNCHANGED <<payments, batches, chain, forgotten, purges>>

\* get_batch returns the root the preview computed.
RootsAgree(b, S) == b \in 1 .. Len(chain) /\ chain[b] = Root(S)

\* SELECT ... FOR UPDATE of the selection, after the root check.
LockBatch(q) ==
  LET S == panel[q].sel
      b == panel[q].batch
  IN  /\ panel[q].phase = "recording"
      /\ \A o \in Panel : Writing(o) => panel[o].sel # S
      /\ Becomes(q, CASE ~RootsAgree(b, S) \/ batches[S] = NoRow -> Refused(q)
                      [] batches[S] = [status |-> "recorded", batch |-> b] ->
                           Idle
                      [] batches[S].batch \notin {0, b} -> Refused(q)
                      [] OTHER -> [panel[q] EXCEPT !.phase = "writing", !.todo = S])
      /\ UNCHANGED <<payments, batches, chain, forgotten, bounds>>

\* Mutant of Updatable: UPDATE payments without AND batch_id IS NULL.
UpdatableAlways(p) == p \in confirmed /\ p \in Mine
Updatable(p) == p \in confirmed /\ p \in Mine /\ batchOf[p] = 0

\* The next payment in key order; when another transaction holds it the
\* statement waits, and when it can neither be updated nor already carries
\* this very batch the whole rolls back.
UpdatePayment(q) ==
  LET p == CHOOSE r \in panel[q].todo : \A s \in panel[q].todo : r <= s IN
  /\ Writing(q) /\ panel[q].todo # {}
  /\ \A o \in Panel \ {q} : p \notin Held(o)
  /\ Becomes(q, IF Updatable(p) \/ (p \in confirmed \cap Mine /\ batchOf[p] = panel[q].batch)
                THEN [panel[q] EXCEPT !.todo = @ \ {p}]
                ELSE Refused(q))
  /\ UNCHANGED <<payments, batches, chain, forgotten, bounds>>

\* Mutant of Written: the proof of the payment's place in the whole table.
WrittenShifted(S, p) == ProofOf(Ordered(S), (Rank(S, p) % Cardinality(S)) + 1)
Written(S, p) == ProofOf(Ordered(S), Rank(S, p))

\* Mutant of RecordedRow: the second UPDATE of the row is missing.
SubmittedRow(b) == [status |-> "submitted", batch |-> b]
\* 'submitted' is overwritten with 'recorded' before COMMIT shows the row.
RecordedRow(b) == [status |-> "recorded", batch |-> b]

Commit(q) ==
  LET S == panel[q].sel
      b == panel[q].batch
  IN  /\ Writing(q) /\ panel[q].todo = {}
      /\ batches' = [batches EXCEPT ![S] = RecordedRow(b)]
      /\ batchOf' = [p \in Payment |-> IF p \in S THEN b ELSE batchOf[p]]
      /\ proofOf' = [p \in Payment |-> IF p \in S THEN Written(S, p) ELSE proofOf[p]]
      /\ UNCHANGED <<confirmed, chain, forgotten, purges>>
      /\ \/ /\ Becomes(q, Idle)
            /\ UNCHANGED faults
         \/ /\ faults < MaxFaults /\ faults' = faults + 1    \* the answer is lost
            /\ Becomes(q, Refused(q))

-----------------------------------------------------------------------------
\* A preview that is lost or cancelled leaves nothing behind on the screen, a
\* record request that fails is rolled back and leaves it with an error.
RequestFails(q) ==
  /\ panel[q].phase # "idle"
  /\ faults < MaxFaults /\ faults' = faults + 1
  /\ Becomes(q, IF panel[q].phase \in {"loaded", "preview"} THEN Idle ELSE Refused(q))
  /\ UNCHANGED <<payments, batches, chain, forgotten, purges>>

Cancel(q) ==
  /\ panel[q].phase = "preview" /\ panel[q].error
  /\ Becomes(q, Idle)
  /\ UNCHANGED <<payments, batches, chain, forgotten, bounds>>

Step(q) ==
  \/ LoadUnanchored(q) \/ PersistPreview(q) \/ SkipSigning(q)
  \/ LockBatch(q) \/ UpdatePayment(q) \/ Commit(q)
  \/ Cancel(q) \/ (~panel[q].error /\ Sign(q))

Next ==
  \/ \E p \in Payment : Index(p)
  \/ \E l \in {0} \cup Payment : Purge(l)
  \/ \E q \in Panel : Step(q) \/ Sign(q) \/ SignUnconfirmed(q)
                       \/ RecordByHand(q) \/ RequestFails(q)

Spec == Init /\ [][Next]_vars

\* The operators carry on: a panel with something to do does it, and starts
\* over after an error.
FairSpec == Spec /\ \A q \in Panel : WF_vars(Step(q))

-----------------------------------------------------------------------------
(* Properties.                                                             *)

TypeOK ==
  /\ confirmed \subseteq Payment
  /\ batchOf \in [Payment -> 0 .. Len(chain)]
  /\ \A S \in Selection : /\ batches[S].status \in {"none", "previewed", "recorded"}
                          /\ batches[S].batch \in 0 .. Len(chain)
                          /\ batches[S].status = "recorded" <=> batches[S].batch # 0
  /\ \A q \in Panel : /\ panel[q].sel \subseteq Payment /\ panel[q].todo \subseteq panel[q].sel
                      /\ panel[q].batch \in 0 .. Len(chain)
  /\ forgotten \subseteq Payment /\ faults \in 0 .. MaxFaults /\ purges \in 0 .. MaxPurges

\* getProof: the payment's own columns, joined with the recorded batch.
Proof(p) == {S \in Selection : /\ batchOf[p] # 0
                               /\ batches[S] = [status |-> "recorded", batch |-> batchOf[p]]}

\* Every receipt served verifies on the chain: whatever panels overlapped,
\* signed twice or lost an answer, a payment's proof leads from its leaf to
\* the root anchored under its batch id, and getProof finds exactly one batch.
ReceiptsVerify ==
  \A p \in Payment : batchOf[p] # 0 =>
    /\ Cardinality(Proof(p)) = 1
    /\ VerifyReceipt(p, proofOf[p], chain[batchOf[p]])

\* A recorded batch is whole: each of its payments carries its id, unless a
\* rewind deleted the row since.
BatchIsWhole ==
  \A S \in Selection : batches[S].status = "recorded" =>
    \A p \in S : batchOf[p] = batches[S].batch \/ p \in forgotten

\* A receipt is final: once a payment carries a batch it keeps it, and its
\* proof, until a rewind deletes the row.
KeepsReceipts ==
  \A p \in Payment : batchOf[p] # 0 /\ p \in confirmed' =>
    batchOf'[p] = batchOf[p] /\ proofOf'[p] = proofOf[p]
ReceiptsAreFinal == [][KeepsReceipts]_vars

\* Every payment is anchored in the end, however the panels overlap; only a
\* rewind that takes back anchored payments can stop it.
Confirmed(p) == p \in confirmed
Anchored(p) == batchOf[p] # 0 \/ p \notin confirmed \/ forgotten # {}
EventuallyAnchored == \A p \in Payment : Confirmed(p) ~> Anchored(p)

\* lib/db.ts on receipt_batches: submitting the same set twice hits the
\* unique key instead of anchoring a second batch.
AnchoredOnce == \A i, j \in 1 .. Len(chain) : chain[i] = chain[j] => i = j

-----------------------------------------------------------------------------
(* The inductive invariant behind ReceiptsVerify and KeepsReceipts.        *)
RowSet == [status : {"none", "previewed", "recorded"}, batch : Nat]
PanelSet == [phase : {"idle", "loaded", "preview", "recording", "writing"},
             sel : SUBSET Payment, existing : RowSet, batch : Nat,
             todo : SUBSET Payment, error : BOOLEAN]

\* A panel past its preview has a selection; what is still to be written is of it.
Shaped(k) == k \in PanelSet /\ (k.phase # "idle" => k.sel # {}) /\ k.todo \subseteq k.sel

AnchorTypes ==
  /\ confirmed \subseteq Payment /\ forgotten \subseteq Payment
  /\ batchOf \in [Payment -> Nat] /\ proofOf \in [Payment -> Seq(Nat)]
  /\ batches \in [Selection -> RowSet] /\ chain \in Seq(Nat)
  /\ panel \in [Panel -> PanelSet] /\ \A q \in Panel : Shaped(panel[q])

\* A recorded batch has its root on the chain, under the id of its row.
RowsAnchored ==
  \A S \in Selection : batches[S].status = "recorded" =>
    batches[S].batch # 0 /\ RootsAgree(batches[S].batch, S)

\* A payment with a batch has its proof in a recorded batch of that id.
PaymentsRecorded ==
  \A p \in Payment : batchOf[p] # 0 =>
    \E S \in Selection : /\ p \in S /\ batches[S] = RecordedRow(batchOf[p])
                         /\ proofOf[p] = Written(S, p)

\* What a record transaction checked, and the rows it has written so far.
WritesSound(q) ==
  LET S == panel[q].sel
      b == panel[q].batch
  IN  Writing(q) =>
        /\ b # 0 /\ RootsAgree(b, S)
        /\ \A p \in Held(q) : p \in confirmed /\ batchOf[p] \in {0, b}
        /\ \A o \in Panel \ {q} : Writing(o) => panel[o].sel # S /\ Held(o) \cap Held(q) = {}

AnchorInv ==
  /\ AnchorTypes /\ RowsAnchored /\ PaymentsRecorded /\ BatchIsWhole
  /\ \A q \in Panel : WritesSound(q)
=============================================================================
