------------------------------- MODULE MCChain -------------------------------
(****************************************************************************)
(* The sweep that reads the chain's events, the anchoring of receipts, the  *)
(* public verifier, the reconciliation of the books with the chain, and the *)
(* receipt trees.  TLC starts in the initial states of each and stays with  *)
(* it.  The parameters of the machines that are proved about are CONSTANTS  *)
(* of this module: Chain_proofs has the theorems, for all their values.     *)
(*                                                                          *)
(* The sweep: seven ledgers in windows of two, pages of two events, a node  *)
(* one ledger further; the pages of the first window split a ledger.        *)
(****************************************************************************)
EXTENDS EventPager, Merkle

VARIABLES machine, v1, v2, v3, v4, v5, v6, v7, v8, v9, v10, v11, v12, v13

CONSTANTS
  Payment, Mine, Panel, MaxBatch, MaxLosses, MaxPurges,          \* "anchor"
  Batches, Files, Deployments, Versions, MaxChecks, MaxEdits, MaxErrors,    \* "verifier"
  Tx, Transfer, AuditTx, AuditLedger, BatchSize, MaxLedger,
  AuditWindow, AuditPage, Lookback, FromLedger, MaxAltered                    \* "audit"

MCEvent == 1 .. 9
MCLedgerOf == <<1, 1, 1, 2, 3, 4, 6, 7, 8>>
TxOfTransfer == <<"t1", "t2", "t2", "t3">>
LedgerOfTransfer == <<1, 3, 3, 4>>
TwoBatches == <<<<1>>, <<2, 3>>>>
MCFiles ==
  {[batch |-> 2, leaf |-> 2, proof |-> <<3>>, merchant |-> 2, customer |-> 3],
   [batch |-> 2, leaf |-> 3, proof |-> <<3>>, merchant |-> 3, customer |-> 0],
   [batch |-> 1, leaf |-> 1, proof |-> <<>>, merchant |-> 1, customer |-> 0]}
MCDeployments ==
  {[batch |-> "get_batch", verify |-> "verify_receipt", root |-> "root"],
   [batch |-> "batch", verify |-> "verify", root |-> "root"]}

Anchor == INSTANCE Anchoring WITH
  MaxFaults <- MaxLosses, confirmed <- v1, batchOf <- v2, proofOf <- v3,
  batches <- v4, chain <- v5, panel <- v6, forgotten <- v7, faults <- v8,
  purges <- v9
Faulty == INSTANCE Anchoring WITH
  Payment <- {1, 2}, Mine <- {1, 2}, Panel <- {"q1", "q2"}, MaxBatch <- 2,
  MaxFaults <- 1, MaxPurges <- 0, confirmed <- v1, batchOf <- v2,
  proofOf <- v3, batches <- v4, chain <- v5, panel <- v6, forgotten <- v7,
  faults <- v8, purges <- v9
Rewound == INSTANCE Anchoring WITH
  Payment <- {1, 2}, Mine <- {1, 2}, Panel <- {"q1", "q2"}, MaxBatch <- 2,
  MaxFaults <- 0, MaxPurges <- 1, confirmed <- v1, batchOf <- v2,
  proofOf <- v3, batches <- v4, chain <- v5, panel <- v6, forgotten <- v7,
  faults <- v8, purges <- v9
Verifier == INSTANCE Verification WITH
  MaxFaults <- MaxErrors, form <- v1, receipt <- v2, reading <- v3,
  shown <- v4, check <- v5, anchored <- v6, deployed <- v7, configured <- v8,
  engine <- v9, edits <- v10, faults <- v11
Audit == INSTANCE Reconcile WITH
  TxOf <- AuditTx, LedgerOf <- AuditLedger, Window <- AuditWindow,
  PageLimit <- AuditPage, MaxFaults <- MaxAltered, paid <- v1,
  reportedAt <- v2, head <- v3, cursor <- v4, altered <- v5, faults <- v6,
  pc <- v7, from <- v8, to <- v9, window <- v10, page <- v11, rebuilt <- v12,
  production <- v13

ASSUME PagerAssumption
ASSUME Audit!PaymentsAssumption
ASSUME Audit!ReconcileAssumption
ASSUME MerkleAssumption
ASSUME Anchor!AnchoringAssumption
ASSUME Verifier!VerificationAssumption

inst == <<v1, v2, v3, v4, v5, v6, v7, v8, v9, v10, v11, v12, v13>>
all == <<machine, inst, vars>>

(* The variables a machine of so many does without. *)
No9 == v10 = 0 /\ v11 = 0 /\ v12 = 0 /\ v13 = 0
Keep9 == UNCHANGED <<v10, v11, v12, v13>>
No11 == v12 = 0 /\ v13 = 0
Keep11 == UNCHANGED <<v12, v13>>
No2 == v3 = 0 /\ v4 = 0 /\ v5 = 0 /\ v6 = 0 /\ v7 = 0 /\ v8 = 0 /\ v9 = 0 /\
        v10 = 0 /\ v11 = 0 /\ v12 = 0 /\ v13 = 0

Unused == v1 = 0 /\ v2 = 0 /\ v3 = 0 /\ v4 = 0 /\ v5 = 0 /\ v6 = 0 /\ v7 = 0
          /\ v8 = 0 /\ v9 = 0 /\ v10 = 0 /\ v11 = 0 /\ v12 = 0 /\ v13 = 0

MCInit ==
  \/ machine = "sweep" /\ Init /\ Unused
  \/ machine = "anchor" /\ Anchor!Init /\ No9 /\ Init /\ batchSize = 1
  \/ machine = "faulty" /\ Faulty!Init /\ No9 /\ Init /\ batchSize = 1
  \/ machine = "rewound" /\ Rewound!Init /\ No9 /\ Init /\ batchSize = 1
  \/ machine = "verifier" /\ Verifier!Init /\ No11 /\ Init /\ batchSize = 1
  \/ machine = "audit" /\ Audit!Init /\ Init /\ batchSize = 1
  \/ machine = "tree" /\ v1 \in 1 .. Leaves - 1 /\ v2 \in 1 .. v1 /\ No2 /\ Init /\ batchSize = 1

MCNext ==
  \/ machine = "sweep" /\ Next /\ UNCHANGED <<machine, inst>>
  \/ machine = "anchor" /\ Anchor!Next /\ Keep9 /\ UNCHANGED <<machine, vars>>
  \/ machine = "faulty" /\ Faulty!Next /\ Keep9 /\ UNCHANGED <<machine, vars>>
  \/ machine = "rewound" /\ Rewound!Next /\ Keep9 /\ UNCHANGED <<machine, vars>>
  \/ machine = "verifier" /\ Verifier!Next /\ Keep11 /\ UNCHANGED <<machine, vars>>
  \/ machine = "audit" /\ Audit!Next /\ UNCHANGED <<machine, vars>>

MCSafe == MCInit /\ [][MCNext]_all

(* The fairness of the modules, each for its own machine. *)
MCSpec ==
  /\ MCSafe
  /\ WF_all(machine = "sweep" /\ Step /\ UNCHANGED <<machine, inst>>)
  /\ \A q \in {"q1", "q2"} : WF_all(machine = "faulty" /\ Faulty!Step(q) /\ Keep9 /\ UNCHANGED <<machine, vars>>)
  /\ \A q \in {"q1", "q2"} : WF_all(machine = "rewound" /\ Rewound!Step(q) /\ Keep9 /\ UNCHANGED <<machine, vars>>)

OkMeansAgreed == machine = "audit" => Audit!OkMeansAgreed
ReceiptsVerify ==
  /\ machine = "anchor" => Anchor!ReceiptsVerify /\ Anchor!BatchIsWhole
  /\ machine = "verifier" => Verifier!VerdictsAreTrue
TreesVerify ==
  machine = "tree" =>
    LET batch(lo, hi) == [k \in 1 .. hi - lo + 1 |-> lo + k - 1]
        leaves == batch(1, v1)
    IN  /\ \A leaf \in 1 .. Leaves - 1 :
             VerifyReceipt(leaf, ProofOf(leaves, v2), RootOf(leaves)) <=> leaf = v2
        /\ \A lo, hi \in 1 .. Leaves - 1 :
             lo <= hi /\ RootOf(batch(lo, hi)) = RootOf(leaves) => lo = 1 /\ hi = v1
SweepsEnd ==
  /\ <>(machine = "sweep" => Over)
  /\ [](machine = "sweep" => Complete)
ReceiptsAreFinal == [][machine = "anchor" => Anchor!KeepsReceipts]_all
EventuallyAnchored ==
  \A p \in {1, 2} :
    /\ (machine = "faulty" /\ Faulty!Confirmed(p)) ~> (machine = "faulty" => Faulty!Anchored(p))
    /\ (machine = "rewound" /\ Rewound!Confirmed(p)) ~> (machine = "rewound" => Rewound!Anchored(p))
==============================================================================
