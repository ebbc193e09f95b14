---------------------------- MODULE Verification ----------------------------
(***************************************************************************)
(* The public verifier: the form of /verify with the receipt files dropped *)
(* on it, POST /api/verify, and the reads of the ReceiptAnchor contract    *)
(* behind it.  A check takes the form as it stood when it was submitted;   *)
(* the form may change, a file may be read and another check may start     *)
(* while one is under way.  A signature is the leaf it was made over.      *)
(*                                                                         *)
(* Hashes are those of Merkle; a batch field that is not a number is 0.    *)
(* Spellings of a hash, and the texts of errors, are left out.             *)
(***************************************************************************)
EXTENDS Merkle, FiniteSets

CONSTANTS Batches,      \* the batches that will be anchored, in order
          Files,        \* receipt files: batch, leaf, proof, merchant, customer
          Deployments,  \* contracts: the methods they have and the field of the root
          Versions,     \* what the server may be configured to speak
          MaxChecks, MaxEdits, MaxFaults      \* bounds

VerificationAssumption ==
  /\ Batches \in Seq(Seq(1 .. Leaves - 1) \ {<<>>})
  /\ \A f \in Files : /\ f.batch \in Nat /\ f.leaf \in 1 .. Leaves - 1 /\ f.proof \in Seq(Nat)
                      /\ f.merchant \in Nat /\ f.customer \in Nat
  /\ {MaxChecks, MaxEdits, MaxFaults} \subseteq Nat

VARIABLES form, receipt, reading, shown,      \* the page
          check,                              \* submitted checks, by number
          anchored,                           \* how many batches the chain has
          deployed, configured, engine,       \* the setting; engine: Ed25519 in the browser
          edits, faults

setting == <<deployed, configured, engine>>
vars == <<form, receipt, reading, shown, check, anchored, setting, edits, faults>>

Checks == 1 .. MaxChecks
Blank == [batch |-> 0, leaf |-> 0, proof |-> <<>>]
NoReceipt == [leaf |-> 0, merchant |-> 0, customer |-> 0]
Unsent == [phase |-> "none", form |-> Blank, receipt |-> NoReceipt, root |-> 0,
           local |-> FALSE, onchain |-> "none"]
Nothing == [status |-> "idle", of |-> 0, merchant |-> "none", customer |-> "none"]

Init ==
  /\ form = Blank /\ receipt = NoReceipt /\ reading = {} /\ shown = Nothing
  /\ check = [c \in Checks |-> Unsent]
  /\ anchored = 0
  /\ deployed \in Deployments /\ configured \in Versions /\ engine \in BOOLEAN
  /\ edits = 0 /\ faults = 0

Receipts == {r \in (DOMAIN Batches) \X (1 .. Leaves) : r[2] \in DOMAIN Batches[r[1]]}
ReceiptForm(b, i) == [batch |-> b, leaf |-> Batches[b][i], proof |-> ProofOf(Batches[b], i)]

-----------------------------------------------------------------------------
(* The page.                                                               *)

Edited == edits < MaxEdits /\ edits' = edits + 1

\* A receipt served by /api/receipts, or the sample, pasted into the form.
Paste(b, i) ==
  /\ Edited
  /\ form' = ReceiptForm(b, i) /\ receipt' = NoReceipt /\ shown' = Nothing
  /\ UNCHANGED <<reading, check, anchored, setting, faults>>

\* One field typed over.
Type(b, leaf) ==
  /\ Edited
  /\ form' \in {[form EXCEPT !.batch = b], [form EXCEPT !.leaf = leaf]} \ {form}
  /\ UNCHANGED <<receipt, reading, shown, check, anchored, setting, faults>>

Drop(f) ==
  /\ Edited /\ reading' = reading \cup {f}
  /\ UNCHANGED <<form, receipt, shown, check, anchored, setting, faults>>

\* What parseReceiptJson accepts; it wants a proof of one hash at least.
Parses(f) == f.batch >= 1 /\ f.proof # <<>>

FileRead(f) ==
  /\ f \in reading /\ reading' = reading \ {f}
  /\ IF Parses(f)
     THEN /\ receipt' = [leaf |-> f.leaf, merchant |-> f.merchant, customer |-> f.customer]
          /\ form' = [batch |-> f.batch, leaf |-> f.leaf, proof |-> f.proof]
          /\ shown' = Nothing
     ELSE receipt' = NoReceipt /\ UNCHANGED <<form, shown>>
  /\ UNCHANGED <<check, anchored, setting, edits, faults>>

\* The button is disabled while a check is shown to be under way.
Submit(c) ==
  /\ shown.status # "checking" /\ form.leaf # 0
  /\ check[c].phase = "none" /\ \A d \in Checks : d < c => check[d].phase # "none"
  /\ check' = [check EXCEPT ![c] = [Unsent EXCEPT !.phase = "sent", !.form = form,
                                                  !.receipt = receipt]]
  /\ shown' = [Nothing EXCEPT !.status = "checking"]
  /\ UNCHANGED <<form, receipt, reading, anchored, setting, edits, faults>>

-----------------------------------------------------------------------------
(* The contract as the configured ABI reads it, and POST /api/verify.      *)

Anchor ==
  /\ anchored < Len(Batches) /\ anchored' = anchored + 1
  /\ UNCHANGED <<form, receipt, reading, shown, check, setting, edits, faults>>

\* The registry of ABI versions: method names, and the field of the root.
Registry ==
  [v1 |-> [batch |-> "get_batch", verify |-> "verify_receipt", root |-> "root"],
   v0 |-> [batch |-> "batch", verify |-> "verify", root |-> "merkle_root"]]
Known == configured \in DOMAIN Registry
Abi == Registry[configured]

\* decodeBatch: a root that is not hex where the version says is an error.
Decodes == Abi.root = deployed.root

\* getBatch succeeds: the version is registered, and the contract has its
\* method and the batch.
Readable(b) == Known /\ Abi.batch = deployed.batch /\ b <= anchored /\ Decodes

Faulted == faults < MaxFaults /\ faults' = faults + 1

Refuse(c) ==
  /\ check[c].phase = "sent"
  /\ check' = [check EXCEPT ![c].phase = "refused"]
  /\ \/ check[c].form.batch < 1 /\ UNCHANGED faults
     \/ ~Readable(check[c].form.batch) /\ UNCHANGED faults
     \/ Faulted
  /\ UNCHANGED <<form, receipt, reading, shown, anchored, setting, edits>>

\* Mutant of LocallyVerified: the root is taken from the proof itself.
LocallyTrusting(f, root) == \E r \in {root} \cup {f.leaf} : VerifyReceipt(f.leaf, f.proof, r)
LocallyVerified(f, root) == VerifyReceipt(f.leaf, f.proof, root)

ReadBatch(c) ==
  LET f == check[c].form IN
  /\ check[c].phase = "sent" /\ f.batch >= 1 /\ Readable(f.batch)
  /\ LET root == RootOf(Batches[f.batch]) IN
     check' = [check EXCEPT ![c].phase = "read", ![c].root = root,
                            ![c].local = LocallyVerified(f, root)]
  /\ UNCHANGED <<form, receipt, reading, shown, anchored, setting, edits, faults>>

\* The contract's own answer (null when it cannot be asked).
AskContract(c) ==
  LET f == check[c].form IN
  /\ check[c].phase = "read"
  /\ \/ /\ Abi.verify = deployed.verify /\ UNCHANGED faults
        /\ check' = [check EXCEPT ![c].phase = "answered",
             ![c].onchain = IF VerifyReceipt(f.leaf, f.proof, RootOf(Batches[f.batch]))
                            THEN "yes" ELSE "no"]
     \/ /\ (Abi.verify # deployed.verify /\ UNCHANGED faults) \/ Faulted
        /\ check' = [check EXCEPT ![c].phase = "answered", ![c].onchain = "null"]
  /\ UNCHANGED <<form, receipt, reading, shown, anchored, setting, edits>>

Verified(c) == check[c].local /\ check[c].onchain = "yes"
Disagreement(c) == check[c].onchain # "null" /\ check[c].local # (check[c].onchain = "yes")

-----------------------------------------------------------------------------
(* The answer on the page.                                                 *)

\* verifyPartySignature
SignatureStatus(leaf, party) ==
  CASE party = 0 -> "missing"
    [] party # 0 /\ ~engine -> "unsupported"
    [] party # 0 /\ engine -> IF party = leaf THEN "valid" ELSE "invalid"

\* Mutant of SignedLeaf: the leaf of the file, not the one that was checked.
LeafOfFile(c) == IF check[c].receipt.leaf # 0 THEN check[c].receipt.leaf ELSE check[c].form.leaf
\* The leaf signatures are checked over: the form's, not the file's.
SignedLeaf(c) == check[c].form.leaf

Show(c) ==
  /\ check[c].phase = "answered"
  /\ shown' = [status |-> "done", of |-> c,
               merchant |-> SignatureStatus(SignedLeaf(c), check[c].receipt.merchant),
               customer |-> SignatureStatus(SignedLeaf(c), check[c].receipt.customer)]
  /\ check' = [check EXCEPT ![c].phase = "over"]
  /\ UNCHANGED <<form, receipt, reading, anchored, setting, edits, faults>>

\* An answer that is not ok, or none at all.
ShowError(c) ==
  /\ \/ check[c].phase = "refused" /\ UNCHANGED faults
     \/ check[c].phase \in {"sent", "read", "answered"} /\ Faulted
  /\ shown' = [Nothing EXCEPT !.status = "error", !.of = c]
  /\ check' = [check EXCEPT ![c].phase = "over"]
  /\ UNCHANGED <<form, receipt, reading, anchored, setting, edits>>

\* buildAudit: "Cryptographically Verified".
Passed(status) == status \in {"valid", "missing"}
Audited == Verified(shown.of) /\ Passed(shown.merchant) /\ Passed(shown.customer)

\* The certificate may be downloaded.  It names the batch and the leaf of the
\* form as it stands now, beside the anchor and the checks of the answer shown.
Certified == shown.status = "done" /\ Audited
Certificate == [batch |-> form.batch, leaf |-> form.leaf, root |-> check[shown.of].root]

Next ==
  \/ \E r \in Receipts : Paste(r[1], r[2])
  \/ \E b \in 0 .. Len(Batches), leaf \in 1 .. Leaves - 1 : Type(b, leaf)
  \/ \E f \in Files : Drop(f) \/ FileRead(f)
  \/ \E c \in Checks : \/ Submit(c) \/ Refuse(c) \/ ReadBatch(c) \/ AskContract(c)
                       \/ Show(c) \/ ShowError(c)
  \/ Anchor
Spec == Init /\ [][Next]_vars

-----------------------------------------------------------------------------
\* What a verdict is about: the form as it stood when its check was submitted.
Asked == check[shown.of].form
Anchored(f) == f.batch \in 1 .. anchored /\ \E i \in DOMAIN Batches[f.batch] : Batches[f.batch][i] = f.leaf
GenuineForm(f) == f.batch \in DOMAIN Batches /\ \E i \in DOMAIN Batches[f.batch] : f = ReceiptForm(f.batch, i)

\* The certificate is right about the receipt it names.
Bears(c) == Anchored(c) /\ c.root = RootOf(Batches[c.batch])
\* The form still names the receipt that was checked.
StillAsked == form.batch = Asked.batch /\ form.leaf = Asked.leaf

\* Whatever is typed, dropped or submitted in the meantime: a verified receipt
\* is in the batch that was asked about, anchored; a certificate means that
\* every signature that came with that form is over its leaf, and it names a
\* receipt of the batch whose root it prints unless the form was typed over
\* since (then it names what the form says now, which nobody checked); a
\* genuine receipt the contract answered for is verified; and the two checks
\* never disagree.
VerdictsAreTrue ==
  shown.status = "done" =>
    /\ Verified(shown.of) => Anchored(Asked)
    /\ Certified => \A party \in {"merchant", "customer"} :
                      check[shown.of].receipt[party] \in {0, Asked.leaf}
    /\ Certified /\ StillAsked => Bears(Certificate)
    /\ GenuineForm(Asked) /\ check[shown.of].onchain # "null" => Verified(shown.of)
    /\ ~Disagreement(shown.of)

-----------------------------------------------------------------------------
(* The inductive invariant behind VerdictsAreTrue.                         *)
FormSet == [batch : Nat, leaf : {0} \cup 1 .. Leaves - 1, proof : Seq(Nat)]
ReceiptSet == [leaf : Nat, merchant : Nat, customer : Nat]
CheckSet == [phase : {"none", "sent", "refused", "read", "answered", "over"}, form : FormSet,
             receipt : ReceiptSet, root : Nat, local : BOOLEAN,
             onchain : {"none", "yes", "no", "null"}]

\* The receipt a form shows is in the tree of the batch it names.
Proves(f) == VerifyReceipt(f.leaf, f.proof, RootOf(Batches[f.batch]))

\* What was read from the contract, and what it answered, is right.
Looked(n, k) == /\ k.form.batch \in 1 .. n /\ k.root = RootOf(Batches[k.form.batch])
                /\ k.local <=> Proves(k.form)
Told(k) == k.onchain \in {"yes", "no", "null"}
           /\ (k.onchain # "null" => (k.onchain = "yes" <=> Proves(k.form)))

\* A signature that was passed is over the leaf, or there was none.
Signed(s, k) == /\ Passed(s.merchant) => k.receipt.merchant \in {0, k.form.leaf}
                /\ Passed(s.customer) => k.receipt.customer \in {0, k.form.leaf}

PageTypes ==
  /\ form \in FormSet /\ receipt \in ReceiptSet /\ reading \subseteq Files
  /\ anchored \in 0 .. Len(Batches) /\ engine \in BOOLEAN
  /\ check \in [Checks -> CheckSet]

CheckInv(n, k) ==
  /\ k.phase # "none" => k.form.leaf # 0
  /\ k.phase \in {"read", "answered"} => Looked(n, k)
  /\ k.phase = "answered" => Told(k)

VerdictInv ==
  /\ PageTypes
  /\ \A c \in Checks : CheckInv(anchored, check[c])
  /\ shown.status = "done" =>
       /\ shown.of \in Checks /\ check[shown.of].phase = "over"
       /\ Looked(anchored, check[shown.of]) /\ Told(check[shown.of]) /\ Signed(shown, check[shown.of])
=============================================================================
