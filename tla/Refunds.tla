------------------------------- MODULE Refunds -------------------------------
(****************************************************************************)
(* Refunding one payment from the dashboard: the panels of the payment's    *)
(* modal, the preflight route, the transaction the browser signs and sends, *)
(* and the mark the dashboard keeps in local storage.  A flow is one mount  *)
(* of a panel; it goes on when its modal is closed.  The vault contract is  *)
(* outside the repository: it refunds a payment once, while it is open      *)
(* (not paused, window and float suffice).                                  *)
(****************************************************************************)
EXTENDS Naturals, FiniteSets

CONSTANTS
  Flows,        \* mounts of a refund panel
  Vaults,       \* vault contracts
  DefaultVault, \* REFUND_VAULT_ID of the build
  VaultOf,      \* the vault configured for the merchant, or the default
  MaxPolls      \* polls of the confirmation before the panel gives up

RefundsAssumption ==
  /\ DefaultVault \in Vaults /\ VaultOf \in Vaults
  /\ MaxPolls \in Nat

VARIABLES
  role,     \* the role of the session: "admin" or "viewer"
  wallet,   \* does the panel see a connected wallet
  flow,     \* of each flow: its phase, the step of submitRefund, its verdict
  tx,       \* what became of the transaction of each flow
  vault,    \* of each vault: has it refunded the payment
  open,     \* of each vault: would it accept a refund it has not made
  marked,   \* is the payment in the dashboard's refunded set
  stored    \* and in local storage

vars == <<role, wallet, flow, tx, vault, open, marked, stored>>

Unmounted == [phase |-> "unmounted", shown |-> FALSE, step |-> "none",
              verdict |-> "none", polls |-> 0]
Mounted == [Unmounted EXCEPT !.phase = "idle", !.shown = TRUE]

Init ==
  /\ role \in {"admin", "viewer"} /\ wallet = FALSE
  /\ flow = [f \in Flows |-> Unmounted]
  /\ tx = [f \in Flows |-> "none"]
  /\ vault \in [Vaults -> BOOLEAN] /\ open = [v \in Vaults |-> TRUE]
  /\ marked = FALSE /\ stored = FALSE

(* The modal renders the panel once for those who may refund and once more  *)
(* for everybody.                                                           *)
PanelsOffered == IF role = "viewer" THEN 1 ELSE 2

OpenModal ==
  /\ \A f \in Flows : ~flow[f].shown
  /\ \E new \in SUBSET {f \in Flows : flow[f].phase = "unmounted"} :
       /\ Cardinality(new) = PanelsOffered
       /\ flow' = [f \in Flows |-> IF f \in new THEN Mounted ELSE flow[f]]
  /\ UNCHANGED <<role, wallet, tx, vault, open, marked, stored>>

CloseModal ==
  /\ \E f \in Flows : flow[f].shown
  /\ flow' = [f \in Flows |-> [flow[f] EXCEPT !.shown = FALSE]]
  /\ UNCHANGED <<role, wallet, tx, vault, open, marked, stored>>

(* readStatus every two seconds and on focus, or the connect button.        *)
SeeWallet ==
  /\ \E f \in Flows : flow[f].shown
  /\ wallet' = ~wallet
  /\ UNCHANGED <<role, flow, tx, vault, open, marked, stored>>

(* What each phase of the panel lets the merchant press.                    *)
Offers(f) ==
  IF ~(wallet /\ flow[f].shown) THEN {}
  ELSE CASE flow[f].phase = "idle" -> {"check"}
         [] flow[f].phase = "ready" /\ flow[f].verdict = "ok" -> {"confirm", "reset"}
         [] flow[f].phase = "ready" /\ flow[f].verdict \in {"rejected", "unknown"} -> {"check"}
         [] OTHER -> {}

Check(f) ==
  /\ "check" \in Offers(f)
  /\ flow' = [flow EXCEPT ![f].phase = "checking"]
  /\ UNCHANGED <<role, wallet, tx, vault, open, marked, stored>>

(* getRefund, which may fail, then the dry run: what the contract of the    *)
(* merchant answers now.                                                    *)
PreflightOutcomes ==
  LET dry == IF vault[VaultOf] \/ ~open[VaultOf] THEN "rejected" ELSE "ok"
  IN  {dry, "unknown"} \cup (IF vault[VaultOf] THEN {"existing"} ELSE {})

Answer(f) ==
  /\ flow[f].phase = "checking"
  /\ \/ /\ role = "admin"
        /\ \E v \in PreflightOutcomes :
             flow' = [flow EXCEPT ![f].phase = "ready", ![f].verdict = v]
     \/ flow' = [flow EXCEPT ![f].phase = "idle"]       \* 403 or no answer
  /\ UNCHANGED <<role, wallet, tx, vault, open, marked, stored>>

Reset(f) ==
  /\ "reset" \in Offers(f)
  /\ flow' = [flow EXCEPT ![f].phase = "idle"]
  /\ UNCHANGED <<role, wallet, tx, vault, open, marked, stored>>

Confirm(f) ==
  /\ "confirm" \in Offers(f)
  /\ flow' = [flow EXCEPT ![f].phase = "submitting", ![f].step = "prepare"]
  /\ UNCHANGED <<role, wallet, tx, vault, open, marked, stored>>

\* Mutant of Marks: everything the network took counts.
MarksTaken(outcome) == outcome # "failed"

(* onRefunded is called for a confirmed outcome alone.                      *)
Marks(outcome) == outcome = "confirmed"

(* The flow shows its outcome; markRefunded adds the payment to the set and *)
(* saves it, whether or not the panel is still there.                       *)
Outcome(f, outcome) ==
  /\ flow' = [flow EXCEPT ![f].phase = "done", ![f].step = "none", ![f].verdict = outcome]
  /\ marked' = (marked \/ Marks(outcome))
  /\ stored' = IF Marks(outcome) THEN TRUE ELSE stored

(* prepareTransaction simulates the call, on the vault of the build; the    *)
(* wallet signs or the merchant refuses.                                    *)
Prepare(f) ==
  /\ flow[f].step = "prepare"
  /\ \/ /\ open[DefaultVault] /\ ~vault[DefaultVault]
        /\ flow' = [flow EXCEPT ![f].step = "sign"]
        /\ UNCHANGED <<marked, stored>>
     \/ Outcome(f, "failed")
  /\ UNCHANGED <<role, wallet, tx, vault, open>>

Send(f) ==
  /\ flow[f].step = "sign"
  /\ \/ /\ flow' = [flow EXCEPT ![f].step = "poll"]
        /\ tx' = [tx EXCEPT ![f] = "sent"]
        /\ UNCHANGED <<marked, stored>>
     \/ /\ tx' \in {tx, [tx EXCEPT ![f] = "sent"]}     \* the call may have arrived
        /\ Outcome(f, "failed")
  /\ UNCHANGED <<role, wallet, vault, open>>

(* The chain runs a transaction that was sent, or lets it expire.           *)
Execute(f) ==
  /\ tx[f] = "sent"
  /\ \/ /\ open[DefaultVault] /\ ~vault[DefaultVault]
        /\ tx' = [tx EXCEPT ![f] = "SUCCESS"]
        /\ vault' = [vault EXCEPT ![DefaultVault] = TRUE]
     \/ /\ ~open[DefaultVault] \/ vault[DefaultVault]
        /\ tx' = [tx EXCEPT ![f] = "FAILED"] /\ UNCHANGED vault
     \/ tx' = [tx EXCEPT ![f] = "expired"] /\ UNCHANGED vault
  /\ UNCHANGED <<role, wallet, flow, open, marked, stored>>

(* waitForConfirmation.                                                     *)
Poll(f) ==
  /\ flow[f].step = "poll"
  /\ \/ tx[f] = "SUCCESS" /\ Outcome(f, "confirmed")
     \/ tx[f] = "FAILED" /\ Outcome(f, "failed")
     \/ /\ flow[f].polls < MaxPolls /\ tx[f] \notin {"SUCCESS", "FAILED"}
        /\ flow' = [flow EXCEPT ![f].polls = @ + 1] /\ UNCHANGED <<marked, stored>>
     \/ flow[f].polls = MaxPolls /\ Outcome(f, "pending")
     \/ Outcome(f, "failed")                             \* getTransaction throws
  /\ UNCHANGED <<role, wallet, tx, vault, open>>

(* The dashboard is loaded again: the set is read back from storage.        *)
Reload ==
  /\ marked' = stored
  /\ flow' = [f \in Flows |-> IF flow[f].phase = "unmounted" THEN flow[f]
                              ELSE [Unmounted EXCEPT !.phase = "gone"]]
  /\ UNCHANGED <<role, wallet, tx, vault, open, stored>>

(* The vault is paused, runs out of float, or its window closes.            *)
CloseVault(v) ==
  /\ open[v]
  /\ open' = [open EXCEPT ![v] = FALSE]
  /\ UNCHANGED <<role, wallet, flow, tx, vault, marked, stored>>

Step(f) == Check(f) \/ Answer(f) \/ Reset(f) \/ Confirm(f) \/ Prepare(f)
             \/ Send(f) \/ Execute(f) \/ Poll(f)

Next ==
  \/ OpenModal \/ CloseModal \/ SeeWallet \/ Reload
  \/ \E f \in Flows : Step(f)
  \/ \E v \in Vaults : CloseVault(v)

Spec == Init /\ [][Next]_vars

(****************************************************************************)
(* A payment the dashboard marks as refunded, on screen or in storage, was  *)
(* refunded by the vault the transaction went to, whichever of the two      *)
(* panels sent it and whether or not it was closed in between.              *)
(****************************************************************************)
MarkedWasRefunded == marked \/ stored => vault[DefaultVault]

(****************************************************************************)
(* "Saying failed here could prompt a second refund": a flow that has asked *)
(* for the confirmation of the transaction the network took, and says       *)
(* failed, has none that was or may still be carried out.  Fails when one   *)
(* of the later polls throws.                                               *)
(****************************************************************************)
FailedIsFinal ==
  \A f \in Flows :
    flow[f].phase = "done" /\ flow[f].verdict = "failed" /\ flow[f].polls > 0 =>
      tx[f] \notin {"sent", "SUCCESS"}

-----------------------------------------------------------------------------
(* The inductive invariant behind MarkedWasRefunded.                        *)
(* What the chain carried out the vault knows of. *)
CarriedOut ==
  /\ tx = [f \in Flows |-> tx[f]] /\ vault \in [Vaults -> BOOLEAN]
  /\ marked \in BOOLEAN /\ stored \in BOOLEAN
  /\ \A f \in Flows : tx[f] = "SUCCESS" => vault[DefaultVault]
==============================================================================
