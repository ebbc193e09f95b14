--------------------------- MODULE WebhookPromise ---------------------------
(***************************************************************************)
(* What the webhook and chat outboxes promise a merchant, whatever worker  *)
(* ships a row: a delivery is POSTed any number of times while it is open, *)
(* never again once it is settled, a delivered one stays delivered, and    *)
(* only an abandoned one can be reopened.                                  *)
(***************************************************************************)
EXTENDS Naturals

CONSTANT Deliveries     \* the (payment_tx_hash, url) pairs

VARIABLES outcome,      \* "unknown", "open", "delivered" or "abandoned"
          posts         \* POSTs made since the delivery was last opened

promiseVars == <<outcome, posts>>

PromiseInit == /\ outcome = [d \in Deliveries |-> "unknown"]
               /\ posts = [d \in Deliveries |-> 0]

Open(S) == /\ \A d \in S : outcome[d] \in {"unknown", "abandoned"}
           /\ outcome' = [d \in Deliveries |-> IF d \in S THEN "open" ELSE outcome[d]]
           /\ posts' = [d \in Deliveries |-> IF d \in S THEN 0 ELSE posts[d]]

Post(d) == /\ outcome[d] = "open"
           /\ posts' = [posts EXCEPT ![d] = @ + 1]
           /\ UNCHANGED outcome

Settle(d) == /\ outcome[d] = "open"
             /\ \E o \in {"delivered", "abandoned"} :
                  /\ o = "delivered" => posts[d] > 0
                  /\ outcome' = [outcome EXCEPT ![d] = o]
             /\ UNCHANGED posts

PromiseNext == \/ \E S \in SUBSET Deliveries : Open(S)
               \/ \E d \in Deliveries : Post(d) \/ Settle(d)

PromiseStep == PromiseNext \/ UNCHANGED promiseVars
PromiseSpec == PromiseInit /\ [][PromiseNext]_promiseVars
=============================================================================
