--------------------------- MODULE WebhookOutbox ----------------------------
(***************************************************************************)
(* The webhook_deliveries outbox (lib/webhooks/repository.ts, delivery.ts, *)
(* retry-policy.ts) and the workers that ship it: each call of GET         *)
(* /api/webhooks/deliver is a worker that resets stale claims, reads the   *)
(* due rows, claims them one by one, POSTs each and records the attempt in *)
(* two statements.  Workers overlap, run out of their 8 s budget, lose a   *)
(* statement or are killed; an administrator may requeue a dead letter.    *)
(*                                                                         *)
(* Time is three facts per row: whether next_retry_at has come (ripe),     *)
(* whether a claim is older than a minute (stale), whether the 24 h window *)
(* from created_at is over (expired).  The order in which a worker takes   *)
(* its rows is left open.                                                  *)
(***************************************************************************)
EXTENDS Naturals, FiniteSets

CONSTANTS Deliveries,     \* rows of webhook_deliveries
          Workers,        \* overlapping calls of the route
          MaxAttempts,    \* MAX_ATTEMPTS (8)
          Limit,          \* LIMIT of the due query (50)
          MaxFaults,      \* bound: kills and failed statements
          MaxRedeliveries \* bound: requeues by an administrator

OutboxAssumption ==
  /\ MaxAttempts \in Nat \ {0}
  /\ Limit \in Nat \ {0}
  /\ MaxFaults \in Nat /\ MaxRedeliveries \in Nat

VARIABLES status, attempts, ripe, stale, expired,  \* the rows
          worker,       \* the workers
          posts,        \* ghost: POSTs since the row was last (re)queued
          faults, redeliveries

rowVars == <<status, attempts, ripe, stale, expired>>
vars == <<status, attempts, ripe, stale, expired, worker, posts, faults,
          redeliveries>>

Status == {"absent", "pending", "delivering", "delivered", "dead_letter"}
Answers == {"ok", "retryable", "refused", "none"}
Snapshot == [id : Deliveries, attempts : Nat]
NoRow == [id |-> "no row", attempts |-> 0]

\* A worker between calls; `late` is Date.now() >= deadline.
Idle == [pc |-> "idle", due |-> {}, claimed |-> {}, row |-> NoRow,
         answer |-> "none", late |-> FALSE]

Init == /\ status = [d \in Deliveries |-> "absent"]
        /\ attempts = [d \in Deliveries |-> 0]
        /\ ripe = [d \in Deliveries |-> FALSE]
        /\ stale = [d \in Deliveries |-> FALSE]
        /\ expired = [d \in Deliveries |-> FALSE]
        /\ worker = [w \in Workers |-> Idle]
        /\ posts = [d \in Deliveries |-> 0]
        /\ faults = 0 /\ redeliveries = 0

----------------------------------------------------------------------------
(* The rows a live worker still has to send or record. *)
Held(w) == {r.id : r \in worker[w].claimed}
           \cup (IF worker[w].pc \in {"sent", "logged"} THEN {worker[w].row.id}
                 ELSE {})

(* The clocks.  A worker lives at most maxDuration = 30 s, so a claim turns *)
(* stale (1 minute) only when nobody holds it any more.                     *)
Ripen(d) == /\ status[d] = "pending" /\ ~ripe[d]
            /\ ripe' = [ripe EXCEPT ![d] = TRUE]
            /\ UNCHANGED <<status, attempts, stale, expired, worker, posts, faults,
                           redeliveries>>

MinutePasses(d) == /\ status[d] = "delivering" /\ ~stale[d]
                   /\ \A w \in Workers : d \notin Held(w)
                   /\ stale' = [stale EXCEPT ![d] = TRUE]
                   /\ UNCHANGED <<status, attempts, ripe, expired, worker, posts,
                                  faults, redeliveries>>

Expire(d) == /\ status[d] # "absent" /\ ~expired[d]
             /\ expired' = [expired EXCEPT ![d] = TRUE]
             /\ UNCHANGED <<status, attempts, ripe, stale, worker, posts, faults,
                            redeliveries>>

----------------------------------------------------------------------------
(* enqueueWebhookDelivery: INSERT ... ON CONFLICT DO NOTHING. *)
Enqueue(d) == /\ status[d] = "absent"
              /\ status' = [status EXCEPT ![d] = "pending"]
              /\ ripe' = [ripe EXCEPT ![d] = TRUE]
              /\ UNCHANGED <<attempts, stale, expired, worker, posts, faults,
                             redeliveries>>

\* Mutant of Requeueable: any row can be requeued.
AnySettled(d) == status[d] \in {"delivered", "dead_letter"}
Requeueable(d) == status[d] = "dead_letter"

(* requeueFailedDelivery: created_at, and so the window, is left alone. *)
Redeliver(d) == /\ redeliveries < MaxRedeliveries
                /\ Requeueable(d)
                /\ redeliveries' = redeliveries + 1
                /\ status' = [status EXCEPT ![d] = "pending"]
                /\ attempts' = [attempts EXCEPT ![d] = 0]
                /\ ripe' = [ripe EXCEPT ![d] = TRUE]
                /\ posts' = [posts EXCEPT ![d] = 0]
                /\ UNCHANGED <<stale, expired, worker, faults>>

----------------------------------------------------------------------------
Fault == faults < MaxFaults /\ faults' = faults + 1

\* Mutant of StaleClaim: a claim is never reset.
NoClaim(d) == FALSE
StaleClaim(d) == status[d] = "delivering" /\ stale[d]

ResetStale(w) ==
  /\ worker[w].pc = "idle"
  /\ status' = [d \in Deliveries |-> IF StaleClaim(d) THEN "pending" ELSE status[d]]
  /\ stale' = [d \in Deliveries |-> IF StaleClaim(d) THEN FALSE ELSE stale[d]]
  /\ worker' = [worker EXCEPT ![w].pc = "fetch"]
  /\ UNCHANGED <<attempts, ripe, expired, posts, faults, redeliveries>>

Due == {d \in Deliveries : status[d] = "pending" /\ ripe[d]}
Cut(S) == {T \in SUBSET S : \/ T = S /\ Cardinality(S) <= Limit
                            \/ Cardinality(S) > Limit /\ Cardinality(T) = Limit}

FetchDue(w) ==
  /\ worker[w].pc = "fetch"
  /\ \E T \in Cut(Due) :
       worker' = [worker EXCEPT ![w].pc = "claim",
         ![w].due = {[id |-> d, attempts |-> attempts[d]] : d \in T}]
  /\ UNCHANGED <<rowVars, posts, faults, redeliveries>>

\* Mutant of Claimable: the claim does not look at the status.
Unguarded(d) == TRUE
Claimable(d) == status[d] = "pending"

(* One claim of the loop; neither ripe nor attempts is looked at again. *)
Claim(w) ==
  /\ worker[w].pc = "claim"
  /\ \E r \in worker[w].due :
       IF Claimable(r.id)
       THEN /\ status' = [status EXCEPT ![r.id] = "delivering"]
            /\ stale' = [stale EXCEPT ![r.id] = FALSE]
            /\ worker' = [worker EXCEPT ![w].due = @ \ {r},
                                        ![w].claimed = @ \cup {r}]
       ELSE /\ worker' = [worker EXCEPT ![w].due = @ \ {r}]
            /\ UNCHANGED <<status, stale>>
  /\ UNCHANGED <<attempts, ripe, expired, posts, faults, redeliveries>>

(* A claim that throws is logged and the row skipped. *)
ClaimFails(w) ==
  /\ worker[w].pc = "claim" /\ Fault
  /\ \E r \in worker[w].due : worker' = [worker EXCEPT ![w].due = @ \ {r}]
  /\ UNCHANGED <<rowVars, posts, redeliveries>>

ClaimsDone(w) ==
  /\ worker[w].pc = "claim" /\ worker[w].due = {}
  /\ worker' = [worker EXCEPT ![w].pc = "work"]
  /\ UNCHANGED <<rowVars, posts, faults, redeliveries>>

(* requeueUnsent, for each row left once the budget is spent; the statement *)
(* may fail, which is only logged.                                          *)
RequeueUnsent(w) ==
  /\ worker[w].pc = "work"
  /\ \E r \in worker[w].claimed :
       /\ worker' = [worker EXCEPT ![w].late = TRUE, ![w].claimed = @ \ {r}]
       /\ \/ /\ status' = IF status[r.id] = "delivering"
                          THEN [status EXCEPT ![r.id] = "pending"] ELSE status
             /\ UNCHANGED faults
          \/ Fault /\ UNCHANGED status
  /\ UNCHANGED <<attempts, ripe, stale, expired, posts, redeliveries>>

Take(w, r, a) == worker' = [worker EXCEPT ![w].pc = "sent", ![w].row = r,
                              ![w].claimed = @ \ {r}, ![w].answer = a]

(* attemptDelivery: a POST that times out may have arrived all the same. *)
Send(w, d) ==
  /\ worker[w].pc = "work" /\ ~worker[w].late
  /\ \E r \in worker[w].claimed, a \in Answers : r.id = d /\ Take(w, r, a)
  /\ posts' = [posts EXCEPT ![d] = @ + 1]
  /\ UNCHANGED <<rowVars, faults, redeliveries>>

(* No WEBHOOK_SIGNING_KEY: nothing is sent, yet an attempt is recorded. *)
Refuse(w) ==
  /\ worker[w].pc = "work" /\ ~worker[w].late
  /\ \E r \in worker[w].claimed : Take(w, r, "none")
  /\ UNCHANGED <<rowVars, posts, faults, redeliveries>>

LogAttempt(w) ==
  /\ worker[w].pc = "sent"
  /\ worker' = [worker EXCEPT ![w].pc = "logged"]
  /\ UNCHANGED <<rowVars, posts, faults, redeliveries>>

(* shouldRetry and nextRetryAt: a retry may also fall past the window, by   *)
(* its backoff or by the Retry-After the endpoint asked for.                *)
ShouldRetry(a) == a \in {"retryable", "none"}
\* Mutant of NextStatus: the attempt number is not compared with the limit.
NextStatusEndless(a, n, d) == IF a = "ok" THEN {"delivered"}
                              ELSE IF ShouldRetry(a) THEN {"pending"} ELSE {"dead_letter"}
NextStatus(a, n, d) ==
  IF a = "ok" THEN {"delivered"}
  ELSE IF ShouldRetry(a) /\ n < MaxAttempts /\ ~expired[d]
       THEN {"pending", "dead_letter"} ELSE {"dead_letter"}

(* The UPDATE of persistAttempt, by id alone. *)
Persist(w) ==
  /\ worker[w].pc = "logged"
  /\ LET r == worker[w].row IN
     /\ \E s \in NextStatus(worker[w].answer, r.attempts + 1, r.id) :
          status' = [status EXCEPT ![r.id] = s]
     /\ attempts' = [attempts EXCEPT ![r.id] = r.attempts + 1]
     /\ ripe' = [ripe EXCEPT ![r.id] = FALSE]
     /\ stale' = [stale EXCEPT ![r.id] = FALSE]
  /\ worker' = [worker EXCEPT ![w].pc = "work", ![w].row = NoRow, ![w].answer = "none"]
  /\ UNCHANGED <<expired, posts, faults, redeliveries>>

(* Either statement of persistAttempt fails: logged, and the loop goes on. *)
PersistFails(w) ==
  /\ worker[w].pc \in {"sent", "logged"} /\ Fault
  /\ worker' = [worker EXCEPT ![w].pc = "work", ![w].row = NoRow, ![w].answer = "none"]
  /\ UNCHANGED <<rowVars, posts, redeliveries>>

Finish(w) ==
  /\ worker[w].pc = "work" /\ worker[w].claimed = {}
  /\ worker' = [worker EXCEPT ![w] = Idle]
  /\ UNCHANGED <<rowVars, posts, faults, redeliveries>>

(* The platform ends the call, or a query of its throws out of deliverDue. *)
Kill(w) ==
  /\ worker[w].pc # "idle" /\ Fault
  /\ worker' = [worker EXCEPT ![w] = Idle]
  /\ UNCHANGED <<rowVars, posts, redeliveries>>

WorkerStep(w) == \/ ResetStale(w) \/ FetchDue(w) \/ Claim(w) \/ ClaimsDone(w)
                 \/ RequeueUnsent(w) \/ (\E d \in Deliveries : Send(w, d))
                 \/ Refuse(w) \/ LogAttempt(w) \/ Persist(w) \/ Finish(w)

Next == \/ \E d \in Deliveries : \/ Enqueue(d) \/ Redeliver(d) \/ Ripen(d)
                                 \/ MinutePasses(d) \/ Expire(d)
        \/ \E w \in Workers : \/ WorkerStep(w) \/ ClaimFails(w)
                              \/ PersistFails(w) \/ Kill(w)

Spec == Init /\ [][Next]_vars

(* Cron keeps calling the route and a call runs on (WF); clocks move (WF);  *)
(* not every call spends its whole budget before it reaches a row (SF).     *)
Fairness == /\ \A w \in Workers : WF_vars(WorkerStep(w))
            /\ \A d \in Deliveries : /\ WF_vars(Ripen(d)) /\ WF_vars(MinutePasses(d))
                                     /\ SF_vars(\E w \in Workers : Send(w, d))
FairSpec == Spec /\ Fairness
----------------------------------------------------------------------------
(* The shape of the state; attempts never passes MAX_ATTEMPTS, because only *)
(* a row below it goes back to pending.                                     *)
TypeOK ==
  /\ status \in [Deliveries -> Status]
  /\ attempts \in [Deliveries -> 0 .. MaxAttempts]
  /\ ripe \in [Deliveries -> BOOLEAN] /\ stale \in [Deliveries -> BOOLEAN]
  /\ expired \in [Deliveries -> BOOLEAN]
  /\ DOMAIN worker = Workers
  /\ \A w \in Workers : /\ worker[w].pc \in {"idle", "fetch", "claim", "work", "sent", "logged"}
                        /\ \A r \in worker[w].due \cup worker[w].claimed :
                             r.id \in Deliveries /\ r.attempts < MaxAttempts
  /\ posts \in [Deliveries -> Nat]
  /\ faults \in 0 .. MaxFaults /\ redeliveries \in 0 .. MaxRedeliveries

(* Two workers never hold one row, so no delivery is POSTed by two of them  *)
(* at once and the unguarded UPDATE of persistAttempt cannot overwrite a    *)
(* newer result: claimDelivery's status guard is the only lock there is.    *)
OneSenderPerRow ==
  \A v, w \in Workers : v # w => Held(v) \cap Held(w) = {}

(* A row a worker holds is 'delivering': neither the stale reset nor a      *)
(* requeue takes it from under a worker that is still sending it.           *)
HeldRowsAreClaimed ==
  \A w \in Workers : \A d \in Held(w) : status[d] = "delivering" /\ ~stale[d]

(* The outbox keeps WebhookPromise: nothing is POSTed once it is settled,   *)
(* even by a worker that read the row while it was still due, and a         *)
(* delivered row was POSTed at least once and stays delivered.              *)
Outcome == [d \in Deliveries |->
              CASE status[d] = "absent" -> "unknown"
                [] status[d] = "delivered" -> "delivered"
                [] status[d] = "dead_letter" -> "abandoned"
                [] OTHER -> "open"]
Promise == INSTANCE WebhookPromise WITH outcome <- Outcome
KeepsPromise == Promise!PromiseSpec

(* Whatever workers die on the way, a queued delivery ends as delivered or  *)
(* as a dead letter the dashboard lists; none stays 'delivering' for good.  *)
Queued(d) == status[d] = "pending"
Settled(d) == status[d] \in {"delivered", "dead_letter"}
EventuallySettled == \A d \in Deliveries : Queued(d) ~> Settled(d)

(* What makes both hold on: a worker holds a row once, as a claim or as the *)
(* row it is sending.                                                       *)
HoldsOnce ==
  \A w \in Workers :
    /\ \A r, s \in worker[w].claimed : r.id = s.id => r = s
    /\ worker[w].pc \in {"sent", "logged"} =>
         \A r \in worker[w].claimed : r.id # worker[w].row.id
ClaimInv == HeldRowsAreClaimed /\ OneSenderPerRow /\ HoldsOnce

(* README.md: "Up to 8 attempts over 24 hours."  An attempt whose record    *)
(* was lost, or that a worker with an old snapshot numbers again, is not    *)
(* counted.                                                                 *)
AtMostMaxAttempts == \A d \in Deliveries : posts[d] <= MaxAttempts

(* README.md: "Exponential backoff with 25% jitter": a row is POSTed only   *)
(* once its next_retry_at has come.                                         *)
BackoffRespected ==
  [][\A d \in Deliveries : posts'[d] > posts[d] => ripe[d]]_vars
=============================================================================
