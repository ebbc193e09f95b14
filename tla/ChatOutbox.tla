----------------------------- MODULE ChatOutbox -----------------------------
(***************************************************************************)
(* The Telegram and Discord outbox (lib/notifications/chatNotifier.ts).    *)
(* The indexer enqueues a row per settlement and configured platform; each *)
(* call of the deliver route ships the due rows one by one.  Unlike the    *)
(* webhook outbox it never resets a claim, so a row whose worker dies      *)
(* between claim and record stays 'delivering': `orphan` remembers them.   *)
(***************************************************************************)
EXTENDS Naturals, FiniteSets

CONSTANTS Events,         \* dedupe keys of one event type (payment hashes)
          Platforms,
          Workers,
          MaxAttempts,    \* terminal at this many attempts (8)
          Limit,          \* LIMIT of the due query (10)
          MaxKills,       \* bound: workers ended in the middle
          MaxFaults,      \* bound: failed record statements
          MaxSaves        \* bound: changes of the merchant's settings

ChatAssumption ==
  /\ MaxAttempts \in Nat \ {0} /\ Limit \in Nat \ {0}
  /\ MaxKills \in Nat /\ MaxFaults \in Nat /\ MaxSaves \in Nat

Rows == Events \X Platforms

VARIABLES configured,   \* platforms with a complete configuration
          accepts,      \* event_filter accepts this event type
          status, attempts, ripe,   \* the rows; ripe: available_at <= now
          worker,
          posts,        \* ghost: messages sent for a row
          orphan,       \* ghost: rows whose claim lost its worker
          kills, faults, saves
vars == <<configured, accepts, status, attempts, ripe, worker, posts, orphan,
          kills, faults, saves>>

Idle == [pc |-> "idle", due |-> {}, row |-> <<>>, attempts |-> 0]

Init == /\ configured = Platforms /\ accepts = TRUE
        /\ status = [r \in Rows |-> "absent"]
        /\ attempts = [r \in Rows |-> 0]
        /\ ripe = [r \in Rows |-> FALSE]
        /\ worker = [w \in Workers |-> Idle]
        /\ posts = [r \in Rows |-> 0]
        /\ orphan = {}
        /\ kills = 0 /\ faults = 0 /\ saves = 0

RowsAlone == UNCHANGED <<status, attempts, ripe>>
SettingsAlone == UNCHANGED <<configured, accepts, saves>>

----------------------------------------------------------------------------
(* saveChatNotifierConfig, as it leaves the row. *)
SaveConfig ==
  /\ saves < MaxSaves /\ saves' = saves + 1
  /\ configured' \in SUBSET Platforms
  /\ accepts' \in BOOLEAN
  /\ UNCHANGED <<status, attempts, ripe, worker, posts, orphan, kills, faults>>

\* Mutant of Known: the UNIQUE key is gone and a repeated event queues anew.
NeverKnown(r) == FALSE
Known(r) == status[r] # "absent"

(* enqueueChatNotifications, called for whatever the indexer just booked,   *)
(* the same payment again after a rewind included.                          *)
Enqueue(e) ==
  /\ accepts /\ configured # {}
  /\ LET new == {r \in Rows : r[1] = e /\ r[2] \in configured /\ ~Known(r)} IN
     /\ new # {}
     /\ status' = [r \in Rows |-> IF r \in new THEN "pending" ELSE status[r]]
     /\ ripe' = [r \in Rows |-> r \in new \/ ripe[r]]
  /\ UNCHANGED <<attempts, worker, posts, orphan, kills, faults>> /\ SettingsAlone

Ripen(r) == /\ status[r] = "pending" /\ ~ripe[r]
            /\ ripe' = [ripe EXCEPT ![r] = TRUE]
            /\ UNCHANGED <<status, attempts, worker, posts, orphan, kills, faults>>
            /\ SettingsAlone

----------------------------------------------------------------------------
Due == {r \in Rows : status[r] = "pending" /\ ripe[r]}

FetchDue(w) ==
  /\ worker[w].pc = "idle" /\ Due # {}
  /\ \E S \in SUBSET Due :
       /\ IF Cardinality(Due) <= Limit THEN S = Due ELSE Cardinality(S) = Limit
       /\ worker' = [worker EXCEPT ![w].pc = "loop",
                       ![w].due = {<<r, attempts[r]>> : r \in S}]
  /\ RowsAlone /\ UNCHANGED <<posts, orphan, kills, faults>> /\ SettingsAlone

\* Mutant of Claimable: the claim does not look at the status.
Unguarded(r) == TRUE
Claimable(r) == status[r] = "pending"

Claim(w, x) ==
  /\ worker[w].pc = "loop" /\ x \in worker[w].due
  /\ IF Claimable(x[1])
     THEN /\ status' = [status EXCEPT ![x[1]] = "delivering"]
          /\ worker' = [worker EXCEPT ![w].pc = "claimed", ![w].due = @ \ {x},
                                      ![w].row = x[1], ![w].attempts = x[2]]
     ELSE /\ worker' = [worker EXCEPT ![w].due = @ \ {x}]
          /\ UNCHANGED status
  /\ UNCHANGED <<attempts, ripe, posts, orphan, kills, faults>> /\ SettingsAlone

(* The configuration is read anew; without it, or when the call fails or    *)
(* times out, the row goes to the catch block.                              *)
Dispatch(w) ==
  /\ worker[w].pc = "claimed"
  /\ LET r == worker[w].row IN
     \/ /\ r[2] \in configured
        /\ posts' = [posts EXCEPT ![r] = @ + 1]
        /\ \E outcome \in {"sent", "caught"} : worker' = [worker EXCEPT ![w].pc = outcome]
     \/ /\ r[2] \notin configured
        /\ worker' = [worker EXCEPT ![w].pc = "caught"]
        /\ UNCHANGED posts
  /\ RowsAlone /\ UNCHANGED <<orphan, kills, faults>> /\ SettingsAlone

DoneWith(w) == worker' = [worker EXCEPT ![w].pc = "loop", ![w].row = <<>>, ![w].attempts = 0]

MarkDelivered(w) ==
  /\ worker[w].pc = "sent"
  /\ LET r == worker[w].row IN
     /\ status' = [status EXCEPT ![r] = "delivered"]
     /\ attempts' = [attempts EXCEPT ![r] = @ + 1]
  /\ DoneWith(w)
  /\ UNCHANGED <<ripe, posts, orphan, kills, faults>> /\ SettingsAlone

(* The UPDATE to 'delivered' throws: the message is out, and the row goes   *)
(* to the catch block all the same.                                         *)
MarkFails(w) ==
  /\ worker[w].pc = "sent" /\ faults < MaxFaults /\ faults' = faults + 1
  /\ worker' = [worker EXCEPT ![w].pc = "caught"]
  /\ RowsAlone /\ UNCHANGED <<posts, orphan, kills>> /\ SettingsAlone

\* Mutant of Terminal: one attempt too many.
TerminalLate(n) == n > MaxAttempts
Terminal(n) == n >= MaxAttempts

Reschedule(w) ==
  /\ worker[w].pc = "caught"
  /\ LET r == worker[w].row
         n == worker[w].attempts + 1 IN
     /\ status' = [status EXCEPT ![r] = IF Terminal(n) THEN "failed" ELSE "pending"]
     /\ attempts' = [attempts EXCEPT ![r] = n]
     /\ ripe' = [ripe EXCEPT ![r] = FALSE]
  /\ DoneWith(w)
  /\ UNCHANGED <<posts, orphan, kills, faults>> /\ SettingsAlone

Finish(w) ==
  /\ worker[w].pc = "loop" /\ worker[w].due = {}
  /\ worker' = [worker EXCEPT ![w] = Idle]
  /\ RowsAlone /\ UNCHANGED <<posts, orphan, kills, faults>> /\ SettingsAlone

Holds(w) == IF worker[w].pc \in {"claimed", "sent", "caught"} THEN {worker[w].row} ELSE {}

(* The platform ends the call, or the UPDATE of the catch block throws. *)
Kill(w) ==
  /\ worker[w].pc # "idle" /\ kills < MaxKills /\ kills' = kills + 1
  /\ orphan' = orphan \cup Holds(w)
  /\ worker' = [worker EXCEPT ![w] = Idle]
  /\ RowsAlone /\ UNCHANGED <<posts, faults>> /\ SettingsAlone

WorkerStep(w) == \/ FetchDue(w) \/ (\E x \in worker[w].due : Claim(w, x))
                 \/ Dispatch(w) \/ MarkDelivered(w) \/ Reschedule(w) \/ Finish(w)

Next == \/ SaveConfig \/ (\E e \in Events : Enqueue(e)) \/ (\E r \in Rows : Ripen(r))
        \/ \E w \in Workers : WorkerStep(w) \/ MarkFails(w) \/ Kill(w)

Spec == Init /\ [][Next]_vars

(* Cron keeps calling the route and a call runs on; back-offs end. *)
FairSpec == /\ Spec
            /\ \A w \in Workers : WF_vars(WorkerStep(w))
            /\ \A r \in Rows : WF_vars(Ripen(r))
----------------------------------------------------------------------------
(* The shape of the state; no attempt is numbered above the limit, also     *)
(* with a snapshot older than another worker's record.                      *)
TypeOK ==
  /\ configured \subseteq Platforms /\ accepts \in BOOLEAN
  /\ status \in [Rows -> {"absent", "pending", "delivering", "delivered", "failed"}]
  /\ attempts \in [Rows -> 0 .. MaxAttempts]
  /\ \A r \in Rows : status[r] = "pending" => attempts[r] < MaxAttempts
  /\ ripe \in [Rows -> BOOLEAN] /\ posts \in [Rows -> Nat]
  /\ orphan \subseteq Rows
  /\ kills \in 0 .. MaxKills /\ faults \in 0 .. MaxFaults /\ saves \in 0 .. MaxSaves

(* A row is in one worker's hands or in none, and 'delivering' says so; a   *)
(* claim nobody holds is an orphan, and orphans come from kills only.       *)
ClaimsAreHeld ==
  /\ \A v, w \in Workers : v # w => Holds(v) \cap Holds(w) = {}
  /\ \A r \in Rows : status[r] = "delivering" <=>
                       r \in orphan \cup UNION {Holds(w) : w \in Workers}

(* The same promise as the webhook outbox: once a message is recorded as    *)
(* delivered or given up, nothing more is sent for it, the same payment     *)
(* booked again included, and a delivered one was sent.                     *)
Outcome == [r \in Rows |-> CASE status[r] = "absent" -> "unknown"
                             [] status[r] = "delivered" -> "delivered"
                             [] status[r] = "failed" -> "abandoned"
                             [] OTHER -> "open"]
Promise == INSTANCE WebhookPromise WITH Deliveries <- Rows, outcome <- Outcome
KeepsPromise == Promise!PromiseSpec

(* Every queued message ends, except those whose worker was killed with the *)
(* row in its hands: nothing ever frees these.                              *)
Queued(r) == status[r] = "pending"
Ended(r) == status[r] \in {"delivered", "failed"} \/ r \in orphan
EventuallyEnds == \A r \in Rows : Queued(r) ~> Ended(r)

-----------------------------------------------------------------------------
(* The inductive invariant behind ClaimsAreHeld and KeepsPromise.           *)

(* What the rows and the workers are made of.                               *)
Status == {"absent", "pending", "delivering", "delivered", "failed"}
Busy == {"claimed", "sent", "caught"}
Numbers == {n \in Nat : n < MaxAttempts}      \* attempts made so far
WState == [pc : {"idle", "loop"} \cup Busy, due : SUBSET (Rows \X Numbers),
           row : Rows \cup {<<>>}, attempts : Numbers]
Shape ==
  /\ status \in [Rows -> Status]
  /\ attempts \in [Rows -> Nat] /\ \A r \in Rows : attempts[r] <= MaxAttempts
  /\ ripe \in [Rows -> BOOLEAN]
  /\ posts \in [Rows -> Nat] /\ orphan \subseteq Rows
  /\ worker \in [Workers -> WState]
  /\ \A w \in Workers : worker[w].pc \in Busy => worker[w].row \in Rows
  /\ \A r \in Rows : status[r] \in {"absent", "pending", "delivering"} =>
                       attempts[r] < MaxAttempts

(* The settings, and the bounds of what may go wrong.                       *)
Bounded == /\ configured \subseteq Platforms /\ accepts \in BOOLEAN
           /\ kills \in 0 .. MaxKills /\ faults \in 0 .. MaxFaults
           /\ saves \in 0 .. MaxSaves

(* Delivering is what a worker has in its hands or lost with it, not both. *)
OneHand == \A v, w \in Workers : v # w => Holds(v) \cap Holds(w) = {}
Delivering == \A r \in Rows : status[r] = "delivering" <=>
                                r \in orphan \/ \E w \in Workers : r \in Holds(w)
LostForGood == \A w \in Workers : Holds(w) \cap orphan = {}

PostsInv ==
  /\ \A r \in Rows : status[r] = "absent" => posts[r] = 0
  /\ \A w \in Workers : worker[w].pc = "sent" => posts[worker[w].row] > 0

ChatInv == Shape /\ Bounded /\ OneHand /\ Delivering /\ LostForGood /\ PostsInv

(* Seen from the promise: nothing happened. *)
StaysOpen ==
  /\ posts' = posts
  /\ \A r \in Rows : \/ status'[r] = status[r]
                     \/ {status[r], status'[r]} \subseteq {"pending", "delivering"}

(* The invariant is kept, and the promise takes a step or stutters.         *)
Kept == ChatInv' /\ [Promise!PromiseNext]_(Promise!promiseVars)
=============================================================================
