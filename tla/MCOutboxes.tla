----------------------------- MODULE MCOutboxes ------------------------------
(****************************************************************************)
(* The two outboxes: webhook deliveries (the module extended, and the       *)
(* machine "row" with rows and attempts of its own), and chat messages.     *)
(* TLC starts in the initial states of each and stays with it.  What is     *)
(* proved of each outbox holds while its machine runs, whatever the rows,   *)
(* workers and bounds.                                                      *)
(****************************************************************************)
EXTENDS WebhookOutbox, TLAPS

VARIABLES machine, v1, v2, v3, v4, v5, v6, v7, v8, v9, v10, v11

CONSTANTS
  RowDeliveries, RowAttempts, RowLimit,    \* of the machine "row"
  ChatEvents, ChatPlatforms, ChatLimit, ChatAttempts,
  MaxKills, MaxSaves                       \* of the machine "chat"

Row == INSTANCE WebhookOutbox_proofs WITH
  Deliveries <- RowDeliveries, MaxAttempts <- RowAttempts, Limit <- RowLimit,
  status <- v1, attempts <- v2, ripe <- v3, stale <- v4, expired <- v5,
  worker <- v6, posts <- v7, faults <- v8, redeliveries <- v9
Chat == INSTANCE ChatOutbox WITH
  Events <- ChatEvents, Platforms <- ChatPlatforms,
  MaxAttempts <- ChatAttempts, Limit <- ChatLimit, configured <- v1,
  accepts <- v2, status <- v3, attempts <- v4, ripe <- v5, worker <- v6,
  posts <- v7, orphan <- v8, kills <- v9, faults <- v10, saves <- v11

ASSUME OutboxAssumption
ASSUME Row!OutboxAssumption
ASSUME Chat!ChatAssumption

inst == <<v1, v2, v3, v4, v5, v6, v7, v8, v9, v10, v11>>
all == <<machine, inst, vars>>

(* The variables a machine of so many does without. *)
No9 == v10 = 0 /\ v11 = 0
Keep9 == UNCHANGED <<v10, v11>>

Unused == v1 = 0 /\ v2 = 0 /\ v3 = 0 /\ v4 = 0 /\ v5 = 0 /\ v6 = 0 /\ v7 = 0
          /\ v8 = 0 /\ v9 = 0 /\ v10 = 0 /\ v11 = 0

MCInit ==
  \/ machine = "pair" /\ Init /\ Unused
  \/ machine = "row" /\ Row!Init /\ No9 /\ Init
  \/ machine = "chat" /\ Chat!Init /\ Init

MCNext ==
  \/ machine = "pair" /\ Next /\ UNCHANGED <<machine, inst>>
  \/ machine = "row" /\ Row!Next /\ Keep9 /\ UNCHANGED <<machine, vars>>
  \/ machine = "chat" /\ Chat!Next /\ UNCHANGED <<machine, vars>>

MCSafe == MCInit /\ [][MCNext]_all

(* The fairness of the modules, each for its own machine. *)
MCSpec ==
  /\ MCSafe
  /\ \A w \in Workers : WF_all(machine = "row" /\ Row!WorkerStep(w) /\ Keep9 /\ UNCHANGED <<machine, vars>>)
  /\ \A d \in RowDeliveries : WF_all(machine = "row" /\ Row!Ripen(d) /\ Keep9 /\ UNCHANGED <<machine, vars>>)
  /\ \A d \in RowDeliveries : WF_all(machine = "row" /\ Row!MinutePasses(d) /\ Keep9 /\ UNCHANGED <<machine, vars>>)
  /\ \A d \in RowDeliveries : SF_all(machine = "row" /\ (\E w \in Workers : Row!Send(w, d)) /\ Keep9 /\ UNCHANGED <<machine, vars>>)
  /\ \A w \in Workers : WF_all(machine = "chat" /\ Chat!WorkerStep(w) /\ UNCHANGED <<machine, vars>>)
  /\ \A r \in Chat!Rows : WF_all(machine = "chat" /\ Chat!Ripen(r) /\ UNCHANGED <<machine, vars>>)

ClaimsAreHeld == machine = "chat" => Chat!ClaimsAreHeld
RetriesKeepPromise ==
  /\ machine = "row" => Row!Promise!PromiseInit
  /\ machine = "chat" => Chat!Promise!PromiseInit
  /\ [][/\ machine = "row" => Row!Promise!PromiseStep
        /\ machine = "chat" => Chat!Promise!PromiseStep]_all
RowsAreSettled ==
  /\ \A d \in RowDeliveries :
       (machine = "row" /\ Row!Queued(d)) ~> (machine = "row" => Row!Settled(d))
  /\ \A r \in Chat!Rows :
       (machine = "chat" /\ Chat!Queued(r)) ~> (machine = "chat" => Chat!Ended(r))
------------------------------------------------------------------------------
(* The machine that was chosen stays, and steps as its module says. *)
LEMMA RowRuns == MCSafe /\ machine = "row" => Row!Spec /\ [](machine = "row")
<1>1. MCInit /\ machine = "row" => Row!Init
  BY DEF MCInit
<1>2. machine = "row" /\ [MCNext]_all => (machine = "row")' /\ [Row!Next]_(Row!vars)
  BY DEF MCNext, all, inst, Row!vars
<1>. QED BY <1>1, <1>2, PTL DEF MCSafe, Row!Spec

LEMMA ChatRuns == MCSafe /\ machine = "chat" => Chat!Spec /\ [](machine = "chat")
<1>1. MCInit /\ machine = "chat" => Chat!Init
  BY DEF MCInit
<1>2. machine = "chat" /\ [MCNext]_all => (machine = "chat")' /\ [Chat!Next]_(Chat!vars)
  BY DEF MCNext, all, inst, Chat!vars
<1>. QED BY <1>1, <1>2, PTL DEF MCSafe, Chat!Spec

LEMMA RowOrNot == MCSafe => []~(machine = "row") \/ [](machine = "row")
<1>1. ~(machine = "row") /\ [MCNext]_all => (~(machine = "row"))'
  BY DEF MCNext, all
<1>. QED BY <1>1, RowRuns, PTL DEF MCSafe

LEMMA ChatOrNot == MCSafe => []~(machine = "chat") \/ [](machine = "chat")
<1>1. ~(machine = "chat") /\ [MCNext]_all => (~(machine = "chat"))'
  BY DEF MCNext, all
<1>. QED BY <1>1, ChatRuns, PTL DEF MCSafe

-----------------------------------------------------------------------------
(* The chat outbox: besides the claims, its invariant says that a lost row  *)
(* is in nobody's hands (so nobody records it), that what a worker carries  *)
(* as sent was sent, and that a row on its way has an attempt left.  Its    *)
(* variables have their names in ChatOutbox, with the machine's before them.*)
chatConfigured == v1
chatAccepts == v2
chatStatus == v3
chatAttempts == v4
chatRipe == v5
chatWorker == v6
chatPosts == v7
chatOrphan == v8
chatKills == v9
chatFaults == v10
chatSaves == v11

USE DEF chatConfigured, chatAccepts, chatStatus, chatAttempts, chatRipe, chatWorker,
        chatPosts, chatOrphan, chatKills, chatFaults, chatSaves

(* A row that stays open is nothing to the promise.                         *)
LEMMA OpenStays ==
  ASSUME Chat!StaysOpen
  PROVE  UNCHANGED Chat!Promise!promiseVars
<1>1. \A r \in Chat!Rows : (CASE chatStatus'[r] = "absent" -> "unknown"
                         [] chatStatus'[r] = "delivered" -> "delivered"
                         [] chatStatus'[r] = "failed" -> "abandoned"
                         [] OTHER -> "open") =
                           (CASE chatStatus[r] = "absent" -> "unknown"
                         [] chatStatus[r] = "delivered" -> "delivered"
                         [] chatStatus[r] = "failed" -> "abandoned"
                         [] OTHER -> "open")
  BY DEF Chat!StaysOpen
<1>. QED BY <1>1 DEF Chat!StaysOpen, Chat!Promise!promiseVars, Chat!Outcome

(* A worker that is idle has nothing in its hands.                          *)
LEMMA IdleIsIdle == Chat!ChatAssumption => Chat!Idle \in Chat!WState /\ Chat!Idle.pc = "idle"
BY DEF Chat!ChatAssumption, Chat!WState, Chat!Idle, Chat!Numbers

(* A step of w that keeps what it has in its hands. *)
LEMMA SameHands ==
  ASSUME Chat!ChatAssumption, Chat!ChatInv, NEW w \in Workers, NEW x \in Chat!WState,
         chatWorker' = [chatWorker EXCEPT ![w] = x],
         IF x.pc \in Chat!Busy THEN chatWorker[w].pc \in Chat!Busy /\ x.row = chatWorker[w].row
                               ELSE chatWorker[w].pc \notin Chat!Busy,
         chatStatus' = chatStatus, chatAttempts' = chatAttempts, chatRipe' = chatRipe,
         chatOrphan' = chatOrphan, Chat!Bounded',
         chatPosts' \in [Chat!Rows -> Nat], \A r \in Chat!Rows : chatPosts'[r] >= chatPosts[r],
         \A r \in Chat!Rows : chatStatus[r] = "absent" => chatPosts'[r] = chatPosts[r],
         x.pc = "sent" => chatPosts'[x.row] > 0
  PROVE  Chat!ChatInv'
<1>1. /\ chatWorker' \in [Workers -> Chat!WState] /\ chatWorker'[w] = x
      /\ \A v \in Workers \ {w} : chatWorker'[v] = chatWorker[v]
  BY DEF Chat!ChatInv, Chat!Shape
<1>2. \A v \in Workers : Chat!Holds(v)' = Chat!Holds(v)
  BY <1>1 DEF Chat!Holds, Chat!Busy
<1>3. Chat!Shape'
  BY <1>1 DEF Chat!ChatInv, Chat!Shape
<1>4. Chat!OneHand' /\ Chat!Delivering' /\ Chat!LostForGood'
  BY <1>2 DEF Chat!ChatInv, Chat!OneHand, Chat!Delivering, Chat!LostForGood
<1>5. Chat!PostsInv'
  <2>1. ASSUME NEW v \in Workers, chatWorker'[v].pc = "sent"
        PROVE chatPosts'[chatWorker'[v].row] > 0
    <3>1. CASE v = w
      BY <1>1, <2>1, <3>1
    <3>2. CASE v # w
      <4>1. chatWorker'[v] = chatWorker[v] /\ chatWorker[v].row \in Chat!Rows
            /\ chatPosts[chatWorker[v].row] > 0
        BY <1>1, <2>1, <3>2 DEF Chat!ChatInv, Chat!Shape, Chat!PostsInv, Chat!Busy
      <4>. QED BY <4>1 DEF Chat!ChatInv, Chat!Shape
    <3>. QED BY <3>1, <3>2
  <2>. QED BY <2>1 DEF Chat!ChatInv, Chat!PostsInv
<1>. QED BY <1>3, <1>4, <1>5 DEF Chat!ChatInv

(* Reading the due rows, skipping one, ending; a catch block entered. *)
LEMMA QuietStep ==
  ASSUME Chat!ChatAssumption, Chat!ChatInv, NEW w \in Workers,
         Chat!FetchDue(w) \/ Chat!Finish(w) \/ Chat!MarkFails(w)
  PROVE  Chat!Kept
<1>1. chatWorker[w] \in Chat!WState /\ chatWorker \in [Workers -> Chat!WState]
      /\ chatPosts \in [Chat!Rows -> Nat]
  BY DEF Chat!ChatInv, Chat!Shape
<1>2. /\ chatStatus' = chatStatus /\ chatAttempts' = chatAttempts /\ chatRipe' = chatRipe
         /\ chatOrphan' = chatOrphan
      /\ chatPosts' = chatPosts /\ Chat!Bounded'
  <2>1. Chat!FetchDue(w) \/ Chat!Finish(w) =>
          UNCHANGED <<chatStatus, chatAttempts, chatRipe, chatOrphan, chatPosts, chatConfigured,
                                                         chatAccepts, chatKills, chatFaults,
                                                         chatSaves>>
    BY DEF Chat!FetchDue, Chat!Finish, Chat!RowsAlone, Chat!SettingsAlone
  <2>2. Chat!MarkFails(w) =>
        /\ UNCHANGED <<chatStatus, chatAttempts, chatRipe, chatOrphan, chatPosts, chatConfigured,
                                        chatAccepts, chatKills, chatSaves>>
                             /\ chatFaults < MaxFaults /\ chatFaults' = chatFaults + 1
    BY DEF Chat!MarkFails, Chat!RowsAlone, Chat!SettingsAlone
  <2>. QED BY <2>1, <2>2 DEF Chat!ChatInv, Chat!Bounded, Chat!ChatAssumption
<1>3. PICK x \in Chat!WState :
        /\ chatWorker' = [chatWorker EXCEPT ![w] = x]
        /\ x.pc # "sent"
        /\ IF x.pc \in Chat!Busy THEN chatWorker[w].pc \in Chat!Busy /\ x.row = chatWorker[w].row
                                 ELSE chatWorker[w].pc \notin Chat!Busy
  <2>1. CASE Chat!FetchDue(w)
    <3>1. PICK S \in SUBSET Chat!Due :
            chatWorker' = [chatWorker EXCEPT ![w].pc = "loop",
                                             ![w].due = {<<r, chatAttempts[r]>> : r \in S}]
      BY <2>1 DEF Chat!FetchDue
    <3> DEFINE D == {<<r, chatAttempts[r]>> : r \in S}
               x == [chatWorker[w] EXCEPT !.pc = "loop", !.due = D]
    <3>2. D \in SUBSET (Chat!Rows \X Chat!Numbers)
      <4>1. ASSUME NEW r \in S PROVE r \in Chat!Rows /\ chatAttempts[r] \in Chat!Numbers
        BY DEF Chat!Due, Chat!ChatInv, Chat!Shape, Chat!Numbers
      <4>. QED BY <4>1
    <3>3. chatWorker' = [chatWorker EXCEPT ![w] = x]
      BY <1>1, <3>1
    <3> HIDE DEF D
    <3>4. x \in Chat!WState /\ x.pc = "loop" /\ chatWorker[w].pc = "idle"
      BY <1>1, <2>1, <3>2 DEF Chat!WState, Chat!FetchDue
    <3>. QED BY <3>3, <3>4 DEF Chat!Busy
  <2>2. CASE Chat!Finish(w)
    <3>. QED BY <2>2, IdleIsIdle DEF Chat!Finish, Chat!Busy
  <2>3. CASE Chat!MarkFails(w)
    <3> DEFINE x == [chatWorker[w] EXCEPT !.pc = "caught"]
    <3>1. x \in Chat!WState /\ x.pc = "caught" /\ x.row = chatWorker[w].row
      BY <1>1 DEF Chat!WState, Chat!Busy
    <3>2. chatWorker' = [chatWorker EXCEPT ![w] = x] /\ chatWorker[w].pc = "sent"
      BY <1>1, <2>3 DEF Chat!MarkFails
    <3>. QED BY <3>1, <3>2 DEF Chat!Busy
  <2>. QED BY <2>1, <2>2, <2>3
<1>4. /\ chatPosts' \in [Chat!Rows -> Nat] /\ \A r \in Chat!Rows : chatPosts'[r] >= chatPosts[r]
      /\ \A r \in Chat!Rows : chatStatus[r] = "absent" => chatPosts'[r] = chatPosts[r]
  BY <1>1, <1>2
<1>5. Chat!ChatInv'
  BY <1>2, <1>3, <1>4, SameHands
<1>6. Chat!StaysOpen
  BY <1>2 DEF Chat!StaysOpen
<1>. QED BY <1>5, <1>6, OpenStays DEF Chat!Kept

(* A claim: the row was pending, so nobody's, and is now in w's hands. *)
LEMMA ClaimStep ==
  ASSUME Chat!ChatAssumption, Chat!ChatInv, NEW w \in Workers, NEW x \in chatWorker[w].due,
         Chat!Claim(w, x)
  PROVE  Chat!Kept
<1>1. /\ chatWorker[w] \in Chat!WState /\ chatWorker \in [Workers -> Chat!WState]
         /\ chatPosts \in [Chat!Rows -> Nat]
      /\ chatStatus \in [Chat!Rows -> Chat!Status] /\ chatWorker[w].pc = "loop"
      /\ x[1] \in Chat!Rows /\ x[2] \in Chat!Numbers
  BY DEF Chat!ChatInv, Chat!Shape, Chat!Claim, Chat!WState
<1>2. /\ chatAttempts' = chatAttempts /\ chatRipe' = chatRipe /\ chatOrphan' = chatOrphan
         /\ chatPosts' = chatPosts /\ Chat!Bounded'
  BY DEF Chat!Claim, Chat!SettingsAlone, Chat!ChatInv, Chat!Bounded
<1>3. CASE ~Chat!Claimable(x[1])
  <2> DEFINE y == [chatWorker[w] EXCEPT !.due = @ \ {x}]
  <2>1. y \in Chat!WState /\ y.pc = "loop"
    BY <1>1 DEF Chat!WState
  <2>2. chatWorker' = [chatWorker EXCEPT ![w] = y] /\ chatStatus' = chatStatus
    BY <1>1, <1>3 DEF Chat!Claim
  <2>3. /\ chatPosts' \in [Chat!Rows -> Nat] /\ \A r \in Chat!Rows : chatPosts'[r] >= chatPosts[r]
        /\ \A r \in Chat!Rows : chatStatus[r] = "absent" => chatPosts'[r] = chatPosts[r]
    BY <1>1, <1>2
  <2> HIDE DEF y
  <2>4. Chat!ChatInv'
    BY <1>1, <1>2, <2>1, <2>2, <2>3, SameHands DEF Chat!Busy
  <2>5. Chat!StaysOpen
    BY <1>2, <2>2 DEF Chat!StaysOpen
  <2>. QED BY <2>4, <2>5, OpenStays DEF Chat!Kept
<1>4. CASE Chat!Claimable(x[1])
  <2> DEFINE r == x[1]
             y == [chatWorker[w] EXCEPT !.pc = "claimed", !.due = @ \ {x}, !.row = r,
                                        !.attempts = x[2]]
  <2>1. y \in Chat!WState /\ y.pc = "claimed" /\ y.row = r
    BY <1>1 DEF Chat!WState, Chat!Busy
  <2>2. chatWorker' = [chatWorker EXCEPT ![w] = y]
        /\ chatStatus' = [chatStatus EXCEPT ![r] = "delivering"]
    BY <1>1, <1>4 DEF Chat!Claim
  <2>3. chatStatus[r] = "pending"
    BY <1>4 DEF Chat!Claimable
  <2> HIDE DEF y, r
  <2>4. /\ chatWorker' \in [Workers -> Chat!WState] /\ chatWorker'[w] = y /\ r \in Chat!Rows
        /\ \A v \in Workers \ {w} : chatWorker'[v] = chatWorker[v]
        /\ chatStatus' \in [Chat!Rows -> Chat!Status]
        /\ chatStatus'[r] = "delivering"
           /\ \A q \in Chat!Rows \ {r} : chatStatus'[q] = chatStatus[q]
    BY <1>1, <2>1, <2>2 DEF Chat!Status, r
  <2>5. /\ Chat!Holds(w) = {} /\ Chat!Holds(w)' = {r}
           /\ \A v \in Workers \ {w} : Chat!Holds(v)' = Chat!Holds(v)
    BY <1>1, <2>1, <2>4 DEF Chat!Holds, Chat!Busy
  <2>6. r \notin chatOrphan /\ \A v \in Workers : r \notin Chat!Holds(v)
    BY <2>3, <2>4 DEF Chat!ChatInv, Chat!Delivering
  <2>7. Chat!Shape'
    BY <1>2, <2>1, <2>3, <2>4 DEF Chat!ChatInv, Chat!Shape
  <2>8. Chat!OneHand' /\ Chat!LostForGood'
    BY <1>2, <2>5, <2>6 DEF Chat!ChatInv, Chat!OneHand, Chat!LostForGood
  <2>9. Chat!Delivering'
    BY <1>2, <2>4, <2>5, <2>6 DEF Chat!ChatInv, Chat!Delivering
  <2>10. Chat!PostsInv'
    BY <1>2, <2>1, <2>3, <2>4 DEF Chat!ChatInv, Chat!PostsInv
  <2>11. Chat!StaysOpen
    BY <1>2, <2>3, <2>4 DEF Chat!StaysOpen
  <2>. QED BY <1>2, <2>7, <2>8, <2>9, <2>10, <2>11, OpenStays DEF Chat!Kept, Chat!ChatInv
<1>. QED BY <1>3, <1>4

(* A message goes out, or the row goes to the catch block at once. *)
LEMMA DispatchStep ==
  ASSUME Chat!ChatAssumption, Chat!ChatInv, NEW w \in Workers, Chat!Dispatch(w)
  PROVE  Chat!Kept
<1> DEFINE r == chatWorker[w].row
<1>1. /\ chatWorker[w] \in Chat!WState /\ chatWorker \in [Workers -> Chat!WState]
         /\ chatPosts \in [Chat!Rows -> Nat]
      /\ chatWorker[w].pc = "claimed" /\ r \in Chat!Rows /\ r \in Chat!Holds(w)
  BY DEF Chat!ChatInv, Chat!Shape, Chat!Dispatch, Chat!Busy, Chat!Holds
<1>2. /\ chatStatus' = chatStatus /\ chatAttempts' = chatAttempts /\ chatRipe' = chatRipe
         /\ chatOrphan' = chatOrphan /\ Chat!Bounded'
  BY DEF Chat!Dispatch, Chat!RowsAlone, Chat!SettingsAlone, Chat!ChatInv, Chat!Bounded
<1>3. chatStatus[r] = "delivering"
  BY <1>1 DEF Chat!ChatInv, Chat!Delivering
<1>4. PICK o \in {"sent", "caught"} :
        /\ chatWorker' = [chatWorker EXCEPT ![w].pc = o]
        /\ \/ chatPosts' = [chatPosts EXCEPT ![r] = @ + 1]
           \/ o = "caught" /\ chatPosts' = chatPosts
  BY DEF Chat!Dispatch
<1> DEFINE y == [chatWorker[w] EXCEPT !.pc = o]
<1>5. y \in Chat!WState /\ y.pc = o /\ y.row = r /\ chatWorker' = [chatWorker EXCEPT ![w] = y]
  BY <1>1, <1>4 DEF Chat!WState, Chat!Busy
<1> HIDE DEF y
<1>6. /\ chatPosts' \in [Chat!Rows -> Nat] /\ \A q \in Chat!Rows : chatPosts'[q] >= chatPosts[q]
      /\ \A q \in Chat!Rows : chatStatus[q] = "absent" => chatPosts'[q] = chatPosts[q]
      /\ o = "sent" => chatPosts'[r] > 0
  BY <1>1, <1>3, <1>4
<1>7. Chat!ChatInv'
  BY <1>1, <1>2, <1>5, <1>6, SameHands DEF Chat!Busy
<1>8. CASE chatPosts' = chatPosts
  BY <1>2, <1>7, <1>8, OpenStays DEF Chat!Kept, Chat!StaysOpen
<1>9. CASE chatPosts' = [chatPosts EXCEPT ![r] = @ + 1]
  <2>1. Chat!Outcome[r] = "open" /\ Chat!Outcome' = Chat!Outcome
    BY <1>1, <1>2, <1>3 DEF Chat!Outcome
  <2>2. Chat!Promise!Post(r)
    BY <1>9, <2>1 DEF Chat!Promise!Post
  <2>. QED BY <1>1, <1>7, <2>2 DEF Chat!Kept, Chat!Promise!PromiseNext
<1>. QED BY <1>4, <1>8, <1>9

(* The record of w: the row leaves its hands and is settled or due again. *)
LEMMA RecordStep ==
  ASSUME Chat!ChatAssumption, Chat!ChatInv, NEW w \in Workers,
         Chat!MarkDelivered(w) \/ Chat!Reschedule(w)
  PROVE  Chat!Kept
<1> DEFINE r == chatWorker[w].row
           y == [chatWorker[w] EXCEPT !.pc = "loop", !.row = <<>>, !.attempts = 0]
<1>1. /\ chatWorker[w] \in Chat!WState /\ chatWorker \in [Workers -> Chat!WState]
         /\ chatPosts \in [Chat!Rows -> Nat]
      /\ chatStatus \in [Chat!Rows -> Chat!Status] /\ chatAttempts \in [Chat!Rows -> Nat]
         /\ chatRipe \in [Chat!Rows -> BOOLEAN]
      /\ chatWorker[w].pc \in {"sent", "caught"} /\ r \in Chat!Rows /\ Chat!Holds(w) = {r}
      /\ chatWorker[w].attempts \in Chat!Numbers
  BY DEF Chat!ChatInv, Chat!Shape, Chat!MarkDelivered, Chat!Reschedule, Chat!Busy, Chat!Holds,
     Chat!WState
<1>2. chatOrphan' = chatOrphan /\ chatPosts' = chatPosts /\ Chat!Bounded'
  BY DEF Chat!MarkDelivered, Chat!Reschedule, Chat!SettingsAlone, Chat!ChatInv, Chat!Bounded
<1>3. chatStatus[r] = "delivering" /\ r \notin chatOrphan
      /\ \A v \in Workers \ {w} : r \notin Chat!Holds(v)
  BY <1>1 DEF Chat!ChatInv, Chat!Delivering, Chat!LostForGood, Chat!OneHand
<1>4. y \in Chat!WState /\ y.pc = "loop"
  <2>1. 0 \in Chat!Numbers
    BY DEF Chat!Numbers, Chat!ChatAssumption
  <2>. QED BY <1>1, <2>1 DEF Chat!WState
<1>5. chatWorker' = [chatWorker EXCEPT ![w] = y]
  BY <1>1 DEF Chat!MarkDelivered, Chat!Reschedule, Chat!DoneWith
<1> HIDE DEF y
<1>6. PICK s \in {"delivered", "failed", "pending"}, n \in Nat, b \in BOOLEAN :
        /\ chatStatus' = [chatStatus EXCEPT ![r] = s]
           /\ chatAttempts' = [chatAttempts EXCEPT ![r] = n]
        /\ chatRipe' = [chatRipe EXCEPT ![r] = b]
        /\ n <= ChatAttempts /\ (s = "pending" => n < ChatAttempts)
        /\ s = "delivered" => chatWorker[w].pc = "sent"
  <2>1. CASE Chat!MarkDelivered(w)
    <3>1. chatAttempts[r] < ChatAttempts /\ chatAttempts[r] \in Nat
      BY <1>1, <1>3 DEF Chat!ChatInv, Chat!Shape
    <3>2. chatRipe' = [chatRipe EXCEPT ![r] = chatRipe[r]] /\ chatRipe[r] \in BOOLEAN
      BY <1>1, <2>1 DEF Chat!MarkDelivered
    <3> DEFINE n == chatAttempts[r] + 1
    <3>3. n \in Nat /\ n <= ChatAttempts
      BY <3>1 DEF Chat!ChatAssumption
    <3>4. /\ chatStatus' = [chatStatus EXCEPT ![r] = "delivered"] /\ chatWorker[w].pc = "sent"
          /\ chatAttempts' = [chatAttempts EXCEPT ![r] = n]
      BY <2>1 DEF Chat!MarkDelivered
    <3> HIDE DEF n
    <3>. QED BY <3>2, <3>3, <3>4
  <2>2. CASE Chat!Reschedule(w)
    <3> DEFINE n == chatWorker[w].attempts + 1
               s == IF Chat!Terminal(n) THEN "failed" ELSE "pending"
    <3>1. /\ n \in Nat /\ n <= ChatAttempts /\ (s = "pending" => n < ChatAttempts)
          /\ s \in {"failed", "pending"}
      BY <1>1 DEF Chat!Numbers, Chat!ChatAssumption, Chat!Terminal
    <3>2. /\ chatStatus' = [chatStatus EXCEPT ![r] = s]
             /\ chatAttempts' = [chatAttempts EXCEPT ![r] = n]
          /\ chatRipe' = [chatRipe EXCEPT ![r] = FALSE]
      BY <2>2 DEF Chat!Reschedule
    <3> HIDE DEF n, s
    <3>. QED BY <3>1, <3>2
  <2>. QED BY <2>1, <2>2
<1>7. /\ chatWorker' \in [Workers -> Chat!WState] /\ chatWorker'[w] = y
      /\ \A v \in Workers \ {w} : chatWorker'[v] = chatWorker[v]
      /\ chatStatus' \in [Chat!Rows -> Chat!Status] /\ chatAttempts' \in [Chat!Rows -> Nat]
      /\ chatRipe' \in [Chat!Rows -> BOOLEAN]
      /\ chatStatus'[r] = s /\ \A q \in Chat!Rows \ {r} : chatStatus'[q] = chatStatus[q]
      /\ chatAttempts'[r] = n /\ \A q \in Chat!Rows \ {r} : chatAttempts'[q] = chatAttempts[q]
  BY <1>1, <1>4, <1>5, <1>6 DEF Chat!Status
<1>8. Chat!Holds(w)' = {} /\ \A v \in Workers \ {w} : Chat!Holds(v)' = Chat!Holds(v)
  BY <1>4, <1>7 DEF Chat!Holds
<1>9. Chat!Shape'
  BY <1>2, <1>4, <1>6, <1>7 DEF Chat!ChatInv, Chat!Shape, Chat!Busy
<1>10. Chat!OneHand' /\ Chat!LostForGood'
  BY <1>2, <1>8 DEF Chat!ChatInv, Chat!OneHand, Chat!LostForGood
<1>11. Chat!Delivering'
  BY <1>1, <1>2, <1>3, <1>7, <1>8 DEF Chat!ChatInv, Chat!Delivering
<1>12. Chat!PostsInv'
  BY <1>2, <1>4, <1>7 DEF Chat!ChatInv, Chat!PostsInv
<1>13. Chat!ChatInv'
  BY <1>2, <1>9, <1>10, <1>11, <1>12 DEF Chat!ChatInv
<1>14. CASE s = "pending"
  <2>1. Chat!StaysOpen
    BY <1>2, <1>3, <1>7, <1>14 DEF Chat!StaysOpen
  <2>. QED BY <1>13, <2>1, OpenStays DEF Chat!Kept
<1>15. CASE s # "pending"
  <2> DEFINE o == IF s = "delivered" THEN "delivered" ELSE "abandoned"
  <2>1. s = "delivered" => chatPosts[r] > 0
    BY <1>6 DEF Chat!ChatInv, Chat!PostsInv
  <2>2. Chat!Outcome[r] = "open"
    BY <1>1, <1>3 DEF Chat!Outcome
  <2>3. Chat!Outcome' = [Chat!Outcome EXCEPT ![r] = o]
    BY <1>1, <1>6, <1>7, <1>15 DEF Chat!Outcome
  <2>4. o \in {"delivered", "abandoned"} /\ (o = "delivered" => chatPosts[r] > 0)
    BY <2>1
  <2>5. Chat!Promise!Settle(r)
    BY <1>2, <2>2, <2>3, <2>4 DEF Chat!Promise!Settle
  <2>. QED BY <1>1, <1>13, <2>5 DEF Chat!Kept, Chat!Promise!PromiseNext
<1>. QED BY <1>14, <1>15

(* A killed worker loses the row in its hands for good. *)
LEMMA KillStep ==
  ASSUME Chat!ChatAssumption, Chat!ChatInv, NEW w \in Workers, Chat!Kill(w)
  PROVE  Chat!Kept
<1>1. /\ chatWorker[w] \in Chat!WState /\ chatWorker \in [Workers -> Chat!WState]
      /\ chatWorker' = [chatWorker EXCEPT ![w] = Chat!Idle]
         /\ chatOrphan' = chatOrphan \cup Chat!Holds(w)
      /\ chatStatus' = chatStatus /\ chatAttempts' = chatAttempts /\ chatRipe' = chatRipe
         /\ chatPosts' = chatPosts
  BY DEF Chat!ChatInv, Chat!Shape, Chat!Kill, Chat!RowsAlone
<1>2. Chat!Bounded'
  BY DEF Chat!Kill, Chat!SettingsAlone, Chat!ChatInv, Chat!Bounded, Chat!ChatAssumption
<1>3. /\ chatWorker' \in [Workers -> Chat!WState] /\ chatWorker'[w] = Chat!Idle
      /\ \A v \in Workers \ {w} : chatWorker'[v] = chatWorker[v]
  BY <1>1, IdleIsIdle
<1>4. Chat!Holds(w)' = {} /\ \A v \in Workers \ {w} : Chat!Holds(v)' = Chat!Holds(v)
  BY <1>3, IdleIsIdle DEF Chat!Holds
<1>5. Chat!Holds(w) \subseteq Chat!Rows
  BY DEF Chat!ChatInv, Chat!Shape, Chat!Holds, Chat!Busy
<1>6. Chat!Shape'
  BY <1>1, <1>3, <1>5, IdleIsIdle DEF Chat!ChatInv, Chat!Shape, Chat!Busy
<1>7. Chat!OneHand' /\ Chat!LostForGood'
  BY <1>1, <1>4 DEF Chat!ChatInv, Chat!OneHand, Chat!LostForGood
<1>8. Chat!Delivering'
  BY <1>1, <1>4 DEF Chat!ChatInv, Chat!Delivering
<1>9. Chat!PostsInv'
  BY <1>1, <1>3, IdleIsIdle DEF Chat!ChatInv, Chat!PostsInv
<1>10. Chat!StaysOpen
  BY <1>1 DEF Chat!StaysOpen
<1>. QED BY <1>2, <1>6, <1>7, <1>8, <1>9, <1>10, OpenStays DEF Chat!Kept, Chat!ChatInv

(* A settlement is queued where it is not known yet; the promise opens it. *)
LEMMA EnqueueStep ==
  ASSUME Chat!ChatAssumption, Chat!ChatInv, NEW e \in ChatEvents, Chat!Enqueue(e)
  PROVE  Chat!Kept
<1> DEFINE new == {r \in Chat!Rows : r[1] = e /\ r[2] \in chatConfigured /\ ~Chat!Known(r)}
<1>1. /\ new \in SUBSET Chat!Rows /\ \A r \in new : chatStatus[r] = "absent"
      /\ chatStatus' = [r \in Chat!Rows |-> IF r \in new THEN "pending" ELSE chatStatus[r]]
      /\ chatRipe' = [r \in Chat!Rows |-> r \in new \/ chatRipe[r]]
      /\ chatAttempts' = chatAttempts /\ chatWorker' = chatWorker /\ chatPosts' = chatPosts
         /\ chatOrphan' = chatOrphan
  BY DEF Chat!Enqueue, Chat!Known
<1> HIDE DEF new
<1>2. Chat!Bounded'
  BY DEF Chat!Enqueue, Chat!SettingsAlone, Chat!ChatInv, Chat!Bounded
<1>3. /\ \A r \in Chat!Rows : chatStatus'[r] = IF r \in new THEN "pending" ELSE chatStatus[r]
      /\ chatStatus' \in [Chat!Rows -> Chat!Status] /\ chatRipe' \in [Chat!Rows -> BOOLEAN]
  BY <1>1 DEF Chat!ChatInv, Chat!Shape, Chat!Status
<1>4. \A w \in Workers : Chat!Holds(w)' = Chat!Holds(w)
  BY <1>1 DEF Chat!Holds
<1>5. Chat!Shape'
  BY <1>1, <1>3 DEF Chat!ChatInv, Chat!Shape
<1>6. Chat!OneHand' /\ Chat!LostForGood' /\ Chat!Delivering'
  BY <1>1, <1>3, <1>4 DEF Chat!ChatInv, Chat!OneHand, Chat!LostForGood, Chat!Delivering
<1>7. Chat!PostsInv'
  BY <1>1, <1>3 DEF Chat!ChatInv, Chat!PostsInv
<1>8. Chat!Promise!Open(new)
  <2>1. \A r \in new : Chat!Outcome[r] = "unknown"
    BY <1>1 DEF Chat!Outcome
  <2>2. Chat!Outcome' = [r \in Chat!Rows |-> IF r \in new THEN "open" ELSE Chat!Outcome[r]]
    BY <1>1, <1>3 DEF Chat!Outcome
  <2>3. chatPosts' = [r \in Chat!Rows |-> IF r \in new THEN 0 ELSE chatPosts[r]]
    BY <1>1 DEF Chat!ChatInv, Chat!Shape, Chat!PostsInv
  <2>. QED BY <2>1, <2>2, <2>3 DEF Chat!Promise!Open
<1>. QED BY <1>1, <1>2, <1>5, <1>6, <1>7, <1>8 DEF Chat!Kept, Chat!ChatInv, Chat!Promise!PromiseNext

(* Settings change, and back-offs end.                                      *)
LEMMA ClockStep ==
  ASSUME Chat!ChatAssumption, Chat!ChatInv,
         Chat!SaveConfig \/ (\E r \in Chat!Rows : Chat!Ripen(r)) \/ UNCHANGED Chat!vars
  PROVE  Chat!Kept
<1>1. /\ chatStatus' = chatStatus /\ chatAttempts' = chatAttempts /\ chatPosts' = chatPosts
         /\ chatOrphan' = chatOrphan
      /\ chatWorker' = chatWorker
  BY DEF Chat!SaveConfig, Chat!Ripen, Chat!vars
<1>2. chatRipe' \in [Chat!Rows -> BOOLEAN]
  BY DEF Chat!SaveConfig, Chat!Ripen, Chat!vars, Chat!ChatInv, Chat!Shape
<1>3. Chat!Bounded'
  BY DEF Chat!SaveConfig, Chat!Ripen, Chat!SettingsAlone, Chat!vars, Chat!ChatInv, Chat!Bounded,
     Chat!ChatAssumption
<1>4. \A w \in Workers : Chat!Holds(w)' = Chat!Holds(w)
  BY <1>1 DEF Chat!Holds
<1>5. Chat!ChatInv'
  BY <1>1, <1>2, <1>3, <1>4
     DEF Chat!ChatInv, Chat!Shape, Chat!OneHand, Chat!Delivering, Chat!LostForGood, Chat!PostsInv
<1>. QED BY <1>1, <1>5, OpenStays DEF Chat!Kept, Chat!StaysOpen

(* The invariant holds at first, and every step keeps it and the promise.   *)
LEMMA ChatInductive ==
  ASSUME Chat!ChatAssumption
  PROVE  /\ Chat!Init => Chat!ChatInv /\ Chat!Promise!PromiseInit
         /\ Chat!ChatInv /\ [Chat!Next]_(Chat!vars) => Chat!Kept
<1>1. ASSUME Chat!Init PROVE Chat!ChatInv /\ Chat!Promise!PromiseInit
  <2>1. \A w \in Workers : Chat!Holds(w) = {} /\ chatWorker[w] = Chat!Idle
    BY <1>1, IdleIsIdle DEF Chat!Init, Chat!Holds
  <2>2. Chat!Shape
    BY <1>1, <2>1, IdleIsIdle DEF Chat!Init, Chat!Shape, Chat!Status, Chat!Busy, Chat!ChatAssumption
  <2>3. Chat!Bounded
    BY <1>1 DEF Chat!Init, Chat!Bounded, Chat!ChatAssumption
  <2>4. Chat!OneHand /\ Chat!LostForGood /\ Chat!Delivering /\ Chat!PostsInv
    BY <1>1, <2>1, IdleIsIdle DEF Chat!Init, Chat!OneHand, Chat!LostForGood, Chat!Delivering,
                                  Chat!PostsInv
  <2>5. Chat!Promise!PromiseInit
    BY <1>1 DEF Chat!Init, Chat!Promise!PromiseInit, Chat!Outcome
  <2>. QED BY <2>2, <2>3, <2>4, <2>5 DEF Chat!ChatInv
<1>2. ASSUME Chat!ChatInv, [Chat!Next]_(Chat!vars) PROVE Chat!Kept
  BY <1>2, QuietStep, ClaimStep, DispatchStep, RecordStep, KillStep, EnqueueStep, ClockStep
     DEF Chat!Next, Chat!WorkerStep
<1>. QED BY <1>1, <1>2

(* No attempt is numbered above the limit, also with a snapshot older than  *)
(* another worker's record, and the rest of the type invariant.             *)
THEOREM AttemptsAreBounded ==
  ASSUME Chat!ChatAssumption
  PROVE  Chat!Spec => []Chat!TypeOK
<1>1. Chat!ChatInv => Chat!TypeOK
  BY DEF Chat!ChatInv, Chat!Shape, Chat!Bounded, Chat!TypeOK, Chat!Status, Chat!ChatAssumption
<1>. QED BY <1>1, ChatInductive, PTL DEF Chat!Spec, Chat!Kept

(* A row is in one worker's hands or in none, 'delivering' says so, and a   *)
(* claim nobody holds lost its worker to a kill.                            *)
THEOREM HandsHoldClaims ==
  ASSUME Chat!ChatAssumption
  PROVE  Chat!Spec => []Chat!ClaimsAreHeld
<1>1. Chat!ChatInv => Chat!ClaimsAreHeld
  BY DEF Chat!ChatInv, Chat!OneHand, Chat!Delivering, Chat!ClaimsAreHeld
<1>. QED BY <1>1, ChatInductive, PTL DEF Chat!Spec, Chat!Kept

(* The chat outbox implements the promise of the webhook outbox, the same   *)
(* payment booked again after a rewind included: the UNIQUE key knows it.   *)
THEOREM ChatPromiseIsKept ==
  ASSUME Chat!ChatAssumption
  PROVE  Chat!Spec => Chat!KeepsPromise
BY ChatInductive, PTL DEF Chat!Spec, Chat!Kept, Chat!KeepsPromise, Chat!Promise!PromiseSpec

-----------------------------------------------------------------------------
(* A chat message is in one worker's hands or in none, and a claim nobody   *)
(* holds lost its worker to a kill.                                         *)
THEOREM ChatClaimsHeld ==
  ASSUME Chat!ChatAssumption
  PROVE  MCSafe => []ClaimsAreHeld
<1>1. Chat!Spec => []Chat!ClaimsAreHeld
  BY HandsHoldClaims
<1>2. Chat!ClaimsAreHeld \/ ~(machine = "chat") => ClaimsAreHeld
  BY DEF ClaimsAreHeld
<1>. QED BY <1>1, <1>2, ChatRuns, ChatOrNot, PTL

(* Both outboxes keep the promise, retries, kills and redeliveries included. *)
THEOREM PromiseIsKeptByBoth ==
  ASSUME Chat!ChatAssumption
  PROVE  MCSafe => RetriesKeepPromise
<1>1. Row!Spec => Row!Promise!PromiseInit /\ [][Row!Promise!PromiseNext]_(Row!Promise!promiseVars)
  BY Row!PromiseIsKept DEF Row!KeepsPromise, Row!Promise!PromiseSpec
<1>2. Chat!Spec => Chat!Promise!PromiseInit /\ [][Chat!Promise!PromiseNext]_(Chat!Promise!promiseVars)
  BY ChatPromiseIsKept DEF Chat!KeepsPromise, Chat!Promise!PromiseSpec
<1>3. [Row!Promise!PromiseNext]_(Row!Promise!promiseVars) => Row!Promise!PromiseStep
  BY DEF Row!Promise!PromiseStep
<1>4. [Chat!Promise!PromiseNext]_(Chat!Promise!promiseVars) => Chat!Promise!PromiseStep
  BY DEF Chat!Promise!PromiseStep
<1>. QED
  BY <1>1, <1>2, <1>3, <1>4, RowRuns, ChatRuns, RowOrNot, ChatOrNot, PTL DEF RetriesKeepPromise
==============================================================================
