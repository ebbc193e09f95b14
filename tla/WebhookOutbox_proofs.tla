------------------------ MODULE WebhookOutbox_proofs ------------------------
(***************************************************************************)
(* Why the claim is a lock: for any rows, workers and bounds, no row is    *)
(* held by two workers, and what is held stays 'delivering'.  ClaimInv is  *)
(* inductive over the shape WShape; each action only takes rows out of     *)
(* what a worker holds, except Claim, whose row is pending and so in       *)
(* nobody's hands.                                                         *)
(***************************************************************************)
EXTENDS WebhookOutbox, TLAPS

Pc == {"idle", "fetch", "claim", "work", "sent", "logged"}
DueRow == [id : Deliveries, attempts : Nat]
WState == [pc : Pc, due : SUBSET DueRow, claimed : SUBSET DueRow,
           row : DueRow \cup {NoRow}, answer : Answers, late : BOOLEAN]

RowShape ==
  /\ status \in [Deliveries -> Status]
  /\ attempts \in [Deliveries -> Nat]
  /\ stale \in [Deliveries -> BOOLEAN]
WorkerShape ==
  /\ worker \in [Workers -> WState]
  /\ \A w \in Workers : worker[w].pc \in {"sent", "logged"} =>
                          worker[w].row \in DueRow
WShape == RowShape /\ WorkerShape

(* The initial state has the shape and holds nothing. *)
LEMMA InitClaim == Init => WShape /\ ClaimInv
<1>. SUFFICES ASSUME Init PROVE WShape /\ ClaimInv
  OBVIOUS
<1>1. Idle \in WState
  BY DEF Idle, WState, Pc, NoRow, Answers
<1>2. WShape
  BY <1>1 DEF Init, WShape, RowShape, WorkerShape, Status, Idle
<1>3. \A w \in Workers : Held(w) = {}
  BY DEF Init, Held, Idle
<1>4. HoldsOnce
  BY DEF Init, HoldsOnce, Idle
<1>. QED
  BY <1>2, <1>3, <1>4 DEF ClaimInv, HeldRowsAreClaimed, OneSenderPerRow

(* A step of worker w that leaves it in state x keeps the workers' shape. *)
LEMMA WorkerKeeps ==
  ASSUME WorkerShape, NEW w \in Workers, NEW x \in WState,
         x.pc \in {"sent", "logged"} => x.row \in DueRow,
         worker' = [worker EXCEPT ![w] = x]
  PROVE  WorkerShape'
BY DEF WorkerShape

(* Every step keeps the shape of the workers. *)
LEMMA WorkerShapeStep == WShape /\ [Next]_vars => WorkerShape'
<1>. SUFFICES ASSUME WShape, [Next]_vars PROVE WorkerShape'
  OBVIOUS
<1>0. WorkerShape /\ RowShape
  BY DEF WShape
<1>1. ASSUME UNCHANGED worker PROVE WorkerShape'
  BY <1>0, <1>1 DEF WorkerShape
<1>2. ASSUME NEW w \in Workers, WorkerStep(w) \/ ClaimFails(w) \/ PersistFails(w) \/ Kill(w)
      PROVE  WorkerShape'
  <2>. DEFINE y == worker[w]
  <2>1. /\ y \in WState
        /\ y.pc \in {"sent", "logged"} => y.row \in DueRow
        /\ worker \in [Workers -> WState]
    BY <1>0 DEF WorkerShape
  <2>2. CASE ResetStale(w)
    <3>. DEFINE x == [y EXCEPT !.pc = "fetch"]
    <3>1. x \in WState /\ x.pc = "fetch"
      BY <2>1 DEF WState, Pc
    <3>2. worker' = [worker EXCEPT ![w] = x]
      BY <2>1, <2>2 DEF ResetStale
    <3>. QED
      BY <1>0, <3>1, <3>2, WorkerKeeps
  <2>3. CASE FetchDue(w)
    <3>1. PICK T \in Cut(Due) :
            worker' = [worker EXCEPT ![w].pc = "claim",
              ![w].due = {[id |-> d, attempts |-> attempts[d]] : d \in T}]
      BY <2>3 DEF FetchDue
    <3>. DEFINE D == {[id |-> d, attempts |-> attempts[d]] : d \in T}
                x == [y EXCEPT !.pc = "claim", !.due = D]
    <3>2. D \in SUBSET DueRow
      BY <1>0 DEF Cut, Due, DueRow, RowShape
    <3>3. worker' = [worker EXCEPT ![w] = x]
      BY <2>1, <3>1
    <3>. HIDE DEF D
    <3>4. x \in WState /\ x.pc = "claim"
      BY <2>1, <3>2 DEF WState, Pc
    <3>. QED
      BY <1>0, <3>3, <3>4, WorkerKeeps
  <2>4. CASE Claim(w)
    <3>1. PICK r \in y.due :
            \/ worker' = [worker EXCEPT ![w].due = @ \ {r}, ![w].claimed = @ \cup {r}]
            \/ worker' = [worker EXCEPT ![w].due = @ \ {r}]
      BY <2>4 DEF Claim
    <3>2. \E x \in WState : /\ x.pc = y.pc /\ x.row = y.row
                            /\ worker' = [worker EXCEPT ![w] = x]
      <4>1. CASE worker' = [worker EXCEPT ![w].due = @ \ {r}, ![w].claimed = @ \cup {r}]
        <5>. DEFINE x == [y EXCEPT !.due = @ \ {r}, !.claimed = @ \cup {r}]
        <5>1. x \in WState /\ x.pc = y.pc /\ x.row = y.row
          BY <2>1 DEF WState
        <5>2. worker' = [worker EXCEPT ![w] = x]
          BY <2>1, <4>1
        <5>. QED
          BY <5>1, <5>2
      <4>2. CASE worker' = [worker EXCEPT ![w].due = @ \ {r}]
        <5>. DEFINE x == [y EXCEPT !.due = @ \ {r}]
        <5>1. x \in WState /\ x.pc = y.pc /\ x.row = y.row
          BY <2>1 DEF WState
        <5>2. worker' = [worker EXCEPT ![w] = x]
          BY <2>1, <4>2
        <5>. QED
          BY <5>1, <5>2
      <4>. QED
        BY <3>1, <4>1, <4>2
    <3>. QED
      BY <1>0, <2>1, <3>2, WorkerKeeps
  <2>5. CASE ClaimFails(w)
    <3>1. PICK r \in y.due : worker' = [worker EXCEPT ![w].due = @ \ {r}]
      BY <2>5 DEF ClaimFails
    <3>. DEFINE x == [y EXCEPT !.due = @ \ {r}]
    <3>2. x \in WState /\ x.pc = y.pc /\ x.row = y.row
      BY <2>1 DEF WState
    <3>3. worker' = [worker EXCEPT ![w] = x]
      BY <2>1, <3>1
    <3>. QED
      BY <1>0, <2>1, <3>2, <3>3, WorkerKeeps
  <2>6. CASE ClaimsDone(w)
    <3>. DEFINE x == [y EXCEPT !.pc = "work"]
    <3>1. x \in WState /\ x.pc = "work"
      BY <2>1 DEF WState, Pc
    <3>2. worker' = [worker EXCEPT ![w] = x]
      BY <2>1, <2>6 DEF ClaimsDone
    <3>. QED
      BY <1>0, <3>1, <3>2, WorkerKeeps
  <2>7. CASE RequeueUnsent(w)
    <3>1. PICK r \in y.claimed :
            worker' = [worker EXCEPT ![w].late = TRUE, ![w].claimed = @ \ {r}]
      BY <2>7 DEF RequeueUnsent
    <3>. DEFINE x == [y EXCEPT !.late = TRUE, !.claimed = @ \ {r}]
    <3>2. x \in WState /\ x.pc = y.pc /\ x.row = y.row
      BY <2>1 DEF WState
    <3>3. worker' = [worker EXCEPT ![w] = x]
      BY <2>1, <3>1
    <3>. QED
      BY <1>0, <2>1, <3>2, <3>3, WorkerKeeps
  <2>8. CASE Refuse(w) \/ \E d \in Deliveries : Send(w, d)
    <3>1. PICK r \in y.claimed, a \in Answers : Take(w, r, a)
      BY <2>8 DEF Refuse, Send, Answers
    <3>2. r \in DueRow
      BY <2>1 DEF WState
    <3>. DEFINE x == [y EXCEPT !.pc = "sent", !.row = r, !.claimed = @ \ {r}, !.answer = a]
    <3>3. x \in WState /\ x.row = r
      BY <2>1, <3>2 DEF WState, Pc
    <3>4. worker' = [worker EXCEPT ![w] = x]
      BY <2>1, <3>1 DEF Take
    <3>. QED
      BY <1>0, <3>2, <3>3, <3>4, WorkerKeeps
  <2>9. CASE LogAttempt(w)
    <3>. DEFINE x == [y EXCEPT !.pc = "logged"]
    <3>1. x \in WState /\ x.row = y.row
      BY <2>1 DEF WState, Pc
    <3>2. worker' = [worker EXCEPT ![w] = x] /\ y.row \in DueRow
      BY <2>1, <2>9 DEF LogAttempt
    <3>. QED
      BY <1>0, <3>1, <3>2, WorkerKeeps
  <2>10. CASE Persist(w) \/ PersistFails(w)
    <3>. DEFINE x == [y EXCEPT !.pc = "work", !.row = NoRow, !.answer = "none"]
    <3>1. x \in WState /\ x.pc = "work"
      BY <2>1 DEF WState, Pc, Answers
    <3>2. worker' = [worker EXCEPT ![w] = x]
      BY <2>1, <2>10 DEF Persist, PersistFails
    <3>. QED
      BY <1>0, <3>1, <3>2, WorkerKeeps
  <2>11. CASE Finish(w) \/ Kill(w)
    <3>1. Idle \in WState /\ Idle.pc = "idle"
      BY DEF Idle, WState, Pc, NoRow, Answers
    <3>2. worker' = [worker EXCEPT ![w] = Idle]
      BY <2>11 DEF Finish, Kill
    <3>. QED
      BY <1>0, <3>1, <3>2, WorkerKeeps
  <2>. QED
    BY <1>2, <2>2, <2>3, <2>4, <2>5, <2>6, <2>7, <2>8, <2>9, <2>10, <2>11 DEF WorkerStep
<1>. QED
  BY <1>1, <1>2 DEF Next, Enqueue, Redeliver, Ripen, MinutePasses, Expire, vars

(* Every step keeps the shape of the rows. *)
LEMMA RowShapeStep == WShape /\ [Next]_vars => RowShape'
<1>. SUFFICES ASSUME WShape, [Next]_vars PROVE RowShape'
  OBVIOUS
<1>0. WorkerShape /\ RowShape
  BY DEF WShape
<1>. USE DEF RowShape, Status
<1>1. ASSUME NEW d \in Deliveries,
             Enqueue(d) \/ Redeliver(d) \/ Ripen(d) \/ MinutePasses(d) \/ Expire(d)
      PROVE  RowShape'
  <2>1. {"pending", "delivering"} \subseteq Status
    OBVIOUS
  <2>. HIDE DEF Status
  <2>2. CASE Enqueue(d)
    BY <1>0, <2>1, <2>2 DEF Enqueue
  <2>3. CASE Redeliver(d)
    BY <1>0, <2>1, <2>3 DEF Redeliver
  <2>4. CASE Ripen(d) \/ Expire(d)
    BY <1>0, <2>4 DEF Ripen, Expire
  <2>5. CASE MinutePasses(d)
    BY <1>0, <2>5 DEF MinutePasses
  <2>. QED
    BY <1>1, <2>2, <2>3, <2>4, <2>5
<1>2. ASSUME NEW w \in Workers, ResetStale(w) \/ Claim(w) \/ RequeueUnsent(w)
      PROVE  RowShape'
  BY <1>0, <1>2 DEF ResetStale, Claim, RequeueUnsent
<1>3. ASSUME NEW w \in Workers, Persist(w) PROVE RowShape'
  <2>. DEFINE r == worker[w].row
  <2>1. r.attempts + 1 \in Nat /\ r.id \in Deliveries
    BY <1>0, <1>3 DEF Persist, WorkerShape, DueRow
  <2>2. PICK s \in NextStatus(worker[w].answer, r.attempts + 1, r.id) :
          status' = [status EXCEPT ![r.id] = s]
    BY <1>3 DEF Persist
  <2>3. s \in Status
    BY DEF NextStatus
  <2>4. attempts' = [attempts EXCEPT ![r.id] = r.attempts + 1]
        /\ stale' = [stale EXCEPT ![r.id] = FALSE]
    BY <1>3 DEF Persist
  <2>. QED
    BY <1>0, <2>1, <2>2, <2>3, <2>4
<1>4. ASSUME UNCHANGED <<status, attempts, stale>> PROVE RowShape'
  BY <1>0, <1>4
<1>. QED
  BY <1>1, <1>2, <1>3, <1>4 DEF Next, WorkerStep, FetchDue, ClaimFails, ClaimsDone, Send,
       Refuse, LogAttempt, PersistFails, Finish, Kill, rowVars, vars

LEMMA ShapeStep == WShape /\ [Next]_vars => WShape'
BY WorkerShapeStep, RowShapeStep DEF WShape

(* Steps that leave every worker's hands and the held rows alone. *)
LEMMA HandsAlone ==
  ASSUME WShape, ClaimInv, WShape',
         \A w \in Workers : /\ Held(w)' = Held(w)
                            /\ worker'[w].claimed = worker[w].claimed
                            /\ worker'[w].row = worker[w].row
                            /\ worker'[w].pc \in {"sent", "logged"} =>
                                 worker[w].pc \in {"sent", "logged"},
         \A w \in Workers : \A d \in Held(w) : status'[d] = status[d] /\ stale'[d] = stale[d]
  PROVE  ClaimInv'
BY DEF ClaimInv, HeldRowsAreClaimed, OneSenderPerRow, HoldsOnce

(* Steps that take row x out of worker w's hands, or none, and change the   *)
(* rows at most there.                                                      *)
LEMMA HandsShrink ==
  ASSUME WShape, ClaimInv, WShape', NEW w \in Workers, NEW x,
         \A v \in Workers \ {w} : worker'[v] = worker[v],
         x \in Held(w) \/ (status' = status /\ stale' = stale),
         Held(w)' \subseteq Held(w) \ {x},
         worker'[w].claimed \subseteq worker[w].claimed,
         worker'[w].pc \in {"sent", "logged"} =>
           \A r \in worker'[w].claimed : r.id # worker'[w].row.id,
         \A d \in Deliveries \ {x} : status'[d] = status[d] /\ stale'[d] = stale[d]
  PROVE  ClaimInv'
<1>1. \A v \in Workers : Held(v) \subseteq Deliveries
  BY DEF WShape, WorkerShape, Held, WState, DueRow
<1>2. \A v \in Workers \ {w} : Held(v)' = Held(v)
  BY DEF Held
<1>3. HeldRowsAreClaimed'
  <2>1. ASSUME NEW v \in Workers, NEW d \in Held(v)' PROVE status'[d] = "delivering" /\ ~stale'[d]
    <3>1. d \in Held(v) /\ d \in Deliveries
      BY <1>1, <1>2, <2>1
    <3>2. d # x \/ (status' = status /\ stale' = stale)
      BY <1>2, <2>1, <3>1 DEF ClaimInv, OneSenderPerRow
    <3>. QED
      BY <3>1, <3>2 DEF ClaimInv, HeldRowsAreClaimed
  <2>. QED
    BY <2>1 DEF HeldRowsAreClaimed
<1>4. OneSenderPerRow'
  BY <1>2 DEF ClaimInv, OneSenderPerRow
<1>5. HoldsOnce'
  BY DEF ClaimInv, HoldsOnce
<1>. QED
  BY <1>3, <1>4, <1>5 DEF ClaimInv
(* Every step keeps ClaimInv. *)
LEMMA ClaimStep == WShape /\ WShape' /\ ClaimInv /\ [Next]_vars => ClaimInv'
<1>. SUFFICES ASSUME WShape, WShape', ClaimInv, [Next]_vars PROVE ClaimInv'
  OBVIOUS
<1>1. ASSUME NEW d \in Deliveries,
             Enqueue(d) \/ Redeliver(d) \/ Ripen(d) \/ MinutePasses(d) \/ Expire(d)
      PROVE  ClaimInv'
  <2>1. worker' = worker
    BY <1>1 DEF Enqueue, Redeliver, Ripen, MinutePasses, Expire
  <2>2. ASSUME NEW w \in Workers, NEW e \in Held(w)
        PROVE status'[e] = status[e] /\ stale'[e] = stale[e]
    <3>1. status[e] = "delivering" /\ e \in Held(w)
      BY <2>2 DEF ClaimInv, HeldRowsAreClaimed
    <3>2. /\ e \in Deliveries
          /\ status \in [Deliveries -> Status] /\ stale \in [Deliveries -> BOOLEAN]
      BY <2>2 DEF WShape, RowShape, WorkerShape, Held, WState, DueRow
    <3>3. CASE MinutePasses(d)
      <4>1. d # e
        BY <3>1, <3>3 DEF MinutePasses
      <4>. QED
        BY <3>2, <3>3, <4>1 DEF MinutePasses
    <3>4. CASE Enqueue(d) \/ Redeliver(d)
      <4>1. d # e
        BY <3>1, <3>4 DEF Enqueue, Redeliver, Requeueable
      <4>. QED
        BY <3>2, <3>4, <4>1 DEF Enqueue, Redeliver
    <3>. QED
      BY <1>1, <3>3, <3>4 DEF Ripen, Expire
  <2>3. \A w \in Workers : Held(w)' = Held(w)
    BY <2>1 DEF Held
  <2>. QED
    BY <2>1, <2>2, <2>3, HandsAlone
<1>2. ASSUME NEW w \in Workers,
             WorkerStep(w) \/ ClaimFails(w) \/ PersistFails(w) \/ Kill(w)
      PROVE  ClaimInv'
  <2>. DEFINE y == worker[w]
  <2>0. y \in WState /\ worker \in [Workers -> WState] /\ Held(w) \subseteq Deliveries
    BY DEF WShape, WorkerShape, Held, WState, DueRow
  <2>1. CASE ResetStale(w)
    <3>1. worker' = [worker EXCEPT ![w].pc = "fetch"] /\ y.pc = "idle"
      BY <2>1 DEF ResetStale
    <3>2. /\ \A v \in Workers \ {w} : worker'[v] = worker[v]
          /\ worker'[w].claimed = y.claimed /\ worker'[w].row = y.row
          /\ worker'[w].pc = "fetch"
      BY <2>0, <3>1 DEF WState
    <3>5. \A v \in Workers : Held(v)' = Held(v)
      BY <3>1, <3>2 DEF Held
    <3>3. ASSUME NEW v \in Workers, NEW d \in Held(v)
          PROVE status'[d] = status[d] /\ stale'[d] = stale[d]
      <4>1. ~StaleClaim(d) /\ d \in Deliveries
        BY <3>3 DEF ClaimInv, HeldRowsAreClaimed, StaleClaim, WShape, WorkerShape, Held,
                    WState, DueRow
      <4>2. status'[d] = IF StaleClaim(d) THEN "pending" ELSE status[d]
        BY <2>1, <4>1 DEF ResetStale
      <4>3. stale'[d] = IF StaleClaim(d) THEN FALSE ELSE stale[d]
        BY <2>1, <4>1, Zenon DEF ResetStale
      <4>. QED
        BY <4>1, <4>2, <4>3
    <3>4. \A v \in Workers : \A d \in Held(v) : status'[d] = status[d] /\ stale'[d] = stale[d]
      BY <3>3
    <3>. QED
      BY <3>2, <3>4, <3>5, HandsAlone
  <2>2. CASE FetchDue(w) \/ ClaimFails(w) \/ ClaimsDone(w)
    <3>1. /\ \A v \in Workers \ {w} : worker'[v] = worker[v]
          /\ worker'[w].claimed = y.claimed /\ worker'[w].row = y.row
          /\ worker'[w].pc \notin {"sent", "logged"} /\ y.pc \notin {"sent", "logged"}
          /\ status' = status /\ stale' = stale
      BY <2>0, <2>2 DEF FetchDue, ClaimFails, ClaimsDone, WState, rowVars
    <3>2. \A v \in Workers : Held(v)' = Held(v)
      BY <3>1 DEF Held
    <3>. QED
      BY <3>1, <3>2, HandsAlone
  <2>3. CASE Claim(w)
    <3>1. PICK r \in y.due :
            IF Claimable(r.id)
            THEN /\ status' = [status EXCEPT ![r.id] = "delivering"]
                 /\ stale' = [stale EXCEPT ![r.id] = FALSE]
                 /\ worker' = [worker EXCEPT ![w].due = @ \ {r},
                                             ![w].claimed = @ \cup {r}]
            ELSE /\ worker' = [worker EXCEPT ![w].due = @ \ {r}]
                 /\ UNCHANGED <<status, stale>>
      BY <2>3 DEF Claim
    <3>2. y.pc = "claim"
      BY <2>3 DEF Claim
    <3>3. CASE ~Claimable(r.id)
      <4>1. worker' = [worker EXCEPT ![w].due = @ \ {r}] /\ status' = status /\ stale' = stale
        BY <3>1, <3>3
      <4>2. /\ \A v \in Workers \ {w} : worker'[v] = worker[v]
            /\ worker'[w].claimed = y.claimed /\ worker'[w].row = y.row
            /\ worker'[w].pc = y.pc
        BY <2>0, <4>1 DEF WState
      <4>3. \A v \in Workers : Held(v)' = Held(v)
        BY <4>2 DEF Held
      <4>. QED
        BY <4>1, <4>2, <4>3, HandsAlone
    <3>4. CASE Claimable(r.id)
      <4>1. /\ status' = [status EXCEPT ![r.id] = "delivering"]
            /\ stale' = [stale EXCEPT ![r.id] = FALSE]
            /\ worker' = [worker EXCEPT ![w].due = @ \ {r}, ![w].claimed = @ \cup {r}]
        BY <3>1, <3>4
      <4>2. /\ \A v \in Workers \ {w} : worker'[v] = worker[v]
            /\ worker'[w].claimed = y.claimed \cup {r}
            /\ worker'[w].pc = "claim"
        BY <2>0, <3>2, <4>1 DEF WState
      <4>3. \A v \in Workers : r.id \notin Held(v)
        BY <3>4 DEF Claimable, ClaimInv, HeldRowsAreClaimed
      <4>4. /\ \A v \in Workers \ {w} : Held(v)' = Held(v)
            /\ Held(w)' = Held(w) \cup {r.id}
        BY <3>2, <4>2 DEF Held
      <4>5. \A v \in Workers : Held(v) \subseteq Deliveries
        BY DEF WShape, WorkerShape, Held, WState, DueRow
      <4>6. r.id \in Deliveries
        BY <2>0 DEF WState, DueRow
      <4>7. OneSenderPerRow'
        BY <4>3, <4>4 DEF ClaimInv, OneSenderPerRow
      <4>8. HeldRowsAreClaimed'
        BY <4>1, <4>3, <4>4, <4>5, <4>6
           DEF ClaimInv, HeldRowsAreClaimed, WShape, RowShape
      <4>9. HoldsOnce'
        <5>1. \A q \in y.claimed : q.id \in Held(w)
          BY DEF Held
        <5>. QED
          BY <4>2, <4>3, <5>1 DEF ClaimInv, HoldsOnce
      <4>. QED
        BY <4>7, <4>8, <4>9 DEF ClaimInv
    <3>. QED
      BY <3>3, <3>4
  <2>4. CASE RequeueUnsent(w)
    <3>1. PICK r \in y.claimed :
            /\ worker' = [worker EXCEPT ![w].late = TRUE, ![w].claimed = @ \ {r}]
            /\ status' \in {status, [status EXCEPT ![r.id] = "pending"]}
      BY <2>4 DEF RequeueUnsent
    <3>2. y.pc = "work" /\ stale' = stale
      BY <2>4 DEF RequeueUnsent
    <3>3. /\ \A v \in Workers \ {w} : worker'[v] = worker[v]
          /\ worker'[w].claimed = y.claimed \ {r} /\ worker'[w].pc = "work"
      BY <2>0, <3>1, <3>2 DEF WState
    <3>4. Held(w)' \subseteq Held(w) \ {r.id} /\ r.id \in Held(w)
      BY <3>2, <3>3 DEF Held, ClaimInv, HoldsOnce
    <3>5. \A d \in Deliveries \ {r.id} : status'[d] = status[d] /\ stale'[d] = stale[d]
      BY <3>1, <3>2 DEF WShape, RowShape
    <3>. QED
      BY <3>3, <3>4, <3>5, HandsShrink
  <2>5. CASE Refuse(w) \/ \E d \in Deliveries : Send(w, d)
    <3>1. PICK r \in y.claimed, a \in Answers : Take(w, r, a)
      BY <2>5 DEF Refuse, Send, Answers
    <3>2. y.pc = "work" /\ status' = status /\ stale' = stale
      BY <2>5 DEF Refuse, Send, rowVars
    <3>3. /\ \A v \in Workers \ {w} : worker'[v] = worker[v]
          /\ worker'[w].claimed = y.claimed \ {r} /\ worker'[w].pc = "sent"
          /\ worker'[w].row = r
      BY <2>0, <3>1 DEF Take, WState
    <3>4. /\ \A v \in Workers \ {w} : Held(v)' = Held(v)
          /\ Held(w)' = Held(w)
      BY <3>2, <3>3 DEF Held
    <3>5. HoldsOnce'
      BY <3>3 DEF ClaimInv, HoldsOnce
    <3>. QED
      BY <3>2, <3>4, <3>5 DEF ClaimInv, OneSenderPerRow, HeldRowsAreClaimed
  <2>6. CASE LogAttempt(w)
    <3>1. /\ \A v \in Workers \ {w} : worker'[v] = worker[v]
          /\ worker'[w].claimed = y.claimed /\ worker'[w].row = y.row
          /\ worker'[w].pc = "logged" /\ y.pc = "sent"
          /\ status' = status /\ stale' = stale
      BY <2>0, <2>6 DEF LogAttempt, WState, rowVars
    <3>2. \A v \in Workers : Held(v)' = Held(v)
      BY <3>1 DEF Held
    <3>. QED
      BY <3>1, <3>2, HandsAlone
  <2>7. CASE Persist(w) \/ PersistFails(w)
    <3>. DEFINE r == y.row
    <3>1. /\ \A v \in Workers \ {w} : worker'[v] = worker[v]
          /\ worker'[w].claimed = y.claimed /\ worker'[w].pc = "work"
          /\ y.pc \in {"sent", "logged"}
      BY <2>0, <2>7 DEF Persist, PersistFails, WState
    <3>2. r.id \in Held(w) /\ Held(w)' \subseteq Held(w) \ {r.id}
      BY <3>1 DEF Held, ClaimInv, HoldsOnce
    <3>3. \A d \in Deliveries \ {r.id} : status'[d] = status[d] /\ stale'[d] = stale[d]
      BY <2>7 DEF Persist, PersistFails, WShape, RowShape, rowVars
    <3>. QED
      BY <3>1, <3>2, <3>3, HandsShrink
  <2>8. CASE Finish(w) \/ Kill(w)
    <3>1. worker' = [worker EXCEPT ![w] = Idle] /\ status' = status /\ stale' = stale
      BY <2>8 DEF Finish, Kill, rowVars
    <3>2. /\ \A v \in Workers \ {w} : worker'[v] = worker[v]
          /\ worker'[w].claimed = {} /\ worker'[w].pc = "idle"
      BY <2>0, <3>1 DEF Idle
    <3>3. /\ Held(w)' = {}
          /\ \A v \in Workers \ {w} : Held(v)' = Held(v)
      BY <3>2 DEF Held
    <3>4. HoldsOnce'
      BY <3>2 DEF ClaimInv, HoldsOnce
    <3>. QED
      BY <3>1, <3>3, <3>4 DEF ClaimInv, OneSenderPerRow, HeldRowsAreClaimed
  <2>. QED
    BY <1>2, <2>1, <2>2, <2>3, <2>4, <2>5, <2>6, <2>7, <2>8 DEF WorkerStep
<1>3. CASE UNCHANGED vars
  BY <1>3 DEF vars, ClaimInv, HeldRowsAreClaimed, OneSenderPerRow, HoldsOnce, Held
<1>. QED
  BY <1>1, <1>2, <1>3 DEF Next

(* No two workers ever hold the same delivery, whatever the number of rows, *)
(* of overlapping calls, of kills and of failed statements: claimDelivery's *)
(* guard on the status is lock enough.                                      *)
THEOREM OneSender == Spec => []OneSenderPerRow
<1>1. Spec => [](WShape /\ ClaimInv)
  BY InitClaim, ShapeStep, ClaimStep, PTL DEF Spec
<1>2. WShape /\ ClaimInv => OneSenderPerRow
  BY DEF ClaimInv
<1>. QED
  BY <1>1, <1>2, PTL

(* What a worker holds stays 'delivering': no reset and no requeue takes it *)
(* away, so persistAttempt's unguarded UPDATE writes to its own claim.      *)
THEOREM ClaimIsKept == Spec => []HeldRowsAreClaimed
<1>1. Spec => [](WShape /\ ClaimInv)
  BY InitClaim, ShapeStep, ClaimStep, PTL DEF Spec
<1>2. WShape /\ ClaimInv => HeldRowsAreClaimed
  BY DEF ClaimInv
<1>. QED
  BY <1>1, <1>2, PTL

-----------------------------------------------------------------------------
(* The outbox implements WebhookPromise.  Beyond the claims, what a worker *)
(* carries as delivered was POSTed, and what was never queued was not.     *)
PostsInv ==
  /\ posts \in [Deliveries -> Nat]
  /\ \A d \in Deliveries : status[d] = "absent" => posts[d] = 0
  /\ \A w \in Workers :
       worker[w].pc \in {"sent", "logged"} /\ worker[w].answer = "ok" =>
         posts[worker[w].row.id] > 0

OutboxInv == WShape /\ ClaimInv /\ PostsInv

(* Steps of the workers that leave the rows and the posts alone, or move a *)
(* row between pending and delivering.                                     *)
StaysOpen ==
  /\ posts' = posts
  /\ \A d \in Deliveries : \/ status'[d] = status[d]
                          \/ {status[d], status'[d]} \subseteq {"pending", "delivering"}

LEMMA OpenStays ==
  ASSUME StaysOpen
  PROVE  UNCHANGED Promise!promiseVars
<1>1. \A d \in Deliveries : (CASE status'[d] = "absent" -> "unknown"
                              [] status'[d] = "delivered" -> "delivered"
                              [] status'[d] = "dead_letter" -> "abandoned"
                              [] OTHER -> "open") =
                           (CASE status[d] = "absent" -> "unknown"
                              [] status[d] = "delivered" -> "delivered"
                              [] status[d] = "dead_letter" -> "abandoned"
                              [] OTHER -> "open")
  BY DEF StaysOpen
<1>. QED BY <1>1 DEF StaysOpen, Promise!promiseVars, Outcome

(* A step that leaves what a worker carries alone keeps PostsInv. *)
LEMMA PostsKept ==
  ASSUME PostsInv, StaysOpen,
         \A w \in Workers :
           worker'[w].pc \in {"sent", "logged"} /\ worker'[w].answer = "ok" =>
             /\ worker[w].pc \in {"sent", "logged"} /\ worker[w].answer = "ok"
             /\ worker'[w].row = worker[w].row
  PROVE  PostsInv'
BY DEF PostsInv, StaysOpen

(* Everything but a queueing, a POST and a verdict is invisible. *)
LEMMA QuietStep ==
  ASSUME OutboxInv, NEW w \in Workers,
         \/ ResetStale(w) \/ FetchDue(w) \/ Claim(w) \/ ClaimsDone(w) \/ RequeueUnsent(w)
         \/ Refuse(w) \/ LogAttempt(w) \/ Finish(w) \/ ClaimFails(w) \/ PersistFails(w)
         \/ Kill(w)
  PROVE  PostsInv' /\ StaysOpen
<1>1. /\ worker \in [Workers -> WState] /\ status \in [Deliveries -> Status]
      /\ \A r \in worker[w].due \cup worker[w].claimed : r.id \in Deliveries
  BY DEF OutboxInv, WShape, WorkerShape, RowShape, WState, DueRow
<1>2. StaysOpen
  <2>1. CASE ResetStale(w)
    BY <1>1, <2>1 DEF ResetStale, StaleClaim, StaysOpen
  <2>2. CASE Claim(w)
    BY <1>1, <2>2 DEF Claim, Claimable, StaysOpen
  <2>3. CASE RequeueUnsent(w)
    BY <1>1, <2>3 DEF RequeueUnsent, StaysOpen
  <2>4. CASE status' = status /\ posts' = posts
    BY <2>4 DEF StaysOpen
  <2>. QED
    BY <2>1, <2>2, <2>3, <2>4
       DEF FetchDue, ClaimsDone, Refuse, LogAttempt, Finish, ClaimFails, PersistFails, Kill,
           rowVars
<1>3. \A v \in Workers \ {w} : worker'[v] = worker[v]
  BY <1>1 DEF ResetStale, FetchDue, Claim, ClaimsDone, RequeueUnsent, Refuse, Take, LogAttempt,
              Finish, ClaimFails, PersistFails, Kill
<1>4. worker'[w].pc \in {"sent", "logged"} /\ worker'[w].answer = "ok" =>
        /\ worker[w].pc \in {"sent", "logged"} /\ worker[w].answer = "ok"
        /\ worker'[w].row = worker[w].row
  <2>1. CASE ResetStale(w) \/ FetchDue(w)
    BY <1>1, <2>1 DEF ResetStale, FetchDue, WState
  <2>2. CASE Claim(w)
    <3>1. worker'[w].pc = "claim"
      BY <1>1, <2>2 DEF Claim, WState
    <3>. QED BY <3>1
  <2>3. CASE ClaimsDone(w) \/ RequeueUnsent(w) \/ ClaimFails(w)
    BY <1>1, <2>3 DEF ClaimsDone, RequeueUnsent, ClaimFails, WState
  <2>4. CASE Refuse(w)
    BY <1>1, <2>4 DEF Refuse, Take, WState
  <2>5. CASE LogAttempt(w)
    BY <1>1, <2>5 DEF LogAttempt, WState
  <2>6. CASE Finish(w) \/ PersistFails(w) \/ Kill(w)
    BY <1>1, <2>6 DEF Finish, PersistFails, Kill, Idle, WState
  <2>. QED BY <2>1, <2>2, <2>3, <2>4, <2>5, <2>6
<1>. QED BY <1>2, <1>3, <1>4, PostsKept DEF OutboxInv

(* A row is queued or requeued: the promise opens. *)
LEMMA QueueStep ==
  ASSUME OutboxInv, NEW d \in Deliveries, Enqueue(d) \/ Redeliver(d)
  PROVE  PostsInv' /\ Promise!Open({d})
<1>1. /\ status \in [Deliveries -> Status] /\ posts \in [Deliveries -> Nat]
      /\ status[d] \in {"absent", "dead_letter"} /\ worker' = worker
      /\ status' = [status EXCEPT ![d] = "pending"]
  BY DEF OutboxInv, WShape, RowShape, PostsInv, Enqueue, Redeliver, Requeueable
<1>2. posts' = [posts EXCEPT ![d] = 0]
  BY <1>1 DEF OutboxInv, PostsInv, Enqueue, Redeliver, Requeueable
<1>3. ASSUME NEW w \in Workers, worker[w].pc \in {"sent", "logged"}
      PROVE  worker[w].row.id # d /\ worker[w].row.id \in Deliveries
  <2>1. worker[w].row.id \in Held(w) /\ worker[w].row \in DueRow
    BY <1>3 DEF OutboxInv, WShape, WorkerShape, Held
  <2>2. status[worker[w].row.id] = "delivering"
    BY <2>1 DEF OutboxInv, ClaimInv, HeldRowsAreClaimed
  <2>. QED BY <1>1, <2>1, <2>2 DEF DueRow
<1>4. PostsInv'
  BY <1>1, <1>2, <1>3 DEF OutboxInv, PostsInv
<1>5. Outcome[d] \in {"unknown", "abandoned"}
  BY <1>1 DEF Outcome
<1>6. Outcome' = [e \in Deliveries |-> IF e \in {d} THEN "open" ELSE Outcome[e]]
  BY <1>1 DEF Outcome
<1>7. posts' = [e \in Deliveries |-> IF e \in {d} THEN 0 ELSE posts[e]]
  BY <1>1, <1>2
<1>. QED BY <1>4, <1>5, <1>6, <1>7 DEF Promise!Open

(* A POST is made while the promise is open. *)
LEMMA SendStep ==
  ASSUME OutboxInv, NEW w \in Workers, NEW d \in Deliveries, Send(w, d)
  PROVE  PostsInv' /\ Promise!Post(d)
<1>1. PICK r \in worker[w].claimed, a \in Answers : r.id = d /\ Take(w, r, a)
  BY DEF Send
<1>2. /\ worker \in [Workers -> WState] /\ posts \in [Deliveries -> Nat]
      /\ posts' = [posts EXCEPT ![d] = posts[d] + 1] /\ status' = status
  BY DEF OutboxInv, WShape, WorkerShape, PostsInv, Send, rowVars
<1>3. status[d] = "delivering"
  BY <1>1 DEF OutboxInv, ClaimInv, HeldRowsAreClaimed, Held
<1>4. /\ \A v \in Workers \ {w} : worker'[v] = worker[v]
      /\ worker'[w].row.id = d
  BY <1>1, <1>2 DEF Take, WState
<1>5. ASSUME NEW v \in Workers, worker[v].pc \in {"sent", "logged"}
      PROVE  worker[v].row.id \in Deliveries
  BY <1>5 DEF OutboxInv, WShape, WorkerShape, DueRow
<1>6. \A e \in Deliveries : posts'[e] \in Nat /\ posts'[e] >= posts[e] /\ posts'[d] > 0
  BY <1>2
<1>7. PostsInv'
  BY <1>2, <1>3, <1>4, <1>5, <1>6 DEF OutboxInv, PostsInv
<1>8. Outcome[d] = "open" /\ Outcome' = Outcome
  BY <1>2, <1>3 DEF Outcome
<1>. QED BY <1>2, <1>7, <1>8 DEF Promise!Post

(* A verdict is written for the row the worker holds. *)
LEMMA PersistStep ==
  ASSUME OutboxInv, NEW w \in Workers, Persist(w)
  PROVE  PostsInv' /\ [Promise!PromiseNext]_(Promise!promiseVars)
<1> DEFINE d == worker[w].row.id
<1>1. /\ worker \in [Workers -> WState] /\ status \in [Deliveries -> Status]
      /\ worker[w].pc = "logged" /\ d \in Deliveries /\ d \in Held(w) /\ posts' = posts
      /\ worker' = [worker EXCEPT ![w].pc = "work", ![w].row = NoRow, ![w].answer = "none"]
  BY DEF OutboxInv, WShape, WorkerShape, RowShape, Persist, Held, DueRow
<1>2. status[d] = "delivering"
  BY <1>1 DEF OutboxInv, ClaimInv, HeldRowsAreClaimed
<1>3. PICK s \in NextStatus(worker[w].answer, worker[w].row.attempts + 1, d) :
        status' = [status EXCEPT ![d] = s]
  BY DEF Persist
<1>4. /\ s \in {"delivered", "pending", "dead_letter"}
      /\ s = "delivered" => worker[w].answer = "ok"
  BY <1>3 DEF NextStatus
<1>5. PostsInv'
  <2>1. /\ \A v \in Workers \ {w} : worker'[v] = worker[v]
        /\ worker'[w].pc = "work"
    BY <1>1 DEF WState
  <2>2. \A e \in Deliveries : status'[e] = "absent" => status[e] = "absent"
    BY <1>1, <1>3, <1>4
  <2>. QED BY <1>1, <2>1, <2>2 DEF OutboxInv, PostsInv
<1>6. CASE s = "pending"
  <2>1. StaysOpen
    BY <1>1, <1>2, <1>3, <1>6 DEF StaysOpen
  <2>. QED BY <1>5, <2>1, OpenStays
<1>7. CASE s \in {"delivered", "dead_letter"}
  <2> DEFINE o == IF s = "delivered" THEN "delivered" ELSE "abandoned"
  <2>1. s = "delivered" => posts[d] > 0
    BY <1>1, <1>4 DEF OutboxInv, PostsInv
  <2>2. Outcome[d] = "open"
    BY <1>1, <1>2 DEF Outcome
  <2>3. Outcome' = [Outcome EXCEPT ![d] = o]
    BY <1>1, <1>3, <1>7 DEF Outcome
  <2>4. o \in {"delivered", "abandoned"} /\ (o = "delivered" => posts[d] > 0)
    BY <2>1
  <2>5. Promise!Settle(d)
    BY <1>1, <2>2, <2>3, <2>4 DEF Promise!Settle
  <2>. QED BY <1>1, <1>5, <2>5 DEF Promise!PromiseNext
<1>. QED BY <1>4, <1>6, <1>7

LEMMA PromiseKept ==
  ASSUME OutboxInv, [Next]_vars
  PROVE  PostsInv' /\ [Promise!PromiseNext]_(Promise!promiseVars)
<1>1. ASSUME NEW d \in Deliveries, Enqueue(d) \/ Redeliver(d)
      PROVE  PostsInv' /\ [Promise!PromiseNext]_(Promise!promiseVars)
  BY <1>1, QueueStep DEF Promise!PromiseNext
<1>2. CASE UNCHANGED <<status, worker, posts>>
  <2>1. StaysOpen
    BY <1>2 DEF StaysOpen
  <2>. QED BY <1>2, <2>1, OpenStays, PostsKept DEF OutboxInv
<1>3. ASSUME NEW w \in Workers, NEW d \in Deliveries, Send(w, d)
      PROVE  PostsInv' /\ [Promise!PromiseNext]_(Promise!promiseVars)
  BY <1>3, SendStep DEF Promise!PromiseNext
<1>4. ASSUME NEW w \in Workers, Persist(w)
      PROVE  PostsInv' /\ [Promise!PromiseNext]_(Promise!promiseVars)
  BY <1>4, PersistStep
<1>5. ASSUME NEW w \in Workers,
             \/ ResetStale(w) \/ FetchDue(w) \/ Claim(w) \/ ClaimsDone(w) \/ RequeueUnsent(w)
             \/ Refuse(w) \/ LogAttempt(w) \/ Finish(w) \/ ClaimFails(w) \/ PersistFails(w)
             \/ Kill(w)
      PROVE  PostsInv' /\ [Promise!PromiseNext]_(Promise!promiseVars)
  BY <1>5, QuietStep, OpenStays
<1>6. ASSUME NEW d \in Deliveries, Ripen(d) \/ MinutePasses(d) \/ Expire(d)
      PROVE  UNCHANGED <<status, worker, posts>>
  BY <1>6 DEF Ripen, MinutePasses, Expire
<1>. QED BY <1>1, <1>2, <1>3, <1>4, <1>5, <1>6 DEF Next, WorkerStep, vars

(* Whatever workers overlap, die and lose statements, the outbox only does  *)
(* what it promises: nothing is POSTed once it is settled, a delivered row  *)
(* was POSTed and stays delivered, only a dead letter is opened again.      *)
THEOREM PromiseIsKept == Spec => KeepsPromise
<1>1. Init => PostsInv /\ Promise!PromiseInit
  BY DEF Init, PostsInv, Promise!PromiseInit, Outcome, Idle
<1>2. OutboxInv /\ [Next]_vars => PostsInv' /\ [Promise!PromiseNext]_(Promise!promiseVars)
  BY PromiseKept
<1>3. Spec => [](WShape /\ ClaimInv)
  BY InitClaim, ShapeStep, ClaimStep, PTL DEF Spec
<1>4. OutboxInv <=> WShape /\ ClaimInv /\ PostsInv
  BY DEF OutboxInv
<1>. QED BY <1>1, <1>2, <1>3, <1>4, PTL DEF Spec, KeepsPromise, Promise!PromiseSpec
=============================================================================
