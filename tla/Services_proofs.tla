--------------------------- MODULE Services_proofs --------------------------
(***************************************************************************)
(* What is proved of the services, for all values of the constants: of     *)
(* settlement reports (the module MCServices extends), and of the machines *)
(* "login", "factor", "stores", "upkeep", "refund", "reads", "dispute",    *)
(* "secure", "history", "price", "checkout" and "revenue".  The inductive  *)
(* invariants of those machines stand in their modules, beside the property*)
(* they are for; a variable of theirs has its own name here, with the      *)
(* machine's before it where two have one name.                            *)
(***************************************************************************)
EXTENDS MCServices, FiniteSetTheorems, FunctionTheorems, SequenceTheorems,
        WellFoundedInduction, TLAPS

-----------------------------------------------------------------------------
(* Settlement reports.  The check of the age and the claim of the nonce are *)
(* apart, and the nonce table is swept: the argument is that a call knows,  *)
(* from the check on, how young its report was (YoungInv), that the         *)
(* platform ends it before CallLife is over (CallsInv), and that a nonce is *)
(* swept only when no such call can be left, because Retention covers       *)
(* MaxAge, Skew and CallLife (NonceInv).                                    *)
Outcomes == {"none", "nothing", "failed", "recorded", "replayed", "too old", "future", "broken"}
SenderStates == [pc : {"idle", "send", "wait", "done"}, attempt : Nat, result : Outcomes]
CallStates == [pc : {"free", "received", "parsed", "begun", "claimed", "written", "over"},
               report : Reports \cup {"none"}, attempt : Nat, since : Nat, now : Nat, at : Int]

Types == /\ clock \in Nat
         /\ signed \in [Reports -> Int]
         /\ sender \in [Reports -> SenderStates]
         /\ call \in [Calls -> CallStates]
         /\ nonces \in [Reports -> Nat \cup {Absent}]
         /\ row \in [Payments -> [at : Int, by : Reports \cup {"nobody"}]]
         /\ taken \in [Reports -> Nat]

(* A call in flight is for a report that was signed, and has time left. *)
CallsInv ==
  \A c \in Calls : call[c].pc # "free" =>
    /\ call[c].report \in Reports /\ sender[call[c].report].pc # "idle"
    /\ call[c].since <= clock
    /\ Live(c) => clock <= call[c].since + CallLife
    /\ Open(c) => call[c].now <= clock

(* What the check of the age found is still true of a call past it. *)
Past(c) == call[c].pc \in {"parsed", "begun", "claimed", "written"}
Holds(c) == call[c].pc \in {"claimed", "written"}
YoungInv ==
  \A c \in Calls : Past(c) /\ call[c].report \in Dated =>
    /\ call[c].since <= signed[call[c].report] + MaxAge
    /\ signed[call[c].report] - Skew <= clock
    /\ Open(c) => signed[call[c].report] - Skew <= call[c].now

(* A nonce has one holder, and it is the first for a dated report. *)
OneClaim ==
  \A c \in Calls : Holds(c) =>
    /\ \A d \in Calls : Holds(d) /\ call[d].report = call[c].report => c = d
    /\ call[c].report \in Dated => taken[call[c].report] = 0

(* A report that took effect is remembered until no call can carry it. *)
NonceInv ==
  \A r \in Reports :
    /\ nonces[r] # Absent => taken[r] > 0
    /\ taken[r] > 0 => sender[r].pc # "idle"
    /\ sender[r].pc = "idle" => sender[r].attempt = 0
    /\ r \in Dated /\ taken[r] > 0 =>
         \/ nonces[r] # Absent /\ nonces[r] >= signed[r] - Skew
         \/ clock > signed[r] + MaxAge + CallLife

(* The row of a payment whose report took effect, and of one about to. *)
RowInv ==
  /\ \A c \in Calls : call[c].pc = "written" /\ call[c].report \in Dated =>
       call[c].at = signed[call[c].report]
  /\ \A r \in Dated : taken[r] > 0 => row[PaymentOf[r]].by # "nobody"

IInv == /\ Types /\ CallsInv /\ YoungInv /\ OneClaim /\ NonceInv
        /\ TakenOnce /\ AnswersAreTrue /\ RowInv /\ NewestReportWins

-----------------------------------------------------------------------------
(* Calls and senders, a step at a time.                                    *)

\* An arriving POST takes a free call.
LEMMA ArriveTakes ==
  ASSUME Types, NEW r \in Reports, NEW n \in Nat, Arrive(r, n)
  PROVE  \E c \in Calls :
           /\ call[c].pc = "free"
           /\ call' = [call EXCEPT ![c] = [pc |-> "received", report |-> r, attempt |-> n,
                                           since |-> clock, now |-> 0, at |-> 0]]
<1> DEFINE free == {c \in Calls : call[c].pc = "free"}
<1>1. free # {}
  BY DEF Arrive
<1>2. PICK c \in free : c = CHOOSE d \in free : TRUE
  BY <1>1
<1>. QED BY <1>2 DEF Arrive

\* What became of a try never makes a sender idle, and tells it no more than
\* the answer does.
LEMMA AfterMoves ==
  ASSUME NEW s \in SenderStates, NEW outcome \in Outcomes
  PROVE  /\ After(s, outcome) \in SenderStates
         /\ After(s, outcome).pc # "idle"
         /\ After(s, outcome).attempt = s.attempt
         /\ After(s, outcome).result \in {s.result, outcome, "failed"}
<1>1. CASE outcome \in {"recorded", "too old", "future", "replayed"}
  BY <1>1 DEF After, SenderStates, Outcomes
<1>2. CASE outcome \notin {"recorded", "too old", "future", "replayed"} /\ s.attempt > MaxRetries
  BY <1>2 DEF After, SenderStates, Outcomes
<1>3. CASE outcome \notin {"recorded", "too old", "future", "replayed"} /\ ~(s.attempt > MaxRetries)
  BY <1>3 DEF After, SenderStates, Outcomes
<1>. QED BY <1>1, <1>2, <1>3

\* What an answer changes.
LEMMA AnswerMoves ==
  ASSUME Types, CallsInv, NEW c \in Calls, Live(c), NEW outcome \in Outcomes, Answer(c, outcome)
  PROVE  /\ call' = [call EXCEPT ![c].pc = "over"]
         /\ call' \in [Calls -> CallStates]
         /\ sender' \in [Reports -> SenderStates]
         /\ \A r \in Reports : \/ sender'[r] = sender[r]
                               \/ /\ r = call[c].report
                                  /\ sender'[r].pc # "idle"
                                  /\ sender'[r].result \in {sender[r].result, outcome, "failed"}
<1>1. call[c].report \in Reports
  BY DEF CallsInv, Live, Open
<1>2. call' = [call EXCEPT ![c].pc = "over"]
  BY DEF Answer
<1>3. call' \in [Calls -> CallStates]
  BY <1>2 DEF Types, CallStates
<1>4. CASE sender' = sender
  BY <1>2, <1>3, <1>4 DEF Types
<1>5. CASE sender' = [sender EXCEPT ![call[c].report] = After(@, outcome)]
  <2>1. sender[call[c].report] \in SenderStates
    BY <1>1 DEF Types
  <2>. QED BY <1>1, <1>2, <1>3, <1>5, <2>1, AfterMoves DEF Types
<1>. QED BY <1>4, <1>5 DEF Answer

-----------------------------------------------------------------------------
(* Steps that touch neither the database nor a call.                       *)

\* Time passes.
LEMMA TickKeeps ==
  ASSUME SettlementAssumption, IInv, Tick
  PROVE  IInv'
<1>1. clock' = clock + 1 /\ clock \in Nat /\ clock' \in Nat
  BY DEF Tick, IInv, Types
<1>2. Types'
  BY <1>1 DEF Tick, IInv, Types, Payments
<1>3. CallsInv'
  BY <1>1 DEF Tick, IInv, Types, CallsInv, CallStates, Live, Open, SettlementAssumption
<1>4. YoungInv'
  BY <1>1 DEF Tick, IInv, Types, CallsInv, CallStates, YoungInv, Past, Open, SettlementAssumption
<1>5. NonceInv'
  BY <1>1 DEF Tick, IInv, Types, NonceInv, SettlementAssumption
<1>6. OneClaim' /\ TakenOnce' /\ AnswersAreTrue' /\ RowInv' /\ NewestReportWins'
  BY DEF Tick, IInv, OneClaim, Holds, TakenOnce, AnswersAreTrue, RowInv, NewestReportWins
<1>. QED BY <1>2, <1>3, <1>4, <1>5, <1>6 DEF IInv

\* The seller signs a report, or breaks off its try.
LEMMA SellerKeeps ==
  ASSUME SettlementAssumption, IInv, NEW r \in Reports, Settle(r) \/ Break(r) \/ Abort(r)
  PROVE  IInv'
<1>1. /\ UNCHANGED <<clock, call, nonces, row, taken>>
      /\ \A q \in Reports : q # r => signed'[q] = signed[q] /\ sender'[q] = sender[q]
  BY DEF Settle, Break, Abort, IInv, Types
<1>2. /\ signed' \in [Reports -> Int] /\ sender' \in [Reports -> SenderStates]
      /\ sender'[r].pc # "idle"
      /\ sender'[r].result \in {sender[r].result, "nothing", "failed"}
  <2>1. CASE Settle(r)
    <3>1. PICK result \in Results, d \in Drift :
            IF Usable(result)
            THEN /\ signed' = [signed EXCEPT ![r] = clock + d]
                 /\ sender' = [sender EXCEPT ![r].pc = "send"]
            ELSE /\ sender' = [sender EXCEPT ![r].pc = "done", ![r].result = "nothing"]
                 /\ UNCHANGED signed
      BY <2>1 DEF Settle
    <3>2. clock + d \in Int /\ sender[r] \in SenderStates
      BY DEF IInv, Types, SettlementAssumption
    <3>3. signed' \in [Reports -> Int]
      BY <3>1, <3>2 DEF IInv, Types
    <3>4. \/ sender' = [sender EXCEPT ![r].pc = "send"]
          \/ sender' = [sender EXCEPT ![r].pc = "done", ![r].result = "nothing"]
      BY <3>1
    <3>5. CASE sender' = [sender EXCEPT ![r].pc = "send"]
      BY <3>2, <3>3, <3>5 DEF IInv, Types, SenderStates
    <3>6. CASE sender' = [sender EXCEPT ![r].pc = "done", ![r].result = "nothing"]
      BY <3>2, <3>3, <3>6 DEF IInv, Types, SenderStates, Outcomes
    <3>. QED BY <3>4, <3>5, <3>6
  <2>2. CASE Break(r)
    <3>1. sender[r] \in SenderStates /\ "broken" \in Outcomes
      BY DEF IInv, Types, Outcomes
    <3>2. After(sender[r], "broken").result \in {sender[r].result, "failed"}
      BY <3>1 DEF After, SenderStates, Outcomes
    <3>. QED BY <2>2, <3>1, <3>2, AfterMoves DEF Break, IInv, Types
  <2>3. CASE Abort(r)
    BY <2>3 DEF Abort, IInv, Types, SenderStates, Outcomes
  <2>. QED BY <2>1, <2>2, <2>3
<1>3. signed'[r] = signed[r] \/ sender[r].pc = "idle"
  BY DEF Settle, Break, Abort
<1>4. Types'
  BY <1>1, <1>2 DEF IInv, Types, Payments
<1>5. \/ taken[r] = 0 /\ \A c \in Calls : call[c].pc = "free" \/ call[c].report # r
      \/ signed'[r] = signed[r]
  BY <1>3 DEF IInv, Types, CallsInv, NonceInv
<1>6. CallsInv'
  BY <1>1, <1>2 DEF IInv, CallsInv, Live, Open
<1>7. YoungInv'
  BY <1>1, <1>2, <1>5, <1>6 DEF IInv, CallsInv, YoungInv, Past, Open
<1>8. NonceInv'
  BY <1>1, <1>2, <1>5 DEF IInv, Types, NonceInv
<1>9. RowInv' /\ NewestReportWins'
  BY <1>1, <1>2, <1>5 DEF IInv, Types, CallsInv, RowInv, NewestReportWins, SettlementAssumption
<1>10. OneClaim' /\ TakenOnce' /\ AnswersAreTrue'
  BY <1>1, <1>2 DEF IInv, OneClaim, Holds, TakenOnce, AnswersAreTrue
<1>. QED BY <1>4, <1>6, <1>7, <1>8, <1>9, <1>10 DEF IInv

-----------------------------------------------------------------------------
(* Steps that touch a call and leave the database alone.                   *)

\* A POST arrives, as a try of the SDK or once more.
LEMMA ArrivalKeeps ==
  ASSUME SettlementAssumption, IInv, NEW r \in Reports, Post(r) \/ Repeat(r)
  PROVE  IInv'
<1>1. /\ UNCHANGED <<clock, signed, nonces, row, taken>>
      /\ sender' \in [Reports -> SenderStates]
      /\ \A q \in Reports : sender'[q] = sender[q] \/ (sender[q].pc # "idle" /\ sender'[q].pc # "idle")
      /\ \A q \in Reports : sender'[q].result = sender[q].result
      /\ sender[r].pc # "idle"
  <2>1. sender[r] \in SenderStates /\ sender \in [Reports -> SenderStates]
    BY DEF IInv, Types
  <2>2. CASE Post(r)
    BY <2>1, <2>2 DEF Post, SenderStates
  <2>3. CASE Repeat(r)
    <3>1. sender[r].attempt > 0 /\ sender' = sender /\ UNCHANGED <<clock, signed, nonces, row, taken>>
      BY <2>3 DEF Repeat
    <3>2. sender[r].pc # "idle"
      BY <3>1 DEF IInv, NonceInv
    <3>. QED BY <2>1, <3>1, <3>2 DEF SenderStates
  <2>. QED BY <2>2, <2>3
<1>2. \E n \in Nat : Arrive(r, n)
  <2>1. sender[r].attempt \in Nat
    BY DEF IInv, Types, SenderStates
  <2>2. sender[r].attempt + 1 \in Nat /\ 0 \in Nat
    BY <2>1
  <2>3. Arrive(r, sender[r].attempt + 1) \/ Arrive(r, 0)
    BY DEF Post, Repeat
  <2>. QED BY <2>2, <2>3
<1>3. PICK n \in Nat, c \in Calls :
        /\ call[c].pc = "free"
        /\ call' = [call EXCEPT ![c] = [pc |-> "received", report |-> r, attempt |-> n,
                                        since |-> clock, now |-> 0, at |-> 0]]
  BY <1>2, ArriveTakes DEF IInv
<1>4. Types'
  BY <1>1, <1>3 DEF IInv, Types, CallStates, Payments
<1>5. /\ \A d \in Calls : d # c => call'[d] = call[d]
      /\ call'[c].pc = "received" /\ call'[c].report = r /\ call'[c].since = clock
  BY <1>3 DEF IInv, Types
<1>6. CallsInv'
  BY <1>1, <1>5 DEF IInv, Types, CallsInv, Live, Open, SettlementAssumption
<1>7. YoungInv' /\ OneClaim'
  BY <1>1, <1>5 DEF IInv, YoungInv, OneClaim, Past, Open, Holds
<1>8. NonceInv' /\ AnswersAreTrue'
  BY <1>1 DEF IInv, NonceInv, AnswersAreTrue
<1>9. TakenOnce' /\ RowInv' /\ NewestReportWins'
  BY <1>1, <1>5 DEF IInv, TakenOnce, RowInv, NewestReportWins
<1>. QED BY <1>4, <1>6, <1>7, <1>8, <1>9 DEF IInv

\* A call that ends without having changed anything tells the truth, if it
\* speaks of a replay only when the report took effect.
LEMMA EndKeeps ==
  ASSUME SettlementAssumption, IInv, NEW c \in Calls, Live(c), NEW outcome \in Outcomes,
         Answer(c, outcome), UNCHANGED <<clock, signed, nonces, row, taken>>,
         outcome \in {"recorded", "replayed"} => taken[call[c].report] > 0
  PROVE  IInv'
<1>1. /\ call' = [call EXCEPT ![c].pc = "over"] /\ call' \in [Calls -> CallStates]
      /\ sender' \in [Reports -> SenderStates]
      /\ \A r \in Reports : \/ sender'[r] = sender[r]
                            \/ /\ r = call[c].report
                               /\ sender'[r].pc # "idle"
                               /\ sender'[r].result \in {sender[r].result, outcome, "failed"}
  BY AnswerMoves DEF IInv
<1>2. Types'
  BY <1>1 DEF IInv, Types, Payments
<1>3. /\ \A d \in Calls : d # c => call'[d] = call[d]
      /\ call'[c].pc = "over" /\ call'[c].report = call[c].report /\ call'[c].since = call[c].since
  BY <1>1 DEF IInv, Types, CallStates
<1>4. call[c].report \in Reports /\ sender[call[c].report].pc # "idle"
  BY DEF IInv, CallsInv, Live, Open
<1>5. CallsInv'
  BY <1>1, <1>3, <1>4 DEF IInv, Types, CallsInv, Live, Open
<1>6. YoungInv' /\ OneClaim'
  BY <1>3 DEF IInv, YoungInv, OneClaim, Past, Open, Holds
<1>7. NonceInv' /\ AnswersAreTrue'
  BY <1>1, <1>4 DEF IInv, NonceInv, AnswersAreTrue
<1>8. TakenOnce' /\ RowInv' /\ NewestReportWins'
  BY <1>3 DEF IInv, TakenOnce, RowInv, NewestReportWins
<1>. QED BY <1>2, <1>5, <1>6, <1>7, <1>8 DEF IInv

\* The hook compares the signed time with its clock.
LEMMA ValidateKeeps ==
  ASSUME SettlementAssumption, IInv, NEW c \in Calls, Validate(c)
  PROVE  IInv'
<1>1. Live(c) /\ UNCHANGED <<clock, signed, nonces, row, taken>>
  BY DEF Validate, Live
<1>2. CASE Answer(c, "too old") \/ Answer(c, "future")
  <2>1. "too old" \in Outcomes /\ "future" \in Outcomes
    BY DEF Outcomes
  <2>. QED BY <1>1, <1>2, <2>1, EndKeeps
<1>3. CASE /\ ~TooOld(call[c].report) /\ ~Ahead(call[c].report)
           /\ call' = [call EXCEPT ![c].pc = "parsed"] /\ sender' = sender
  <2>1. /\ \A d \in Calls : d # c => call'[d] = call[d]
        /\ call'[c].pc = "parsed" /\ call'[c].report = call[c].report
        /\ call'[c].since = call[c].since
    BY <1>3 DEF IInv, Types, CallStates
  <2>2. /\ call[c].report \in Reports /\ sender[call[c].report].pc # "idle"
        /\ call[c].since <= clock /\ clock <= call[c].since + CallLife
    BY <1>1 DEF IInv, CallsInv, Live, Open
  <2>3. /\ signed[call[c].report] \in Int /\ call[c].since \in Nat /\ clock \in Nat
    BY <2>2 DEF IInv, Types, CallStates
  <2>4. Types'
    BY <1>1, <1>3 DEF IInv, Types, CallStates, Payments
  <2>5. CallsInv'
    BY <1>1, <1>3, <2>1, <2>2 DEF IInv, CallsInv, Live, Open
  <2>6. call[c].report \in Dated =>
          /\ call[c].since <= signed[call[c].report] + MaxAge
          /\ signed[call[c].report] - Skew <= clock
    BY <1>3, <2>2, <2>3 DEF TooOld, Ahead, SettlementAssumption
  <2>7. YoungInv' /\ OneClaim'
    BY <1>1, <2>1, <2>6 DEF IInv, YoungInv, OneClaim, Past, Open, Holds
  <2>8. NonceInv' /\ AnswersAreTrue' /\ TakenOnce' /\ RowInv' /\ NewestReportWins'
    BY <1>1, <1>3, <2>1 DEF IInv, NonceInv, AnswersAreTrue, TakenOnce, RowInv, NewestReportWins
  <2>. QED BY <2>4, <2>5, <2>7, <2>8 DEF IInv
<1>. QED BY <1>2, <1>3 DEF Validate

\* The transaction begins.
LEMMA BeginKeeps ==
  ASSUME SettlementAssumption, IInv, NEW c \in Calls, Begin(c)
  PROVE  IInv'
<1>1. /\ UNCHANGED <<clock, signed, sender, nonces, row, taken>> /\ call[c].pc = "parsed"
      /\ call' = [call EXCEPT ![c].pc = "begun", ![c].now = clock]
  BY DEF Begin
<1>2. /\ \A d \in Calls : d # c => call'[d] = call[d]
      /\ call'[c].pc = "begun" /\ call'[c].report = call[c].report
      /\ call'[c].since = call[c].since /\ call'[c].now = clock
  BY <1>1 DEF IInv, Types, CallStates
<1>3. Types'
  <2>1. clock \in Nat /\ call \in [Calls -> CallStates]
    BY DEF IInv, Types
  <2>2. [call[c] EXCEPT !.pc = "begun", !.now = clock] \in CallStates
    BY <2>1 DEF CallStates
  <2>3. call' \in [Calls -> CallStates]
    BY <1>1, <2>1, <2>2
  <2>. QED BY <1>1, <2>3 DEF IInv, Types, Payments
<1>4. CallsInv'
  BY <1>1, <1>2 DEF IInv, Types, CallsInv, Live, Open
<1>5. YoungInv' /\ OneClaim'
  BY <1>1, <1>2, <1>3 DEF IInv, Types, YoungInv, OneClaim, Past, Open, Holds
<1>6. NonceInv' /\ AnswersAreTrue' /\ TakenOnce' /\ RowInv' /\ NewestReportWins'
  BY <1>1, <1>2 DEF IInv, NonceInv, AnswersAreTrue, TakenOnce, RowInv, NewestReportWins
<1>. QED BY <1>3, <1>4, <1>5, <1>6 DEF IInv

\* The nonce is claimed, or found: what the sweep left of it decides.
LEMMA ClaimKeeps ==
  ASSUME SettlementAssumption, IInv, NEW c \in Calls, ClaimNonce(c)
  PROVE  IInv'
<1> DEFINE r == call[c].report
<1>1. /\ call[c].pc = "begun" /\ Live(c) /\ r \in Reports
      /\ UNCHANGED <<clock, signed, nonces, row, taken>>
      /\ clock \in Nat /\ signed \in [Reports -> Int] /\ call[c] \in CallStates
      /\ nonces[r] \in Nat \cup {Absent}
  BY DEF ClaimNonce, Live, Open, IInv, Types, CallsInv
<1>2. CASE Answer(c, "replayed") /\ Remembered(call[c].now)[r] # Absent
  <2>1. nonces[r] # Absent
    BY <1>1, <1>2 DEF Remembered
  <2>2. taken[r] > 0
    BY <1>1, <2>1 DEF IInv, NonceInv
  <2>3. "replayed" \in Outcomes
    BY DEF Outcomes
  <2>. QED BY <1>1, <1>2, <2>2, <2>3, EndKeeps
<1>3. CASE /\ call' = [call EXCEPT ![c].pc = "claimed"] /\ sender' = sender
           /\ Remembered(call[c].now)[r] = Absent
  <2>1. /\ \A d \in Calls : d # c => call'[d] = call[d]
        /\ call'[c].pc = "claimed" /\ call'[c].report = r
        /\ call'[c].since = call[c].since /\ call'[c].now = call[c].now
    BY <1>3 DEF IInv, Types, CallStates
  <2>2. \/ nonces[r] = Absent
        \/ nonces[r] # Absent /\ nonces[r] < call[c].now - Retention
    BY <1>1, <1>3 DEF Remembered
  <2>3. ASSUME r \in Dated PROVE taken[r] = 0
    <3>1. /\ call[c].since <= signed[r] + MaxAge /\ call[c].now <= clock
          /\ clock <= call[c].since + CallLife
      BY <1>1, <2>3 DEF IInv, CallsInv, YoungInv, Past, Open
    <3>2. /\ call[c].since \in Nat /\ call[c].now \in Nat /\ signed[r] \in Int
          /\ MaxAge \in Nat /\ Skew \in Nat /\ CallLife \in Nat /\ Retention \in Nat
          /\ Retention >= MaxAge + Skew + CallLife
      BY <1>1 DEF CallStates, SettlementAssumption
    <3>3. ~(nonces[r] # Absent /\ nonces[r] >= signed[r] - Skew)
      BY <1>1, <2>2, <3>1, <3>2
    <3>4. ~(clock > signed[r] + MaxAge + CallLife)
      BY <1>1, <3>1, <3>2
    <3>5. ~(taken[r] > 0) /\ taken[r] \in Nat
      BY <1>1, <2>3, <3>3, <3>4 DEF IInv, Types, NonceInv
    <3>. QED BY <3>5
  <2>4. Types'
    BY <1>1, <1>3 DEF IInv, Types, CallStates, Payments
  <2>5. CallsInv'
    BY <1>1, <1>3, <2>1 DEF IInv, CallsInv, Live, Open
  <2>6. YoungInv'
    BY <1>1, <2>1 DEF IInv, YoungInv, Past, Open
  <2>7. OneClaim'
    BY <1>1, <2>1, <2>3 DEF IInv, OneClaim, Holds, ClaimNonce
  <2>8. NonceInv' /\ AnswersAreTrue' /\ TakenOnce' /\ RowInv' /\ NewestReportWins'
    BY <1>1, <1>3, <2>1 DEF IInv, NonceInv, AnswersAreTrue, TakenOnce, RowInv, NewestReportWins
  <2>. QED BY <2>4, <2>5, <2>6, <2>7, <2>8 DEF IInv
<1>. QED BY <1>2, <1>3 DEF ClaimNonce

\* The attribution is written into the transaction.
LEMMA RecordKeeps ==
  ASSUME SettlementAssumption, IInv, NEW c \in Calls, RecordSettlement(c)
  PROVE  IInv'
<1>1. call[c].pc = "claimed" /\ UNCHANGED <<clock, signed, sender, nonces, row, taken>>
  BY DEF RecordSettlement
<1>2. PICK at \in Int :
        /\ call' = [call EXCEPT ![c].pc = "written", ![c].at = at]
        /\ call[c].report \in Dated => at = signed[call[c].report]
  <2>1. call[c].report \in Reports
    BY <1>1 DEF IInv, CallsInv
  <2>2. /\ ReportedAt(call[c].report) \in Int
        /\ call[c].report \in Dated => ReportedAt(call[c].report) = signed[call[c].report]
    BY <2>1 DEF IInv, Types, ReportedAt
  <2>. QED BY <2>2 DEF RecordSettlement
<1>3. /\ \A d \in Calls : d # c => call'[d] = call[d]
      /\ call'[c].pc = "written" /\ call'[c].report = call[c].report /\ call'[c].at = at
      /\ call'[c].since = call[c].since /\ call'[c].now = call[c].now
  BY <1>2 DEF IInv, Types, CallStates
<1>4. Types'
  <2>1. call \in [Calls -> CallStates]
    BY DEF IInv, Types
  <2>2. [call[c] EXCEPT !.pc = "written", !.at = at] \in CallStates
    BY <2>1 DEF CallStates
  <2>3. call' \in [Calls -> CallStates]
    BY <1>2, <2>1, <2>2
  <2>. QED BY <1>1, <2>3 DEF IInv, Types, Payments
<1>5. CallsInv'
  BY <1>1, <1>3 DEF IInv, CallsInv, Live, Open
<1>6. YoungInv' /\ OneClaim'
  BY <1>1, <1>3 DEF IInv, YoungInv, OneClaim, Past, Open, Holds
<1>7. RowInv'
  BY <1>1, <1>2, <1>3 DEF IInv, RowInv
<1>8. NonceInv' /\ AnswersAreTrue' /\ TakenOnce' /\ NewestReportWins'
  BY <1>1 DEF IInv, NonceInv, AnswersAreTrue, TakenOnce, NewestReportWins
<1>. QED BY <1>4, <1>5, <1>6, <1>7, <1>8 DEF IInv

-----------------------------------------------------------------------------
(* Steps that change the database.                                         *)

\* The sweep forgets only reports no call can carry any more.
LEMMA SweepIsSafe ==
  ASSUME SettlementAssumption, IInv, NEW now \in Nat, now <= clock, NEW r \in Reports
  PROVE  /\ Remembered(now)[r] \in Nat \cup {Absent}
         /\ Remembered(now)[r] # Absent => taken[r] > 0
         /\ r \in Dated /\ taken[r] > 0 =>
              \/ Remembered(now)[r] # Absent /\ Remembered(now)[r] >= signed[r] - Skew
              \/ clock > signed[r] + MaxAge + CallLife
<1>1. /\ clock \in Nat /\ signed[r] \in Int /\ nonces[r] \in Nat \cup {Absent}
      /\ MaxAge \in Nat /\ Skew \in Nat /\ CallLife \in Nat /\ Retention \in Nat
      /\ Retention >= MaxAge + Skew + CallLife
  BY DEF IInv, Types, SettlementAssumption
<1>2. CASE nonces[r] # Absent /\ nonces[r] < now - Retention
  <2>1. Remembered(now)[r] = Absent
    BY <1>2 DEF Remembered
  <2>2. nonces[r] >= signed[r] - Skew => clock > signed[r] + MaxAge + CallLife
    BY <1>1, <1>2 DEF Absent
  <2>. QED BY <2>1, <2>2 DEF IInv, NonceInv
<1>3. CASE ~(nonces[r] # Absent /\ nonces[r] < now - Retention)
  <2>1. Remembered(now)[r] = nonces[r]
    BY <1>3 DEF Remembered
  <2>. QED BY <1>1, <2>1 DEF IInv, NonceInv
<1>. QED BY <1>2, <1>3

\* The transaction commits, and whoever waits may or may not hear of it.
LEMMA CommitKeeps ==
  ASSUME SettlementAssumption, "nobody" \notin Reports, IInv, NEW c \in Calls,
         Commit(c) \/ CommitUnheard(c)
  PROVE  IInv'
<1> DEFINE r == call[c].report
           p == PaymentOf[r]
<1>1. /\ call[c].pc = "written" /\ Live(c) /\ r \in Reports /\ Effects(c)
      /\ clock' = clock /\ signed' = signed
      /\ Answer(c, "recorded") \/ Answer(c, "broken")
  BY DEF Commit, CommitUnheard, Live, IInv, CallsInv
<1>2. PICK told \in {"recorded", "broken"} : Answer(c, told)
  BY <1>1
<1>3. told \in Outcomes
  BY DEF Outcomes
<1>4. /\ call' = [call EXCEPT ![c].pc = "over"] /\ call' \in [Calls -> CallStates]
      /\ sender' \in [Reports -> SenderStates]
      /\ \A q \in Reports : \/ sender'[q] = sender[q]
                            \/ /\ q = r
                               /\ sender'[q].pc # "idle"
                               /\ sender'[q].result \in {sender[q].result, told, "failed"}
  BY <1>1, <1>2, <1>3, AnswerMoves DEF IInv
<1>5. /\ \A d \in Calls : d # c => call'[d] = call[d]
      /\ call'[c].pc = "over" /\ call'[c].report = r /\ call'[c].since = call[c].since
  BY <1>4 DEF IInv, Types, CallStates
<1>6. /\ call[c].now \in Nat /\ call[c].at \in Int /\ clock \in Nat /\ p \in Payments
      /\ sender[r].pc # "idle" /\ taken \in [Reports -> Nat]
  BY <1>1 DEF IInv, Types, CallsInv, CallStates, Payments
<1>7. /\ taken' \in [Reports -> Nat] /\ taken'[r] = taken[r] + 1 /\ taken'[r] > 0
      /\ \A q \in Reports : q # r => taken'[q] = taken[q]
  BY <1>1, <1>6 DEF Effects
<1>8. r \in Dated => /\ taken[r] = 0 /\ call[c].at = signed[r]
                    /\ signed[r] - Skew <= call[c].now /\ call[c].now <= clock
  BY <1>1 DEF IInv, OneClaim, Holds, RowInv, CallsInv, Live, YoungInv, Past, Open
<1>9. /\ nonces'[r] = call[c].now /\ nonces' \in [Reports -> Nat \cup {Absent}]
      /\ \A q \in Reports : q # r => nonces'[q] = Remembered(call[c].now)[q]
  <2>1. call[c].now <= clock
    BY <1>1 DEF IInv, CallsInv, Open
  <2>2. \A q \in Reports : Remembered(call[c].now)[q] \in Nat \cup {Absent}
    BY <1>6, <2>1, SweepIsSafe
  <2>3. nonces' = [Remembered(call[c].now) EXCEPT ![r] = call[c].now]
    BY <1>1 DEF Effects
  <2>4. Remembered(call[c].now) = [q \in Reports |-> Remembered(call[c].now)[q]]
    BY DEF Remembered
  <2> DEFINE left == Remembered(call[c].now)
  <2>5. left \in [Reports -> Nat \cup {Absent}]
    BY <2>2, <2>4
  <2> HIDE DEF left
  <2>6. nonces' = [left EXCEPT ![r] = call[c].now]
    BY <2>3 DEF left
  <2>7. \A q \in Reports : q # r => nonces'[q] = left[q]
    BY <1>1, <2>5, <2>6
  <2>. QED BY <1>1, <1>6, <2>5, <2>6, <2>7 DEF left
<1>10. /\ row' \in [Payments -> [at : Int, by : Reports \cup {"nobody"}]]
       /\ row'[p].by # "nobody"
       /\ \A x \in Payments : row[x].by # "nobody" =>
            row'[x].by # "nobody" /\ row'[x].at >= row[x].at
       /\ row'[p].at >= call[c].at
  <2>1. row \in [Payments -> [at : Int, by : Reports \cup {"nobody"}]]
    BY DEF IInv, Types
  <2>2. CASE Newer(row[p], call[c].at)
    <3>1. row' = [row EXCEPT ![p] = [at |-> call[c].at, by |-> r]]
      BY <1>1, <2>2 DEF Effects
    <3>2. row[p].by = "nobody" \/ row[p].at < call[c].at
      BY <2>2 DEF Newer
    <3>. QED BY <1>1, <1>6, <2>1, <3>1, <3>2
  <2>3. CASE ~Newer(row[p], call[c].at)
    <3>1. row' = row
      BY <1>1, <2>3 DEF Effects
    <3>2. row[p].by # "nobody" /\ ~(row[p].at < call[c].at)
      BY <2>3 DEF Newer
    <3>. QED BY <1>6, <2>1, <3>1, <3>2
  <2>. QED BY <2>2, <2>3
<1>11. Types'
  BY <1>1, <1>4, <1>7, <1>9, <1>10 DEF IInv, Types, Payments
<1>12. CallsInv'
  BY <1>1, <1>4, <1>5, <1>6 DEF IInv, Types, CallsInv, Live, Open
<1>13. YoungInv'
  BY <1>1, <1>5 DEF IInv, YoungInv, Past, Open
<1>14. OneClaim'
  <2>1. \A d \in Calls : Holds(d) /\ d # c => call[d].report # r
    BY <1>1 DEF IInv, OneClaim, Holds
  <2>. QED BY <1>5, <1>7, <2>1 DEF IInv, CallsInv, OneClaim, Holds
<1>15. NonceInv'
  <2> SUFFICES ASSUME NEW q \in Reports
               PROVE  /\ nonces'[q] # Absent => taken'[q] > 0
                      /\ taken'[q] > 0 => sender'[q].pc # "idle"
                      /\ sender'[q].pc = "idle" => sender'[q].attempt = 0
                      /\ q \in Dated /\ taken'[q] > 0 =>
                           \/ nonces'[q] # Absent /\ nonces'[q] >= signed[q] - Skew
                           \/ clock > signed[q] + MaxAge + CallLife
    BY <1>1 DEF NonceInv
  <2>1. CASE q = r
    BY <1>4, <1>6, <1>7, <1>8, <1>9, <2>1 DEF IInv, NonceInv, Absent
  <2>2. CASE q # r
    <3>1. call[c].now <= clock
      BY <1>1 DEF IInv, CallsInv, Open
    <3>2. /\ Remembered(call[c].now)[q] # Absent => taken[q] > 0
          /\ q \in Dated /\ taken[q] > 0 =>
               \/ Remembered(call[c].now)[q] # Absent /\ Remembered(call[c].now)[q] >= signed[q] - Skew
               \/ clock > signed[q] + MaxAge + CallLife
      BY <1>6, <3>1, SweepIsSafe
    <3>3. sender'[q] = sender[q] /\ taken'[q] = taken[q] /\ nonces'[q] = Remembered(call[c].now)[q]
      BY <1>4, <1>7, <1>9, <2>2
    <3>. QED BY <3>2, <3>3 DEF IInv, NonceInv
  <2>. QED BY <2>1, <2>2
<1>16. TakenOnce' /\ AnswersAreTrue'
  BY <1>1, <1>4, <1>6, <1>7, <1>8 DEF IInv, TakenOnce, AnswersAreTrue, SettlementAssumption
<1>17. RowInv' /\ NewestReportWins'
  <2>1. \A q \in Dated : q \in Reports /\ PaymentOf[q] \in Payments /\ signed[q] \in Int
    BY DEF IInv, Types, Payments, SettlementAssumption
  <2>2. \A x \in Payments : row[x].at \in Int /\ row'[x].at \in Int
    BY <1>10 DEF IInv, Types
  <2>3. ASSUME NEW q \in Dated, taken'[q] > 0
        PROVE  row'[PaymentOf[q]].by # "nobody" /\ row'[PaymentOf[q]].at >= signed[q]
    <3>1. CASE q = r
      BY <1>8, <1>10, <3>1
    <3>2. CASE q # r
      <4>1. row[PaymentOf[q]].by # "nobody" /\ row[PaymentOf[q]].at >= signed[q]
        BY <1>7, <2>1, <2>3, <3>2 DEF IInv, RowInv, NewestReportWins
      <4>. QED BY <1>10, <2>1, <2>2, <4>1
    <3>. QED BY <3>1, <3>2
  <2>. QED BY <1>1, <1>5, <2>3 DEF IInv, RowInv, NewestReportWins
<1>. QED BY <1>11, <1>12, <1>13, <1>14, <1>15, <1>16, <1>17 DEF IInv

-----------------------------------------------------------------------------
LEMMA Inductive ==
  ASSUME SettlementAssumption, "nobody" \notin Reports
  PROVE  Spec => []IInv
<1>1. Init => IInv
  BY DEF Init, IInv, Types, CallsInv, YoungInv, OneClaim, NonceInv, TakenOnce, AnswersAreTrue,
         RowInv, NewestReportWins, SenderStates, CallStates, Outcomes, NoSender, NoCall, Absent,
         Unreported, Live, Past, Open, Holds, SettlementAssumption
<1>2. IInv /\ [Next]_vars => IInv'
  <2> SUFFICES ASSUME IInv, [Next]_vars PROVE IInv'
    OBVIOUS
  <2>1. CASE Tick
    BY <2>1, TickKeeps
  <2>2. ASSUME NEW r \in Reports, Settle(r) \/ Post(r) \/ Repeat(r) \/ Break(r) \/ Abort(r)
        PROVE  IInv'
    BY <2>2, SellerKeeps, ArrivalKeeps
  <2>3. ASSUME NEW c \in Calls, Validate(c) \/ Begin(c) \/ ClaimNonce(c)
        PROVE  IInv'
    BY <2>3, ValidateKeeps, BeginKeeps, ClaimKeeps
  <2>4. ASSUME NEW c \in Calls, RecordSettlement(c) \/ Commit(c) \/ CommitUnheard(c)
        PROVE  IInv'
    BY <2>4, RecordKeeps, CommitKeeps
  <2>5. ASSUME NEW c \in Calls, Fail(c) PROVE IInv'
    <3>1. "broken" \in Outcomes
      BY DEF Outcomes
    <3>. QED BY <2>5, <3>1, EndKeeps DEF Fail, Undo
  <2>6. CASE UNCHANGED vars
    BY <2>6 DEF vars, IInv, Types, CallsInv, YoungInv, OneClaim, NonceInv, TakenOnce,
                AnswersAreTrue, RowInv, NewestReportWins, Live, Past, Open, Holds, Payments
  <2>. QED BY <2>1, <2>2, <2>3, <2>4, <2>5, <2>6 DEF Next
<1>. QED BY <1>1, <1>2, PTL DEF Spec

\* A dated report takes effect once, however its bytes are delayed, repeated
\* and swept from the nonce table between the check of its age and its claim.
THEOREM ReportsTakeEffectOnce ==
  ASSUME SettlementAssumption, "nobody" \notin Reports
  PROVE  Spec => []TakenOnce
<1>1. IInv => TakenOnce
  BY DEF IInv
<1>. QED BY <1>1, Inductive, PTL

\* What the SDK is told is true: recorded and replayed both mean the
\* attribution was committed.
THEOREM SdkIsToldTheTruth ==
  ASSUME SettlementAssumption, "nobody" \notin Reports
  PROVE  Spec => []AnswersAreTrue
<1>1. IInv => AnswersAreTrue
  BY DEF IInv
<1>. QED BY <1>1, Inductive, PTL

\* A payment carries the attribution of the newest report taken for it.
THEOREM NewestStays ==
  ASSUME SettlementAssumption, "nobody" \notin Reports
  PROVE  Spec => []NewestReportWins
<1>1. IInv => NewestReportWins
  BY DEF IInv
<1>. QED BY <1>1, Inductive, PTL

-----------------------------------------------------------------------------
(* Signing in.  The check of a challenge's time bounds and the spending of  *)
(* its nonce are apart, and the table of nonces is swept: the row of a      *)
(* challenge is there until it is spent, or until no call that passed the   *)
(* check can still run (RowsInv), and who spent it was alone (SpentInv).    *)

time == v1
loginPage == v2
built == v3
loginTable == v4
post == v5
sessions == v6
deaths == v7

USE DEF time, loginPage, built, loginTable, post, sessions, deaths

(* A step of one call, which touches nothing else. *)
LEMMA ChallengeGoes ==
  ASSUME Login!LoginAssumption, Login!LoginInv, NEW p \in Posts, NEW x \in Login!Call,
         post' = [post EXCEPT ![p] = x], UNCHANGED <<time, loginPage, built, loginTable, sessions>>,
         x.pc # "free", x.pc # "consumed", x.result # "session", x.nonce \in Nonces,
         loginPage[x.nonce] = "signed",
         x.result # "none" => x.pc = "over", x.pc # "over" => x.since <= time
           /\ time <= x.since + CallLife,
         x.pc = "checked" => x.since <= built[x.nonce] + LoginTTL,
         post[p].pc = "consumed" => x.result = "error",
         post[p].result \notin {"session", "error"},
         post[p].pc # "free" => x.nonce = post[p].nonce,
         x.result = "reused" => \E q \in Posts \ {p} : Login!Spends(q, x.nonce)
  PROVE  Login!LoginInv'
<1> USE DEF Login!LoginInv
<1>1. /\ post' \in [Posts -> Login!Call] /\ post'[p] = x
      /\ \A q \in Posts : q # p => post'[q] = post[q]
  BY DEF Login!Typed
<1>2. \A q \in Posts, n \in Nonces : Login!Spends(q, n) => Login!Spends(q, n)'
  <2> SUFFICES ASSUME NEW q \in Posts, NEW n \in Nonces, Login!Spends(q, n)
        PROVE Login!Spends(q, n)'
    OBVIOUS
  <2>1. CASE q = p
    BY <1>1, <2>1 DEF Login!Spends
  <2>2. CASE q # p
    BY <1>1, <2>2 DEF Login!Spends
  <2>. QED BY <2>1, <2>2
<1>3. Login!Typed'
  BY <1>1 DEF Login!Typed
<1>4. Login!CallsInv'
  BY <1>1 DEF Login!CallsInv, Login!Running
<1>5. Login!RowsInv'
  BY <1>2 DEF Login!RowsInv, Login!Unspent
<1>6. Login!SpentInv'
  BY <1>1 DEF Login!SpentInv, Login!Unspent
<1>7. Login!ReusedInv'
  <2> SUFFICES ASSUME NEW q \in Posts, NEW n \in Nonces, post'[q].result = "reused",
                      post'[q].nonce = n
               PROVE  \E o \in Posts \ {q} : Login!Spends(o, n)'
    BY DEF Login!ReusedInv
  <2>1. PICK o \in Posts \ {q} : Login!Spends(o, n)
    BY <1>1 DEF Login!ReusedInv
  <2>. QED BY <1>2, <2>1
<1>. QED BY <1>3, <1>4, <1>5, <1>6, <1>7

(* Every step keeps the invariant. *)
LEMMA LoginStep ==
  ASSUME Login!LoginAssumption, Login!LoginInv, [Login!Next]_(Login!vars)
  PROVE  Login!LoginInv'
<1> USE DEF Login!LoginInv
<1>1. CASE Login!Tick
  <2> USE <1>1 DEF Login!Tick
  <2>1. \A p \in Posts, n \in Nonces : Login!Spends(p, n)' <=> Login!Spends(p, n)
    BY DEF Login!Spends
  <2>2. Login!Typed' /\ Login!CallsInv'
    <3>1. Login!Typed' /\ CallLife \in Nat
      BY DEF Login!Typed, Login!LoginAssumption
    <3>2. \A p \in Posts : Login!Running(p) => /\ time + 1 <= post[p].since + CallLife
                                          /\ post[p].since <= time + 1
      BY <3>1 DEF Login!Typed, Login!Call, Login!CallsInv
    <3>. QED BY <3>1, <3>2 DEF Login!CallsInv, Login!Running
  <2>3. Login!RowsInv'
    <3> SUFFICES ASSUME NEW n \in Nonces
                 PROVE  /\ loginPage[n] \in {"sweeping", "signed"} =>
                             \/ Login!Unspent(loginTable[n]) /\ loginTable[n].at >= built[n]
                             \/ \E p \in Posts : Login!Spends(p, n)'
                             \/ time + 1 > built[n] + LoginTTL + CallLife
                        /\ loginPage[n] # "signed" => sessions[n] = 0
                        /\ built[n] <= time + 1
      BY DEF Login!RowsInv, Login!Unspent
    <3>1. time \in Nat /\ built[n] \in Int /\ LoginTTL \in Nat /\ CallLife \in Nat
      BY DEF Login!Typed, Login!LoginAssumption
    <3>2. CASE \E p \in Posts : Login!Spends(p, n)
      BY <2>1, <3>1, <3>2 DEF Login!RowsInv
    <3>3. CASE ~\E p \in Posts : Login!Spends(p, n)
      BY <3>1, <3>3 DEF Login!RowsInv
    <3>. QED BY <3>2, <3>3
  <2>. QED BY <2>1, <2>2, <2>3 DEF Login!SpentInv, Login!ReusedInv, Login!Unspent
<1>2. ASSUME NEW n \in Nonces, Login!HandleLogin(n) PROVE Login!LoginInv'
  <2> USE <1>2 DEF Login!HandleLogin
  <2>1. \A p \in Posts, m \in Nonces : Login!Spends(p, m)' <=> Login!Spends(p, m)
    BY DEF Login!Spends
  <2>2. Login!Typed'
    BY DEF Login!Typed
  <2>3. Login!CallsInv' /\ Login!RowsInv'
    BY <2>1 DEF Login!Typed, Login!CallsInv, Login!Running, Login!Call, Login!RowsInv, Login!Unspent
  <2>. QED BY <2>1, <2>2, <2>3 DEF Login!SpentInv, Login!ReusedInv, Login!Unspent
<1>3. ASSUME NEW n \in Nonces, Login!StoreNonce(n) PROVE Login!LoginInv'
  <2> USE <1>3 DEF Login!StoreNonce
  <2>1. \A p \in Posts, m \in Nonces : Login!Spends(p, m)' <=> Login!Spends(p, m)
    BY DEF Login!Spends
  <2>2. Login!Typed' /\ Login!CallsInv'
    BY DEF Login!Typed, Login!CallsInv, Login!Running, Login!Call, Login!Row
  <2>3. Login!RowsInv'
    BY <2>1 DEF Login!Typed, Login!RowsInv, Login!Unspent, Login!Row, Login!Absent
  <2>4. Login!SpentInv' /\ Login!ReusedInv'
    BY <2>1 DEF Login!Typed, Login!SpentInv, Login!ReusedInv, Login!Unspent, Login!CallsInv,
                Login!RowsInv
  <2>. QED BY <2>2, <2>3, <2>4
<1>4. ASSUME NEW n \in Nonces, Login!SweepExpiredNonces(n) PROVE Login!LoginInv'
  <2> USE <1>4 DEF Login!SweepExpiredNonces
  <2>1. \A p \in Posts, m \in Nonces : Login!Spends(p, m)' <=> Login!Spends(p, m)
    BY DEF Login!Spends
  <2>2. Login!Typed' /\ Login!CallsInv'
    BY DEF Login!Typed, Login!CallsInv, Login!Running, Login!Call, Login!Row, Login!Absent
  <2>3. Login!RowsInv'
    BY <2>1 DEF Login!Typed, Login!RowsInv, Login!Unspent, Login!Row, Login!Stale,
                Login!LoginAssumption
  <2>4. Login!SpentInv' /\ Login!ReusedInv'
    BY <2>1 DEF Login!Typed, Login!SpentInv, Login!ReusedInv, Login!Unspent, Login!Stale,
                Login!CallsInv
  <2>. QED BY <2>2, <2>3, <2>4
<1>5. ASSUME NEW n \in Nonces, Login!Verify(n) PROVE Login!LoginInv'
  <2>1. PICK p \in Posts : /\ post[p].pc = "free"
            /\ post' = [post EXCEPT ![p] = [Login!NoPost EXCEPT !.pc = "received", !.nonce = n, !.since = time]]
    BY <1>5 DEF Login!Verify
  <2> DEFINE x == [Login!NoPost EXCEPT !.pc = "received", !.nonce = n, !.since = time]
  <2>3. Login!NoPost \in [pc : {"free", "received", "checked", "consumed", "over"}, nonce : Nonces \cup {"none"},
         since : Nat, result : {"none", "expired", "reused", "session", "error"}] /\ time \in Nat
           /\ CallLife \in Nat
    BY DEF Login!NoPost, Login!Call, Login!Typed, Login!LoginAssumption
  <2>2. x \in Login!Call /\ x.pc = "received" /\ x.nonce = n /\ x.since = time /\ x.result = "none"
    BY <2>3 DEF Login!NoPost, Login!Call
  <2>4. post[p].result = "none"
    BY <2>1 DEF Login!CallsInv, Login!Typed, Login!Call
  <2>5. post' = [post EXCEPT ![p] = x]
    BY <2>1
  <2>6. UNCHANGED <<time, loginPage, built, loginTable, sessions>> /\ loginPage[n] = "signed"
        /\ time <= time + CallLife /\ time <= time
    BY <1>5, <2>3 DEF Login!Verify
  <2> HIDE DEF x
  <2>. QED BY <2>1, <2>2, <2>4, <2>5, <2>6, ChallengeGoes
<1>6. ASSUME NEW p \in Posts, Login!CheckChallenge(p) PROVE Login!LoginInv'
  <2>1. /\ post[p] \in Login!Call /\ post[p].pc = "received" /\ post[p].result = "none"
        /\ post[p].nonce \in Nonces /\ loginPage[post[p].nonce] = "signed"
        /\ time <= post[p].since + CallLife /\ post[p].since <= time
    BY <1>6 DEF Login!CheckChallenge, Login!Typed, Login!Call, Login!CallsInv, Login!Running
  <2>2. CASE Login!InTimeBounds(post[p].nonce)
    <3> DEFINE x == [post[p] EXCEPT !.pc = "checked"]
    <3>1. x \in Login!Call /\ x.pc = "checked" /\ x.nonce = post[p].nonce /\ x.since = post[p].since
          /\ x.result = "none"
      BY <2>1 DEF Login!Call
    <3>2. post' = [post EXCEPT ![p] = x]
          /\ UNCHANGED <<time, loginPage, built, loginTable, sessions>>
      BY <1>6, <2>2 DEF Login!CheckChallenge, Login!Typed
    <3>3. x.since <= built[x.nonce] + LoginTTL
      BY <2>1, <2>2, <3>1 DEF Login!InTimeBounds, Login!Typed, Login!Call, Login!LoginAssumption
    <3> HIDE DEF x
    <3>. QED BY <2>1, <3>1, <3>2, <3>3, ChallengeGoes
  <2>3. CASE ~Login!InTimeBounds(post[p].nonce)
    <3> DEFINE x == [post[p] EXCEPT !.pc = "over", !.result = "expired"]
    <3>1. x \in Login!Call /\ x.pc = "over" /\ x.nonce = post[p].nonce /\ x.result = "expired"
      BY <2>1 DEF Login!Call
    <3>2. post' = [post EXCEPT ![p] = x]
          /\ UNCHANGED <<time, loginPage, built, loginTable, sessions>>
      BY <1>6, <2>3 DEF Login!CheckChallenge, Login!Typed
    <3> HIDE DEF x
    <3>. QED BY <2>1, <3>1, <3>2, ChallengeGoes
  <2>. QED BY <2>2, <2>3
<1>7. ASSUME NEW p \in Posts, Login!ConsumeNonce(p) PROVE Login!LoginInv'
  <2> DEFINE n == post[p].nonce
  <2>1. /\ post[p] \in Login!Call /\ post[p].pc = "checked" /\ post[p].result = "none"
        /\ n \in Nonces /\ loginPage[n] = "signed"
        /\ time <= post[p].since + CallLife /\ post[p].since <= built[n] + LoginTTL
    BY <1>7 DEF Login!ConsumeNonce, Login!Typed, Login!Call, Login!CallsInv, Login!Running
  <2>2. CASE Login!Unspent(loginTable[n])
    <3>1. /\ post' = [post EXCEPT ![p].pc = "consumed"]
          /\ loginTable' = [loginTable EXCEPT ![n].consumed = TRUE]
          /\ UNCHANGED <<time, loginPage, built, sessions>>
      BY <1>7, <2>2 DEF Login!ConsumeNonce
    <3>2. \A q \in Posts, m \in Nonces : Login!Spends(q, m) => Login!Spends(q, m)'
      BY <2>1, <3>1 DEF Login!Typed, Login!Call, Login!Spends
    <3>3. Login!Spends(p, n)'
      BY <2>1, <3>1 DEF Login!Typed, Login!Call, Login!Spends
    <3>4. Login!Typed' /\ Login!CallsInv'
      BY <2>1, <3>1 DEF Login!Typed, Login!Call, Login!CallsInv, Login!Row, Login!Running
    <3>5. Login!RowsInv'
      BY <2>1, <3>1, <3>2, <3>3 DEF Login!Typed, Login!RowsInv, Login!Unspent, Login!Row
    <3>6. Login!SpentInv'
      <4>1. sessions[n] = 0 /\ \A q \in Posts : post[q].pc = "consumed" => post[q].nonce # n
        BY <2>1, <2>2 DEF Login!Typed, Login!SpentInv
      <4>2. \A m \in Nonces : Login!Unspent(loginTable'[m]) <=> m # n
            /\ Login!Unspent(loginTable[m])
        BY <2>1, <3>1 DEF Login!Typed, Login!Row, Login!Unspent
      <4>3. \A q \in Posts : /\ post'[q].nonce = post[q].nonce
                             /\ post'[q].pc = IF q = p THEN "consumed" ELSE post[q].pc
        BY <2>1, <3>1 DEF Login!Typed, Login!Call
      <4>. QED BY <2>1, <3>1, <4>1, <4>2, <4>3 DEF Login!SpentInv, Login!Unspent, Login!CallsInv
    <3>7. Login!ReusedInv'
      BY <2>1, <3>1, <3>2 DEF Login!Typed, Login!Call, Login!ReusedInv
    <3>. QED BY <3>4, <3>5, <3>6, <3>7
  <2>3. CASE ~Login!Unspent(loginTable[n])
    <3> DEFINE x == [post[p] EXCEPT !.pc = "over", !.result = "reused"]
    <3>1. x \in Login!Call /\ x.pc = "over" /\ x.nonce = n /\ x.result = "reused"
      BY <2>1 DEF Login!Call
    <3>2. post' = [post EXCEPT ![p] = x]
          /\ UNCHANGED <<time, loginPage, built, loginTable, sessions>>
      BY <1>7, <2>3 DEF Login!ConsumeNonce, Login!Typed
    <3>3. ~(time > built[n] + LoginTTL + CallLife)
      BY <2>1 DEF Login!Typed, Login!Call, Login!LoginAssumption
    <3>4. PICK q \in Posts : Login!Spends(q, n)
      BY <2>1, <2>3, <3>3 DEF Login!RowsInv
    <3>5. q # p
      BY <2>1, <3>4 DEF Login!Spends
    <3> HIDE DEF x
    <3>. QED BY <2>1, <3>1, <3>2, <3>4, <3>5, ChallengeGoes
  <2>. QED BY <2>2, <2>3
<1>8. ASSUME NEW p \in Posts, Login!CreateSession(p) PROVE Login!LoginInv'
  <2> DEFINE n == post[p].nonce
  <2>1. /\ post[p] \in Login!Call /\ post[p].pc = "consumed" /\ post[p].result = "none"
        /\ n \in Nonces /\ loginPage[n] = "signed" /\ sessions[n] = 0
           /\ ~Login!Unspent(loginTable[n])
    BY <1>8 DEF Login!CreateSession, Login!Typed, Login!Call, Login!CallsInv, Login!SpentInv
  <2>2. /\ post' = [post EXCEPT ![p].pc = "over", ![p].result = "session"]
        /\ sessions' = [sessions EXCEPT ![n] = 1]
        /\ UNCHANGED <<time, loginPage, built, loginTable>>
    BY <1>8, <2>1 DEF Login!CreateSession, Login!Typed
  <2>3. \A q \in Posts, m \in Nonces : Login!Spends(q, m) => Login!Spends(q, m)'
    BY <2>1, <2>2 DEF Login!Typed, Login!Call, Login!Spends
  <2>4. Login!Typed' /\ Login!CallsInv'
    BY <2>1, <2>2 DEF Login!Typed, Login!Call, Login!CallsInv, Login!Running
  <2>5. Login!RowsInv'
    BY <2>1, <2>2, <2>3 DEF Login!Typed, Login!RowsInv, Login!Unspent
  <2>6. Login!SpentInv'
    BY <2>1, <2>2 DEF Login!Typed, Login!Call, Login!SpentInv, Login!Unspent, Login!CallsInv
  <2>7. Login!ReusedInv'
    BY <2>1, <2>2, <2>3 DEF Login!Typed, Login!Call, Login!ReusedInv
  <2>. QED BY <2>4, <2>5, <2>6, <2>7
<1>9. CASE Login!Die
  <2>1. ASSUME NEW n \in Nonces, loginPage[n] \in {"storing", "sweeping"},
               loginPage' = [loginPage EXCEPT ![n] = "failed"],
               UNCHANGED <<time, built, loginTable, post, sessions>>
        PROVE  Login!LoginInv'
    <3> USE <2>1
    <3>1. \A p \in Posts, m \in Nonces : Login!Spends(p, m)' <=> Login!Spends(p, m)
      BY DEF Login!Spends
    <3>3. Login!Typed' /\ Login!CallsInv' /\ Login!RowsInv'
      BY <3>1 DEF Login!Typed, Login!CallsInv, Login!Running, Login!RowsInv, Login!Unspent
    <3>. QED BY <3>1, <3>3 DEF Login!SpentInv, Login!ReusedInv, Login!Unspent
  <2>2. ASSUME NEW p \in Posts, Login!Running(p),
               post' = [post EXCEPT ![p].pc = "over", ![p].result = "error"],
               UNCHANGED <<time, loginPage, built, loginTable, sessions>>
        PROVE  Login!LoginInv'
    <3> DEFINE x == [post[p] EXCEPT !.pc = "over", !.result = "error"]
    <3>1. /\ post[p] \in Login!Call /\ post[p].result = "none" /\ post[p].nonce \in Nonces
          /\ loginPage[post[p].nonce] = "signed"
      BY <2>2 DEF Login!Typed, Login!Call, Login!CallsInv, Login!Running
    <3>2. x \in Login!Call /\ x.pc = "over" /\ x.nonce = post[p].nonce /\ x.result = "error"
      BY <3>1 DEF Login!Call
    <3>3. post' = [post EXCEPT ![p] = x]
      BY <2>2 DEF Login!Typed
    <3> HIDE DEF x
    <3>. QED BY <2>2, <3>1, <3>2, <3>3, ChallengeGoes
  <2>. QED BY <1>9, <2>1, <2>2 DEF Login!Die
<1>10. CASE UNCHANGED Login!vars
  BY <1>10 DEF Login!vars, Login!Typed, Login!CallsInv, Login!Running, Login!RowsInv,
               Login!Unspent, Login!SpentInv, Login!ReusedInv, Login!Spends
<1>. QED BY <1>1, <1>2, <1>3, <1>4, <1>5, <1>6, <1>7, <1>8, <1>9, <1>10 DEF Login!Next

LEMMA LoginHolds ==
  ASSUME Login!LoginAssumption
  PROVE  Login!Spec => []Login!OneSessionEach
<1>1. Login!Init => Login!LoginInv
  BY DEF Login!Init, Login!LoginInv, Login!Typed, Login!CallsInv, Login!RowsInv, Login!SpentInv,
     Login!ReusedInv, Login!NoPost, Login!Call, Login!Row, Login!Absent, Login!Running,
     Login!Unspent
<1>2. Login!LoginInv /\ [Login!Next]_(Login!vars) => Login!LoginInv'
  BY LoginStep
<1>3. Login!LoginInv => Login!OneSessionEach
  BY DEF Login!LoginInv, Login!SpentInv, Login!ReusedInv, Login!Spends, Login!OneSessionEach,
     Login!CallsInv, Login!Typed, Login!Call
<1>. QED BY <1>1, <1>2, <1>3, PTL DEF Login!Spec

(* MCServices stays with the machine it starts in and steps as its module.  *)
LEMMA LoginRuns == MCSpec => []~(machine = "login") \/ Login!Spec
<1>1. MCInit /\ machine = "login" => Login!Init
  BY DEF MCInit
<1>2. machine = "login" /\ [MCNext]_all => (machine = "login")' /\ [Login!Next]_(Login!vars)
  BY DEF MCNext, all, inst, Login!vars
<1>3. ~(machine = "login") /\ [MCNext]_all => (~(machine = "login"))'
  BY DEF MCNext, all
<1>. QED BY <1>1, <1>2, <1>3, PTL DEF MCSpec, Login!Spec

(* A challenge serves one session, and is used up only by it or by a call   *)
(* that died, however calls of verify overlap, die and wait, and the nonces *)
(* are swept between the check of a challenge and its use.                  *)
THEOREM ChallengesServeOnce ==
  ASSUME Login!LoginAssumption
  PROVE  MCSpec => []OneSessionEach
<1>1. Login!Spec => []Login!OneSessionEach
  BY LoginHolds
<1>2. ~(machine = "login") \/ Login!OneSessionEach => OneSessionEach
  BY DEF OneSessionEach
<1>. QED BY <1>1, <1>2, LoginRuns, PTL

-----------------------------------------------------------------------------
(* The second factor.  A request reads the row, compares and writes in      *)
(* steps of their own: what it compared with was the stored secret at some  *)
(* moment since it began (EarnedInv).                                       *)

enrolment == v1
issued == v2
hits == v3
request == v4
modal == v5
factorStored == v6

USE DEF enrolment, issued, hits, request, modal, factorStored

(* One request goes on, holding what it may.                                *)
LEMMA CodeRequestGoes ==
  ASSUME Factor!EarnedInv, NEW r \in CodeRequests, NEW q \in Factor!Call,
         request' = [request EXCEPT ![r] = q],
         UNCHANGED <<enrolment, issued, factorStored>>, Factor!Held(q, factorStored[r]),
         request[r].pc \notin {"idle", "done"}
  PROVE  Factor!EarnedInv'
BY DEF Factor!EarnedInv, Factor!Shaped

(* A request that arrives knows the secret stored now.                      *)
LEMMA PostKeeps ==
  ASSUME Factor!TwoFactorAssumption, Factor!EarnedInv, NEW r \in CodeRequests,
         NEW kind \in Factor!Kinds,
         NEW token \in Factor!Tokens, NEW by \in {"client", "modal"},
         Factor!Submit(r, kind, token, by)
  PROVE  Factor!EarnedInv'
<1> DEFINE q == [Factor!Idle EXCEPT !.pc = "limited", !.kind = kind, !.token = token, !.by = by]
<1>0. token \in [form : {"digits", "recovery"}, of : Nat]
  BY DEF Factor!Tokens, Factor!Digits, Factor!Recovery, Factor!TwoFactorAssumption
<1>1. Factor!Idle \in Factor!Call
  BY DEF Factor!Idle, Factor!Call, Factor!Row, Factor!NoRow
<1>2. q \in Factor!Call /\ q.pc = "limited" /\ q.result = "none"
  BY <1>0, <1>1 DEF Factor!Call, Factor!Idle
<1>3. request[r] \in Factor!Call /\ enrolment \in Factor!Row /\ UNCHANGED <<enrolment, issued>>
      /\ factorStored' = [factorStored EXCEPT ![r] = {enrolment.secret}]
         /\ {enrolment.secret} \in SUBSET Nat
  BY DEF Factor!EarnedInv, Factor!Shaped, Factor!Row, Factor!Submit
<1>4. ASSUME NEW x \in Factor!Call, request' = [request EXCEPT ![r] = x],
             x.pc \in {"limited", "done"}, x.result # "ok"
      PROVE  Factor!EarnedInv'
  BY <1>3, <1>4 DEF Factor!EarnedInv, Factor!Shaped, Factor!Held
<1>5. CASE request' = [request EXCEPT ![r] = q]
  BY <1>2, <1>4, <1>5
<1>6. ASSUME NEW how \in {"malformed", "blocked"},
             request' = [request EXCEPT ![r] = [q EXCEPT !.pc = "done", !.result = how]]
      PROVE  Factor!EarnedInv'
  <2> DEFINE x == [q EXCEPT !.pc = "done", !.result = how]
  <2>1. x \in Factor!Call /\ x.pc = "done" /\ x.result = how
    BY <1>2 DEF Factor!Call
  <2> HIDE DEF x
  <2>2. request' = [request EXCEPT ![r] = x]
    BY <1>6 DEF x
  <2>. QED BY <2>1, <2>2, <1>4
<1>. QED BY <1>5, <1>6 DEF Factor!Submit

(* A request is answered without having stored anything.                    *)
LEMMA RequestCloses ==
  ASSUME Factor!EarnedInv, NEW r \in CodeRequests,
         NEW how \in {"ok", "invalid", "not enabled", "not enrolled"},
         Factor!Ended(r, how), UNCHANGED <<enrolment, issued, factorStored>>,
         request[r].pc \notin {"idle", "done"}, how = "ok" => request[r].kind = "activate"
  PROVE  Factor!EarnedInv'
<1>0. request[r] \in Factor!Call /\ Factor!Held(request[r], factorStored[r])
  BY DEF Factor!EarnedInv, Factor!Shaped
<1> DEFINE q == [request[r] EXCEPT !.pc = "done", !.result = how]
<1>1. q \in Factor!Call /\ q.pc = "done" /\ q.result = how /\ q.kind = request[r].kind
      /\ q.token = request[r].token
  BY <1>0 DEF Factor!Call
<1>2. request' = [request EXCEPT ![r] = q]
  BY DEF Factor!Ended, Factor!EarnedInv, Factor!Shaped
<1>3. Factor!Held(q, factorStored[r])
  BY <1>0, <1>1 DEF Factor!Held
<1> HIDE DEF q
<1>. QED BY <1>1, <1>2, <1>3, CodeRequestGoes

(* Every step keeps the invariant. *)
LEMMA EarnedStep ==
  ASSUME Factor!TwoFactorAssumption, Factor!EarnedInv, [Factor!Next]_(Factor!vars)
  PROVE  Factor!EarnedInv'
<1>1. CASE Factor!StorePending /\ UNCHANGED request
  BY <1>1 DEF Factor!StorePending, Factor!EarnedInv, Factor!Shaped, Factor!Row, Factor!Held
<1>2. CASE UNCHANGED <<enrolment, issued, request, factorStored>>
  BY <1>2 DEF Factor!EarnedInv, Factor!Shaped
<1>3. ASSUME NEW r \in CodeRequests, Factor!Post(r) \/ Factor!ModalVerify(r) PROVE Factor!EarnedInv'
  BY <1>3, PostKeeps DEF Factor!Post, Factor!ModalVerify, Factor!Kinds, Factor!Tokens
<1>4. ASSUME NEW r \in CodeRequests, Factor!IsTotpEnabled(r) PROVE Factor!EarnedInv'
  <2>1. request[r] \in Factor!Call /\ request[r].pc = "limited"
        /\ Factor!Held(request[r], factorStored[r])
        /\ UNCHANGED <<enrolment, issued, factorStored>>
    BY <1>4 DEF Factor!IsTotpEnabled, Factor!EarnedInv, Factor!Shaped
  <2>2. CASE request' = [request EXCEPT ![r].pc = "enabled"]
    <3> DEFINE q == [request[r] EXCEPT !.pc = "enabled"]
    <3>1. q \in Factor!Call /\ Factor!Held(q, factorStored[r])
      BY <2>1 DEF Factor!Call, Factor!Held
    <3>2. request' = [request EXCEPT ![r] = q]
      BY <2>2 DEF Factor!EarnedInv, Factor!Shaped
    <3> HIDE DEF q
    <3>. QED BY <2>1, <3>1, <3>2, CodeRequestGoes
  <2>3. CASE Factor!Ended(r, "not enabled")
    BY <2>1, <2>3, RequestCloses
  <2>. QED BY <1>4, <2>2, <2>3 DEF Factor!IsTotpEnabled
<1>5. ASSUME NEW r \in CodeRequests, Factor!GetTotpRecord(r) PROVE Factor!EarnedInv'
  <2>1. /\ request[r] \in Factor!Call /\ request[r].pc \in {"limited", "enabled"}
        /\ Factor!Held(request[r], factorStored[r]) /\ UNCHANGED <<enrolment, issued, factorStored>>
        /\ enrolment \in Factor!Row /\ enrolment.secret \in factorStored[r] \cup {0}
    BY <1>5 DEF Factor!GetTotpRecord, Factor!EarnedInv, Factor!Shaped
  <2>2. CASE Factor!Ended(r, "not enrolled")
    BY <2>1, <2>2, RequestCloses
  <2>3. CASE Factor!Ended(r, "ok") /\ request[r].kind = "activate"
    BY <2>1, <2>3, RequestCloses
  <2>4. CASE /\ enrolment.secret # 0
             /\ request' = [request EXCEPT ![r].pc = "compare", ![r].record = enrolment]
    <3> DEFINE q == [request[r] EXCEPT !.pc = "compare", !.record = enrolment]
    <3>1. q \in Factor!Call /\ q.pc = "compare" /\ q.record = enrolment
          /\ q.result = request[r].result
      BY <2>1 DEF Factor!Call
    <3>2. Factor!Held(q, factorStored[r])
      BY <2>1, <2>4, <3>1 DEF Factor!Held
    <3>3. request' = [request EXCEPT ![r] = q]
      BY <2>4 DEF Factor!EarnedInv, Factor!Shaped
    <3> HIDE DEF q
    <3>. QED BY <2>1, <3>1, <3>2, <3>3, CodeRequestGoes
  <2>. QED BY <1>5, <2>2, <2>3, <2>4 DEF Factor!GetTotpRecord
<1>6. ASSUME NEW r \in CodeRequests, Factor!Compare(r) PROVE Factor!EarnedInv'
  <2>1. /\ request[r] \in Factor!Call /\ request[r].pc = "compare"
        /\ Factor!Held(request[r], factorStored[r]) /\ UNCHANGED <<enrolment, issued, factorStored>>
    BY <1>6 DEF Factor!Compare, Factor!EarnedInv, Factor!Shaped
  <2>2. CASE Factor!Ended(r, "invalid")
    BY <2>1, <2>2, RequestCloses
  <2>3. CASE Factor!RightCode(r) /\ request' = [request EXCEPT ![r].pc = "proved"]
    <3> DEFINE q == [request[r] EXCEPT !.pc = "proved"]
    <3>1. q \in Factor!Call /\ Factor!Held(q, factorStored[r])
      BY <2>1, <2>3 DEF Factor!Call, Factor!Held, Factor!RightCode
    <3>2. request' = [request EXCEPT ![r] = q]
      BY <2>3 DEF Factor!EarnedInv, Factor!Shaped
    <3> HIDE DEF q
    <3>. QED BY <2>1, <3>1, <3>2, CodeRequestGoes
  <2>. QED BY <1>6, <2>2, <2>3 DEF Factor!Compare
<1>7. ASSUME NEW r \in CodeRequests, Factor!Conclude(r) PROVE Factor!EarnedInv'
  <2>1. /\ request[r] \in Factor!Call /\ request[r].pc = "proved"
           /\ Factor!Held(request[r], factorStored[r])
        /\ UNCHANGED <<issued, factorStored>> /\ enrolment \in Factor!Row
    BY <1>7 DEF Factor!Conclude, Factor!EarnedInv, Factor!Shaped
  <2>2. enrolment' \in Factor!Row /\ enrolment'.secret \in {enrolment.secret, 0}
    <3>1. Factor!NoRow \in Factor!Row /\ Factor!NoRow.secret = 0
      BY DEF Factor!NoRow, Factor!Row
    <3>2. [enrolment EXCEPT !.enabled = TRUE] \in Factor!Row
          /\ [enrolment EXCEPT !.enabled = TRUE].secret = enrolment.secret
      BY <2>1 DEF Factor!Row
    <3>3. enrolment' \in {Factor!NoRow, [enrolment EXCEPT !.enabled = TRUE], enrolment}
      BY <1>7, Zenon DEF Factor!Conclude, Factor!Write
    <3>. QED BY <2>1, <3>1, <3>2, <3>3
  <2> DEFINE q == [request[r] EXCEPT !.pc = "done", !.result = "ok"]
  <2>3. q \in Factor!Call /\ q.pc = "done" /\ Factor!Held(q, factorStored[r])
    BY <2>1 DEF Factor!Call, Factor!Held
  <2>4. request' = [request EXCEPT ![r] = q]
    BY <1>7 DEF Factor!Conclude, Factor!Ended, Factor!EarnedInv, Factor!Shaped
  <2> HIDE DEF q
  <2>. QED BY <2>1, <2>2, <2>3, <2>4 DEF Factor!EarnedInv, Factor!Shaped
<1>. QED BY <1>1, <1>2, <1>3, <1>4, <1>5, <1>6, <1>7
         DEF Factor!Next, Factor!vars, Factor!Generate, Factor!OpenModal, Factor!CloseModal,
             Factor!Lapse, Factor!ModalAnswer

LEMMA FactorHolds ==
  ASSUME Factor!TwoFactorAssumption
  PROVE  Factor!Spec => []Factor!ProofsAreEarned
<1>1. Factor!Init => Factor!EarnedInv
  BY DEF Factor!Init, Factor!EarnedInv, Factor!Shaped, Factor!Held, Factor!Idle, Factor!Call,
     Factor!Row, Factor!NoRow
<1>2. Factor!EarnedInv /\ [Factor!Next]_(Factor!vars) => Factor!EarnedInv'
  BY EarnedStep
<1>3. Factor!EarnedInv => Factor!ProofsAreEarned
  BY DEF Factor!EarnedInv, Factor!Held, Factor!ProofsAreEarned
<1>. QED BY <1>1, <1>2, <1>3, PTL DEF Factor!Spec

LEMMA FactorRuns == MCSpec => []~(machine = "factor") \/ Factor!Spec
<1>1. MCInit /\ machine = "factor" => Factor!Init
  BY DEF MCInit
<1>2. machine = "factor" /\ [MCNext]_all => (machine = "factor")' /\ [Factor!Next]_(Factor!vars)
  BY DEF MCNext, all, inst, Factor!vars
<1>3. ~(machine = "factor") /\ [MCNext]_all => (~(machine = "factor"))'
  BY DEF MCNext, all
<1>. QED BY <1>1, <1>2, <1>3, PTL DEF MCSpec, Factor!Spec

(* Nobody switches the second factor off, or passes its challenge, without  *)
(* a code of a secret that was stored while the request ran, whatever       *)
(* requests and enrolments overlap.                                         *)
THEOREM ProofsAreAlwaysEarned ==
  ASSUME Factor!TwoFactorAssumption
  PROVE  MCSpec => []ProofsAreEarned
<1>1. Factor!Spec => []Factor!ProofsAreEarned
  BY FactorHolds
<1>2. ~(machine = "factor") \/ Factor!ProofsAreEarned => ProofsAreEarned
  BY DEF ProofsAreEarned
<1>. QED BY <1>1, <1>2, FactorRuns, PTL

-----------------------------------------------------------------------------
(* Roles and stores.  A token names a store beside the organization that    *)
(* had it when the route looked; a store never changes hands (TokensAreOwn).*)

storeSession == v1
cookie == v2
orgOf == v3
tuples == v4
calls == v5
used == v6
signIns == v7

USE DEF storeSession, cookie, orgOf, tuples, calls, used, signIns

(* The scope of a session is its organization or a store of it.             *)
LEMMA ScopeIsKnown ==
  ASSUME Store!StoresAssumption, Store!StoresInv
  PROVE  Store!ScopeIsOwn /\ (storeSession # Store!None => Store!Scope \in Orgs \cup Addresses)
BY DEF Store!StoresAssumption, Store!StoresInv, Store!Shaped, Store!TokensAreOwn, Store!ScopeIsOwn,
   Store!Scope, Store!ActiveStore

(* A call of a route that has looked nothing up yet.                        *)
LEMMA StoreCallKeeps ==
  ASSUME Store!StoresAssumption, Store!StoresInv,
         NEW c \in Store!CreateCalls \cup Store!SelectCalls \cup Store!RoleCalls,
         Store!Call(c), c.step # "answer"
  PROVE  Store!StoresInv'
BY DEF Store!StoresInv, Store!Shaped, Store!TokensAreOwn, Store!Call

(* Every step keeps the invariant. *)
LEMMA StoresStep ==
  ASSUME Store!StoresAssumption, Store!StoresInv, [Store!Next]_(Store!vars)
  PROVE  Store!StoresInv'
<1> USE DEF Store!StoresInv
<1>0. storeSession # Store!None => storeSession \in Orgs
  BY DEF Store!Shaped
<1>1. ASSUME NEW o \in Orgs \cup {Store!None}, Store!SignIn(o) PROVE Store!StoresInv'
  BY <1>1 DEF Store!SignIn, Store!Shaped, Store!TokensAreOwn
<1>2. CASE Store!LoseToken
  BY <1>2 DEF Store!LoseToken, Store!Shaped, Store!TokensAreOwn, Store!NoToken
<1>3. ASSUME NEW a \in Addresses, Store!CreateStore(a) PROVE Store!StoresInv'
  <2> DEFINE c == [kind |-> "create", id |-> used, org |-> storeSession, store |-> a, step |-> "insert"]
  <2>1. c \in Store!CreateCalls /\ c.step # "answer"
    BY <1>0, <1>3 DEF Store!CreateStore, Store!Call, Store!CreateCalls, Store!Shaped
  <2> HIDE DEF c
  <2>2. Store!Call(c)
    BY <1>3 DEF Store!CreateStore, c
  <2>. QED BY <2>1, <2>2, StoreCallKeeps
<1>4. ASSUME NEW a \in Addresses \cup {Store!None}, Store!SelectStore(a) PROVE Store!StoresInv'
  <2> DEFINE c == [kind |-> "select", id |-> used, org |-> storeSession, store |-> a, step |-> "find"]
  <2>1. c \in Store!SelectCalls /\ c.step # "answer"
    BY <1>0, <1>4 DEF Store!SelectStore, Store!Call, Store!SelectCalls, Store!Shaped
  <2> HIDE DEF c
  <2>2. Store!Call(c)
    BY <1>4 DEF Store!SelectStore, c
  <2>. QED BY <2>1, <2>2, StoreCallKeeps
<1>5. ASSUME NEW r \in Store!Relations, NEW s \in Orgs \cup Groups, NEW revoke \in BOOLEAN,
             Store!ChangeRole(r, s, revoke)
      PROVE  Store!StoresInv'
  <2> DEFINE c == [kind |-> "role", id |-> used, org |-> storeSession, store |-> Store!Scope, step |-> "write",
                   relation |-> r, subject |-> s, revoke |-> revoke]
  <2>1. storeSession # Store!None
    BY <1>5 DEF Store!ChangeRole, Store!Call
  <2>2. Store!Scope \in Orgs \cup Addresses
    BY <2>1, ScopeIsKnown
  <2>3. c \in Store!RoleCalls /\ c.step # "answer"
    BY <1>0, <2>1, <2>2 DEF Store!RoleCalls, Store!Shaped
  <2> HIDE DEF c
  <2>4. Store!Call(c)
    BY <1>5 DEF Store!ChangeRole, c
  <2>. QED BY <2>3, <2>4, StoreCallKeeps
<1>6. ASSUME NEW c \in calls, Store!InsertStore(c) PROVE Store!StoresInv'
  <2>1. c \in Store!CreateCalls
    BY <1>6 DEF Store!Shaped, Store!InsertStore, Store!CreateCalls, Store!SelectCalls,
                Store!RoleCalls
  <2>2. [c EXCEPT !.step = "own"] \in Store!CreateCalls
    BY <2>1 DEF Store!CreateCalls
  <2>3. Store!Shaped'
    BY <1>6, <2>1, <2>2 DEF Store!Shaped, Store!InsertStore, Store!Done, Store!CreateCalls
  <2>4. \A x \in calls' : x \in calls \/ x.kind = "create"
    BY <1>6, <2>2 DEF Store!InsertStore, Store!Done, Store!CreateCalls
  <2>5. \A a \in Addresses : orgOf[a] # Store!None => orgOf'[a] = orgOf[a]
    BY <1>6, <2>1 DEF Store!InsertStore, Store!Shaped, Store!CreateCalls
  <2>6. \A x \in calls : x.kind = "select" => x \in Store!SelectCalls
    BY DEF Store!Shaped, Store!CreateCalls, Store!SelectCalls, Store!RoleCalls
  <2>7. cookie' = cookie
    BY <1>6 DEF Store!InsertStore
  <2>8. Store!TokensAreOwn'
    <3>1. Store!None \notin Orgs
      BY DEF Store!StoresAssumption
    <3>. QED BY <2>4, <2>5, <2>6, <2>7, <3>1 DEF Store!TokensAreOwn, Store!Shaped, Store!SelectCalls
  <2>. QED BY <2>3, <2>8
<1>7. ASSUME NEW c \in calls, Store!OwnStore(c) PROVE Store!StoresInv'
  <2>1. c \in Store!CreateCalls
    BY <1>7 DEF Store!Shaped, Store!OwnStore, Store!CreateCalls, Store!SelectCalls, Store!RoleCalls
  <2>. QED BY <1>7, <2>1 DEF Store!OwnStore, Store!Done, Store!Shaped, Store!TokensAreOwn,
                             Store!CreateCalls, Store!Relations
<1>8. ASSUME NEW c \in calls, Store!FindStore(c) PROVE Store!StoresInv'
  <2>1. c \in Store!SelectCalls
    BY <1>8 DEF Store!Shaped, Store!FindStore, Store!CreateCalls, Store!SelectCalls, Store!RoleCalls
  <2> DEFINE x == [c EXCEPT !.step = "answer"]
  <2>2. x \in Store!SelectCalls /\ x.store = c.store /\ x.org = c.org
    BY <2>1 DEF Store!SelectCalls
  <2> HIDE DEF x
  <2>3. \/ calls' = (calls \ {c}) \cup {x} /\ (c.store = Store!None \/ orgOf[c.store] = c.org)
        \/ calls' = calls \ {c}
    BY <1>8 DEF Store!FindStore, Store!Done, x
  <2>. QED BY <1>8, <2>2, <2>3 DEF Store!FindStore, Store!Shaped, Store!TokensAreOwn
<1>9. ASSUME NEW c \in calls, Store!StoreSelected(c) PROVE Store!StoresInv'
  <2>1. c \in Store!SelectCalls
    BY <1>9 DEF Store!Shaped, Store!StoreSelected, Store!CreateCalls, Store!SelectCalls,
                Store!RoleCalls
  <2>. QED BY <1>9, <2>1 DEF Store!StoreSelected, Store!Done, Store!Shaped, Store!TokensAreOwn,
                             Store!SelectCalls, Store!NoToken
<1>10. ASSUME NEW c \in calls, Store!WriteRole(c) PROVE Store!StoresInv'
  <2>1. c \in Store!RoleCalls
    BY <1>10 DEF Store!Shaped, Store!WriteRole, Store!CreateCalls, Store!SelectCalls,
                 Store!RoleCalls
  <2>. QED BY <1>10, <2>1 DEF Store!WriteRole, Store!Done, Store!Shaped, Store!TokensAreOwn,
                              Store!RoleCalls
<1>11. ASSUME NEW c \in calls, Store!Fail(c) PROVE Store!StoresInv'
  BY <1>11 DEF Store!Fail, Store!Done, Store!Shaped, Store!TokensAreOwn
<1>12. CASE UNCHANGED Store!vars
  BY <1>12 DEF Store!vars, Store!Shaped, Store!TokensAreOwn
<1>. QED BY <1>1, <1>2, <1>3, <1>4, <1>5, <1>6, <1>7, <1>8, <1>9, <1>10, <1>11, <1>12 DEF Store!Next

(* The check in the code is the one of the schema.                          *)
LEMMA ChecksAgree ==
  ASSUME Store!StoresAssumption, Store!StoresInv
  PROVE  Store!AccessFollowsSchema
<1> SUFFICES ASSUME NEW s \in Orgs \cup Addresses, NEW p \in Store!Permissions, NEW u \in Orgs
             PROVE  Store!LocalCheck(s, p, u) <=> Store!SchemaCheck(s, p, u)
  BY DEF Store!AccessFollowsSchema
<1>1. ASSUME Store!LocalCheck(s, p, u) PROVE Store!SchemaCheck(s, p, u)
  <2>1. PICK r \in Store!Relations : /\ <<s, r, u>> \in tuples
                               /\ \/ r = "owner"
                                  \/ p \in {"view_payments", "view_dashboard"}
                                  \/ p = "edit_merchant" /\ r = "editor"
    BY <1>1 DEF Store!LocalCheck
  <2>2. r \in Store!Grants(p) /\ u \in Store!MembersOf(u)
    BY <2>1 DEF Store!Grants, Store!Relations, Store!MembersOf, Store!Permissions,
                Store!StoresAssumption
  <2>. QED BY <2>1, <2>2 DEF Store!SchemaCheck
<1>2. ASSUME Store!SchemaCheck(s, p, u) PROVE Store!LocalCheck(s, p, u)
  <2>1. PICK t \in tuples : t[1] = s /\ t[2] \in Store!Grants(p) /\ u \in Store!MembersOf(t[3])
    BY <1>2 DEF Store!SchemaCheck
  <2>2. t[3] = u
    BY <2>1 DEF Store!MembersOf, Store!StoresAssumption
  <2>3. t = <<s, t[2], u>> /\ t[2] \in Store!Relations
    BY <2>1, <2>2 DEF Store!StoresInv, Store!Shaped
  <2>4. \/ t[2] = "owner"
        \/ p \in {"view_payments", "view_dashboard"}
        \/ p = "edit_merchant" /\ t[2] = "editor"
    BY <2>1, <2>3 DEF Store!Grants, Store!Relations, Store!Permissions
  <2>. QED BY <2>1, <2>3, <2>4 DEF Store!LocalCheck
<1>. QED BY <1>1, <1>2

LEMMA StoreHolds ==
  ASSUME Store!StoresAssumption
  PROVE  Store!Spec => [](Store!ScopeIsOwn /\ Store!AccessFollowsSchema)
<1>1. Store!Init => Store!StoresInv
  BY DEF Store!Init, Store!StoresInv, Store!Shaped, Store!TokensAreOwn, Store!NoToken,
     Store!Relations
<1>2. Store!StoresInv /\ [Store!Next]_(Store!vars) => Store!StoresInv'
  BY StoresStep
<1>3. Store!StoresInv => Store!ScopeIsOwn /\ Store!AccessFollowsSchema
  BY ScopeIsKnown, ChecksAgree
<1>. QED BY <1>1, <1>2, <1>3, PTL DEF Store!Spec

LEMMA StoreRuns == MCSpec => []~(machine = "stores") \/ Store!Spec
<1>1. MCInit /\ machine = "stores" => Store!Init
  BY DEF MCInit
<1>2. machine = "stores" /\ [MCNext]_all => (machine = "stores")' /\ [Store!Next]_(Store!vars)
  BY DEF MCNext, all, inst, Store!vars
<1>3. ~(machine = "stores") /\ [MCNext]_all => (~(machine = "stores"))'
  BY DEF MCNext, all
<1>. QED BY <1>1, <1>2, <1>3, PTL DEF MCSpec, Store!Spec

(* A session acts for its own organization or a store of it, whatever       *)
(* tokens and late answers there are, and the two checks of a permission    *)
(* agree.                                                                   *)
THEOREM ScopesAreOwn ==
  ASSUME Store!StoresAssumption
  PROVE  MCSpec => []ScopeIsOwn
<1>1. Store!Spec => [](Store!ScopeIsOwn /\ Store!AccessFollowsSchema)
  BY StoreHolds
<1>2. ~(machine = "stores") \/ (Store!ScopeIsOwn /\ Store!AccessFollowsSchema) => ScopeIsOwn
  BY DEF ScopeIsOwn
<1>. QED BY <1>1, <1>2, StoreRuns, PTL

-----------------------------------------------------------------------------
(* The upkeep of the tables.  A request has run ENABLE and FORCE before its *)
(* own statement, and nobody switches them off (Protected).                 *)

upkeepTable == v1
schema == v2
rows == v3
upkeepCall == v4
kills == v5

USE DEF upkeepTable, schema, rows, upkeepCall, kills

(* The upkeep of every table turns row level security on, and forces it     *)
(* upon the owner, before the handler's own statement.                      *)
LEMMA UpkeepProtects ==
  ASSUME NEW t \in Upkeep!Tables
  PROVE  /\ Upkeep!Upkeep(t) \in Seq(Upkeep!Statements) /\ Len(Upkeep!Upkeep(t)) \in Nat
         /\ \E i \in 1 .. Len(Upkeep!Upkeep(t)) : Upkeep!Upkeep(t)[i] = "enable"
         /\ \E i \in 1 .. Len(Upkeep!Upkeep(t)) : Upkeep!Upkeep(t)[i] = "force"
<1>1. Upkeep!Isolation \in Seq(Upkeep!Statements)
  BY DEF Upkeep!Isolation, Upkeep!Statements
<1>2. Len(Upkeep!Isolation) = 4 /\ Upkeep!Isolation[1] = "enable" /\ Upkeep!Isolation[2] = "force"
  BY DEF Upkeep!Isolation
<1>3. PICK s \in Seq(Upkeep!Statements) : Upkeep!Upkeep(t) = s \o Upkeep!Isolation
  <2>1. <<"create">> \in Seq(Upkeep!Statements)
    BY DEF Upkeep!Statements
  <2>2. <<"create", "swapKey">> \in Seq(Upkeep!Statements)
    BY DEF Upkeep!Statements
  <2>3. <<"create", "dropKey", "addKey">> \in Seq(Upkeep!Statements)
    BY DEF Upkeep!Statements
  <2>4. \/ Upkeep!Upkeep(t) = <<"create">> \o Upkeep!Isolation
        \/ Upkeep!Upkeep(t) = <<"create", "swapKey">> \o Upkeep!Isolation
        \/ Upkeep!Upkeep(t) = <<"create", "dropKey", "addKey">> \o Upkeep!Isolation
    BY DEF Upkeep!Upkeep, Upkeep!Tables, Upkeep!PaymentsUpkeep, Upkeep!SyncStateUpkeep,
       Upkeep!RoleTupleUpkeep, Upkeep!StoreUpkeep, Upkeep!InventoryUpkeep
  <2>. QED BY <2>1, <2>2, <2>3, <2>4
<1> HIDE DEF Upkeep!Upkeep, Upkeep!Isolation
<1>4. Len(s) \in Nat /\ s \o Upkeep!Isolation \in Seq(Upkeep!Statements)
      /\ Len(s \o Upkeep!Isolation) = Len(s) + Len(Upkeep!Isolation)
      /\ \A i \in 1 .. Len(s) + Len(Upkeep!Isolation) :
           (s \o Upkeep!Isolation)[i] = IF i <= Len(s) THEN s[i] ELSE Upkeep!Isolation[i - Len(s)]
  BY <1>1, ConcatProperties
<1>5. Len(Upkeep!Upkeep(t)) = Len(s) + 4
      /\ Upkeep!Upkeep(t)[Len(s) + 1] = "enable" /\ Upkeep!Upkeep(t)[Len(s) + 2] = "force"
  BY <1>2, <1>3, <1>4
<1>6. Upkeep!Upkeep(t) \in Seq(Upkeep!Statements) /\ Len(Upkeep!Upkeep(t)) \in Nat
  BY <1>3, <1>4, <1>5
<1>7. Len(s) + 1 \in 1 .. Len(Upkeep!Upkeep(t)) /\ Len(s) + 2 \in 1 .. Len(Upkeep!Upkeep(t))
  BY <1>4, <1>5
<1>. QED BY <1>5, <1>6, <1>7

(* A statement that leaves ENABLE and FORCE on, and passes on.              *)
LEMMA StatementRuns ==
  ASSUME Upkeep!Protected, NEW r \in UpkeepRequests, NEW s \in Upkeep!Schema, Upkeep!Goes(r, s),
         schema.enabled \/ Upkeep!Statement(r) = "enable" => s.enabled,
         schema.forced \/ Upkeep!Statement(r) = "force" => s.forced
  PROVE  Upkeep!Protected'
<1>1. ASSUME NEW q \in UpkeepRequests, NEW statement, Upkeep!Ran(q, statement)'
      PROVE  Upkeep!Ran(q, statement) \/ (q = r /\ Upkeep!Statement(r) = statement)
  <2>1. PICK i \in 1 .. Len(Upkeep!Upkeep(upkeepTable)) : i < upkeepCall'[q].at
             /\ Upkeep!Upkeep(upkeepTable)[i] = statement
    BY <1>1 DEF Upkeep!Ran, Upkeep!Goes
  <2>2. upkeepCall'[q].at = IF q = r THEN upkeepCall[q].at + 1 ELSE upkeepCall[q].at
    BY DEF Upkeep!Goes, Upkeep!Protected, Upkeep!CallShapes
  <2>3. Len(Upkeep!Upkeep(upkeepTable)) \in Nat /\ upkeepCall[q].at \in Nat
    BY UpkeepProtects DEF Upkeep!Protected, Upkeep!CallShapes
  <2>. QED BY <2>1, <2>2, <2>3 DEF Upkeep!Ran, Upkeep!Statement
<1>2. upkeepCall' \in [UpkeepRequests -> Upkeep!CallShapes]
      /\ \A q \in UpkeepRequests : upkeepCall'[q].sees = upkeepCall[q].sees
         /\ upkeepCall'[q].tenant = upkeepCall[q].tenant
  BY DEF Upkeep!Goes, Upkeep!Protected, Upkeep!CallShapes
<1>. QED BY <1>1, <1>2 DEF Upkeep!Protected, Upkeep!Goes

(* A request begins, fails, is killed or is answered.                       *)
LEMMA RequestEnds ==
  ASSUME Upkeep!Protected, NEW r \in UpkeepRequests, NEW x \in Upkeep!CallShapes,
         upkeepCall' = [upkeepCall EXCEPT ![r] = x],
         x.at = upkeepCall[r].at \/ x.at = 1, x.sees \subseteq {x.tenant},
         upkeepTable' = upkeepTable, schema' = schema, rows' \in [Tenant -> {0, 1}]
  PROVE  Upkeep!Protected'
<1>1. ASSUME NEW q \in UpkeepRequests, NEW statement, Upkeep!Ran(q, statement)'
      PROVE  Upkeep!Ran(q, statement)
  BY <1>1, UpkeepProtects DEF Upkeep!Ran, Upkeep!Protected, Upkeep!CallShapes
<1>. QED BY <1>1 DEF Upkeep!Protected

(* Every step keeps the invariant. *)
LEMMA UpkeepStep == Upkeep!Protected /\ [Upkeep!Next]_(Upkeep!vars) => Upkeep!Protected'
<1> SUFFICES ASSUME Upkeep!Protected, [Upkeep!Next]_(Upkeep!vars) PROVE Upkeep!Protected'
  OBVIOUS
<1>1. CASE UNCHANGED Upkeep!vars
  BY <1>1 DEF Upkeep!vars, Upkeep!Protected, Upkeep!Ran
<1>2. ASSUME NEW r \in UpkeepRequests, NEW m \in Tenant, Upkeep!Begin(r, m) PROVE Upkeep!Protected'
  <2> DEFINE x == [Upkeep!Idle EXCEPT !.tenant = m, !.at = 1, !.tries = upkeepCall[r].tries + 1]
  <2>0. Upkeep!Idle \in Upkeep!CallShapes /\ upkeepCall[r].tries + 1 \in Nat
    BY DEF Upkeep!Idle, Upkeep!CallShapes, Upkeep!Protected
  <2>1. x \in Upkeep!CallShapes /\ x.at = 1 /\ x.sees = {}
    BY <2>0 DEF Upkeep!Idle, Upkeep!CallShapes
  <2>2. upkeepCall' = [upkeepCall EXCEPT ![r] = x]
    BY <1>2 DEF Upkeep!Begin
  <2> HIDE DEF x
  <2>. QED BY <1>2, <2>1, <2>2, RequestEnds DEF Upkeep!Begin, Upkeep!Protected
<1>3. ASSUME NEW r \in UpkeepRequests, Upkeep!Step(r) PROVE Upkeep!Protected'
  <2>0. schema \in Upkeep!Schema /\ upkeepCall[r] \in Upkeep!CallShapes
        /\ upkeepCall[r].sees \subseteq {upkeepCall[r].tenant}
        /\ rows \in [Tenant -> {0, 1}]
    BY DEF Upkeep!Protected
  <2>1. CASE Upkeep!CreateTable(r) \/ Upkeep!DropKey(r) \/ Upkeep!SwapKey(r) \/ Upkeep!Enable(r) \/ Upkeep!Force(r) \/ Upkeep!DropPolicy(r)
    <3>1. ASSUME NEW s \in Upkeep!Schema, Upkeep!Goes(r, s),
                 schema.enabled \/ Upkeep!Statement(r) = "enable" => s.enabled,
                 schema.forced \/ Upkeep!Statement(r) = "force" => s.forced
          PROVE  Upkeep!Protected'
      BY <3>1, StatementRuns
    <3>2. CASE Upkeep!CreateTable(r)
      BY <2>0, <3>1, <3>2 DEF Upkeep!CreateTable, Upkeep!Schema
    <3>3. CASE Upkeep!DropKey(r) \/ Upkeep!SwapKey(r)
      BY <2>0, <3>1, <3>3 DEF Upkeep!DropKey, Upkeep!SwapKey, Upkeep!Schema
    <3>4. CASE Upkeep!Enable(r) \/ Upkeep!Force(r)
      BY <2>0, <3>1, <3>4 DEF Upkeep!Enable, Upkeep!Force, Upkeep!Schema
    <3>5. CASE Upkeep!DropPolicy(r)
      BY <2>0, <3>1, <3>5 DEF Upkeep!DropPolicy, Upkeep!Schema
    <3>. QED BY <2>1, <3>2, <3>3, <3>4, <3>5
  <2>2. CASE Upkeep!Throws(r) \/ Upkeep!Kill(r)
    <3>1. PICK o \in {"failed", "killed"} : upkeepCall' = [upkeepCall EXCEPT ![r] = [upkeepCall[r] EXCEPT !.outcome = o]]
      BY <2>2 DEF Upkeep!Throws, Upkeep!Kill, Upkeep!Protected
    <3>2. [upkeepCall[r] EXCEPT !.outcome = o] \in Upkeep!CallShapes
      BY <2>0 DEF Upkeep!CallShapes
    <3>. QED BY <2>0, <2>2, <3>1, <3>2, RequestEnds DEF Upkeep!Throws, Upkeep!Kill,
                                                        Upkeep!CallShapes
  <2>3. CASE Upkeep!AddKey(r) /\ ~Upkeep!Throws(r)
    <3>1. PICK s \in Upkeep!Schema : /\ Upkeep!Goes(r, s) /\ s.enabled = schema.enabled
               /\ s.forced = schema.forced
                              /\ Upkeep!Statement(r) = "addKey"
      BY <2>0, <2>3 DEF Upkeep!AddKey, Upkeep!Schema
    <3>. QED BY <3>1, StatementRuns
  <2>4. CASE Upkeep!CreatePolicy(r) /\ ~Upkeep!Throws(r)
    <3>1. PICK s \in Upkeep!Schema : /\ Upkeep!Goes(r, s) /\ s.enabled = schema.enabled
               /\ s.forced = schema.forced
                              /\ Upkeep!Statement(r) = "createPolicy"
      BY <2>0, <2>4 DEF Upkeep!CreatePolicy, Upkeep!Schema
    <3>. QED BY <3>1, StatementRuns
  <2>5. CASE Upkeep!Read(r)
    <3>1. Upkeep!Bound
      <4>0. Len(Upkeep!Upkeep(upkeepTable)) \in Nat /\ upkeepCall[r].at \in Nat
            /\ upkeepCall[r].at > Len(Upkeep!Upkeep(upkeepTable))
        <5>1. upkeepTable \in Upkeep!Tables /\ upkeepCall[r].at \in Nat /\ upkeepCall[r].at > 0
              /\ Upkeep!Statement(r) = "work"
          BY <1>3, <2>5 DEF Upkeep!Step, Upkeep!Working, Upkeep!Protected, Upkeep!CallShapes,
                            Upkeep!Read
        <5>2. \A i \in 1 .. Len(Upkeep!Upkeep(upkeepTable)) : Upkeep!Upkeep(upkeepTable)[i] # "work"
          BY <5>1, UpkeepProtects DEF Upkeep!Statements
        <5>. QED BY <5>1, <5>2, UpkeepProtects DEF Upkeep!Statement
      <4>1. Upkeep!Ran(r, "enable") /\ Upkeep!Ran(r, "force")
        BY <4>0, UpkeepProtects DEF Upkeep!Ran, Upkeep!Protected
      <4>. QED BY <4>1 DEF Upkeep!Bound, Upkeep!Protected
    <3> DEFINE x == [upkeepCall[r] EXCEPT !.outcome = "done",
                                    !.sees = {m \in Upkeep!Passes(upkeepCall[r].tenant) : rows[m] > 0}]
    <3>2. Upkeep!Passes(upkeepCall[r].tenant) \subseteq {upkeepCall[r].tenant}
      BY <3>1 DEF Upkeep!Passes
    <3>3. {m \in Upkeep!Passes(upkeepCall[r].tenant) : rows[m] > 0} \subseteq {upkeepCall[r].tenant}
      BY <3>2
    <3>5. x \in Upkeep!CallShapes
      BY <2>0, <3>3 DEF Upkeep!CallShapes
    <3>6. /\ upkeepCall' = [upkeepCall EXCEPT ![r] = x] /\ x.at = upkeepCall[r].at
             /\ x.tenant = upkeepCall[r].tenant
          /\ x.sees \subseteq {x.tenant} /\ UNCHANGED <<upkeepTable, schema, rows>>
      BY <2>0, <2>5, <3>3 DEF Upkeep!Read, Upkeep!CallShapes, Upkeep!Protected
    <3> HIDE DEF x
    <3>. QED BY <2>0, <3>5, <3>6, RequestEnds
  <2>6. CASE Upkeep!Write(r) /\ ~Upkeep!Throws(r)
    <3>1. rows' \in [Tenant -> {0, 1}]
      BY <2>0, <2>6 DEF Upkeep!Write, Upkeep!Upserts
    <3>2. upkeepCall' = [upkeepCall EXCEPT ![r] = [upkeepCall[r] EXCEPT !.outcome = "done"]]
      BY <2>6 DEF Upkeep!Write, Upkeep!Protected
    <3>3. [upkeepCall[r] EXCEPT !.outcome = "done"] \in Upkeep!CallShapes
      BY <2>0 DEF Upkeep!CallShapes
    <3>. QED BY <2>0, <2>6, <3>1, <3>2, <3>3, RequestEnds DEF Upkeep!Write, Upkeep!CallShapes
  <2>. QED BY <1>3, <2>1, <2>2, <2>3, <2>4, <2>5, <2>6 DEF Upkeep!Step
<1>. QED BY <1>1, <1>2, <1>3 DEF Upkeep!Next

LEMMA UpkeepHolds == Upkeep!Spec => []Upkeep!TenantsStayApart
<1>1. Upkeep!Init => Upkeep!Protected
  <2> SUFFICES ASSUME Upkeep!Init PROVE Upkeep!Protected
    OBVIOUS
  <2>0. Upkeep!Missing \in Upkeep!Schema /\ Upkeep!Prepared \in Upkeep!Schema
    BY DEF Upkeep!Schema, Upkeep!Missing, Upkeep!Prepared
  <2>1. schema \in Upkeep!Schema /\ rows \in [Tenant -> {0, 1}] /\ upkeepTable \in Upkeep!Tables
    BY <2>0 DEF Upkeep!Init
  <2>2. upkeepCall \in [UpkeepRequests -> Upkeep!CallShapes]
        /\ \A r \in UpkeepRequests : upkeepCall[r].at = 0 /\ upkeepCall[r].sees = {}
    BY DEF Upkeep!Init, Upkeep!Idle, Upkeep!CallShapes
  <2>. QED BY <2>1, <2>2, UpkeepProtects DEF Upkeep!Protected, Upkeep!Ran
<1>2. Upkeep!Protected => Upkeep!TenantsStayApart
  BY DEF Upkeep!Protected, Upkeep!TenantsStayApart
<1>. QED BY <1>1, <1>2, UpkeepStep, PTL DEF Upkeep!Spec

LEMMA UpkeepRuns == MCSpec => []~(machine = "upkeep") \/ Upkeep!Spec
<1>1. MCInit /\ machine = "upkeep" => Upkeep!Init
  BY DEF MCInit
<1>2. machine = "upkeep" /\ [MCNext]_all => (machine = "upkeep")' /\ [Upkeep!Next]_(Upkeep!vars)
  BY DEF MCNext, all, inst, Upkeep!vars
<1>3. ~(machine = "upkeep") /\ [MCNext]_all => (~(machine = "upkeep"))'
  BY DEF MCNext, all
<1>. QED BY <1>1, <1>2, <1>3, PTL DEF MCSpec, Upkeep!Spec

(* A request sees rows of its own merchant only, whatever other requests    *)
(* keep the tables up, are killed or fail between two statements.           *)
THEOREM TenantsApart ==
  MCSpec => []TenantsStayApart
<1>1. Upkeep!Spec => []Upkeep!TenantsStayApart
  BY UpkeepHolds
<1>2. ~(machine = "upkeep") \/ Upkeep!TenantsStayApart => TenantsStayApart
  BY DEF TenantsStayApart
<1>. QED BY <1>1, <1>2, UpkeepRuns, PTL

-----------------------------------------------------------------------------
(* Refunds.  A transaction that was carried out refunded the panel's vault  *)
(* (CarriedOut), and a payment is marked by that only.                      *)

role == v1
refundWallet == v2
flow == v3
tx == v4
vault == v5
open == v6
marked == v7
refundStored == v8

USE DEF role, refundWallet, flow, tx, vault, open, marked, refundStored

LEMMA RefundHolds ==
  ASSUME Refund!RefundsAssumption
  PROVE  Refund!Spec => []Refund!MarkedWasRefunded
<1>1. Refund!Init => Refund!CarriedOut /\ Refund!MarkedWasRefunded
  BY DEF Refund!Init, Refund!CarriedOut, Refund!MarkedWasRefunded
<1>2. ASSUME Refund!CarriedOut, Refund!MarkedWasRefunded, [Refund!Next]_(Refund!vars)
      PROVE Refund!CarriedOut' /\ Refund!MarkedWasRefunded'
  <2> USE <1>2 DEF Refund!CarriedOut, Refund!MarkedWasRefunded, Refund!RefundsAssumption
  <2>1. CASE Refund!OpenModal \/ Refund!CloseModal \/ Refund!SeeWallet \/ Refund!Reload \/ UNCHANGED Refund!vars
    BY <2>1 DEF Refund!OpenModal, Refund!CloseModal, Refund!SeeWallet, Refund!Reload, Refund!vars
  <2>2. ASSUME NEW v \in Vaults, Refund!CloseVault(v) PROVE Refund!CarriedOut'
               /\ Refund!MarkedWasRefunded'
    BY <2>2 DEF Refund!CloseVault
  <2>3. ASSUME NEW f \in Flows,
               Refund!Check(f) \/ Refund!Answer(f) \/ Refund!Reset(f) \/ Refund!Confirm(f)
        PROVE  Refund!CarriedOut' /\ Refund!MarkedWasRefunded'
    BY <2>3 DEF Refund!Check, Refund!Answer, Refund!Reset, Refund!Confirm
  <2>4. ASSUME NEW f \in Flows, Refund!Prepare(f) PROVE Refund!CarriedOut'
               /\ Refund!MarkedWasRefunded'
    BY <2>4 DEF Refund!Prepare, Refund!Outcome, Refund!Marks
  <2>5. ASSUME NEW f \in Flows, Refund!Send(f) PROVE Refund!CarriedOut' /\ Refund!MarkedWasRefunded'
    BY <2>5 DEF Refund!Send, Refund!Outcome, Refund!Marks
  <2>6. ASSUME NEW f \in Flows, Refund!Execute(f) PROVE Refund!CarriedOut'
               /\ Refund!MarkedWasRefunded'
    BY <2>6 DEF Refund!Execute
  <2>7. ASSUME NEW f \in Flows, Refund!Poll(f) PROVE Refund!CarriedOut' /\ Refund!MarkedWasRefunded'
    <3>1. CASE tx[f] = "SUCCESS" /\ Refund!Outcome(f, "confirmed")
      BY <2>7, <3>1 DEF Refund!Poll, Refund!Outcome
    <3>2. CASE Refund!Outcome(f, "failed") \/ Refund!Outcome(f, "pending") \/ UNCHANGED <<marked, refundStored>>
      BY <2>7, <3>2 DEF Refund!Poll, Refund!Outcome, Refund!Marks
    <3>. QED BY <2>7, <3>1, <3>2 DEF Refund!Poll
  <2>. QED BY <2>1, <2>2, <2>3, <2>4, <2>5, <2>6, <2>7 DEF Refund!Next, Refund!Step
<1>. QED BY <1>1, <1>2, PTL DEF Refund!Spec

LEMMA RefundRuns == MCSpec => []~(machine = "refund") \/ Refund!Spec
<1>1. MCInit /\ machine = "refund" => Refund!Init
  BY DEF MCInit
<1>2. machine = "refund" /\ [MCNext]_all => (machine = "refund")' /\ [Refund!Next]_(Refund!vars)
  BY DEF MCNext, all, inst, Refund!vars
<1>3. ~(machine = "refund") /\ [MCNext]_all => (~(machine = "refund"))'
  BY DEF MCNext, all
<1>. QED BY <1>1, <1>2, <1>3, PTL DEF MCSpec, Refund!Spec

(* A payment is marked as refunded only if its vault refunded it, whatever  *)
(* panels overlap and answers are lost.                                     *)
THEOREM MarksAreTrue ==
  ASSUME Refund!RefundsAssumption
  PROVE  MCSpec => []MarkedWasRefunded
<1>1. Refund!Spec => []Refund!MarkedWasRefunded
  BY RefundHolds
<1>2. ~(machine = "refund") \/ Refund!MarkedWasRefunded => MarkedWasRefunded
  BY DEF MarkedWasRefunded
<1>. QED BY <1>1, <1>2, RefundRuns, PTL

-----------------------------------------------------------------------------
(* The cache of the SDK client.  Whatever a call holds or the cache keeps   *)
(* knows when it was answered and after which drop it was asked for.        *)

readsClock == v1
version == v2
cache == v3
readsCall == v4
clears == v5
floor == v6

USE DEF readsClock, version, cache, readsCall, clears, floor

(* Every step keeps the invariant. *)
LEMMA CacheStep ==
  ASSUME Reads!CacheAssumption, Reads!CacheInv, [Reads!Next]_(Reads!vars)
  PROVE  Reads!CacheInv'
<1> USE DEF Reads!CacheInv, Reads!CacheAssumption
<1>0. \A q \in ReadCalls :
        /\ readsCall[q].pc = "asking" =>
             readsCall[q] \in [pc : {"asking"}, path : Paths, attempt : Nat, until : Nat, asked : Nat]
        /\ readsCall[q].pc = "reading" =>
             readsCall[q] \in [pc : {"reading"}, path : Paths, until : Nat, body : Reads!Bodies]
        /\ readsCall[q].pc = "returned" =>
             readsCall[q] \in [pc : {"returned"}, body : Reads!Bodies, when : Nat]
  BY DEF Reads!Reads
<1>1. CASE Reads!Tick
  BY <1>0, <1>1 DEF Reads!Tick, Reads!KeptInv, Reads!HeldInv, Reads!Honest, Reads!Entries,
                    Reads!Bodies
<1>2. CASE Reads!Write
  BY <1>0, <1>2 DEF Reads!Write, Reads!KeptInv, Reads!HeldInv, Reads!Honest, Reads!Entries,
                    Reads!Bodies
<1>3. CASE Reads!ClearCache
  BY <1>0, <1>3 DEF Reads!ClearCache, Reads!KeptInv, Reads!HeldInv, Reads!Honest, Reads!Bodies
(* A call that takes its next step, and leaves the cache alone or stores.   *)
<1>4. ASSUME NEW q \in ReadCalls, NEW x \in Reads!Reads, readsCall' = [readsCall EXCEPT ![q] = x],
             UNCHANGED <<readsClock, version, clears, floor>>,
             x.pc = "asking" => x.until <= readsClock + Timeout /\ x.asked <= clears,
             x.pc = "reading" => Reads!Honest(x.body) /\ x.until <= x.body.at + Timeout,
             x.pc = "returned" => Reads!Honest(x.body) /\ x.when - x.body.at < CacheTTL + Timeout,
             cache' = [p \in Paths |-> cache'[p]], Reads!KeptInv'
      PROVE  Reads!CacheInv'
  BY <1>4 DEF Reads!HeldInv, Reads!Honest
<1>5. ASSUME NEW q \in ReadCalls, NEW p \in Paths, Reads!CacheRead(q, p) PROVE Reads!CacheInv'
  <2>1. /\ cache[p] \in Reads!Entries /\ Reads!Honest(cache[p].body)
        /\ readsClock < cache[p].expires /\ cache[p].expires < cache[p].body.at + CacheTTL + Timeout
        /\ UNCHANGED <<readsClock, version, clears, floor, cache>>
        /\ readsCall' = [readsCall EXCEPT ![q] = [pc |-> "returned", body |-> cache[p].body, when |-> readsClock]]
    BY <1>5 DEF Reads!CacheRead, Reads!Fresh, Reads!KeptInv, Reads!Returned
  <2> DEFINE x == [pc |-> "returned", body |-> cache[p].body, when |-> readsClock]
  <2>2. x \in Reads!Reads
    BY <2>1 DEF Reads!Entries, Reads!Reads
  <2>3. x.pc = "returned" /\ Reads!Honest(x.body) /\ x.when - x.body.at < CacheTTL + Timeout
    BY <2>1 DEF Reads!Entries, Reads!Bodies
  <2>4. Reads!KeptInv' /\ cache' = [o \in Paths |-> cache'[o]]
    BY <2>1 DEF Reads!KeptInv, Reads!Honest
  <2>5. readsCall' = [readsCall EXCEPT ![q] = x]
    BY <2>1
  <2> HIDE DEF x
  <2>. QED BY <1>4, <2>1, <2>2, <2>3, <2>4, <2>5
<1>6. ASSUME NEW q \in ReadCalls, NEW p \in Paths, Reads!CacheMiss(q, p) PROVE Reads!CacheInv'
  <2> DEFINE x == [pc |-> "asking", path |-> p, attempt |-> 0, until |-> readsClock + Timeout, asked |-> clears]
  <2>1. x \in Reads!Reads
    BY DEF Reads!Reads
  <2>2. UNCHANGED <<readsClock, version, clears, floor>> /\ readsCall' = [readsCall EXCEPT ![q] = x]
    BY <1>6 DEF Reads!CacheMiss
  <2>3. Reads!KeptInv' /\ cache' = [o \in Paths |-> cache'[o]]
    BY <1>6 DEF Reads!CacheMiss, Reads!KeptInv, Reads!Honest
  <2>4. x.pc = "asking" /\ x.until <= readsClock + Timeout /\ x.asked <= clears
    OBVIOUS
  <2> HIDE DEF x
  <2>. QED BY <1>4, <2>1, <2>2, <2>3, <2>4
<1>7. ASSUME NEW q \in ReadCalls, Reads!Answer(q) PROVE Reads!CacheInv'
  <2> DEFINE c == readsCall[q]
             x == [pc |-> "reading", path |-> c.path, until |-> c.until,
                   body |-> [version |-> version, at |-> readsClock, asked |-> c.asked]]
  <2>1. /\ c \in [pc : {"asking"}, path : Paths, attempt : Nat, until : Nat, asked : Nat]
        /\ c.until <= readsClock + Timeout /\ c.asked <= clears
    BY <1>0, <1>7 DEF Reads!Answer, Reads!HeldInv
  <2>2. x \in Reads!Reads
    BY <2>1 DEF Reads!Reads, Reads!Bodies
  <2>3. Reads!Honest(x.body) /\ x.until <= x.body.at + Timeout
    BY <2>1 DEF Reads!Honest
  <2>4. UNCHANGED <<readsClock, version, clears, floor, cache>>
        /\ readsCall' = [readsCall EXCEPT ![q] = x]
    BY <1>7 DEF Reads!Answer
  <2>. QED BY <1>4, <2>2, <2>3, <2>4 DEF Reads!KeptInv, Reads!Honest
<1>8. ASSUME NEW q \in ReadCalls, Reads!Retry(q) PROVE Reads!CacheInv'
  <2> DEFINE x == [readsCall[q] EXCEPT !.attempt = @ + 1]
  <2>1. /\ readsCall[q] \in [pc : {"asking"}, path : Paths, attempt : Nat, until : Nat, asked : Nat]
        /\ readsCall[q].until <= readsClock + Timeout /\ readsCall[q].asked <= clears
    BY <1>0, <1>8 DEF Reads!Retry, Reads!HeldInv
  <2>2. x \in [pc : {"asking"}, path : Paths, attempt : Nat, until : Nat, asked : Nat]
        /\ x.until = readsCall[q].until /\ x.asked = readsCall[q].asked
    BY <2>1
  <2>3. UNCHANGED <<readsClock, version, clears, floor, cache>>
        /\ readsCall' = [readsCall EXCEPT ![q] = x]
    BY <1>8 DEF Reads!Retry
  <2> HIDE DEF x
  <2>. QED BY <1>4, <2>1, <2>2, <2>3 DEF Reads!KeptInv, Reads!Honest, Reads!Reads
<1>9. ASSUME NEW q \in ReadCalls, Reads!Throw(q) PROVE Reads!CacheInv'
  <2>1. Reads!Idle \in Reads!Reads /\ Reads!Idle.pc = "idle"
    BY DEF Reads!Idle, Reads!Reads
  <2>. QED BY <1>4, <1>9, <2>1 DEF Reads!Throw, Reads!KeptInv, Reads!Honest
<1>10. ASSUME NEW q \in ReadCalls, Reads!StoreCache(q) PROVE Reads!CacheInv'
  <2> DEFINE c == readsCall[q]
             x == [pc |-> "returned", body |-> c.body, when |-> readsClock]
  <2>1. /\ c \in [pc : {"reading"}, path : Paths, until : Nat, body : Reads!Bodies]
        /\ Reads!Honest(c.body) /\ c.until <= c.body.at + Timeout /\ readsClock < c.until
    BY <1>0, <1>10 DEF Reads!StoreCache, Reads!HeldInv, Reads!InTime
  <2>2. x \in Reads!Reads
    BY <2>1 DEF Reads!Reads
  <2>3. x.when - x.body.at < CacheTTL + Timeout
    BY <2>1 DEF Reads!Bodies
  <2>4. UNCHANGED <<readsClock, version, clears, floor>> /\ readsCall' = [readsCall EXCEPT ![q] = x]
    BY <1>10 DEF Reads!StoreCache, Reads!Returned
  <2>5. Reads!KeptInv' /\ cache' = [o \in Paths |-> cache'[o]]
    <3>1. [expires |-> readsClock + CacheTTL, body |-> c.body] \in Reads!Entries
      BY <2>1 DEF Reads!Entries
    <3>2. readsClock + CacheTTL < c.body.at + CacheTTL + Timeout
      BY <2>1 DEF Reads!Bodies
    <3>3. \A p \in Paths : \/ cache'[p] = cache[p]
                           \/ cache'[p] = [expires |-> readsClock + CacheTTL, body |-> c.body]
      BY <1>10, <2>1 DEF Reads!StoreCache
    <3>4. cache' = [o \in Paths |-> cache'[o]]
      BY <1>10, <2>1 DEF Reads!StoreCache
    <3>. QED BY <2>1, <2>4, <3>1, <3>2, <3>3, <3>4 DEF Reads!KeptInv, Reads!Honest
  <2>. QED BY <1>4, <2>1, <2>2, <2>3, <2>4, <2>5
<1>11. CASE UNCHANGED Reads!vars
  BY <1>11 DEF Reads!vars, Reads!KeptInv, Reads!HeldInv, Reads!Honest
<1>. QED BY <1>1, <1>2, <1>3, <1>5, <1>6, <1>7, <1>8, <1>9, <1>10, <1>11 DEF Reads!Next

LEMMA ReadsHolds ==
  ASSUME Reads!CacheAssumption
  PROVE  Reads!Spec => []Reads!ReadsAreRecent
<1>1. Reads!Init => Reads!CacheInv
  BY DEF Reads!Init, Reads!CacheInv, Reads!KeptInv, Reads!HeldInv, Reads!Idle, Reads!Reads
<1>2. Reads!CacheInv /\ [Reads!Next]_(Reads!vars) => Reads!CacheInv'
  BY CacheStep
<1>3. Reads!CacheInv => Reads!ReadsAreRecent
  BY DEF Reads!CacheInv, Reads!HeldInv, Reads!Honest, Reads!ReadsAreRecent
<1>. QED BY <1>1, <1>2, <1>3, PTL DEF Reads!Spec

LEMMA ReadsRuns == MCSpec => []~(machine = "reads") \/ Reads!Spec
<1>1. MCInit /\ machine = "reads" => Reads!Init
  BY DEF MCInit
<1>2. machine = "reads" /\ [MCNext]_all => (machine = "reads")' /\ [Reads!Next]_(Reads!vars)
  BY DEF MCNext, all, inst, Reads!vars
<1>3. ~(machine = "reads") /\ [MCNext]_all => (~(machine = "reads"))'
  BY DEF MCNext, all
<1>. QED BY <1>1, <1>2, <1>3, PTL DEF MCSpec, Reads!Spec

(* What a read returns is as recent as the cache's time to live and one     *)
(* timeout allow, and not older than the last drop before it was asked.     *)
THEOREM ReadsStayRecent ==
  ASSUME Reads!CacheAssumption
  PROVE  MCSpec => []ReadsAreRecent
<1>1. Reads!Spec => []Reads!ReadsAreRecent
  BY ReadsHolds
<1>2. ~(machine = "reads") \/ Reads!ReadsAreRecent => ReadsAreRecent
  BY DEF ReadsAreRecent
<1>. QED BY <1>1, <1>2, ReadsRuns, PTL

-----------------------------------------------------------------------------
(* The chat of a dispute.  A page whose stream holds is in the set the room *)
(* sends to, past its history, and what was sent since it joined is shown,  *)
(* queued or being decrypted (RoomInv).                                     *)

sent == v1
disputePage == v2
gen == v3
dead == v4
current == v5
made == v6
since == v7
breaks == v8

USE DEF sent, disputePage, gen, dead, current, made, since, breaks

(* What is appended is there, beside what was.                              *)
LEMMA Appended ==
  ASSUME NEW s \in Seq(Nat), NEW m \in Nat
  PROVE  Append(s, m) \in Seq(Nat) /\ Dispute!ToSet(Append(s, m)) = Dispute!ToSet(s) \cup {m}
<1>1. /\ Append(s, m) \in Seq(Nat) /\ Len(s) \in Nat /\ DOMAIN s = 1 .. Len(s)
      /\ DOMAIN Append(s, m) = 1 .. Len(s) + 1
      /\ \A i \in 1 .. Len(s) : Append(s, m)[i] = s[i]
      /\ Append(s, m)[Len(s) + 1] = m
  BY AppendProperties
<1>2. ASSUME NEW x \in Dispute!ToSet(Append(s, m)) PROVE x \in Dispute!ToSet(s) \cup {m}
  <2>1. PICK i \in DOMAIN Append(s, m) : x = Append(s, m)[i]
    BY <1>2 DEF Dispute!ToSet
  <2>2. i \in 1 .. Len(s) \/ i = Len(s) + 1
    BY <1>1, <2>1
  <2>. QED BY <1>1, <2>1, <2>2 DEF Dispute!ToSet
<1>3. ASSUME NEW x \in Dispute!ToSet(s) PROVE x \in Dispute!ToSet(Append(s, m))
  <2>1. PICK i \in DOMAIN s : x = s[i]
    BY <1>3 DEF Dispute!ToSet
  <2>2. i \in DOMAIN Append(s, m) /\ x = Append(s, m)[i]
    BY <1>1, <2>1
  <2>. QED BY <2>2 DEF Dispute!ToSet
<1>4. m \in Dispute!ToSet(Append(s, m))
  <2>1. Len(s) + 1 \in DOMAIN Append(s, m)
    BY <1>1
  <2>. QED BY <1>1, <2>1 DEF Dispute!ToSet
<1>. QED BY <1>1, <1>2, <1>3, <1>4

(* A message joins a list of messages once.                                 *)
LEMMA JoinedOnce ==
  ASSUME NEW s \in Seq(Nat), NEW m \in Nat, Dispute!NoneTwice(s)
  PROVE  Dispute!Joined(s, m) \in Seq(Nat)
           /\ Dispute!ToSet(Dispute!Joined(s, m)) = Dispute!ToSet(s) \cup {m}
              /\ Dispute!NoneTwice(Dispute!Joined(s, m))
<1>1. Len(s) \in Nat /\ DOMAIN s = 1 .. Len(s)
  BY LenProperties
<1>2. CASE Dispute!Contains(s, m)
  BY <1>1, <1>2 DEF Dispute!Contains, Dispute!Joined, Dispute!ToSet
<1>3. CASE ~Dispute!Contains(s, m)
  <2>1. /\ DOMAIN Append(s, m) = 1 .. Len(s) + 1
        /\ \A i \in 1 .. Len(s) : Append(s, m)[i] = s[i]
        /\ Append(s, m)[Len(s) + 1] = m
    BY AppendProperties
  <2>2. \A i \in 1 .. Len(s) : s[i] # m
    BY <1>3 DEF Dispute!Contains
  <2>3. Dispute!NoneTwice(Append(s, m))
    <3> SUFFICES ASSUME NEW i \in 1 .. Len(s) + 1, NEW j \in 1 .. Len(s) + 1,
                        Append(s, m)[i] = Append(s, m)[j]
                 PROVE  i = j
      BY <2>1 DEF Dispute!NoneTwice
    <3>1. (i \in 1 .. Len(s) \/ i = Len(s) + 1) /\ (j \in 1 .. Len(s) \/ j = Len(s) + 1)
      BY <1>1
    <3>. QED BY <1>1, <2>1, <2>2, <3>1 DEF Dispute!NoneTwice
  <2>. QED BY <1>3, <2>3, Appended DEF Dispute!Joined
<1>. QED BY <1>2, <1>3

(* What leaves a queue is its head.                                         *)
LEMMA HeadLeaves ==
  ASSUME NEW q \in Seq(Nat), q # <<>>
  PROVE  Head(q) \in Nat /\ Tail(q) \in Seq(Nat)
           /\ Dispute!ToSet(q) \subseteq {Head(q)} \cup Dispute!ToSet(Tail(q))
<1>1. /\ Len(q) \in Nat /\ DOMAIN q = 1 .. Len(q) /\ Head(q) = q[1] /\ Head(q) \in Nat
      /\ Tail(q) \in Seq(Nat) /\ Len(Tail(q)) = Len(q) - 1
      /\ \A i \in 1 .. Len(Tail(q)) : Tail(q)[i] = q[i + 1]
  BY HeadTailProperties, LenProperties
<1>2. DOMAIN Tail(q) = 1 .. Len(q) - 1
  BY <1>1, LenProperties
<1>3. ASSUME NEW i \in 1 .. Len(q), i # 1 PROVE q[i] \in Dispute!ToSet(Tail(q))
  <2>1. i - 1 \in DOMAIN Tail(q) /\ Tail(q)[i - 1] = q[i]
    BY <1>1, <1>2, <1>3
  <2>. QED BY <2>1 DEF Dispute!ToSet
<1>. QED BY <1>1, <1>3 DEF Dispute!ToSet

(* A page that goes on, and loses nothing of what it has received. *)
LEMMA PageGoes ==
  ASSUME Dispute!RoomInv, NEW p \in Pages, NEW x \in Dispute!Hooks,
         disputePage' = [disputePage EXCEPT ![p] = x],
         UNCHANGED <<sent, Dispute!server>>, Dispute!NoneTwice(x.list),
         x.stream # "none" => x.pc = "ready", disputePage[p].pc = "ready" => x.pc = "ready",
         since[p] # Dispute!Cut /\ ~x.cancelled =>
           ~disputePage[p].cancelled
             /\ Dispute!Received(disputePage[p]) \subseteq Dispute!Received(x)
  PROVE  Dispute!RoomInv'
BY DEF Dispute!RoomInv, Dispute!server

(* A page whose stream is gone. *)
LEMMA PageLeaves ==
  ASSUME Dispute!RoomInv, NEW p \in Pages, NEW x \in Dispute!Hooks,
         disputePage' = [disputePage EXCEPT ![p] = x],
         Dispute!NoneTwice(x.list), x.stream # "none" => x.pc = "ready",
         gen' = [gen EXCEPT ![p] = Dispute!None], since' = [since EXCEPT ![p] = Dispute!Cut],
         UNCHANGED <<sent, current, made>>
  PROVE  Dispute!RoomInv'
BY DEF Dispute!RoomInv, Dispute!None, Dispute!Cut

(* Every step keeps the invariant. *)
LEMMA RoomStep ==
  ASSUME Dispute!RoomInv, [Dispute!Next]_(Dispute!vars)
  PROVE  Dispute!RoomInv'
<1>0. \A p \in Pages : disputePage[p] \in Dispute!Hooks /\ Dispute!NoneTwice(disputePage[p].list)
        /\ (disputePage[p].stream # "none" => disputePage[p].pc = "ready")
  BY DEF Dispute!RoomInv
<1>1. ASSUME NEW p \in Pages, Dispute!LoadHistory(p) PROVE Dispute!RoomInv'
  <2> DEFINE x == [disputePage[p] EXCEPT !.pc = "unlocking", !.history = sent]
  <2>1. x \in Dispute!Hooks /\ x.pc = "unlocking" /\ x.cancelled = disputePage[p].cancelled
        /\ x.list = disputePage[p].list
        /\ x.stream = disputePage[p].stream /\ x.queue = disputePage[p].queue
           /\ x.decorating = disputePage[p].decorating
    BY <1>0 DEF Dispute!Hooks, Dispute!RoomInv
  <2>2. disputePage' = [disputePage EXCEPT ![p] = x] /\ UNCHANGED <<sent, Dispute!server>>
        /\ disputePage[p].pc = "history"
    BY <1>1 DEF Dispute!LoadHistory
  <2> HIDE DEF x
  <2>. QED BY <1>0, <2>1, <2>2, PageGoes DEF Dispute!Received
<1>2. ASSUME NEW p \in Pages, Dispute!Bootstrap(p) PROVE Dispute!RoomInv'
  <2> DEFINE l == IF disputePage[p].cancelled THEN disputePage[p].list ELSE [m \in 1 .. disputePage[p].history |-> m]
             x == [disputePage[p] EXCEPT !.pc = "ready", !.stream = "opening", !.list = l]
  <2>1. l \in Seq(Nat) /\ Dispute!NoneTwice(l)
    <3>1. CASE disputePage[p].cancelled
      BY <1>0, <3>1 DEF Dispute!Hooks
    <3>2. CASE ~disputePage[p].cancelled
      <4>1. disputePage[p].history \in Nat
        BY <1>0 DEF Dispute!Hooks
      <4>2. [m \in 1 .. disputePage[p].history |-> m] \in [1 .. disputePage[p].history -> Nat]
        BY <4>1
      <4>. QED BY <3>2, <4>1, <4>2, SeqDef DEF Dispute!NoneTwice
    <3>. QED BY <3>1, <3>2
  <2>2. disputePage' = [disputePage EXCEPT ![p] = x] /\ UNCHANGED <<sent, Dispute!server>>
        /\ disputePage[p].pc = "unlocking"
    BY <1>2 DEF Dispute!Bootstrap
  <2> HIDE DEF l
  <2>3. x \in Dispute!Hooks /\ x.pc = "ready" /\ x.list = l
    BY <1>0, <2>1 DEF Dispute!Hooks
  <2>4. since[p] = Dispute!Cut
    BY <2>2 DEF Dispute!RoomInv
  <2> HIDE DEF x
  <2>. QED BY <2>1, <2>2, <2>3, <2>4, PageGoes
<1>3. ASSUME NEW p \in Pages, Dispute!RegisterSubscriber(p) PROVE Dispute!RoomInv'
  <2>1. /\ disputePage[p].stream = "opening"
           /\ disputePage' = [disputePage EXCEPT ![p].stream = "open"]
        /\ made' = (IF current = Dispute!None THEN made + 1 ELSE made)
        /\ current' = (IF current = Dispute!None THEN made + 1 ELSE current)
        /\ gen' = [gen EXCEPT ![p] = current'] /\ since' = [since EXCEPT ![p] = sent]
        /\ sent' = sent
    BY <1>3 DEF Dispute!RegisterSubscriber
  <2>2. current' \in Nat /\ current' # Dispute!None /\ made' \in Nat
        /\ \A q \in Pages : since[q] # Dispute!Cut => current' = current
    BY <2>1 DEF Dispute!RoomInv, Dispute!None
  <2> DEFINE x == [disputePage[p] EXCEPT !.stream = "open"]
  <2>3. x \in Dispute!Hooks /\ x.pc = disputePage[p].pc /\ x.list = disputePage[p].list
    BY <1>0 DEF Dispute!Hooks
  <2>4. disputePage' = [disputePage EXCEPT ![p] = x]
    BY <2>1
  <2> HIDE DEF x
  <2>5. sent + 1 .. sent = {}
    BY DEF Dispute!RoomInv
  <2>. QED BY <1>0, <2>1, <2>2, <2>3, <2>4, <2>5 DEF Dispute!RoomInv
<1>4. ASSUME NEW p \in Pages, Dispute!Break(p) PROVE Dispute!RoomInv'
  <2> DEFINE x == [disputePage[p] EXCEPT !.stream = "opening", !.queue = <<>>]
  <2>1. x \in Dispute!Hooks /\ x.pc = disputePage[p].pc /\ x.list = disputePage[p].list
    BY <1>0, EmptySeq DEF Dispute!Hooks
  <2>2. /\ disputePage' = [disputePage EXCEPT ![p] = x] /\ gen' = [gen EXCEPT ![p] = Dispute!None]
        /\ since' = [since EXCEPT ![p] = Dispute!Cut] /\ UNCHANGED <<sent, current, made>>
        /\ disputePage[p].stream = "open"
    BY <1>4 DEF Dispute!Break
  <2> HIDE DEF x
  <2>. QED BY <1>0, <2>1, <2>2, PageLeaves
<1>5. ASSUME NEW p \in Pages, Dispute!Close(p) PROVE Dispute!RoomInv'
  <2> DEFINE x == [disputePage[p] EXCEPT !.cancelled = TRUE, !.stream = "none", !.queue = <<>>]
  <2>1. x \in Dispute!Hooks /\ x.stream = "none" /\ x.list = disputePage[p].list
    BY <1>0, EmptySeq DEF Dispute!Hooks
  <2>2. /\ disputePage' = [disputePage EXCEPT ![p] = x] /\ gen' = [gen EXCEPT ![p] = Dispute!None]
        /\ since' = [since EXCEPT ![p] = Dispute!Cut] /\ UNCHANGED <<sent, current, made>>
    BY <1>5 DEF Dispute!Close
  <2> HIDE DEF x
  <2>. QED BY <1>0, <2>1, <2>2, PageLeaves
<1>6. ASSUME NEW p \in Pages, Dispute!Post(p) PROVE Dispute!RoomInv'
  <2>1. /\ sent' = sent + 1 /\ UNCHANGED <<gen, current, made, since>>
        /\ \A q \in Pages : disputePage'[q] =
             [disputePage[q] EXCEPT !.sending = IF q = p THEN sent + 1 ELSE @,
                             !.queue = IF current # Dispute!None /\ gen[q] = current
                                       THEN Append(@, sent + 1) ELSE @]
        /\ disputePage' = [q \in Pages |-> disputePage'[q]]
    BY <1>6 DEF Dispute!Post, Dispute!server
  <2>2. ASSUME NEW q \in Pages
        PROVE  /\ disputePage'[q] \in Dispute!Hooks /\ disputePage'[q].pc = disputePage[q].pc
                  /\ disputePage'[q].list = disputePage[q].list
               /\ disputePage'[q].stream = disputePage[q].stream
                  /\ disputePage'[q].cancelled = disputePage[q].cancelled
               /\ disputePage'[q].decorating = disputePage[q].decorating
               /\ Dispute!ToSet(disputePage[q].queue) \subseteq Dispute!ToSet(disputePage'[q].queue)
               /\ since[q] # Dispute!Cut => sent + 1 \in Dispute!ToSet(disputePage'[q].queue)
    <3> DEFINE l == IF current # Dispute!None
               /\ gen[q] = current THEN Append(disputePage[q].queue, sent + 1)
                    ELSE disputePage[q].queue
               w == IF q = p THEN sent + 1 ELSE disputePage[q].sending
    <3>1. disputePage[q].queue \in Seq(Nat) /\ sent + 1 \in Nat
      BY <1>0 DEF Dispute!Hooks, Dispute!RoomInv
    <3>2. /\ Append(disputePage[q].queue, sent + 1) \in Seq(Nat)
          /\ Dispute!ToSet(Append(disputePage[q].queue, sent + 1)) = Dispute!ToSet(disputePage[q].queue) \cup {sent + 1}
      BY <3>1, Appended
    <3>3. /\ l \in Seq(Nat) /\ Dispute!ToSet(disputePage[q].queue) \subseteq Dispute!ToSet(l)
          /\ since[q] # Dispute!Cut => sent + 1 \in Dispute!ToSet(l)
      BY <3>1, <3>2 DEF Dispute!RoomInv
    <3>4. w \in Nat
      BY <1>0, <3>1 DEF Dispute!Hooks
    <3>5. disputePage'[q] = [disputePage[q] EXCEPT !.sending = w, !.queue = l]
      BY <2>1
    <3> HIDE DEF l, w
    <3>. QED BY <1>0, <3>3, <3>4, <3>5 DEF Dispute!Hooks
  <2>3. disputePage' \in [Pages -> Dispute!Hooks]
    BY <2>1, <2>2
  <2>4. ASSUME NEW q \in Pages, since[q] # Dispute!Cut, ~disputePage[q].cancelled
        PROVE  since[q] + 1 .. sent + 1 \subseteq Dispute!Received(disputePage'[q])
    <3>1. since[q] + 1 .. sent \subseteq Dispute!Received(disputePage[q]) /\ sent \in Nat
          /\ since[q] \in Int
      BY <2>4 DEF Dispute!RoomInv
    <3>2. since[q] + 1 .. sent + 1 \subseteq (since[q] + 1 .. sent) \cup {sent + 1}
      BY <3>1
    <3>. QED BY <2>2, <2>4, <3>1, <3>2 DEF Dispute!Received
  <2>5. sent' \in Nat /\ made' \in Nat /\ current' \in Nat /\ gen' \in [Pages -> Nat]
        /\ since' \in [Pages -> Int]
    <3>1. sent' = sent + 1 /\ made' = made /\ current' = current /\ gen' = gen /\ since' = since
      BY <2>1
    <3>2. sent \in Nat /\ made \in Nat /\ current \in Nat /\ gen \in [Pages -> Nat]
          /\ since \in [Pages -> Int]
      BY DEF Dispute!RoomInv
    <3>. QED BY ONLY <3>1, <3>2
  <2>6. ASSUME NEW q \in Pages
        PROVE  /\ Dispute!NoneTwice(disputePage'[q].list)
               /\ disputePage'[q].stream # "none" => disputePage'[q].pc = "ready"
               /\ since'[q] # Dispute!Cut => gen'[q] = current' /\ current' # Dispute!None
                  /\ disputePage'[q].pc = "ready"
               /\ since'[q] # Dispute!Cut /\ ~disputePage'[q].cancelled =>
                    since'[q] + 1 .. sent' \subseteq Dispute!Received(disputePage'[q])
    <3>1. Dispute!NoneTwice(disputePage'[q].list)
          /\ (disputePage'[q].stream # "none" => disputePage'[q].pc = "ready")
      BY <1>0, <2>2
    <3>2. since[q] # Dispute!Cut => gen[q] = current /\ current # Dispute!None
          /\ disputePage[q].pc = "ready"
      BY DEF Dispute!RoomInv
    <3>. QED BY <2>1, <2>2, <2>4, <3>1, <3>2
  <2>. QED BY <2>3, <2>5, <2>6 DEF Dispute!RoomInv
<1>7. ASSUME NEW p \in Pages,
             Dispute!Answer(p) \/ Dispute!AnswerLost(p) \/ Dispute!Event(p) \/ Dispute!Decorated(p) PROVE Dispute!RoomInv'
  <2>1. UNCHANGED <<sent, Dispute!server>>
    BY <1>7 DEF Dispute!Answer, Dispute!AnswerLost, Dispute!Event, Dispute!Decorated
  <2>2. CASE Dispute!Answer(p)
    <3> DEFINE l == IF disputePage[p].cancelled THEN disputePage[p].list ELSE Dispute!Joined(disputePage[p].list, disputePage[p].sending)
               x == [disputePage[p] EXCEPT !.sending = Dispute!None, !.list = l]
    <3>0. disputePage[p].list \in Seq(Nat) /\ Dispute!NoneTwice(disputePage[p].list)
          /\ disputePage[p].sending \in Nat
      BY <1>0 DEF Dispute!Hooks
    <3>1. l \in Seq(Nat) /\ Dispute!NoneTwice(l)
          /\ Dispute!ToSet(disputePage[p].list) \subseteq Dispute!ToSet(l)
      <4>1. LET j == Dispute!Joined(disputePage[p].list, disputePage[p].sending)
            IN  j \in Seq(Nat) /\ Dispute!NoneTwice(j)
              /\ Dispute!ToSet(disputePage[p].list) \subseteq Dispute!ToSet(j)
        BY <3>0, JoinedOnce
      <4>. QED BY <3>0, <4>1
    <3>2. disputePage' = [disputePage EXCEPT ![p] = x]
      BY <2>2 DEF Dispute!Answer
    <3> HIDE DEF l
    <3>3. x \in Dispute!Hooks /\ x.pc = disputePage[p].pc
          /\ x.cancelled = disputePage[p].cancelled /\ x.list = l
          /\ x.stream = disputePage[p].stream /\ x.queue = disputePage[p].queue
             /\ x.decorating = disputePage[p].decorating
      BY <1>0, <3>1 DEF Dispute!Hooks, Dispute!None
    <3> HIDE DEF x
    <3>. QED BY <1>0, <2>1, <3>1, <3>2, <3>3, PageGoes DEF Dispute!Received
  <2>3. CASE Dispute!AnswerLost(p)
    <3> DEFINE x == [disputePage[p] EXCEPT !.sending = Dispute!None]
    <3>1. disputePage' = [disputePage EXCEPT ![p] = x]
      BY <2>3 DEF Dispute!AnswerLost
    <3>2. x \in Dispute!Hooks /\ x.pc = disputePage[p].pc
          /\ x.cancelled = disputePage[p].cancelled /\ x.list = disputePage[p].list
          /\ x.stream = disputePage[p].stream /\ x.queue = disputePage[p].queue
             /\ x.decorating = disputePage[p].decorating
      BY <1>0 DEF Dispute!Hooks, Dispute!None
    <3> HIDE DEF x
    <3>. QED BY <1>0, <2>1, <3>1, <3>2, PageGoes DEF Dispute!Received
  <2>4. CASE Dispute!Event(p)
    <3> DEFINE q == disputePage[p].queue
               x == [disputePage[p] EXCEPT !.queue = Tail(@), !.decorating = @ \cup {Head(q)}]
    <3>1. disputePage' = [disputePage EXCEPT ![p] = x] /\ q # <<>>
      BY <2>4 DEF Dispute!Event
    <3>2. Head(q) \in Nat /\ Tail(q) \in Seq(Nat)
          /\ Dispute!ToSet(q) \subseteq {Head(q)} \cup Dispute!ToSet(Tail(q))
      BY <1>0, <3>1, HeadLeaves DEF Dispute!Hooks
    <3>3. x \in Dispute!Hooks /\ x.pc = disputePage[p].pc
          /\ x.cancelled = disputePage[p].cancelled /\ x.list = disputePage[p].list
          /\ x.stream = disputePage[p].stream /\ x.queue = Tail(q)
          /\ x.decorating = disputePage[p].decorating \cup {Head(q)}
      BY <1>0, <3>2 DEF Dispute!Hooks
    <3> HIDE DEF x
    <3>. QED BY <1>0, <2>1, <3>1, <3>2, <3>3, PageGoes DEF Dispute!Received
  <2>5. CASE Dispute!Decorated(p)
    <3>1. PICK m \in disputePage[p].decorating : disputePage' = [disputePage EXCEPT
            ![p].decorating = @ \ {m},
            ![p].list = IF disputePage[p].cancelled THEN @ ELSE Dispute!Joined(@, m)]
      BY <2>5 DEF Dispute!Decorated
    <3> DEFINE l == IF disputePage[p].cancelled THEN disputePage[p].list ELSE Dispute!Joined(disputePage[p].list, m)
               x == [disputePage[p] EXCEPT !.decorating = @ \ {m}, !.list = l]
    <3>2. /\ l \in Seq(Nat) /\ Dispute!NoneTwice(l)
             /\ Dispute!ToSet(disputePage[p].list) \subseteq Dispute!ToSet(l)
          /\ ~disputePage[p].cancelled => m \in Dispute!ToSet(l)
      <4>0. disputePage[p].list \in Seq(Nat) /\ Dispute!NoneTwice(disputePage[p].list) /\ m \in Nat
        BY <1>0 DEF Dispute!Hooks
      <4>1. LET j == Dispute!Joined(disputePage[p].list, m)
            IN  j \in Seq(Nat) /\ Dispute!NoneTwice(j)
              /\ Dispute!ToSet(j) = Dispute!ToSet(disputePage[p].list) \cup {m}
        BY <4>0, JoinedOnce
      <4>. QED BY <4>0, <4>1
    <3>3. disputePage' = [disputePage EXCEPT ![p] = x]
      BY <3>1
    <3> HIDE DEF l
    <3>4. x \in Dispute!Hooks /\ x.pc = disputePage[p].pc
          /\ x.cancelled = disputePage[p].cancelled /\ x.list = l
          /\ x.stream = disputePage[p].stream /\ x.queue = disputePage[p].queue
          /\ x.decorating = disputePage[p].decorating \ {m}
      BY <1>0, <3>2 DEF Dispute!Hooks
    <3> HIDE DEF x
    <3>. QED BY <1>0, <2>1, <3>2, <3>3, <3>4, PageGoes DEF Dispute!Received
  <2>. QED BY <1>7, <2>2, <2>3, <2>4, <2>5
<1>8. ASSUME NEW d \in dead, Dispute!Unregister(d) PROVE Dispute!RoomInv'
  <2>1. /\ UNCHANGED <<sent, disputePage, gen, made>> /\ current' \in {Dispute!None, current}
        /\ since' = [p \in Pages |-> IF gen[p] # Dispute!None /\ current' # gen[p] THEN Dispute!Cut ELSE since[p]]
    BY <1>8 DEF Dispute!Unregister, Dispute!Evicted
  <2>2. /\ sent' \in Nat /\ made' \in Nat /\ current' \in Nat
           /\ disputePage' \in [Pages -> Dispute!Hooks]
        /\ gen' \in [Pages -> Nat] /\ since' \in [Pages -> Int]
    BY <2>1 DEF Dispute!RoomInv, Dispute!None, Dispute!Cut
  <2>3. ASSUME NEW p \in Pages, since'[p] # Dispute!Cut
        PROVE  since'[p] = since[p] /\ gen[p] = current' /\ current' # Dispute!None
    BY <2>1, <2>3 DEF Dispute!RoomInv, Dispute!None
  <2>. QED BY <2>1, <2>2, <2>3 DEF Dispute!RoomInv
<1>9. ASSUME NEW d \in dead, Dispute!Prune(d) PROVE Dispute!RoomInv'
  <2>1. \A p \in Pages : since[p] # Dispute!Cut => current' = current
    BY <1>9 DEF Dispute!Prune, Dispute!Empty, Dispute!Live, Dispute!RoomInv
  <2>. QED BY <1>9, <2>1 DEF Dispute!Prune, Dispute!RoomInv, Dispute!None
<1>10. CASE UNCHANGED Dispute!vars
  BY <1>10 DEF Dispute!vars, Dispute!server, Dispute!RoomInv
<1>. QED BY <1>1, <1>2, <1>3, <1>4, <1>5, <1>6, <1>7, <1>8, <1>9, <1>10 DEF Dispute!Next

LEMMA DisputeHolds == Dispute!Spec => []Dispute!EachMessageOnce
<1>1. Dispute!Init => Dispute!RoomInv
  <2> SUFFICES ASSUME Dispute!Init PROVE Dispute!RoomInv
    OBVIOUS
  <2>1. Dispute!Fresh \in Dispute!Hooks /\ Dispute!Fresh.list = <<>>
        /\ Dispute!Fresh.stream = "none"
    BY EmptySeq DEF Dispute!Fresh, Dispute!Hooks, Dispute!None
  <2>2. Dispute!NoneTwice(<<>>)
    BY DEF Dispute!NoneTwice
  <2> HIDE DEF Dispute!Fresh
  <2>. QED BY <2>1, <2>2 DEF Dispute!Init, Dispute!RoomInv, Dispute!None, Dispute!Cut
<1>2. Dispute!RoomInv /\ [Dispute!Next]_(Dispute!vars) => Dispute!RoomInv'
  BY RoomStep
<1>3. Dispute!RoomInv => Dispute!EachMessageOnce
  BY DEF Dispute!RoomInv, Dispute!NoneTwice, Dispute!Received, Dispute!EachMessageOnce
<1>. QED BY <1>1, <1>2, <1>3, PTL DEF Dispute!Spec

LEMMA DisputeRuns == MCSpec => []~(machine = "dispute") \/ Dispute!Spec
<1>1. MCInit /\ machine = "dispute" => Dispute!Init
  BY DEF MCInit
<1>2. machine = "dispute" /\ [MCNext]_all => (machine = "dispute")' /\ [Dispute!Next]_(Dispute!vars)
  BY DEF MCNext, all, inst, Dispute!vars
<1>3. ~(machine = "dispute") /\ [MCNext]_all => (~(machine = "dispute"))'
  BY DEF MCNext, all
<1>. QED BY <1>1, <1>2, <1>3, PTL DEF MCSpec, Dispute!Spec

-----------------------------------------------------------------------------
(* The sealed transcripts.  What a component holds is of the wallet that    *)
(* unlocked it, and what it is sealing is not in a transcript yet.          *)

secureStored == v1
client == v2
salts == v3
sends == v4

USE DEF secureStored, client, salts, sends

(* A transcript is not the absence of one.                                  *)
LEMMA SessionsAreSome == \A s \in Secure!Sessions : s # Secure!NoSession
BY DEF Secure!Sessions, Secure!NoSession

(* What is sound stays so when there are more messages.                     *)
LEMMA MoreIsSound ==
  ASSUME NEW m \in Nat, NEW n \in Nat, m <= n
  PROVE  /\ \A s : Secure!Whole(s, m) => Secure!Whole(s, n)
         /\ \A k : Secure!Sound(k, m) => Secure!Sound(k, n)
<1>1. ASSUME NEW s, Secure!Whole(s, m) PROVE Secure!Whole(s, n)
  <2>1. s.messages \in Seq(Secure!Messages)
    BY <1>1 DEF Secure!Whole, Secure!Sessions
  <2>2. \A i \in DOMAIN s.messages : s.messages[i] \in Secure!Messages
    BY <2>1
  <2>3. \A i \in DOMAIN s.messages : s.messages[i].id <= n
    BY <1>1, <2>2 DEF Secure!Whole, Secure!Messages
  <2>. QED BY <1>1, <2>3 DEF Secure!Whole
<1>2. ASSUME NEW k, Secure!Sound(k, m) PROVE Secure!Sound(k, n)
  <2>1. \A x \in k.sealing : x.id <= n
    BY <1>2 DEF Secure!Sound, Secure!Holders, Secure!Messages
  <2>. QED BY <1>1, <1>2, <2>1 DEF Secure!Sound
<1>. QED BY <1>1, <1>2

(* One component goes on, and a whole transcript or none is stored.         *)
LEMMA ClientGoes ==
  ASSUME Secure!SecureInv, NEW c \in Clients, NEW x, client' = [client EXCEPT ![c] = x],
         Secure!Sound(x, sends'),
         sends' \in Nat, sends <= sends', salts' \in Nat,
         secureStored' = secureStored \/ secureStored' = Secure!NoSession \/ Secure!Whole(secureStored', sends')
  PROVE  Secure!SecureInv'
<1>1. /\ \A s : Secure!Whole(s, sends) => Secure!Whole(s, sends')
      /\ \A k : Secure!Sound(k, sends) => Secure!Sound(k, sends')
  BY MoreIsSound DEF Secure!SecureInv
<1>. QED BY <1>1 DEF Secure!SecureInv

(* A message that was not in a transcript is appended to it. *)
LEMMA AppendKeepsWhole ==
  ASSUME NEW n \in Nat, NEW s, Secure!Whole(s, n), NEW m \in Secure!Messages, m.id <= n,
         m.key = Secure!KeyOf(s.wallet, s), \A i \in DOMAIN s.messages : s.messages[i].id # m.id,
         NEW t, t = [s EXCEPT !.messages = Append(@, m)]
  PROVE  /\ Secure!Whole(t, n) /\ t.wallet = s.wallet /\ t.salt = s.salt
         /\ t.messages = Append(s.messages, m) /\ t.messages # <<>>
         /\ \A i \in DOMAIN t.messages : t.messages[i] = m \/ \E j \in DOMAIN s.messages : t.messages[i] = s.messages[j]
<1>1. s \in Secure!Sessions /\ s.messages \in Seq(Secure!Messages)
  BY DEF Secure!Whole, Secure!Sessions
<1>2. t \in Secure!Sessions /\ t.wallet = s.wallet /\ t.salt = s.salt
      /\ t.messages = Append(s.messages, m)
  <2>1. Append(s.messages, m) \in Seq(Secure!Messages)
    BY <1>1, AppendProperties
  <2>. QED BY <1>1, <2>1 DEF Secure!Sessions
<1>3. /\ t.messages # <<>> /\ DOMAIN s.messages = 1 .. Len(s.messages) /\ Len(s.messages) \in Nat
      /\ DOMAIN t.messages = 1 .. Len(s.messages) + 1
      /\ \A i \in 1 .. Len(s.messages) : t.messages[i] = s.messages[i]
      /\ t.messages[Len(s.messages) + 1] = m
  BY <1>1, <1>2, AppendProperties
<1>4. Secure!KeyOf(t.wallet, t) = Secure!KeyOf(s.wallet, s)
  BY <1>2 DEF Secure!KeyOf
<1>5. \A i \in DOMAIN s.messages : s.messages[i].id <= n
      /\ s.messages[i].key = Secure!KeyOf(s.wallet, s)
  BY DEF Secure!Whole, Secure!Opens
<1>6. \A i \in DOMAIN t.messages : t.messages[i].id <= n
      /\ t.messages[i].key = Secure!KeyOf(t.wallet, t)
  BY <1>3, <1>4, <1>5
<1>7. \A i, j \in DOMAIN t.messages : t.messages[i].id = t.messages[j].id => i = j
  BY <1>3 DEF Secure!Whole, Secure!Opens
<1>8. ASSUME NEW i \in DOMAIN t.messages
      PROVE  t.messages[i] = m \/ \E j \in DOMAIN s.messages : t.messages[i] = s.messages[j]
  <2>1. i \in 1 .. Len(s.messages) \/ i = Len(s.messages) + 1
    BY <1>3
  <2>. QED BY <1>3, <2>1
<1>9. Secure!Whole(t, n)
  BY <1>2, <1>6, <1>7 DEF Secure!Whole, Secure!Opens
<1>. QED BY <1>2, <1>3, <1>8, <1>9

(* Every step keeps the invariant. *)
LEMMA SecureStep ==
  ASSUME Secure!SecureInv, [Secure!Next]_(Secure!vars)
  PROVE  Secure!SecureInv'
<1> USE DEF Secure!SecureInv
<1>0. \A c \in Clients : Secure!Sound(client[c], sends) /\ client[c] \in Secure!Holders
  BY DEF Secure!Sound
<1>1. ASSUME NEW c \in Clients, NEW x, Secure!Set(c, x), Secure!Sound(x, sends),
             UNCHANGED <<secureStored, sends>>,
             salts' \in Nat
      PROVE  Secure!SecureInv'
  BY <1>1, ClientGoes DEF Secure!Set
<1>2. ASSUME NEW c \in Clients, Secure!NoWallet(c) PROVE Secure!SecureInv'
  <2> DEFINE x == [client[c] EXCEPT !.pc = "no-wallet"]
  <2>1. x \in Secure!Holders /\ x.pc = "no-wallet" /\ x.loaded = client[c].loaded
        /\ x.session = client[c].session /\ x.sealing = client[c].sealing
        /\ x.shown = client[c].shown /\ x.wallet = client[c].wallet /\ x.key = client[c].key
    BY <1>0 DEF Secure!Holders
  <2>2. Secure!Set(c, x) /\ UNCHANGED <<secureStored, salts, sends>>
    BY <1>2 DEF Secure!NoWallet
  <2> HIDE DEF x
  <2>3. Secure!Sound(x, sends)
    BY <1>0, <2>1 DEF Secure!Sound, Secure!Unsaved
  <2>. QED BY <1>1, <2>2, <2>3
<1>3. ASSUME NEW c \in Clients, NEW wallet \in Wallets, Secure!Unlock(c, wallet)
      PROVE Secure!SecureInv'
  <2> DEFINE s == IF secureStored # Secure!NoSession THEN secureStored
                  ELSE [wallet |-> wallet, salt |-> salts + 1, messages |-> <<>>]
             x == [client[c] EXCEPT !.pc = "deriving", !.wallet = wallet,
                                    !.isNew = (secureStored = Secure!NoSession), !.loaded = s]
  <2>1. Secure!Whole(s, sends) /\ s \in Secure!Sessions /\ s.wallet = wallet /\ s # Secure!NoSession
    <3>1. CASE secureStored # Secure!NoSession
      BY <1>3, <3>1 DEF Secure!Unlock, Secure!BelongsToAnother, Secure!Whole
    <3>2. CASE secureStored = Secure!NoSession
      <4>1. /\ s \in Secure!Sessions /\ s.messages = <<>> /\ DOMAIN s.messages = {}
               /\ s.wallet = wallet
        BY <3>2 DEF Secure!Sessions
      <4>. QED BY <4>1, SessionsAreSome DEF Secure!Whole, Secure!Opens
    <3>. QED BY <3>1, <3>2
  <2>2. Secure!Set(c, x) /\ UNCHANGED <<secureStored, sends>> /\ salts' \in Nat
        /\ client[c].pc = "asking"
    BY <1>3 DEF Secure!Unlock
  <2> HIDE DEF s
  <2>3. x \in Secure!Holders /\ x.pc = "deriving" /\ x.loaded = s
        /\ x.session = client[c].session /\ x.sealing = client[c].sealing
        /\ x.shown = client[c].shown /\ x.wallet = wallet
    BY <1>0, <2>1 DEF Secure!Holders
  <2> HIDE DEF x
  <2>4. Secure!Sound(x, sends)
    BY <1>0, <2>1, <2>2, <2>3 DEF Secure!Sound
  <2>. QED BY <1>1, <2>2, <2>4
<1>4. ASSUME NEW c \in Clients, NEW wallet \in Wallets, Secure!RefuseUnlock(c, wallet)
      PROVE Secure!SecureInv'
  <2> DEFINE x == [client[c] EXCEPT !.pc = "different-wallet", !.wallet = wallet]
  <2>1. x \in Secure!Holders /\ x.pc = "different-wallet" /\ x.loaded = client[c].loaded
        /\ x.session = client[c].session /\ x.sealing = client[c].sealing
        /\ x.shown = client[c].shown /\ x.wallet = wallet
    BY <1>0 DEF Secure!Holders
  <2>2. Secure!Set(c, x) /\ UNCHANGED <<secureStored, salts, sends>> /\ client[c].pc = "asking"
    BY <1>4 DEF Secure!RefuseUnlock
  <2> HIDE DEF x
  <2>3. client[c].loaded = Secure!NoSession
    BY <1>0, <2>2 DEF Secure!Sound
  <2>4. Secure!Sound(x, sends)
    BY <1>0, <2>1, <2>2, <2>3 DEF Secure!Sound
  <2>. QED BY <1>1, <2>2, <2>4
<1>5. ASSUME NEW c \in Clients, Secure!Derived(c) PROVE Secure!SecureInv'
  <2> DEFINE s == client[c].loaded
             x == [client[c] EXCEPT !.pc = "unlocked", !.loaded = Secure!NoSession, !.session = s,
                                    !.key = Secure!KeyOf(client[c].wallet, s), !.shown = s.messages]
  <2>1. Secure!Whole(s, sends) /\ s \in Secure!Sessions /\ s.wallet = client[c].wallet
        /\ s # Secure!NoSession
        /\ client[c].sealing = {} /\ client[c].pc = "deriving"
    BY <1>0, <1>5 DEF Secure!Derived, Secure!Sound, Secure!Whole
  <2>2. Secure!Set(c, x) /\ (secureStored' = secureStored \/ secureStored' = s)
        /\ UNCHANGED <<salts, sends>>
    BY <1>5 DEF Secure!Derived
  <2> HIDE DEF s
  <2>3. Secure!KeyOf(client[c].wallet, s) \in Secure!Keys /\ s.messages \in Seq(Secure!Messages)
    BY <2>1 DEF Secure!Keys, Secure!KeyOf, Secure!Sessions
  <2>4. x \in Secure!Holders /\ x.pc = "unlocked" /\ x.loaded = Secure!NoSession /\ x.session = s
        /\ x.key = Secure!KeyOf(x.wallet, s) /\ x.shown = s.messages /\ x.sealing = {}
           /\ x.wallet = client[c].wallet
    BY <1>0, <2>1, <2>3 DEF Secure!Holders
  <2> HIDE DEF x
  <2>5. Secure!Sound(x, sends)
    BY <2>1, <2>4 DEF Secure!Sound, Secure!Unsaved
  <2>. QED BY <2>1, <2>2, <2>5, ClientGoes DEF Secure!Set
<1>6. ASSUME NEW c \in Clients, Secure!DeriveFails(c) PROVE Secure!SecureInv'
  <2> DEFINE x == [client[c] EXCEPT !.pc = "error", !.loaded = Secure!NoSession]
  <2>1. x \in Secure!Holders /\ x.pc = "error" /\ x.loaded = Secure!NoSession
        /\ x.session = client[c].session /\ x.sealing = client[c].sealing
        /\ x.shown = client[c].shown
    BY <1>0 DEF Secure!Holders
  <2>2. Secure!Set(c, x) /\ UNCHANGED <<secureStored, salts, sends>> /\ client[c].pc = "deriving"
    BY <1>6 DEF Secure!DeriveFails
  <2> HIDE DEF x
  <2>3. Secure!Sound(x, sends)
    BY <1>0, <2>1, <2>2 DEF Secure!Sound
  <2>. QED BY <1>1, <2>2, <2>3
<1>7. ASSUME NEW c \in Clients, Secure!Send(c) PROVE Secure!SecureInv'
  <2> DEFINE m == [id |-> sends + 1, key |-> client[c].key]
             x == [client[c] EXCEPT !.sealing = @ \cup {m}]
  <2>1. client[c].pc = "unlocked" /\ client[c].session # Secure!NoSession
        /\ client[c].key # Secure!NoKey
        /\ Secure!Set(c, x) /\ sends' = sends + 1 /\ UNCHANGED <<secureStored, salts>>
    BY <1>7 DEF Secure!Send
  <2>2. m \in Secure!Messages /\ m.id = sends + 1 /\ m.key = client[c].key
    BY <1>0, <2>1 DEF Secure!Messages, Secure!Holders
  <2> HIDE DEF m
  <2>3. x \in Secure!Holders /\ x.pc = "unlocked" /\ x.loaded = client[c].loaded
        /\ x.session = client[c].session /\ x.sealing = client[c].sealing \cup {m}
        /\ x.shown = client[c].shown /\ x.wallet = client[c].wallet /\ x.key = client[c].key
    BY <1>0, <2>1, <2>2 DEF Secure!Holders
  <2> HIDE DEF x
  <2>4. Secure!Sound(client[c], sends + 1) /\ \A o \in client[c].sealing : o.id <= sends
    <3>1. sends + 1 \in Nat /\ sends <= sends + 1
      OBVIOUS
    <3>. QED BY <1>0, <3>1, MoreIsSound DEF Secure!Sound
  <2>5. \A i \in DOMAIN client[c].session.messages : client[c].session.messages[i].id # m.id
    <3>1. Secure!Whole(client[c].session, sends)
      BY <1>0, <2>1 DEF Secure!Sound
    <3>2. \A i \in DOMAIN client[c].session.messages : client[c].session.messages[i] \in Secure!Messages
      BY <3>1 DEF Secure!Whole, Secure!Sessions
    <3>. QED BY <2>2, <3>1, <3>2 DEF Secure!Whole, Secure!Messages
  <2>6. \A o \in client[c].sealing : o.id # m.id
    BY <1>0, <2>2, <2>4 DEF Secure!Holders, Secure!Messages
  <2>7. Secure!Sound(x, sends + 1)
    BY <2>1, <2>2, <2>3, <2>4, <2>5, <2>6 DEF Secure!Sound, Secure!Unsaved
  <2>. QED BY <2>1, <2>7, ClientGoes DEF Secure!Set
<1>8. ASSUME NEW c \in Clients, NEW m \in client[c].sealing, Secure!Sealed(c, m)
      PROVE Secure!SecureInv'
  <2> DEFINE s == client[c].session
             t == [s EXCEPT !.messages = Append(@, m)]
             x == [client[c] EXCEPT !.sealing = @ \ {m}, !.session = t, !.shown = t.messages]
  <2>1. s # Secure!NoSession /\ Secure!Set(c, x) /\ secureStored' = t /\ UNCHANGED <<salts, sends>>
    BY <1>8 DEF Secure!Sealed
  <2>2. /\ Secure!Whole(s, sends) /\ s.wallet = client[c].wallet
           /\ client[c].key = Secure!KeyOf(client[c].wallet, s)
        /\ m \in Secure!Messages /\ m.id <= sends /\ m.key = Secure!KeyOf(s.wallet, s)
        /\ \A i \in DOMAIN s.messages : s.messages[i].id # m.id
    BY <1>0, <2>1 DEF Secure!Sound, Secure!Unsaved, Secure!Holders
  <2>a. t = [s EXCEPT !.messages = Append(@, m)] /\ s = client[c].session /\ sends \in Nat
    OBVIOUS
  <2>b. x = [client[c] EXCEPT !.sealing = @ \ {m}, !.session = t, !.shown = t.messages]
    OBVIOUS
  <2> HIDE DEF s, t, x
  <2>3. /\ Secure!Whole(t, sends) /\ t.wallet = s.wallet /\ t.salt = s.salt /\ t.messages # <<>>
        /\ \A i \in DOMAIN t.messages : t.messages[i] = m \/ \E j \in DOMAIN s.messages : t.messages[i] = s.messages[j]
    <3>1. sends \in Nat /\ Secure!Whole(s, sends) /\ m \in Secure!Messages /\ m.id <= sends
          /\ m.key = Secure!KeyOf(s.wallet, s)
             /\ \A i \in DOMAIN s.messages : s.messages[i].id # m.id
      BY <2>2, <2>a
    <3>2. t = [s EXCEPT !.messages = Append(@, m)]
      BY <2>a
    <3>3. Secure!Whole(t, sends) /\ t.wallet = s.wallet /\ t.salt = s.salt /\ t.messages # <<>>
      BY ONLY <3>1, <3>2, AppendKeepsWhole
    <3>4. \A i \in DOMAIN t.messages : t.messages[i] = m \/ \E j \in DOMAIN s.messages : t.messages[i] = s.messages[j]
      BY ONLY <3>1, <3>2, AppendKeepsWhole
    <3>. QED BY <3>3, <3>4
  <2>4. t \in Secure!Sessions /\ t # Secure!NoSession /\ t.messages \in Seq(Secure!Messages)
        /\ Secure!KeyOf(t.wallet, t) = Secure!KeyOf(s.wallet, s)
    BY <2>3, SessionsAreSome DEF Secure!Whole, Secure!Sessions, Secure!KeyOf
  <2>5. x \in Secure!Holders /\ x.pc = client[c].pc /\ x.loaded = client[c].loaded
        /\ x.session = t /\ x.sealing = client[c].sealing \ {m}
        /\ x.shown = t.messages /\ x.wallet = client[c].wallet /\ x.key = client[c].key
    BY <1>0, <2>4, <2>b DEF Secure!Holders
  <2>6. Secure!Unsaved(x)
    BY <1>0, <2>1, <2>3, <2>5, <2>a DEF Secure!Unsaved, Secure!Sound
  <2>7. Secure!Sound(x, sends)
    BY <1>0, <2>1, <2>2, <2>3, <2>4, <2>5, <2>6, <2>a DEF Secure!Sound
  <2>. QED BY <2>1, <2>3, <2>7, ClientGoes DEF Secure!Set
<1>9. ASSUME NEW c \in Clients, NEW m \in client[c].sealing, Secure!SendFails(c, m)
      PROVE Secure!SecureInv'
  <2> DEFINE x == [client[c] EXCEPT !.sealing = @ \ {m}]
  <2>1. x \in Secure!Holders /\ x.pc = client[c].pc /\ x.loaded = client[c].loaded
        /\ x.session = client[c].session /\ x.sealing = client[c].sealing \ {m}
        /\ x.shown = client[c].shown /\ x.wallet = client[c].wallet /\ x.key = client[c].key
    BY <1>0 DEF Secure!Holders
  <2>2. Secure!Set(c, x) /\ UNCHANGED <<secureStored, salts, sends>>
    BY <1>9 DEF Secure!SendFails
  <2> HIDE DEF x
  <2>3. Secure!Sound(x, sends)
    BY <1>0, <2>1 DEF Secure!Sound, Secure!Unsaved
  <2>. QED BY <1>1, <2>2, <2>3
<1>10. ASSUME NEW c \in Clients, Secure!Reset(c) PROVE Secure!SecureInv'
  <2> DEFINE x == [client[c] EXCEPT !.pc = "unlocked", !.key = Secure!NoKey, !.session = Secure!NoSession, !.shown = <<>>]
  <2>1. x \in Secure!Holders /\ x.pc = "unlocked" /\ x.loaded = client[c].loaded
        /\ x.session = Secure!NoSession /\ x.sealing = client[c].sealing /\ x.shown = <<>>
        /\ x.wallet = client[c].wallet
    <3>1. <<>> \in Seq(Secure!Messages)
      BY EmptySeq
    <3>. QED BY <1>0, <3>1 DEF Secure!Holders
  <2>2. Secure!Set(c, x) /\ secureStored' = Secure!NoSession /\ UNCHANGED <<salts, sends>>
    BY <1>10 DEF Secure!Reset
  <2> HIDE DEF x
  <2>3. Secure!Sound(x, sends)
    BY <1>0, <2>1 DEF Secure!Sound
  <2>. QED BY <2>2, <2>3, ClientGoes DEF Secure!Set
<1>11. CASE UNCHANGED Secure!vars
  BY <1>11 DEF Secure!vars
<1>. QED BY <1>2, <1>3, <1>4, <1>5, <1>6, <1>7, <1>8, <1>9, <1>10, <1>11 DEF Secure!Next

LEMMA SecureHolds ==
  Secure!Spec => []Secure!ReadableTranscript
<1>1. Secure!Init => Secure!SecureInv
  BY DEF Secure!Init, Secure!SecureInv, Secure!Sound, Secure!Fresh, Secure!Holders,
     Secure!NoSession, Secure!Unsaved
<1>2. Secure!SecureInv /\ [Secure!Next]_(Secure!vars) => Secure!SecureInv'
  BY SecureStep
<1>3. Secure!SecureInv => Secure!ReadableTranscript
  <2> SUFFICES ASSUME Secure!SecureInv PROVE Secure!ReadableTranscript
    OBVIOUS
  <2>1. secureStored # Secure!NoSession =>
          Secure!Opens(Secure!KeyOf(secureStored.wallet, secureStored), secureStored.messages)
    BY DEF Secure!SecureInv, Secure!Whole
  <2>2. ASSUME NEW c \in Clients, client[c].shown # <<>>
        PROVE  Secure!Opens(client[c].key, client[c].shown) /\ client[c].key[1] = client[c].wallet
    <3>1. /\ client[c].session # Secure!NoSession /\ client[c].shown = client[c].session.messages
          /\ Secure!Whole(client[c].session, sends) /\ client[c].session.wallet = client[c].wallet
          /\ client[c].key = Secure!KeyOf(client[c].wallet, client[c].session)
      BY <2>2 DEF Secure!SecureInv, Secure!Sound
    <3>2. Secure!Opens(client[c].key, client[c].shown)
      BY <3>1 DEF Secure!Whole, Secure!KeyOf
    <3>3. client[c].key[1] = client[c].wallet
      BY <3>1 DEF Secure!KeyOf
    <3>. QED BY <3>2, <3>3
  <2>. QED BY <2>1, <2>2 DEF Secure!ReadableTranscript
<1>. QED BY <1>1, <1>2, <1>3, PTL DEF Secure!Spec

LEMMA SecureRuns == MCSpec => []~(machine = "secure") \/ Secure!Spec
<1>1. MCInit /\ machine = "secure" => Secure!Init
  BY DEF MCInit
<1>2. machine = "secure" /\ [MCNext]_all => (machine = "secure")' /\ [Secure!Next]_(Secure!vars)
  BY DEF MCNext, all, inst, Secure!vars
<1>3. ~(machine = "secure") /\ [MCNext]_all => (~(machine = "secure"))'
  BY DEF MCNext, all
<1>. QED BY <1>1, <1>2, <1>3, PTL DEF MCSpec, Secure!Spec

(* In the chat of a dispute a page shows no message twice and misses none   *)
(* while its stream holds, and sealed transcripts are readable, whatever    *)
(* pages, streams, components and wallets overlap, break off or are closed. *)
THEOREM ChatsStayWhole == MCSpec => []ChatsAreWhole
<1>1. Dispute!Spec => []Dispute!EachMessageOnce
  BY DisputeHolds
<1>2. Secure!Spec => []Secure!ReadableTranscript
  BY SecureHolds
<1>3. (~(machine = "dispute") \/ Dispute!EachMessageOnce)
      /\ (~(machine = "secure") \/ Secure!ReadableTranscript) => ChatsAreWhole
  BY DEF ChatsAreWhole
<1>. QED BY <1>1, <1>2, <1>3, DisputeRuns, SecureRuns, PTL

-----------------------------------------------------------------------------
(* The payment history.  The list is sorted by rank: a payment stands after *)
(* as many as are newer.  What a walk has collected goes down that list to  *)
(* its cursor, and no payment that was there all along is skipped (WalkInv).*)
historyRows == v1
historyWalk == v2
historySteady == v3
historyChanges == v4

USE DEF historyRows, historyWalk, historySteady, historyChanges

(* What the instance counts is what there is.                               *)
LEMMA HistoryCount ==
  \A S : /\ History!Cardinality(S) = Cardinality(S)
         /\ History!IsFiniteSet(S) <=> IsFiniteSet(S)
<1>1. \A S : History!Cardinality(S) = Cardinality(S)
  BY DEF History!Cardinality, Cardinality
<1>2. \A S : History!IsFiniteSet(S) <=> IsFiniteSet(S)
  BY DEF History!IsFiniteSet, IsFiniteSet
<1>. QED BY <1>1, <1>2

(* Newer is a strict total order of the payments.                           *)
LEMMA NewerOrders ==
  ASSUME History!PaymentQueryAssumption
  PROVE  /\ \A p \in Payment : ~History!Newer(p, p)
         /\ \A p, q, r \in Payment : History!Newer(p, q)
            /\ History!Newer(q, r) => History!Newer(p, r)
         /\ \A p, q \in Payment : p # q => History!Newer(p, q) \/ History!Newer(q, p)
<1>1. \A p \in Payment : p \in Nat /\ TsOf[p] \in Nat
  BY DEF History!PaymentQueryAssumption
<1>. QED BY <1>1 DEF History!Newer

(* A payment further down a list has more payments ahead of it.             *)
LEMMA AheadGrows ==
  ASSUME History!PaymentQueryAssumption, NEW S \in SUBSET Payment
  PROVE  /\ IsFiniteSet(S) /\ Cardinality(S) \in Nat
         /\ \A p \in S : /\ Cardinality(History!Ahead(S, p)) \in Nat
                         /\ Cardinality(History!Ahead(S, p)) < Cardinality(S)
         /\ \A p, q \in S : History!Newer(p, q) =>
              Cardinality(History!Ahead(S, p)) < Cardinality(History!Ahead(S, q))
<1>1. IsFiniteSet(S) /\ Cardinality(S) \in Nat
  <2>1. IsFiniteSet(Payment)
    BY HistoryCount DEF History!PaymentQueryAssumption
  <2>2. IsFiniteSet(S)
    BY <2>1, FS_Subset
  <2>. QED BY <2>2, FS_CardinalityType
<1>2. \A p \in S : IsFiniteSet(History!Ahead(S, p)) /\ Cardinality(History!Ahead(S, p)) \in Nat
  <2>1. \A p : History!Ahead(S, p) \in SUBSET S
    BY DEF History!Ahead
  <2>. QED BY <1>1, <2>1, FS_Subset, FS_CardinalityType
<1>3. ASSUME NEW A \in SUBSET S, NEW p \in S, p \notin History!Ahead(S, p),
             History!Ahead(S, p) \cup {p} \subseteq A
      PROVE  Cardinality(History!Ahead(S, p)) < Cardinality(A)
  <2>1. /\ IsFiniteSet(History!Ahead(S, p) \cup {p})
        /\ Cardinality(History!Ahead(S, p) \cup {p}) = Cardinality(History!Ahead(S, p)) + 1
    BY <1>2, <1>3, FS_AddElement
  <2>2. IsFiniteSet(A) /\ Cardinality(A) \in Nat
    BY <1>1, FS_Subset, FS_CardinalityType
  <2>3. Cardinality(History!Ahead(S, p) \cup {p}) <= Cardinality(A)
    BY <1>3, <2>2, FS_Subset
  <2>. QED BY <1>2, <2>1, <2>2, <2>3
<1>4. \A p \in S : p \notin History!Ahead(S, p)
  BY NewerOrders DEF History!Ahead
<1>5. ASSUME NEW p \in S PROVE Cardinality(History!Ahead(S, p)) < Cardinality(S)
  <2>1. History!Ahead(S, p) \cup {p} \subseteq S
    BY DEF History!Ahead
  <2>. QED BY <1>3, <1>4, <2>1
<1>6. ASSUME NEW p \in S, NEW q \in S, History!Newer(p, q)
      PROVE  Cardinality(History!Ahead(S, p)) < Cardinality(History!Ahead(S, q))
  <2>1. History!Ahead(S, p) \cup {p} \subseteq History!Ahead(S, q)
    BY <1>6, NewerOrders DEF History!Ahead
  <2>2. History!Ahead(S, q) \in SUBSET S
    BY DEF History!Ahead
  <2>. QED BY <1>3, <1>4, <2>1, <2>2
<1>. QED BY <1>1, <1>2, <1>5, <1>6

(* A sorted set of payments is the set, each payment once, the newer first. *)
LEMMA SortedSorts ==
  ASSUME History!PaymentQueryAssumption, NEW S \in SUBSET Payment
  PROVE  /\ History!Sorted(S) \in Seq(S) /\ Len(History!Sorted(S)) = Cardinality(S)
         /\ Cardinality(S) \in Nat /\ DOMAIN History!Sorted(S) = 1 .. Cardinality(S)
         /\ History!Descends(History!Sorted(S)) /\ History!Among(History!Sorted(S)) = S
<1> DEFINE n == Cardinality(S)
           place == [p \in S |-> Cardinality(History!Ahead(S, p)) + 1]
<1>1. IsFiniteSet(S) /\ n \in Nat
  BY AheadGrows
<1>2. place \in [S -> 1 .. n]
  <2>1. \A p \in S : /\ Cardinality(History!Ahead(S, p)) \in Nat
                     /\ Cardinality(History!Ahead(S, p)) < Cardinality(S)
    BY AheadGrows
  <2>. QED BY <1>1, <2>1
<1>3. \A p, q \in S : History!Newer(p, q) => place[p] < place[q]
  BY AheadGrows
<1>4. \A p, q \in S : place[p] = place[q] => p = q
  <2>1. \A p, q \in S : p # q => place[p] < place[q] \/ place[q] < place[p]
    BY <1>3, NewerOrders
  <2>. QED BY <1>2, <2>1
<1>5. place \in Surjection(S, 1 .. n)
  <2>1. place \in Injection(S, 1 .. n)
    BY <1>2, <1>4, Fun_IsInj
  <2>2. IsFiniteSet(1 .. n) /\ Cardinality(1 .. n) = n
    BY <1>1, FS_Interval
  <2>. QED BY <2>1, <2>2, FS_Injection
<1>6. \A i \in 1 .. n : \E p \in S : place[p] = i
  <2> HIDE DEF place, n
  <2>. QED BY <1>5, Fun_SurjectionProperties
<1>7. \A i \in 1 .. n : History!Sorted(S)[i] \in S /\ place[History!Sorted(S)[i]] = i
  <2>1. ASSUME NEW i \in 1 .. n PROVE History!Sorted(S)[i] \in S /\ place[History!Sorted(S)[i]] = i
    <3>1. PICK p \in S : place[p] = i
      BY <1>6
    <3>2. Cardinality(History!Ahead(S, p)) = i - 1
      BY <3>1, AheadGrows
    <3>3. History!Sorted(S)[i] = CHOOSE q \in S : Cardinality(History!Ahead(S, q)) = i - 1
      BY HistoryCount DEF History!Sorted
    <3>4. History!Sorted(S)[i] \in S /\ Cardinality(History!Ahead(S, History!Sorted(S)[i])) = i - 1
      BY <3>2, <3>3
    <3>. QED BY <1>1, <3>4
  <2>. QED BY <2>1
<1>8. History!Sorted(S) \in [1 .. n -> S]
  <2>1. DOMAIN History!Sorted(S) = 1 .. n
        /\ History!Sorted(S) = [i \in 1 .. n |-> History!Sorted(S)[i]]
    BY HistoryCount DEF History!Sorted
  <2>. QED BY <1>7, <2>1
<1>9. History!Sorted(S) \in Seq(S) /\ Len(History!Sorted(S)) = n
      /\ DOMAIN History!Sorted(S) = 1 .. n
  <2>1. History!Sorted(S) \in Seq(S)
    BY <1>1, <1>8, SeqDef
  <2>2. DOMAIN History!Sorted(S) = 1 .. n
    BY <1>8
  <2>. QED BY <1>1, <2>1, <2>2, LenProperties
<1> HIDE DEF place, n
<1>10. History!Descends(History!Sorted(S))
  <2>1. ASSUME NEW i \in 1 .. n, NEW j \in 1 .. n, i < j
        PROVE History!Newer(History!Sorted(S)[i], History!Sorted(S)[j])
    <3> DEFINE p == History!Sorted(S)[i]
               q == History!Sorted(S)[j]
    <3>1. p \in S /\ q \in S /\ place[p] = i /\ place[q] = j
      BY <1>7
    <3> HIDE DEF p, q
    <3>2. p # q /\ ~History!Newer(q, p)
      BY <1>1, <1>3, <2>1, <3>1
    <3>3. History!Newer(p, q)
      BY <3>1, <3>2, NewerOrders
    <3>. QED BY <3>3 DEF p, q
  <2>. QED BY <1>9, <2>1 DEF History!Descends
<1>11. History!Among(History!Sorted(S)) = S
  <2>1. ASSUME NEW p \in S PROVE p \in History!Among(History!Sorted(S))
    <3>1. place[p] \in 1 .. n
      BY <1>2
    <3>2. History!Sorted(S)[place[p]] \in S /\ place[History!Sorted(S)[place[p]]] = place[p]
      BY <1>7, <3>1
    <3>3. History!Sorted(S)[place[p]] = p
      BY <1>4, <3>2
    <3>. QED BY <1>9, <3>1, <3>3 DEF History!Among
  <2>2. History!Among(History!Sorted(S)) \subseteq S
    BY <1>7, <1>9 DEF History!Among
  <2>. QED BY <2>1, <2>2
<1>. QED BY <1>1, <1>9, <1>10, <1>11 DEF n

(* A page of the list past a cursor: what it holds, and what may be left    *)
(* for the next.                                                            *)
LEMMA PageFacts ==
  ASSUME History!PaymentQueryAssumption, NEW n \in Nat \ {0}, NEW R \in SUBSET Payment, NEW c
  PROVE  /\ History!KeysetPage(R, c, n) \in Seq(History!Found(R, c))
         /\ Len(History!KeysetPage(R, c, n)) \in Nat
         /\ DOMAIN History!KeysetPage(R, c, n) = 1 .. Len(History!KeysetPage(R, c, n))
         /\ \A i \in DOMAIN History!KeysetPage(R, c, n) : History!KeysetPage(R, c, n)[i] \in History!Found(R, c)
         /\ History!Descends(History!KeysetPage(R, c, n))
         /\ \A b \in History!Found(R, c) :
              \/ b \in History!Among(History!KeysetPage(R, c, n))
              \/ /\ Len(History!KeysetPage(R, c, n)) = n
                 /\ History!Newer(History!KeysetPage(R, c, n)[n], b)
<1> DEFINE B == History!Found(R, c)
           s == History!Sorted(B)
           m == IF Len(s) < n THEN Len(s) ELSE n
           page == History!KeysetPage(R, c, n)
<1>1. B \in SUBSET Payment
  BY DEF History!Found
<1>2. page = SubSeq(s, 1, m)
  BY DEF History!KeysetPage, History!Prefix, History!Listed, History!Found
<1> HIDE DEF B
<1>3. /\ s \in Seq(B) /\ History!Descends(s) /\ History!Among(s) = B /\ Len(s) \in Nat
      /\ DOMAIN s = 1 .. Len(s) /\ \A i \in 1 .. Len(s) : s[i] \in B
  <2>1. s \in Seq(B) /\ History!Descends(s) /\ History!Among(s) = B
    BY <1>1, SortedSorts
  <2>. QED BY <2>1, LenProperties
<1> HIDE DEF s, page
<1>4. /\ m \in Nat /\ m <= Len(s) /\ m <= n /\ (m < n => m = Len(s)) /\ n \in Nat /\ n >= 1
      /\ 1 .. m \subseteq 1 .. Len(s)
  <2>1. Len(s) \in Nat /\ n \in Nat /\ n >= 1
    BY <1>3
  <2>2. m \in Nat /\ m <= Len(s) /\ m <= n /\ (m < n => m = Len(s))
    BY <2>1
  <2> HIDE DEF m
  <2>. QED BY <2>1, <2>2
<1> HIDE DEF m
<1>5. /\ page \in Seq(B) /\ Len(page) = m
      /\ \A i \in 1 .. m : page[i] = s[i]
  <2>1. \A i \in 1 .. m : s[i] \in B
    BY <1>3, <1>4
  <2>. QED BY <1>2, <1>4, <2>1, SubSeqProperties
<1>6. DOMAIN page = 1 .. m
  BY <1>5, LenProperties
<1>7. History!Descends(page)
  BY <1>3, <1>4, <1>5, <1>6 DEF History!Descends
<1>8. ASSUME NEW b \in B
      PROVE b \in History!Among(page) \/ (Len(page) = n /\ History!Newer(page[n], b))
  <2>1. PICK i \in 1 .. Len(s) : s[i] = b
    BY <1>3 DEF History!Among
  <2>2. CASE i <= m
    <3>1. i \in 1 .. m
      BY <1>4, <2>2
    <3>2. page[i] = b /\ i \in DOMAIN page
      BY <1>5, <1>6, <2>1, <3>1
    <3>. QED BY <3>2 DEF History!Among
  <2>3. CASE i > m
    <3>1. m = n /\ n \in 1 .. Len(s) /\ n < i /\ n \in 1 .. m
      <4>1. i \in Nat /\ i <= Len(s) /\ Len(s) \in Nat
        BY <1>3
      <4>2. m # Len(s)
        BY <1>4, <2>3, <4>1
      <4>3. m = n
        BY <1>4, <4>1, <4>2
      <4>. QED BY <1>4, <2>3, <4>1, <4>3
    <3>2. History!Newer(s[n], s[i])
      BY <1>3, <2>1, <3>1 DEF History!Descends
    <3>3. History!Newer(page[n], b)
      BY <1>5, <2>1, <3>1, <3>2
    <3>. QED BY <1>5, <3>1, <3>3
  <2>. QED BY <1>4, <2>2, <2>3
<1>9. \A i \in DOMAIN page : page[i] \in B
  BY <1>3, <1>4, <1>5, <1>6
<1>. QED BY <1>4, <1>5, <1>6, <1>7, <1>8, <1>9 DEF page, B

(* The invariant holds before the walk.                                     *)
LEMMA WalkInit ==
  ASSUME History!PaymentQueryAssumption, History!Init
  PROVE  History!WalkInv
<1>1. <<>> \in Seq(Payment) /\ DOMAIN <<>> = {} /\ DOMAIN historyWalk.got = {}
  BY DEF History!Init, History!NoWalk
<1>. QED BY <1>1 DEF History!Init, History!NoWalk, History!WalkInv, History!HShape,
                     History!GotDescends, History!CursorIsLast, History!NoneSkipped,
                     History!Descends, History!Among

(* A page joins what was collected.                                         *)
LEMMA FetchKeeps ==
  ASSUME History!PaymentQueryAssumption, History!PaymentHistoryAssumption, History!WalkInv,
         History!Fetch
  PROVE  History!WalkInv'
<1> DEFINE got == historyWalk.got
           c == historyWalk.cursor
           page == History!KeysetPage(historyRows, historyWalk.cursor, PageSize)
           B == History!Found(historyRows, historyWalk.cursor)
           next == History!NextCursor(page, PageSize)
<1> USE DEF History!WalkInv
<1>1. /\ PageSize \in Nat \ {0} /\ historyRows \in SUBSET Payment /\ got \in Seq(Payment)
      /\ Payment \subseteq Nat \ {0}
  BY DEF History!HShape, History!PaymentHistoryAssumption, History!PaymentQueryAssumption
<1>2. /\ historyRows' = historyRows /\ historySteady' = historySteady
         /\ historyWalk.status = "walking"
      /\ DOMAIN historyWalk' = {"status", "cursor", "page", "got"}
      /\ historyWalk'.got = got \o page /\ historyWalk'.cursor = next
      /\ historyWalk'.status = "complete" <=> next = 0
  BY DEF History!Fetch
<1>3. /\ page \in Seq(B) /\ Len(page) \in Nat /\ DOMAIN page = 1 .. Len(page)
      /\ \A i \in DOMAIN page : page[i] \in B
      /\ History!Descends(page)
      /\ \A b \in B : b \in History!Among(page) \/ (Len(page) = PageSize /\ History!Newer(page[PageSize], b))
  BY <1>1, PageFacts
<1>4. B \subseteq Payment /\ \A b \in B : History!Behind(b, c)
  BY <1>1 DEF History!Found
<1>5. \A p \in historyRows \cap Sought : History!Behind(p, c) => p \in B
  BY DEF History!Found
<1>6. /\ Len(got) \in Nat /\ DOMAIN got = 1 .. Len(got)
      /\ \A i \in DOMAIN got : got[i] \in Payment
  BY <1>1, LenProperties
<1>7. IF Len(page) = PageSize THEN next = page[PageSize] /\ next \in Payment /\ next # 0
                              ELSE next = 0
  <2>1. Len(page) = PageSize => PageSize \in DOMAIN page
    BY <1>1, <1>3
  <2>. QED BY <1>1, <1>3, <1>4, <2>1 DEF History!NextCursor
<1> HIDE DEF page, B, next
<1>8. page \in Seq(Payment) /\ \A i \in DOMAIN page : page[i] \in Payment
  <2>1. \A i \in 1 .. Len(page) : page[i] \in Payment
    BY <1>3, <1>4
  <2>2. page \in [1 .. Len(page) -> Payment]
    <3>1. page \in [1 .. Len(page) -> B]
      BY <1>3, LenProperties
    <3>. QED BY <1>4, <3>1
  <2>. QED BY <1>3, <2>1, <2>2, SeqDef
<1> DEFINE both == historyWalk'.got
<1>9. /\ both \in Seq(Payment) /\ Len(both) = Len(got) + Len(page)
      /\ DOMAIN both = 1 .. (Len(got) + Len(page))
      /\ \A i \in DOMAIN both : IF i <= Len(got) THEN i \in DOMAIN got /\ both[i] = got[i]
                                ELSE i - Len(got) \in DOMAIN page /\ both[i] = page[i - Len(got)]
  <2>1. both = got \o page
    BY <1>2
  <2>2. /\ both \in Seq(Payment) /\ Len(both) = Len(got) + Len(page)
        /\ \A i \in 1 .. Len(got) + Len(page) :
             both[i] = IF i <= Len(got) THEN got[i] ELSE page[i - Len(got)]
    BY <1>1, <1>8, <2>1, ConcatProperties
  <2>3. DOMAIN both = 1 .. (Len(got) + Len(page))
    BY <2>2, LenProperties
  <2> HIDE DEF both, got
  <2>4. ASSUME NEW i \in DOMAIN both
        PROVE  IF i <= Len(got) THEN i \in DOMAIN got /\ both[i] = got[i]
                                ELSE i - Len(got) \in DOMAIN page /\ both[i] = page[i - Len(got)]
    <3>1. i \in 1 .. Len(got) + Len(page) /\ i \in Int
      BY <2>3
    <3>2. CASE i <= Len(got)
      BY <1>6, <2>2, <3>1, <3>2
    <3>3. CASE ~(i <= Len(got))
      <4>1. i - Len(got) \in 1 .. Len(page)
        BY <1>3, <1>6, <3>1, <3>3
      <4>. QED BY <1>3, <2>2, <3>1, <3>3, <4>1
    <3>. QED BY <3>2, <3>3
  <2>. QED BY <2>2, <2>3, <2>4
<1>10. \A p : p \in History!Among(got) \/ p \in History!Among(page) => p \in History!Among(both)
  <2>1. ASSUME NEW i \in DOMAIN got PROVE got[i] \in History!Among(both)
    <3>1. i \in DOMAIN both /\ both[i] = got[i]
      BY <1>3, <1>6, <1>9
    <3>. QED BY <3>1 DEF History!Among
  <2>2. ASSUME NEW i \in DOMAIN page PROVE page[i] \in History!Among(both)
    <3> HIDE DEF both, got
    <3>0. Len(page) \in Nat /\ i \in 1 .. Len(page) /\ i \in Int
      BY <1>3, <1>8, LenProperties
    <3>. DEFINE k == i + Len(got)
    <3>2. k \in 1 .. Len(got) + Len(page) /\ ~(k <= Len(got)) /\ k - Len(got) = i
      BY <1>6, <3>0
    <3>3. k \in DOMAIN both
      BY <1>9, <3>2
    <3>1. k \in DOMAIN both /\ both[k] = page[i]
      BY <1>9, <3>2, <3>3
    <3>. QED BY <3>1 DEF History!Among
  <2>. QED BY <2>1, <2>2 DEF History!Among
<1>11. \A i \in DOMAIN got, j \in DOMAIN page : History!Newer(got[i], page[j])
  <2>1. ASSUME NEW i \in DOMAIN got, NEW j \in DOMAIN page PROVE History!Newer(got[i], page[j])
    <3>1. got # <<>>
      BY <1>6
    <3>2. c = got[Len(got)] /\ c # 0 /\ Len(got) \in DOMAIN got
      BY <1>2, <1>6, <3>1 DEF History!CursorIsLast
    <3>3. History!Newer(c, page[j])
      BY <1>3, <1>4, <3>2 DEF History!Behind
    <3>4. i = Len(got) \/ History!Newer(got[i], c)
      <4>1. i = Len(got) \/ i < Len(got)
        BY <1>6
      <4>. QED BY <3>2, <4>1 DEF History!GotDescends, History!Descends
    <3>5. got[i] \in Payment /\ c \in Payment /\ page[j] \in Payment
      BY <1>6, <1>8, <3>2
    <3>. QED BY <3>2, <3>3, <3>4, <3>5, NewerOrders
  <2>. QED BY <2>1
<1>12. History!Descends(both)
  <2>1. ASSUME NEW i \in DOMAIN both, NEW j \in DOMAIN both, i < j
        PROVE History!Newer(both[i], both[j])
    <3>1. CASE j <= Len(got)
      <4>1. i \in DOMAIN got /\ j \in DOMAIN got /\ both[i] = got[i] /\ both[j] = got[j]
        BY <1>6, <1>9, <2>1, <3>1
      <4>. QED BY <2>1, <4>1 DEF History!GotDescends, History!Descends
    <3>2. CASE i <= Len(got) /\ ~(j <= Len(got))
      BY <1>9, <1>11, <3>2
    <3>3. CASE ~(i <= Len(got))
      <4>1. ~(j <= Len(got)) /\ i - Len(got) < j - Len(got)
        BY <1>6, <1>9, <2>1, <3>3
      <4>2. /\ i - Len(got) \in DOMAIN page /\ both[i] = page[i - Len(got)]
            /\ j - Len(got) \in DOMAIN page /\ both[j] = page[j - Len(got)]
        BY <1>9, <3>3, <4>1
      <4>. QED BY <1>3, <4>1, <4>2 DEF History!Descends
    <3>. QED BY <3>1, <3>2, <3>3
  <2>. QED BY <2>1 DEF History!Descends
<1>13. History!HShape' /\ History!GotDescends'
  BY <1>2, <1>9, <1>12 DEF History!HShape, History!GotDescends, History!Descends
<1>14. History!CursorIsLast'
  <2>1. ASSUME historyWalk'.status = "walking"
        PROVE  next # 0 /\ both # <<>> /\ next = both[Len(both)]
    <3>1. next # 0 /\ Len(page) = PageSize /\ next = page[PageSize]
      BY <1>2, <1>7, <2>1 DEF History!Fetch, page, next
    <3>2. Len(both) = Len(got) + PageSize /\ Len(both) \in DOMAIN both /\ Len(both) > Len(got)
      BY <1>1, <1>6, <1>9, <3>1
    <3>3. both[Len(both)] = page[PageSize]
      <4>1. Len(both) - Len(got) = PageSize
        BY <1>1, <1>6, <3>2
      <4>2. ~(Len(both) <= Len(got))
        BY <1>6, <3>2
      <4> HIDE DEF both, got
      <4>. QED BY <1>9, <3>2, <4>1, <4>2
    <3>4. both # <<>>
      BY <3>2
    <3>. QED BY <3>1, <3>3, <3>4
  <2>. QED BY <1>2, <2>1 DEF History!CursorIsLast
<1>15. History!NoneSkipped'
  <2>1. ASSUME NEW p \in historySteady \cap Sought
        PROVE  /\ historyWalk'.status = "walking" =>
                    p \in History!Among(both) \/ History!Behind(p, next)
               /\ historyWalk'.status = "complete" => p \in History!Among(both)
    <3>1. CASE p \in History!Among(got)
      BY <1>10, <3>1
    <3>2. CASE p \notin History!Among(got)
      <4>1. p \in historyRows \cap Sought /\ History!Behind(p, c)
        BY <1>2, <2>1, <3>2 DEF History!NoneSkipped, History!HShape
      <4>2. p \in B
        BY <1>5, <4>1
      <4>3. p \in History!Among(page) \/ (Len(page) = PageSize /\ History!Newer(page[PageSize], p))
        BY <1>3, <4>2
      <4>. QED BY <1>2, <1>7, <1>10, <4>3 DEF History!Behind
    <3>. QED BY <3>1, <3>2
  <2>. QED BY <1>2, <2>1 DEF History!NoneSkipped, History!Behind, History!Newer, History!Among
<1>. QED BY <1>13, <1>14, <1>15

(* Every step keeps the invariant.                                          *)
LEMMA WalkStep ==
  ASSUME History!PaymentQueryAssumption, History!PaymentHistoryAssumption, History!WalkInv,
         [History!Next]_(History!vars)
  PROVE  History!WalkInv'
<1>1. CASE History!Start
  <2>1. /\ historyWalk'.status = "walking" /\ historyWalk'.cursor = 0 /\ historyWalk'.got = <<>>
        /\ DOMAIN historyWalk' = {"status", "cursor", "page", "got"}
        /\ historyRows' = historyRows /\ historySteady' = historyRows
    BY <1>1 DEF History!Start, History!NoWalk
  <2>2. <<>> \in Seq(Payment) /\ DOMAIN historyWalk'.got = {}
    BY <2>1
  <2>. QED BY <2>1, <2>2 DEF History!WalkInv, History!HShape, History!GotDescends,
                             History!CursorIsLast, History!NoneSkipped, History!Descends,
                             History!Among, History!Behind
<1>2. CASE History!Fetch
  BY <1>2, FetchKeeps
<1>3. CASE History!Fail
  <2>1. /\ historyWalk'.status = "failed" /\ historyWalk'.got = historyWalk.got
        /\ DOMAIN historyWalk' = DOMAIN historyWalk /\ historyRows' = historyRows
           /\ historySteady' = historySteady
    BY <1>3 DEF History!Fail, History!WalkInv, History!HShape
  <2>. QED BY <2>1 DEF History!WalkInv, History!HShape, History!GotDescends, History!CursorIsLast,
                       History!NoneSkipped, History!Descends
<1>4. ASSUME NEW p \in Payment, History!Book(p) PROVE History!WalkInv'
  <2>1. historyWalk' = historyWalk /\ historySteady' = historySteady
        /\ historyRows' \subseteq Payment /\ historyRows \subseteq historyRows'
    BY <1>4 DEF History!Book, History!WalkInv, History!HShape
  <2>. QED BY <2>1 DEF History!WalkInv, History!HShape, History!GotDescends, History!CursorIsLast,
                       History!NoneSkipped, History!Descends, History!Among, History!Behind,
                       History!Newer
<1>5. ASSUME NEW t, History!Rewind(t) PROVE History!WalkInv'
  <2>1. historyWalk' = historyWalk /\ historySteady' = historySteady \cap historyRows'
        /\ historyRows' \subseteq historyRows
    BY <1>5 DEF History!Rewind
  <2>. QED BY <2>1 DEF History!WalkInv, History!HShape, History!GotDescends, History!CursorIsLast,
                       History!NoneSkipped, History!Descends, History!Among, History!Behind,
                       History!Newer
<1>6. CASE UNCHANGED History!vars
  BY <1>6 DEF History!vars, History!WalkInv, History!HShape, History!GotDescends,
              History!CursorIsLast, History!NoneSkipped, History!Descends, History!Among,
              History!Behind, History!Newer
<1>. QED BY <1>1, <1>2, <1>3, <1>4, <1>5, <1>6 DEF History!Next

(* What the invariant says of a walk that is complete is what is promised   *)
(* of it.                                                                   *)
LEMMA WalkMeans ==
  ASSUME History!PaymentQueryAssumption, History!WalkInv
  PROVE  History!WalkIsExact
<1> DEFINE s == historyWalk.got
<1>1. /\ s \in Seq(Payment) /\ Len(s) \in Nat /\ DOMAIN s = 1 .. Len(s)
      /\ \A i \in 1 .. Len(s) : s[i] \in Payment
  BY LenProperties DEF History!WalkInv, History!HShape
<1>2. History!Among(s) = {s[i] : i \in 1 .. Len(s)}
  BY <1>1 DEF History!Among
<1>3. s \in Bijection(1 .. Len(s), History!Among(s))
  <2>1. \A i, j \in 1 .. Len(s) : i < j => s[i] # s[j]
    BY <1>1, NewerOrders DEF History!WalkInv, History!GotDescends, History!Descends
  <2>2. \A i, j \in 1 .. Len(s) : s[i] = s[j] => i = j
    BY <1>1, <2>1
  <2>3. s \in [1 .. Len(s) -> History!Among(s)]
    BY <1>1, LenProperties DEF History!Among
  <2>4. \A p \in History!Among(s) : \E i \in 1 .. Len(s) : s[i] = p
    BY <1>2
  <2>. QED BY <2>2, <2>3, <2>4, Fun_IsBij
<1>4. Cardinality(History!Among(s)) = Len(s)
  <2>1. IsFiniteSet(1 .. Len(s)) /\ Cardinality(1 .. Len(s)) = Len(s)
    BY <1>1, FS_Interval
  <2>2. ExistsBijection(1 .. Len(s), History!Among(s))
    BY <1>3 DEF ExistsBijection
  <2>. QED BY <2>1, <2>2, FS_Bijection
<1>5. historyWalk.status = "complete" => historySteady \cap Sought \subseteq History!Among(s)
  BY DEF History!WalkInv, History!NoneSkipped
<1>. QED BY <1>2, <1>4, <1>5, HistoryCount DEF History!WalkIsExact

(* The walk keeps its invariant.                                            *)
LEMMA WalkKept ==
  ASSUME History!PaymentQueryAssumption, History!PaymentHistoryAssumption
  PROVE  History!Spec => []History!WalkInv
<1>1. History!Init => History!WalkInv
  BY WalkInit
<1>2. History!WalkInv /\ [History!Next]_(History!vars) => History!WalkInv'
  BY WalkStep
<1>. QED BY <1>1, <1>2, PTL DEF History!Spec

(* The module keeps what it promises, whatever the constants. *)
LEMMA HistoryHolds ==
  ASSUME History!PaymentQueryAssumption, History!PaymentHistoryAssumption
  PROVE  History!Spec => []History!WalkIsExact
<1>1. History!Spec => []History!WalkInv
  BY WalkKept
<1>2. History!WalkInv => History!WalkIsExact
  BY WalkMeans
<1>. QED BY <1>1, <1>2, PTL

LEMMA HistoryRuns == MCSpec => []~(machine = "history") \/ History!Spec
<1>1. MCInit /\ machine = "history" => History!Init
  BY DEF MCInit
<1>2. machine = "history" /\ [MCNext]_all => (machine = "history")' /\ [History!Next]_(History!vars)
  BY DEF MCNext, all, inst, History!vars
<1>3. ~(machine = "history") /\ [MCNext]_all => (~(machine = "history"))'
  BY DEF MCNext, all
<1>. QED BY <1>1, <1>2, <1>3, PTL DEF MCSpec, History!Spec

(* A walk through the history that comes to its end has every payment that  *)
(* was there all along, each once and the newer first, however many         *)
(* payments have one timestamp, arrive and change while it goes on.         *)
THEOREM HistoryIsWhole ==
  ASSUME History!PaymentQueryAssumption, History!PaymentHistoryAssumption
  PROVE  MCSpec => []WalkIsExact
<1>1. History!Spec => []History!WalkIsExact
  BY HistoryHolds
<1>2. ~(machine = "history") \/ History!WalkIsExact => WalkIsExact
  BY DEF WalkIsExact
<1>. QED BY <1>1, <1>2, HistoryRuns, PTL

-----------------------------------------------------------------------------
(* The pricing engine.  The loop takes the rules in their order: what it    *)
(* keeps of a kind is the value of the first such rule that matched, and a  *)
(* later one of the kind does not change it (PriceInv).                     *)
priceInput == v1
priceLeft == v2
priceMarkup == v3
priceMarkupSeen == v4
priceSurcharge == v5
priceSurchargeSeen == v6
priceFloor == v7

USE DEF priceInput, priceLeft, priceMarkup, priceMarkupSeen, priceSurcharge,
        priceSurchargeSeen, priceFloor

(* What a rule adds is a number.                                            *)
LEMMA ValueIsNumber ==
  ASSUME Price!PShape, NEW i \in DOMAIN priceInput.rules
  PROVE  Price!Value(priceInput.rules[i]) \in Int /\ Price!Base \in Int
<1>1. \A a \in Int : a \div 100 \in Int
  OBVIOUS
<1>2. \A a \in Int : Price!Truncated(a, 100) \in Int
  BY <1>1 DEF Price!Truncated
<1>3. Price!Base \in Int /\ priceInput.rules[i].amount \in Int /\ priceInput.quantity \in Int
  BY DEF Price!PShape, Price!Base
<1>. QED BY <1>2, <1>3 DEF Price!Value, Price!MultiplyPct

(* The invariant holds before the first rule.                               *)
LEMMA PriceInit ==
  ASSUME Price!PricingAssumption, Price!Init
  PROVE  Price!PriceInv
<1>1. PICK n \in 0 .. MaxRules : priceInput.rules \in [1 .. n -> Rules]
  BY DEF Price!Init
<1>2. DOMAIN priceInput.rules = 1 .. n /\ \A i \in 1 .. n : priceInput.rules[i] \in Rules
  BY <1>1
<1>3. n \in Nat /\ 1 .. n \subseteq Int
  BY DEF Price!PricingAssumption
<1>4. priceInput.quantity \in Int /\ priceInput.unit \in Int
  <2>1. priceInput.quantity \in Quantities /\ priceInput.unit \in Units
    BY DEF Price!Init
  <2>2. \A q \in Quantities : q \in Int
    BY DEF Price!PricingAssumption
  <2>3. \A u \in Units : u \in Int
    BY DEF Price!PricingAssumption
  <2>. QED BY <2>1, <2>2, <2>3
<1>5. Price!PShape
  <2>1. \A i \in DOMAIN priceInput.rules :
          /\ priceInput.rules[i].priority \in Int /\ priceInput.rules[i].amount \in Int
          /\ priceInput.rules[i].kind \in Price!Kinds
    BY <1>2 DEF Price!PricingAssumption, Price!Kinds
  <2>2. /\ priceLeft = DOMAIN priceInput.rules /\ priceMarkup = 0 /\ priceMarkupSeen = FALSE
        /\ priceSurcharge = 0 /\ priceSurchargeSeen = FALSE /\ priceFloor = -1
    BY DEF Price!Init
  <2>3. DOMAIN priceInput.rules \subseteq Int
    BY <1>2, <1>3
  <2>4. priceMarkupSeen \in BOOLEAN /\ priceSurchargeSeen \in BOOLEAN
    BY <2>2
  <2>5. priceLeft \subseteq DOMAIN priceInput.rules /\ priceMarkup \in Int
        /\ priceSurcharge \in Int /\ priceFloor \in Int
    BY <2>2
  <2>. QED BY <1>4, <2>1, <2>3, <2>4, <2>5 DEF Price!PShape
<1>6. Price!Done = {}
  BY DEF Price!Done, Price!Init
<1>. QED BY <1>5, <1>6 DEF Price!Init, Price!PriceInv, Price!InOrder, Price!HighestCounts,
                           Price!FirstCounts

(* The rule a turn takes is behind all that were taken.                     *)
LEMMA NextInOrder ==
  ASSUME Price!PriceInv, NEW i \in priceLeft, \A j \in priceLeft \ {i} : Price!Before(i, j),
         priceLeft' = priceLeft \ {i}, priceInput' = priceInput
  PROVE  /\ Price!Done' = Price!Done \cup {i} /\ i \in DOMAIN priceInput.rules
            /\ i \notin Price!Done
         /\ Price!InOrder'
         /\ \A j \in Price!Done : Price!Before(j, i)
<1> USE DEF Price!PriceInv
<1>1. Price!Done' = Price!Done \cup {i} /\ i \in DOMAIN priceInput.rules /\ i \notin Price!Done
  BY DEF Price!PShape, Price!Done
<1>2. \A j \in Price!Done : Price!Before(j, i)
  BY DEF Price!InOrder
<1>3. \A j, k : Price!Before(j, k)' <=> Price!Before(j, k)
  BY DEF Price!Before
<1>4. Price!InOrder'
  <2>1. ASSUME NEW j \in Price!Done', NEW k \in priceLeft' PROVE Price!Before(j, k)
    BY <1>1, <1>2, <2>1 DEF Price!InOrder
  <2>. QED BY <1>3, <2>1 DEF Price!InOrder
<1>. QED BY <1>1, <1>2, <1>4

(* The first rule of a kind that matched stays so when a later rule is      *)
(* taken.                                                                   *)
LEMMA FirstStays ==
  ASSUME NEW done, NEW i, \A j \in done : Price!Before(j, i),
         NEW kinds, NEW seen \in BOOLEAN, NEW value, Price!FirstCounts(done, kinds, seen, value)
  PROVE  /\ ~Price!Counts(i, kinds) \/ seen => Price!FirstCounts(done \cup {i}, kinds, seen, value)
         /\ Price!Counts(i, kinds) /\ ~seen =>
              Price!FirstCounts(done \cup {i}, kinds, TRUE, Price!Value(priceInput.rules[i]))
<1>1. ASSUME seen = TRUE PROVE Price!FirstCounts(done \cup {i}, kinds, seen, value)
  <2>1. PICK k \in done : /\ Price!Counts(k, kinds) /\ value = Price!Value(priceInput.rules[k])
                          /\ \A j \in done : Price!Counts(j, kinds) => k = j \/ Price!Before(k, j)
    BY <1>1 DEF Price!FirstCounts
  <2>. QED BY <1>1, <2>1 DEF Price!FirstCounts
<1>2. ASSUME seen = FALSE, ~Price!Counts(i, kinds)
      PROVE  Price!FirstCounts(done \cup {i}, kinds, seen, value)
  BY <1>2 DEF Price!FirstCounts
<1>3. ASSUME seen = FALSE, Price!Counts(i, kinds)
      PROVE  Price!FirstCounts(done \cup {i}, kinds, TRUE, Price!Value(priceInput.rules[i]))
  BY <1>3 DEF Price!FirstCounts
<1>. QED BY <1>1, <1>2, <1>3

(* The input does not change, nor what is said of its rules.                *)
LEMMA FirstUnchanged ==
  ASSUME priceInput' = priceInput
  PROVE  /\ \A j, kinds : Price!Counts(j, kinds)' <=> Price!Counts(j, kinds)
         /\ \A done, kinds, seen, value :
              Price!FirstCounts(done, kinds, seen, value)' <=> Price!FirstCounts(done, kinds, seen, value)
         /\ \A j : Price!Value(priceInput.rules[j])' = Price!Value(priceInput.rules[j])
<1>1. \A j, kinds : Price!Counts(j, kinds)' <=> Price!Counts(j, kinds)
  BY DEF Price!Counts, Price!Matches
<1>2. \A j : Price!Value(priceInput.rules[j])' = Price!Value(priceInput.rules[j])
  BY DEF Price!Value, Price!Base
<1>3. \A j, k : Price!Before(j, k)' <=> Price!Before(j, k)
  BY DEF Price!Before
<1>4. \A done, kinds, seen, value :
        Price!FirstCounts(done, kinds, seen, value)' <=> Price!FirstCounts(done, kinds, seen, value)
  BY <1>1, <1>2, <1>3 DEF Price!FirstCounts
<1>. QED BY <1>1, <1>2, <1>4

(* Every turn keeps the invariant.                                          *)
LEMMA PriceStep ==
  ASSUME Price!PriceInv, [Price!Next]_(Price!vars)
  PROVE  Price!PriceInv'
<1> DEFINE First_(i, kinds, seen, value) == Price!FirstCounts(Price!Done \cup {i}, kinds, seen, value)
<1>1. ASSUME NEW i \in priceLeft, \A j \in priceLeft \ {i} : Price!Before(i, j),
             priceLeft' = priceLeft \ {i}, priceInput' = priceInput,
             priceMarkup' \in Int, priceSurcharge' \in Int,
             priceMarkupSeen' \in BOOLEAN, priceSurchargeSeen' \in BOOLEAN,
             First_(i, Price!Markups, priceMarkupSeen', priceMarkup'),
             First_(i, Price!Surcharges, priceSurchargeSeen', priceSurcharge'),
             IF Price!Counts(i, {"floor"}) THEN priceFloor' = Price!Larger(priceFloor, priceInput.rules[i].amount)
                                           ELSE priceFloor' = priceFloor
      PROVE  Price!PriceInv'
  <2>1. /\ Price!Done' = Price!Done \cup {i} /\ i \in DOMAIN priceInput.rules
           /\ i \notin Price!Done /\ Price!InOrder'
    BY <1>1, NextInOrder
  <2>2. priceFloor \in Int /\ priceInput.rules[i].amount \in Int
    BY <2>1 DEF Price!PriceInv, Price!PShape
  <2>3. Price!PShape'
    <3>1. priceFloor' \in Int
      BY <1>1, <2>2 DEF Price!Larger
    <3>. QED BY <1>1, <3>1 DEF Price!PriceInv, Price!PShape
  <2>4. \A j, kinds : Price!Counts(j, kinds)' <=> Price!Counts(j, kinds)
    BY <1>1, FirstUnchanged
  <2>5. Price!HighestCounts'
    <3>1. /\ priceFloor' = -1 \/ \E k \in Price!Done \cup {i} :
                              Price!Counts(k, {"floor"}) /\ priceFloor' = priceInput.rules[k].amount
          /\ \A k \in Price!Done \cup {i} : Price!Counts(k, {"floor"}) =>
               priceInput.rules[k].amount <= priceFloor'
          /\ priceFloor' >= -1
      <4>1. \A k \in Price!Done : priceInput.rules[k].amount \in Int
        BY DEF Price!PriceInv, Price!PShape, Price!Done
      <4>2. CASE Price!Counts(i, {"floor"})
        BY <1>1, <2>2, <4>1, <4>2 DEF Price!PriceInv, Price!HighestCounts, Price!Larger
      <4>3. CASE ~Price!Counts(i, {"floor"})
        BY <1>1, <2>2, <4>1, <4>3 DEF Price!PriceInv, Price!HighestCounts
      <4>. QED BY <4>2, <4>3
    <3>. QED BY <1>1, <2>1, <2>4, <3>1 DEF Price!HighestCounts
  <2>6. Price!FirstCounts(Price!Done, Price!Markups, priceMarkupSeen, priceMarkup)'
    <3>1. /\ \A j : Price!Value(priceInput.rules[j])' = Price!Value(priceInput.rules[j])
          /\ \A j, k : Price!Before(j, k)' <=> Price!Before(j, k)
      BY <1>1, FirstUnchanged DEF Price!Before
    <3>. QED BY <1>1, <2>1, <2>4, <3>1 DEF Price!FirstCounts, Price!Markups
  <2>7. Price!FirstCounts(Price!Done, Price!Surcharges, priceSurchargeSeen, priceSurcharge)'
    <3>1. /\ \A j : Price!Value(priceInput.rules[j])' = Price!Value(priceInput.rules[j])
          /\ \A j, k : Price!Before(j, k)' <=> Price!Before(j, k)
      BY <1>1, FirstUnchanged DEF Price!Before
    <3>. QED BY <1>1, <2>1, <2>4, <3>1 DEF Price!FirstCounts, Price!Surcharges
  <2>. QED BY <2>1, <2>3, <2>5, <2>6, <2>7 DEF Price!PriceInv
<1>2. ASSUME NEW i \in priceLeft, \A j \in priceLeft \ {i} : Price!Before(i, j),
             priceLeft' = priceLeft \ {i}, priceInput' = priceInput
      PROVE  /\ \A kinds, value : \A seen \in BOOLEAN : Price!FirstCounts(Price!Done, kinds, seen, value) =>
                  /\ ~Price!Counts(i, kinds) \/ seen => First_(i, kinds, seen, value)
                  /\ Price!Counts(i, kinds)
                     /\ ~seen => First_(i, kinds, TRUE, Price!Value(priceInput.rules[i]))
             /\ Price!Value(priceInput.rules[i]) \in Int
  <2>1. i \in DOMAIN priceInput.rules /\ \A j \in Price!Done : Price!Before(j, i)
    BY <1>2, NextInOrder
  <2>2. Price!Value(priceInput.rules[i]) \in Int
    BY <2>1, ValueIsNumber DEF Price!PriceInv
  <2>. QED BY <2>1, <2>2, FirstStays
<1> HIDE DEF First_
<1>3. /\ priceMarkup \in Int /\ priceSurcharge \in Int /\ priceMarkupSeen \in BOOLEAN
      /\ priceSurchargeSeen \in BOOLEAN
      /\ Price!FirstCounts(Price!Done, Price!Markups, priceMarkupSeen, priceMarkup)
      /\ Price!FirstCounts(Price!Done, Price!Surcharges, priceSurchargeSeen, priceSurcharge)
  BY DEF Price!PriceInv, Price!PShape
<1>4. ASSUME NEW i \in priceLeft, Price!Skip(i) PROVE Price!PriceInv'
  <2>1. \A kinds : ~Price!Counts(i, kinds)
    BY <1>4 DEF Price!Skip, Price!Counts
  <2>. QED BY <1>1, <1>2, <1>3, <1>4, <2>1 DEF Price!Skip
<1>5. ASSUME NEW i \in priceLeft, NEW kinds \in {Price!Markups, Price!Surcharges, {"floor"}},
             Price!Turn(i, kinds)
      PROVE  /\ \A j \in priceLeft \ {i} : Price!Before(i, j)
             /\ priceLeft' = priceLeft \ {i} /\ priceInput' = priceInput /\ Price!Counts(i, kinds)
             /\ kinds = Price!Markups => ~Price!Counts(i, Price!Surcharges)
                /\ ~Price!Counts(i, {"floor"})
             /\ kinds = Price!Surcharges => ~Price!Counts(i, Price!Markups)
                /\ ~Price!Counts(i, {"floor"})
             /\ kinds = {"floor"} => ~Price!Counts(i, Price!Markups)
                /\ ~Price!Counts(i, Price!Surcharges)
  BY <1>5 DEF Price!Turn, Price!Counts, Price!Markups, Price!Surcharges
<1>6. ASSUME NEW i \in priceLeft, Price!MarkUp(i) PROVE Price!PriceInv'
  <2>1. /\ \A j \in priceLeft \ {i} : Price!Before(i, j)
        /\ priceLeft' = priceLeft \ {i} /\ priceInput' = priceInput
           /\ Price!Counts(i, Price!Markups)
        /\ ~Price!Counts(i, Price!Surcharges) /\ ~Price!Counts(i, {"floor"})
    BY <1>5, <1>6 DEF Price!MarkUp
  <2>2. /\ priceMarkup' = IF priceMarkupSeen THEN priceMarkup ELSE Price!Value(priceInput.rules[i])
        /\ priceMarkupSeen' = TRUE /\ priceSurcharge' = priceSurcharge
           /\ priceSurchargeSeen' = priceSurchargeSeen
        /\ priceFloor' = priceFloor
    BY <1>6 DEF Price!MarkUp
  <2>3. Price!Value(priceInput.rules[i]) \in Int
        /\ First_(i, Price!Surcharges, priceSurchargeSeen, priceSurcharge)
    BY <1>2, <1>3, <2>1
  <2>4. First_(i, Price!Markups, priceMarkupSeen', priceMarkup') /\ priceMarkup' \in Int
    <3>1. CASE priceMarkupSeen = TRUE
      BY <1>2, <1>3, <2>1, <2>2, <3>1
    <3>2. CASE priceMarkupSeen = FALSE
      BY <1>2, <1>3, <2>1, <2>2, <3>2
    <3>. QED BY <1>3, <3>1, <3>2
  <2>. QED BY <1>1, <1>3, <2>1, <2>2, <2>3, <2>4
<1>7. ASSUME NEW i \in priceLeft, Price!Surcharge(i) PROVE Price!PriceInv'
  <2>1. /\ \A j \in priceLeft \ {i} : Price!Before(i, j)
        /\ priceLeft' = priceLeft \ {i} /\ priceInput' = priceInput
           /\ Price!Counts(i, Price!Surcharges)
        /\ ~Price!Counts(i, Price!Markups) /\ ~Price!Counts(i, {"floor"})
    BY <1>5, <1>7 DEF Price!Surcharge
  <2>2. /\ priceSurcharge' = IF priceSurchargeSeen THEN priceSurcharge ELSE Price!Value(priceInput.rules[i])
        /\ priceSurchargeSeen' = TRUE /\ priceMarkup' = priceMarkup
           /\ priceMarkupSeen' = priceMarkupSeen
        /\ priceFloor' = priceFloor
    BY <1>7 DEF Price!Surcharge
  <2>3. Price!Value(priceInput.rules[i]) \in Int
        /\ First_(i, Price!Markups, priceMarkupSeen, priceMarkup)
    BY <1>2, <1>3, <2>1
  <2>4. First_(i, Price!Surcharges, priceSurchargeSeen', priceSurcharge') /\ priceSurcharge' \in Int
    <3>1. CASE priceSurchargeSeen = TRUE
      BY <1>2, <1>3, <2>1, <2>2, <3>1
    <3>2. CASE priceSurchargeSeen = FALSE
      BY <1>2, <1>3, <2>1, <2>2, <3>2
    <3>. QED BY <1>3, <3>1, <3>2
  <2>. QED BY <1>1, <1>3, <2>1, <2>2, <2>3, <2>4
<1>8. ASSUME NEW i \in priceLeft, Price!RaiseFloor(i) PROVE Price!PriceInv'
  <2>1. /\ \A j \in priceLeft \ {i} : Price!Before(i, j)
        /\ priceLeft' = priceLeft \ {i} /\ priceInput' = priceInput /\ Price!Counts(i, {"floor"})
        /\ ~Price!Counts(i, Price!Markups) /\ ~Price!Counts(i, Price!Surcharges)
    BY <1>5, <1>8 DEF Price!RaiseFloor
  <2>2. /\ priceFloor' = Price!Larger(priceFloor, priceInput.rules[i].amount)
        /\ priceMarkup' = priceMarkup /\ priceMarkupSeen' = priceMarkupSeen
        /\ priceSurcharge' = priceSurcharge /\ priceSurchargeSeen' = priceSurchargeSeen
    BY <1>8 DEF Price!RaiseFloor
  <2>3. /\ First_(i, Price!Markups, priceMarkupSeen, priceMarkup)
        /\ First_(i, Price!Surcharges, priceSurchargeSeen, priceSurcharge)
    BY <1>2, <1>3, <2>1
  <2>. QED BY <1>1, <1>3, <2>1, <2>2, <2>3
<1>9. CASE UNCHANGED Price!vars
  BY <1>9 DEF Price!vars, Price!PriceInv, Price!PShape, Price!InOrder, Price!HighestCounts,
              Price!FirstCounts, Price!Done, Price!Counts, Price!Matches, Price!Before,
              Price!Value, Price!Base
<1>. QED BY <1>4, <1>6, <1>7, <1>8, <1>9 DEF Price!Next

(* The highest of some numbers is the one none is above.                    *)
LEMMA MaxIs ==
  ASSUME NEW S \in SUBSET Int, NEW t \in S, \A x \in S : t >= x
  PROVE  Price!Max(S) = t
<1>1. \A x \in S : (\A y \in S : x >= y) => x = t
  OBVIOUS
<1>. QED BY <1>1 DEF Price!Max

(* The value of a kind is that of its first rule, or nothing.               *)
LEMMA FirstFound ==
  ASSUME Price!PriceInv, priceLeft = {}, NEW kinds, NEW seen \in BOOLEAN, NEW value,
         Price!FirstCounts(Price!Done, kinds, seen, value)
  PROVE  value \in IF {Price!Value(priceInput.rules[i]) : i \in Price!First(kinds)} = {} THEN {0}
                   ELSE {Price!Value(priceInput.rules[i]) : i \in Price!First(kinds)}
<1>1. Price!Done = DOMAIN priceInput.rules
  BY DEF Price!Done
<1>2. \A i, j \in Price!Done : i = j \/ Price!Before(i, j) =>
        priceInput.rules[i].priority < priceInput.rules[j].priority + (IF i <= j THEN 1 ELSE 0)
  BY <1>1 DEF Price!PriceInv, Price!PShape, Price!Before
<1>3. CASE seen = TRUE
  <2>1. PICK i \in Price!Done : /\ Price!Counts(i, kinds)
             /\ value = Price!Value(priceInput.rules[i])
                                /\ \A j \in Price!Done : Price!Counts(j, kinds) =>
                                     i = j \/ Price!Before(i, j)
    BY <1>3 DEF Price!FirstCounts
  <2>2. i \in Price!First(kinds)
    BY <1>1, <1>2, <2>1 DEF Price!First, Price!Counts
  <2>. QED BY <2>1, <2>2
<1>4. CASE seen = FALSE
  <2>1. Price!First(kinds) = {}
    BY <1>1, <1>4 DEF Price!FirstCounts, Price!First, Price!Counts
  <2>. QED BY <1>4, <2>1 DEF Price!FirstCounts
<1>. QED BY <1>3, <1>4

(* When the loop is over, the invariant says what the price is.             *)
LEMMA PriceMeans ==
  ASSUME Price!PriceInv
  PROVE  Price!PriceIsOfFirstRules
<1> SUFFICES ASSUME priceLeft = {} PROVE Price!PriceIsOfFirstRules
  BY DEF Price!PriceIsOfFirstRules
<1> DEFINE Of(kinds) == {Price!Value(priceInput.rules[i]) : i \in Price!First(kinds)}
           Floors == {priceInput.rules[i].amount : i \in {j \in DOMAIN priceInput.rules :
                        priceInput.rules[j].kind = "floor" /\ Price!Matches(priceInput.rules[j])}}
           m == priceMarkup
           s == priceSurcharge
           S == {Price!Base + m + s, 0} \cup Floors
<1>1. /\ m \in IF Of(Price!Markups) = {} THEN {0} ELSE Of(Price!Markups)
      /\ s \in IF Of(Price!Surcharges) = {} THEN {0} ELSE Of(Price!Surcharges)
  BY FirstFound DEF Price!PriceInv, Price!PShape
<1>2. m \in Int /\ s \in Int /\ priceFloor \in Int /\ Price!Base \in Int
  BY DEF Price!PriceInv, Price!PShape, Price!Base
<1>3. /\ \A a \in Floors : a \in Int /\ a <= priceFloor
      /\ priceFloor = -1 \/ priceFloor \in Floors
      /\ priceFloor >= -1
  <2>1. Price!Done = DOMAIN priceInput.rules
    BY DEF Price!Done
  <2>2. \A j : Price!Counts(j, {"floor"}) <=> priceInput.rules[j].kind = "floor"
        /\ Price!Matches(priceInput.rules[j])
    BY DEF Price!Counts
  <2>. QED BY <2>1, <2>2 DEF Price!PriceInv, Price!PShape, Price!HighestCounts
<1> HIDE DEF Floors
<1>4. Price!Base + (m + s) = Price!Base + m + s
  BY <1>2
<1>5. Price!Total \in S /\ S \subseteq Int /\ \A x \in S : Price!Total >= x
  <2>1. CASE priceFloor > 0 /\ Price!Base + (m + s) < priceFloor
    <3>1. Price!Total = priceFloor
      BY <1>2, <2>1 DEF Price!Total, Price!Larger
    <3>. QED BY <1>2, <1>3, <1>4, <2>1, <3>1
  <2>2. CASE ~(priceFloor > 0 /\ Price!Base + (m + s) < priceFloor)
    <3>1. Price!Total = Price!Larger(Price!Base + (m + s), 0)
      BY <1>2, <2>2 DEF Price!Total
    <3>. QED BY <1>2, <1>3, <1>4, <2>2, <3>1 DEF Price!Larger
  <2>. QED BY <2>1, <2>2
<1>6. Price!Total = Price!Max(S)
  BY <1>5, MaxIs
<1>. QED BY <1>1, <1>6 DEF Price!PriceIsOfFirstRules, Floors

(* The loop keeps its invariant.                                            *)
LEMMA PriceKept ==
  ASSUME Price!PricingAssumption
  PROVE  Price!Spec => []Price!PriceInv
<1>1. Price!Init => Price!PriceInv
  BY PriceInit
<1>2. Price!PriceInv /\ [Price!Next]_(Price!vars) => Price!PriceInv'
  BY PriceStep
<1>. QED BY <1>1, <1>2, PTL DEF Price!Spec

(* The module keeps what it promises, whatever the constants. *)
LEMMA PriceHolds ==
  ASSUME Price!PricingAssumption
  PROVE  Price!Spec => []Price!PriceIsOfFirstRules
<1>1. Price!Spec => []Price!PriceInv
  BY PriceKept
<1>2. Price!PriceInv => Price!PriceIsOfFirstRules
  BY PriceMeans
<1>. QED BY <1>1, <1>2, PTL

LEMMA PriceRuns == MCSpec => []~(machine = "price") \/ Price!Spec
<1>1. MCInit /\ machine = "price" => Price!Init
  BY DEF MCInit
<1>2. machine = "price" /\ [MCNext]_all => (machine = "price")' /\ [Price!Next]_(Price!vars)
  BY DEF MCNext, all, inst, Price!vars
<1>3. ~(machine = "price") /\ [MCNext]_all => (~(machine = "price"))'
  BY DEF MCNext, all
<1>. QED BY <1>1, <1>2, <1>3, PTL DEF MCSpec, Price!Spec

-----------------------------------------------------------------------------
(* The sums of the checkout.  What a form shows was computed of what the    *)
(* page shows now, or is computed again before it is told (ToldIsTrue), and *)
(* a discount is of the order it was validated for (OfferIsFair).           *)
sumsMounted == v1
sumsPage == v2
sumsTip == v3
sumsTaxed == v4
sumsTold == v5
sumsCoupon == v6
sumsShare == v7
sumsPaying == v8
sumsChanges == v9

USE DEF sumsMounted, sumsPage, sumsTip, sumsTaxed, sumsTold, sumsCoupon, sumsShare,
        sumsPaying, sumsChanges

(* A rounded quotient is within half of the exact one.                      *)
LEMMA RoundedIs ==
  ASSUME NEW a \in Int, NEW b \in Nat \ {0}
  PROVE  /\ Sums!Rounded(a, b) \in Int
         /\ 2 * (Sums!Rounded(a, b) * b - a) <= b /\ 2 * (a - Sums!Rounded(a, b) * b) <= b
<1> DEFINE d == 2 * b
           n == 2 * a + b
           q == n \div d
<1>1. d \in Int /\ d > 0 /\ n \in Int
  OBVIOUS
<1> HIDE DEF d, n
<1>2. q \in Int /\ d * q <= n /\ n < d * q + d
  BY <1>1
<1> HIDE DEF q
<1>3. Sums!Rounded(a, b) = q
  BY DEF Sums!Rounded, q, n, d
<1>4. d * q = 2 * (q * b)
  BY <1>2 DEF d
<1>5. q * b \in Int
  BY <1>2
<1>. QED BY <1>2, <1>3, <1>4, <1>5 DEF n, d

(* A rate that is reckoned with is one of numbers, above nothing.           *)
LEMMA RatesAreNumbers ==
  ASSUME NEW rates \in [xlm : Nat \X (Nat \ {0}), usdc : Nat \X (Nat \ {0})]
  PROVE  /\ Sums!XlmRate(rates)[1] \in Nat \ {0} /\ Sums!XlmRate(rates)[2] \in Nat \ {0}
         /\ Sums!UsdcRate(rates)[1] \in Nat \ {0} /\ Sums!UsdcRate(rates)[2] \in Nat \ {0}
<1>1. /\ rates.xlm[1] \in Nat /\ rates.xlm[2] \in Nat \ {0}
      /\ rates.usdc[1] \in Nat /\ rates.usdc[2] \in Nat \ {0}
  OBVIOUS
<1>. QED BY <1>1 DEF Sums!XlmRate, Sums!UsdcRate

(* Tokens are worth the dollars they stand for, to the rounding.            *)
LEMMA TokensAreWorth ==
  ASSUME NEW usd \in Int, NEW rate, rate[1] \in Nat \ {0}, rate[2] \in Nat \ {0}
  PROVE  Sums!Tokens(usd, rate) \in Int /\ Sums!Worth(Sums!Tokens(usd, rate), usd, rate)
<1> DEFINE a == rate[1]  b == rate[2]  t == Sums!Tokens(usd, rate)
<1>1. a \in Nat \ {0} /\ usd * b \in Int
  OBVIOUS
<1>2. t = Sums!Rounded(usd * b, a)
  BY DEF Sums!Tokens
<1> HIDE DEF a, b, t
<1>3. /\ t \in Int /\ 2 * (t * a - usd * b) <= a /\ 2 * (usd * b - t * a) <= a
  BY <1>1, <1>2, RoundedIs
<1> DEFINE over == 2 * (t * a - usd * b)
<1>4. over <= a /\ -over <= a
  <2>1. t * a \in Int
    BY <1>1, <1>3
  <2>. QED BY <1>1, <1>3, <2>1
<1>. QED BY <1>3, <1>4 DEF Sums!Worth, a, b, t

(* Who has the most tokens of a sum can pay it after the slippage.          *)
LEMMA MostTokensLast ==
  ASSUME Sums!CheckoutAssumption, NEW usd \in Int, NEW rate, rate[1] \in Nat \ {0},
         rate[2] \in Nat \ {0}, NEW xlm \in Int, Sums!MostTokens(usd, rate) <= xlm
  PROVE  Sums!LastsFor(xlm, usd, rate)
<1> DEFINE a == rate[1]
           b == rate[2]
           due == usd * b * (100 + Slippage)
           most == Sums!Rounded(due, a * 100)
<1>1. a \in Nat \ {0} /\ b \in Nat \ {0} /\ 100 + Slippage \in Int
  BY DEF Sums!CheckoutAssumption
<1>2. usd * b \in Int
  BY <1>1
<1>3. due \in Int /\ a * 100 \in Nat \ {0}
  BY <1>1, <1>2
<1>4. most <= xlm
  BY DEF Sums!MostTokens
<1>5. Sums!LastsFor(xlm, usd, rate) <=> 2 * (xlm * a * 100 - due) >= -100 * a
  BY DEF Sums!LastsFor
<1> HIDE DEF a, b, due
<1>6. most \in Int /\ 2 * (due - most * (a * 100)) <= a * 100
  BY <1>3, RoundedIs
<1> HIDE DEF most
<1> DEFINE m == most * (a * 100)
           w == xlm * a * 100
<1>7. m <= xlm * (a * 100) /\ m \in Int
  BY <1>3, <1>4, <1>6
<1>8. xlm * (a * 100) = w /\ w \in Int
  BY <1>1
<1>9. m <= w /\ 2 * (due - m) <= a * 100
  BY <1>6, <1>7, <1>8
<1> HIDE DEF m, w
<1>10. 2 * (w - due) >= -100 * a
  BY <1>1, <1>3, <1>7, <1>8, <1>9
<1>. QED BY <1>5, <1>10 DEF w

(* A split that can be afforded covers the total, within the balances.      *)
LEMMA SplitCovers ==
  ASSUME Sums!CheckoutAssumption, NEW total \in Nat, NEW percent \in Int,
         NEW rates \in [xlm : Nat \X (Nat \ {0}), usdc : Nat \X (Nat \ {0})],
         NEW usdc \in Int, NEW xlm \in Int,
         Sums!CalculateSplitPayment(total, percent, rates, usdc, xlm).canAfford
  PROVE  LET s == Sums!CalculateSplitPayment(total, percent, rates, usdc, xlm)
         IN  /\ s.usdcUsd + s.xlmUsd = total
             /\ s.usdc <= usdc
             /\ Sums!Worth(s.usdc, s.usdcUsd, Sums!UsdcRate(rates))
             /\ Sums!Worth(s.xlm, s.xlmUsd, Sums!XlmRate(rates))
             /\ Sums!LastsFor(xlm, s.xlmUsd, Sums!XlmRate(rates))
<1> DEFINE s == Sums!CalculateSplitPayment(total, percent, rates, usdc, xlm)
           u == Sums!UsdcUsd(total, percent)
           x == total - u
<1>1. Sums!Greatest(0, total) = total
  BY DEF Sums!Greatest
<1>2. /\ s.usdcUsd = u /\ s.xlmUsd = x
      /\ s.usdc = Sums!Tokens(u, Sums!UsdcRate(rates))
      /\ s.xlm = Sums!Tokens(x, Sums!XlmRate(rates))
      /\ s.canAfford = (Sums!Tokens(u, Sums!UsdcRate(rates)) <= usdc
                          /\ Sums!MostTokens(x, Sums!XlmRate(rates)) <= xlm)
  BY <1>1 DEF Sums!CalculateSplitPayment
<1>3. u \in Int
  <2> DEFINE share == Sums!Least(100, Sums!Greatest(0, percent))
  <2>1. share \in Int
    BY DEF Sums!Least, Sums!Greatest
  <2> HIDE DEF share
  <2>2. total * share \in Int /\ 100 \in Nat \ {0}
    BY <2>1
  <2>3. Sums!Rounded(total * share, 100) \in Int
    BY <2>2, RoundedIs
  <2>. QED BY <2>3 DEF Sums!UsdcUsd, share
<1> HIDE DEF u, s
<1>4. x \in Int /\ u + x = total
  BY <1>3
<1> HIDE DEF x
<1>5. Sums!Worth(s.usdc, u, Sums!UsdcRate(rates)) /\ Sums!Worth(s.xlm, x, Sums!XlmRate(rates))
  BY <1>2, <1>3, <1>4, RatesAreNumbers, TokensAreWorth
<1>6. Sums!Tokens(u, Sums!UsdcRate(rates)) <= usdc /\ Sums!MostTokens(x, Sums!XlmRate(rates)) <= xlm
  BY <1>2 DEF s
<1>7. Sums!LastsFor(xlm, x, Sums!XlmRate(rates))
  BY <1>4, <1>6, RatesAreNumbers, MostTokensLast
<1>. QED BY <1>2, <1>4, <1>5, <1>6, <1>7 DEF s

(* A coupon that is not refused takes no more than the order.               *)
LEMMA OfferIsWithin ==
  ASSUME Sums!CheckoutAssumption, NEW order \in Nat, NEW c \in Coupons \cup {Sums!NoCoupon},
         NEW applied \in BOOLEAN, Sums!Refusal(c, order, applied) = "ok"
  PROVE  /\ Sums!Offer(c, order).final \in 0 .. order
         /\ Sums!Offer(c, order).final + Sums!Offer(c, order).discount = order
         /\ c.minSpend <= order
<1>1. c # Sums!NoCoupon
  BY DEF Sums!Refusal
<1>2. c.value \in Nat /\ c.minSpend \in Nat
  BY <1>1 DEF Sums!CheckoutAssumption
<1>3. c.minSpend <= order
  <2>1. ~(order < c.minSpend)
    BY <1>1, <1>2 DEF Sums!Refusal
  <2>. QED BY <1>2, <2>1
<1> DEFINE off == Sums!ComputeDiscountAmount(order, c)
<1>4. off \in Nat /\ off <= order
  <2>1. order * c.value \in Nat
    BY <1>2
  <2>2. (order * c.value) \div 100 \in Nat
    <3> DEFINE part == order * c.value
    <3> HIDE DEF part
    <3>1. part \in Nat => part \div 100 \in Nat
      OBVIOUS
    <3>. QED BY <2>1, <3>1 DEF part
  <2> DEFINE cut == IF c.kind = "fixed" THEN c.value ELSE (order * c.value) \div 100
  <2>3. cut \in Nat
    BY <1>2, <2>2
  <2> HIDE DEF cut
  <2>4. Sums!Least(order, cut) \in Nat /\ Sums!Least(order, cut) <= order
    BY <2>3 DEF Sums!Least
  <2>. QED BY <2>4 DEF Sums!ComputeDiscountAmount, cut
<1>5. Sums!Offer(c, order).final = order - off /\ Sums!Offer(c, order).discount = off
  BY DEF Sums!Offer
<1> HIDE DEF off
<1>. QED BY <1>3, <1>4, <1>5

(* What a page may show are amounts.                                        *)
LEMMA PropsAreNumbers ==
  ASSUME Sums!CheckoutAssumption, NEW new \in Sums!Props(sumsMounted)
  PROVE  /\ new.subtotal \in Nat
         /\ sumsMounted = "split" =>
              /\ new.rates \in [xlm : Nat \X (Nat \ {0}), usdc : Nat \X (Nat \ {0})]
              /\ new.usdc \in Nat /\ new.xlm \in Nat
<1>1. /\ new.subtotal \in Subtotals
      /\ sumsMounted = "split" => new.rates \in Rates /\ new.usdc \in Balances
                                  /\ new.xlm \in Balances
  BY DEF Sums!Props
<1>2. \A n \in Subtotals \cup Balances : n \in Nat
  BY DEF Sums!CheckoutAssumption
<1>3. Rates \subseteq [xlm : Nat \X (Nat \ {0}), usdc : Nat \X (Nat \ {0})]
  BY DEF Sums!CheckoutAssumption
<1>. QED BY <1>1, <1>2, <1>3

(* The invariant holds when a form is mounted.                              *)
LEMMA SumsInit ==
  ASSUME Sums!CheckoutAssumption, Sums!Init
  PROVE  Sums!SumsInv
<1>1. /\ sumsPage \in Sums!Props(sumsMounted) /\ sumsTold = FALSE /\ sumsShare \in Int
         /\ sumsCoupon = Sums!Idle
      /\ sumsPaying = Sums!NotPaying /\ sumsTip = [percent |-> Sums!Unset, custom |-> Sums!Unset]
  BY DEF Sums!Init, Sums!CheckoutAssumption
<1>2. /\ DOMAIN sumsTip = {"percent", "custom"} /\ sumsTip.percent = Sums!Unset
      /\ sumsCoupon.phase = "idle" /\ sumsShare \in Int
  BY <1>1 DEF Sums!Idle
<1>3. Sums!CShape
  BY <1>1, <1>2, PropsAreNumbers DEF Sums!CShape
<1>. QED BY <1>1, <1>2, <1>3 DEF Sums!SumsInv, Sums!OneTip, Sums!ToldIsTrue, Sums!OfferIsFair,
                                 Sums!OffersHold, Sums!ConfirmedIsCovered

(* A part of the invariant depends on a part of the form.                   *)
LEMMA SumsUnchanged ==
  ASSUME Sums!SumsInv
  PROVE  /\ UNCHANGED <<sumsCoupon>> => Sums!OfferIsFair'
         /\ UNCHANGED <<sumsPaying>> => Sums!ConfirmedIsCovered'
         /\ UNCHANGED <<sumsTip>> => Sums!OneTip'
         /\ UNCHANGED <<sumsPage, sumsTold, sumsTaxed>> => Sums!ToldIsTrue'
         /\ UNCHANGED <<sumsPage, sumsMounted, sumsShare, sumsTip>> => Sums!CShape'
BY DEF Sums!SumsInv, Sums!OfferIsFair, Sums!OffersHold, Sums!ConfirmedIsCovered, Sums!OneTip,
   Sums!ToldIsTrue, Sums!CShape, Sums!TaxNow

(* Every step keeps the invariant.                                          *)
LEMMA SumsStep ==
  ASSUME Sums!CheckoutAssumption, Sums!SumsInv, [Sums!Next]_(Sums!vars)
  PROVE  Sums!SumsInv'
<1> USE SumsUnchanged
<1>1. ASSUME NEW new \in Sums!Props(sumsMounted), Sums!PageChanges(new) PROVE Sums!SumsInv'
  <2>1. /\ sumsPage' = new /\ sumsTold' = (sumsTold /\ Sums!Memoised(new))
        /\ UNCHANGED <<sumsMounted, sumsTip, sumsTaxed, sumsCoupon, sumsShare, sumsPaying>>
    BY <1>1 DEF Sums!PageChanges
  <2>2. Sums!CShape'
    BY <2>1, PropsAreNumbers DEF Sums!CShape, Sums!SumsInv
  <2>3. Sums!ToldIsTrue'
    BY <2>1 DEF Sums!ToldIsTrue, Sums!SumsInv, Sums!Memoised, Sums!TaxNow
  <2>. QED BY <2>1, <2>2, <2>3 DEF Sums!SumsInv
<1>2. CASE Sums!TellTax
  <2>1. sumsTaxed' = Sums!TaxNow
        /\ UNCHANGED <<sumsMounted, sumsPage, sumsTip, sumsCoupon, sumsShare, sumsPaying>>
    BY <1>2 DEF Sums!TellTax
  <2>2. Sums!ToldIsTrue'
    BY <2>1 DEF Sums!ToldIsTrue, Sums!TaxNow
  <2>. QED BY <2>1, <2>2 DEF Sums!SumsInv
<1>3. ASSUME UNCHANGED <<sumsMounted, sumsPage, sumsTaxed, sumsTold, sumsCoupon, sumsShare, sumsPaying>>,
             DOMAIN sumsTip' = {"percent", "custom"},
             sumsTip'.percent = Sums!Unset \/ sumsTip'.custom = Sums!Unset
      PROVE  Sums!SumsInv'
  BY <1>3 DEF Sums!SumsInv, Sums!CShape, Sums!OneTip
<1>4. ASSUME NEW percent, Sums!SetTipPercent(percent) PROVE Sums!SumsInv'
  BY <1>3, <1>4 DEF Sums!SetTipPercent
<1>5. ASSUME NEW amount, Sums!SetCustomTipAmount(amount) PROVE Sums!SumsInv'
  BY <1>3, <1>5 DEF Sums!SetCustomTipAmount
<1>6. CASE Sums!UnsetCustomTip
  <2>1. DOMAIN sumsTip = {"percent", "custom"}
    BY DEF Sums!SumsInv, Sums!CShape
  <2>2. sumsTip'.custom = Sums!Unset /\ DOMAIN sumsTip' = {"percent", "custom"}
    BY <1>6, <2>1 DEF Sums!UnsetCustomTip
  <2>. QED BY <1>3, <1>6, <2>2 DEF Sums!UnsetCustomTip
<1>7. CASE Sums!ClearTip
  BY <1>3, <1>7 DEF Sums!ClearTip
<1>8. ASSUME UNCHANGED <<sumsMounted, sumsPage, sumsTip, sumsTaxed, sumsTold, sumsShare, sumsPaying>>,
             sumsCoupon'.phase = "validating" => sumsCoupon'.order \in Nat,
             sumsCoupon'.phase = "applied" =>
               /\ sumsCoupon'.offer.final \in 0 .. sumsCoupon'.order
               /\ sumsCoupon'.offer.final + sumsCoupon'.offer.discount = sumsCoupon'.order
               /\ sumsCoupon'.coupon.minSpend <= sumsCoupon'.order
      PROVE  Sums!SumsInv'
  BY <1>8 DEF Sums!SumsInv, Sums!OfferIsFair, Sums!OffersHold
<1>9. CASE Sums!ApplyCoupon
  <2>1. sumsCoupon'.phase = "validating" /\ sumsCoupon'.order = sumsPage.subtotal
    BY <1>9 DEF Sums!ApplyCoupon
  <2>. QED BY <1>8, <1>9, <2>1 DEF Sums!ApplyCoupon, Sums!SumsInv, Sums!CShape
<1>10. ASSUME NEW c \in Coupons \cup {Sums!NoCoupon}, NEW applied \in BOOLEAN,
              Sums!CouponFound(c, applied)
       PROVE  Sums!SumsInv'
  <2>1. sumsCoupon.order \in Nat
    BY <1>10 DEF Sums!CouponFound, Sums!SumsInv, Sums!OfferIsFair
  <2>2. CASE Sums!Refusal(c, sumsCoupon.order, applied) = "ok"
    <3>1. /\ sumsCoupon'.phase = "applied" /\ sumsCoupon'.order = sumsCoupon.order
             /\ sumsCoupon'.coupon = c
          /\ sumsCoupon'.offer = Sums!Offer(c, sumsCoupon.order)
      BY <1>10, <2>2 DEF Sums!CouponFound
    <3>2. /\ Sums!Offer(c, sumsCoupon.order).final \in 0 .. sumsCoupon.order
          /\ Sums!Offer(c, sumsCoupon.order).final + Sums!Offer(c, sumsCoupon.order).discount = sumsCoupon.order
          /\ c.minSpend <= sumsCoupon.order
      BY <1>10, <2>1, <2>2, OfferIsWithin
    <3>. QED BY <1>8, <1>10, <3>1, <3>2 DEF Sums!CouponFound
  <2>3. CASE Sums!Refusal(c, sumsCoupon.order, applied) # "ok"
    BY <1>8, <1>10, <2>3 DEF Sums!CouponFound
  <2>. QED BY <2>2, <2>3
<1>11. CASE Sums!LookupFails
  BY <1>8, <1>11 DEF Sums!LookupFails
<1>12. CASE Sums!RemoveCoupon
  BY <1>8, <1>12 DEF Sums!RemoveCoupon, Sums!Idle
<1>13. ASSUME NEW percent \in Int, Sums!SetShare(percent) PROVE Sums!SumsInv'
  BY <1>13 DEF Sums!SetShare, Sums!SumsInv, Sums!CShape
<1>14. CASE Sums!ApplyOptimal
  <2>1. Sums!SuggestOptimalSplit(sumsPage.subtotal, sumsPage.usdc) \in Int
    <3>1. sumsPage.subtotal \in Nat /\ sumsPage.usdc * 100 \in Int
      BY <1>14 DEF Sums!ApplyOptimal, Sums!SetShare, Sums!SumsInv, Sums!CShape
    <3>2. sumsPage.subtotal # 0 => Sums!Rounded(sumsPage.usdc * 100, sumsPage.subtotal) \in Int
      BY <3>1, RoundedIs
    <3>. QED BY <3>2 DEF Sums!SuggestOptimalSplit
  <2>. QED BY <1>13, <1>14, <2>1 DEF Sums!ApplyOptimal
<1>15. CASE Sums!Confirm
  <2>1. /\ sumsPage.rates \in [xlm : Nat \X (Nat \ {0}), usdc : Nat \X (Nat \ {0})]
        /\ sumsPage.usdc \in Int /\ sumsPage.xlm \in Int /\ sumsPage.subtotal \in Nat
           /\ sumsShare \in Int
        /\ Sums!Split.canAfford
    BY <1>15 DEF Sums!Confirm, Sums!SumsInv, Sums!CShape
  <2>2. /\ sumsPaying'.split = Sums!Split /\ sumsPaying'.total = sumsPage.subtotal
        /\ sumsPaying'.usdc = sumsPage.usdc /\ sumsPaying'.xlm = sumsPage.xlm
        /\ sumsPaying'.rates = sumsPage.rates
        /\ UNCHANGED <<sumsMounted, sumsPage, sumsTip, sumsTaxed, sumsTold, sumsCoupon, sumsShare>>
    BY <1>15 DEF Sums!Confirm
  <2>3. Sums!ConfirmedIsCovered'
    BY <2>1, <2>2, SplitCovers DEF Sums!ConfirmedIsCovered, Sums!Split
  <2>. QED BY <2>2, <2>3 DEF Sums!SumsInv
<1>16. CASE Sums!Confirmed
  BY <1>16 DEF Sums!Confirmed, Sums!SumsInv, Sums!ConfirmedIsCovered
<1>17. CASE UNCHANGED Sums!vars
  BY <1>17 DEF Sums!vars, Sums!SumsInv
<1>18. \A percent \in Shares : percent \in Int
  BY DEF Sums!CheckoutAssumption
<1>. QED
  BY <1>1, <1>2, <1>4, <1>5, <1>6, <1>7, <1>9, <1>10, <1>11, <1>12, <1>13, <1>14, <1>15, <1>16,
     <1>17, <1>18 DEF Sums!Next

(* The invariant is more than what is promised.                             *)
LEMMA SumsMean ==
  ASSUME Sums!SumsInv
  PROVE  Sums!CheckoutAddsUp
<1>1. Sums!TotalsAddUp
  BY DEF Sums!SumsInv, Sums!OneTip, Sums!ToldIsTrue, Sums!TotalsAddUp, Sums!ShownTotal, Sums!Total,
     Sums!ActiveTax
<1>. QED BY <1>1 DEF Sums!SumsInv, Sums!OfferIsFair, Sums!CheckoutAddsUp

(* The forms keep their invariant.                                          *)
LEMMA SumsKept ==
  ASSUME Sums!CheckoutAssumption
  PROVE  Sums!Spec => []Sums!SumsInv
<1>1. Sums!Init => Sums!SumsInv
  BY SumsInit
<1>2. Sums!SumsInv /\ [Sums!Next]_(Sums!vars) => Sums!SumsInv'
  BY SumsStep
<1>. QED BY <1>1, <1>2, PTL DEF Sums!Spec

(* The module keeps what it promises, whatever the constants. *)
LEMMA SumsHolds ==
  ASSUME Sums!CheckoutAssumption
  PROVE  Sums!Spec => []Sums!CheckoutAddsUp
<1>1. Sums!Spec => []Sums!SumsInv
  BY SumsKept
<1>2. Sums!SumsInv => Sums!CheckoutAddsUp
  BY SumsMean
<1>. QED BY <1>1, <1>2, PTL

LEMMA SumsRuns == MCSpec => []~(machine = "checkout") \/ Sums!Spec
<1>1. MCInit /\ machine = "checkout" => Sums!Init
  BY DEF MCInit
<1>2. machine = "checkout" /\ [MCNext]_all => (machine = "checkout")' /\ [Sums!Next]_(Sums!vars)
  BY DEF MCNext, all, inst, Sums!vars
<1>3. ~(machine = "checkout") /\ [MCNext]_all => (~(machine = "checkout"))'
  BY DEF MCNext, all
<1>. QED BY <1>1, <1>2, <1>3, PTL DEF MCSpec, Sums!Spec

(* A price is the base with the first markup and the first surcharge that   *)
(* match, no less than any floor that does, whatever the rules and however  *)
(* many have one priority; and the sums of a checkout add up, whatever tips,*)
(* taxes, coupons and splits change while they are computed and confirmed.  *)
THEOREM PricesStayRight ==
  ASSUME Price!PricingAssumption, Sums!CheckoutAssumption
  PROVE  MCSpec => []PricesAreRight
<1>1. Price!Spec => []Price!PriceIsOfFirstRules
  BY PriceHolds
<1>2. Sums!Spec => []Sums!CheckoutAddsUp
  BY SumsHolds
<1>3. (~(machine = "price") \/ Price!PriceIsOfFirstRules)
      /\ (~(machine = "checkout") \/ Sums!CheckoutAddsUp) => PricesAreRight
  BY DEF PricesAreRight
<1>. QED BY <1>1, <1>2, <1>3, PriceRuns, SumsRuns, PTL

-----------------------------------------------------------------------------
(* Revenue.  A report is folded from groups, and sums may be split as one   *)
(* likes, so whatever the groups were the sums are those of the payments;   *)
(* the rest is where a payment of a day stands among the buckets.           *)
settled == v1
today == v2

USE DEF settled, today

(* What the instance counts is what there is.                               *)
LEMMA ReportCount == \A S : Report!Cardinality(S) = Cardinality(S)
  BY DEF Report!Cardinality, Cardinality

(* Counting up from zero reaches every number. *)
LEMMA CountsUp ==
  ASSUME NEW T, 0 \in T, \A n \in Nat : n \in T => n + 1 \in T
  PROVE  \A n \in Nat : n \in T
<1>. SUFFICES ASSUME NEW m \in Nat, m \notin T PROVE FALSE
  OBVIOUS
<1>. DEFINE Missing == {n \in Nat : n \notin T}
<1>1. PICK x \in Missing : \A y \in Missing : x <= y
  <2>. DEFINE R == OpToRel(<, Nat)
  <2>1. \A x, y \in Nat : x < y => <<x, y>> \in R
    BY DEF OpToRel
  <2>2. IsWellFoundedOn(R, Nat)
    BY NatLessThanWellFounded
  <2>3. Missing \subseteq Nat /\ Missing # {}
    OBVIOUS
  <2>. HIDE DEF R, Missing
  <2>4. PICK x \in Missing : \A y \in Missing : ~(<<y, x>> \in R)
    BY <2>2, <2>3, WFMin
  <2>5. ASSUME NEW y \in Missing PROVE x <= y
    <3>1. x \in Nat /\ y \in Nat
      BY <2>3
    <3>2. ~(y < x)
      BY <2>1, <2>4, <3>1
    <3>. QED BY <3>1, <3>2
  <2>. QED BY <2>4, <2>5
<1>2. x \in Nat /\ x # 0
  OBVIOUS
<1>3. x - 1 \in Nat /\ x - 1 \in T
  BY <1>1, <1>2
<1>. QED BY <1>2, <1>3

(* A member less is one fewer.                                              *)
LEMMA OneLess ==
  ASSUME NEW T, IsFiniteSet(T), NEW n \in Nat, Cardinality(T) = n + 1, NEW x \in T
  PROVE  Cardinality(T \ {x}) = n
<1>1. Cardinality(T \ {x}) = Cardinality(T) - 1
  BY FS_RemoveElement
<1>. QED BY <1>1

(* A finite set is built by adding its members one at a time. *)
LEMMA GrowsTo ==
  ASSUME NEW S, IsFiniteSet(S), NEW A, {} \in A,
         \A T \in SUBSET S, x \in S : T \in A /\ x \notin T => T \cup {x} \in A
  PROVE  S \in A
<1>. DEFINE N == {n \in Nat : \A T \in SUBSET S : Cardinality(T) = n => T \in A}
<1>1. 0 \in N
  <2>1. \A T \in SUBSET S : Cardinality(T) = 0 => T = {}
    BY FS_Subset, FS_EmptySet
  <2>. QED BY <2>1
<1>2. ASSUME NEW n \in Nat, n \in N PROVE n + 1 \in N
  <2>1. SUFFICES ASSUME NEW T \in SUBSET S, Cardinality(T) = n + 1 PROVE T \in A
    BY <1>2
  <2>2. IsFiniteSet(T) /\ T # {}
    BY <2>1, FS_Subset, FS_EmptySet
  <2>3. PICK x \in T : TRUE
    BY <2>2
  <2>4. Cardinality(T \ {x}) = n
    BY <2>1, <2>2, OneLess
  <2>5. T \ {x} \in A /\ T \ {x} \in SUBSET S /\ x \in S /\ x \notin T \ {x}
    BY <1>2, <2>4
  <2>6. (T \ {x}) \cup {x} \in A
    BY <2>5
  <2>7. (T \ {x}) \cup {x} = T
    OBVIOUS
  <2>. QED BY <2>6, <2>7
<1>. HIDE DEF N
<1>3. Cardinality(S) \in N
  BY <1>1, <1>2, CountsUp, FS_CardinalityType
<1>. QED BY <1>3 DEF N

-----------------------------------------------------------------------------
(* Sums.  Total picks the members of a set in some order and adds up; the  *)
(* order makes no difference (AnyFirst), so a sum may be split as one likes.*)

Pick(s) == CHOOSE x \in s : TRUE
Recurs(g, f, S) ==
  \A s \in SUBSET S : g[s] = IF s = {} THEN 0 ELSE f[Pick(s)] + g[s \ {Pick(s)}]
SumsUp(g, f, S) == g \in [SUBSET S -> Int] /\ Recurs(g, f, S)

(* What is picked is a member.                                              *)
LEMMA PickIsIn == ASSUME NEW s, s # {} PROVE Pick(s) \in s
BY DEF Pick

(* A finite set has its sums.                                               *)
LEMMA SumsExist ==
  ASSUME NEW S, IsFiniteSet(S), NEW f \in [S -> Int]
  PROVE  \E g : SumsUp(g, f, S)
<1>. DEFINE Sum(g, s) == IF s = {} THEN 0 ELSE f[Pick(s)] + g[s \ {Pick(s)}]
            T == {m \in Nat : \E g \in [SUBSET S -> Int] :
                    \A s \in SUBSET S : Cardinality(s) <= m => g[s] = Sum(g, s)}
<1>1. 0 \in T
  <2>. DEFINE g == [s \in SUBSET S |-> 0]
  <2>1. \A s \in SUBSET S : Cardinality(s) <= 0 => s = {}
    <3>1. \A s \in SUBSET S : IsFiniteSet(s) /\ Cardinality(s) \in Nat
      BY FS_Subset, FS_CardinalityType
    <3>. QED BY <3>1, FS_EmptySet
  <2>2. g \in [SUBSET S -> Int] /\ \A s \in SUBSET S : Cardinality(s) <= 0 => g[s] = Sum(g, s)
    BY <2>1
  <2>. QED BY <2>2
<1>2. ASSUME NEW m \in Nat, m \in T PROVE m + 1 \in T
  <2>1. PICK g \in [SUBSET S -> Int] :
          \A s \in SUBSET S : Cardinality(s) <= m => g[s] = Sum(g, s)
    BY <1>2
  <2>. DEFINE h == [s \in SUBSET S |-> IF Cardinality(s) <= m THEN g[s] ELSE Sum(g, s)]
  <2>2. \A s \in SUBSET S : Sum(g, s) \in Int
    <3>. SUFFICES ASSUME NEW s \in SUBSET S, s # {} PROVE Sum(g, s) \in Int
      OBVIOUS
    <3>1. Pick(s) \in S /\ s \ {Pick(s)} \in SUBSET S
      BY PickIsIn
    <3>. QED BY <3>1
  <2>3. h \in [SUBSET S -> Int]
    BY <2>2
  <2>4. ASSUME NEW s \in SUBSET S, Cardinality(s) <= m + 1 PROVE h[s] = Sum(h, s)
    <3>1. h[s] = Sum(g, s)
      BY <2>1
    <3>2. CASE s = {}
      BY <3>1, <3>2
    <3>3. CASE s # {}
      <4>1. Pick(s) \in s /\ IsFiniteSet(s)
        BY <3>3, PickIsIn, FS_Subset
      <4>2. Cardinality(s \ {Pick(s)}) <= m
        <5>1. Cardinality(s \ {Pick(s)}) = Cardinality(s) - 1 /\ Cardinality(s) \in Nat
          BY <4>1, FS_RemoveElement, FS_CardinalityType
        <5>. QED BY <2>4, <5>1
      <4>3. h[s \ {Pick(s)}] = g[s \ {Pick(s)}]
        BY <4>2
      <4>. QED BY <3>1, <4>3
    <3>. QED BY <3>2, <3>3
  <2>. HIDE DEF h, Sum
  <2>5. \E e \in [SUBSET S -> Int] :
          \A s \in SUBSET S : Cardinality(s) <= m + 1 => e[s] = Sum(e, s)
    BY <2>3, <2>4
  <2>6. m + 1 \in Nat
    OBVIOUS
  <2>. QED BY <2>5, <2>6
<1>3. Cardinality(S) \in T
  <2>. HIDE DEF T
  <2>. QED BY <1>1, <1>2, CountsUp, FS_CardinalityType
<1>4. PICK g \in [SUBSET S -> Int] :
        \A s \in SUBSET S : Cardinality(s) <= Cardinality(S) => g[s] = Sum(g, s)
  BY <1>3
<1>5. \A s \in SUBSET S : Cardinality(s) <= Cardinality(S)
  BY FS_Subset
<1>. QED BY <1>4, <1>5 DEF SumsUp, Recurs

(* Sums of functions that agree are the same. *)
LEMMA SumsAgree ==
  ASSUME NEW W, IsFiniteSet(W), NEW f, NEW e, \A x \in W : f[x] = e[x], NEW g, NEW h,
         Recurs(g, f, W), Recurs(h, e, W)
  PROVE  \A s \in SUBSET W : g[s] = h[s]
<1>. DEFINE T == {n \in Nat : \A s \in SUBSET W : Cardinality(s) = n => g[s] = h[s]}
<1>1. 0 \in T
  <2>1. \A s \in SUBSET W : Cardinality(s) = 0 => s = {}
    BY FS_Subset, FS_EmptySet
  <2>. QED BY <2>1 DEF Recurs
<1>2. ASSUME NEW n \in Nat, n \in T PROVE n + 1 \in T
  <2>1. SUFFICES ASSUME NEW s \in SUBSET W, Cardinality(s) = n + 1 PROVE g[s] = h[s]
    BY <1>2
  <2>2. IsFiniteSet(s) /\ s # {}
    BY <2>1, FS_Subset, FS_EmptySet
  <2>3. Pick(s) \in s
    BY <2>2, PickIsIn
  <2>4. Cardinality(s \ {Pick(s)}) = n
    BY <2>1, <2>2, <2>3, OneLess
  <2>5. g[s \ {Pick(s)}] = h[s \ {Pick(s)}] /\ f[Pick(s)] = e[Pick(s)]
    BY <1>2, <2>3, <2>4
  <2>. QED BY <2>2, <2>5 DEF Recurs
<1>. HIDE DEF T
<1>3. \A n \in Nat : n \in T
  BY <1>1, <1>2, CountsUp
<1>4. ASSUME NEW s \in SUBSET W PROVE Cardinality(s) \in Nat
  BY FS_Subset, FS_CardinalityType
<1>. QED BY <1>3, <1>4 DEF T

(* Total is one of these sums.                                              *)
LEMMA TotalSums ==
  ASSUME NEW S, IsFiniteSet(S), NEW f \in [S -> Int]
  PROVE  \E g : SumsUp(g, f, S) /\ Report!Total(f) = g[S]
<1>. DEFINE Is(g) == g = [s \in SUBSET DOMAIN f |->
                 IF s = {} THEN 0 ELSE LET x == CHOOSE x \in s : TRUE IN f[x] + g[s \ {x}]]
<1>1. Report!Total(f) = (CHOOSE g : Is(g))[DOMAIN f]
  BY DEF Report!Total, Report!FoldFunction, Report!FoldFunctionOnSet, Report!MapThenFoldSet
<1>2. PICK h : SumsUp(h, f, S)
  BY SumsExist
<1>3. Is(h)
  BY <1>2 DEF SumsUp, Recurs, Pick
<1>4. Is(CHOOSE g : Is(g))
  BY <1>3
<1>5. PICK g : Is(g) /\ Report!Total(f) = g[DOMAIN f]
  BY <1>1, <1>4
<1>6. SumsUp(g, f, S)
  <2>1. Recurs(g, f, S)
    BY <1>5 DEF Recurs, Pick
  <2>2. Recurs(h, f, S)
    BY <1>2 DEF SumsUp
  <2>3. \A s \in SUBSET S : g[s] = h[s]
    BY <2>1, <2>2, SumsAgree
  <2>4. g \in [SUBSET S -> Int]
    BY <1>2, <1>5, <2>3 DEF SumsUp
  <2>. QED BY <2>1, <2>4 DEF SumsUp
<1>. QED BY <1>5, <1>6

(* Whichever member is taken first, the sum is the same. *)
LEMMA AnyFirst ==
  ASSUME NEW S, IsFiniteSet(S), NEW f \in [S -> Int], NEW g, SumsUp(g, f, S)
  PROVE  \A s \in SUBSET S : \A x \in s : g[s] = f[x] + g[s \ {x}]
<1>. DEFINE T == {n \in Nat : \A s \in SUBSET S : \A x \in s :
                     Cardinality(s) = n => g[s] = f[x] + g[s \ {x}]}
<1>1. 0 \in T
  BY FS_Subset, FS_EmptySet
<1>2. ASSUME NEW n \in Nat, n \in T PROVE n + 1 \in T
  <2>1. SUFFICES ASSUME NEW s \in SUBSET S, NEW x \in s, Cardinality(s) = n + 1
                 PROVE  g[s] = f[x] + g[s \ {x}]
    BY <1>2
  <2>. DEFINE p == Pick(s)
  <2>2. IsFiniteSet(s) /\ p \in s
    BY FS_Subset, PickIsIn
  <2>. HIDE DEF p
  <2>3. g[s] = f[p] + g[s \ {p}]
    BY DEF SumsUp, Recurs, p
  <2>4. CASE p = x
    BY <2>3, <2>4
  <2>5. CASE p # x
    <3>1. Cardinality(s \ {p}) = n /\ Cardinality(s \ {x}) = n
      BY <2>1, <2>2, OneLess
    <3>. DEFINE both == (s \ {p}) \ {x}
    <3>2. g[s \ {p}] = f[x] + g[both]
      BY <1>2, <2>2, <2>5, <3>1
    <3>3. (s \ {x}) \ {p} = both
      OBVIOUS
    <3>4. g[s \ {x}] = f[p] + g[(s \ {x}) \ {p}]
      BY <1>2, <2>2, <2>5, <3>1
    <3>5. f[x] \in Int /\ f[p] \in Int /\ g[both] \in Int
      BY <2>2 DEF SumsUp
    <3>6. g[s \ {x}] = f[p] + g[both]
      BY <3>3, <3>4
    <3>. HIDE DEF both
    <3>. QED BY ONLY <2>3, <3>2, <3>5, <3>6
  <2>. QED BY <2>4, <2>5
<1>. HIDE DEF T
<1>3. \A n \in Nat : n \in T
  BY <1>1, <1>2, CountsUp
<1>4. ASSUME NEW s \in SUBSET S PROVE Cardinality(s) \in Nat
  BY FS_Subset, FS_CardinalityType
<1>. QED BY <1>3, <1>4 DEF T

(* A part of a function. *)
On(f, W) == [i \in W |-> f[i]]

(* Nothing sums to zero.                                                    *)
LEMMA TotalOfNone == ASSUME NEW f PROVE Report!Total(On(f, {})) = 0
<1>1. On(f, {}) \in [{} -> Int] /\ IsFiniteSet({})
  BY FS_EmptySet DEF On
<1>2. PICK g : SumsUp(g, On(f, {}), {}) /\ Report!Total(On(f, {})) = g[{}]
  BY <1>1, TotalSums
<1>. QED BY <1>2 DEF SumsUp, Recurs

(* A sum of whole numbers is a whole number.                                *)
LEMMA TotalType ==
  ASSUME NEW S, IsFiniteSet(S), NEW f \in [S -> Int] PROVE Report!Total(f) \in Int
<1>1. PICK g : SumsUp(g, f, S) /\ Report!Total(f) = g[S]
  BY TotalSums
<1>. QED BY <1>1 DEF SumsUp

(* One more member adds its value. *)
LEMMA TotalPlus ==
  ASSUME NEW S, IsFiniteSet(S), NEW f \in [S -> Int], NEW x \in S
  PROVE  Report!Total(f) = f[x] + Report!Total(On(f, S \ {x}))
<1>. DEFINE W == S \ {x}
<1>1. IsFiniteSet(W) /\ On(f, W) \in [W -> Int]
  BY FS_Subset DEF On
<1>2. PICK g : SumsUp(g, f, S) /\ Report!Total(f) = g[S]
  BY TotalSums
<1>3. PICK h : SumsUp(h, On(f, W), W) /\ Report!Total(On(f, W)) = h[W]
  BY <1>1, TotalSums
<1>4. g[W] = h[W]
  <2>1. Recurs(g, f, W)
    BY <1>2 DEF SumsUp, Recurs
  <2>2. Recurs(h, On(f, W), W)
    BY <1>3 DEF SumsUp
  <2>3. \A y \in W : f[y] = On(f, W)[y]
    BY DEF On
  <2>. HIDE DEF W
  <2>. QED BY <1>1, <2>1, <2>2, <2>3, SumsAgree
<1>5. g[S] = f[x] + g[W]
  BY <1>2, AnyFirst
<1>. QED BY <1>2, <1>3, <1>4, <1>5

(* All of a function is the function.                                       *)
LEMMA OnAll == ASSUME NEW S, NEW f \in [S -> Int] PROVE On(f, S) = f
BY DEF On

(* A part of a function is a function, with a sum of its own.               *)
LEMMA OnType ==
  ASSUME NEW S, IsFiniteSet(S), NEW f \in [S -> Int], NEW T \in SUBSET S
  PROVE  IsFiniteSet(T) /\ On(f, T) \in [T -> Int] /\ Report!Total(On(f, T)) \in Int
<1>1. IsFiniteSet(T) /\ On(f, T) \in [T -> Int]
  BY FS_Subset DEF On
<1>. QED BY <1>1, TotalType

(* A part with one more member has that much more.                          *)
LEMMA TotalAdd ==
  ASSUME NEW S, IsFiniteSet(S), NEW f \in [S -> Int], NEW T \in SUBSET S, NEW x \in S, x \notin T
  PROVE  Report!Total(On(f, T \cup {x})) = f[x] + Report!Total(On(f, T))
<1>. DEFINE W == T \cup {x}
<1>1. W \in SUBSET S /\ x \in W
  OBVIOUS
<1>2. IsFiniteSet(W) /\ On(f, W) \in [W -> Int]
  BY <1>1, OnType
<1>3. On(f, W)[x] = f[x] /\ On(On(f, W), W \ {x}) = On(f, T)
  BY DEF On
<1>. HIDE DEF W
<1>4. Report!Total(On(f, W)) = On(f, W)[x] + Report!Total(On(On(f, W), W \ {x}))
  BY <1>1, <1>2, TotalPlus
<1>. QED BY <1>3, <1>4 DEF W

(* The sum of a part and the sum of the rest. *)
LEMMA TotalParts ==
  ASSUME NEW S, IsFiniteSet(S), NEW f \in [S -> Int], NEW U \in SUBSET S
  PROVE  Report!Total(f) = Report!Total(On(f, U)) + Report!Total(On(f, S \ U))
<1>. DEFINE A == {T \in SUBSET S : Report!Total(f) = Report!Total(On(f, T)) + Report!Total(On(f, S \ T))}
<1>1. {} \in A
  <2>1. Report!Total(On(f, S \ {})) = Report!Total(f) /\ Report!Total(f) \in Int
    BY OnAll, TotalType
  <2>. QED BY <2>1, TotalOfNone
<1>2. ASSUME NEW T \in SUBSET U, NEW x \in U, T \in A, x \notin T PROVE T \cup {x} \in A
  <2>. DEFINE R == (S \ T) \ {x}
  <2>1. Report!Total(On(f, T \cup {x})) = f[x] + Report!Total(On(f, T))
    BY <1>2, TotalAdd
  <2>2. Report!Total(On(f, R \cup {x})) = f[x] + Report!Total(On(f, R))
    BY TotalAdd
  <2>3. R \cup {x} = S \ T /\ S \ (T \cup {x}) = R
    BY <1>2
  <2>4. Report!Total(On(f, T)) \in Int /\ Report!Total(On(f, R)) \in Int /\ f[x] \in Int
    BY OnType
  <2>5. Report!Total(f) = Report!Total(On(f, T)) + (f[x] + Report!Total(On(f, R)))
    BY <1>2, <2>2, <2>3
  <2>6. On(f, S \ (T \cup {x})) = On(f, R)
    BY <2>3
  <2>. HIDE DEF R
  <2>7. Report!Total(f) = Report!Total(On(f, T \cup {x})) + Report!Total(On(f, S \ (T \cup {x})))
    BY ONLY <2>1, <2>4, <2>5, <2>6
  <2>. QED BY <2>7
<1>. HIDE DEF A
<1>3. U \in A
  BY <1>1, <1>2, FS_Subset, GrowsTo
<1>. QED BY <1>3 DEF A

(* Zeros sum to zero.                                                       *)
LEMMA TotalOfZeros ==
  ASSUME NEW S, IsFiniteSet(S), NEW f \in [S -> Int], \A x \in S : f[x] = 0
  PROVE  Report!Total(f) = 0
<1>. DEFINE A == {T \in SUBSET S : Report!Total(On(f, T)) = 0}
<1>1. {} \in A
  BY TotalOfNone
<1>2. ASSUME NEW T \in SUBSET S, NEW x \in S, T \in A, x \notin T PROVE T \cup {x} \in A
  <2>1. Report!Total(On(f, T \cup {x})) = f[x] + Report!Total(On(f, T))
    BY <1>2, TotalAdd
  <2>. QED BY <1>2, <2>1
<1>. HIDE DEF A
<1>3. S \in A
  BY <1>1, <1>2, GrowsTo
<1>. QED BY <1>3, OnAll DEF A

(* The members with one key. *)
Fiber(S, h, k) == {i \in S : h[i] = k}

(* A sum is the sum of the sums of its groups. *)
LEMMA TotalByKey ==
  ASSUME NEW S, IsFiniteSet(S), NEW f \in [S -> Int],
         NEW K, IsFiniteSet(K), NEW h, \A i \in S : h[i] \in K
  PROVE  Report!Total(f) = Report!Total([k \in K |-> Report!Total(On(f, Fiber(S, h, k)))])
<1>. DEFINE GroupSum(T) == [k \in K |-> Report!Total(On(f, Fiber(T, h, k)))]
            A == {T \in SUBSET S : Report!Total(On(f, T)) = Report!Total(GroupSum(T))}
<1>1. \A T \in SUBSET S : GroupSum(T) \in [K -> Int]
  BY OnType DEF Fiber
<1>2. {} \in A
  <2>1. \A k \in K : Fiber({}, h, k) = {}
    BY DEF Fiber
  <2>2. \A k \in K : GroupSum({})[k] = 0
    BY <2>1, TotalOfNone
  <2>3. Report!Total(GroupSum({})) = 0
    BY <1>1, <2>2, TotalOfZeros
  <2>. QED BY <2>3, TotalOfNone
<1>3. ASSUME NEW T \in SUBSET S, NEW x \in S, T \in A, x \notin T PROVE T \cup {x} \in A
  <2>. DEFINE W == T \cup {x}
              g == GroupSum(T)
              e == GroupSum(W)
              c == h[x]
  <2>1. g \in [K -> Int] /\ e \in [K -> Int] /\ c \in K /\ f[x] \in Int
    BY <1>1
  <2>2. e[c] = f[x] + g[c]
    <3>1. Fiber(W, h, c) = Fiber(T, h, c) \cup {x} /\ x \notin Fiber(T, h, c)
      BY <1>3 DEF Fiber
    <3>2. Fiber(T, h, c) \in SUBSET S
      BY DEF Fiber
    <3>3. Report!Total(On(f, Fiber(T, h, c) \cup {x})) = f[x] + Report!Total(On(f, Fiber(T, h, c)))
      BY <3>1, <3>2, TotalAdd
    <3>. QED BY <2>1, <3>1, <3>3
  <2>3. On(e, K \ {c}) = On(g, K \ {c})
    <3>1. \A k \in K \ {c} : Fiber(W, h, k) = Fiber(T, h, k)
      BY DEF Fiber
    <3>2. \A k \in K \ {c} : e[k] = g[k]
      BY <3>1
    <3>. HIDE DEF e, g, c
    <3>. QED BY <3>2 DEF On
  <2>. HIDE DEF e, g, c
  <2>4. Report!Total(e) = e[c] + Report!Total(On(e, K \ {c}))
    BY <2>1, TotalPlus
  <2>5. Report!Total(g) = g[c] + Report!Total(On(g, K \ {c}))
    BY <2>1, TotalPlus
  <2>6. Report!Total(On(g, K \ {c})) \in Int /\ g[c] \in Int
    BY <2>1, OnType
  <2>7. Report!Total(On(f, W)) = f[x] + Report!Total(On(f, T))
    BY <1>3, TotalAdd
  <2>8. Report!Total(On(f, T)) = Report!Total(g)
    BY <1>3 DEF g
  <2>9. Report!Total(On(f, W)) = Report!Total(e)
    BY <2>1, <2>2, <2>3, <2>4, <2>5, <2>6, <2>7, <2>8
  <2>. QED BY <2>9 DEF e
<1>. HIDE DEF A
<1>4. S \in A
  BY <1>2, <1>3, GrowsTo
<1>. QED BY <1>4, OnAll DEF A

(* Numbers that are not negative have such a sum, and a part of them no more.*)
LEMMA TotalNat ==
  ASSUME NEW S, IsFiniteSet(S), NEW f \in [S -> Nat] PROVE Report!Total(f) \in Nat
<1>. DEFINE A == {T \in SUBSET S : Report!Total(On(f, T)) \in Nat}
<1>0. f \in [S -> Int]
  OBVIOUS
<1>1. {} \in A
  BY TotalOfNone
<1>2. ASSUME NEW T \in SUBSET S, NEW x \in S, T \in A, x \notin T PROVE T \cup {x} \in A
  <2>1. Report!Total(On(f, T \cup {x})) = f[x] + Report!Total(On(f, T))
    BY <1>0, <1>2, TotalAdd
  <2>2. f[x] \in Nat /\ Report!Total(On(f, T)) \in Nat
    BY <1>2
  <2>. QED BY <2>1, <2>2
<1>. HIDE DEF A
<1>3. S \in A
  BY <1>1, <1>2, GrowsTo
<1>. QED BY <1>0, <1>3, OnAll DEF A

(* A part of what is not negative sums to no more than the whole.           *)
LEMMA TotalOfPart ==
  ASSUME NEW S, IsFiniteSet(S), NEW f \in [S -> Nat], NEW U \in SUBSET S
  PROVE  Report!Total(On(f, U)) <= Report!Total(f)
<1>1. f \in [S -> Int] /\ S \ U \in SUBSET S
  OBVIOUS
<1>2. Report!Total(f) = Report!Total(On(f, U)) + Report!Total(On(f, S \ U))
  BY <1>1, TotalParts
<1>3. Report!Total(On(f, S \ U)) \in Nat
  <2>1. IsFiniteSet(S \ U) /\ On(f, S \ U) \in [S \ U -> Nat]
    BY FS_Subset DEF On
  <2>. QED BY <2>1, TotalNat
<1>4. Report!Total(On(f, U)) \in Int
  BY <1>1, OnType
<1>. QED BY <1>2, <1>3, <1>4

(* One more of the same.                                                    *)
LEMMA OneMoreTime ==
  ASSUME NEW c \in Int, NEW n \in Nat PROVE c * (n + 1) = c * n + c /\ c * n \in Int
OBVIOUS

(* A sum of differences from one number. *)
LEMMA TotalLess ==
  ASSUME NEW S, IsFiniteSet(S), NEW f \in [S -> Int], NEW c \in Int, NEW T \in SUBSET S
  PROVE  Report!Total(On([i \in S |-> f[i] - c], T)) = Report!Total(On(f, T)) - c * Cardinality(T)
<1>. DEFINE e == [i \in S |-> f[i] - c]
            A == {U \in SUBSET S : Report!Total(On(e, U)) = Report!Total(On(f, U)) - c * Cardinality(U)}
<1>0. e \in [S -> Int] /\ \A x \in S : e[x] = f[x] - c
  OBVIOUS
<1>. HIDE DEF e
<1>1. {} \in A
  <2>1. Cardinality({}) = 0 /\ c * 0 = 0
    BY FS_EmptySet
  <2>. QED BY <2>1, TotalOfNone
<1>2. ASSUME NEW U \in SUBSET T, NEW x \in T, U \in A, x \notin U PROVE U \cup {x} \in A
  <2>1. Report!Total(On(e, U \cup {x})) = e[x] + Report!Total(On(e, U))
    BY <1>0, <1>2, TotalAdd
  <2>2. Report!Total(On(f, U \cup {x})) = f[x] + Report!Total(On(f, U))
    BY <1>2, TotalAdd
  <2>3. Cardinality(U \cup {x}) = Cardinality(U) + 1 /\ Cardinality(U) \in Nat
    BY <1>2, FS_Subset, FS_AddElement, FS_CardinalityType
  <2>4. f[x] \in Int /\ Report!Total(On(f, U)) \in Int /\ Report!Total(On(e, U)) \in Int
    BY <1>0, OnType
  <2>5. c * (Cardinality(U) + 1) = c * Cardinality(U) + c /\ c * Cardinality(U) \in Int
    BY <2>3, OneMoreTime
  <2>6. Report!Total(On(e, U)) = Report!Total(On(f, U)) - c * Cardinality(U)
    BY <1>2
  <2>7. e[x] = f[x] - c
    BY <1>0
  <2>. DEFINE m == c * Cardinality(U)
  <2>8. c * Cardinality(U \cup {x}) = m + c /\ m \in Int
    BY <2>3, <2>5
  <2>9. Report!Total(On(e, U)) = Report!Total(On(f, U)) - m
    BY <2>6
  <2>. HIDE DEF m
  <2>10. Report!Total(On(e, U \cup {x})) = Report!Total(On(f, U \cup {x})) - c * Cardinality(U \cup {x})
    BY ONLY <2>1, <2>2, <2>4, <2>7, <2>8, <2>9, c \in Int
  <2>. QED BY <2>10
<1>. HIDE DEF A
<1>3. T \in A
  BY <1>1, <1>2, FS_Subset, GrowsTo
<1>. QED BY <1>3 DEF A, e

(* Members are counted by ones. *)
LEMMA TotalOfOnes ==
  ASSUME NEW S, IsFiniteSet(S) PROVE Report!Total([i \in S |-> 1]) = Cardinality(S)
<1>. DEFINE f == [i \in S |-> 1]
            A == {T \in SUBSET S : Report!Total(On(f, T)) = Cardinality(T)}
<1>0. f \in [S -> Int] /\ \A x \in S : f[x] = 1
  OBVIOUS
<1>. HIDE DEF f
<1>1. {} \in A
  BY TotalOfNone, FS_EmptySet
<1>2. ASSUME NEW T \in SUBSET S, NEW x \in S, T \in A, x \notin T PROVE T \cup {x} \in A
  <2>1. Report!Total(On(f, T \cup {x})) = f[x] + Report!Total(On(f, T))
    BY <1>0, <1>2, TotalAdd
  <2>2. Cardinality(T \cup {x}) = Cardinality(T) + 1 /\ Cardinality(T) \in Nat
    BY <1>2, FS_Subset, FS_AddElement, FS_CardinalityType
  <2>3. f[x] = 1 /\ Report!Total(On(f, T)) = Cardinality(T)
    BY <1>0, <1>2
  <2>. QED BY <2>1, <2>2, <2>3
<1>. HIDE DEF A
<1>3. S \in A
  BY <1>1, <1>2, GrowsTo
<1>4. On(f, S) = f
  BY <1>0, OnAll
<1>. QED BY <1>3, <1>4 DEF A, f

(* A finite set has finitely many images.                                   *)
LEMMA ImageIsFinite ==
  ASSUME NEW S, IsFiniteSet(S), NEW g PROVE IsFiniteSet({g[x] : x \in S})
<1>. DEFINE A == {T \in SUBSET S : IsFiniteSet({g[x] : x \in T})}
<1>1. {} \in A
  <2>1. {g[x] : x \in {}} = {}
    OBVIOUS
  <2>. QED BY <2>1, FS_EmptySet
<1>2. ASSUME NEW T \in SUBSET S, NEW x \in S, T \in A, x \notin T PROVE T \cup {x} \in A
  <2>1. {g[y] : y \in T \cup {x}} = {g[y] : y \in T} \cup {g[x]}
    OBVIOUS
  <2>2. IsFiniteSet({g[y] : y \in T})
    BY <1>2
  <2>3. IsFiniteSet({g[y] : y \in T} \cup {g[x]})
    BY <2>2, FS_AddElement
  <2>4. IsFiniteSet({g[y] : y \in T \cup {x}})
    BY <2>1, <2>3
  <2>. QED BY <2>4
<1>. HIDE DEF A
<1>3. S \in A
  BY <1>1, <1>2, GrowsTo
<1>. QED BY <1>3 DEF A

(* A finite set has a least member.                                         *)
LEMMA LeastOf ==
  ASSUME NEW S, IsFiniteSet(S), S # {}, NEW v \in [S -> Int]
  PROVE  \E x \in S : \A y \in S : v[x] <= v[y]
<1>. DEFINE A == {T \in SUBSET S : T # {} => \E x \in T : \A y \in T : v[x] <= v[y]}
<1>1. {} \in A
  OBVIOUS
<1>2. ASSUME NEW T \in SUBSET S, NEW x \in S, T \in A, x \notin T PROVE T \cup {x} \in A
  <2>1. CASE T = {}
    BY <2>1
  <2>2. CASE T # {}
    <3>1. PICK z \in T : \A y \in T : v[z] <= v[y]
      BY <1>2, <2>2
    <3>2. CASE v[z] <= v[x]
      BY <3>1, <3>2
    <3>3. CASE ~(v[z] <= v[x])
      <4>1. \A y \in T \cup {x} : v[x] <= v[y]
        <5>. SUFFICES ASSUME NEW y \in T PROVE v[x] <= v[y]
          OBVIOUS
        <5>1. v[z] <= v[y] /\ v[x] \in Int /\ v[y] \in Int /\ v[z] \in Int
          BY <3>1
        <5>. QED BY <3>3, <5>1
      <4>. QED BY <4>1
    <3>. QED BY <3>2, <3>3
  <2>. QED BY <2>1, <2>2
<1>. HIDE DEF A
<1>3. S \in A
  BY <1>1, <1>2, GrowsTo
<1>. QED BY <1>3 DEF A

(* Min is the least member.                                                 *)
LEMMA MinOf ==
  ASSUME NEW S, IsFiniteSet(S), S # {}, S \subseteq Int
  PROVE  Report!Min(S) \in S /\ \A y \in S : Report!Min(S) <= y
<1>1. \E x \in S : \A y \in S : [z \in S |-> z][x] <= [z \in S |-> z][y]
  <2>. DEFINE v == [z \in S |-> z]
  <2>1. v \in [S -> Int]
    OBVIOUS
  <2>. HIDE DEF v
  <2>2. \E x \in S : \A y \in S : v[x] <= v[y]
    BY <2>1, LeastOf
  <2>. QED BY <2>2 DEF v
<1>2. \E x \in S : \A y \in S : x <= y
  BY <1>1
<1>. QED BY <1>2 DEF Report!Min

-----------------------------------------------------------------------------
(* Payments carry numbers to be added: what they are worth, one each, and  *)
(* one each if they have an amount at all.                                 *)
Money == [i \in Report!All |-> IF settled[i].amount # Report!Unpriced THEN settled[i].amount ELSE 0]
Ones == [i \in Report!All |-> 1]
Readable == [i \in Report!All |-> IF settled[i].amount # Report!Unpriced THEN 1 ELSE 0]

(* What the invariant says of a payment, whatever was settled.              *)
LEMMA RowFacts ==
  ASSUME Report!RevenueAssumption, Report!RevenueInv
  PROVE  /\ IsFiniteSet(Report!All) /\ Report!All \subseteq Nat /\ today \in Int /\ today \in Nows
         /\ \A i \in Report!All : settled[i].amount \in Nat \cup {Report!Unpriced}
            /\ settled[i].ts \in Int
         /\ Money \in [Report!All -> Nat] /\ Ones \in [Report!All -> Nat]
            /\ Readable \in [Report!All -> Nat]
<1>1. Len(settled) \in Nat /\ Report!All = 1 .. Len(settled)
  BY DEF Report!RevenueInv, Report!All
<1>2. IsFiniteSet(Report!All) /\ Report!All \subseteq Nat
  BY <1>1, FS_Interval
<1>3. today \in Nows /\ today \in Int /\ Ages \subseteq Int /\ Prices \subseteq Nat
  BY DEF Report!RevenueInv, Report!RevenueAssumption
<1>4. \A i \in Report!All : settled[i] \in Report!Rows(today)
  BY <1>1 DEF Report!RevenueInv
<1>5. ASSUME NEW entry \in Report!Rows(today)
      PROVE  entry.amount \in Nat \cup {Report!Unpriced} /\ entry.ts \in Int
  <2>1. entry.amount \in Prices \cup {Report!Unpriced} /\ entry.ts \in {today - age : age \in Ages}
    BY DEF Report!Rows
  <2>2. entry.amount \in Nat \cup {Report!Unpriced}
    BY <1>3, <2>1
  <2>3. PICK age \in Ages : entry.ts = today - age
    BY <2>1
  <2>4. age \in Int
    BY <1>3
  <2>. QED BY <1>3, <2>2, <2>3, <2>4
<1>6. \A i \in Report!All : settled[i].amount \in Nat \cup {Report!Unpriced}
      /\ settled[i].ts \in Int
  BY <1>4, <1>5
<1>7. Money \in [Report!All -> Nat] /\ Ones \in [Report!All -> Nat]
      /\ Readable \in [Report!All -> Nat]
  BY <1>6 DEF Money, Ones, Readable, Report!Unpriced
<1>. QED BY <1>2, <1>3, <1>6, <1>7

(* A part of a part.                                                        *)
LEMMA OnOn ==
  ASSUME NEW f, NEW S, NEW T \in SUBSET S PROVE On(On(f, S), T) = On(f, T)
BY DEF On

(* What is counted of some payments is a sum over them. *)
LEMMA Counted ==
  ASSUME Report!RevenueAssumption, Report!RevenueInv, NEW S \in SUBSET Report!All
  PROVE  /\ IsFiniteSet(S)
         /\ Report!Amount(S) = Report!Total(On(Money, S))
            /\ Report!Cardinality(S) = Report!Total(On(Ones, S))
         /\ Report!Cardinality(Report!Priced(S)) = Report!Total(On(Readable, S))
         /\ Report!Amount(S) \in Nat /\ Report!Cardinality(S) \in Nat
            /\ Report!Cardinality(Report!Priced(S)) \in Nat
<1>. USE RowFacts
<1>1. IsFiniteSet(S) /\ Report!Priced(S) \in SUBSET S /\ IsFiniteSet(Report!Priced(S))
  BY FS_Subset DEF Report!Priced
<1>2. /\ On(Money, S) \in [S -> Nat] /\ On(Readable, S) \in [S -> Nat]
      /\ On(Money, S) \in [S -> Int] /\ On(Readable, S) \in [S -> Int]
  BY DEF On
<1>3. ASSUME NEW f \in [S -> Int], \A i \in S \ Report!Priced(S) : f[i] = 0
      PROVE  Report!Total(f) = Report!Total(On(f, Report!Priced(S)))
  <2>1. Report!Total(f) = Report!Total(On(f, Report!Priced(S))) + Report!Total(On(f, S \ Report!Priced(S)))
    BY <1>1, TotalParts
  <2>2. Report!Total(On(f, S \ Report!Priced(S))) = 0
    <3>. DEFINE R == S \ Report!Priced(S)
    <3>1. IsFiniteSet(R) /\ On(f, R) \in [R -> Int] /\ \A i \in R : On(f, R)[i] = 0
      BY <1>1, <1>3, FS_Subset DEF On
    <3>. QED BY <3>1, TotalOfZeros
  <2>3. Report!Total(On(f, Report!Priced(S))) \in Int
    BY <1>1, OnType
  <2>. QED BY <2>1, <2>2, <2>3
<1>4. Report!Amount(S) = Report!Total(On(Money, S))
  <2>1. \A i \in S \ Report!Priced(S) : On(Money, S)[i] = 0
    BY DEF On, Money, Report!Priced
  <2>2. On(On(Money, S), Report!Priced(S)) = [i \in Report!Priced(S) |-> settled[i].amount]
    BY <1>1 DEF On, Money, Report!Priced
  <2>3. Report!Total(On(Money, S)) = Report!Total(On(On(Money, S), Report!Priced(S)))
    BY <1>2, <1>3, <2>1
  <2>. QED BY <2>2, <2>3 DEF Report!Amount
<1>5. Report!Cardinality(S) = Report!Total(On(Ones, S))
  <2>1. On(Ones, S) = [i \in S |-> 1]
    BY DEF On, Ones
  <2>. QED BY <1>1, <2>1, TotalOfOnes, ReportCount
<1>6. Report!Cardinality(Report!Priced(S)) = Report!Total(On(Readable, S))
  <2>1. \A i \in S \ Report!Priced(S) : On(Readable, S)[i] = 0
    BY DEF On, Readable, Report!Priced
  <2>2. On(On(Readable, S), Report!Priced(S)) = [i \in Report!Priced(S) |-> 1]
    BY <1>1 DEF On, Readable, Report!Priced
  <2>3. Report!Total(On(Readable, S)) = Report!Total(On(On(Readable, S), Report!Priced(S)))
    BY <1>2, <1>3, <2>1
  <2>. QED BY <1>1, <2>2, <2>3, TotalOfOnes, ReportCount
<1>7. Report!Total(On(Money, S)) \in Nat
  BY <1>1, <1>2, TotalNat
<1>8. Report!Cardinality(S) \in Nat /\ Report!Cardinality(Report!Priced(S)) \in Nat
  BY <1>1, FS_CardinalityType, ReportCount
<1>. QED BY <1>1, <1>4, <1>5, <1>6, <1>7, <1>8

-----------------------------------------------------------------------------
(* Groups.  A key puts payments into groups; if no two groups look alike    *)
(* once they are summed, the sums of some of the groups add up to the sum   *)
(* of the payments in them.                                                 *)
Group(key, k) == {i \in DOMAIN key : key[i] = k}
LooksOf(key) == [i \in DOMAIN key |-> Report!Aggregate(Group(key, key[i]))]
Tells(key) == \A i, j \in DOMAIN key : LooksOf(key)[i] = LooksOf(key)[j] => key[i] = key[j]
In(key, A) == {i \in DOMAIN key : LooksOf(key)[i] \in A}

(* What some groups sum up to is what the payments in them do.              *)
LEMMA GroupSums ==
  ASSUME Report!RevenueAssumption, Report!RevenueInv, NEW key, DOMAIN key \in SUBSET Report!All,
         Tells(key),
         NEW A \in SUBSET Report!GroupsBy(key)
  PROVE  /\ Report!SumOf(A, "total") = Report!Amount(In(key, A))
         /\ Report!SumOf(A, "calls") = Report!Cardinality(In(key, A))
         /\ Report!SumOf(A, "priced") = Report!Cardinality(Report!Priced(In(key, A)))
<1>. DEFINE S == DOMAIN key
            h == LooksOf(key)
            W == In(key, A)
<1>1. /\ W \in SUBSET Report!All /\ IsFiniteSet(S) /\ IsFiniteSet(W)
      /\ \A i \in W : h[i] \in A
  BY RowFacts, FS_Subset DEF In
<1>2. IsFiniteSet(A)
  <2>1. Report!GroupsBy(key) \subseteq {h[i] : i \in S}
    BY DEF Report!GroupsBy, LooksOf, Group
  <2>2. IsFiniteSet({h[i] : i \in S})
    <3>. HIDE DEF h, S
    <3>. QED BY <1>1, ImageIsFinite
  <2>. QED BY <2>1, <2>2, FS_Subset
<1>3. ASSUME NEW a \in A
      PROVE  \E k : Fiber(W, h, a) = Group(key, k) /\ a = Report!Aggregate(Group(key, k))
  <2>1. PICK i \in S : a = Report!Aggregate(Group(key, key[i]))
    BY DEF Report!GroupsBy, Group
  <2>2. h[i] = a
    BY <2>1 DEF LooksOf
  <2>3. ASSUME NEW j \in S PROVE h[j] = a <=> key[j] = key[i]
    BY <2>1, <2>2 DEF Tells, LooksOf
  <2>4. Fiber(W, h, a) = Group(key, key[i])
    BY <2>3 DEF Fiber, In, Group
  <2>. QED BY <2>1, <2>4
<1>4. ASSUME NEW a \in A
      PROVE  /\ a.total = Report!Total(On(Money, Fiber(W, h, a)))
             /\ a.calls = Report!Total(On(Ones, Fiber(W, h, a)))
             /\ a.priced = Report!Total(On(Readable, Fiber(W, h, a)))
  <2>1. PICK k : Fiber(W, h, a) = Group(key, k) /\ a = Report!Aggregate(Group(key, k))
    BY <1>3
  <2>. DEFINE G == Group(key, k)
  <2>2. G \in SUBSET Report!All
    BY DEF Group
  <2>3. a.total = Report!Amount(G) /\ a.calls = Report!Cardinality(G)
        /\ a.priced = Report!Cardinality(Report!Priced(G))
    BY <2>1 DEF Report!Aggregate
  <2>. HIDE DEF G, h, W
  <2>. QED BY <2>1, <2>2, <2>3, Counted DEF G
<1>5. ASSUME NEW w \in [Report!All -> Int]
      PROVE  Report!Total(On(w, W)) = Report!Total([a \in A |-> Report!Total(On(w, Fiber(W, h, a)))])
  <2>. DEFINE f == On(w, W)
  <2>1. f \in [W -> Int]
    BY <1>1 DEF On
  <2>2. \A a : On(f, Fiber(W, h, a)) = On(w, Fiber(W, h, a))
    BY DEF On, Fiber
  <2>. HIDE DEF f, h, W
  <2>3. Report!Total(f) = Report!Total([a \in A |-> Report!Total(On(f, Fiber(W, h, a)))])
    BY <1>1, <1>2, <2>1, TotalByKey
  <2>. QED BY <2>2, <2>3 DEF f
<1>. HIDE DEF h, W
<1>6. /\ Report!SumOf(A, "total") = Report!Total(On(Money, W))
         /\ Report!SumOf(A, "calls") = Report!Total(On(Ones, W))
      /\ Report!SumOf(A, "priced") = Report!Total(On(Readable, W))
  <2>1. /\ [a \in A |-> a.total] = [a \in A |-> Report!Total(On(Money, Fiber(W, h, a)))]
        /\ [a \in A |-> a.calls] = [a \in A |-> Report!Total(On(Ones, Fiber(W, h, a)))]
        /\ [a \in A |-> a.priced] = [a \in A |-> Report!Total(On(Readable, Fiber(W, h, a)))]
    BY <1>4
  <2>2. Money \in [Report!All -> Int] /\ Ones \in [Report!All -> Int]
        /\ Readable \in [Report!All -> Int]
    BY RowFacts
  <2>. QED BY <1>5, <2>1, <2>2 DEF Report!SumOf
<1>. QED BY <1>1, <1>6, Counted DEF W

-----------------------------------------------------------------------------
(* The breakdown by route.  Whatever groups it is folded from, it is what   *)
(* the payments themselves say (SaysOf).                                    *)
ClassOf(i) == <<Report!OrBlank(settled[i].method), settled[i].route>>
Mine(S) == {i \in S : Report!Attributed(settled[i].route)}
OfClass(S, c) == {i \in Mine(S) : ClassOf(i) = c}
BucketOf(S) ==
  [calls |-> Report!Cardinality(S), priced |-> Report!Cardinality(Report!Priced(S)), total |-> Report!Amount(S),
   average |-> IF Report!Cardinality(Report!Priced(S)) > 0
               THEN Report!Amount(S) \div Report!Cardinality(Report!Priced(S))
               ELSE Report!Unpriced]
SaysOf(S) ==
  [routes |-> [c \in {ClassOf(i) : i \in Mine(S)} |-> BucketOf(OfClass(S, c))],
   unattributed |-> BucketOf(S \ Mine(S)), total |-> Report!Amount(S),
   attributedTotal |-> Report!Amount(Mine(S)),
   unattributedTotal |-> Report!Amount(S) - Report!Amount(Mine(S)),
   calls |-> Report!Cardinality(S)]

(* A group says of the route of its payments what they say.                 *)
RouteKey(a) == <<Report!OrBlank(a.method), a.route>>
Faithful(key) ==
  \A i \in DOMAIN key :
    /\ Report!Attributed(LooksOf(key)[i].route) <=> Report!Attributed(settled[i].route)
    /\ Report!Attributed(settled[i].route) => RouteKey(LooksOf(key)[i]) = ClassOf(i)

(* The classes of the attributed payments sum up to them.                   *)
LEMMA ClassesAddUp ==
  ASSUME Report!RevenueAssumption, Report!RevenueInv, NEW S \in SUBSET Report!All
  PROVE  Report!Amount(Mine(S)) = Report!Total([c \in {ClassOf(i) : i \in Mine(S)} |-> Report!Amount(OfClass(S, c))])
<1>. DEFINE M == Mine(S)
            K == {ClassOf(i) : i \in M}
            h == [i \in M |-> ClassOf(i)]
            f == On(Money, M)
<1>1. M \in SUBSET Report!All /\ \A c : OfClass(S, c) \in SUBSET Report!All
  BY DEF Mine, OfClass
<1>2. IsFiniteSet(M) /\ f \in [M -> Int] /\ Report!Amount(M) = Report!Total(f)
  <2>1. Money \in [Report!All -> Int]
    BY RowFacts
  <2>2. f \in [M -> Int]
    BY <1>1, <2>1 DEF On
  <2>3. IsFiniteSet(M) /\ Report!Amount(M) = Report!Total(f)
    BY <1>1, Counted
  <2>. QED BY <2>2, <2>3
<1>3. IsFiniteSet(K) /\ \A i \in M : h[i] \in K
  <2>1. K = {h[i] : i \in M}
    OBVIOUS
  <2>. HIDE DEF h, K, M
  <2>. QED BY <1>2, <2>1, ImageIsFinite
<1>4. \A c : On(f, Fiber(M, h, c)) = On(Money, OfClass(S, c))
  <2>1. \A c : Fiber(M, h, c) = OfClass(S, c)
    BY DEF Fiber, OfClass
  <2>. QED BY <2>1 DEF On, OfClass
<1>5. Report!Total(f) = Report!Total([c \in K |-> Report!Total(On(f, Fiber(M, h, c)))])
  <2>. HIDE DEF f, h, K, M
  <2>. QED BY <1>2, <1>3, TotalByKey
<1>6. \A c : Report!Total(On(f, Fiber(M, h, c))) = Report!Amount(OfClass(S, c))
  BY <1>1, <1>4, Counted
<1>. HIDE DEF f, h, K, M
<1>7. [c \in K |-> Report!Total(On(f, Fiber(M, h, c)))] = [c \in K |-> Report!Amount(OfClass(S, c))]
  BY <1>6
<1>. QED BY <1>2, <1>5, <1>7 DEF K, M

(* From any groups that tell classes apart, the breakdown is what the       *)
(* payments say.                                                            *)
LEMMA BreakdownIs ==
  ASSUME Report!RevenueAssumption, Report!RevenueInv, NEW key, DOMAIN key \in SUBSET Report!All,
         Tells(key), Faithful(key)
  PROVE  Report!RouteBreakdownFromAggregates(Report!GroupsBy(key)) = SaysOf(DOMAIN key)
<1>. DEFINE S == DOMAIN key
            A == Report!GroupsBy(key)
            at == {a \in A : Report!Attributed(a.route)}
            rest == A \ at
            of(c) == {a \in at : RouteKey(a) = c}
            keys == {RouteKey(a) : a \in at}
<1>1. /\ \A i \in S : LooksOf(key)[i] \in A
      /\ \A a \in A : \E i \in S : a = LooksOf(key)[i]
  BY DEF Report!GroupsBy, LooksOf, Group
<1>2. In(key, A) = S /\ In(key, at) = Mine(S) /\ In(key, rest) = S \ Mine(S)
  BY <1>1 DEF In, Mine, Faithful
<1>3. \A c : In(key, of(c)) = OfClass(S, c)
  BY <1>1, <1>2 DEF In, Mine, OfClass, Faithful
<1>4. keys = {ClassOf(i) : i \in Mine(S)}
  <2>1. ASSUME NEW a \in at PROVE \E i \in Mine(S) : RouteKey(a) = ClassOf(i)
    <3>1. PICK i \in S : a = LooksOf(key)[i]
      BY <1>1
    <3>. QED BY <3>1 DEF Faithful, Mine
  <2>2. ASSUME NEW i \in Mine(S) PROVE \E a \in at : RouteKey(a) = ClassOf(i)
    <3>1. LooksOf(key)[i] \in at /\ RouteKey(LooksOf(key)[i]) = ClassOf(i)
      BY <1>1 DEF Faithful, Mine
    <3>. QED BY <3>1
  <2>. QED BY <2>1, <2>2
<1>5. ASSUME NEW B \in SUBSET A PROVE Report!Bucket(B) = BucketOf(In(key, B))
  BY GroupSums DEF Report!Bucket, BucketOf
<1>6. Report!Bucket(rest) = BucketOf(S \ Mine(S))
      /\ \A c : Report!Bucket(of(c)) = BucketOf(OfClass(S, c))
  BY <1>2, <1>3, <1>5
<1>7. Report!SumOf(A, "total") = Report!Amount(S)
      /\ Report!SumOf(A, "calls") = Report!Cardinality(S)
  BY <1>2, GroupSums
<1>. DEFINE buckets == [c \in keys |-> Report!Bucket(of(c))]
<1>8. buckets = [c \in {ClassOf(i) : i \in Mine(S)} |-> BucketOf(OfClass(S, c))]
  BY <1>4, <1>6
<1>9. Report!Total([k \in DOMAIN buckets |-> buckets[k].total]) = Report!Amount(Mine(S))
  <2>1. DOMAIN buckets = {ClassOf(i) : i \in Mine(S)}
    BY <1>4
  <2>2. \A k \in DOMAIN buckets : buckets[k].total = Report!Amount(OfClass(S, k))
    <3>1. ASSUME NEW k \in DOMAIN buckets PROVE buckets[k] = BucketOf(OfClass(S, k))
      BY <1>6
    <3>2. \A k : BucketOf(OfClass(S, k)).total = Report!Amount(OfClass(S, k))
      BY DEF BucketOf
    <3>. HIDE DEF buckets
    <3>. QED BY <3>1, <3>2
  <2>. HIDE DEF buckets
  <2>3. [k \in DOMAIN buckets |-> buckets[k].total]
          = [c \in {ClassOf(i) : i \in Mine(S)} |-> Report!Amount(OfClass(S, c))]
    BY <2>1, <2>2
  <2>. QED BY <2>3, ClassesAddUp
<1>10. Report!RouteBreakdownFromAggregates(A) =
         [routes |-> buckets, unattributed |-> Report!Bucket(rest), total |-> Report!SumOf(A, "total"),
          attributedTotal |-> Report!Total([k \in DOMAIN buckets |-> buckets[k].total]),
          unattributedTotal |-> Report!SumOf(A, "total")
                                  - Report!Total([k \in DOMAIN buckets |-> buckets[k].total]),
          calls |-> Report!SumOf(A, "calls")]
  <2>. HIDE DEF A
  <2>. QED BY DEF Report!RouteBreakdownFromAggregates, RouteKey
<1>. HIDE DEF A, buckets, rest
<1>. QED BY <1>6, <1>7, <1>8, <1>9, <1>10 DEF SaysOf, A

(* A group looks like the first of its payments. *)
LEMMA LooksLikeFirst ==
  ASSUME Report!RevenueAssumption, Report!RevenueInv, NEW key, DOMAIN key \in SUBSET Report!All,
         NEW i \in DOMAIN key
  PROVE  \E m \in DOMAIN key : /\ key[m] = key[i]
                               /\ LooksOf(key)[i].method = settled[m].method
                               /\ LooksOf(key)[i].route = settled[m].route
<1>. DEFINE G == Group(key, key[i])
            m == Report!Min(G)
<1>1. G \in SUBSET Report!All /\ i \in G
  BY DEF Group
<1>2. IsFiniteSet(G) /\ G # {} /\ G \subseteq Int
  BY <1>1, RowFacts, FS_Subset
<1>3. m \in G
  <2>. HIDE DEF G
  <2>. QED BY <1>2, MinOf
<1>4. LooksOf(key)[i].method = settled[m].method /\ LooksOf(key)[i].route = settled[m].route
  BY DEF LooksOf, Report!Aggregate
<1>. QED BY <1>3, <1>4 DEF Group

(* So it is from the groups of Postgres ...                                 *)
LEMMA RowsSay ==
  ASSUME Report!RevenueAssumption, Report!RevenueInv, NEW S \in SUBSET Report!All
  PROVE  Report!RouteBreakdownFromAggregates(Report!RouteRows(S)) = SaysOf(S)
<1>. DEFINE key == [i \in S |-> <<settled[i].method, settled[i].route>>]
<1>1. DOMAIN key = S
  OBVIOUS
<1>2. ASSUME NEW i \in S
      PROVE  /\ LooksOf(key)[i].method = settled[i].method
             /\ LooksOf(key)[i].route = settled[i].route
  <2>1. PICK m \in S : /\ key[m] = key[i]
                       /\ LooksOf(key)[i].method = settled[m].method
                       /\ LooksOf(key)[i].route = settled[m].route
    <3>. HIDE DEF key
    <3>. QED BY <1>1, LooksLikeFirst
  <2>. QED BY <2>1
<1>3. Tells(key) /\ Faithful(key)
  BY <1>2 DEF Tells, Faithful, RouteKey, ClassOf
<1>4. Report!RouteRows(S) = Report!GroupsBy(key)
  BY DEF Report!RouteRows
<1>. HIDE DEF key
<1>. QED BY <1>1, <1>3, <1>4, BreakdownIs

(* ... and from those of the browser, which puts all that has no route      *)
(* together.                                                                *)
LEMMA RawSays ==
  ASSUME Report!RevenueAssumption, Report!RevenueInv, NEW S \in SUBSET Report!All
  PROVE  Report!RouteBreakdownFromAggregates(Report!RawGroups(S)) = SaysOf(S)
<1>. DEFINE key == [i \in S |-> IF Report!Attributed(settled[i].route)
                                THEN <<Report!OrBlank(settled[i].method), settled[i].route>>
                                ELSE <<Report!Blank, Report!None>>]
<1>1. DOMAIN key = S
  OBVIOUS
<1>2. ASSUME NEW i \in S, NEW m \in S, key[m] = key[i]
      PROVE  /\ Report!Attributed(settled[m].route) <=> Report!Attributed(settled[i].route)
             /\ Report!Attributed(settled[i].route) => ClassOf(m) = ClassOf(i)
  BY <1>2 DEF Report!Attributed, ClassOf
<1>3. ASSUME NEW i \in S
      PROVE  /\ Report!Attributed(LooksOf(key)[i].route) <=> Report!Attributed(settled[i].route)
             /\ Report!Attributed(settled[i].route) => RouteKey(LooksOf(key)[i]) = ClassOf(i)
  <2>1. PICK m \in S : /\ key[m] = key[i]
                       /\ LooksOf(key)[i].method = settled[m].method
                       /\ LooksOf(key)[i].route = settled[m].route
    <3>. HIDE DEF key
    <3>. QED BY <1>1, LooksLikeFirst
  <2>. QED BY <1>2, <2>1 DEF RouteKey, ClassOf
<1>4. Faithful(key)
  BY <1>3 DEF Faithful
<1>5. Tells(key)
  <2>1. SUFFICES ASSUME NEW i \in S, NEW j \in S, LooksOf(key)[i] = LooksOf(key)[j]
                 PROVE  key[i] = key[j]
    BY DEF Tells
  <2>2. Report!Attributed(settled[i].route) <=> Report!Attributed(settled[j].route)
    BY <1>3, <2>1
  <2>3. Report!Attributed(settled[i].route) => ClassOf(i) = ClassOf(j)
    BY <1>3, <2>1, <2>2
  <2>. QED BY <2>2, <2>3 DEF ClassOf
<1>6. Report!RawGroups(S) = Report!GroupsBy(key)
  BY DEF Report!RawGroups
<1>. HIDE DEF key
<1>. QED BY <1>1, <1>4, <1>5, <1>6, BreakdownIs

-----------------------------------------------------------------------------
(* Days and weeks.  Both sorts of bucket begin at the multiples of one step *)
(* from one moment, so a bucket is on the chart exactly if it begins        *)
(* between the first one and the last.                                      *)

(* Multiples of one step are a step apart or more.                          *)
LEMMA TimesMore ==
  ASSUME NEW D \in Nat \ {0}, NEW p \in Int, NEW q \in Int
  PROVE  /\ p * D \in Int /\ q * D \in Int /\ (p + 1) * D = p * D + D
         /\ (p - q) * D = p * D - q * D /\ (p + q) * D = p * D + q * D
         /\ p < q => p * D + D <= q * D
<1>1. p * D \in Int /\ q * D \in Int /\ (p + 1) * D = p * D + D
      /\ (p - q) * D = p * D - q * D /\ (p + q) * D = p * D + q * D
  OBVIOUS
<1>2. ASSUME p < q PROVE p * D + D <= q * D
  <2>1. \A k \in Nat : k * D >= 0
    OBVIOUS
  <2>2. q - (p + 1) \in Nat
    BY <1>2
  <2>3. (q - (p + 1)) * D >= 0
    BY <2>1, <2>2
  <2>4. (q - (p + 1)) * D = q * D - (p * D + D)
    OBVIOUS
  <2>. QED BY <1>1, <2>3, <2>4
<1>. QED BY <1>1, <1>2

(* Division with a remainder.                                               *)
LEMMA Divided ==
  ASSUME NEW D \in Nat \ {0}, NEW t \in Int
  PROVE  /\ t \div D \in Int /\ t % D \in Int /\ 0 <= t % D /\ t % D < D
         /\ t = (t \div D) * D + (t % D)
OBVIOUS

(* What lies within a step of a multiple has it as its quotient.            *)
LEMMA Quotient ==
  ASSUME NEW D \in Nat \ {0}, NEW q \in Int, NEW t \in Int, q * D <= t, t < q * D + D
  PROVE  t \div D = q /\ t % D = t - q * D
<1>. DEFINE u == t \div D
<1>1. u \in Int /\ u * D <= t /\ t < u * D + D
  BY Divided, TimesMore
<1>2. t = u * D + (t % D)
  BY Divided
<1>. HIDE DEF u
<1>3. ~(u < q) /\ ~(q < u)
  <2>1. u < q => u * D + D <= q * D
    BY <1>1, TimesMore
  <2>2. q < u => q * D + D <= u * D
    BY <1>1, TimesMore
  <2>3. u * D \in Int /\ q * D \in Int
    BY <1>1, TimesMore
  <2>. QED BY <1>1, <2>1, <2>2, <2>3
<1>4. u = q
  BY <1>1, <1>3
<1>5. t % D \in Int /\ q * D \in Int
  BY Divided, TimesMore
<1>. QED BY <1>2, <1>4, <1>5 DEF u

Step(weekly) == Report!Advance(0, weekly)

(* A bucket begins at a multiple of its length, and holds its moment.       *)
LEMMA BucketIs ==
  ASSUME Report!RevenueAssumption, NEW t \in Int, NEW weekly \in BOOLEAN
  PROVE  /\ Step(weekly) \in Nat \ {0}
            /\ \A x \in Int : Report!Advance(x, weekly) = x + Step(weekly)
         /\ Report!BucketStart(t, weekly) \in Int
         /\ Report!BucketStart(t, weekly) <= t /\ t < Report!BucketStart(t, weekly) + Step(weekly)
         /\ \E u \in Int : Report!BucketStart(t, weekly)
                             = u * Step(weekly) - (IF weekly THEN Thursday * Day ELSE 0)
<1>. DEFINE q == t \div Day
<1>1. Day \in Nat \ {0} /\ Week \in Nat \ {0} /\ Thursday \in Int
  BY DEF Report!RevenueAssumption
<1>2. Week * Day \in Nat \ {0}
  BY <1>1
<1>3. q \in Int /\ q * Day \in Int /\ q * Day <= t /\ t < q * Day + Day
  BY <1>1, Divided, TimesMore
<1>4. Step(weekly) \in Nat \ {0} /\ \A x \in Int : Report!Advance(x, weekly) = x + Step(weekly)
  BY <1>1, <1>2 DEF Step, Report!Advance
<1>5. CASE ~weekly
  <2>1. Step(weekly) = Day /\ Report!BucketStart(t, weekly) = q * Day
    BY <1>1, <1>5 DEF Step, Report!Advance, Report!BucketStart, Report!StartOfDay
  <2>2. Report!BucketStart(t, weekly) = q * Step(weekly) - 0
    BY <1>3, <2>1
  <2>. HIDE DEF q
  <2>. QED BY <1>3, <1>4, <1>5, <2>1, <2>2
<1>6. CASE weekly
  <2>. DEFINE z == q + Thursday
              u == z \div Week
              r == z % Week
  <2>1. u \in Int /\ r \in Int /\ 0 <= r /\ r < Week /\ z = u * Week + r
    BY <1>1, <1>3, Divided
  <2>2. Step(weekly) = Week * Day /\ Report!BucketStart(t, weekly) = q * Day - r * Day
    BY <1>1, <1>2, <1>6 DEF Step, Report!Advance, Report!BucketStart, Report!StartOfWeek,
                            Report!StartOfDay
  <2>3. q - r = u * Week - Thursday
    BY <1>1, <1>3, <2>1
  <2>. HIDE DEF q, u, r
  <2>4. q * Day - r * Day = u * (Week * Day) - Thursday * Day
    <3>1. (q - r) * Day = q * Day - r * Day
      BY <1>1, <1>3, <2>1, TimesMore
    <3>2. u * Week \in Int /\ Thursday \in Int
      BY <1>1, <2>1
    <3>3. (u * Week - Thursday) * Day = (u * Week) * Day - Thursday * Day
      BY <1>1, <3>2, TimesMore
    <3>4. (u * Week) * Day = u * (Week * Day)
      BY <1>1, <2>1
    <3>. QED BY <2>3, <3>1, <3>3, <3>4
  <2>5. r * Day \in Int /\ 0 <= r * Day /\ r * Day + Day <= Week * Day
    <3>1. r * Day \in Int /\ r * Day + Day <= Week * Day
      BY <1>1, <2>1, TimesMore
    <3>2. \A k \in Nat : 0 <= k * Day
      BY <1>1
    <3>. QED BY <2>1, <3>1, <3>2
  <2>6. Report!BucketStart(t, weekly) \in Int /\ Report!BucketStart(t, weekly) <= t
        /\ t < Report!BucketStart(t, weekly) + Week * Day
    BY <1>1, <1>2, <1>3, <2>2, <2>5
  <2>. QED BY <1>4, <1>6, <2>1, <2>2, <2>4, <2>6
<1>. QED BY <1>5, <1>6

(* Later moments have later buckets, a whole number of lengths apart.       *)
LEMMA BucketOrder ==
  ASSUME Report!RevenueAssumption, NEW x \in Int, NEW y \in Int, NEW weekly \in BOOLEAN
  PROVE  /\ Report!BucketStart(x, weekly) <= Report!BucketStart(y, weekly)
              <=> x < Report!Advance(Report!BucketStart(y, weekly), weekly)
         /\ x <= y => Report!BucketStart(x, weekly) <= Report!BucketStart(y, weekly)
         /\ (Report!BucketStart(x, weekly) - Report!BucketStart(y, weekly)) % Step(weekly) = 0
<1>. DEFINE D == Step(weekly)
            a == Report!BucketStart(x, weekly)
            b == Report!BucketStart(y, weekly)
            o == IF weekly THEN Thursday * Day ELSE 0
<1>1. /\ D \in Nat \ {0} /\ a \in Int /\ b \in Int
      /\ a <= x /\ x < a + D /\ b <= y /\ y < b + D /\ Report!Advance(b, weekly) = b + D
  BY BucketIs
<1>2. PICK u \in Int : a = u * D - o
  BY BucketIs
<1>3. PICK v \in Int : b = v * D - o
  BY BucketIs
<1>4. o \in Int
  BY DEF Report!RevenueAssumption
<1>. HIDE DEF D, a, b, o
<1>5. u * D \in Int /\ v * D \in Int /\ (u - v) * D = u * D - v * D
      /\ (v < u => v * D + D <= u * D) /\ (u < v => u * D + D <= v * D)
  BY <1>1, TimesMore
<1>6. a <= b \/ b + D <= a
  <2>1. CASE v < u
    BY <1>1, <1>2, <1>3, <1>4, <1>5, <2>1
  <2>2. CASE u < v
    BY <1>1, <1>2, <1>3, <1>4, <1>5, <2>2
  <2>3. CASE u = v
    BY <1>1, <1>2, <1>3, <2>3
  <2>. QED BY <2>1, <2>2, <2>3
<1>7. (a - b) % D = 0
  <2>. DEFINE k == u - v
  <2>1. a - b = k * D /\ k \in Int
    BY <1>2, <1>3, <1>4, <1>5
  <2>. HIDE DEF k
  <2>2. k * D \in Int /\ k * D <= k * D /\ k * D < k * D + D
    BY <1>1, <2>1, TimesMore
  <2>3. (k * D) % D = k * D - k * D
    BY <1>1, <2>1, <2>2, Quotient
  <2>. QED BY <2>1, <2>2, <2>3
<1>8. (a <= b <=> x < b + D) /\ (x <= y => a <= b)
  BY <1>1, <1>6
<1>. QED BY <1>1, <1>7, <1>8 DEF D, a, b

(* A day is in the bucket its moments are in.                               *)
LEMMA DayOfDay ==
  ASSUME Report!RevenueAssumption, NEW t \in Int
  PROVE  /\ Report!StartOfDay(t) \in Int /\ Report!StartOfDay(t) <= t
            /\ Report!StartOfDay(Report!StartOfDay(t)) = Report!StartOfDay(t)
         /\ \A weekly \in BOOLEAN : Report!BucketStart(Report!StartOfDay(t), weekly) = Report!BucketStart(t, weekly)
<1>. DEFINE q == t \div Day
<1>1. Day \in Nat \ {0}
  BY DEF Report!RevenueAssumption
<1>2. q \in Int /\ q * Day \in Int /\ q * Day <= t /\ q * Day < q * Day + Day
  BY <1>1, Divided, TimesMore
<1>3. Report!StartOfDay(t) = q * Day
  BY DEF Report!StartOfDay
<1>4. Report!StartOfDay(t) \div Day = t \div Day
  <2>. HIDE DEF q
  <2>1. (q * Day) \div Day = q
    BY <1>1, <1>2, Quotient
  <2>. QED BY <1>3, <2>1 DEF q
<1>5. Report!StartOfDay(Report!StartOfDay(t)) = Report!StartOfDay(t)
  BY <1>4 DEF Report!StartOfDay
<1>6. Report!StartOfWeek(Report!StartOfDay(t)) = Report!StartOfWeek(t)
  BY <1>4, <1>5 DEF Report!StartOfWeek
<1>. QED BY <1>2, <1>3, <1>5, <1>6 DEF Report!BucketStart

-----------------------------------------------------------------------------
(* The chart. *)
FromOf(bars, days) ==
  IF days # 0 THEN today - (days - 1) * Day
  ELSE IF bars = <<>> THEN today ELSE Report!Min(DOMAIN bars)
WeeklyOf(bars, days) == Report!Max({1, Report!CeilDiv(today - FromOf(bars, days), Day) + 1}) > WeeklyAbove
StartsOf(bars, days) ==
  LET weekly == WeeklyOf(bars, days)
      first == Report!BucketStart(FromOf(bars, days), weekly)
      last == Report!BucketStart(today, weekly)
  IN  {b \in first .. last : (b - first) % (Report!Advance(0, weekly)) = 0}
PlacedOf(bars, days) ==
  {day \in DOMAIN bars : Report!BucketStart(day, WeeklyOf(bars, days)) \in StartsOf(bars, days)}
SumIn(bars, days, field) == Report!Total([day \in PlacedOf(bars, days) |-> bars[day][field]])

(* The series, part by part.                                                *)
LEMMA SeriesIs ==
  ASSUME NEW bars, NEW days
  PROVE  Report!SeriesFromDayBuckets(bars, days) =
           [starts |-> StartsOf(bars, days), weekly |-> WeeklyOf(bars, days),
            total |-> SumIn(bars, days, "attributed") + SumIn(bars, days, "unattributed"),
            attributedTotal |-> SumIn(bars, days, "attributed"),
            unattributedTotal |-> SumIn(bars, days, "unattributed"),
            calls |-> SumIn(bars, days, "attributedCalls") + SumIn(bars, days, "unattributedCalls"),
            unpricedCalls |-> SumIn(bars, days, "unpricedCalls")]
BY DEF Report!SeriesFromDayBuckets, StartsOf, WeeklyOf, PlacedOf, SumIn, FromOf

DayOf(i) == Report!StartOfDay(settled[i].ts)
OnDays(U, P) == {i \in U : DayOf(i) \in P}

(* What the days sum up to is what the payments of those days do.           *)
LEMMA ByDay ==
  ASSUME Report!RevenueAssumption, Report!RevenueInv, NEW U \in SUBSET Report!All, NEW P,
         IsFiniteSet(P),
         NEW w \in [Report!All -> Int]
  PROVE  Report!Total([d \in P |-> Report!Total(On(w, {i \in U : DayOf(i) = d}))])
           = Report!Total(On(w, OnDays(U, P)))
<1>. DEFINE S == OnDays(U, P)
            h == [i \in S |-> DayOf(i)]
            f == On(w, S)
<1>1. S \in SUBSET Report!All /\ IsFiniteSet(S)
  BY RowFacts, FS_Subset DEF OnDays
<1>2. f \in [S -> Int] /\ \A i \in S : h[i] \in P
  BY <1>1 DEF On, OnDays
<1>3. ASSUME NEW d \in P PROVE On(f, Fiber(S, h, d)) = On(w, {i \in U : DayOf(i) = d})
  <2>1. Fiber(S, h, d) = {i \in U : DayOf(i) = d}
    BY DEF Fiber, OnDays
  <2>2. On(f, Fiber(S, h, d)) = On(w, Fiber(S, h, d))
    BY DEF On, Fiber
  <2>. QED BY <2>1, <2>2
<1>. HIDE DEF S, h, f
<1>4. Report!Total(f) = Report!Total([d \in P |-> Report!Total(On(f, Fiber(S, h, d)))])
  BY <1>1, <1>2, TotalByKey
<1>5. [d \in P |-> Report!Total(On(f, Fiber(S, h, d)))]
        = [d \in P |-> Report!Total(On(w, {i \in U : DayOf(i) = d}))]
  BY <1>3
<1>. QED BY <1>4, <1>5 DEF f, S

(* What a cell has of its payments.                                         *)
LEMMA CellIs ==
  ASSUME NEW S
  PROVE  /\ Report!Cell(S).attributed = Report!Amount(Mine(S))
            /\ Report!Cell(S).unattributed = Report!Amount(S \ Mine(S))
         /\ Report!Cell(S).attributedCalls = Report!Cardinality(Mine(S))
         /\ Report!Cell(S).unattributedCalls = Report!Cardinality(S \ Mine(S))
BY DEF Report!Cell, Mine

(* What a chart shows in all is of the payments of the days that have a     *)
(* place on it.                                                             *)
LEMMA ChartSums ==
  ASSUME Report!RevenueAssumption, Report!RevenueInv, NEW S \in SUBSET Report!All, NEW days
  PROVE  LET P == PlacedOf(Report!DayRows(S), days) IN
           /\ SumIn(Report!DayRows(S), days, "attributed") = Report!Amount(OnDays(Mine(S), P))
           /\ SumIn(Report!DayRows(S), days, "unattributed") = Report!Amount(OnDays(S \ Mine(S), P))
           /\ SumIn(Report!DayRows(S), days, "attributedCalls") = Report!Cardinality(OnDays(Mine(S), P))
           /\ SumIn(Report!DayRows(S), days, "unattributedCalls") = Report!Cardinality(OnDays(S \ Mine(S), P))
<1>. DEFINE bars == Report!DayRows(S)
            P == PlacedOf(bars, days)
            M == Mine(S)
            N == S \ Mine(S)
            of(U, d) == {i \in U : DayOf(i) = d}
<1>1. DOMAIN bars = {DayOf(i) : i \in S} /\ \A d \in DOMAIN bars : bars[d] = Report!Cell(of(S, d))
  BY DEF Report!DayRows, DayOf
<1>2. IsFiniteSet(P)
  <2>. DEFINE h == [i \in S |-> DayOf(i)]
  <2>1. P \subseteq {h[i] : i \in S}
    BY <1>1 DEF PlacedOf
  <2>2. IsFiniteSet(S)
    BY Counted
  <2>3. IsFiniteSet({h[i] : i \in S})
    <3>. HIDE DEF h
    <3>. QED BY <2>2, ImageIsFinite
  <2>. QED BY <2>1, <2>3, FS_Subset
<1>3. M \in SUBSET Report!All /\ N \in SUBSET Report!All
      /\ \A d : /\ of(M, d) \in SUBSET Report!All /\ of(N, d) \in SUBSET Report!All
                /\ Mine(of(S, d)) = of(M, d)
                /\ of(S, d) \ of(M, d) = of(N, d)
  BY DEF Mine
<1>4. \A d \in P : d \in DOMAIN bars
  BY DEF PlacedOf
<1>5. ASSUME NEW d \in P
      PROVE  /\ bars[d].attributed = Report!Total(On(Money, of(M, d)))
             /\ bars[d].unattributed = Report!Total(On(Money, of(N, d)))
             /\ bars[d].attributedCalls = Report!Total(On(Ones, of(M, d)))
             /\ bars[d].unattributedCalls = Report!Total(On(Ones, of(N, d)))
  <2>1. bars[d] = Report!Cell(of(S, d))
    BY <1>1, <1>4
  <2>. HIDE DEF bars, P, M, N, of
  <2>2. /\ bars[d].attributed = Report!Amount(of(M, d))
        /\ bars[d].unattributed = Report!Amount(of(N, d))
        /\ bars[d].attributedCalls = Report!Cardinality(of(M, d))
        /\ bars[d].unattributedCalls = Report!Cardinality(of(N, d))
    <3>. DEFINE C == of(S, d)
    <3>1. /\ Mine(C) = of(M, d) /\ C \ of(M, d) = of(N, d) /\ bars[d] = Report!Cell(C)
      BY <1>3, <2>1
    <3>. HIDE DEF C
    <3>2. /\ Report!Cell(C).attributed = Report!Amount(Mine(C))
             /\ Report!Cell(C).unattributed = Report!Amount(C \ Mine(C))
          /\ Report!Cell(C).attributedCalls = Report!Cardinality(Mine(C))
          /\ Report!Cell(C).unattributedCalls = Report!Cardinality(C \ Mine(C))
      BY CellIs
    <3>. QED BY ONLY <3>1, <3>2
  <2>. QED BY <1>3, <2>2, Counted
<1>6. Money \in [Report!All -> Int] /\ Ones \in [Report!All -> Int]
  BY RowFacts
<1>7. OnDays(M, P) \in SUBSET Report!All /\ OnDays(N, P) \in SUBSET Report!All
  BY <1>3 DEF OnDays
<1>8. /\ Report!Total([d \in P |-> Report!Total(On(Money, of(M, d)))]) = Report!Amount(OnDays(M, P))
      /\ Report!Total([d \in P |-> Report!Total(On(Money, of(N, d)))]) = Report!Amount(OnDays(N, P))
      /\ Report!Total([d \in P |-> Report!Total(On(Ones, of(M, d)))]) = Report!Cardinality(OnDays(M, P))
      /\ Report!Total([d \in P |-> Report!Total(On(Ones, of(N, d)))]) = Report!Cardinality(OnDays(N, P))
  <2>1. ASSUME NEW U \in SUBSET Report!All, NEW w \in [Report!All -> Int]
        PROVE  Report!Total([d \in P |-> Report!Total(On(w, of(U, d)))]) = Report!Total(On(w, OnDays(U, P)))
    <3>. HIDE DEF P
    <3>. QED BY <1>2, ByDay
  <2>2. /\ Report!Total(On(Money, OnDays(M, P))) = Report!Amount(OnDays(M, P))
        /\ Report!Total(On(Money, OnDays(N, P))) = Report!Amount(OnDays(N, P))
        /\ Report!Total(On(Ones, OnDays(M, P))) = Report!Cardinality(OnDays(M, P))
        /\ Report!Total(On(Ones, OnDays(N, P))) = Report!Cardinality(OnDays(N, P))
    <3>. HIDE DEF P, M, N
    <3>. QED BY <1>7, Counted
  <2>. HIDE DEF P, M, N, of
  <2>. QED BY <1>3, <1>6, <2>1, <2>2
<1>. HIDE DEF bars, of
<1>9. /\ [d \in P |-> bars[d].attributed] = [d \in P |-> Report!Total(On(Money, of(M, d)))]
      /\ [d \in P |-> bars[d].unattributed] = [d \in P |-> Report!Total(On(Money, of(N, d)))]
      /\ [d \in P |-> bars[d].attributedCalls] = [d \in P |-> Report!Total(On(Ones, of(M, d)))]
      /\ [d \in P |-> bars[d].unattributedCalls] = [d \in P |-> Report!Total(On(Ones, of(N, d)))]
  BY <1>5
<1>. HIDE DEF P, M, N
<1>. QED BY <1>8, <1>9 DEF SumIn, P, M, N, bars

(* A chart of a fixed range is drawn by days; one of all may be by weeks.   *)
LEMMA ByDays ==
  ASSUME Report!RevenueAssumption, today \in Int, NEW bars, NEW days \in RangeDays, days # 0
  PROVE  /\ FromOf(bars, days) = today - (days - 1) * Day /\ FromOf(bars, days) \in Int
         /\ WeeklyOf(bars, days) = FALSE
<1>. DEFINE k == days - 1
<1>1. Day \in Nat \ {0} /\ days \in Nat /\ days <= WeeklyAbove /\ WeeklyAbove \in Nat /\ days >= 1
  BY DEF Report!RevenueAssumption
<1>2. k \in Int /\ k * Day \in Int /\ (-k) * Day = -(k * Day)
  BY <1>1
<1>3. FromOf(bars, days) = today - k * Day /\ today - FromOf(bars, days) = k * Day
  BY <1>2 DEF FromOf
<1>4. Report!CeilDiv(k * Day, Day) = k
  <2>. DEFINE m == -k
  <2>1. m \in Int /\ m * Day = -(k * Day)
    BY <1>2
  <2>. HIDE DEF m, k
  <2>2. m * Day \in Int /\ m * Day <= m * Day /\ m * Day < m * Day + Day
    BY <1>1, <2>1, TimesMore
  <2>3. (m * Day) \div Day = m
    BY <1>1, <2>1, <2>2, Quotient
  <2>4. (-(k * Day)) \div Day = m
    BY <2>1, <2>3
  <2>. QED BY <1>2, <2>4 DEF Report!CeilDiv, m
<1>5. Report!CeilDiv(today - FromOf(bars, days), Day) + 1 = days
  BY <1>1, <1>3, <1>4
<1>6. Report!Max({1, days}) = days
  BY <1>1 DEF Report!Max
<1>. QED BY <1>1, <1>2, <1>3, <1>5, <1>6 DEF WeeklyOf

(* A day that is within the range has a place on the chart unless it is     *)
(* after the last bucket.                                                   *)
LEMMA OnChart ==
  ASSUME Report!RevenueAssumption, Report!RevenueInv, NEW S \in SUBSET Report!All,
         NEW days \in RangeDays,
         NEW i \in S, S \subseteq Report!FilterByRange(days)
  PROVE  LET bars == Report!DayRows(S)
             weekly == WeeklyOf(bars, days)
         IN  DayOf(i) \in PlacedOf(bars, days)
               <=> ~(settled[i].ts >= Report!Advance(Report!BucketStart(today, weekly), weekly))
<1>. DEFINE bars == Report!DayRows(S)
            weekly == WeeklyOf(bars, days)
            from == FromOf(bars, days)
            t == settled[i].ts
<1>1. t \in Int /\ today \in Int /\ weekly \in BOOLEAN /\ DOMAIN bars = {DayOf(j) : j \in S}
  BY RowFacts DEF WeeklyOf, Report!DayRows, DayOf
<1>2. /\ DayOf(i) = Report!StartOfDay(t) /\ DayOf(i) \in Int /\ DayOf(i) \in DOMAIN bars
      /\ Report!BucketStart(DayOf(i), weekly) = Report!BucketStart(t, weekly)
  BY <1>1, DayOfDay DEF DayOf
<1>3. from \in Int /\ Report!BucketStart(from, weekly) <= Report!BucketStart(t, weekly)
  <2>1. CASE days = 0
    <3>1. bars # <<>>
      BY <1>2
    <3>2. from = Report!Min(DOMAIN bars)
      BY <2>1, <3>1 DEF FromOf
    <3>3. IsFiniteSet(DOMAIN bars) /\ DOMAIN bars # {} /\ DOMAIN bars \subseteq Int
      <4>. DEFINE h == [j \in S |-> DayOf(j)]
      <4>1. DOMAIN bars = {h[j] : j \in S} /\ IsFiniteSet(S)
        BY <1>1, Counted
      <4>2. \A j \in S : DayOf(j) \in Int
        BY RowFacts, DayOfDay DEF DayOf
      <4>3. IsFiniteSet({h[j] : j \in S})
        <5>. HIDE DEF h
        <5>. QED BY <4>1, ImageIsFinite
      <4>. QED BY <1>1, <1>2, <4>1, <4>2, <4>3
    <3>4. from \in Int /\ from <= DayOf(i)
      <4>. HIDE DEF bars, from
      <4>. QED BY <1>2, <3>2, <3>3, MinOf
    <3>. QED BY <1>1, <1>2, <3>4, BucketOrder
  <2>2. CASE days # 0
    <3>1. from \in Int /\ from = today - (days - 1) * Day /\ weekly = FALSE
      BY <1>1, <2>2, ByDays
    <3>2. t >= Report!StartOfDay(from)
      BY <2>2, <3>1 DEF Report!FilterByRange
    <3>3. Report!StartOfDay(from) \in Int
          /\ Report!BucketStart(Report!StartOfDay(from), weekly) = Report!BucketStart(from, weekly)
      BY <1>1, <3>1, DayOfDay
    <3>. HIDE DEF from, weekly, t
    <3>. QED BY <1>1, <3>1, <3>2, <3>3, BucketOrder
  <2>. QED BY <2>1, <2>2
<1>. HIDE DEF from, weekly, t
<1>4. /\ Report!BucketStart(t, weekly) \in Int /\ Report!BucketStart(from, weekly) \in Int
      /\ Report!BucketStart(today, weekly) \in Int
         /\ Report!Advance(Report!BucketStart(today, weekly), weekly) \in Int
  BY <1>1, <1>3, BucketIs
<1>5. Report!BucketStart(t, weekly) <= Report!BucketStart(today, weekly)
        <=> t < Report!Advance(Report!BucketStart(today, weekly), weekly)
  BY <1>1, BucketOrder
<1>6. (Report!BucketStart(t, weekly) - Report!BucketStart(from, weekly)) % Report!Advance(0, weekly) = 0
  BY <1>1, <1>3, BucketOrder DEF Step
<1>7. Report!BucketStart(t, weekly) \in StartsOf(bars, days)
        <=> Report!BucketStart(t, weekly) <= Report!BucketStart(today, weekly)
  BY <1>3, <1>4, <1>6 DEF StartsOf, from, weekly
<1>8. DayOf(i) \in PlacedOf(bars, days) <=> Report!BucketStart(t, weekly) \in StartsOf(bars, days)
  BY <1>2 DEF PlacedOf, weekly
<1>. QED BY <1>1, <1>4, <1>5, <1>7, <1>8 DEF bars, weekly, t

(* What is out of the range has no place on a chart of it.                  *)
LEMMA OutOfRange ==
  ASSUME Report!RevenueAssumption, Report!RevenueInv, NEW S \in SUBSET Report!All,
         NEW days \in RangeDays
  PROVE  Report!SeriesFromDayBuckets(Report!DayRows(S \cap Report!FilterByRange(days)), days)
           = Report!SeriesFromDayBuckets(Report!DayRows(S), days)
<1>. DEFINE R == S \cap Report!FilterByRange(days)
            few == Report!DayRows(R)
            bars == Report!DayRows(S)
<1>1. CASE days = 0
  <2>1. R = S
    BY <1>1 DEF Report!FilterByRange
  <2>. QED BY <2>1
<1>2. CASE days # 0
  <2>. DEFINE from == today - (days - 1) * Day
  <2>1. today \in Int /\ \A i \in Report!All : settled[i].ts \in Int
    BY RowFacts
  <2>2. /\ FromOf(few, days) = from /\ FromOf(bars, days) = from /\ from \in Int
        /\ WeeklyOf(few, days) = FALSE /\ WeeklyOf(bars, days) = FALSE
    BY <1>2, <2>1, ByDays
  <2>3. StartsOf(few, days) = StartsOf(bars, days)
    BY <2>2 DEF StartsOf
  <2>4. ASSUME NEW i \in S, Report!BucketStart(DayOf(i), FALSE) \in StartsOf(bars, days)
        PROVE  i \in R
    <3>1. Report!StartOfDay(from) <= Report!BucketStart(DayOf(i), FALSE)
      BY <2>2, <2>4 DEF StartsOf, Report!BucketStart
    <3>2. Report!BucketStart(DayOf(i), FALSE) = Report!StartOfDay(settled[i].ts)
      BY <2>1, DayOfDay DEF Report!BucketStart, DayOf
    <3>3. Report!StartOfDay(from) \in Int /\ Report!StartOfDay(settled[i].ts) \in Int
          /\ Report!StartOfDay(settled[i].ts) <= settled[i].ts
      BY <2>1, <2>2, DayOfDay
    <3>. HIDE DEF from
    <3>5. settled[i].ts \in Int
      BY <2>1
    <3>6. Report!StartOfDay(from) <= Report!StartOfDay(settled[i].ts)
      BY <3>1, <3>2
    <3>4. settled[i].ts >= Report!StartOfDay(from)
      BY ONLY <3>3, <3>5, <3>6
    <3>. QED BY <3>4 DEF Report!FilterByRange, from
  <2>5. /\ DOMAIN bars = {DayOf(i) : i \in S} /\ DOMAIN few = {DayOf(i) : i \in R}
        /\ \A d \in DOMAIN bars : bars[d] = Report!Cell({i \in S : DayOf(i) = d})
        /\ \A d \in DOMAIN few : few[d] = Report!Cell({i \in R : DayOf(i) = d})
    BY DEF Report!DayRows, DayOf
  <2>6. PlacedOf(few, days) = PlacedOf(bars, days)
    <3>. HIDE DEF few, bars
    <3>. QED BY <2>2, <2>3, <2>4, <2>5 DEF PlacedOf
  <2>7. ASSUME NEW d \in PlacedOf(bars, days) PROVE few[d] = bars[d]
    <3>1. d \in DOMAIN bars /\ d \in DOMAIN few
          /\ Report!BucketStart(d, FALSE) \in StartsOf(bars, days)
      BY <2>2, <2>6 DEF PlacedOf
    <3>2. {i \in S : DayOf(i) = d} = {i \in R : DayOf(i) = d}
      BY <2>4, <3>1
    <3>. HIDE DEF few, bars
    <3>. QED BY <2>5, <3>1, <3>2
  <2>. HIDE DEF few, bars
  <2>8. ASSUME NEW field PROVE SumIn(few, days, field) = SumIn(bars, days, field)
    BY <2>6, <2>7 DEF SumIn
  <2>9. Report!SeriesFromDayBuckets(few, days) = Report!SeriesFromDayBuckets(bars, days)
    <3>1. WeeklyOf(few, days) = WeeklyOf(bars, days)
      BY <2>2
    <3>. QED BY ONLY <2>3, <2>8, <3>1, SeriesIs
  <2>. QED BY <2>9 DEF few, bars
<1>. QED BY <1>1, <1>2

(* What is counted of a part and of the rest is counted of the whole.       *)
LEMMA CountedParts ==
  ASSUME Report!RevenueAssumption, Report!RevenueInv, NEW S \in SUBSET Report!All,
         NEW U \in SUBSET S
  PROVE  /\ Report!Amount(S) = Report!Amount(U) + Report!Amount(S \ U)
         /\ Report!Cardinality(S) = Report!Cardinality(U) + Report!Cardinality(S \ U)
<1>1. U \in SUBSET Report!All /\ S \ U \in SUBSET Report!All
  OBVIOUS
<1>2. Money \in [Report!All -> Int] /\ Ones \in [Report!All -> Int]
  BY RowFacts
<1>3. IsFiniteSet(S) /\ On(Money, S) \in [S -> Int] /\ On(Ones, S) \in [S -> Int]
  BY <1>2, Counted DEF On
<1>4. /\ On(On(Money, S), U) = On(Money, U) /\ On(On(Money, S), S \ U) = On(Money, S \ U)
      /\ On(On(Ones, S), U) = On(Ones, U) /\ On(On(Ones, S), S \ U) = On(Ones, S \ U)
  BY DEF On
<1>5. Report!Total(On(Money, S)) = Report!Total(On(Money, U)) + Report!Total(On(Money, S \ U))
  BY <1>3, <1>4, TotalParts
<1>6. Report!Total(On(Ones, S)) = Report!Total(On(Ones, U)) + Report!Total(On(Ones, S \ U))
  BY <1>3, <1>4, TotalParts
<1>. QED BY <1>1, <1>5, <1>6, Counted

(* What the chart of some payments of a range leaves out are the late ones. *)
LEMMA ChartOf ==
  ASSUME Report!RevenueAssumption, Report!RevenueInv, NEW M \in SUBSET Report!All,
         NEW days \in RangeDays,
         M \subseteq Report!FilterByRange(days)
  PROVE  LET series == Report!SeriesFromDayBuckets(Report!DayRows(M), days)
             later == {i \in M : settled[i].ts >= Report!Advance(Report!BucketStart(today, series.weekly),
                                                                 series.weekly)}
         IN  /\ Report!Amount(Mine(M)) = series.attributedTotal + Report!Amount(Mine(later))
             /\ Report!Amount(M) - Report!Amount(Mine(M))
                  = series.unattributedTotal + Report!Amount(later \ Mine(later))
             /\ Report!Cardinality(M) = series.calls + Report!Cardinality(later)
<1>. DEFINE series == Report!SeriesFromDayBuckets(Report!DayRows(M), days)
            later == {i \in M : settled[i].ts >= Report!Advance(Report!BucketStart(today, series.weekly),
                                                                series.weekly)}
            P == PlacedOf(Report!DayRows(M), days)
            A == Mine(M)
            B == M \ Mine(M)
            a == Mine(later)
            b == later \ Mine(later)
<1>1. /\ series.weekly = WeeklyOf(Report!DayRows(M), days)
      /\ series.attributedTotal = SumIn(Report!DayRows(M), days, "attributed")
      /\ series.unattributedTotal = SumIn(Report!DayRows(M), days, "unattributed")
      /\ series.calls = SumIn(Report!DayRows(M), days, "attributedCalls")
                          + SumIn(Report!DayRows(M), days, "unattributedCalls")
  BY SeriesIs
<1>2. \A i \in M : DayOf(i) \in P <=> i \notin later
  BY <1>1, OnChart
<1>3. /\ A \in SUBSET Report!All /\ B \in SUBSET Report!All /\ later \in SUBSET Report!All
      /\ a \in SUBSET A /\ b \in SUBSET B /\ a \in SUBSET later /\ A \in SUBSET M
      /\ M \ A = B /\ later \ a = b
  BY DEF Mine
<1>4. OnDays(A, P) = A \ a /\ OnDays(B, P) = B \ b
  BY <1>2 DEF OnDays, Mine
<1>. HIDE DEF series, later, P, A, B, a, b
<1>5. /\ series.attributedTotal = Report!Amount(A \ a)
         /\ series.unattributedTotal = Report!Amount(B \ b)
      /\ series.calls = Report!Cardinality(A \ a) + Report!Cardinality(B \ b)
  <2>1. /\ SumIn(Report!DayRows(M), days, "attributed") = Report!Amount(OnDays(A, P))
        /\ SumIn(Report!DayRows(M), days, "unattributed") = Report!Amount(OnDays(B, P))
        /\ SumIn(Report!DayRows(M), days, "attributedCalls") = Report!Cardinality(OnDays(A, P))
        /\ SumIn(Report!DayRows(M), days, "unattributedCalls") = Report!Cardinality(OnDays(B, P))
    BY ChartSums DEF P, A, B
  <2>. QED BY <1>1, <1>4, <2>1
<1>6. /\ Report!Amount(A) = Report!Amount(a) + Report!Amount(A \ a)
         /\ Report!Amount(B) = Report!Amount(b) + Report!Amount(B \ b)
      /\ Report!Amount(M) = Report!Amount(A) + Report!Amount(B)
      /\ Report!Cardinality(A) = Report!Cardinality(a) + Report!Cardinality(A \ a)
      /\ Report!Cardinality(B) = Report!Cardinality(b) + Report!Cardinality(B \ b)
      /\ Report!Cardinality(M) = Report!Cardinality(A) + Report!Cardinality(B)
      /\ Report!Cardinality(later) = Report!Cardinality(a) + Report!Cardinality(b)
  BY <1>3, CountedParts
<1>7. \A S \in SUBSET Report!All : Report!Amount(S) \in Nat /\ Report!Cardinality(S) \in Nat
  BY Counted
<1>8. /\ Report!Amount(A) \in Nat /\ Report!Amount(B) \in Nat /\ Report!Amount(a) \in Nat
         /\ Report!Amount(b) \in Nat
      /\ Report!Amount(A \ a) \in Nat /\ Report!Amount(B \ b) \in Nat
      /\ Report!Cardinality(a) \in Nat /\ Report!Cardinality(b) \in Nat
      /\ Report!Cardinality(A \ a) \in Nat /\ Report!Cardinality(B \ b) \in Nat
  BY <1>3, <1>7
<1>9. /\ Report!Amount(A) = series.attributedTotal + Report!Amount(a)
      /\ Report!Amount(M) - Report!Amount(A) = series.unattributedTotal + Report!Amount(b)
      /\ Report!Cardinality(M) = series.calls + Report!Cardinality(later)
  BY ONLY <1>5, <1>6, <1>8
<1>. QED BY <1>9 DEF series, later, A, a, b

(* The reports agree.                                                       *)
LEMMA RevenueHolds ==
  ASSUME Report!RevenueAssumption, Report!RevenueInv
  PROVE  Report!RevenueAgrees
<1>. SUFFICES ASSUME NEW asset \in Assets \cup {"native"}, NEW days \in RangeDays
     PROVE  LET inRange == Report!FilterByRange(days)
                mine == Report!FilterByAsset(inRange, asset)
                breakdown == Report!BuildRouteBreakdown(inRange, asset)
                series == Report!BuildRevenueSeries(inRange, asset, days)
                later == {i \in mine : settled[i].ts >= Report!Advance(Report!BucketStart(today, series.weekly),
                                                                       series.weekly)}
                Late(f) == Report!Amount({i \in later : Report!Attributed(settled[i].route) = f})
            IN  /\ breakdown = Report!RouteBreakdownFromAggregates(Report!RouteRows(mine))
                /\ series = Report!SeriesFromDayBuckets(Report!DayRows(Report!FilterByAsset(Report!All, asset)), days)
                /\ breakdown.total = Report!Amount(mine)
                /\ breakdown.attributedTotal = series.attributedTotal + Late(TRUE)
                /\ breakdown.unattributedTotal = series.unattributedTotal + Late(FALSE)
                /\ breakdown.calls = series.calls + Report!Cardinality(later)
                /\ breakdown.unattributed.total = breakdown.unattributedTotal
  BY DEF Report!RevenueAgrees
<1>. DEFINE mine == Report!FilterByAsset(Report!FilterByRange(days), asset)
            breakdown == Report!BuildRouteBreakdown(Report!FilterByRange(days), asset)
            series == Report!BuildRevenueSeries(Report!FilterByRange(days), asset, days)
            later == {i \in mine : settled[i].ts >= Report!Advance(Report!BucketStart(today, series.weekly),
                                                                   series.weekly)}
            Late(f) == Report!Amount({i \in later : Report!Attributed(settled[i].route) = f})
<1>1. /\ mine \in SUBSET Report!All /\ mine \subseteq Report!FilterByRange(days)
      /\ Report!FilterByAsset(Report!All, asset) \in SUBSET Report!All
      /\ mine = Report!FilterByAsset(Report!All, asset) \cap Report!FilterByRange(days)
  BY DEF Report!FilterByAsset, Report!FilterByRange
<1>2. breakdown = SaysOf(mine)
      /\ breakdown = Report!RouteBreakdownFromAggregates(Report!RouteRows(mine))
  BY <1>1, RawSays, RowsSay DEF Report!BuildRouteBreakdown
<1>3. /\ series = Report!SeriesFromDayBuckets(Report!DayRows(mine), days)
      /\ series = Report!SeriesFromDayBuckets(Report!DayRows(Report!FilterByAsset(Report!All, asset)), days)
  BY <1>1, OutOfRange DEF Report!BuildRevenueSeries
<1>4. Late(TRUE) = Report!Amount(Mine(later)) /\ Late(FALSE) = Report!Amount(later \ Mine(later))
  <2>1. /\ {i \in later : Report!Attributed(settled[i].route) = TRUE} = Mine(later)
        /\ {i \in later : Report!Attributed(settled[i].route) = FALSE} = later \ Mine(later)
    BY DEF Mine, Report!Attributed
  <2>. QED BY <2>1
<1>5. /\ Report!Amount(Mine(mine)) = series.attributedTotal + Report!Amount(Mine(later))
      /\ Report!Amount(mine) - Report!Amount(Mine(mine)) = series.unattributedTotal + Report!Amount(later \ Mine(later))
      /\ Report!Cardinality(mine) = series.calls + Report!Cardinality(later)
  BY <1>1, <1>3, ChartOf
<1>6. /\ breakdown.total = Report!Amount(mine)
         /\ breakdown.attributedTotal = Report!Amount(Mine(mine))
      /\ breakdown.unattributedTotal = Report!Amount(mine) - Report!Amount(Mine(mine))
      /\ breakdown.calls = Report!Cardinality(mine)
      /\ breakdown.unattributed.total = Report!Amount(mine \ Mine(mine))
  BY <1>2 DEF SaysOf, BucketOf
<1>7. Report!Amount(mine) - Report!Amount(Mine(mine)) = Report!Amount(mine \ Mine(mine))
  <2>1. Mine(mine) \in SUBSET mine
    BY DEF Mine
  <2>2. Mine(mine) \in SUBSET Report!All /\ mine \ Mine(mine) \in SUBSET Report!All
    BY <1>1, <2>1
  <2>3. Report!Amount(mine) = Report!Amount(Mine(mine)) + Report!Amount(mine \ Mine(mine))
    BY <1>1, <2>1, CountedParts
  <2>4. Report!Amount(Mine(mine)) \in Nat /\ Report!Amount(mine \ Mine(mine)) \in Nat
    BY <2>2, Counted
  <2>. QED BY ONLY <2>3, <2>4
<1>. HIDE DEF mine, breakdown, series, later, Late
<1>8. /\ breakdown = Report!RouteBreakdownFromAggregates(Report!RouteRows(mine))
      /\ series = Report!SeriesFromDayBuckets(Report!DayRows(Report!FilterByAsset(Report!All, asset)), days)
      /\ breakdown.total = Report!Amount(mine)
      /\ breakdown.attributedTotal = series.attributedTotal + Late(TRUE)
      /\ breakdown.unattributedTotal = series.unattributedTotal + Late(FALSE)
      /\ breakdown.calls = series.calls + Report!Cardinality(later)
      /\ breakdown.unattributed.total = breakdown.unattributedTotal
  BY <1>2, <1>3, <1>4, <1>5, <1>6, <1>7
<1>. QED BY <1>8 DEF mine, breakdown, series, later, Late

-----------------------------------------------------------------------------
(* The banner.  A card takes no less than the network does, so cutting what *)
(* was saved at zero after the sum is as good as cutting it before.         *)
LEMMA CutAtZero == ASSUME NEW x \in Int PROVE Report!Max({0, x}) = IF x > 0 THEN x ELSE 0
BY DEF Report!Max

(* The fee of a card is never less than that of the network.                *)
LEMMA CardTakesMore ==
  ASSUME Report!RevenueAssumption, NEW amount \in Nat
  PROVE  /\ Report!TraditionalFee(amount) \in Nat /\ NetworkFee \in Nat
         /\ Report!TraditionalFee(amount) >= NetworkFee
<1>1. CardRate \in Nat /\ CardFixed \in Nat /\ NetworkFee \in Nat /\ NetworkFee <= CardFixed
  BY DEF Report!RevenueAssumption
<1>2. amount * CardRate \in Nat
  BY <1>1
<1>3. (amount * CardRate) \div 1000 \in Nat
  BY <1>2
<1>. QED BY <1>1, <1>3 DEF Report!TraditionalFee

(* What some payments saved is the sum of what each saved.                  *)
LEMMA FeesSay ==
  ASSUME Report!RevenueAssumption, Report!RevenueInv, NEW S \in SUBSET Report!Priced(Report!All)
  PROVE  /\ IsFiniteSet(S) /\ [i \in S |-> Report!NetSavings(i)] \in [S -> Nat]
         /\ Report!Fees(S).savings = Report!Total([i \in S |-> Report!NetSavings(i)])
<1>. DEFINE f == [i \in S |-> Report!TraditionalFee(settled[i].amount)]
            e == [i \in S |-> f[i] - NetworkFee]
<1>1. S \in SUBSET Report!All /\ IsFiniteSet(S)
  BY RowFacts, FS_Subset DEF Report!Priced
<1>2. \A i \in S : settled[i].amount \in Nat
  BY RowFacts DEF Report!Priced
<1>3. /\ NetworkFee \in Nat /\ f \in [S -> Int]
      /\ \A i \in S : f[i] \in Nat /\ f[i] >= NetworkFee
  <2>1. NetworkFee \in Nat
    BY DEF Report!RevenueAssumption
  <2>. QED BY <1>2, <2>1, CardTakesMore
<1>4. /\ \A i \in S : Report!NetSavings(i) = e[i] /\ e[i] \in Nat
      /\ [i \in S |-> Report!NetSavings(i)] = e /\ e \in [S -> Nat]
  <2>1. ASSUME NEW i \in S PROVE Report!NetSavings(i) = e[i] /\ e[i] \in Nat
    <3>1. f[i] - NetworkFee \in Nat
      BY <1>3
    <3>2. Report!NetSavings(i) = Report!Max({0, f[i] - NetworkFee})
      BY DEF Report!NetSavings
    <3>3. Report!Max({0, f[i] - NetworkFee}) = f[i] - NetworkFee
      BY <3>1, CutAtZero
    <3>. QED BY <3>1, <3>2, <3>3
  <2>. QED BY <2>1
<1>5. Report!Total(e) = Report!Total(f) - NetworkFee * Report!Cardinality(S)
  <2>1. On(e, S) = e /\ On(f, S) = f
    BY DEF On
  <2>. QED BY <1>1, <1>3, <2>1, TotalLess, ReportCount
<1>6. Report!Total(e) \in Nat
  BY <1>1, <1>4, TotalNat
<1>7. Report!Fees(S).savings = Report!Max({0, Report!Total(f) - NetworkFee * Report!Cardinality(S)})
  BY DEF Report!Fees
<1>. HIDE DEF f, e
<1>8. Report!Fees(S).savings = Report!Total(e)
  BY <1>5, <1>6, <1>7, CutAtZero
<1>. QED BY <1>1, <1>4, <1>8

(* A month begins with a day, so a day that begins in it is in it.          *)
LEMMA MonthStart ==
  ASSUME Report!RevenueAssumption, Report!RevenueInv
  PROVE  /\ Report!StartOfMonth(today) \in Int
         /\ \A x \in Int : x >= Report!StartOfMonth(today) =>
              Report!StartOfDay(x) >= Report!StartOfMonth(today)
<1>. DEFINE m == Report!StartOfMonth(today)
<1>1. today \in Nows /\ Day \in Nat \ {0}
  BY DEF Report!RevenueInv, Report!RevenueAssumption
<1>2. PICK k \in Months : k <= today /\ \A n \in Months : n <= today => n <= k
  BY <1>1 DEF Report!RevenueAssumption
<1>3. m \in Months
  <2>1. /\ k \in {n \in Months : n <= today} /\ \A n \in {n \in Months : n <= today} : k >= n
    BY <1>2, RowFacts DEF Report!RevenueAssumption
  <2>. QED BY <2>1 DEF Report!StartOfMonth, Report!Max
<1>4. m \in Int /\ m % Day = 0
  BY <1>3 DEF Report!RevenueAssumption
<1>. HIDE DEF m
<1>5. ASSUME NEW x \in Int, x >= m PROVE Report!StartOfDay(x) >= m
  <2>. DEFINE p == m \div Day
              q == x \div Day
  <2>1. p \in Int /\ m = p * Day /\ q \in Int /\ x < q * Day + Day /\ q * Day \in Int
    BY <1>1, <1>4, Divided, TimesMore
  <2>2. (q < p => q * Day + Day <= p * Day) /\ (p < q => p * Day + Day <= q * Day)
    BY <1>1, <2>1, TimesMore
  <2>3. Report!StartOfDay(x) = q * Day
    BY DEF Report!StartOfDay
  <2>. HIDE DEF p, q
  <2>4. ~(q < p)
    BY <1>1, <1>4, <1>5, <2>1, <2>2
  <2>5. q = p \/ p < q
    BY <2>1, <2>4
  <2>. QED BY <1>1, <1>4, <2>1, <2>2, <2>3, <2>5
<1>. QED BY <1>4, <1>5 DEF m

(* The banner agrees with the payments.                                     *)
LEMMA BannerHolds ==
  ASSUME Report!RevenueAssumption, Report!RevenueInv
  PROVE  Report!BannerAgrees
<1>. DEFINE paid == Report!Priced(Report!All)
            month == {i \in paid : settled[i].ts >= Report!StartOfMonth(today)}
            banner == Report!SummarizeSavings(Report!All)
            net == [i \in paid |-> Report!NetSavings(i)]
<1>1. /\ banner.total = Report!Fees(paid) /\ banner.month = Report!Fees(month)
      /\ banner.monthCount = Report!Cardinality(month)
  BY DEF Report!SummarizeSavings
<1>2. month \in SUBSET paid /\ paid \in SUBSET paid
  OBVIOUS
<1>3. /\ IsFiniteSet(paid) /\ IsFiniteSet(month) /\ net \in [paid -> Nat]
      /\ Report!Fees(paid).savings = Report!Total(net)
      /\ Report!Fees(month).savings = Report!Total([i \in month |-> Report!NetSavings(i)])
  BY <1>2, FeesSay
<1>4. [i \in month |-> Report!NetSavings(i)] = On(net, month)
  BY <1>2 DEF On
<1>5. Report!Total(On(net, month)) <= Report!Total(net)
  BY <1>2, <1>3, TotalOfPart
<1>6. ASSUME NEW days \in RangeDays \ {0}, today - (days - 1) * Day >= Report!StartOfMonth(today)
      PROVE  Report!Cardinality(Report!Priced(Report!FilterByRange(days))) <= Report!Cardinality(month)
  <2>. DEFINE x == today - (days - 1) * Day
  <2>1. x \in Int
    <3>3. Day \in Nat \ {0} /\ WeeklyAbove \in Nat /\ days \in 0 .. WeeklyAbove
      BY DEF Report!RevenueAssumption
    <3>1. days - 1 \in Int /\ Day \in Nat \ {0} /\ today \in Int
      BY ONLY <3>3, RowFacts, Report!RevenueAssumption, Report!RevenueInv
    <3>2. (days - 1) * Day \in Int
      BY <3>1, TimesMore
    <3>. QED BY <3>1, <3>2
  <2>2. Report!StartOfDay(x) >= Report!StartOfMonth(today)
    BY <1>6, <2>1, MonthStart
  <2>3. Report!StartOfDay(x) \in Int /\ Report!StartOfMonth(today) \in Int
    BY <2>1, DayOfDay, MonthStart
  <2>4. Report!FilterByRange(days) = {i \in Report!All : settled[i].ts >= Report!StartOfDay(x)}
    BY DEF Report!FilterByRange
  <2>. HIDE DEF x
  <2>5. Report!Priced(Report!FilterByRange(days)) \subseteq month
    BY <2>2, <2>3, <2>4, RowFacts DEF Report!Priced
  <2>. QED BY <1>3, <2>5, FS_Subset, ReportCount
<1>. HIDE DEF net, banner
<1>7. /\ banner.total.savings = Report!Total(net)
      /\ banner.month.savings = Report!Total([i \in month |-> Report!NetSavings(i)])
      /\ banner.month.savings <= banner.total.savings
      /\ \A days \in RangeDays \ {0} :
           today - (days - 1) * Day >= Report!StartOfMonth(today) =>
             Report!Cardinality(Report!Priced(Report!FilterByRange(days))) <= banner.monthCount
  BY <1>1, <1>3, <1>4, <1>5, <1>6
<1>8. month = {i \in Report!Priced(Report!All) : settled[i].ts >= Report!StartOfMonth(today)}
  OBVIOUS
<1>. QED BY <1>7, <1>8 DEF Report!BannerAgrees, net, banner

-----------------------------------------------------------------------------
(* The reports start from rows and go on having rows.                       *)
LEMMA RevenueKept == ASSUME Report!RevenueAssumption PROVE Report!Spec => []Report!RevenueInv
<1>1. Report!Init => Report!RevenueInv
  BY DEF Report!Init, Report!RevenueInv
<1>2. Report!RevenueInv /\ [Report!Next]_(Report!vars) => Report!RevenueInv'
  <2>1. ASSUME Report!RevenueInv, NEW entry \in Report!Rows(today), Report!Settle(entry)
        PROVE Report!RevenueInv'
    <3>1. today' = today /\ settled' = Append(settled, entry) /\ settled \in Seq(Report!Rows(today))
      BY <2>1 DEF Report!Settle, Report!RevenueInv
    <3>2. settled' \in Seq(Report!Rows(today))
      BY <3>1, AppendProperties
    <3>3. Report!Rows(today)' = Report!Rows(today)
      BY <3>1 DEF Report!Rows
    <3>. QED BY <2>1, <3>1, <3>2, <3>3 DEF Report!RevenueInv
  <2>2. ASSUME Report!RevenueInv, UNCHANGED Report!vars PROVE Report!RevenueInv'
    BY <2>2 DEF Report!RevenueInv, Report!Rows, Report!vars
  <2>. QED BY <2>1, <2>2 DEF Report!Next
<1>. QED BY <1>1, <1>2, PTL DEF Report!Spec

LEMMA ReportRuns == MCSpec => []~(machine = "revenue") \/ Report!Spec
<1>1. MCInit /\ machine = "revenue" => Report!Init
  BY DEF MCInit
<1>2. machine = "revenue" /\ [MCNext]_all => (machine = "revenue")' /\ [Report!Next]_(Report!vars)
  BY DEF MCNext, all, inst, Report!vars
<1>3. ~(machine = "revenue") /\ [MCNext]_all => (~(machine = "revenue"))'
  BY DEF MCNext, all
<1>. QED BY <1>1, <1>2, <1>3, PTL DEF MCSpec, Report!Spec

(* The breakdown by route and the chart of a merchant's revenue count the   *)
(* same money, whoever grouped the payments, whatever the range, the asset  *)
(* and the bucket; and the banner's savings are the sum of the payments'.   *)
THEOREM ReportsAlwaysAgree ==
  ASSUME Report!RevenueAssumption
  PROVE  MCSpec => []ReportsAgree
<1>1. Report!RevenueInv => Report!ReportsAgree
  BY RevenueHolds, BannerHolds DEF Report!ReportsAgree
<1>2. Report!Spec => []Report!ReportsAgree
  BY <1>1, RevenueKept, PTL
<1>3. ~(machine = "revenue") \/ Report!ReportsAgree => ReportsAgree
  BY DEF ReportsAgree
<1>. QED BY <1>2, <1>3, ReportRuns, PTL
=============================================================================
