----------------------------- MODULE Settlement -----------------------------
(***************************************************************************)
(* A settlement report from the seller's process to the payments row: the  *)
(* SDK signs a body once and POSTs it until it is answered (index.ts,      *)
(* retry.ts); the hook (api/hook/settle) checks the signed time, then      *)
(* claims the signature as a nonce and writes the attribution in one       *)
(* transaction (lib/db.ts).  Answers get lost, calls die, the same bytes   *)
(* may arrive again, calls for one report overlap.                         *)
(*                                                                         *)
(* Time is counted in ticks of the server; the seller's clock is off by at *)
(* most Drift.  A signature verifies, or the body never reaches this model.*)
(***************************************************************************)
EXTENDS Integers, FiniteSets

CONSTANTS Reports,      \* signed bodies
          Calls,        \* invocations of the hook, in all
          PaymentOf,    \* [Reports -> payments]
          Dated,        \* reports that carry reported_at
          Drift,        \* the seller's clock errors, a set of integers
          MaxAge,       \* HOOK_MAX_AGE_MS, five minutes
          Skew,         \* the five minutes a report may lie ahead
          Retention,    \* SETTLE_NONCE_RETENTION_MS, 30 days
          CallLife,     \* how long the platform lets a call run
          MaxRetries,   \* of fetchWithRetry (3)
          MaxFaults,    \* bound: failures, lost answers, killed calls
          MaxClock      \* bound: the last tick

SettlementAssumption ==
  /\ Dated \subseteq Reports /\ Drift \subseteq Int
  /\ MaxAge \in Nat /\ Skew \in Nat /\ CallLife \in Nat
  /\ Retention \in Nat /\ Retention >= MaxAge + Skew + CallLife
  /\ MaxRetries \in Nat /\ MaxFaults \in Nat /\ MaxClock \in Nat

VARIABLES clock,
          signed,    \* reported_at of each body
          sender,    \* the SDK's call of reportSettlement, per report
          call,      \* the hook's invocations
          nonces,    \* settle_nonces: first_seen by signature
          row,       \* hook_reported_at of each payment's row, and by whom
          taken,     \* ghost: how often a report's write was committed
          faults
vars == <<clock, signed, sender, call, nonces, row, taken, faults>>

Absent == -1
Payments == {PaymentOf[r] : r \in Reports}
Unreported == [at |-> Absent, by |-> "nobody"]
NoSender == [pc |-> "idle", attempt |-> 0, result |-> "none"]
NoCall == [pc |-> "free", report |-> "none", attempt |-> 0, since |-> 0, now |-> 0, at |-> 0]

Init == /\ clock = 0
        /\ signed = [r \in Reports |-> 0]
        /\ sender = [r \in Reports |-> NoSender]
        /\ call = [c \in Calls |-> NoCall]
        /\ nonces = [r \in Reports |-> Absent]
        /\ row = [p \in Payments |-> Unreported]
        /\ taken = [r \in Reports |-> 0]
        /\ faults = 0

----------------------------------------------------------------------------
Live(c) == call[c].pc \notin {"free", "over"}
Open(c) == call[c].pc \in {"begun", "claimed", "written"}

(* The platform ends a call that has run its time. *)
Tick == /\ clock < MaxClock
        /\ \A c \in Calls : Live(c) => clock < call[c].since + CallLife
        /\ clock' = clock + 1
        /\ UNCHANGED <<signed, sender, call, nonces, row, taken, faults>>

Fault == faults < MaxFaults /\ faults' = faults + 1

----------------------------------------------------------------------------
(* The seller.  createSettleHook and attachAccensaHook report a settlement *)
(* that succeeded, has a hash and a route; the body is signed once.        *)
Results == [success : BOOLEAN, hash : BOOLEAN, route : BOOLEAN]
Usable(result) == result.success /\ result.hash /\ result.route

Settle(r) ==
  /\ sender[r].pc = "idle"
  /\ \E result \in Results, d \in Drift :
       IF Usable(result)
       THEN /\ signed' = [signed EXCEPT ![r] = clock + d]
            /\ sender' = [sender EXCEPT ![r].pc = "send"]
       ELSE /\ sender' = [sender EXCEPT ![r].pc = "done", ![r].result = "nothing"]
            /\ UNCHANGED signed
  /\ UNCHANGED <<clock, call, nonces, row, taken, faults>>

(* A POST reaches the hook: one of the SDK's tries, or the same bytes once *)
(* more (attempt 0).                                                       *)
Arrive(r, n) ==
  LET free == {c \in Calls : call[c].pc = "free"} IN
  /\ free # {}
  /\ call' = [call EXCEPT ![CHOOSE c \in free : TRUE] =
                [pc |-> "received", report |-> r, attempt |-> n, since |-> clock,
                 now |-> 0, at |-> 0]]

Post(r) ==
  /\ sender[r].pc = "send"
  /\ Arrive(r, sender[r].attempt + 1)
  /\ sender' = [sender EXCEPT ![r].pc = "wait", ![r].attempt = @ + 1]
  /\ UNCHANGED <<clock, signed, nonces, row, taken, faults>>

Repeat(r) ==
  /\ sender[r].attempt > 0 /\ Arrive(r, 0)
  /\ UNCHANGED <<clock, signed, sender, nonces, row, taken, faults>>

(* fetchWithRetry on what a try came to: a 2xx ends the loop, a 4xx throws, *)
(* a 5xx or a broken connection is tried again while retries are left.     *)
\* Mutant of After: any answer of the server counts as delivered.
AfterAnyAnswer(s, outcome) ==
  IF outcome # "broken" THEN [s EXCEPT !.pc = "done", !.result = "recorded"]
  ELSE [s EXCEPT !.pc = "done", !.result = "failed"]
After(s, outcome) ==
  IF outcome \in {"recorded", "too old", "future", "replayed"}
  THEN [s EXCEPT !.pc = "done", !.result = outcome]
  ELSE IF s.attempt > MaxRetries
       THEN [s EXCEPT !.pc = "done", !.result = "failed"]
       ELSE [s EXCEPT !.pc = "send"]

Waiting(r, n) == n > 0 /\ sender[r].pc = "wait" /\ sender[r].attempt = n

\* The hook answers; whoever still waits for that try hears it.
Answer(c, outcome) ==
  LET r == call[c].report IN
  /\ call' = [call EXCEPT ![c].pc = "over"]
  /\ sender' = IF Waiting(r, call[c].attempt)
               THEN [sender EXCEPT ![r] = After(@, outcome)] ELSE sender

(* The connection breaks although the call goes on. *)
Break(r) ==
  /\ sender[r].pc = "wait" /\ Fault
  /\ sender' = [sender EXCEPT ![r] = After(@, "broken")]
  /\ UNCHANGED <<clock, signed, call, nonces, row, taken>>

(* The AbortController's timer: during a try, or before the next one. *)
Abort(r) ==
  /\ sender[r].pc \in {"wait", "send"} /\ sender[r].attempt > 0 /\ Fault
  /\ sender' = [sender EXCEPT ![r].pc = "done", ![r].result = "failed"]
  /\ UNCHANGED <<clock, signed, call, nonces, row, taken>>

----------------------------------------------------------------------------
(* The hook.  parseSettlementReport compares the signed time with now. *)
\* Mutant of TooOld: the age is not compared.
NeverTooOld(r) == FALSE
TooOld(r) == r \in Dated /\ clock - signed[r] > MaxAge
Ahead(r) == r \in Dated /\ signed[r] > clock + Skew

Validate(c) ==
  /\ call[c].pc = "received"
  /\ LET r == call[c].report IN
     CASE TooOld(r) -> Answer(c, "too old")
       [] ~TooOld(r) /\ Ahead(r) -> Answer(c, "future")
       [] OTHER -> /\ call' = [call EXCEPT ![c].pc = "parsed"]
                   /\ UNCHANGED sender
  /\ UNCHANGED <<clock, signed, nonces, row, taken, faults>>

\* BEGIN fixes now() for the transaction.
Begin(c) ==
  /\ call[c].pc = "parsed"
  /\ call' = [call EXCEPT ![c].pc = "begun", ![c].now = clock]
  /\ UNCHANGED <<clock, signed, sender, nonces, row, taken, faults>>

\* What the sweep in consumeSettlementNonce leaves of the table.
Remembered(now) ==
  [r \in Reports |-> IF nonces[r] # Absent /\ nonces[r] < now - Retention
                     THEN Absent ELSE nonces[r]]

(* INSERT ... ON CONFLICT DO NOTHING; a nonce another open transaction has *)
(* inserted is waited for.                                                 *)
ClaimNonce(c) ==
  LET r == call[c].report IN
  /\ call[c].pc = "begun"
  /\ ~\E d \in Calls : call[d].pc \in {"claimed", "written"} /\ call[d].report = r
  /\ IF Remembered(call[c].now)[r] = Absent
     THEN call' = [call EXCEPT ![c].pc = "claimed"] /\ UNCHANGED sender
     ELSE Answer(c, "replayed")
  /\ UNCHANGED <<clock, signed, nonces, row, taken, faults>>

\* Mutant of Newer: the later write wins.
LastWrite(old, at) == TRUE
Newer(old, at) == old.by = "nobody" \/ old.at < at

\* An undated body counts as written now.
ReportedAt(r) == IF r \in Dated THEN signed[r] ELSE clock

(* recordSettlement: UPDATE, then INSERT ... ON CONFLICT DO UPDATE, both   *)
(* only over an older report; the row is locked until the end.             *)
RecordSettlement(c) ==
  LET p == PaymentOf[call[c].report] IN
  /\ call[c].pc = "claimed"
  /\ ~\E d \in Calls : call[d].pc = "written" /\ PaymentOf[call[d].report] = p
  /\ call' = [call EXCEPT ![c].pc = "written", ![c].at = ReportedAt(call[c].report)]
  /\ UNCHANGED <<clock, signed, sender, nonces, row, taken, faults>>

\* What COMMIT makes visible: the sweep, the nonce, the attribution.
Effects(c) ==
  LET r == call[c].report
      p == PaymentOf[r] IN
  /\ nonces' = [Remembered(call[c].now) EXCEPT ![r] = call[c].now]
  /\ row' = IF Newer(row[p], call[c].at) THEN [row EXCEPT ![p] = [at |-> call[c].at, by |-> r]] ELSE row
  /\ taken' = [taken EXCEPT ![r] = @ + 1]

Commit(c) ==
  /\ call[c].pc = "written"
  /\ Effects(c) /\ Answer(c, "recorded")
  /\ UNCHANGED <<clock, signed, faults>>

(* COMMIT went through but its answer did not: the route sends a 500. *)
CommitUnheard(c) ==
  /\ call[c].pc = "written" /\ Fault
  /\ Effects(c) /\ Answer(c, "broken")
  /\ UNCHANGED <<clock, signed>>

\* Mutant of Undo: the claim is committed on its own, before the write.
UndoKeepsNonce(c) ==
  /\ nonces' = IF call[c].pc \in {"claimed", "written"}
               THEN [nonces EXCEPT ![call[c].report] = call[c].now] ELSE nonces
  /\ UNCHANGED <<row, taken>>
\* ROLLBACK, or the connection's end.
Undo(c) == UNCHANGED <<nonces, row, taken>>

(* A statement fails and the route answers 500, or the platform ends the    *)
(* call and the connection breaks: to the SDK these are the same.           *)
Fail(c) ==
  /\ Live(c) /\ Fault
  /\ Undo(c) /\ Answer(c, "broken")
  /\ UNCHANGED <<clock, signed>>

Next == \/ Tick
        \/ \E r \in Reports : Settle(r) \/ Post(r) \/ Repeat(r) \/ Break(r) \/ Abort(r)
        \/ \E c \in Calls : \/ Validate(c) \/ Begin(c) \/ ClaimNonce(c)
                            \/ RecordSettlement(c) \/ Commit(c) \/ CommitUnheard(c)
                            \/ Fail(c)

Spec == Init /\ [][Next]_vars
----------------------------------------------------------------------------
(* A dated report takes effect once, however often and however late its     *)
(* bytes arrive: while it is young enough to be accepted its nonce is       *)
(* remembered, although nonces are swept and calls take time between the    *)
(* check of the age and the claim.                                          *)
TakenOnce == \A r \in Dated : taken[r] <= 1

(* What the SDK is told is true: after 200 and after report_replayed the    *)
(* attribution is in the database; a claim whose write was rolled back      *)
(* never makes the retry look like a replay.                                *)
AnswersAreTrue ==
  \A r \in Reports : sender[r].result \in {"recorded", "replayed"} => taken[r] > 0

(* A payment's attribution is that of the newest report taken for it, in    *)
(* whatever order the reports were sent, retried and committed.             *)
NewestReportWins ==
  \A r \in Dated : taken[r] > 0 => row[PaymentOf[r]].at >= signed[r]
=============================================================================
