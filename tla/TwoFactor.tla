------------------------------ MODULE TwoFactor ------------------------------
(***************************************************************************)
(* Two-factor enrolment of one merchant: merchant_totp in lib/auth/totp.ts, *)
(* the routes totp/generate and totp/verify, the limiter in front of them  *)
(* and the setup modal.  Every await of a route is a step, so requests of   *)
(* several tabs interleave.                                                *)
(*                                                                         *)
(* A submitted code is a record: the six digits an authenticator shows for *)
(* a secret (0: for none), or a recovery code.  A recovery code is told by  *)
(* the lengths of its two groups, as the route's pattern tells it.         *)
(***************************************************************************)
EXTENDS Integers, FiniteSets

CONSTANTS Requests,      \* POSTs to totp/verify, in all
          MaxSecrets,    \* bound: enrolments started
          MaxAttempts    \* TOTP_MAX_ATTEMPTS (5)

TwoFactorAssumption == MaxSecrets \in Nat /\ MaxAttempts \in Nat

VARIABLES enrolment,  \* the merchant_totp row
          issued,     \* secrets generated so far
          hits,       \* attempts in the limiter's window
          request,    \* the route's invocations
          modal,      \* the setup modal of one tab
          stored      \* ghost: secrets stored since a request began
vars == <<enrolment, issued, hits, request, modal, stored>>

Kinds == {"activate", "disable", "challenge"}
NoRow == [secret |-> 0, enabled |-> FALSE]

(* generateBackupCodes: five random bytes are ten hex digits, cut after 4. *)
GeneratedGroups == <<4, 2 * 5 - 4>>
PatternGroups == <<4, 4>>
Digits == [form : {"digits"}, of : 0..MaxSecrets]
Recovery == [form : {"recovery"}, of : 1..MaxSecrets]
Tokens == Digits \cup Recovery

Idle == [pc |-> "idle", kind |-> "none", token |-> [form |-> "digits", of |-> 0],
         record |-> NoRow, by |-> "client", result |-> "none"]

Init == /\ enrolment = NoRow
        /\ issued = 0
        /\ hits = 0
        /\ request = [r \in Requests |-> Idle]
        /\ modal = "closed"
        /\ stored = [r \in Requests |-> {}]

----------------------------------------------------------------------------
(* Generate.  A new secret overwrites the row, pending, whatever it held.  *)
StorePending ==
  /\ issued < MaxSecrets
  /\ issued' = issued + 1
  /\ enrolment' = [secret |-> issued + 1, enabled |-> FALSE]
  /\ stored' = [r \in Requests |-> IF request[r].pc \in {"idle", "done"} THEN stored[r]
                                   ELSE stored[r] \cup {issued + 1}]

\* Any admin session may start an enrolment; a viewer's is refused.
Generate == StorePending /\ UNCHANGED <<hits, request, modal>>

(* The modal fetches a secret whenever it opens. *)
OpenModal == /\ modal = "closed"
             /\ StorePending
             /\ modal' = "scan"
             /\ UNCHANGED <<hits, request>>
CloseModal == modal \in {"scan", "finished"} /\ modal' = "closed"
              /\ UNCHANGED <<enrolment, issued, hits, request, stored>>

----------------------------------------------------------------------------
WellFormed(token) == token.form = "digits" \/ GeneratedGroups = PatternGroups

\* Mutant of Blocked: the limit is not looked at.
NeverBlocked == FALSE
Blocked == hits >= MaxAttempts

Ended(r, how) == request' = [request EXCEPT ![r].pc = "done", ![r].result = how]

(* The pattern, then the limiter, before anything is compared. *)
Submit(r, kind, token, by) ==
  LET q == [Idle EXCEPT !.pc = "limited", !.kind = kind, !.token = token, !.by = by] IN
  /\ request[r].pc = "idle"
  /\ stored' = [stored EXCEPT ![r] = {enrolment.secret}]
  /\ IF ~WellFormed(token)
     THEN /\ request' = [request EXCEPT ![r] = [q EXCEPT !.pc = "done", !.result = "malformed"]]
          /\ UNCHANGED hits
     ELSE IF Blocked
          THEN /\ request' = [request EXCEPT ![r] = [q EXCEPT !.pc = "done", !.result = "blocked"]]
               /\ UNCHANGED hits
          ELSE request' = [request EXCEPT ![r] = q] /\ hits' = hits + 1
  /\ UNCHANGED <<enrolment, issued>>

Post(r) == /\ \E kind \in Kinds, token \in Tokens : Submit(r, kind, token, "client")
           /\ UNCHANGED modal

\* handleVerify sends the code and the secret, and neither flag.
ModalVerify(r) == /\ modal = "scan" /\ modal' = "verifying"
                  /\ \E token \in Digits : Submit(r, "challenge", token, "modal")

\* isTotpEnabled: a read of its own, ahead of disable and challenge.
IsTotpEnabled(r) ==
  /\ request[r].pc = "limited" /\ request[r].kind # "activate"
  /\ IF enrolment.enabled THEN request' = [request EXCEPT ![r].pc = "enabled"]
                          ELSE Ended(r, "not enabled")
  /\ UNCHANGED <<enrolment, issued, hits, modal, stored>>

\* getTotpRecord; activateTotp ends at once without a row or on an active one.
GetTotpRecord(r) ==
  /\ \/ request[r].pc = "enabled"
     \/ request[r].pc = "limited" /\ request[r].kind = "activate"
  /\ CASE enrolment.secret = 0 -> Ended(r, "not enrolled")
       [] enrolment.secret # 0 /\ enrolment.enabled /\ request[r].kind = "activate" -> Ended(r, "ok")
       [] OTHER -> request' = [request EXCEPT ![r].pc = "compare", ![r].record = enrolment]
  /\ UNCHANGED <<enrolment, issued, hits, modal, stored>>

\* Mutant of RightCode: any six digits are taken.
AnyDigits(r) == request[r].token.form = "digits"
(* verifyTotpToken on the record that was read.  A recovery code is in no   *)
(* stored set once it has passed the pattern, so redeemBackupCode fails.    *)
RightCode(r) == /\ request[r].token.form = "digits"
                /\ request[r].token.of = request[r].record.secret

Compare(r) ==
  /\ request[r].pc = "compare"
  /\ IF RightCode(r) THEN request' = [request EXCEPT ![r].pc = "proved"] ELSE Ended(r, "invalid")
  /\ UNCHANGED <<enrolment, issued, hits, modal, stored>>

\* What a right code does: the row is written whatever it holds by now.
Write(r) ==
  CASE request[r].kind = "activate" ->
         enrolment' = IF enrolment.secret = 0 THEN NoRow ELSE [enrolment EXCEPT !.enabled = TRUE]
    [] request[r].kind = "disable" -> enrolment' = NoRow
    [] OTHER -> UNCHANGED enrolment

Conclude(r) ==
  /\ request[r].pc = "proved"
  /\ Write(r)
  /\ hits' = 0          \* clearTotpAttempts
  /\ Ended(r, "ok")
  /\ UNCHANGED <<issued, modal, stored>>

\* The route's answer to the modal: step 2 on success, the error otherwise.
ModalAnswer(r) ==
  /\ modal = "verifying" /\ request[r].by = "modal" /\ request[r].pc = "done"
  /\ modal' = IF request[r].result = "ok" THEN "finished" ELSE "scan"
  /\ UNCHANGED <<enrolment, issued, hits, request, stored>>

\* Attempts fall out of the sliding window.
Lapse == hits > 0 /\ hits' \in 0..(hits - 1)
         /\ UNCHANGED <<enrolment, issued, request, modal, stored>>

Next == \/ Generate \/ OpenModal \/ CloseModal \/ Lapse
        \/ \E r \in Requests : \/ Post(r) \/ ModalVerify(r) \/ IsTotpEnabled(r)
                               \/ GetTotpRecord(r) \/ Compare(r) \/ Conclude(r)
                               \/ ModalAnswer(r)

Spec == Init /\ [][Next]_vars
----------------------------------------------------------------------------
(* Whoever gets a challenge token or has the enrolment removed has shown a  *)
(* code of a secret that was the stored one while the request ran, however  *)
(* requests and new enrolments interleave between the route's reads.       *)
ProofsAreEarned ==
  \A r \in Requests :
    request[r].result = "ok" /\ request[r].kind \in {"disable", "challenge"} =>
      request[r].token.form = "digits" /\ request[r].token.of \in stored[r] \ {0}

(* verify/route.ts: a challenge is met by "a valid code (authenticator or   *)
(* an unredeemed backup code)".  A recovery code that was handed out for the *)
(* enrolment in force is not turned away unread when it is sent to meet a    *)
(* challenge or to disable the enrolment.                                   *)
OwnRecovery == [form |-> "recovery", of |-> enrolment.secret]
BackupCodesServe ==
  [][\A r \in Requests :
       enrolment.enabled /\ request[r].pc = "idle" /\ request'[r].token = OwnRecovery
         /\ request'[r].kind \in {"disable", "challenge"} => request'[r].result # "malformed"]_vars

-----------------------------------------------------------------------------
(* The inductive invariant behind ProofsAreEarned.                          *)
Row == [secret : Nat, enabled : BOOLEAN]

Call == [pc : {"idle", "limited", "enabled", "compare", "proved", "done"},
         kind : Kinds \cup {"none"}, token : [form : {"digits", "recovery"}, of : Nat],
         record : Row, by : {"client", "modal"},
         result : {"none", "malformed", "blocked", "not enabled", "not enrolled", "invalid", "ok"}]

(* The row and the records are shaped as the code has them. *)
Shaped == /\ enrolment \in Row /\ issued \in Nat
          /\ request \in [Requests -> Call]
          /\ stored \in [Requests -> SUBSET Nat]

(* What a request holds: the secret it read, and the code it compared, are  *)
(* of a secret that was the stored one while it ran.                        *)
Held(q, secrets) ==
  /\ q.pc \in {"compare", "proved"} => q.record.secret \in secrets \ {0}
  /\ q.pc = "proved" => q.token.form = "digits" /\ q.token.of = q.record.secret
  /\ q.result = "ok" => q.pc = "done"
  /\ q.result = "ok" /\ q.kind \in {"disable", "challenge"} =>
       q.token.form = "digits" /\ q.token.of \in secrets \ {0}

EarnedInv ==
  /\ Shaped
  /\ \A r \in Requests :
       /\ Held(request[r], stored[r])
       /\ request[r].pc \notin {"idle", "done"} => enrolment.secret \in stored[r] \cup {0}
=============================================================================
