---------------------------- MODULE Subscriptions ---------------------------
(***************************************************************************)
(* packages/sdk/src/subscription/index.ts: one customer's subscription,    *)
(* driven by the customer, by the renewal job and by charges that settle   *)
(* when they settle.  Time is in days; a billing period is an interval of  *)
(* so many, whatever the calendar makes of it.                             *)
(***************************************************************************)
EXTENDS Integers

CONSTANTS
  Interval,           \* the days nextBillingDate adds
  TrialDays, GraceDays,
  MaxClock, MaxCharges, MaxChanges    \* bounds

SubscriptionAssumption ==
  Interval \in Nat \ {0} /\ {TrialDays, GraceDays} \subseteq Nat

VARIABLES
  now,
  sub,
  charges,    \* outcomes of charges so far
  changes     \* cancellations and reactivations so far

vars == <<now, sub, charges, changes>>

NoGrace == -1
Ended == {"canceled", "expired"}

NextBillingDate(date) == date + Interval

\* startSubscription
Init ==
  /\ now = 0 /\ charges = 0 /\ changes = 0
  /\ sub = [status |-> IF TrialDays > 0 THEN "trialing" ELSE "active",
            start |-> 0,
            end |-> IF TrialDays > 0 THEN TrialDays ELSE NextBillingDate(0),
            grace |-> NoGrace,
            cancel |-> FALSE]     \* cancelAtPeriodEnd

DayPasses ==
  /\ now < MaxClock /\ now' = now + 1
  /\ UNCHANGED <<sub, charges, changes>>

-----------------------------------------------------------------------------
(* The renewal job and the charges.                                        *)

\* Mutant of Leaves: the job looks at the status alone.
LeavesByStatus == sub.status = "canceled"

Leaves == sub.cancel \/ sub.status = "canceled"

\* One period at a time, however late the job runs; within MaxClock.
AdvancePeriod ==
  /\ sub.end <= now
  /\ Leaves \/ NextBillingDate(sub.end) <= MaxClock
  /\ sub' = IF Leaves
            THEN [sub EXCEPT !.status = "expired"]
            ELSE [sub EXCEPT !.status = "active", !.start = sub.end,
                             !.end = NextBillingDate(sub.end), !.grace = NoGrace]
  /\ UNCHANGED <<now, charges, changes>>

ApplyChargeResult(succeeded) ==
  /\ charges < MaxCharges /\ charges' = charges + 1
  /\ sub' = IF succeeded
            THEN [sub EXCEPT !.status = "active", !.grace = NoGrace]
            ELSE [sub EXCEPT !.status = "past_due", !.grace = now + GraceDays]
  /\ UNCHANGED <<now, changes>>

ExpireIfGraceElapsed ==
  /\ sub.status = "past_due" /\ sub.grace # NoGrace /\ sub.grace <= now
  /\ sub' = [sub EXCEPT !.status = "expired"]
  /\ UNCHANGED <<now, charges, changes>>

-----------------------------------------------------------------------------
(* The customer.                                                           *)

Changes == changes < MaxChanges /\ changes' = changes + 1

CancelAtPeriodEnd ==
  /\ Changes /\ sub.status \notin Ended
  /\ sub' = [sub EXCEPT !.cancel = TRUE]
  /\ UNCHANGED <<now, charges>>

\* It throws when the subscription has ended.
Reactivate ==
  /\ Changes /\ sub.status \notin Ended
  /\ sub' = [sub EXCEPT !.cancel = FALSE]
  /\ UNCHANGED <<now, charges>>

CancelImmediately ==
  /\ Changes
  /\ sub' = [sub EXCEPT !.status = "canceled", !.cancel = TRUE, !.end = now]
  /\ UNCHANGED <<now, charges>>

Next ==
  \/ DayPasses \/ AdvancePeriod \/ ExpireIfGraceElapsed
  \/ \E succeeded \in BOOLEAN : ApplyChargeResult(succeeded)
  \/ CancelAtPeriodEnd \/ Reactivate \/ CancelImmediately

\* Days pass and the job is run.
Spec == Init /\ [][Next]_vars /\ WF_vars(DayPasses) /\ WF_vars(AdvancePeriod)

-----------------------------------------------------------------------------
(* A customer who has cancelled, and has not taken it back, is not billed  *)
(* for another period: charges that settle late, fail or are retried do    *)
(* not move its end past the day it was given, and the subscription ends.  *)
EndStays == sub.cancel /\ sub'.cancel => sub'.end <= sub.end \/ sub'.end = now
Leaving == sub.cancel
Left == sub.status = "expired" \/ ~sub.cancel
CancellationHolds == [][EndStays]_vars /\ (Leaving ~> Left)

-----------------------------------------------------------------------------
(* The inductive invariant behind EndStays.                                 *)

(* What a subscription is made of.                                          *)
Fields == {"status", "start", "end", "grace", "cancel"}

BillingInv == now \in Nat /\ DOMAIN sub = Fields /\ sub.end \in Nat
=============================================================================
