------------------------------ MODULE MCBrowser ------------------------------
(****************************************************************************)
(* What keeps itself up to date in a browser or a merchant's server: the    *)
(* wallet's session, the payment table, the notification drawer, live       *)
(* updates, the checkout widget, the SDK's socket and its subscriptions.    *)
(* TLC starts in the initial states of each module in turn and stays with   *)
(* it.  The parameters of the machines that are proved about are CONSTANTS  *)
(* of this module: Browser_proofs has the theorems, for all their values.   *)
(****************************************************************************)
EXTENDS Integers, Sequences

VARIABLES machine, v1, v2, v3, v4, v5, v6, v7, v8, v9, v10, v11

CONSTANTS
  Tabs, Most, Limit, MaxClicks, MaxFaults,                          \* "center"
  Interval, TrialDays, GraceDays, MaxClock, MaxCharges, MaxChanges, \* "billing"
  MaxAttempts, MaxRenders, MaxSends                                 \* "widget"

TsInOrder == [p \in 1 .. 2 |-> p]

Wallet == INSTANCE WalletSession WITH
  Accounts <- {"A", "B"}, Handlers <- {1, 2}, MaxSwitches <- 1,
  MaxLogins <- 1, wallet <- v1, events <- v2, account <- v3, session <- v4,
  marker <- v5, cookie <- v6, handler <- v7, toast <- v8, signing <- v9,
  switches <- v10, logins <- v11
Table == INSTANCE DashboardTable WITH
  Payment <- {1, 2}, TsOf <- TsInOrder, Matches <- {1, 2}, PageSize <- 1,
  Pages <- {1, 2}, MaxChanges <- 1, MaxMoves <- 2, MaxFaults <- 1,
  rows <- v1, page <- v2, online <- v3, cache <- v4, failed <- v5,
  request <- v6, sync <- v7, changes <- v8, moves <- v9, faults <- v10
Updates == INSTANCE LiveUpdates WITH
  Tabs <- {"t1", "t2"}, Streams <- {"s1", "s2", "s3"}, MaxRetry <- 1,
  MaxRuns <- 1, tab <- v1, stream <- v2, members <- v3, registered <- v4,
  runs <- v5
Center == INSTANCE NotificationCenter WITH
  created <- v1, read <- v2, gone <- v3, shown <- v4, failed <- v5,
  fetch <- v6, action <- v7, ended <- v8, clicks <- v9, faults <- v10
Billing == INSTANCE Subscriptions WITH
  now <- v1, sub <- v2, charges <- v3, changes <- v4
Widget == INSTANCE CheckoutWidget WITH
  attempt <- v1, render <- v2, disabled <- v3, toPage <- v4, toWidget <- v5,
  wallet <- v6, reported <- v7, sends <- v8
Socket == INSTANCE ReconnectingSocket WITH
  Interval <- 3, PongTimeout <- 2, MaxDelay <- 4, MaxCut <- 3, link <- v1,
  attempt <- v2, closed <- v3, reconnect <- v4, ping <- v5, pong <- v6,
  told <- v7, cuts <- v8

ASSUME Table!PaymentQueryAssumption
ASSUME Socket!SocketAssumption
ASSUME Billing!SubscriptionAssumption

inst == <<v1, v2, v3, v4, v5, v6, v7, v8, v9, v10, v11>>
all == <<machine, inst>>

(* The variables a machine of so many does without. *)
No4 == v5 = 0 /\ v6 = 0 /\ v7 = 0 /\ v8 = 0 /\ v9 = 0 /\ v10 = 0 /\ v11 = 0
Keep4 == UNCHANGED <<v5, v6, v7, v8, v9, v10, v11>>
No5 == v6 = 0 /\ v7 = 0 /\ v8 = 0 /\ v9 = 0 /\ v10 = 0 /\ v11 = 0
Keep5 == UNCHANGED <<v6, v7, v8, v9, v10, v11>>
No8 == v9 = 0 /\ v10 = 0 /\ v11 = 0
Keep8 == UNCHANGED <<v9, v10, v11>>
No10 == v11 = 0
Keep10 == UNCHANGED <<v11>>

MCInit ==
  \/ machine = "wallet" /\ Wallet!Init
  \/ machine = "table" /\ Table!Init /\ No10
  \/ machine = "updates" /\ Updates!Init /\ No5
  \/ machine = "center" /\ Center!Init /\ No10
  \/ machine = "billing" /\ Billing!Init /\ No4
  \/ machine = "widget" /\ Widget!Init /\ No8
  \/ machine = "socket" /\ Socket!Init /\ No8

MCNext ==
  \/ machine = "wallet" /\ Wallet!Next /\ UNCHANGED machine
  \/ machine = "table" /\ Table!Next /\ Keep10 /\ UNCHANGED machine
  \/ machine = "updates" /\ Updates!Next /\ Keep5 /\ UNCHANGED machine
  \/ machine = "center" /\ Center!Next /\ Keep10 /\ UNCHANGED machine
  \/ machine = "billing" /\ Billing!Next /\ Keep4 /\ UNCHANGED machine
  \/ machine = "widget" /\ Widget!Next /\ Keep8 /\ UNCHANGED machine
  \/ machine = "socket" /\ Socket!Next /\ Keep8 /\ UNCHANGED machine

MCSafe == MCInit /\ [][MCNext]_all

(* The fairness of the modules, each for its own machine. *)
MCSpec ==
  /\ MCSafe
  /\ \A h \in {1, 2} : WF_all(machine = "wallet" /\ Wallet!Logout(h) /\ UNCHANGED machine)
  /\ \A h \in {1, 2} : WF_all(machine = "wallet" /\ Wallet!FinishChange(h) /\ UNCHANGED machine)
  /\ \A k \in {1, 2} : WF_all(machine = "table" /\ Table!Progress(k) /\ Keep10 /\ UNCHANGED machine)
  /\ \A s \in {"s1", "s2", "s3"} : WF_all(machine = "updates" /\ Updates!Abort(s) /\ Keep5 /\ UNCHANGED machine)
  /\ \A t \in Tabs : WF_all(machine = "center" /\ Center!Poll(t) /\ Keep10 /\ UNCHANGED machine)
  /\ \A t \in Tabs : WF_all(machine = "center" /\ Center!Fetch(t) /\ Keep10 /\ UNCHANGED machine)
  /\ \A t \in Tabs : WF_all(machine = "center" /\ Center!Act(t) /\ Keep10 /\ UNCHANGED machine)
  /\ WF_all(machine = "billing" /\ Billing!DayPasses /\ Keep4 /\ UNCHANGED machine)
  /\ WF_all(machine = "billing" /\ Billing!AdvancePeriod /\ Keep4 /\ UNCHANGED machine)
  /\ \A n \in 1 .. MaxAttempts : WF_all(machine = "widget" /\ (n \in Widget!Started /\ Widget!MessageTimeout(n)) /\ Keep8 /\ UNCHANGED machine)
  /\ WF_all(machine = "widget" /\ Widget!PageReceives /\ Keep8 /\ UNCHANGED machine)
  /\ WF_all(machine = "widget" /\ Widget!HandleAnswer /\ Keep8 /\ UNCHANGED machine)
  /\ WF_all(machine = "socket" /\ Socket!Tick /\ Keep8 /\ UNCHANGED machine)
  /\ WF_all(machine = "socket" /\ Socket!Ping /\ Keep8 /\ UNCHANGED machine)
  /\ WF_all(machine = "socket" /\ Socket!PongTimedOut /\ Keep8 /\ UNCHANGED machine)
  /\ WF_all(machine = "socket" /\ Socket!Reconnect /\ Keep8 /\ UNCHANGED machine)
  /\ WF_all(machine = "socket" /\ Socket!Open /\ Keep8 /\ UNCHANGED machine)

OutcomesShow ==
  /\ machine = "center" => Center!ActionsShow
  /\ machine = "widget" => Widget!OutcomesAreTrue
MismatchEndsSession ==
  \A h \in {1, 2}, a \in {"A", "B"} :
    (machine = "wallet" /\ Wallet!Mismatched(h, a)) ~> (machine = "wallet" => Wallet!Ended(a))
CatchesUp ==
  /\ <>[](machine = "table" => (v3 => Table!UpToDate))
  /\ <>[](machine = "center" => Center!UpToDate)
EndsStay == [][machine = "billing" => Billing!EndStays]_all
CancellationHolds ==
  /\ EndsStay
  /\ (machine = "billing" /\ Billing!Leaving) ~> (machine = "billing" => Billing!Left)
DeadAreReleased ==
  \A s \in {"s1", "s2", "s3"} :
    (machine = "updates" /\ Updates!Cancelled(s)) ~> (machine = "updates" => Updates!Released(s))
SilenceIsNoticed ==
  /\ (machine = "socket" /\ Socket!Silent) ~> (machine = "socket" => Socket!Replaced)
  /\ \A n \in 1 .. MaxAttempts :
       (machine = "widget" /\ n \in Widget!Started) ~> (machine = "widget" => Widget!Over(n))
  /\ [](machine = "socket" => Socket!OneWayOn)
==============================================================================
