----------------------------- MODULE MCServices ------------------------------
(****************************************************************************)
(* The services around the indexer: settlement reports (the module          *)
(* extended), signing in, the second factor, roles and stores, the upkeep   *)
(* of the tables, refunds, the payment history, revenue, the chat of a      *)
(* dispute, the SDK client's cache and the pricing engine.                  *)
(* TLC starts in the initial states of each in turn and stays with it.  The *)
(* parameters of the machines that are proved about are CONSTANTS of this   *)
(* module: Services_proofs has the theorems, for all their values.          *)
(****************************************************************************)
EXTENDS Settlement, Sequences

VARIABLES machine, v1, v2, v3, v4, v5, v6, v7, v8, v9

CONSTANTS
  Nonces, Posts, LoginBefore, LoginTTL, SweepAge, LoginClock,    \* "login"
  CodeRequests, MaxSecrets, MaxAttempts,                    \* "factor"
  Orgs, Addresses, Groups, MaxCalls, MaxSignIns,            \* "stores"
  UpkeepRequests, Tenant, MaxKills,                         \* "upkeep"
  Flows, Vaults, DefaultVault, VaultOf, MaxPolls,           \* "refund"
  Pages, MaxSent, MaxBreaks,                                \* "dispute"
  Clients, Wallets, MaxSends,                               \* "secure"
  ReadCalls, Paths, CacheTTL, Timeout, MaxVersions, MaxClears, ReadClock,   \* "reads"
  Payment, TsOf, Sought, PageSize, MaxPages, HistoryChanges,               \* "history"
  Rules, MaxRules, Quantities, Units,                                       \* "price"
  FullPercent, EuRates, StateRates, StateOf, RegionRate, UsRate, GlobalRate,      \* "checkout"
  Places, Subtotals, TipPercents, TipAmounts, Coupons, Rates, Shares, InitialShares,
  Balances, Slippage, CheckoutChanges,
  Day, Week, Thursday, RangeDays, WeeklyAbove, Assets, Routes, Methods,     \* "revenue"
  Prices, CardRate, CardFixed, NetworkFee, Months, Nows, Ages, Most

MCDrift == -1 .. 1
SamePayment == [r \in {"r1", "r2"} |-> "p"]
TsWithTie == [p \in 1 .. 4 |-> IF p = 1 THEN 1 ELSE IF p = 4 THEN 3 ELSE 2]
Amounts(kind) == IF kind \in {"markup_pct", "surcharge_pct"} THEN {-50, 150} ELSE {-2, 3}
MCAges == {92, 13, 12, -2}
MCRules ==
  UNION {[priority : {1, 2}, min : {1, 2}, max : {2, 9}, kind : {k}, amount : Amounts(k)] :
           k \in {"markup_pct", "markup_fixed", "surcharge_pct", "surcharge_fixed", "floor"}}
EuVat == [c \in {"DE"} |-> 20]
UsStates == [s \in {"CA", "OR"} |-> IF s = "CA" THEN 7 ELSE 0]
ZipCodes == [z \in {"9", "97"} |-> IF z = "9" THEN "CA" ELSE "OR"]
Address(country, code) ==
  [country |-> country, postalCode |-> code, type |-> "none", custom |-> -1, exempt |-> FALSE]
MCPlaces ==
  {Address("DE", ""), Address("US", "9"), Address("US", ""), Address("NG", ""),
   [Address("US", "97") EXCEPT !.custom = 9], [Address("DE", "9") EXCEPT !.type = "US_STATE"],
   [Address("DE", "") EXCEPT !.exempt = TRUE]}
MCCoupons ==
  {[kind |-> "fixed", value |-> 5, minSpend |-> 0, left |-> -1, stacks |-> FALSE, expired |-> FALSE],
   [kind |-> "percent", value |-> 20, minSpend |-> 7, left |-> 1, stacks |-> TRUE, expired |-> FALSE],
   [kind |-> "percent", value |-> 20, minSpend |-> 0, left |-> 0, stacks |-> TRUE, expired |-> FALSE]}
MCRates == {[xlm |-> <<1, 3>>, usdc |-> <<1, 1>>], [xlm |-> <<2, 1>>, usdc |-> <<1, 2>>],
            [xlm |-> <<0, 1>>, usdc |-> <<0, 1>>]}

Login == INSTANCE Login WITH
  Before <- LoginBefore, TTL <- LoginTTL, MaxClock <- LoginClock, time <- v1,
  page <- v2, built <- v3, table <- v4, post <- v5, sessions <- v6,
  deaths <- v7
Factor == INSTANCE TwoFactor WITH
  Requests <- CodeRequests, enrolment <- v1, issued <- v2, hits <- v3,
  request <- v4, modal <- v5, stored <- v6
Store == INSTANCE Stores WITH
  session <- v1, cookie <- v2, orgOf <- v3, tuples <- v4, calls <- v5,
  used <- v6, signIns <- v7
Upkeep == INSTANCE SchemaUpkeep WITH
  Requests <- UpkeepRequests, table <- v1, schema <- v2, rows <- v3,
  call <- v4, kills <- v5
Refund == INSTANCE Refunds WITH
  role <- v1, wallet <- v2, flow <- v3, tx <- v4, vault <- v5, open <- v6,
  marked <- v7, stored <- v8
Price == INSTANCE Pricing WITH
  input <- v1, left <- v2, markup <- v3, markupSeen <- v4, surcharge <- v5,
  surchargeSeen <- v6, floor <- v7
Report == INSTANCE Revenue WITH
  payments <- v1, now <- v2
Dispute == INSTANCE DisputeChat WITH
  sent <- v1, page <- v2, gen <- v3, dead <- v4, current <- v5, made <- v6,
  since <- v7, breaks <- v8
Secure == INSTANCE SecureChat WITH
  stored <- v1, client <- v2, salts <- v3, sends <- v4
Sums == INSTANCE Checkout WITH
  Whole <- FullPercent, MaxChanges <- CheckoutChanges, mounted <- v1,
  page <- v2, tip <- v3, taxed <- v4, told <- v5, coupon <- v6, share <- v7,
  paying <- v8, changes <- v9
Reads == INSTANCE ClientCache WITH
  Calls <- ReadCalls, TTL <- CacheTTL, MaxClock <- ReadClock, clock <- v1,
  version <- v2, cache <- v3, call <- v4, clears <- v5, floor <- v6
History == INSTANCE PaymentHistory WITH
  Matches <- Sought, MaxChanges <- HistoryChanges, rows <- v1, walk <- v2,
  steady <- v3, changes <- v4

ASSUME Login!LoginAssumption
ASSUME Factor!TwoFactorAssumption
ASSUME Store!StoresAssumption
ASSUME Upkeep!SchemaUpkeepAssumption
ASSUME SettlementAssumption
ASSUME Refund!RefundsAssumption
ASSUME Report!RevenueAssumption
ASSUME Reads!CacheAssumption
ASSUME Sums!CheckoutAssumption
ASSUME Price!PricingAssumption
ASSUME History!PaymentQueryAssumption
ASSUME History!PaymentHistoryAssumption

inst == <<v1, v2, v3, v4, v5, v6, v7, v8, v9>>
all == <<machine, inst, vars>>

(* The variables a machine of so many does without. *)
No2 == v3 = 0 /\ v4 = 0 /\ v5 = 0 /\ v6 = 0 /\ v7 = 0 /\ v8 = 0 /\ v9 = 0
Keep2 == UNCHANGED <<v3, v4, v5, v6, v7, v8, v9>>
No4 == v5 = 0 /\ v6 = 0 /\ v7 = 0 /\ v8 = 0 /\ v9 = 0
Keep4 == UNCHANGED <<v5, v6, v7, v8, v9>>
No5 == v6 = 0 /\ v7 = 0 /\ v8 = 0 /\ v9 = 0
Keep5 == UNCHANGED <<v6, v7, v8, v9>>
No6 == v7 = 0 /\ v8 = 0 /\ v9 = 0
Keep6 == UNCHANGED <<v7, v8, v9>>
No7 == v8 = 0 /\ v9 = 0
Keep7 == UNCHANGED <<v8, v9>>
No8 == v9 = 0
Keep8 == UNCHANGED <<v9>>

Unused == v1 = 0 /\ v2 = 0 /\ v3 = 0 /\ v4 = 0 /\ v5 = 0 /\ v6 = 0 /\ v7 = 0
          /\ v8 = 0 /\ v9 = 0

MCInit ==
  \/ machine = "settle" /\ Init /\ Unused
  \/ machine = "login" /\ Login!Init /\ No7 /\ Init
  \/ machine = "factor" /\ Factor!Init /\ No6 /\ Init
  \/ machine = "stores" /\ Store!Init /\ No7 /\ Init
  \/ machine = "upkeep" /\ Upkeep!Init /\ No5 /\ Init
  \/ machine = "refund" /\ Refund!Init /\ No8 /\ Init
  \/ machine = "price" /\ Price!Init /\ No7 /\ Init
  \/ machine = "revenue" /\ Report!Init /\ No2 /\ Init
  \/ machine = "dispute" /\ Dispute!Init /\ No8 /\ Init
  \/ machine = "secure" /\ Secure!Init /\ No4 /\ Init
  \/ machine = "checkout" /\ Sums!Init /\ Init
  \/ machine = "reads" /\ Reads!Init /\ No6 /\ Init
  \/ machine = "history" /\ History!Init /\ No4 /\ Init

MCNext ==
  \/ machine = "settle" /\ Next /\ UNCHANGED <<machine, inst>>
  \/ machine = "login" /\ Login!Next /\ Keep7 /\ UNCHANGED <<machine, vars>>
  \/ machine = "factor" /\ Factor!Next /\ Keep6 /\ UNCHANGED <<machine, vars>>
  \/ machine = "stores" /\ Store!Next /\ Keep7 /\ UNCHANGED <<machine, vars>>
  \/ machine = "upkeep" /\ Upkeep!Next /\ Keep5 /\ UNCHANGED <<machine, vars>>
  \/ machine = "refund" /\ Refund!Next /\ Keep8 /\ UNCHANGED <<machine, vars>>
  \/ machine = "price" /\ Price!Next /\ Keep7 /\ UNCHANGED <<machine, vars>>
  \/ machine = "revenue" /\ Report!Next /\ Keep2 /\ UNCHANGED <<machine, vars>>
  \/ machine = "dispute" /\ Dispute!Next /\ Keep8 /\ UNCHANGED <<machine, vars>>
  \/ machine = "secure" /\ Secure!Next /\ Keep4 /\ UNCHANGED <<machine, vars>>
  \/ machine = "checkout" /\ Sums!Next /\ UNCHANGED <<machine, vars>>
  \/ machine = "reads" /\ Reads!Next /\ Keep6 /\ UNCHANGED <<machine, vars>>
  \/ machine = "history" /\ History!Next /\ Keep4 /\ UNCHANGED <<machine, vars>>

MCSpec == MCInit /\ [][MCNext]_all

OneSessionEach == machine = "login" => Login!OneSessionEach
ProofsAreEarned == machine = "factor" => Factor!ProofsAreEarned
ScopeIsOwn == machine = "stores" => Store!ScopeIsOwn /\ Store!AccessFollowsSchema
TenantsStayApart == machine = "upkeep" => Upkeep!TenantsStayApart
MarkedWasRefunded == machine = "refund" => Refund!MarkedWasRefunded
WalkIsExact == machine = "history" => History!WalkIsExact
ReportsAgree == machine = "revenue" => Report!ReportsAgree
ReadsAreRecent == machine = "reads" => Reads!ReadsAreRecent
ChatsAreWhole ==
  /\ machine = "dispute" => Dispute!EachMessageOnce
  /\ machine = "secure" => Secure!ReadableTranscript
PricesAreRight ==
  /\ machine = "price" => Price!PriceIsOfFirstRules
  /\ machine = "checkout" => Sums!CheckoutAddsUp
==============================================================================
