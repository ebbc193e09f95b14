------------------------------- MODULE Revenue ------------------------------
(***************************************************************************)
(* apps/web/src/lib/revenue-analytics.ts and the queries behind            *)
(* /api/analytics/revenue: revenue by route and over time, folded from the *)
(* payments or from what Postgres grouped.  A state is an input, built up  *)
(* row by row.                                                             *)
(*                                                                         *)
(* Amounts are stroops: what fromStroops prints, toStroops reads back.     *)
(***************************************************************************)
EXTENDS Integers, Sequences, FiniteSets, FiniteSetsExt, Functions

CONSTANTS
  Day,        \* DAY_MS
  Week,       \* days in a week
  Thursday,   \* the weekday of day 0, counted from Monday
  RangeDays,  \* RANGE_DAYS, with 0 for 'all'
  WeeklyAbove,\* WEEKLY_ABOVE_DAYS
  Assets, Routes, Methods, Prices,
  CardRate, CardFixed, \* DEFAULT_CARD_BENCHMARK: per mille, and per payment
  NetworkFee, \* STELLAR_BASE_FEE_STROOPS
  Months,     \* the first moments of calendar months
  Nows,       \* bound: the times a report is made at
  Ages,       \* bound: how long before a payment was dated
  Most        \* bound: payments

None == "none"
Blank == "blank"    \* the empty string
Unpriced == -1      \* an amount that is absent or unreadable

RevenueAssumption ==
  /\ {Day, Week, WeeklyAbove} \subseteq Nat \ {0} /\ Thursday \in Int
  /\ RangeDays \subseteq 0 .. WeeklyAbove    \* only 'all' is ever drawn by weeks
  /\ Prices \subseteq Nat /\ Nows \cup Ages \subseteq Int
  /\ {CardRate, CardFixed, NetworkFee} \subseteq Nat /\ NetworkFee <= CardFixed
  /\ \A m \in Months : m \in Int /\ m % Day = 0
  /\ \A t \in Nows : \E m \in Months : m <= t /\ \A n \in Months : n <= t => n <= m

VARIABLES payments, now
vars == <<payments, now>>

Rows(time) ==
  [asset : Assets \cup {None}, route : Routes \cup {None, Blank},
   method : Methods \cup {None, Blank}, amount : Prices \cup {Unpriced},
   ts : {time - age : age \in Ages}]

Init == now \in Nows /\ payments = <<>>

Settle(row) ==
  /\ Len(payments) < Most
  /\ payments' = Append(payments, row)
  /\ UNCHANGED now

Next == \E row \in Rows(now) : Settle(row)
Spec == Init /\ [][Next]_vars

All == DOMAIN payments

-----------------------------------------------------------------------------
(* Helpers.                                                                *)

AssetKey(i) == IF payments[i].asset = None THEN "native" ELSE payments[i].asset
FilterByAsset(S, asset) == {i \in S : AssetKey(i) = asset}

Attributed(route) == route \notin {None, Blank}
Priced(S) == {i \in S : payments[i].amount # Unpriced}
Total(f) == FoldFunction(+, 0, f)     \* the sum of what f has
Amount(S) == Total([i \in Priced(S) |-> payments[i].amount])

StartOfDay(t) == (t \div Day) * Day
StartOfWeek(t) == StartOfDay(t) - (((t \div Day) + Thursday) % Week) * Day
BucketStart(t, weekly) == IF weekly THEN StartOfWeek(t) ELSE StartOfDay(t)
Advance(t, weekly) == t + (IF weekly THEN Week * Day ELSE Day)

\* Mutant of FilterByRange: the window starts at the time of day it is now.
FilterByRangeUnaligned(days) ==
  {i \in All : days = 0 \/ payments[i].ts >= now - (days - 1) * Day}

FilterByRange(days) ==
  {i \in All : days = 0 \/ payments[i].ts >= StartOfDay(now - (days - 1) * Day)}

-----------------------------------------------------------------------------
(* Revenue by route.                                                       *)

\* One group: what `method` and `route` its payments have, and its sums.
Aggregate(G) ==
  LET first == payments[Min(G)] IN
    [method |-> first.method, route |-> first.route,
     total |-> Amount(G), calls |-> Cardinality(G), priced |-> Cardinality(Priced(G))]

\* The groups of the payments DOMAIN key that have the same key.
GroupsBy(key) ==
  {Aggregate({i \in DOMAIN key : key[i] = k}) : k \in {key[i] : i \in DOMAIN key}}

OrBlank(method) == IF method = None THEN Blank ELSE method

\* GROUP BY method, route.
RouteRows(S) == GroupsBy([i \in S |-> <<payments[i].method, payments[i].route>>])

\* The browser groups by a key of its own.
RawGroups(S) ==
  GroupsBy([i \in S |-> IF Attributed(payments[i].route)
                        THEN <<OrBlank(payments[i].method), payments[i].route>>
                        ELSE <<Blank, None>>])

SumOf(aggregates, field) == Total([a \in aggregates |-> a[field]])

Bucket(aggregates) ==
  LET calls == SumOf(aggregates, "calls")
      priced == SumOf(aggregates, "priced")
      total == SumOf(aggregates, "total")
  IN  [calls |-> calls, priced |-> priced, total |-> total,
       average |-> IF priced > 0 THEN total \div priced ELSE Unpriced]

RouteBreakdownFromAggregates(aggregates) ==
  LET attributed == {a \in aggregates : Attributed(a.route)}
      Key(a) == <<OrBlank(a.method), a.route>>
      buckets == [key \in {Key(a) : a \in attributed} |->
                    Bucket({a \in attributed : Key(a) = key})]
      total == SumOf(aggregates, "total")
      attributedTotal == Total([k \in DOMAIN buckets |-> buckets[k].total])
  IN  [routes |-> buckets, unattributed |-> Bucket(aggregates \ attributed),
       total |-> total, attributedTotal |-> attributedTotal,
       unattributedTotal |-> total - attributedTotal,
       calls |-> SumOf(aggregates, "calls")]

BuildRouteBreakdown(S, asset) ==
  RouteBreakdownFromAggregates(RawGroups(FilterByAsset(S, asset)))

-----------------------------------------------------------------------------
(* Revenue over time.                                                      *)

Cell(S) ==
  LET mine == {i \in S : Attributed(payments[i].route)} IN
    [attributed |-> Amount(mine), unattributed |-> Amount(S \ mine),
     attributedCalls |-> Cardinality(mine), unattributedCalls |-> Cardinality(S \ mine),
     unpricedCalls |-> Cardinality(S \ Priced(S))]

\* GROUP BY date_trunc('day', ts), and the browser's own fold.
DayRows(S) ==
  [day \in {StartOfDay(payments[i].ts) : i \in S} |->
     Cell({i \in S : StartOfDay(payments[i].ts) = day})]

CeilDiv(a, b) == -((-a) \div b)

\* 'all' starts with the first bucket, a fixed range counts back from now.
\* Every start has a cell, empty or not; a day falls into the cell of its own.
SeriesFromDayBuckets(rows, days) ==
  LET from == IF days # 0 THEN now - (days - 1) * Day
              ELSE IF rows = <<>> THEN now ELSE Min(DOMAIN rows)
      weekly == Max({1, CeilDiv(now - from, Day) + 1}) > WeeklyAbove
      first == BucketStart(from, weekly)
      last == BucketStart(now, weekly)
      starts == {b \in first .. last : (b - first) % (Advance(0, weekly)) = 0}
      placed == {day \in DOMAIN rows : BucketStart(day, weekly) \in starts}
      Sum(field) == Total([day \in placed |-> rows[day][field]])
  IN  [starts |-> starts, weekly |-> weekly,
       total |-> Sum("attributed") + Sum("unattributed"),
       attributedTotal |-> Sum("attributed"), unattributedTotal |-> Sum("unattributed"),
       calls |-> Sum("attributedCalls") + Sum("unattributedCalls"),
       unpricedCalls |-> Sum("unpricedCalls")]

BuildRevenueSeries(S, asset, days) ==
  SeriesFromDayBuckets(DayRows(FilterByAsset(S, asset)), days)

-----------------------------------------------------------------------------
(* What the dashboard's banner says a card processor would have charged.   *)

TraditionalFee(amount) == (amount * CardRate) \div 1000 + CardFixed
NetSavings(i) == Max({0, TraditionalFee(payments[i].amount) - NetworkFee})
StartOfMonth(t) == Max({m \in Months : m <= t})

\* The fees of some payments on either rail; the difference is cut at zero
\* after the sum.
Fees(S) ==
  LET traditional == Total([i \in S |-> TraditionalFee(payments[i].amount)])
      actual == NetworkFee * Cardinality(S)
  IN  [traditional |-> traditional, actual |-> actual,
       savings |-> Max({0, traditional - actual})]

\* Of all payments, and of this month's; one without an amount is only counted.
SummarizeSavings(S) ==
  LET month == {i \in Priced(S) : payments[i].ts >= StartOfMonth(now)}
  IN  [count |-> Cardinality(S), total |-> Fees(Priced(S)),
       monthCount |-> Cardinality(month), month |-> Fees(month)]

-----------------------------------------------------------------------------
(* Three reports of one history agree: the breakdown the page folds from   *)
(* the raw payments is the one it would fold from Postgres' groups; its    *)
(* chart is the one it would draw from Postgres' days; and breakdown and   *)
(* chart count the same money of the same range, except what the ledger    *)
(* dated after the last bucket, which only the breakdown counts.           *)
RevenueAgrees ==
  \A asset \in Assets \cup {"native"}, days \in RangeDays :
    LET inRange == FilterByRange(days)
        mine == FilterByAsset(inRange, asset)
        breakdown == BuildRouteBreakdown(inRange, asset)
        series == BuildRevenueSeries(inRange, asset, days)
        later == {i \in mine : payments[i].ts >= Advance(BucketStart(now, series.weekly),
                                                         series.weekly)}
        Late(f) == Amount({i \in later : Attributed(payments[i].route) = f})
    IN  /\ breakdown = RouteBreakdownFromAggregates(RouteRows(mine))
        /\ series = SeriesFromDayBuckets(DayRows(FilterByAsset(All, asset)), days)
        /\ breakdown.total = Amount(mine)
        /\ breakdown.attributedTotal = series.attributedTotal + Late(TRUE)
        /\ breakdown.unattributedTotal = series.unattributedTotal + Late(FALSE)
        /\ breakdown.calls = series.calls + Cardinality(later)
        /\ breakdown.unattributed.total = breakdown.unattributedTotal

\* The banner's totals are the sum of what each payment saved, of this month
\* and of ever, the month's share is no more than the whole, and a range that
\* begins within the month has no more payments than the month.
BannerAgrees ==
  LET banner == SummarizeSavings(All)
      month == {i \in Priced(All) : payments[i].ts >= StartOfMonth(now)}
  IN  /\ banner.total.savings = Total([i \in Priced(All) |-> NetSavings(i)])
      /\ banner.month.savings = Total([i \in month |-> NetSavings(i)])
      /\ banner.month.savings <= banner.total.savings
      /\ \A days \in RangeDays \ {0} :
           now - (days - 1) * Day >= StartOfMonth(now) =>
             Cardinality(Priced(FilterByRange(days))) <= banner.monthCount

ReportsAgree == RevenueAgrees /\ BannerAgrees

-----------------------------------------------------------------------------
(* The inductive invariant behind ReportsAgree: the input is what it says.  *)
RevenueInv == now \in Nows /\ payments \in Seq(Rows(now))
=============================================================================
