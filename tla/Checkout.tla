------------------------------ MODULE Checkout ------------------------------
(***************************************************************************)
(* The sums of a checkout: the tip (CheckoutContext, TipSelector), the tax *)
(* line it carries (TaxLineItem, lib/tax), a coupon (CouponInput,          *)
(* lib/discounts) and the split of what is due over two assets             *)
(* (SplitPaymentSelector, packages/sdk/src/payment/split.ts).              *)
(*                                                                         *)
(* Money is an integer of minor units, a rate of tax a number of parts in  *)
(* Whole, a share a number of per cents.  Where the code divides floats    *)
(* and rounds, the model rounds the quotient half up.  A render and the    *)
(* effects after it are steps of their own.                                *)
(***************************************************************************)
EXTENDS Integers, FiniteSets

CONSTANTS
  Whole,          \* one, as a rate of tax
  EuRates,        \* EU_VAT_RATES, from countries
  StateRates,     \* US_STATE_RATES, from states
  StateOf,        \* lookupUSStateByPostalCode, from the codes it knows
  RegionRate, UsRate, GlobalRate, \* the rates used when no table has one
  Places,         \* bound: [country, postalCode, type, custom, exempt]: a buyer's
                  \*   address, and the merchant's rule and what it exempts
  Subtotals, TipPercents, TipAmounts, \* bounds
  Coupons,        \* bound: [kind, value, minSpend, left, stacks, expired]
  Rates,          \* bounds: [xlm, usdc]: dollars a token, <<a, b>> for a / b, or
                  \*   <<0, b>> for a rate that is missing, ...
  Shares, InitialShares, Balances, Slippage,
  MaxChanges      \* bound: what the page around it changes

None == "none"      \* no rule of the merchant's
Unset == -1         \* a null number
Nowhere == [country |-> "none"]
NoCoupon == [kind |-> "none"]
NotPaying == [total |-> Unset]

CheckoutAssumption ==
  /\ Whole \in Nat \ {0} /\ Subtotals \cup TipAmounts \cup Balances \subseteq Nat
  /\ Rates \subseteq [xlm : Nat \X (Nat \ {0}), usdc : Nat \X (Nat \ {0})]
  /\ \A c \in Coupons : c.value \in Nat /\ c.minSpend \in Nat
  /\ Shares \subseteq 0 .. 100 /\ InitialShares \subseteq Int /\ Slippage \in Nat

VARIABLES
  mounted,  \* which of the components the page has; nothing makes them meet
  page,     \* the props: subtotal, place, tips, rates, usdc, xlm
  tip,      \* [percent, custom]: the provider's state, Unset where null
  taxed,    \* calculatedTax of TipSelector
  told,     \* the effect of TaxLineItem has run for this render
  coupon,   \* CouponInput: [phase, order, offer]
  share,    \* usdcPercentage
  paying,   \* the split onConfirmPayment is busy with, or NotPaying
  changes

vars == <<mounted, page, tip, taxed, told, coupon, share, paying, changes>>

-----------------------------------------------------------------------------
(* Arithmetic.                                                             *)

Least(a, b) == IF a < b THEN a ELSE b
Greatest(a, b) == IF a > b THEN a ELSE b

\* a / b rounded half up, as Math.round and toFixed do.
Rounded(a, b) == (2 * a + b) \div (2 * b)

-----------------------------------------------------------------------------
(* Tax.                                                                    *)

RuleType(country) ==
  IF country = "US" THEN "US_STATE"
  ELSE IF country \in DOMAIN EuRates THEN "EU_VAT" ELSE "STANDARD_GLOBAL"

\* The rate the merchant has set for the country, or the one of the table its
\* rule, or else the country, names.
TaxRate(place) ==
  LET type == IF place.type = None THEN RuleType(place.country) ELSE place.type
      state == IF place.postalCode \in DOMAIN StateOf THEN StateOf[place.postalCode] ELSE None
      listed == IF type = "EU_VAT" /\ place.country \in DOMAIN EuRates
                THEN {EuRates[place.country]}
                ELSE IF type = "US_STATE" /\ place.country = "US" /\ state \in DOMAIN StateRates
                THEN {StateRates[state]} ELSE {}
      default == [EU_VAT |-> RegionRate, STANDARD_GLOBAL |-> GlobalRate,
                  US_STATE |-> IF place.country = "US" THEN UsRate ELSE 0]
  IN  IF place.custom # Unset THEN place.custom
      ELSE IF listed # {} THEN CHOOSE rate \in listed : TRUE ELSE default[type]

CalculateTax(subtotal, place) ==
  IF place.exempt THEN 0 ELSE Rounded(subtotal * TaxRate(place), Whole)

-----------------------------------------------------------------------------
(* Coupons.                                                                *)

ComputeDiscountAmount(order, c) ==
  Least(order, IF c.kind = "fixed" THEN c.value ELSE (order * c.value) \div 100)

\* Why a code is refused, or "ok": the first reason in this order.
Refusal(c, order, applied) ==
  CASE c = NoCoupon -> "not-found"
    [] c # NoCoupon /\ c.expired -> "expired"
    [] c # NoCoupon /\ ~c.expired /\ c.left = 0 -> "exhausted"
    [] c # NoCoupon /\ ~c.expired /\ c.left # 0 /\ order < c.minSpend -> "min-spend"
    [] c # NoCoupon /\ ~c.expired /\ c.left # 0 /\ order >= c.minSpend ->
         IF ~c.stacks /\ applied THEN "stacking-not-allowed" ELSE "ok"

\* validateCoupon of a code that is not refused.
Offer(c, order) ==
  [discount |-> ComputeDiscountAmount(order, c),
   final |-> order - ComputeDiscountAmount(order, c)]

-----------------------------------------------------------------------------
(* The split.                                                              *)

\* The rates it reckons with: a missing one is ten cents, or a dollar.
XlmRate(rates) == IF rates.xlm[1] > 0 THEN rates.xlm ELSE <<1, 10>>
UsdcRate(rates) == IF rates.usdc[1] > 0 THEN rates.usdc ELSE <<1, 1>>

\* An amount of dollars in tokens.
Tokens(usd, rate) == Rounded(usd * rate[2], rate[1])
\* The tokens it takes once the rate has fallen by the slippage.
MostTokens(usd, rate) == Rounded(usd * rate[2] * (100 + Slippage), rate[1] * 100)

\* The dollars of the USDC leg; the other leg has the rest.
UsdcUsd(total, percent) == Rounded(total * Least(100, Greatest(0, percent)), 100)

\* Mutant of CalculateSplitPayment: the wallet is asked for the XLM of now.
SplitWithoutSlippage(due, percent, rates, usdc, xlm) ==
  LET total == Greatest(0, due)
      usdcUsd == UsdcUsd(total, percent)
      first == Tokens(usdcUsd, UsdcRate(rates))
      now == Tokens(total - usdcUsd, XlmRate(rates))
  IN  [usdcUsd |-> usdcUsd, xlmUsd |-> total - usdcUsd, usdc |-> first, xlm |-> now,
       most |-> MostTokens(total - usdcUsd, XlmRate(rates)),
       canAfford |-> first <= usdc /\ now <= xlm]

\* calculateSplitPayment: the dollars of each leg, its tokens, the most XLM
\* the slippage allows for, and whether the wallet has them.
CalculateSplitPayment(due, percent, rates, usdc, xlm) ==
  LET total == Greatest(0, due)
      usdcUsd == UsdcUsd(total, percent)
      first == Tokens(usdcUsd, UsdcRate(rates))
      most == MostTokens(total - usdcUsd, XlmRate(rates))
  IN  [usdcUsd |-> usdcUsd, xlmUsd |-> total - usdcUsd, usdc |-> first,
       xlm |-> Tokens(total - usdcUsd, XlmRate(rates)), most |-> most,
       canAfford |-> first <= usdc /\ most <= xlm]

\* suggestOptimalSplit, in whole per cents where the code keeps two decimals;
\* it takes a dollar for a USDC, whatever the rate.
SuggestOptimalSplit(total, usdc) ==
  IF total = 0 \/ usdc >= total THEN 100 ELSE Rounded(usdc * 100, total)

-----------------------------------------------------------------------------
(* What the components render.                                             *)

TipAmount ==
  IF ~page.tips THEN 0
  ELSE IF tip.custom # Unset THEN tip.custom
  ELSE IF tip.percent # Unset THEN Rounded(page.subtotal * tip.percent, 100) ELSE 0

Total == page.subtotal + TipAmount
ActiveTax == IF page.place = Nowhere THEN 0 ELSE taxed
ShownTotal == Total + ActiveTax
TaxNow == CalculateTax(page.subtotal, page.place)

Split == CalculateSplitPayment(page.subtotal, share, page.rates, page.usdc, page.xlm)

\* Mutant of Memoised: the memo does not depend on the cart.
MemoisedByPlace(new) == new.place = page.place

\* The tax of a render is kept while the cart and the place stay.
Memoised(new) == new.subtotal = page.subtotal /\ new.place = page.place

Idle == [phase |-> "idle"]

\* The props of a component; those it does not have are one value.
Props(component) ==
  LET Has(name, values) == IF component = name THEN values ELSE {CHOOSE v \in values : TRUE}
  IN  [subtotal : Subtotals, place : Has("totals", Places \cup {Nowhere}),
       tips : Has("totals", BOOLEAN), rates : Has("split", Rates),
       usdc : Has("split", Balances), xlm : Has("split", Balances)]

-----------------------------------------------------------------------------
Init ==
  /\ mounted \in {"totals", "coupon", "split"}
  /\ page \in Props(mounted)
  /\ tip = [percent |-> Unset, custom |-> Unset]
  /\ taxed = 0
  /\ told = FALSE
  /\ coupon = Idle
  /\ share \in IF mounted = "split" THEN InitialShares ELSE {50}
  /\ paying = NotPaying
  /\ changes = 0

\* The cart, the address, the rates or the wallet change around it.
PageChanges(new) ==
  /\ changes < MaxChanges
  /\ new # page
  /\ page' = new
  /\ told' = (told /\ Memoised(new))
  /\ changes' = changes + 1
  /\ UNCHANGED <<mounted, tip, taxed, coupon, share, paying>>

\* The effect of TaxLineItem tells TipSelector the tax of this render.
TellTax ==
  /\ mounted = "totals"
  /\ page.place # Nowhere /\ ~told
  /\ taxed' = TaxNow
  /\ told' = TRUE
  /\ UNCHANGED <<mounted, page, tip, coupon, share, paying, changes>>

\* A quick percentage, or an amount typed: each takes the other away.
SetTipPercent(percent) ==
  /\ mounted = "totals"
  /\ page.tips
  /\ tip' = [percent |-> percent, custom |-> Unset]
  /\ UNCHANGED <<mounted, page, taxed, told, coupon, share, paying, changes>>

SetCustomTipAmount(amount) ==
  /\ mounted = "totals"
  /\ page.tips
  /\ tip' = [percent |-> Unset, custom |-> amount]
  /\ UNCHANGED <<mounted, page, taxed, told, coupon, share, paying, changes>>

\* Text that is no number: the amount goes, the percentage is left as it is.
UnsetCustomTip ==
  /\ mounted = "totals"
  /\ page.tips
  /\ tip' = [tip EXCEPT !.custom = Unset]
  /\ UNCHANGED <<mounted, page, taxed, told, coupon, share, paying, changes>>

ClearTip ==
  /\ mounted = "totals"
  /\ page.tips
  /\ tip' = [percent |-> Unset, custom |-> Unset]
  /\ UNCHANGED <<mounted, page, taxed, told, coupon, share, paying, changes>>

\* The code is looked up for the order of now.
ApplyCoupon ==
  /\ mounted = "coupon"
  /\ coupon.phase \in {"idle", "invalid"}
  /\ coupon' = [phase |-> "validating", order |-> page.subtotal]
  /\ UNCHANGED <<mounted, page, tip, taxed, told, share, paying, changes>>

\* The answer is validated against the order the call began with.
CouponFound(c, applied) ==
  /\ mounted = "coupon"
  /\ coupon.phase = "validating"
  /\ coupon' = IF Refusal(c, coupon.order, applied) = "ok"
               THEN [phase |-> "applied", order |-> coupon.order, coupon |-> c,
                     offer |-> Offer(c, coupon.order)]
               ELSE [phase |-> "invalid"]
  /\ UNCHANGED <<mounted, page, tip, taxed, told, share, paying, changes>>

LookupFails ==
  /\ mounted = "coupon"
  /\ coupon.phase = "validating"
  /\ coupon' = [phase |-> "invalid"]
  /\ UNCHANGED <<mounted, page, tip, taxed, told, share, paying, changes>>

RemoveCoupon ==
  /\ mounted = "coupon"
  /\ coupon.phase = "applied"
  /\ coupon' = Idle
  /\ UNCHANGED <<mounted, page, tip, taxed, told, share, paying, changes>>

\* The slider, a preset, or the share suggested.
SetShare(percent) ==
  /\ mounted = "split"
  /\ paying = NotPaying
  /\ share' = percent
  /\ UNCHANGED <<mounted, page, tip, taxed, told, coupon, paying, changes>>

ApplyOptimal == SetShare(SuggestOptimalSplit(page.subtotal, page.usdc))

\* handleConfirm hands over the split of this render.
Confirm ==
  /\ mounted = "split"
  /\ paying = NotPaying
  /\ Split.canAfford
  /\ paying' = [split |-> Split, total |-> page.subtotal, rates |-> page.rates,
                usdc |-> page.usdc, xlm |-> page.xlm]
  /\ UNCHANGED <<mounted, page, tip, taxed, told, coupon, share, changes>>

\* onConfirmPayment returns or throws.
Confirmed ==
  /\ mounted = "split"
  /\ paying # NotPaying
  /\ paying' = NotPaying
  /\ UNCHANGED <<mounted, page, tip, taxed, told, coupon, share, changes>>

Next ==
  \/ \E new \in Props(mounted) : PageChanges(new)
  \/ TellTax
  \/ \E percent \in TipPercents : SetTipPercent(percent)
  \/ \E amount \in TipAmounts : SetCustomTipAmount(amount)
  \/ UnsetCustomTip \/ ClearTip
  \/ ApplyCoupon \/ LookupFails \/ RemoveCoupon
  \/ \E c \in Coupons \cup {NoCoupon}, applied \in BOOLEAN : CouponFound(c, applied)
  \/ \E percent \in Shares : SetShare(percent)
  \/ ApplyOptimal \/ Confirm \/ Confirmed

Spec == Init /\ [][Next]_vars

-----------------------------------------------------------------------------
(* Properties.                                                             *)

\* Once the effects of a render have run, the total shown is the cart, the one
\* tip chosen last and the tax of this cart at this place, whatever cart,
\* address or preference the sum was made of before.
TotalsAddUp ==
  mounted = "totals" =>
    /\ tip.percent = Unset \/ tip.custom = Unset
    /\ page.place = Nowhere \/ told =>
         ShownTotal = page.subtotal + TipAmount + (IF page.place = Nowhere THEN 0 ELSE TaxNow)

\* The tokens are worth the dollars to the rounding; and so they are, or
\* worth more, once the rate has fallen by the slippage.
Worth(tokens, usd, rate) ==
  LET over == 2 * (tokens * rate[1] - usd * rate[2]) IN over <= rate[1] /\ -over <= rate[1]
LastsFor(tokens, usd, rate) ==
  2 * (tokens * rate[1] * 100 - usd * rate[2] * (100 + Slippage)) >= -100 * rate[1]

\* What is confirmed was within the wallet, also after the price moved by the
\* slippage; its legs are the whole of the sum due, and each leg's tokens are
\* worth it to the rounding, at the rates of the page or those that stand for
\* the ones it has not got.
ConfirmedIsCovered ==
  paying # NotPaying =>
    LET s == paying.split
    IN  /\ s.usdcUsd + s.xlmUsd = paying.total
        /\ s.usdc <= paying.usdc
        /\ Worth(s.usdc, s.usdcUsd, UsdcRate(paying.rates))
        /\ Worth(s.xlm, s.xlmUsd, XlmRate(paying.rates))
        /\ LastsFor(paying.xlm, s.xlmUsd, XlmRate(paying.rates))

\* An offer that is applied takes no more off than the order it was made for,
\* which was worth the code's least spend then.
OffersHold ==
  coupon.phase = "applied" =>
    /\ coupon.offer.final \in 0 .. coupon.order
    /\ coupon.offer.final + coupon.offer.discount = coupon.order
    /\ coupon.coupon.minSpend <= coupon.order

CheckoutAddsUp == TotalsAddUp /\ ConfirmedIsCovered /\ OffersHold

-----------------------------------------------------------------------------
(* The inductive invariant behind CheckoutAddsUp.                           *)

(* What the page and the shares are made of.                                *)
CShape ==
  /\ page.subtotal \in Nat
  /\ mounted = "split" =>
       /\ page.rates \in [xlm : Nat \X (Nat \ {0}), usdc : Nat \X (Nat \ {0})]
       /\ page.usdc \in Nat /\ page.xlm \in Nat
  /\ share \in Int
  /\ DOMAIN tip = {"percent", "custom"}

(* A tip is a percentage or an amount of its own, never both.               *)
OneTip == tip.percent = Unset \/ tip.custom = Unset

(* What the page was told is the tax of what it shows.                      *)
ToldIsTrue == told => taxed = TaxNow

(* The discount on offer is within the order it is for.                     *)
OfferIsFair ==
  /\ coupon.phase = "validating" => coupon.order \in Nat
  /\ OffersHold

SumsInv == CShape /\ OneTip /\ ToldIsTrue /\ OfferIsFair /\ ConfirmedIsCovered
=============================================================================
