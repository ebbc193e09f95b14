------------------------------ MODULE Pricing -------------------------------
(***************************************************************************)
(* price() of lib/pricing/engine.ts: the loop over the rules of a merchant *)
(* in their order of priority, one rule a step, against what the price is  *)
(* meant to be.                                                            *)
(***************************************************************************)
EXTENDS Integers, FiniteSetsExt

CONSTANTS Rules,          \* pricing rules to draw lists from
          MaxRules,       \* bound: length of a list
          Quantities, Units

Markups == {"markup_pct", "markup_fixed"}
Surcharges == {"surcharge_pct", "surcharge_fixed"}

PricingAssumption ==
  /\ \A r \in Rules : r.priority \in Int /\ r.amount \in Int
                      /\ r.kind \in Markups \cup Surcharges \cup {"floor"}
  /\ Quantities \subseteq Nat \ {0} /\ Units \subseteq Int /\ MaxRules \in Nat

VARIABLES
  input,          \* [rules, quantity, unit]: the list, and the context and base
  left,           \* the rules the loop has yet to come to
  markup, markupSeen, surcharge, surchargeSeen, floor

vars == <<input, left, markup, markupSeen, surcharge, surchargeSeen, floor>>

-----------------------------------------------------------------------------
(* Amounts are integers in minor units, a percentage is a number of per    *)
(* cents, and of the conditions a rule may have the quantity range stands  *)
(* for all: each is a test of the context.  The floor '0' is skipped by    *)
(* name, which is the same as being floored at zero in the end.            *)

\* BigInt division truncates towards zero.
Truncated(a, b) == IF a >= 0 THEN a \div b ELSE -((-a) \div b)
MultiplyPct(base, percent) == Truncated(base * percent, 100)

Base == input.unit * input.quantity
Matches(rule) == rule.min <= input.quantity /\ input.quantity < rule.max

Value(rule) ==
  IF rule.kind \in {"markup_pct", "surcharge_pct"} THEN MultiplyPct(Base, rule.amount)
                                                   ELSE rule.amount * input.quantity

\* Mutant of Before: equal priorities come last first.
BeforeUnstable(i, j) ==
  LET p == input.rules[i].priority
      q == input.rules[j].priority
  IN  p < q \/ (p = q /\ i > j)

\* Evaluation order: by priority, then in the order given.
Before(i, j) ==
  LET p == input.rules[i].priority
      q == input.rules[j].priority
  IN  p < q \/ (p = q /\ i < j)

Larger(a, b) == IF a > b THEN a ELSE b

-----------------------------------------------------------------------------
Init ==
  /\ input \in [rules : UNION {[1 .. n -> Rules] : n \in 0 .. MaxRules},
                quantity : Quantities, unit : Units]
  /\ left = DOMAIN input.rules
  /\ markup = 0 /\ markupSeen = FALSE
  /\ surcharge = 0 /\ surchargeSeen = FALSE
  /\ floor = -1

\* The loop comes to rule i, which is of one of these kinds and matches.
Turn(i, kinds) ==
  /\ i \in left /\ \A j \in left \ {i} : Before(i, j)
  /\ left' = left \ {i}
  /\ input.rules[i].kind \in kinds /\ Matches(input.rules[i])
  /\ UNCHANGED input

Skip(i) ==
  /\ i \in left /\ \A j \in left \ {i} : Before(i, j)
  /\ left' = left \ {i}
  /\ ~Matches(input.rules[i])
  /\ UNCHANGED <<input, markup, markupSeen, surcharge, surchargeSeen, floor>>

\* The first markup that matches counts, and so does the first surcharge.
MarkUp(i) ==
  /\ Turn(i, Markups)
  /\ markup' = IF markupSeen THEN markup ELSE Value(input.rules[i])
  /\ markupSeen' = TRUE
  /\ UNCHANGED <<surcharge, surchargeSeen, floor>>

Surcharge(i) ==
  /\ Turn(i, Surcharges)
  /\ surcharge' = IF surchargeSeen THEN surcharge ELSE Value(input.rules[i])
  /\ surchargeSeen' = TRUE
  /\ UNCHANGED <<markup, markupSeen, floor>>

\* The highest floor counts.
RaiseFloor(i) ==
  /\ Turn(i, {"floor"})
  /\ floor' = Larger(floor, input.rules[i].amount)
  /\ UNCHANGED <<markup, markupSeen, surcharge, surchargeSeen>>

Next == \E i \in left : Skip(i) \/ MarkUp(i) \/ Surcharge(i) \/ RaiseFloor(i)

Spec == Init /\ [][Next]_vars

\* The total the breakdown ends in.
Total ==
  LET sum == Base + (markup + surcharge)
  IN  Larger(IF floor > 0 /\ sum < floor THEN floor ELSE sum, 0)

-----------------------------------------------------------------------------
\* The rule of a kind that counts: it matches, and none before it does.
First(kinds) ==
  {i \in DOMAIN input.rules :
     /\ input.rules[i].kind \in kinds /\ Matches(input.rules[i])
     /\ \A j \in DOMAIN input.rules :
          input.rules[j].kind \in kinds /\ Matches(input.rules[j]) =>
            input.rules[i].priority < input.rules[j].priority + (IF i <= j THEN 1 ELSE 0)}

\* A price is the base, the markup and the surcharge of the first rule of each
\* that matches, whatever rules stand between them, and no less than any
\* matching floor nor than zero.  This is what the code does.  Its comments say
\* that the first rule of each effect kind applies and later ones of the same
\* kind are ignored: a percent and a fixed markup are two such kinds, and yet
\* the first of either stands for both; and of two floors the higher counts,
\* not the first.
PriceIsOfFirstRules ==
  left = {} =>
    LET Of(kinds) == {Value(input.rules[i]) : i \in First(kinds)}
        Floors == {input.rules[i].amount : i \in {j \in DOMAIN input.rules :
                     input.rules[j].kind = "floor" /\ Matches(input.rules[j])}}
    IN  \E m \in IF Of(Markups) = {} THEN {0} ELSE Of(Markups),
           s \in IF Of(Surcharges) = {} THEN {0} ELSE Of(Surcharges) :
          Total = Max({Base + m + s, 0} \cup Floors)

-----------------------------------------------------------------------------
(* The inductive invariant behind PriceIsOfFirstRules.                      *)

(* What the rules are, and which ones the loop has been through.            *)
Kinds == Markups \cup Surcharges \cup {"floor"}
Done == DOMAIN input.rules \ left
Counts(i, kinds) == input.rules[i].kind \in kinds /\ Matches(input.rules[i])

(* What the input and the state of the loop are made of.                    *)
PShape ==
  /\ left \subseteq DOMAIN input.rules
  /\ DOMAIN input.rules \subseteq Int
  /\ \A i \in DOMAIN input.rules :
       /\ input.rules[i].priority \in Int /\ input.rules[i].amount \in Int
       /\ input.rules[i].kind \in Kinds
  /\ input.quantity \in Int /\ input.unit \in Int
  /\ markup \in Int /\ surcharge \in Int /\ floor \in Int
  /\ markupSeen \in BOOLEAN /\ surchargeSeen \in BOOLEAN

(* The loop takes the rules in their order.                                 *)
InOrder == \A i \in Done, j \in left : Before(i, j)

(* The value of a kind is the one of the first such rule that matched.      *)
FirstCounts(done, kinds, seen, value) ==
  IF seen THEN \E i \in done : /\ Counts(i, kinds) /\ value = Value(input.rules[i])
                               /\ \A j \in done : Counts(j, kinds) => i = j \/ Before(i, j)
  ELSE value = 0 /\ \A i \in done : ~Counts(i, kinds)

(* The floor is the highest one that matched.                               *)
HighestCounts ==
  /\ floor = -1 \/ \E i \in Done : Counts(i, {"floor"}) /\ floor = input.rules[i].amount
  /\ \A i \in Done : Counts(i, {"floor"}) => input.rules[i].amount <= floor
  /\ floor >= -1

PriceInv ==
  /\ PShape /\ InOrder /\ HighestCounts
  /\ FirstCounts(Done, Markups, markupSeen, markup)
  /\ FirstCounts(Done, Surcharges, surchargeSeen, surcharge)
=============================================================================
