--------------------------- MODULE MCReservations ----------------------------
(****************************************************************************)
(* Reservations under an administrator who sets levels, of two SKUs that    *)
(* the code and the database sort differently (the module extended), and    *)
(* reservations of one SKU whose holds lapse.  TLC starts in the initial    *)
(* states of each and stays with it.  What is proved of reservations holds  *)
(* of the second whatever its SKUs, carts and lifetimes.                    *)
(****************************************************************************)
EXTENDS Inventory, TLAPS

VARIABLES machine, v1, v2, v3, v4, v5

CONSTANTS LapseSkus, LapseCarts, LapseListed, LapseStock, LapseOrder, LapseClock

\* localeCompare has "a" before "B", ORDER BY under the C collation "B" first.
Locale == [s \in {"a", "B"} |-> IF s = "a" THEN 1 ELSE 2]
Bytes == [s \in {"a", "B"} |-> IF s = "B" THEN 1 ELSE 2]
Cart(a, b) == [s \in {"a", "B"} |-> IF s = "a" THEN a ELSE b]
MCCarts == {Cart(1, 1), Cart(1, 0)}
One == [s \in {"a"} |-> 1]
OneCart == {One}
OneSku == [s \in {"a"} |-> 1]

Lapse == INSTANCE Inventory_proofs WITH
  Skus <- LapseSkus, Carts <- LapseCarts, Listed <- LapseListed,
  Stock0 <- LapseStock, Levels <- {}, CodeOrder <- LapseOrder,
  DbOrder <- LapseOrder, MaxClock <- LapseClock, clock <- v1, items <- v2,
  stock <- v3, res <- v4, tx <- v5

ASSUME LapseAssumed == Lapse!InventoryAssumption

inst == <<v1, v2, v3, v4, v5>>
all == <<machine, inst, vars>>


Unused == v1 = 0 /\ v2 = 0 /\ v3 = 0 /\ v4 = 0 /\ v5 = 0

MCInit ==
  \/ machine = "levels" /\ Init /\ Unused
  \/ machine = "lapse" /\ Lapse!Init /\ Init

MCNext ==
  \/ machine = "levels" /\ Next /\ UNCHANGED <<machine, inst>>
  \/ machine = "lapse" /\ Lapse!Next /\ UNCHANGED <<machine, vars>>

MCSafe == MCInit /\ [][MCNext]_all

(* The fairness of the module, for whichever machine it is. *)
MCStatement(t) ==
  \/ machine = "levels" /\ Statement(t) /\ UNCHANGED <<machine, inst>>
  \/ machine = "lapse" /\ Lapse!Statement(t) /\ UNCHANGED <<machine, vars>>
MCBreakDeadlock(t) ==
  \/ machine = "levels" /\ BreakDeadlock(t) /\ UNCHANGED <<machine, inst>>
  \/ machine = "lapse" /\ Lapse!BreakDeadlock(t) /\ UNCHANGED <<machine, vars>>
MCSpec ==
  MCSafe /\ \A t \in Clients : SF_all(MCStatement(t)) /\ WF_all(MCBreakDeadlock(t))

(* The module extended alone, for the run of one SKU under levels. *)
LevelsSpec ==
  machine = "levels" /\ Init /\ Unused /\ [][Next /\ UNCHANGED <<machine, inst>>]_all

LapsesAreCovered ==
  machine = "lapse" =>
    /\ Lapse!HoldsAreCovered
    /\ Lapse!ReservedStockIsThere
    /\ Lapse!CountedOutStaysOut

(* Every request of either machine ends: it waits only for requests that    *)
(* end, or for one that waits for it, and then Postgres breaks the deadlock *)
(* (two carts in opposite orders, a sweep against a checkout or a sweep).   *)
(* The requests are alike: what one is promised, all are.                   *)
Anyone == CHOOSE t \in Clients : TRUE
EveryCallEnds ==
  (IF machine = "lapse" THEN Lapse!Called(Anyone) ELSE Called(Anyone))
    ~> (IF machine = "lapse" THEN Lapse!Answered(Anyone) ELSE Answered(Anyone))
------------------------------------------------------------------------------
(* The machine that was chosen stays, and steps as its module says. *)
LEMMA LapseRuns == MCSafe /\ machine = "lapse" => Lapse!Spec /\ [](machine = "lapse")
<1>1. MCInit /\ machine = "lapse" => Lapse!Init
  BY DEF MCInit
<1>2. machine = "lapse" /\ [MCNext]_all => (machine = "lapse")' /\ [Lapse!Next]_(Lapse!vars)
  BY DEF MCNext, all, inst, Lapse!vars
<1>. QED BY <1>1, <1>2, PTL DEF MCSafe, Lapse!Spec

LEMMA LapseOrNot == MCSafe => []~(machine = "lapse") \/ [](machine = "lapse")
<1>1. ~(machine = "lapse") /\ [MCNext]_all => (~(machine = "lapse"))'
  BY DEF MCNext, all
<1>. QED BY <1>1, LapseRuns, PTL DEF MCSafe

(* With holds that lapse and no administrator: no SKU is oversold, what was *)
(* reserved is there when it is drawn, and a hold counted out stays out.    *)
THEOREM LapsesCovered == MCSafe => []LapsesAreCovered
<1>1. Lapse!NoLevelMeetsLapse
  BY DEF Lapse!NoLevelMeetsLapse
<1>2. Lapse!Spec => []Lapse!HoldsAreCovered
  BY <1>1, LapseAssumed, Lapse!HoldsCovered
<1>3. Lapse!Spec => []Lapse!ReservedStockIsThere
  BY <1>1, LapseAssumed, Lapse!DrawsAreServed
<1>4. Lapse!Spec => []Lapse!CountedOutStaysOut
  BY LapseAssumed, Lapse!CountedOut
<1>5. \/ ~(machine = "lapse")
      \/ Lapse!HoldsAreCovered /\ Lapse!ReservedStockIsThere /\ Lapse!CountedOutStaysOut
      => LapsesAreCovered
  BY DEF LapsesAreCovered
<1>. QED BY <1>2, <1>3, <1>4, <1>5, LapseRuns, LapseOrNot, PTL
==============================================================================
