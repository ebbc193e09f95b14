----------------------------- MODULE Inventory ------------------------------
(***************************************************************************)
(* Stock and checkout reservations of one merchant (lib/inventory/         *)
(* reservationManager.ts): reserve, finish (commit or release),            *)
(* setStockLevel and stockLevels, each a READ COMMITTED transaction of one *)
(* or more statements that locks reservation rows and stock rows and       *)
(* writes at COMMIT.  One action is one statement, or one row of the       *)
(* UPDATE that expires lapsed holds, so transactions interleave between    *)
(* them; a statement that needs a row another transaction holds waits, and *)
(* when transactions wait for one another Postgres rolls one back.         *)
(***************************************************************************)
EXTENDS Naturals, FiniteSets, FiniteSetsExt

CONSTANTS Clients,      \* concurrent requests
          Checkouts,    \* checkout ids
          Skus,
          Carts,        \* the quantities a checkout may ask for
          Listed,       \* SKUs the merchant has listed so far
          Stock0,       \* their initial stock
          Levels,       \* the stock levels an administrator sets
          CodeOrder,    \* the rank of a SKU as localeCompare sorts them
          DbOrder,      \* its rank as ORDER BY sku sorts them
          TTL,          \* INVENTORY_RESERVATION_TTL_MS in ticks
          MaxClock      \* bound: the last tick

InventoryAssumption ==
  /\ Carts \subseteq [Skus -> Nat] /\ Levels \subseteq Nat
  /\ Listed \subseteq Skus /\ Stock0 \in Nat /\ TTL \in Nat \ {0} /\ MaxClock \in Nat
  /\ CodeOrder \in [Skus -> Nat] /\ DbOrder \in [Skus -> Nat] /\ IsFiniteSet(Checkouts)

ASSUME InventoryAssumed == InventoryAssumption

VARIABLES clock,
          items,        \* SKUs with a row in inventory_items
          stock,        \* stock_quantity
          res,          \* inventory_reservations by checkout, with their lines
          tx            \* the transaction each client is in
vars == <<clock, items, stock, res, tx>>

NoCart == [s \in Skus |-> 0]
Final == {"committed", "released", "expired"}
NoReservation == [status |-> "none", expires |-> 0, lines |-> NoCart]

\* at is the row its sweep has come to and due the ones after it; todo are the
\* SKUs its loop has not come to, rows and skus the locks it holds; expired,
\* place, final and level are what COMMIT will write.
Idle == [pc |-> "idle", op |-> "none", id |-> "none", cart |-> NoCart, now |-> 0,
         at |-> {}, due |-> {}, todo |-> {}, rows |-> {}, skus |-> {}, expired |-> {},
         place |-> FALSE, final |-> "none", level |-> {}, result |-> "none"]

Init == /\ clock = 0
        /\ items = Listed
        /\ stock = [s \in Skus |-> IF s \in Listed THEN Stock0 ELSE 0]
        /\ res = [c \in Checkouts |-> NoReservation]
        /\ tx = [t \in Clients |-> Idle]

----------------------------------------------------------------------------
Live(c, now) == res[c].status = "active" /\ res[c].expires > now

(* activeQuantity: the units of s under an active hold at `now`. *)
Units(C, s) == UNION {{c} \X (1 .. res[c].lines[s]) : c \in C}
ActiveQuantity(s, now) == Cardinality(Units({c \in Checkouts : Live(c, now)}, s))

Lapsed(now) == {c \in Checkouts : res[c].status = "active" /\ ~Live(c, now)}

Lines(cart) == {s \in Skus : cart[s] > 0}

(* normalizedLines sorts a cart in code, reservationLines in the database. *)
FirstInCode(S) == CHOOSE s \in S : \A r \in S : CodeOrder[s] <= CodeOrder[r]
FirstInDb(S) == CHOOSE s \in S : \A r \in S : DbOrder[s] <= DbOrder[r]

\* The SKU the loop of t is at.
Item(t) == IF tx[t].op = "reserve" THEN FirstInCode(tx[t].todo) ELSE FirstInDb(tx[t].todo)

(* The rows the next statement of t must lock. *)
NeedsRows(t) == CASE tx[t].pc = "expire" -> tx[t].at
                  [] tx[t].pc \in {"find", "lockrow"} /\ res[tx[t].id].status # "none"
                       -> {tx[t].id}
                  [] OTHER -> {}
NeedsSkus(t) == IF /\ tx[t].pc \in {"lock", "draw", "level"} /\ tx[t].todo # {}
                   /\ tx[t].pc = "lock" => Item(t) \in items
                THEN {Item(t)} ELSE {}

WaitsFor(t, u) == /\ t # u
                  /\ \/ NeedsRows(t) \cap tx[u].rows # {}
                     \/ NeedsSkus(t) \cap tx[u].skus # {}
                     \/ /\ tx[t].pc = "lock" /\ tx[t].todo = {}    \* unique key
                        /\ tx[u].place /\ tx[u].id = tx[t].id
Granted(t) == \A u \in Clients : ~WaitsFor(t, u)

Set(t, r) == tx' = [tx EXCEPT ![t] = r]
Quiet == UNCHANGED <<clock, items, stock, res>>
End(r, result) == [r EXCEPT !.pc = "commit", !.result = result]

----------------------------------------------------------------------------
(* expireReservations: the UPDATE takes its snapshot and comes to the rows  *)
(* that match in it one at a time, in any order; stockLevels does no more.  *)
Onward(t, r, D) ==
  \/ \E c \in D : Set(t, [r EXCEPT !.pc = "expire", !.at = {c}, !.due = D \ {c}])
  \/ /\ D = {}
     /\ LET over == [r EXCEPT !.at = {}, !.due = {}] IN
        Set(t, IF r.op = "look" THEN End(over, "ok") ELSE [over EXCEPT !.pc = "find"])

(* reserve: it reads the clock, and its first statement takes its snapshot. *)
BeginReserve(t) ==
  /\ tx[t].pc = "idle"
  /\ \E c \in Checkouts, cart \in Carts :
       Onward(t, [Idle EXCEPT !.op = "reserve", !.id = c, !.cart = cart, !.now = clock],
              Lapsed(clock))
  /\ Quiet

\* It locks the row, waiting for whoever holds it, and then matches it again.
ExpireRow(t) ==
  /\ tx[t].pc = "expire" /\ Granted(t)
  /\ LET r == tx[t]
         still == {c \in r.at : res[c].status = "active"}
     IN Onward(t, [r EXCEPT !.rows = @ \cup r.at, !.expired = @ \cup still], r.due)
  /\ Quiet

\* Mutant of SameLines: no comparison of the lengths.
BeginsAlike(lines, cart) ==
  \A s \in Lines(lines) :
    /\ cart[s] = lines[s]
    /\ Cardinality({r \in Lines(lines) : DbOrder[r] <= DbOrder[s]})
         = Cardinality({r \in Lines(cart) : CodeOrder[r] <= CodeOrder[s]})
\* Position by position: the same lines in the same order.
SameLines(lines, cart) ==
  lines = cart /\ \A S \in SUBSET Lines(cart) \ {{}} : FirstInDb(S) = FirstInCode(S)

(* findByCheckout, and the answer for a checkout that is already there. *)
FindByCheckout(t) ==
  /\ tx[t].pc = "find" /\ Granted(t)
  /\ LET r == tx[t]
         row == res[r.id]
         held == [r EXCEPT !.rows = @ \cup {r.id}]
         active == row.status = "active" /\ r.id \notin r.expired
     IN CASE row.status = "none" ->
               Set(t, [r EXCEPT !.pc = "lock", !.todo = Lines(r.cart)])
          [] row.status # "none" /\ (~active \/ row.expires <= clock) ->
               Set(t, End([held EXCEPT !.expired = IF active THEN @ \cup {r.id} ELSE @],
                          "checkout_expired"))
          [] OTHER ->
               Set(t, End(held, IF SameLines(row.lines, r.cart) THEN "again"
                                ELSE "checkout_conflict"))
  /\ Quiet

LockStock(t) ==
  /\ tx[t].pc = "lock" /\ tx[t].todo # {} /\ Granted(t)
  /\ LET s == Item(t) IN
     Set(t, IF s \in items THEN [tx[t] EXCEPT !.pc = "count", !.skus = @ \cup {s}]
            ELSE End(tx[t], "item_not_found"))
  /\ Quiet

\* Mutant of Enough: what is on the shelf, holds of others included.
OnShelf(s, n, now) == n <= stock[s]
Enough(s, n, now) == n + ActiveQuantity(s, now) <= stock[s]

CountActive(t) ==
  /\ tx[t].pc = "count"
  /\ LET s == Item(t) IN
     Set(t, IF Enough(s, tx[t].cart[s], tx[t].now)
            THEN [tx[t] EXCEPT !.pc = "lock", !.todo = @ \ {s}]
            ELSE End(tx[t], "out_of_stock"))
  /\ Quiet

(* createReservation; a second row for the checkout is a unique violation, *)
(* and the transaction rolls back.                                         *)
CreateReservation(t) ==
  /\ tx[t].pc = "lock" /\ tx[t].todo = {} /\ Granted(t)
  /\ Set(t, IF res[tx[t].id].status = "none"
            THEN End([tx[t] EXCEPT !.place = TRUE, !.rows = @ \cup {tx[t].id}], "ok")
            ELSE Idle)
  /\ Quiet

----------------------------------------------------------------------------
(* finish *)
BeginFinish(t) ==
  /\ tx[t].pc = "idle"
  /\ \E c \in Checkouts, op \in {"commit", "release"} :
       /\ res[c].status # "none"     \* the id was handed out
       /\ Set(t, [Idle EXCEPT !.pc = "lockrow", !.op = op, !.id = c])
  /\ Quiet

LockReservation(t) ==
  /\ tx[t].pc = "lockrow" /\ Granted(t)
  /\ LET r == [tx[t] EXCEPT !.rows = {tx[t].id}]
         row == res[r.id]
     IN CASE row.status # "active" -> Set(t, End(r, "no"))
          [] row.status = "active" /\ r.op = "release" ->
               Set(t, End([r EXCEPT !.final = "released"], "ok"))
          [] row.status = "active" /\ r.op = "commit" /\ row.expires <= clock ->
               Set(t, End([r EXCEPT !.final = "expired"], "no"))
          [] OTHER -> Set(t, [r EXCEPT !.pc = "draw", !.cart = row.lines,
                                       !.todo = Lines(row.lines)])
  /\ Quiet

(* decrementStock: too little stock throws. *)
DecrementStock(t) ==
  /\ tx[t].pc = "draw" /\ tx[t].todo # {} /\ Granted(t)
  /\ LET s == Item(t) IN
     Set(t, IF stock[s] >= tx[t].cart[s]
            THEN [tx[t] EXCEPT !.skus = @ \cup {s}, !.todo = @ \ {s}]
            ELSE [tx[t] EXCEPT !.pc = "short"])
  /\ Quiet

MarkCommitted(t) ==
  /\ tx[t].pc = "draw" /\ tx[t].todo = {}
  /\ Set(t, End([tx[t] EXCEPT !.final = "committed"], "ok"))
  /\ Quiet

----------------------------------------------------------------------------
(* setStockLevel: ensureStockItem and lockStock, then the comparison. *)
BeginSetStock(t) ==
  /\ tx[t].pc = "idle"
  /\ \E s \in Skus, n \in Levels :
       Set(t, [Idle EXCEPT !.pc = "level", !.op = "set", !.todo = {s}, !.now = n])
  /\ Quiet

EnsureAndLock(t) ==
  /\ tx[t].pc = "level" /\ Granted(t)
  /\ Set(t, [tx[t] EXCEPT !.pc = "compare", !.skus = {Item(t)}])
  /\ Quiet

\* Mutant of NotBelow: any level is taken.
AnyLevel(s, n) == TRUE
NotBelow(s, n) == n >= ActiveQuantity(s, clock)

CompareLevel(t) ==
  /\ tx[t].pc = "compare"
  /\ LET n == tx[t].now IN
     Set(t, IF NotBelow(Item(t), n) THEN End([tx[t] EXCEPT !.level = {n}], "ok")
            ELSE End(tx[t], "no"))
  /\ Quiet

----------------------------------------------------------------------------
(* stockLevels: its UPDATE is a transaction of its own. *)
BeginLook(t) ==
  /\ tx[t].pc = "idle"
  /\ Onward(t, [Idle EXCEPT !.op = "look", !.now = clock], Lapsed(clock))
  /\ Quiet

----------------------------------------------------------------------------
(* COMMIT writes everything at once and drops the locks. *)
Commit(t) ==
  /\ tx[t].pc = "commit"
  /\ LET r == tx[t] IN
     /\ res' = [c \in Checkouts |->
          IF c = r.id /\ r.place
          THEN [status |-> "active", expires |-> r.now + TTL, lines |-> r.cart]
          ELSE IF c = r.id /\ r.final \in Final THEN [res[c] EXCEPT !.status = r.final]
          ELSE IF c \in r.expired THEN [res[c] EXCEPT !.status = "expired"] ELSE res[c]]
     /\ stock' = [s \in Skus |->
          IF r.final = "committed" THEN stock[s] - r.cart[s]
          ELSE IF r.level # {} /\ s \in r.skus THEN Max(r.level) ELSE stock[s]]
     /\ items' = IF r.op = "set" THEN items \cup r.skus ELSE items
     /\ Set(t, Idle)
  /\ UNCHANGED clock

\* Mutant of Rollback: the connection goes back with its transaction open.
LeftOpen(t) ==
  /\ tx[t].pc # "idle" /\ Set(t, [Idle EXCEPT !.rows = tx[t].rows, !.skus = tx[t].skus])
  /\ Quiet
(* ROLLBACK: a thrown error, a lost connection, a deadlock. *)
Rollback(t) == tx[t].pc # "idle" /\ Set(t, Idle) /\ Quiet

(* Postgres looks for requests that wait for one another, and ends one. *)
Cycle(D) == \A t \in D : (\E u \in D : WaitsFor(t, u)) /\ (\E u \in D : WaitsFor(u, t))
BreakDeadlock(t) == (\E D \in SUBSET Clients : t \in D /\ Cycle(D)) /\ Rollback(t)

Tick == clock < MaxClock /\ clock' = clock + 1 /\ UNCHANGED <<items, stock, res, tx>>

Begin(t) == BeginReserve(t) \/ BeginFinish(t) \/ BeginSetStock(t) \/ BeginLook(t)
Statement(t) == \/ ExpireRow(t) \/ FindByCheckout(t) \/ LockStock(t)
                \/ CountActive(t) \/ CreateReservation(t) \/ LockReservation(t)
                \/ DecrementStock(t) \/ MarkCommitted(t) \/ EnsureAndLock(t)
                \/ CompareLevel(t) \/ Commit(t)

Next == \/ \E t \in Clients : Begin(t) \/ Statement(t) \/ Rollback(t)
        \/ Tick

Spec == Init /\ [][Next]_vars

(* Postgres grants row locks in the order they were asked for (SF), and its *)
(* deadlock_timeout runs out (WF).                                          *)
FairSpec ==
  Spec /\ \A t \in Clients : SF_vars(Statement(t)) /\ WF_vars(BreakDeadlock(t))
----------------------------------------------------------------------------
(* The shape of the state: only what was reserved has lines and a status,   *)
(* and a transaction writes only rows it has locked.                        *)
TypeOK ==
  /\ clock \in 0 .. MaxClock /\ items \subseteq Skus
  /\ stock \in [Skus -> Nat]
  /\ \A c \in Checkouts : /\ res[c].status \in {"none", "active"} \cup Final
                          /\ res[c].expires \in 0 .. MaxClock + TTL
                          /\ res[c].lines \in Carts \cup {NoCart}
                          /\ res[c].status = "none" <=> res[c].lines = NoCart
  /\ \A t \in Clients : /\ tx[t].rows \subseteq Checkouts /\ tx[t].skus \subseteq Skus
                        /\ tx[t].expired \subseteq tx[t].rows
                        /\ tx[t].place => tx[t].id \in tx[t].rows

(* No overselling: the live holds of a SKU never exceed its stock, across   *)
(* concurrent checkouts, holds that lapse in mid-transaction and commits    *)
(* still in flight (the FOR UPDATE on the stock row is what serialises it). *)
(* merchant/inventory/route.ts: "Stock cannot be lower than active          *)
(* reservations".                                                           *)
HoldsAreCovered == \A s \in Skus : ActiveQuantity(s, clock) <= stock[s]

(* finish's own assertion, 'Reserved stock changed before reservation       *)
(* commit': the stock a hold set aside is there when it is drawn.           *)
ReservedStockIsThere == \A t \in Clients : tx[t].pc # "short"

(* A lapsed hold is never sold to somebody else and then drawn: from the    *)
(* moment reserve counts a hold out, that hold can no longer commit.        *)
CountedOutStaysOut ==
  \A t, u \in Clients : \A c \in Checkouts :
    (/\ tx[t].place /\ res[c].status = "active" /\ ~Live(c, tx[t].now)
     /\ \E s \in Skus : tx[t].cart[s] > 0 /\ res[c].lines[s] > 0)
      => ~(tx[u].op = "commit" /\ tx[u].id = c /\ tx[u].pc \in {"draw", "commit"}
           /\ tx[u].final # "expired" /\ c \in tx[u].rows)

(* A checkout that asks again while its hold is active is answered with     *)
(* that hold when its cart is the one held, and with a conflict when it is  *)
(* another; and for the cart held with a conflict only when the code and    *)
(* the database sort its SKUs differently.                                  *)
SortedAlike(cart) ==
  \A s, r \in Lines(cart) : CodeOrder[s] <= CodeOrder[r] <=> DbOrder[s] <= DbOrder[r]
RetryFindsItsHold ==
  \A t \in Clients : LET held == res[tx[t].id].lines IN
    /\ tx[t].result = "again" => tx[t].cart = held
    /\ tx[t].result = "checkout_conflict" => tx[t].cart # held \/ ~SortedAlike(tx[t].cart)

(* Every request ends: it waits only for requests that end, or for one that *)
(* waits for it, and then Postgres breaks the deadlock.                     *)
Called(t) == tx[t].pc # "idle"
Answered(t) == tx[t].pc \in {"idle", "short"}
CallsEnd == \A t \in Clients : Called(t) ~> Answered(t)
=============================================================================
