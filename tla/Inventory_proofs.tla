-------------------------- MODULE Inventory_proofs --------------------------
(***************************************************************************)
(* What the row locks of a reservation give, for any number of requests,   *)
(* checkouts and SKUs.  No row and no stock item has two holders, although  *)
(* a reservation that does not exist yet cannot be locked and is guarded   *)
(* by its unique key only; so what a retry was compared with is still      *)
(* there when it is answered (IInv).  And what the holds promise of a SKU  *)
(* is covered by its stock, is there when it is drawn, and a hold once     *)
(* counted out stays out (StockInv).  What holds promise is a sum; it is   *)
(* compared as the size of a pile of things, one of which is set aside for *)
(* each unit of each hold.                                                 *)
(***************************************************************************)
EXTENDS Inventory, FiniteSetTheorems, WellFoundedInduction, TLAPS

Fields == {"pc", "op", "id", "cart", "now", "at", "due", "todo", "rows", "skus", "expired",
           "place", "final", "level", "result"}
IsTransaction(x) == DOMAIN x = Fields /\ x = [f \in DOMAIN x |-> x[f]]
IsReservation(r) == r = [status |-> r.status, expires |-> r.expires, lines |-> r.lines]

Shape == /\ tx = [t \in Clients |-> tx[t]] /\ \A t \in Clients : IsTransaction(tx[t])
         /\ res = [c \in Checkouts |-> res[c]] /\ \A c \in Checkouts : IsReservation(res[c])

(* A transaction locks rows that exist, or the one it is about to insert. *)
Locking == {"find", "lock", "count", "lockrow"}
RowsAreThere(x) ==
  /\ x.rows \subseteq Checkouts
  /\ x.pc \in Locking \/ (x.pc = "expire" /\ x.op # "look") => x.id \in Checkouts
  /\ x.pc = "expire" => \A c \in x.at \cup x.due : c \in Checkouts /\ res[c].status # "none"
  /\ x.pc = "level" => x.todo # {}
  /\ x.pc = "lockrow" => res[x.id].status # "none"
  /\ \A c \in x.rows : res[c].status # "none" \/ (x.place /\ x.id = c)
  /\ x.place \in BOOLEAN
  /\ x.place => x.pc = "commit" /\ x.id \in x.rows
  /\ x.result # "none" => x.pc = "commit"

(* A row, and a stock item, has one holder. *)
LocksAreExclusive ==
  \A t, u \in Clients : t # u => /\ tx[t].rows \cap tx[u].rows = {}
                                 /\ tx[t].skus \cap tx[u].skus = {}

(* A checkout told of a hold, or of a conflict with it, holds its row. *)
RightAnswer(x) ==
  x.result \in {"again", "checkout_conflict"} =>
    /\ x.id \in x.rows /\ ~x.place
    /\ x.result = "again" <=> SameLines(res[x.id].lines, x.cart)

IInv == /\ Shape /\ LocksAreExclusive
        /\ \A t \in Clients : RowsAreThere(tx[t]) /\ RightAnswer(tx[t])

-----------------------------------------------------------------------------
(* A statement of t that changes the transaction alone keeps the invariant *)
(* when what it adds to the locks was granted.                             *)
LEMMA StatementKeeps ==
  ASSUME IInv, NEW t \in Clients, NEW x, tx' = [tx EXCEPT ![t] = x], res' = res,
         IsTransaction(x), RowsAreThere(x), RightAnswer(x),
         \A u \in Clients \ {t} : x.rows \cap tx[u].rows = {} /\ x.skus \cap tx[u].skus = {}
  PROVE  IInv'
<1>1. /\ tx' = [u \in Clients |-> tx'[u]] /\ tx'[t] = x
      /\ \A u \in Clients \ {t} : tx'[u] = tx[u]
  BY DEF IInv, Shape
<1>2. Shape'
  BY <1>1 DEF IInv, Shape, IsTransaction, IsReservation
<1>3. LocksAreExclusive'
  BY <1>1 DEF IInv, LocksAreExclusive
<1>4. ASSUME NEW u \in Clients PROVE RowsAreThere(tx[u])' /\ RightAnswer(tx[u])'
  BY <1>1 DEF IInv, RowsAreThere, RightAnswer
<1>. QED BY <1>2, <1>3, <1>4 DEF IInv

(* The same when no lock is added. *)
LEMMA QuietStatement ==
  ASSUME IInv, NEW t \in Clients, NEW x, tx' = [tx EXCEPT ![t] = x], res' = res,
         IsTransaction(x), RowsAreThere(x), RightAnswer(x),
         x.rows \subseteq tx[t].rows, x.skus \subseteq tx[t].skus
  PROVE  IInv'
<1>1. \A u \in Clients \ {t} : x.rows \cap tx[u].rows = {} /\ x.skus \cap tx[u].skus = {}
  BY DEF IInv, LocksAreExclusive
<1>. QED BY <1>1, StatementKeeps

(* A transaction begins, or is rolled back. *)
LEMMA IdleKeeps ==
  /\ IsTransaction(Idle) /\ Idle.rows = {} /\ Idle.skus = {} /\ Idle.place = FALSE
  /\ Idle.result = "none" /\ Idle.pc = "idle"
BY DEF IsTransaction, Fields, Idle

(* The sweep comes to another row, or is over. *)
LEMMA OnwardKeeps ==
  ASSUME IInv, NEW t \in Clients, NEW r, NEW D, Onward(t, r, D), res' = res,
         IsTransaction(r), r.place = FALSE, r.result = "none",
         r.op # "look" => r.id \in Checkouts,
         \A c \in r.rows \cup D : c \in Checkouts /\ res[c].status # "none",
         \A u \in Clients \ {t} : r.rows \cap tx[u].rows = {} /\ r.skus \cap tx[u].skus = {}
  PROVE  IInv'
<1>1. CASE \E c \in D : tx' = [tx EXCEPT ![t] = [r EXCEPT !.pc = "expire", !.at = {c},
                                                         !.due = D \ {c}]]
  <2>1. PICK c \in D : tx' = [tx EXCEPT ![t] = [r EXCEPT !.pc = "expire", !.at = {c},
                                                        !.due = D \ {c}]]
    BY <1>1
  <2> DEFINE x == [r EXCEPT !.pc = "expire", !.at = {c}, !.due = D \ {c}]
  <2>2. /\ IsTransaction(x) /\ x.pc = "expire" /\ x.at = {c} /\ x.due = D \ {c}
        /\ x.rows = r.rows /\ x.skus = r.skus /\ x.place = FALSE /\ x.result = "none"
        /\ x.op = r.op /\ x.id = r.id
    BY DEF IsTransaction, Fields
  <2>3. tx' = [tx EXCEPT ![t] = x]
    BY <2>1
  <2> HIDE DEF x
  <2>4. RowsAreThere(x) /\ RightAnswer(x)
    BY <2>2 DEF RowsAreThere, RightAnswer, Locking
  <2>. QED BY <2>2, <2>3, <2>4, StatementKeeps
<1> DEFINE over == [r EXCEPT !.at = {}, !.due = {}]
<1>2. ASSUME NEW x, tx' = [tx EXCEPT ![t] = x], IsTransaction(x), x.rows = r.rows,
             x.skus = r.skus, x.place = FALSE, x.id = r.id,
             \/ x.pc = "commit" /\ x.result = "ok"
             \/ x.pc = "find" /\ x.result = "none" /\ r.op # "look"
      PROVE  IInv'
  <2>1. RowsAreThere(x) /\ RightAnswer(x)
    BY <1>2 DEF RowsAreThere, RightAnswer, Locking
  <2>. QED BY <1>2, <2>1, StatementKeeps
<1>3. CASE r.op = "look" /\ tx' = [tx EXCEPT ![t] = End(over, "ok")]
  <2> DEFINE x == [over EXCEPT !.pc = "commit", !.result = "ok"]
  <2>1. tx' = [tx EXCEPT ![t] = x]
    BY <1>3 DEF End
  <2>2. /\ IsTransaction(x) /\ x.pc = "commit" /\ x.rows = r.rows /\ x.skus = r.skus
        /\ x.place = FALSE /\ x.result = "ok" /\ x.id = r.id
    BY DEF IsTransaction, Fields
  <2> HIDE DEF x
  <2>. QED BY <1>2, <2>1, <2>2
<1>4. CASE r.op # "look" /\ tx' = [tx EXCEPT ![t] = [over EXCEPT !.pc = "find"]]
  <2> DEFINE x == [over EXCEPT !.pc = "find"]
  <2>1. tx' = [tx EXCEPT ![t] = x]
    BY <1>4
  <2>2. /\ IsTransaction(x) /\ x.pc = "find" /\ x.rows = r.rows /\ x.skus = r.skus
        /\ x.place = FALSE /\ x.result = "none" /\ x.id = r.id
    BY DEF IsTransaction, Fields
  <2> HIDE DEF x
  <2>. QED BY <1>2, <1>4, <2>1, <2>2
<1>. QED BY <1>1, <1>3, <1>4 DEF Onward, Set

LEMMA LapsedAreThere ==
  ASSUME NEW now
  PROVE  \A c \in Lapsed(now) : c \in Checkouts /\ res[c].status # "none"
BY DEF Lapsed

LEMMA BeginKeeps ==
  ASSUME IInv, NEW t \in Clients, Begin(t) \/ Rollback(t)
  PROVE  IInv'
<1>1. CASE BeginReserve(t)
  <2>1. PICK c \in Checkouts, cart \in Carts :
          Onward(t, [Idle EXCEPT !.op = "reserve", !.id = c, !.cart = cart, !.now = clock],
                 Lapsed(clock))
    BY <1>1 DEF BeginReserve
  <2> DEFINE x == [Idle EXCEPT !.op = "reserve", !.id = c, !.cart = cart, !.now = clock]
  <2>2. /\ IsTransaction(x) /\ x.rows = {} /\ x.skus = {} /\ x.place = FALSE
        /\ x.result = "none" /\ x.id = c
    BY DEF IsTransaction, Fields, Idle
  <2>3. Onward(t, x, Lapsed(clock)) /\ res' = res
    BY <1>1, <2>1 DEF BeginReserve, Quiet
  <2> HIDE DEF x
  <2>. QED BY <2>2, <2>3, LapsedAreThere, OnwardKeeps
<1>2. CASE BeginFinish(t)
  <2>1. PICK c \in Checkouts, op \in {"commit", "release"} :
          /\ res[c].status # "none"
          /\ tx' = [tx EXCEPT ![t] = [Idle EXCEPT !.pc = "lockrow", !.op = op, !.id = c]]
    BY <1>2 DEF BeginFinish, Set
  <2> DEFINE x == [Idle EXCEPT !.pc = "lockrow", !.op = op, !.id = c]
  <2>2. /\ IsTransaction(x) /\ x.pc = "lockrow" /\ x.rows = {} /\ x.skus = {}
        /\ x.place = FALSE /\ x.result = "none" /\ x.id = c
    BY DEF IsTransaction, Fields, Idle
  <2> HIDE DEF x
  <2>3. RowsAreThere(x) /\ RightAnswer(x)
    BY <2>1, <2>2 DEF RowsAreThere, RightAnswer, Locking
  <2>4. tx' = [tx EXCEPT ![t] = x] /\ res' = res
    BY <1>2, <2>1 DEF x, BeginFinish, Quiet
  <2>. QED BY <2>2, <2>3, <2>4, QuietStatement
<1>3. CASE BeginSetStock(t)
  <2>1. PICK s \in Skus, n \in Levels :
          tx' = [tx EXCEPT ![t] = [Idle EXCEPT !.pc = "level", !.op = "set", !.todo = {s},
                                               !.now = n]]
    BY <1>3 DEF BeginSetStock, Set
  <2> DEFINE x == [Idle EXCEPT !.pc = "level", !.op = "set", !.todo = {s}, !.now = n]
  <2>2. /\ IsTransaction(x) /\ x.pc = "level" /\ x.rows = {} /\ x.skus = {}
        /\ x.place = FALSE /\ x.result = "none" /\ x.todo # {}
    BY DEF IsTransaction, Fields, Idle
  <2> HIDE DEF x
  <2>3. RowsAreThere(x) /\ RightAnswer(x)
    BY <2>2 DEF RowsAreThere, RightAnswer, Locking
  <2>4. tx' = [tx EXCEPT ![t] = x] /\ res' = res
    BY <1>3, <2>1 DEF x, BeginSetStock, Quiet
  <2>. QED BY <2>2, <2>3, <2>4, QuietStatement
<1>4. CASE Rollback(t)
  <2>1. tx' = [tx EXCEPT ![t] = Idle] /\ res' = res
    BY <1>4 DEF Rollback, Set, Quiet
  <2>2. RowsAreThere(Idle) /\ RightAnswer(Idle)
    BY IdleKeeps DEF RowsAreThere, RightAnswer, Locking
  <2>. QED BY <2>1, <2>2, IdleKeeps, QuietStatement
<1>5. CASE BeginLook(t)
  <2> DEFINE x == [Idle EXCEPT !.op = "look", !.now = clock]
  <2>1. /\ IsTransaction(x) /\ x.rows = {} /\ x.skus = {} /\ x.place = FALSE
        /\ x.result = "none" /\ x.op = "look"
    BY DEF IsTransaction, Fields, Idle
  <2>2. Onward(t, x, Lapsed(clock)) /\ res' = res
    BY <1>5 DEF BeginLook, Quiet
  <2> HIDE DEF x
  <2>. QED BY <2>1, <2>2, LapsedAreThere, OnwardKeeps
<1>. QED BY <1>1, <1>2, <1>3, <1>4, <1>5 DEF Begin

-----------------------------------------------------------------------------
(* The statements.                                                         *)

LEMMA Mine ==
  ASSUME IInv, NEW t \in Clients
  PROVE  /\ IsTransaction(tx[t]) /\ RowsAreThere(tx[t]) /\ RightAnswer(tx[t])
         /\ \A c \in Checkouts : IsReservation(res[c])
BY DEF IInv, Shape

(* What a granted statement asks for is in nobody else's hands. *)
LEMMA GrantedAlone ==
  ASSUME NEW t \in Clients, Granted(t), NEW u \in Clients \ {t}
  PROVE  /\ NeedsRows(t) \cap tx[u].rows = {} /\ NeedsSkus(t) \cap tx[u].skus = {}
         /\ ~(tx[t].pc = "lock" /\ tx[t].todo = {} /\ tx[u].place /\ tx[u].id = tx[t].id)
BY DEF Granted, WaitsFor

LEMMA ExpireKeeps ==
  ASSUME IInv, NEW t \in Clients, ExpireRow(t)
  PROVE  IInv'
<1> DEFINE r == tx[t]
           still == {c \in r.at : res[c].status = "active"}
           x == [r EXCEPT !.rows = r.rows \cup r.at, !.expired = r.expired \cup still]
<1>1. r.pc = "expire" /\ Granted(t) /\ Onward(t, x, r.due) /\ res' = res
  BY DEF ExpireRow, Quiet
<1> HIDE DEF still
<1>2. /\ IsTransaction(x) /\ x.rows = r.rows \cup r.at /\ x.skus = r.skus
      /\ x.place = r.place /\ x.result = r.result /\ x.id = r.id /\ x.op = r.op
  BY Mine DEF IsTransaction, Fields
<1> HIDE DEF x
<1>3. /\ r.place = FALSE /\ r.result = "none"
      /\ r.op # "look" => r.id \in Checkouts
      /\ \A c \in r.rows \cup r.at \cup r.due : c \in Checkouts /\ res[c].status # "none"
  BY <1>1, Mine DEF RowsAreThere
<1>4. \A u \in Clients \ {t} : r.at \cap tx[u].rows = {}
  BY <1>1, GrantedAlone DEF NeedsRows
<1>5. \A u \in Clients \ {t} : x.rows \cap tx[u].rows = {} /\ x.skus \cap tx[u].skus = {}
  BY <1>2, <1>4 DEF IInv, LocksAreExclusive
<1>. QED BY <1>1, <1>2, <1>3, <1>5, OnwardKeeps

LEMMA FindKeeps ==
  ASSUME IInv, NEW t \in Clients, FindByCheckout(t)
  PROVE  IInv'
<1> DEFINE r == tx[t]
           row == res[r.id]
           active == row.status = "active" /\ r.id \notin r.expired
           Right(v) == v \in {"again", "checkout_conflict"} =>
                         (v = "again" <=> SameLines(row.lines, r.cart))
<1>1. r.pc = "find" /\ Granted(t) /\ res' = res /\ r.id \in Checkouts
  BY Mine DEF FindByCheckout, Quiet, RowsAreThere, Locking
<1>2. CASE row.status = "none"
  <2> DEFINE x == [r EXCEPT !.pc = "lock", !.todo = Lines(r.cart)]
  <2>1. tx' = [tx EXCEPT ![t] = x]
    BY <1>2 DEF FindByCheckout, Set
  <2>2. /\ IsTransaction(x) /\ x.pc = "lock" /\ x.rows = r.rows /\ x.id = r.id /\ x.skus = r.skus
        /\ x.place = r.place /\ x.result = r.result
    BY Mine DEF IsTransaction, Fields
  <2> HIDE DEF x
  <2>3. RowsAreThere(x) /\ RightAnswer(x)
    BY <1>1, <2>2, Mine DEF RowsAreThere, RightAnswer, Locking
  <2>. QED BY <1>1, <2>1, <2>2, <2>3, QuietStatement
<1>3. CASE row.status # "none"
  <2> DEFINE held == [r EXCEPT !.rows = r.rows \cup {r.id}]
  <2>1. \E e, v : /\ tx' = [tx EXCEPT ![t] = End([held EXCEPT !.expired = e], v)]
                  /\ Right(v)
    <3>1. CASE ~active \/ row.expires <= clock
      <4> DEFINE e == IF active THEN held.expired \cup {r.id} ELSE held.expired
                 v == "checkout_expired"
      <4>1. tx' = [tx EXCEPT ![t] = End([held EXCEPT !.expired = e], v)]
        BY <1>3, <3>1 DEF FindByCheckout, Set
      <4>2. Right(v)
        OBVIOUS
      <4> HIDE DEF e, v, held
      <4>. QED BY <4>1, <4>2
    <3>2. CASE ~(~active \/ row.expires <= clock)
      <4> DEFINE e == held.expired
                 v == IF SameLines(row.lines, r.cart) THEN "again" ELSE "checkout_conflict"
      <4>1. tx' = [tx EXCEPT ![t] = End(held, v)]
        BY <1>3, <3>2 DEF FindByCheckout, Set
      <4>2. held = [held EXCEPT !.expired = e]
        BY Mine DEF IsTransaction, Fields
      <4>3. Right(v)
        OBVIOUS
      <4> HIDE DEF e, v, held
      <4>4. tx' = [tx EXCEPT ![t] = End([held EXCEPT !.expired = e], v)]
        BY <4>1, <4>2
      <4>. QED BY <4>3, <4>4
    <3>. QED BY <3>1, <3>2
  <2>2. PICK e, v : /\ tx' = [tx EXCEPT ![t] = End([held EXCEPT !.expired = e], v)]
                    /\ Right(v)
    BY <2>1
  <2> DEFINE x == [[held EXCEPT !.expired = e] EXCEPT !.pc = "commit", !.result = v]
  <2>3. tx' = [tx EXCEPT ![t] = x]
    BY <2>2 DEF End
  <2>4. /\ IsTransaction(x) /\ x.pc = "commit" /\ x.rows = r.rows \cup {r.id} /\ x.id = r.id
        /\ x.skus = r.skus /\ x.place = r.place /\ x.result = v /\ x.cart = r.cart
    BY Mine DEF IsTransaction, Fields
  <2> HIDE DEF x, held
  <2>5. r.place = FALSE
    BY <1>1, Mine DEF RowsAreThere
  <2>6. Right(v)
    BY <2>2
  <2>7. RowsAreThere(x) /\ RightAnswer(x)
    BY <1>1, <1>3, <2>4, <2>5, <2>6, Mine DEF RowsAreThere, RightAnswer, Locking
  <2>8. \A u \in Clients \ {t} : x.rows \cap tx[u].rows = {} /\ x.skus \cap tx[u].skus = {}
    <3>1. NeedsRows(t) = {r.id}
      BY <1>1, <1>3 DEF NeedsRows
    <3>2. \A u \in Clients \ {t} : {r.id} \cap tx[u].rows = {}
      BY <1>1, <3>1, GrantedAlone
    <3>. QED BY <2>4, <3>2 DEF IInv, LocksAreExclusive
  <2>. QED BY <1>1, <2>3, <2>4, <2>7, <2>8, StatementKeeps
<1>. QED BY <1>2, <1>3

(* The statements of reserve that lock and count stock. *)
LEMMA LockStockKeeps ==
  ASSUME IInv, NEW t \in Clients, LockStock(t)
  PROVE  IInv'
<1> DEFINE r == tx[t]
           s == Item(t)
<1>1. r.pc = "lock" /\ r.todo # {} /\ Granted(t) /\ res' = res
  BY DEF LockStock, Quiet
<1> HIDE DEF s
<1>2. CASE s \in items
  <2> DEFINE x == [r EXCEPT !.pc = "count", !.skus = r.skus \cup {s}]
  <2>1. tx' = [tx EXCEPT ![t] = x]
    BY <1>2 DEF LockStock, Set, s
  <2>2. /\ IsTransaction(x) /\ x.pc = "count" /\ x.rows = r.rows /\ x.id = r.id
        /\ x.skus = r.skus \cup {s} /\ x.place = r.place /\ x.result = r.result
    BY Mine DEF IsTransaction, Fields
  <2> HIDE DEF x
  <2>3. RowsAreThere(x) /\ RightAnswer(x)
    BY <1>1, <2>2, Mine DEF RowsAreThere, RightAnswer, Locking
  <2>4. \A u \in Clients \ {t} : x.rows \cap tx[u].rows = {} /\ x.skus \cap tx[u].skus = {}
    <3>1. NeedsSkus(t) = {s}
      BY <1>1, <1>2 DEF NeedsSkus, s
    <3>2. \A u \in Clients \ {t} : {s} \cap tx[u].skus = {}
      BY <1>1, <3>1, GrantedAlone
    <3>. QED BY <2>2, <3>2 DEF IInv, LocksAreExclusive
  <2>. QED BY <1>1, <2>1, <2>2, <2>3, <2>4, StatementKeeps
<1>3. CASE s \notin items
  <2> DEFINE x == [r EXCEPT !.pc = "commit", !.result = "item_not_found"]
  <2>1. tx' = [tx EXCEPT ![t] = x]
    BY <1>3 DEF LockStock, Set, End, s
  <2>2. /\ IsTransaction(x) /\ x.pc = "commit" /\ x.rows = r.rows /\ x.id = r.id
        /\ x.skus = r.skus /\ x.place = r.place /\ x.result = "item_not_found"
    BY Mine DEF IsTransaction, Fields
  <2> HIDE DEF x
  <2>3. RowsAreThere(x) /\ RightAnswer(x)
    BY <1>1, <2>2, Mine DEF RowsAreThere, RightAnswer, Locking
  <2>. QED BY <1>1, <2>1, <2>2, <2>3, QuietStatement
<1>. QED BY <1>2, <1>3

LEMMA CountKeeps ==
  ASSUME IInv, NEW t \in Clients, CountActive(t)
  PROVE  IInv'
<1> DEFINE r == tx[t]
<1>1. r.pc = "count" /\ res' = res
  BY DEF CountActive, Quiet
<1>2. \/ tx' = [tx EXCEPT ![t] = [r EXCEPT !.pc = "lock", !.todo = r.todo \ {Item(t)}]]
      \/ tx' = [tx EXCEPT ![t] = [r EXCEPT !.pc = "commit", !.result = "out_of_stock"]]
  BY DEF CountActive, Set, End
<1>3. CASE tx' = [tx EXCEPT ![t] = [r EXCEPT !.pc = "lock", !.todo = r.todo \ {Item(t)}]]
  <2> DEFINE x == [r EXCEPT !.pc = "lock", !.todo = r.todo \ {Item(t)}]
  <2>1. tx' = [tx EXCEPT ![t] = x]
    BY <1>3
  <2>2. /\ IsTransaction(x) /\ x.pc = "lock" /\ x.rows = r.rows /\ x.id = r.id
        /\ x.skus = r.skus /\ x.place = r.place /\ x.result = r.result
    BY Mine DEF IsTransaction, Fields
  <2> HIDE DEF x
  <2>3. RowsAreThere(x) /\ RightAnswer(x)
    BY <1>1, <2>2, Mine DEF RowsAreThere, RightAnswer, Locking
  <2>. QED BY <1>1, <2>1, <2>2, <2>3, QuietStatement
<1>4. CASE tx' = [tx EXCEPT ![t] = [r EXCEPT !.pc = "commit", !.result = "out_of_stock"]]
  <2> DEFINE x == [r EXCEPT !.pc = "commit", !.result = "out_of_stock"]
  <2>1. tx' = [tx EXCEPT ![t] = x]
    BY <1>4
  <2>2. /\ IsTransaction(x) /\ x.pc = "commit" /\ x.rows = r.rows /\ x.id = r.id
        /\ x.skus = r.skus /\ x.place = r.place /\ x.result = "out_of_stock"
    BY Mine DEF IsTransaction, Fields
  <2> HIDE DEF x
  <2>3. RowsAreThere(x) /\ RightAnswer(x)
    BY <1>1, <2>2, Mine DEF RowsAreThere, RightAnswer, Locking
  <2>. QED BY <1>1, <2>1, <2>2, <2>3, QuietStatement
<1>. QED BY <1>2, <1>3, <1>4

(* The insert: the row is not there to be locked, but whoever has inserted *)
(* it is waited for.                                                       *)
LEMMA CreateKeeps ==
  ASSUME IInv, NEW t \in Clients, CreateReservation(t)
  PROVE  IInv'
<1> DEFINE r == tx[t]
<1>1. r.pc = "lock" /\ r.todo = {} /\ Granted(t) /\ res' = res /\ r.id \in Checkouts
  BY Mine DEF CreateReservation, Quiet, RowsAreThere, Locking
<1>2. CASE res[r.id].status = "none"
  <2> DEFINE x == [[r EXCEPT !.place = TRUE, !.rows = r.rows \cup {r.id}]
                     EXCEPT !.pc = "commit", !.result = "ok"]
  <2>1. tx' = [tx EXCEPT ![t] = x]
    BY <1>2 DEF CreateReservation, Set, End
  <2>2. /\ IsTransaction(x) /\ x.pc = "commit" /\ x.rows = r.rows \cup {r.id} /\ x.id = r.id
        /\ x.skus = r.skus /\ x.place = TRUE /\ x.result = "ok"
    BY Mine DEF IsTransaction, Fields
  <2> HIDE DEF x
  <2>3. RowsAreThere(x) /\ RightAnswer(x)
    BY <1>1, <2>2, Mine DEF RowsAreThere, RightAnswer, Locking
  <2>4. ASSUME NEW u \in Clients \ {t} PROVE r.id \notin tx[u].rows
    BY <1>1, <1>2, GrantedAlone, Mine DEF RowsAreThere
  <2>5. \A u \in Clients \ {t} : x.rows \cap tx[u].rows = {} /\ x.skus \cap tx[u].skus = {}
    BY <2>2, <2>4 DEF IInv, LocksAreExclusive
  <2>. QED BY <1>1, <2>1, <2>2, <2>3, <2>5, StatementKeeps
<1>3. CASE res[r.id].status # "none"
  <2>1. tx' = [tx EXCEPT ![t] = Idle]
    BY <1>3 DEF CreateReservation, Set
  <2>2. RowsAreThere(Idle) /\ RightAnswer(Idle)
    BY IdleKeeps DEF RowsAreThere, RightAnswer, Locking
  <2>. QED BY <1>1, <2>1, <2>2, IdleKeeps, QuietStatement
<1>. QED BY <1>2, <1>3

(* The statements of finish. *)
LEMMA LockReservationKeeps ==
  ASSUME IInv, NEW t \in Clients, LockReservation(t)
  PROVE  IInv'
<1> DEFINE r == tx[t]
           row == res[r.id]
           held == [r EXCEPT !.rows = {r.id}]
<1>1. /\ r.pc = "lockrow" /\ Granted(t) /\ res' = res /\ r.id \in Checkouts
      /\ row.status # "none" /\ r.place = FALSE /\ r.result = "none"
  BY Mine DEF LockReservation, Quiet, RowsAreThere, Locking
<1>2. ASSUME NEW x, tx' = [tx EXCEPT ![t] = x], IsTransaction(x), x.pc \in {"commit", "draw"},
             x.rows = {r.id}, x.id = r.id, x.skus = r.skus, x.place = FALSE,
             x.result = "none" \/ (x.pc = "commit" /\ x.result \in {"no", "ok"})
      PROVE  IInv'
  <2>1. RowsAreThere(x) /\ RightAnswer(x)
    BY <1>1, <1>2 DEF RowsAreThere, RightAnswer, Locking
  <2>2. NeedsRows(t) = {r.id}
    BY <1>1 DEF NeedsRows
  <2>3. \A u \in Clients \ {t} : {r.id} \cap tx[u].rows = {}
    BY <1>1, <2>2, GrantedAlone
  <2>4. \A u \in Clients \ {t} : x.rows \cap tx[u].rows = {} /\ x.skus \cap tx[u].skus = {}
    BY <1>2, <2>3 DEF IInv, LocksAreExclusive
  <2>. QED BY <1>1, <1>2, <2>1, <2>4, StatementKeeps
<1>3. \/ \E f, v : v \in {"no", "ok"} /\ tx' = [tx EXCEPT ![t] = End([held EXCEPT !.final = f], v)]
      \/ \E q : tx' = [tx EXCEPT ![t] = [held EXCEPT !.pc = "draw", !.cart = row.lines,
                                                    !.todo = q]]
  <2>1. CASE row.status # "active"
    <3> DEFINE f == held.final
               v == "no"
    <3>1. tx' = [tx EXCEPT ![t] = End(held, v)]
      BY <2>1 DEF LockReservation, Set
    <3>2. held = [held EXCEPT !.final = f] /\ v \in {"no", "ok"}
      BY Mine DEF IsTransaction, Fields
    <3> HIDE DEF f, v, held
    <3>3. tx' = [tx EXCEPT ![t] = End([held EXCEPT !.final = f], v)]
      BY <3>1, <3>2
    <3>. QED BY <3>2, <3>3
  <2>2. CASE row.status = "active" /\ r.op = "release"
    <3> DEFINE f == "released"
               v == "ok"
    <3>1. tx' = [tx EXCEPT ![t] = End([held EXCEPT !.final = f], v)]
      BY <2>2, Mine DEF LockReservation, Set
    <3>2. v \in {"no", "ok"}
      OBVIOUS
    <3> HIDE DEF f, v, held
    <3>. QED BY <3>1, <3>2
  <2>3. CASE row.status = "active" /\ r.op = "commit" /\ row.expires <= clock
    <3> DEFINE f == "expired"
               v == "no"
    <3>1. tx' = [tx EXCEPT ![t] = End([held EXCEPT !.final = f], v)]
      BY <2>3, Mine DEF LockReservation, Set
    <3>2. v \in {"no", "ok"}
      OBVIOUS
    <3> HIDE DEF f, v, held
    <3>. QED BY <3>1, <3>2
  <2>4. CASE /\ row.status = "active" /\ r.op # "release"
             /\ ~(r.op = "commit" /\ row.expires <= clock)
    <3> DEFINE q == Lines(row.lines)
    <3>1. tx' = [tx EXCEPT ![t] = [held EXCEPT !.pc = "draw", !.cart = row.lines, !.todo = q]]
      BY <2>4, Mine DEF LockReservation, Set, IsTransaction, Fields
    <3> HIDE DEF q, held
    <3>. QED BY <3>1
  <2>. QED BY <2>1, <2>2, <2>3, <2>4
<1>4. ASSUME NEW f, NEW v \in {"no", "ok"}, tx' = [tx EXCEPT ![t] = End([held EXCEPT !.final = f], v)]
      PROVE  IInv'
  <2> DEFINE x == [[held EXCEPT !.final = f] EXCEPT !.pc = "commit", !.result = v]
  <2>1. tx' = [tx EXCEPT ![t] = x]
    BY <1>4 DEF End
  <2>2. /\ IsTransaction(x) /\ x.pc = "commit" /\ x.rows = {r.id} /\ x.id = r.id
        /\ x.skus = r.skus /\ x.place = FALSE /\ x.result = v
    BY <1>1, Mine DEF IsTransaction, Fields
  <2> HIDE DEF x
  <2>. QED BY <1>2, <1>4, <2>1, <2>2
<1>5. ASSUME NEW q, tx' = [tx EXCEPT ![t] = [held EXCEPT !.pc = "draw", !.cart = row.lines,
                                                        !.todo = q]]
      PROVE  IInv'
  <2> DEFINE x == [held EXCEPT !.pc = "draw", !.cart = row.lines, !.todo = q]
  <2>1. tx' = [tx EXCEPT ![t] = x]
    BY <1>5
  <2>2. /\ IsTransaction(x) /\ x.pc = "draw" /\ x.rows = {r.id} /\ x.id = r.id
        /\ x.skus = r.skus /\ x.place = FALSE /\ x.result = "none"
    BY <1>1, Mine DEF IsTransaction, Fields
  <2> HIDE DEF x
  <2>. QED BY <1>2, <2>1, <2>2
<1>. QED BY <1>3, <1>4, <1>5

LEMMA DrawKeeps ==
  ASSUME IInv, NEW t \in Clients, DecrementStock(t) \/ MarkCommitted(t)
  PROVE  IInv'
<1> DEFINE r == tx[t]
           s == Item(t)
<1>1. r.pc = "draw" /\ res' = res /\ r.place = FALSE /\ r.result = "none"
  BY Mine DEF DecrementStock, MarkCommitted, Quiet, RowsAreThere
<1>2. ASSUME NEW x, tx' = [tx EXCEPT ![t] = x], IsTransaction(x),
             x.pc \in {"draw", "short", "commit"}, x.rows = r.rows, x.place = FALSE,
             x.result = "none" \/ (x.pc = "commit" /\ x.result = "ok"),
             \A u \in Clients \ {t} : x.skus \cap tx[u].skus = {}
      PROVE  IInv'
  <2>1. RowsAreThere(x) /\ RightAnswer(x)
    BY <1>1, <1>2, Mine DEF RowsAreThere, RightAnswer, Locking
  <2>2. \A u \in Clients \ {t} : x.rows \cap tx[u].rows = {}
    BY <1>2 DEF IInv, LocksAreExclusive
  <2>. QED BY <1>1, <1>2, <2>1, <2>2, StatementKeeps
<1>3. CASE DecrementStock(t) /\ stock[s] >= r.cart[s]
  <2> DEFINE x == [r EXCEPT !.skus = r.skus \cup {s}, !.todo = r.todo \ {Item(t)}]
  <2>1. tx' = [tx EXCEPT ![t] = x]
    BY <1>3 DEF DecrementStock, Set
  <2> HIDE DEF s
  <2>2. /\ IsTransaction(x) /\ x.pc = "draw" /\ x.rows = r.rows
        /\ x.skus = r.skus \cup {s} /\ x.place = FALSE /\ x.result = "none"
    BY <1>1, Mine DEF IsTransaction, Fields
  <2> HIDE DEF x
  <2>3. \A u \in Clients \ {t} : x.skus \cap tx[u].skus = {}
    <3>1. NeedsSkus(t) = {s} /\ Granted(t)
      BY <1>1, <1>3 DEF NeedsSkus, DecrementStock, s
    <3>2. \A u \in Clients \ {t} : {s} \cap tx[u].skus = {}
      BY <3>1, GrantedAlone
    <3>. QED BY <2>2, <3>2 DEF IInv, LocksAreExclusive
  <2>. QED BY <1>2, <2>1, <2>2, <2>3
<1>4. CASE DecrementStock(t) /\ ~(stock[s] >= r.cart[s])
  <2> DEFINE x == [r EXCEPT !.pc = "short"]
  <2>1. tx' = [tx EXCEPT ![t] = x]
    BY <1>4 DEF DecrementStock, Set
  <2>2. /\ IsTransaction(x) /\ x.pc = "short" /\ x.rows = r.rows
        /\ x.skus = r.skus /\ x.place = FALSE /\ x.result = "none"
    BY <1>1, Mine DEF IsTransaction, Fields
  <2> HIDE DEF x
  <2>3. \A u \in Clients \ {t} : x.skus \cap tx[u].skus = {}
    BY <2>2 DEF IInv, LocksAreExclusive
  <2>. QED BY <1>2, <2>1, <2>2, <2>3
<1>5. CASE MarkCommitted(t)
  <2> DEFINE x == [[r EXCEPT !.final = "committed"] EXCEPT !.pc = "commit", !.result = "ok"]
  <2>1. tx' = [tx EXCEPT ![t] = x]
    BY <1>5 DEF MarkCommitted, Set, End
  <2>2. /\ IsTransaction(x) /\ x.pc = "commit" /\ x.rows = r.rows
        /\ x.skus = r.skus /\ x.place = FALSE /\ x.result = "ok"
    BY <1>1, Mine DEF IsTransaction, Fields
  <2> HIDE DEF x
  <2>3. \A u \in Clients \ {t} : x.skus \cap tx[u].skus = {}
    BY <2>2 DEF IInv, LocksAreExclusive
  <2>. QED BY <1>2, <2>1, <2>2, <2>3
<1>. QED BY <1>3, <1>4, <1>5

(* The statements of setStockLevel. *)
LEMMA LevelKeeps ==
  ASSUME IInv, NEW t \in Clients, EnsureAndLock(t) \/ CompareLevel(t)
  PROVE  IInv'
<1> DEFINE r == tx[t]
           s == Item(t)
<1>1. /\ r.pc \in {"level", "compare"} /\ res' = res /\ r.place = FALSE /\ r.result = "none"
      /\ r.pc = "level" => r.todo # {}
  BY Mine DEF EnsureAndLock, CompareLevel, Quiet, RowsAreThere
<1>2. CASE EnsureAndLock(t)
  <2> DEFINE x == [r EXCEPT !.pc = "compare", !.skus = {s}]
  <2>1. tx' = [tx EXCEPT ![t] = x] /\ Granted(t) /\ r.pc = "level"
    BY <1>2 DEF EnsureAndLock, Set
  <2> HIDE DEF s
  <2>2. /\ IsTransaction(x) /\ x.pc = "compare" /\ x.rows = r.rows
        /\ x.skus = {s} /\ x.place = FALSE /\ x.result = "none"
    BY <1>1, Mine DEF IsTransaction, Fields
  <2> HIDE DEF x
  <2>3. RowsAreThere(x) /\ RightAnswer(x)
    BY <1>1, <2>2, Mine DEF RowsAreThere, RightAnswer, Locking
  <2>4. \A u \in Clients \ {t} : x.rows \cap tx[u].rows = {} /\ x.skus \cap tx[u].skus = {}
    <3>1. NeedsSkus(t) = {s}
      BY <1>1, <2>1 DEF NeedsSkus, s
    <3>2. \A u \in Clients \ {t} : {s} \cap tx[u].skus = {}
      BY <2>1, <3>1, GrantedAlone
    <3>. QED BY <2>2, <3>2 DEF IInv, LocksAreExclusive
  <2>. QED BY <1>1, <2>1, <2>2, <2>3, <2>4, StatementKeeps
<1>3. CASE CompareLevel(t)
  <2>1. ASSUME NEW l, NEW v \in {"ok", "no"},
               tx' = [tx EXCEPT ![t] = [[r EXCEPT !.level = l] EXCEPT !.pc = "commit", !.result = v]]
        PROVE  IInv'
    <3> DEFINE x == [[r EXCEPT !.level = l] EXCEPT !.pc = "commit", !.result = v]
    <3>1. tx' = [tx EXCEPT ![t] = x]
      BY <2>1
    <3>2. /\ IsTransaction(x) /\ x.pc = "commit" /\ x.rows = r.rows
          /\ x.skus = r.skus /\ x.place = FALSE /\ x.result = v
      BY <1>1, Mine DEF IsTransaction, Fields
    <3> HIDE DEF x
    <3>3. RowsAreThere(x) /\ RightAnswer(x)
      BY <1>1, <2>1, <3>2, Mine DEF RowsAreThere, RightAnswer, Locking
    <3>. QED BY <1>1, <3>1, <3>2, <3>3, QuietStatement
  <2>2. CASE NotBelow(s, r.now)
    <3>1. tx' = [tx EXCEPT ![t] = [[r EXCEPT !.level = {r.now}] EXCEPT !.pc = "commit",
                                                                       !.result = "ok"]]
      BY <1>3, <2>2 DEF CompareLevel, Set, End
    <3>. QED BY <2>1, <3>1
  <2>3. CASE ~NotBelow(s, r.now)
    <3>1. r = [r EXCEPT !.level = r.level]
      BY Mine DEF IsTransaction, Fields
    <3>2. tx' = [tx EXCEPT ![t] = [r EXCEPT !.pc = "commit", !.result = "no"]]
      BY <1>3, <2>3 DEF CompareLevel, Set, End
    <3>3. tx' = [tx EXCEPT ![t] = [[r EXCEPT !.level = r.level] EXCEPT !.pc = "commit",
                                                                       !.result = "no"]]
      BY <3>1, <3>2
    <3>. QED BY <2>1, <3>3
  <2>. QED BY <2>2, <2>3
<1>. QED BY <1>2, <1>3

-----------------------------------------------------------------------------
(* Steps that write the reservations.                                      *)

(* A write that brings no row back to "none" and changes lines only of the *)
(* row its transaction is placing keeps what the others know.              *)
LEMMA WriteKeeps ==
  ASSUME IInv, NEW who \in SUBSET Clients,
         tx' = [t \in Clients |-> IF t \in who THEN Idle ELSE tx[t]], Shape',
         \A c \in Checkouts : res[c].status # "none" => res'[c].status # "none",
         \A c \in Checkouts : \/ res'[c].lines = res[c].lines
                             \/ \E t \in who : c \in tx[t].rows
  PROVE  IInv'
<1>1. \A t \in Clients : tx'[t] = IF t \in who THEN Idle ELSE tx[t]
  OBVIOUS
<1>2. LocksAreExclusive'
  BY <1>1, IdleKeeps DEF IInv, LocksAreExclusive
<1>3. ASSUME NEW t \in Clients PROVE RowsAreThere(tx[t])' /\ RightAnswer(tx[t])'
  <2>1. CASE t \in who
    BY <1>1, <2>1, IdleKeeps DEF RowsAreThere, RightAnswer, Locking
  <2>2. CASE t \notin who
    <3>1. tx'[t] = tx[t]
      BY <1>1, <2>2
    <3>2. RowsAreThere(tx[t])'
      BY <3>1, Mine DEF RowsAreThere, Locking
    <3>3. ASSUME tx[t].id \in tx[t].rows PROVE res'[tx[t].id].lines = res[tx[t].id].lines
      BY <2>2, <3>3, Mine DEF RowsAreThere, IInv, LocksAreExclusive
    <3>4. RightAnswer(tx[t])'
      BY <3>1, <3>3, Mine DEF RightAnswer
    <3>. QED BY <3>2, <3>4
  <2>. QED BY <2>1, <2>2
<1>. QED BY <1>2, <1>3 DEF IInv

LEMMA CommitKeeps ==
  ASSUME IInv, NEW t \in Clients, Commit(t)
  PROVE  IInv'
<1> DEFINE r == tx[t]
           placed == [status |-> "active", expires |-> r.now + TTL, lines |-> r.cart]
<1>1. /\ tx' = [tx EXCEPT ![t] = Idle]
      /\ res' = [c \in Checkouts |->
                   IF c = r.id /\ r.place THEN placed
                   ELSE IF c = r.id /\ r.final \in Final THEN [res[c] EXCEPT !.status = r.final]
                   ELSE IF c \in r.expired THEN [res[c] EXCEPT !.status = "expired"] ELSE res[c]]
  BY DEF Commit, Set
<1>0. IsReservation(placed) /\ placed.status = "active"
  BY DEF IsReservation
<1> HIDE DEF placed
<1>2. r.place => r.id \in r.rows /\ r.pc = "commit"
  BY Mine DEF RowsAreThere
<1>3. ASSUME NEW c \in Checkouts
      PROVE  /\ IsReservation(res'[c])
             /\ res[c].status # "none" => res'[c].status # "none"
             /\ res'[c].lines = res[c].lines \/ c \in r.rows
  <2>1. IsReservation(res[c])
    BY Mine
  <2>2. CASE c = r.id /\ r.place
    <3>1. res'[c] = placed
      BY <1>1, <2>2
    <3>. QED BY <1>0, <1>2, <2>2, <3>1
  <2>3. CASE ~(c = r.id /\ r.place)
    <3>1. \/ res'[c] = res[c]
          \/ \E f \in Final : res'[c] = [res[c] EXCEPT !.status = f]
      BY <1>1, <2>3 DEF Final
    <3>2. ASSUME NEW f \in Final, res'[c] = [res[c] EXCEPT !.status = f]
          PROVE  IsReservation(res'[c]) /\ res'[c].status = f /\ res'[c].lines = res[c].lines
      BY <2>1, <3>2 DEF IsReservation
    <3>. QED BY <2>1, <3>1, <3>2 DEF Final
  <2>. QED BY <2>2, <2>3
<1>4. tx' = [u \in Clients |-> IF u \in {t} THEN Idle ELSE tx[u]]
  BY <1>1 DEF IInv, Shape
<1>5. res' = [c \in Checkouts |-> res'[c]]
  BY <1>1
<1>6. Shape'
  BY <1>3, <1>4, <1>5, IdleKeeps DEF IInv, Shape
<1>. QED BY <1>3, <1>4, <1>6, WriteKeeps

-----------------------------------------------------------------------------
LEMMA Inductive == Spec => []IInv
<1>1. ASSUME Init PROVE IInv
  <2>1. tx = [t \in Clients |-> Idle] /\ res = [c \in Checkouts |-> NoReservation]
    BY <1>1 DEF Init
  <2>2. Shape
    BY <2>1, IdleKeeps DEF Shape, IsReservation, NoReservation
  <2>3. RowsAreThere(Idle) /\ RightAnswer(Idle)
    BY IdleKeeps DEF RowsAreThere, RightAnswer, Locking
  <2>. QED BY <2>1, <2>2, <2>3, IdleKeeps DEF IInv, LocksAreExclusive
<1>2. ASSUME IInv, [Next]_vars PROVE IInv'
  <2>1. ASSUME NEW t \in Clients, Begin(t) \/ Rollback(t) PROVE IInv'
    BY <1>2, <2>1, BeginKeeps
  <2>2. ASSUME NEW t \in Clients, Statement(t) PROVE IInv'
    BY <1>2, <2>2, ExpireKeeps, FindKeeps, LockStockKeeps, CountKeeps, CreateKeeps,
       LockReservationKeeps, DrawKeeps, LevelKeeps, CommitKeeps DEF Statement
  <2>4. CASE UNCHANGED <<res, tx>>
    BY <1>2, <2>4 DEF IInv, Shape, LocksAreExclusive, RowsAreThere, RightAnswer
  <2>. QED BY <1>2, <2>1, <2>2, <2>4 DEF Next, Tick, vars
<1>. QED BY <1>1, <1>2, PTL DEF Spec

(* FOR UPDATE and the unique key of a checkout are locks: no reservation    *)
(* row and no stock row is ever in the hands of two transactions.           *)
THEOREM RowsHaveOneHolder == Spec => []LocksAreExclusive
<1>1. IInv => LocksAreExclusive
  BY DEF IInv
<1>. QED BY <1>1, Inductive, PTL

(* A checkout that asks again while its hold is active is answered with     *)
(* that hold when its cart is the one held, and with a conflict when it is  *)
(* another; and for the cart held with a conflict only when the code and    *)
(* the database sort its SKUs differently.                                  *)
THEOREM RetriesFindTheirHold == Spec => []RetryFindsItsHold
<1>1. ASSUME NEW l, SortedAlike(l) PROVE SameLines(l, l)
  <2>1. ASSUME NEW S \in SUBSET Lines(l) PROVE FirstInDb(S) = FirstInCode(S)
    <3>1. \A s \in S : (\A r \in S : DbOrder[s] <= DbOrder[r])
                         <=> (\A r \in S : CodeOrder[s] <= CodeOrder[r])
      BY <1>1 DEF SortedAlike
    <3>. QED BY <3>1 DEF FirstInDb, FirstInCode
  <2>. QED BY <2>1 DEF SameLines
<1>2. ASSUME IInv, NEW t \in Clients
      PROVE  /\ tx[t].result = "again" => tx[t].cart = res[tx[t].id].lines
             /\ tx[t].result = "checkout_conflict" =>
                  tx[t].cart # res[tx[t].id].lines \/ ~SortedAlike(tx[t].cart)
  <2>1. RightAnswer(tx[t])
    BY <1>2 DEF IInv
  <2>2. SameLines(res[tx[t].id].lines, tx[t].cart) => tx[t].cart = res[tx[t].id].lines
    BY DEF SameLines
  <2>. QED BY <1>1, <2>1, <2>2 DEF RightAnswer
<1>3. IInv => RetryFindsItsHold
  BY <1>2 DEF RetryFindsItsHold
<1>. QED BY <1>3, Inductive, PTL
-----------------------------------------------------------------------------
(* Stock.  A transaction draws a hold from the moment it has found it live *)
(* until it commits, even when the hold lapses meanwhile: what is owed of  *)
(* a SKU are the units of live and of drawn holds.                         *)

Draws(x) == x.op = "commit" /\ (x.pc = "draw" \/ x.final = "committed")
Drawn(c) == \E u \in Clients : Draws(tx[u]) /\ tx[u].id = c
Holds == {c \in Checkouts : res[c].status = "active" /\ (res[c].expires > clock \/ Drawn(c))}
Owed(s) == Cardinality(Units(Holds, s))

Typed(x) ==
  /\ x.cart \in [Skus -> Nat] /\ x.now \in Nat
  /\ x.todo \in SUBSET Skus /\ x.skus \in SUBSET Skus
  /\ x.level = {} \/ \E n \in x.level : n \in Nat /\ x.level = {n}
  /\ x.expired \subseteq x.rows

(* What a transaction is at, by its operation. *)
Phase(x) ==
  /\ x.pc = "expire" => x.op \in {"reserve", "look"}
  /\ x.pc \in {"find", "lock", "count"} => x.op = "reserve"
  /\ x.pc = "lockrow" => x.op \in {"commit", "release"}
  /\ x.pc = "draw" => x.op = "commit"
  /\ x.pc \in {"level", "compare"} => x.op = "set"
  /\ x.op \in {"reserve", "look"} => x.now <= clock
  /\ x.op = "set" => x.now \in Levels
  /\ x.expired # {} => x.op \in {"reserve", "look"}
  /\ x.place => x.op = "reserve"
  /\ x.final # "none" => /\ x.pc = "commit" /\ x.op \in {"commit", "release"}
                         /\ x.id \in x.rows /\ x.final \in Final
                         /\ x.final = "released" <=> x.op = "release"
  /\ x.level # {} => x.pc = "commit" /\ x.op = "set"

(* What it has locked, and still has to lock, is what its cart asks for. *)
Wants(x) ==
  /\ x.pc \in {"expire", "find"} => x.skus = {}
  /\ x.pc \in {"lock", "count"} => Lines(x.cart) \subseteq x.skus \cup x.todo
  /\ x.pc = "count" => x.todo # {} /\ FirstInCode(x.todo) \in x.skus
  /\ x.pc \in {"level", "compare"} => x.todo # {}
  /\ x.pc = "compare" => x.skus = {FirstInDb(x.todo)}
  /\ x.place => Lines(x.cart) \subseteq x.skus /\ res[x.id].status = "none"

(* The hold it draws is there, unchanged; one it gave up on stays ended. *)
Finishing(x) ==
  /\ Draws(x) => /\ x.id \in x.rows /\ res[x.id].status = "active"
                 /\ x.cart = res[x.id].lines
  /\ x.op = "commit" /\ x.pc = "commit" /\ x.final = "none" =>
       x.id \in x.rows /\ res[x.id].status \in Final

Local(x) == Typed(x) /\ Phase(x) /\ Wants(x) /\ Finishing(x)

(* What a reserve counts out and is drawn its sweep has yet to come to. *)
CountsOut(x) ==
  x.op = "reserve" =>
    \A c \in Checkouts : res[c].status = "active" /\ res[c].expires <= x.now /\ Drawn(c)
                           => x.pc = "expire" /\ c \in x.at \cup x.due

Sound ==
  /\ clock \in 0 .. MaxClock
  /\ \A c \in Checkouts : /\ res[c].lines \in [Skus -> Nat] /\ res[c].expires \in Nat
                          /\ res[c].status \in {"none", "active"} \cup Final
                          /\ res[c].status = "active" => TTL <= res[c].expires
  /\ \A t \in Clients : Local(tx[t]) /\ CountsOut(tx[t])

(* The SKUs a reserve has locked and found enough of. *)
Counted(x) ==
  IF x.pc = "count" THEN x.skus \ {FirstInCode(x.todo)}
  ELSE IF x.pc = "lock" \/ x.place THEN x.skus ELSE {}

Covered ==
  /\ stock \in [Skus -> Nat]
  /\ \A s \in Skus : Owed(s) <= stock[s]
  /\ \A t \in Clients : \A s \in Counted(tx[t]) : Owed(s) + tx[t].cart[s] <= stock[s]
  /\ \A t \in Clients : \A n \in tx[t].level : \A s \in tx[t].skus : Owed(s) <= n

(* No level is set while holds lapse: the administrator sets none, or no   *)
(* hold lives long enough to lapse.                                         *)
NoLevelMeetsLapse == Levels = {} \/ MaxClock < TTL

StockInv == Sound /\ (NoLevelMeetsLapse => Covered)

-----------------------------------------------------------------------------
(* A pile has q[c] things for every c of a finite set.                     *)

Pile(q, C) == UNION {{c} \X (1 .. q[c]) : c \in C}

LEMMA PileFinite ==
  ASSUME NEW D, IsFiniteSet(D), NEW q \in [D -> Nat], NEW C \in SUBSET D
  PROVE  IsFiniteSet(Pile(q, C)) /\ Cardinality(Pile(q, C)) \in Nat
<1> DEFINE S == {{c} \X (1 .. q[c]) : c \in C}
           f == [c \in C |-> {c} \X (1 .. q[c])]
<1>1. IsFiniteSet(C)
  BY FS_Subset
<1>2. f \in Surjection(C, S)
  BY DEF Surjection
<1>3. IsFiniteSet(S)
  <2> HIDE DEF f, S
  <2>. QED BY <1>1, <1>2, FS_Surjection
<1>4. ASSUME NEW T \in S PROVE IsFiniteSet(T)
  <2>1. PICK c \in C : T = {c} \X (1 .. q[c])
    BY <1>4
  <2>2. IsFiniteSet({c}) /\ IsFiniteSet(1 .. q[c])
    <3>1. IsFiniteSet({c})
      BY FS_Singleton
    <3>2. q[c] \in Int
      OBVIOUS
    <3>3. IsFiniteSet(1 .. q[c])
      BY <3>2, FS_Interval
    <3>. QED BY <3>1, <3>3
  <2>. QED BY <2>1, <2>2, FS_Product
<1>5. IsFiniteSet(UNION S)
  <2> HIDE DEF S
  <2>. QED BY <1>3, <1>4, FS_UNION
<1>. QED BY <1>5, FS_CardinalityType DEF Pile

LEMMA PileMonotone ==
  ASSUME NEW D, IsFiniteSet(D), NEW q \in [D -> Nat], NEW E \in SUBSET D, NEW C \in SUBSET E
  PROVE  Cardinality(Pile(q, C)) <= Cardinality(Pile(q, E))
<1>1. IsFiniteSet(Pile(q, E))
  BY PileFinite
<1>2. Pile(q, C) \subseteq Pile(q, E)
  BY DEF Pile
<1>. QED BY <1>1, <1>2, FS_Subset

LEMMA PileAdd ==
  ASSUME NEW D, IsFiniteSet(D), NEW q \in [D -> Nat], NEW C \in SUBSET D, NEW c \in D \ C
  PROVE  Cardinality(Pile(q, C \cup {c})) = Cardinality(Pile(q, C)) + q[c]
<1> DEFINE P == {c} \X (1 .. q[c])
<1>1. IsFiniteSet(P) /\ Cardinality(P) = q[c]
  <2>1. IsFiniteSet({c}) /\ Cardinality({c}) = 1
    BY FS_Singleton
  <2>2. IsFiniteSet(1 .. q[c]) /\ Cardinality(1 .. q[c]) = q[c]
    BY FS_Interval
  <2>3. IsFiniteSet(P) /\ Cardinality(P) = 1 * q[c]
    BY <2>1, <2>2, FS_Product
  <2>. QED BY <2>3
<1>2. IsFiniteSet(Pile(q, C)) /\ Cardinality(Pile(q, C)) \in Nat
  BY PileFinite
<1>3. Pile(q, C \cup {c}) = Pile(q, C) \cup P
  BY DEF Pile
<1>4. Pile(q, C) \cap P = {}
  BY DEF Pile
<1>5. Cardinality(Pile(q, C \cup {c})) = Cardinality(Pile(q, C)) + Cardinality(P) - Cardinality({})
  <2> HIDE DEF P
  <2>. QED BY <1>1, <1>2, <1>3, <1>4, FS_Union
<1>6. \A n, m, k \in Nat : k = 0 => n + m - k = n + m
  OBVIOUS
<1>. QED BY <1>1, <1>2, <1>5, <1>6, FS_EmptySet

(* What is owed of s is a pile of the lines of s. *)
LinesOf(s) == [c \in Checkouts |-> res[c].lines[s]]

LEMMA OwedIsPile ==
  ASSUME NEW s
  PROVE  /\ Owed(s) = Cardinality(Pile(LinesOf(s), Holds))
         /\ Owed(s)' = Cardinality(Pile(LinesOf(s)', Holds'))
         /\ Holds \in SUBSET Checkouts /\ Holds' \in SUBSET Checkouts
<1>1. Holds \in SUBSET Checkouts /\ Holds' \in SUBSET Checkouts
  BY DEF Holds
<1>2. Units(Holds, s) = Pile(LinesOf(s), Holds) /\ Units(Holds, s)' = Pile(LinesOf(s)', Holds')
  BY <1>1 DEF Units, Pile, LinesOf
<1>. QED BY <1>1, <1>2 DEF Owed

LEMMA OwedType ==
  ASSUME Sound, NEW s \in Skus
  PROVE  LinesOf(s) \in [Checkouts -> Nat] /\ IsFiniteSet(Checkouts) /\ Owed(s) \in Nat
<1>1. LinesOf(s) \in [Checkouts -> Nat] /\ IsFiniteSet(Checkouts)
  BY InventoryAssumed DEF InventoryAssumption, Sound, LinesOf
<1>. QED BY <1>1, OwedIsPile, PileFinite

(* Fewer holds with the same lines owe no more. *)
LEMMA OwedShrinks ==
  ASSUME Sound, NEW s \in Skus, Holds' \subseteq Holds,
         \A c \in Holds' : res'[c].lines = res[c].lines
  PROVE  Owed(s)' \in Nat /\ Owed(s)' <= Owed(s)
<1>1. Pile(LinesOf(s)', Holds') = Pile(LinesOf(s), Holds')
  <2>1. \A c \in Holds' : LinesOf(s)'[c] = LinesOf(s)[c]
    BY OwedIsPile DEF LinesOf
  <2>. QED BY <2>1 DEF Pile
<1>2. LinesOf(s) \in [Checkouts -> Nat] /\ IsFiniteSet(Checkouts)
  BY OwedType
<1>3. Holds \in SUBSET Checkouts /\ Holds' \in SUBSET Holds
  BY OwedIsPile
<1>. QED BY <1>1, <1>2, <1>3, OwedIsPile, PileFinite, PileMonotone

-----------------------------------------------------------------------------
(* The loops.                                                              *)

(* Of a set of ranked SKUs one is first. *)
LEMMA LeastRank ==
  ASSUME NEW S \in SUBSET Skus, S # {}, NEW rank \in [Skus -> Nat]
  PROVE  (CHOOSE s \in S : \A r \in S : rank[s] <= rank[r]) \in S
<1> DEFINE Ranks == {rank[s] : s \in S}
           Less == {ss \in Nat \X Nat : ss[1] < ss[2]}
<1>1. IsWellFoundedOn(Less, Nat)
  BY NatLessThanWellFounded DEF OpToRel
<1>2. Ranks \in SUBSET Nat /\ Ranks # {}
  OBVIOUS
<1> HIDE DEF Less
<1>3. PICK m \in Ranks : \A n \in Ranks : ~ (<<n, m>> \in Less)
  <2> HIDE DEF Ranks
  <2>. QED BY <1>1, <1>2, WFMin
<1>4. ASSUME NEW n \in Ranks PROVE m <= n
  <2>1. m \in Nat /\ n \in Nat
    BY <1>2
  <2>2. ~ (n < m)
    BY <1>3, <2>1 DEF Less
  <2>. QED BY <2>1, <2>2
<1>5. PICK s \in S : m = rank[s]
  BY <1>3
<1>6. \A r \in S : rank[s] <= rank[r]
  BY <1>4, <1>5
<1>. QED BY <1>6

LEMMA FirstIsIn ==
  ASSUME NEW S \in SUBSET Skus, S # {}
  PROVE  FirstInCode(S) \in S /\ FirstInDb(S) \in S
BY LeastRank, InventoryAssumed DEF InventoryAssumption, FirstInCode, FirstInDb

-----------------------------------------------------------------------------
(* A statement of t that changes the transaction alone: no hold is owed    *)
(* that was not, when what it starts to draw is live.                      *)
LEMMA StatementStock ==
  ASSUME IInv, StockInv, NEW t \in Clients, NEW x, tx' = [tx EXCEPT ![t] = x],
         clock' = clock, stock' = stock, res' = res,
         Local(x), CountsOut(x),
         Draws(x) => res[x.id].expires > clock \/ (Draws(tx[t]) /\ x.id = tx[t].id),
         NoLevelMeetsLapse =>
           /\ \A s \in Counted(x) : Owed(s) + x.cart[s] <= stock[s]
           /\ \A n \in x.level : \A s \in x.skus : Owed(s) <= n
  PROVE  StockInv'
<1> USE DEF StockInv
<1>1. tx'[t] = x /\ \A u \in Clients \ {t} : tx'[u] = tx[u]
  BY DEF IInv, Shape
<1>2. \A c \in Checkouts : Drawn(c)' => Drawn(c) \/ (Draws(x) /\ x.id = c)
  BY <1>1 DEF Drawn, Draws
<1>3. Holds' \subseteq Holds
  <2> SUFFICES ASSUME NEW c \in Holds' PROVE c \in Holds
    OBVIOUS
  <2>1. c \in Checkouts /\ res[c].status = "active" /\ (res[c].expires > clock \/ Drawn(c)')
    BY DEF Holds
  <2>2. CASE Draws(x) /\ x.id = c
    BY <2>1, <2>2 DEF Holds, Drawn
  <2>. QED BY <1>2, <2>1, <2>2 DEF Holds
<1>4. ASSUME NEW u \in Clients PROVE Local(tx[u])' /\ CountsOut(tx[u])'
  <2>1. Local(tx'[u]) /\ CountsOut(tx'[u])
    BY <1>1 DEF Sound
  <2>2. Local(tx[u])'
    BY <2>1 DEF Local, Typed, Phase, Wants, Finishing, Draws
  <2>3. ASSUME tx'[u].op = "reserve", NEW c \in Checkouts,
               res[c].status = "active", res[c].expires <= tx'[u].now, Drawn(c)',
               ~(tx'[u].pc = "expire" /\ c \in tx'[u].at \cup tx'[u].due)
        PROVE  FALSE
    <3>1. ~Drawn(c)
      BY <2>1, <2>3 DEF CountsOut
    <3>2. Draws(x) /\ x.id = c
      BY <1>2, <2>3, <3>1
    <3>3. res[c].expires > clock
      BY <3>1, <3>2 DEF Drawn
    <3>4. tx'[u].now <= clock /\ tx'[u].now \in Nat
      BY <2>1, <2>3 DEF Local, Typed, Phase
    <3>5. res[c].expires \in Nat /\ clock \in Nat
      BY DEF Sound
    <3>. QED BY <2>3, <3>3, <3>4, <3>5
  <2>. QED BY <2>2, <2>3 DEF CountsOut
<1>5. Sound'
  BY <1>4 DEF Sound
<1>6. ASSUME NoLevelMeetsLapse PROVE Covered'
  <2>1. \A s \in Skus : Owed(s)' \in Nat /\ Owed(s) \in Nat /\ Owed(s)' <= Owed(s)
    BY <1>3, OwedShrinks, OwedType
  <2>2. stock' \in [Skus -> Nat] /\ \A s \in Skus : Owed(s)' <= stock'[s]
    BY <1>6, <2>1 DEF Covered
  <2>3. ASSUME NEW u \in Clients
        PROVE  /\ tx'[u].skus \in SUBSET Skus /\ tx'[u].cart \in [Skus -> Nat]
               /\ tx'[u].level = {} \/ \E n \in Nat : tx'[u].level = {n}
               /\ \A s \in Counted(tx'[u]) : Owed(s) + tx'[u].cart[s] <= stock[s]
               /\ \A n \in tx'[u].level : \A s \in tx'[u].skus : Owed(s) <= n
    <3>1. Local(tx'[u])
      BY <1>1 DEF Sound
    <3>. QED BY <1>1, <1>6, <3>1 DEF Covered, Local, Typed
  <2>4. ASSUME NEW u \in Clients, NEW s \in Counted(tx'[u])
        PROVE  Owed(s)' + tx'[u].cart[s] <= stock'[s]
    <3>1. s \in Skus
      BY <2>3, <2>4 DEF Counted
    <3>2. Owed(s) + tx'[u].cart[s] <= stock[s] /\ stock[s] \in Nat /\ tx'[u].cart[s] \in Nat
      BY <1>6, <2>3, <2>4, <3>1 DEF Covered
    <3>. QED BY <2>1, <3>1, <3>2
  <2>5. ASSUME NEW u \in Clients, NEW n \in tx'[u].level, NEW s \in tx'[u].skus
        PROVE  Owed(s)' <= n
    <3>1. n \in Nat /\ s \in Skus /\ Owed(s) <= n
      BY <2>3, <2>5
    <3>. QED BY <2>1, <3>1
  <2>6. \A u \in Clients : Counted(tx[u])' = Counted(tx'[u])
    BY DEF Counted
  <2>. QED BY <2>2, <2>4, <2>5, <2>6 DEF Covered
<1>. QED BY <1>5, <1>6 DEF NoLevelMeetsLapse

(* The same for a statement that finds no SKU enough and sets no level. *)
LEMMA PlainStatement ==
  ASSUME IInv, StockInv, NEW t \in Clients, NEW x, tx' = [tx EXCEPT ![t] = x],
         clock' = clock, stock' = stock, res' = res,
         Local(x), CountsOut(x),
         Draws(x) => res[x.id].expires > clock \/ (Draws(tx[t]) /\ x.id = tx[t].id),
         x.level = {}, Counted(x) = {} \/ (Counted(x) \subseteq Counted(tx[t]) /\ x.cart = tx[t].cart)
  PROVE  StockInv'
<1>1. NoLevelMeetsLapse =>
        /\ \A s \in Counted(x) : Owed(s) + x.cart[s] <= stock[s]
        /\ \A n \in x.level : \A s \in x.skus : Owed(s) <= n
  BY DEF StockInv, Covered
<1>. QED BY <1>1, StatementStock

LEMMA OwnStock ==
  ASSUME IInv, StockInv, NEW t \in Clients
  PROVE  /\ IsTransaction(tx[t]) /\ RowsAreThere(tx[t])
         /\ Typed(tx[t]) /\ Phase(tx[t]) /\ Wants(tx[t]) /\ Finishing(tx[t]) /\ CountsOut(tx[t])
BY Mine DEF StockInv, Sound, Local

(* A transaction that has not come to COMMIT has nothing to write. *)
LEMMA NothingYet ==
  ASSUME IInv, StockInv, NEW t \in Clients, tx[t].pc # "commit"
  PROVE  tx[t].place = FALSE /\ tx[t].final = "none" /\ tx[t].level = {}
BY OwnStock DEF RowsAreThere, Phase

LEMMA IdleStock ==
  /\ Idle.op = "none" /\ Idle.pc = "idle" /\ Idle.cart \in [Skus -> Nat] /\ Idle.now = 0
  /\ Idle.todo = {} /\ Idle.skus = {} /\ Idle.level = {} /\ Idle.expired = {} /\ Idle.rows = {}
  /\ Idle.place = FALSE /\ Idle.final = "none"
  /\ ~Draws(Idle) /\ Local(Idle) /\ CountsOut(Idle) /\ Counted(Idle) = {}
<1>1. /\ Idle.op = "none" /\ Idle.pc = "idle" /\ Idle.cart \in [Skus -> Nat] /\ Idle.now = 0
      /\ Idle.todo = {} /\ Idle.skus = {} /\ Idle.level = {} /\ Idle.expired = {} /\ Idle.rows = {}
      /\ Idle.place = FALSE /\ Idle.final = "none"
  BY DEF Idle, NoCart
<1>. QED
  BY <1>1 DEF Draws, Local, Typed, Phase, Wants, Finishing, CountsOut, Counted

(* The sweep comes to another row, or is over. *)
LEMMA OnwardStock ==
  ASSUME IInv, StockInv, NEW t \in Clients, NEW r, NEW D, Onward(t, r, D),
         clock' = clock, stock' = stock, res' = res,
         IsTransaction(r), Typed(r), r.op \in {"reserve", "look"}, r.now <= clock,
         r.skus = {}, r.place = FALSE, r.final = "none", r.level = {},
         r.op = "reserve" =>
           \A c \in Checkouts : res[c].status = "active" /\ res[c].expires <= r.now /\ Drawn(c)
                                  => c \in D
  PROVE  StockInv'
<1>1. ASSUME NEW x, tx' = [tx EXCEPT ![t] = x], x.op = r.op, x.cart = r.cart, x.now = r.now,
             x.todo = r.todo, x.rows = r.rows, x.skus = r.skus, x.expired = r.expired,
             x.place = r.place, x.final = r.final, x.level = r.level,
             \/ x.pc = "expire" /\ D \subseteq x.at \cup x.due
             \/ x.pc = "find" /\ r.op = "reserve" /\ D = {}
             \/ x.pc = "commit" /\ r.op = "look"
      PROVE  StockInv'
  <2>1. Typed(x)
    BY <1>1 DEF Typed
  <2>2. Phase(x)
    BY <1>1 DEF Phase
  <2>3. Wants(x) /\ Finishing(x) /\ ~Draws(x) /\ Counted(x) = {}
    BY <1>1 DEF Wants, Finishing, Draws, Counted
  <2>4. CountsOut(x)
    BY <1>1 DEF CountsOut
  <2>. QED BY <1>1, <2>1, <2>2, <2>3, <2>4, PlainStatement DEF Local
<1>2. CASE \E c \in D : tx' = [tx EXCEPT ![t] = [r EXCEPT !.pc = "expire", !.at = {c},
                                                         !.due = D \ {c}]]
  <2>1. PICK c \in D : tx' = [tx EXCEPT ![t] = [r EXCEPT !.pc = "expire", !.at = {c},
                                                        !.due = D \ {c}]]
    BY <1>2
  <2> DEFINE x == [r EXCEPT !.pc = "expire", !.at = {c}, !.due = D \ {c}]
  <2>2. /\ x.pc = "expire" /\ x.at = {c} /\ x.due = D \ {c} /\ x.op = r.op /\ x.cart = r.cart
        /\ x.now = r.now /\ x.todo = r.todo /\ x.rows = r.rows /\ x.skus = r.skus
        /\ x.expired = r.expired /\ x.place = r.place /\ x.final = r.final /\ x.level = r.level
    BY DEF IsTransaction, Fields
  <2>3. tx' = [tx EXCEPT ![t] = x]
    BY <2>1
  <2> HIDE DEF x
  <2>. QED BY <1>1, <2>2, <2>3
<1> DEFINE over == [r EXCEPT !.at = {}, !.due = {}]
<1>3. CASE D = {} /\ r.op = "look" /\ tx' = [tx EXCEPT ![t] = End(over, "ok")]
  <2> DEFINE x == [over EXCEPT !.pc = "commit", !.result = "ok"]
  <2>1. tx' = [tx EXCEPT ![t] = x]
    BY <1>3 DEF End
  <2>2. /\ x.pc = "commit" /\ x.op = r.op /\ x.cart = r.cart
        /\ x.now = r.now /\ x.todo = r.todo /\ x.rows = r.rows /\ x.skus = r.skus
        /\ x.expired = r.expired /\ x.place = r.place /\ x.final = r.final /\ x.level = r.level
    BY DEF IsTransaction, Fields
  <2> HIDE DEF x
  <2>. QED BY <1>1, <1>3, <2>1, <2>2
<1>4. CASE D = {} /\ r.op # "look" /\ tx' = [tx EXCEPT ![t] = [over EXCEPT !.pc = "find"]]
  <2> DEFINE x == [over EXCEPT !.pc = "find"]
  <2>1. tx' = [tx EXCEPT ![t] = x]
    BY <1>4
  <2>2. /\ x.pc = "find" /\ x.op = r.op /\ x.cart = r.cart
        /\ x.now = r.now /\ x.todo = r.todo /\ x.rows = r.rows /\ x.skus = r.skus
        /\ x.expired = r.expired /\ x.place = r.place /\ x.final = r.final /\ x.level = r.level
    BY DEF IsTransaction, Fields
  <2> HIDE DEF x
  <2>. QED BY <1>1, <1>4, <2>1, <2>2
<1>. QED BY <1>2, <1>3, <1>4 DEF Onward, Set

LEMMA BeginStock ==
  ASSUME IInv, StockInv, NEW t \in Clients, Begin(t) \/ Rollback(t)
  PROVE  StockInv'
<1>0. clock' = clock /\ stock' = stock /\ res' = res
  BY DEF Begin, BeginReserve, BeginFinish, BeginSetStock, BeginLook, Rollback, Quiet
<1>01. \A c \in Checkouts : res[c].status = "active" /\ res[c].expires <= clock
                             => c \in Lapsed(clock)
  <2>1. \A c \in Checkouts : res[c].expires \in Nat
    BY DEF StockInv, Sound
  <2>2. clock \in Nat
    BY DEF StockInv, Sound
  <2>. QED BY <2>1, <2>2 DEF Lapsed, Live
<1>1. CASE BeginReserve(t)
  <2>1. PICK c \in Checkouts, cart \in Carts :
          Onward(t, [Idle EXCEPT !.op = "reserve", !.id = c, !.cart = cart, !.now = clock],
                 Lapsed(clock))
    BY <1>1 DEF BeginReserve
  <2> DEFINE x == [Idle EXCEPT !.op = "reserve", !.id = c, !.cart = cart, !.now = clock]
  <2>2. /\ IsTransaction(x) /\ x.op = "reserve" /\ x.cart = cart /\ x.now = clock
        /\ x.todo = {} /\ x.skus = {} /\ x.level = {} /\ x.expired = {} /\ x.rows = {}
        /\ x.place = FALSE /\ x.final = "none"
    BY DEF Idle, IsTransaction, Fields
  <2>3. Onward(t, x, Lapsed(clock))
    BY <2>1
  <2> HIDE DEF x
  <2>4. cart \in [Skus -> Nat] /\ clock \in Nat
    BY InventoryAssumed DEF InventoryAssumption, StockInv, Sound
  <2>5. Typed(x) /\ x.now <= clock
    BY <2>2, <2>4 DEF Typed
  <2>. QED BY <1>0, <1>01, <2>2, <2>3, <2>5, OnwardStock
<1>2. CASE BeginFinish(t)
  <2>1. PICK c \in Checkouts, op \in {"commit", "release"} :
          tx' = [tx EXCEPT ![t] = [Idle EXCEPT !.pc = "lockrow", !.op = op, !.id = c]]
    BY <1>2 DEF BeginFinish, Set
  <2> DEFINE x == [Idle EXCEPT !.pc = "lockrow", !.op = op, !.id = c]
  <2>2. /\ x.op = op /\ x.pc = "lockrow" /\ x.cart = Idle.cart /\ x.now = 0
        /\ x.todo = {} /\ x.skus = {} /\ x.level = {} /\ x.expired = {} /\ x.rows = {}
        /\ x.place = FALSE /\ x.final = "none"
    BY DEF Idle
  <2>3. tx' = [tx EXCEPT ![t] = x]
    BY <2>1
  <2> HIDE DEF x
  <2>4. Local(x) /\ CountsOut(x) /\ ~Draws(x) /\ Counted(x) = {}
    BY <2>2, IdleStock
       DEF Draws, Local, Typed, Phase, Wants, Finishing, CountsOut, Counted
  <2>. QED BY <1>0, <2>2, <2>3, <2>4, PlainStatement
<1>3. CASE BeginSetStock(t)
  <2>1. PICK s \in Skus, n \in Levels :
          tx' = [tx EXCEPT ![t] = [Idle EXCEPT !.pc = "level", !.op = "set", !.todo = {s},
                                               !.now = n]]
    BY <1>3 DEF BeginSetStock, Set
  <2> DEFINE x == [Idle EXCEPT !.pc = "level", !.op = "set", !.todo = {s}, !.now = n]
  <2>2. /\ x.op = "set" /\ x.pc = "level" /\ x.cart = Idle.cart /\ x.now = n
        /\ x.todo = {s} /\ x.skus = {} /\ x.level = {} /\ x.expired = {} /\ x.rows = {}
        /\ x.place = FALSE /\ x.final = "none"
    BY DEF Idle
  <2>3. tx' = [tx EXCEPT ![t] = x]
    BY <2>1
  <2> HIDE DEF x
  <2>4. n \in Nat
    BY InventoryAssumed DEF InventoryAssumption
  <2>5. Local(x) /\ CountsOut(x) /\ ~Draws(x) /\ Counted(x) = {}
    BY <2>2, <2>4, IdleStock
       DEF Draws, Local, Typed, Phase, Wants, Finishing, CountsOut, Counted
  <2>. QED BY <1>0, <2>2, <2>3, <2>5, PlainStatement
<1>4. CASE Rollback(t)
  <2>1. tx' = [tx EXCEPT ![t] = Idle]
    BY <1>4 DEF Rollback, Set
  <2>. QED BY <1>0, <2>1, IdleStock, PlainStatement
<1>5. CASE BeginLook(t)
  <2> DEFINE x == [Idle EXCEPT !.op = "look", !.now = clock]
  <2>1. /\ IsTransaction(x) /\ x.op = "look" /\ x.cart = Idle.cart /\ x.now = clock
        /\ x.todo = {} /\ x.skus = {} /\ x.level = {} /\ x.expired = {} /\ x.rows = {}
        /\ x.place = FALSE /\ x.final = "none"
    BY DEF Idle, IsTransaction, Fields
  <2>2. Onward(t, x, Lapsed(clock))
    BY <1>5 DEF BeginLook
  <2> HIDE DEF x
  <2>3. clock \in Nat
    BY DEF StockInv, Sound
  <2>4. Typed(x) /\ x.now <= clock
    BY <2>1, <2>3, IdleStock DEF Typed
  <2>. QED BY <1>0, <2>1, <2>2, <2>4, OnwardStock
<1>. QED BY <1>1, <1>2, <1>3, <1>4, <1>5 DEF Begin

(* The statements of reserve.  Whoever draws a row holds it, so once the   *)
(* sweep has come to it and has its lock, it is not drawn.                 *)
LEMMA ExpireStock ==
  ASSUME IInv, StockInv, NEW t \in Clients, ExpireRow(t)
  PROVE  StockInv'
<1> DEFINE r == tx[t]
           still == {c \in r.at : res[c].status = "active"}
           x == [r EXCEPT !.rows = r.rows \cup r.at, !.expired = r.expired \cup still]
<1>1. /\ r.pc = "expire" /\ Granted(t) /\ Onward(t, x, r.due)
      /\ clock' = clock /\ stock' = stock /\ res' = res
  BY DEF ExpireRow, Quiet
<1>2. r.op \in {"reserve", "look"} /\ r.now <= clock /\ r.skus = {} /\ Typed(r)
      /\ r.place = FALSE /\ r.final = "none" /\ r.level = {}
  BY <1>1, OwnStock, NothingYet DEF Phase, Wants
<1>3. ASSUME r.op = "reserve", NEW c \in Checkouts, res[c].status = "active",
             res[c].expires <= r.now, Drawn(c)
      PROVE  c \in r.due
  <2>1. c \in r.at \cup r.due
    BY <1>3, OwnStock DEF CountsOut
  <2>2. PICK u \in Clients : Draws(tx[u]) /\ tx[u].id = c
    BY <1>3 DEF Drawn
  <2>3. u # t /\ c \in tx[u].rows
    BY <1>3, <2>2, OwnStock DEF Draws, Finishing
  <2>4. c \notin r.at
    BY <1>1, <2>3, GrantedAlone DEF NeedsRows
  <2>. QED BY <2>1, <2>4
<1>4. still \subseteq r.at
  OBVIOUS
<1> HIDE DEF still
<1>5. /\ IsTransaction(x) /\ x.op = r.op /\ x.cart = r.cart /\ x.now = r.now /\ x.todo = r.todo
      /\ x.rows = r.rows \cup r.at /\ x.skus = r.skus /\ x.expired = r.expired \cup still
      /\ x.place = r.place /\ x.final = r.final /\ x.level = r.level
  BY OwnStock DEF IsTransaction, Fields
<1> HIDE DEF x
<1>6. Typed(x)
  BY <1>2, <1>4, <1>5 DEF Typed
<1>. QED BY <1>1, <1>2, <1>3, <1>5, <1>6, OnwardStock

LEMMA FindStock ==
  ASSUME IInv, StockInv, NEW t \in Clients, FindByCheckout(t)
  PROVE  StockInv'
<1> DEFINE r == tx[t]
           row == res[r.id]
           active == row.status = "active" /\ r.id \notin r.expired
<1>1. /\ r.pc = "find" /\ clock' = clock /\ stock' = stock /\ res' = res
      /\ r.op = "reserve" /\ r.skus = {}
  BY OwnStock DEF FindByCheckout, Quiet, Phase, Wants
<1>4. /\ Typed(r) /\ r.now <= clock /\ CountsOut(r)
      /\ r.place = FALSE /\ r.final = "none" /\ r.level = {}
  BY <1>1, OwnStock, NothingYet DEF Phase
<1>2. CASE row.status = "none"
  <2> DEFINE x == [r EXCEPT !.pc = "lock", !.todo = Lines(r.cart)]
  <2>1. tx' = [tx EXCEPT ![t] = x]
    BY <1>2 DEF FindByCheckout, Set
  <2>2. /\ x.pc = "lock" /\ x.op = r.op /\ x.cart = r.cart /\ x.now = r.now
        /\ x.todo = Lines(r.cart) /\ x.rows = r.rows /\ x.skus = r.skus
        /\ x.expired = r.expired /\ x.place = r.place /\ x.final = r.final /\ x.level = r.level
    BY OwnStock DEF IsTransaction, Fields
  <2> HIDE DEF x
  <2>3. Lines(r.cart) \in SUBSET Skus
    BY DEF Lines
  <2>4. Local(x) /\ CountsOut(x) /\ ~Draws(x) /\ Counted(x) = {} /\ x.level = {}
    BY <1>1, <1>4, <2>2, <2>3
       DEF Draws, Local, Typed, Phase, Wants, Finishing, CountsOut, Counted
  <2>. QED BY <1>1, <2>1, <2>4, PlainStatement
<1>3. CASE row.status # "none"
  <2> DEFINE held == [r EXCEPT !.rows = r.rows \cup {r.id}]
  <2>1. \E e, v : /\ tx' = [tx EXCEPT ![t] = [[held EXCEPT !.expired = e]
                                                EXCEPT !.pc = "commit", !.result = v]]
                  /\ e \subseteq r.expired \cup {r.id}
    <3>1. CASE ~active \/ row.expires <= clock
      <4> DEFINE e == IF active THEN held.expired \cup {r.id} ELSE held.expired
                 v == "checkout_expired"
      <4>1. tx' = [tx EXCEPT ![t] = [[held EXCEPT !.expired = e]
                                       EXCEPT !.pc = "commit", !.result = v]]
        BY <1>3, <3>1 DEF FindByCheckout, Set, End
      <4>2. e \subseteq r.expired \cup {r.id}
        BY OwnStock DEF IsTransaction, Fields
      <4> HIDE DEF e, v, held
      <4>. QED BY <4>1, <4>2
    <3>2. CASE ~(~active \/ row.expires <= clock)
      <4> DEFINE e == held.expired
                 v == IF SameLines(row.lines, r.cart) THEN "again" ELSE "checkout_conflict"
      <4>1. tx' = [tx EXCEPT ![t] = [held EXCEPT !.pc = "commit", !.result = v]]
        BY <1>3, <3>2 DEF FindByCheckout, Set, End
      <4>2. held = [held EXCEPT !.expired = e] /\ e \subseteq r.expired \cup {r.id}
        BY OwnStock DEF IsTransaction, Fields
      <4> HIDE DEF e, v, held
      <4>3. tx' = [tx EXCEPT ![t] = [[held EXCEPT !.expired = e]
                                       EXCEPT !.pc = "commit", !.result = v]]
        BY <4>1, <4>2
      <4>. QED BY <4>2, <4>3
    <3>. QED BY <3>1, <3>2
  <2>2. PICK e, v : /\ tx' = [tx EXCEPT ![t] = [[held EXCEPT !.expired = e]
                                                  EXCEPT !.pc = "commit", !.result = v]]
                    /\ e \subseteq r.expired \cup {r.id}
    BY <2>1
  <2> DEFINE x == [[held EXCEPT !.expired = e] EXCEPT !.pc = "commit", !.result = v]
  <2>3. tx' = [tx EXCEPT ![t] = x]
    BY <2>2
  <2>4. /\ x.pc = "commit" /\ x.op = r.op /\ x.cart = r.cart /\ x.now = r.now
        /\ x.todo = r.todo /\ x.rows = r.rows \cup {r.id} /\ x.skus = r.skus
        /\ x.expired = e /\ x.place = r.place /\ x.final = r.final /\ x.level = r.level
    BY OwnStock DEF IsTransaction, Fields
  <2> HIDE DEF x, held
  <2>5. Local(x) /\ CountsOut(x) /\ ~Draws(x) /\ Counted(x) = {} /\ x.level = {}
    BY <1>1, <1>4, <2>2, <2>4
       DEF Draws, Local, Typed, Phase, Wants, Finishing, CountsOut, Counted
  <2>. QED BY <1>1, <2>3, <2>5, PlainStatement
<1>. QED BY <1>2, <1>3

LEMMA LockStockStock ==
  ASSUME IInv, StockInv, NEW t \in Clients, LockStock(t)
  PROVE  StockInv'
<1> DEFINE r == tx[t]
           s == FirstInCode(r.todo)
<1>1. /\ r.pc = "lock" /\ r.todo # {} /\ r.op = "reserve"
      /\ clock' = clock /\ stock' = stock /\ res' = res
      /\ r.place = FALSE /\ r.final = "none" /\ r.level = {}
  BY OwnStock, NothingYet DEF LockStock, Quiet, Phase
<1>2. /\ Typed(r) /\ r.now <= clock /\ CountsOut(r) /\ Lines(r.cart) \subseteq r.skus \cup r.todo
      /\ Item(t) = s /\ s \in r.todo
  BY <1>1, OwnStock, FirstIsIn DEF Phase, Wants, Typed, Item
<1> HIDE DEF s
<1>3. CASE s \in items
  <2> DEFINE x == [r EXCEPT !.pc = "count", !.skus = r.skus \cup {s}]
  <2>1. tx' = [tx EXCEPT ![t] = x]
    BY <1>2, <1>3 DEF LockStock, Set
  <2>2. /\ x.pc = "count" /\ x.op = r.op /\ x.cart = r.cart /\ x.now = r.now
        /\ x.todo = r.todo /\ x.rows = r.rows /\ x.skus = r.skus \cup {s}
        /\ x.expired = r.expired /\ x.place = r.place /\ x.final = r.final /\ x.level = r.level
    BY OwnStock DEF IsTransaction, Fields
  <2> HIDE DEF x
  <2>3. Typed(x)
    BY <1>2, <2>2 DEF Typed
  <2>4. FirstInCode(x.todo) = s
    BY <2>2 DEF s
  <2>5. Local(x) /\ CountsOut(x) /\ ~Draws(x) /\ x.level = {}
    BY <1>1, <1>2, <2>2, <2>3, <2>4
       DEF Draws, Local, Phase, Wants, Finishing, CountsOut
  <2>6. Counted(x) \subseteq Counted(r) /\ x.cart = r.cart
    BY <1>1, <2>2, <2>4 DEF Counted
  <2>. QED BY <1>1, <2>1, <2>5, <2>6, PlainStatement
<1>4. CASE s \notin items
  <2> DEFINE x == [r EXCEPT !.pc = "commit", !.result = "item_not_found"]
  <2>1. tx' = [tx EXCEPT ![t] = x]
    BY <1>2, <1>4 DEF LockStock, Set, End
  <2>2. /\ x.pc = "commit" /\ x.op = r.op /\ x.cart = r.cart /\ x.now = r.now
        /\ x.todo = r.todo /\ x.rows = r.rows /\ x.skus = r.skus
        /\ x.expired = r.expired /\ x.place = r.place /\ x.final = r.final /\ x.level = r.level
    BY OwnStock DEF IsTransaction, Fields
  <2> HIDE DEF x
  <2>3. Local(x) /\ CountsOut(x) /\ ~Draws(x) /\ Counted(x) = {} /\ x.level = {}
    BY <1>1, <1>2, <2>2
       DEF Draws, Local, Typed, Phase, Wants, Finishing, CountsOut, Counted
  <2>. QED BY <1>1, <2>1, <2>3, PlainStatement
<1>. QED BY <1>3, <1>4

(* What a reserve counts at its own now is at least what is owed: a drawn  *)
(* hold that has lapsed meanwhile was live at that now.                    *)
LEMMA CountCoversOwed ==
  ASSUME IInv, StockInv, NEW t \in Clients, tx[t].op = "reserve", tx[t].pc # "expire",
         NEW s \in Skus
  PROVE  ActiveQuantity(s, tx[t].now) \in Nat /\ Owed(s) <= ActiveQuantity(s, tx[t].now)
<1> DEFINE now == tx[t].now
           L == {c \in Checkouts : Live(c, now)}
<1>1. now \in Nat /\ now <= clock /\ clock \in Nat
  BY OwnStock DEF Typed, Phase, StockInv, Sound
<1>2. ASSUME NEW c \in Holds PROVE c \in L
  <2>1. c \in Checkouts /\ res[c].status = "active" /\ res[c].expires \in Nat
    BY DEF Holds, StockInv, Sound
  <2>2. ~(res[c].expires <= now)
    BY <1>1, <2>1, OwnStock DEF Holds, CountsOut
  <2>. QED BY <1>1, <2>1, <2>2 DEF Live
<1> HIDE DEF L
<1>3. L \in SUBSET Checkouts /\ Holds \in SUBSET L
  BY <1>2 DEF L
<1>4. Units(L, s) = Pile(LinesOf(s), L)
  BY <1>3 DEF Units, Pile, LinesOf
<1>5. ActiveQuantity(s, now) = Cardinality(Pile(LinesOf(s), L))
  BY <1>4 DEF ActiveQuantity, L
<1>. QED BY <1>3, <1>5, OwedType, OwedIsPile, PileFinite, PileMonotone DEF StockInv

LEMMA CountStock ==
  ASSUME IInv, StockInv, NEW t \in Clients, CountActive(t)
  PROVE  StockInv'
<1> DEFINE r == tx[t]
           s == FirstInCode(r.todo)
<1>1. /\ r.pc = "count" /\ r.op = "reserve"
      /\ clock' = clock /\ stock' = stock /\ res' = res
      /\ r.place = FALSE /\ r.final = "none" /\ r.level = {}
  BY OwnStock, NothingYet DEF CountActive, Quiet, Phase
<1>2. /\ Typed(r) /\ r.now <= clock /\ CountsOut(r) /\ Lines(r.cart) \subseteq r.skus \cup r.todo
      /\ Item(t) = s /\ s \in r.skus /\ Counted(r) = r.skus \ {s}
  BY <1>1, OwnStock DEF Phase, Wants, Item, Counted
<1> HIDE DEF s
<1>3. CASE Enough(s, r.cart[s], r.now)
  <2> DEFINE x == [r EXCEPT !.pc = "lock", !.todo = r.todo \ {s}]
  <2>1. tx' = [tx EXCEPT ![t] = x]
    BY <1>2, <1>3 DEF CountActive, Set
  <2>2. /\ x.pc = "lock" /\ x.op = r.op /\ x.cart = r.cart /\ x.now = r.now
        /\ x.todo = r.todo \ {s} /\ x.rows = r.rows /\ x.skus = r.skus
        /\ x.expired = r.expired /\ x.place = r.place /\ x.final = r.final /\ x.level = r.level
    BY OwnStock DEF IsTransaction, Fields
  <2> HIDE DEF x
  <2>3. Local(x) /\ CountsOut(x) /\ ~Draws(x) /\ x.level = {}
    BY <1>1, <1>2, <2>2
       DEF Draws, Local, Typed, Phase, Wants, Finishing, CountsOut
  <2>4. Counted(x) = Counted(r) \cup {s} /\ x.cart = r.cart
    BY <1>1, <1>2, <2>2 DEF Counted
  <2>5. ASSUME NoLevelMeetsLapse, NEW i \in Counted(x)
        PROVE  Owed(i) + x.cart[i] <= stock[i]
    <3>1. CASE i \in Counted(r)
      BY <2>4, <2>5, <3>1 DEF StockInv, Covered
    <3>2. CASE i = s
      <4>1. s \in Skus
        BY <1>2 DEF Typed
      <4>2. ActiveQuantity(s, r.now) \in Nat /\ Owed(s) <= ActiveQuantity(s, r.now)
        BY <1>1, <4>1, CountCoversOwed
      <4>3. r.cart[s] + ActiveQuantity(s, r.now) <= stock[s]
        BY <1>3 DEF Enough
      <4>4. Owed(s) \in Nat /\ r.cart[s] \in Nat /\ stock[s] \in Nat
        BY <1>2, <2>5, <4>1, OwedType DEF Typed, StockInv, Covered
      <4>. QED BY <2>4, <3>2, <4>2, <4>3, <4>4
    <3>. QED BY <2>4, <3>1, <3>2
  <2>. QED BY <1>1, <2>1, <2>3, <2>5, StatementStock
<1>4. CASE ~Enough(s, r.cart[s], r.now)
  <2> DEFINE x == [r EXCEPT !.pc = "commit", !.result = "out_of_stock"]
  <2>1. tx' = [tx EXCEPT ![t] = x]
    BY <1>2, <1>4 DEF CountActive, Set, End
  <2>2. /\ x.pc = "commit" /\ x.op = r.op /\ x.cart = r.cart /\ x.now = r.now
        /\ x.todo = r.todo /\ x.rows = r.rows /\ x.skus = r.skus
        /\ x.expired = r.expired /\ x.place = r.place /\ x.final = r.final /\ x.level = r.level
    BY OwnStock DEF IsTransaction, Fields
  <2> HIDE DEF x
  <2>3. Local(x) /\ CountsOut(x) /\ ~Draws(x) /\ Counted(x) = {} /\ x.level = {}
    BY <1>1, <1>2, <2>2
       DEF Draws, Local, Typed, Phase, Wants, Finishing, CountsOut, Counted
  <2>. QED BY <1>1, <2>1, <2>3, PlainStatement
<1>. QED BY <1>3, <1>4

LEMMA CreateStock ==
  ASSUME IInv, StockInv, NEW t \in Clients, CreateReservation(t)
  PROVE  StockInv'
<1> DEFINE r == tx[t]
<1>1. /\ r.pc = "lock" /\ r.op = "reserve" /\ r.todo = {}
      /\ clock' = clock /\ stock' = stock /\ res' = res
      /\ r.place = FALSE /\ r.final = "none" /\ r.level = {}
  BY OwnStock, NothingYet DEF CreateReservation, Quiet, Phase
<1>2. /\ Typed(r) /\ r.now <= clock /\ CountsOut(r) /\ Lines(r.cart) \subseteq r.skus
      /\ Counted(r) = r.skus
  BY <1>1, OwnStock DEF Phase, Wants, Counted
<1>3. CASE res[r.id].status = "none"
  <2> DEFINE x == [[r EXCEPT !.place = TRUE, !.rows = r.rows \cup {r.id}]
                     EXCEPT !.pc = "commit", !.result = "ok"]
  <2>1. tx' = [tx EXCEPT ![t] = x]
    BY <1>3 DEF CreateReservation, Set, End
  <2>2. /\ x.pc = "commit" /\ x.op = r.op /\ x.id = r.id /\ x.cart = r.cart /\ x.now = r.now
        /\ x.todo = r.todo /\ x.rows = r.rows \cup {r.id} /\ x.skus = r.skus
        /\ x.expired = r.expired /\ x.place = TRUE /\ x.final = r.final /\ x.level = r.level
    BY OwnStock DEF IsTransaction, Fields
  <2> HIDE DEF x
  <2>3. Local(x) /\ CountsOut(x) /\ ~Draws(x) /\ x.level = {}
    BY <1>1, <1>2, <1>3, <2>2
       DEF Draws, Local, Typed, Phase, Wants, Finishing, CountsOut
  <2>4. Counted(x) = Counted(r) /\ x.cart = r.cart
    BY <1>2, <2>2 DEF Counted
  <2>. QED BY <1>1, <2>1, <2>3, <2>4, PlainStatement
<1>4. CASE res[r.id].status # "none"
  <2>1. tx' = [tx EXCEPT ![t] = Idle]
    BY <1>4 DEF CreateReservation, Set
  <2>. QED BY <1>1, <2>1, IdleStock, PlainStatement
<1>. QED BY <1>3, <1>4

(* The statements of finish. *)
LEMMA LockReservationStock ==
  ASSUME IInv, StockInv, NEW t \in Clients, LockReservation(t)
  PROVE  StockInv'
<1> DEFINE r == tx[t]
           row == res[r.id]
<1>1. /\ r.pc = "lockrow" /\ r.op \in {"commit", "release"} /\ r.id \in Checkouts
      /\ clock' = clock /\ stock' = stock /\ res' = res /\ row.status # "none"
      /\ r.place = FALSE /\ r.final = "none" /\ r.level = {}
  BY OwnStock, NothingYet DEF LockReservation, Quiet, Phase, RowsAreThere, Locking
<1>2. /\ Typed(r) /\ row.status \in {"active"} \cup Final /\ row.lines \in [Skus -> Nat]
      /\ r.expired = {} /\ row.expires \in Nat /\ clock \in Nat
  BY <1>1, OwnStock DEF StockInv, Sound, Phase
<1>3. ASSUME NEW f, NEW v,
             tx' = [tx EXCEPT ![t] = [r EXCEPT !.rows = {r.id}, !.final = f, !.pc = "commit",
                                               !.result = v]],
             \/ f = "none" /\ row.status \in Final
             \/ f = "released" /\ r.op = "release"
             \/ f = "expired" /\ r.op = "commit"
      PROVE  StockInv'
  <2> DEFINE x == [r EXCEPT !.rows = {r.id}, !.final = f, !.pc = "commit", !.result = v]
  <2>1. tx' = [tx EXCEPT ![t] = x]
    BY <1>3
  <2>2. /\ x.pc = "commit" /\ x.op = r.op /\ x.id = r.id /\ x.cart = r.cart /\ x.now = r.now
        /\ x.todo = r.todo /\ x.rows = {r.id} /\ x.skus = r.skus
        /\ x.expired = r.expired /\ x.place = r.place /\ x.final = f /\ x.level = r.level
    BY OwnStock DEF IsTransaction, Fields
  <2> HIDE DEF x
  <2>3. Local(x) /\ CountsOut(x) /\ ~Draws(x) /\ Counted(x) = {} /\ x.level = {}
    BY <1>1, <1>2, <1>3, <2>2
       DEF Draws, Local, Typed, Phase, Wants, Finishing, CountsOut, Counted, Final
  <2>. QED BY <1>1, <2>1, <2>3, PlainStatement
<1>4. CASE row.status # "active"
  <2>1. [r EXCEPT !.rows = {r.id}, !.pc = "commit", !.result = "no"]
          = [r EXCEPT !.rows = {r.id}, !.final = "none", !.pc = "commit", !.result = "no"]
    BY <1>1, OwnStock DEF IsTransaction, Fields
  <2>2. tx' = [tx EXCEPT ![t] = [r EXCEPT !.rows = {r.id}, !.pc = "commit", !.result = "no"]]
    BY <1>4 DEF LockReservation, Set, End
  <2>. QED BY <1>2, <1>3, <1>4, <2>1, <2>2
<1>5. CASE row.status = "active" /\ r.op = "release"
  <2>1. tx' = [tx EXCEPT ![t] = [r EXCEPT !.rows = {r.id}, !.final = "released", !.pc = "commit",
                                          !.result = "ok"]]
    BY <1>5, OwnStock DEF LockReservation, Set, End, IsTransaction, Fields
  <2>. QED BY <1>3, <1>5, <2>1
<1>6. CASE row.status = "active" /\ r.op = "commit" /\ row.expires <= clock
  <2>1. tx' = [tx EXCEPT ![t] = [r EXCEPT !.rows = {r.id}, !.final = "expired", !.pc = "commit",
                                          !.result = "no"]]
    BY <1>6, OwnStock DEF LockReservation, Set, End, IsTransaction, Fields
  <2>. QED BY <1>3, <1>6, <2>1
<1>7. CASE row.status = "active" /\ r.op = "commit" /\ ~(row.expires <= clock)
  <2> DEFINE x == [r EXCEPT !.rows = {r.id}, !.pc = "draw", !.cart = row.lines,
                            !.todo = Lines(row.lines)]
  <2>1. tx' = [tx EXCEPT ![t] = x]
    BY <1>7, OwnStock DEF LockReservation, Set, IsTransaction, Fields
  <2>2. /\ x.pc = "draw" /\ x.op = r.op /\ x.id = r.id /\ x.cart = row.lines /\ x.now = r.now
        /\ x.todo = Lines(row.lines) /\ x.rows = {r.id} /\ x.skus = r.skus
        /\ x.expired = r.expired /\ x.place = r.place /\ x.final = r.final /\ x.level = r.level
    BY OwnStock DEF IsTransaction, Fields
  <2> HIDE DEF x
  <2>3. Lines(row.lines) \in SUBSET Skus
    BY DEF Lines
  <2>4. Local(x) /\ CountsOut(x) /\ Counted(x) = {} /\ x.level = {}
    BY <1>1, <1>2, <1>7, <2>2, <2>3
       DEF Draws, Local, Typed, Phase, Wants, Finishing, CountsOut, Counted
  <2>5. res[x.id].expires > clock
    BY <1>2, <1>7, <2>2
  <2>. QED BY <1>1, <2>1, <2>4, <2>5, PlainStatement
<1>. QED BY <1>1, <1>4, <1>5, <1>6, <1>7

LEMMA DrawStock ==
  ASSUME IInv, StockInv, NEW t \in Clients, DecrementStock(t) \/ MarkCommitted(t)
  PROVE  StockInv'
<1> DEFINE r == tx[t]
           s == FirstInDb(r.todo)
<1>1. /\ r.pc = "draw" /\ r.op = "commit" /\ clock' = clock /\ stock' = stock /\ res' = res
      /\ r.place = FALSE /\ r.final = "none" /\ r.level = {}
  BY OwnStock, NothingYet DEF DecrementStock, MarkCommitted, Quiet, Phase
<1>2. /\ Typed(r) /\ Draws(r) /\ r.id \in r.rows /\ res[r.id].status = "active"
      /\ r.cart = res[r.id].lines /\ Item(t) = s /\ r.expired = {}
  BY <1>1, OwnStock DEF Draws, Finishing, Phase, Item
<1>3. r.todo # {} => s \in Skus
  BY <1>2, FirstIsIn DEF Typed
<1> HIDE DEF s
<1>4. ASSUME NEW x, tx' = [tx EXCEPT ![t] = x], x.op = r.op, x.id = r.id, x.cart = r.cart,
             x.now = r.now, x.todo \in SUBSET Skus, x.rows = r.rows, x.skus \in SUBSET Skus,
             x.expired = r.expired, x.place = r.place, x.level = r.level,
             \/ x.pc \in {"draw", "short"} /\ x.final = "none"
             \/ x.pc = "commit" /\ x.final = "committed"
      PROVE  StockInv'
  <2>1. Typed(x)
    BY <1>2, <1>4 DEF Typed
  <2>2. Phase(x)
    BY <1>1, <1>2, <1>4 DEF Phase, Final
  <2>3. Wants(x) /\ Finishing(x) /\ CountsOut(x) /\ Counted(x) = {} /\ x.level = {}
    BY <1>1, <1>2, <1>4 DEF Draws, Wants, Finishing, CountsOut, Counted
  <2>. QED BY <1>1, <1>2, <1>4, <2>1, <2>2, <2>3, PlainStatement DEF Local
<1>5. CASE DecrementStock(t) /\ stock[s] >= r.cart[s]
  <2> DEFINE x == [r EXCEPT !.skus = r.skus \cup {s}, !.todo = r.todo \ {s}]
  <2>1. tx' = [tx EXCEPT ![t] = x]
    BY <1>2, <1>5 DEF DecrementStock, Set
  <2>2. /\ x.pc = "draw" /\ x.op = r.op /\ x.id = r.id /\ x.cart = r.cart /\ x.now = r.now
        /\ x.todo = r.todo \ {s} /\ x.rows = r.rows /\ x.skus = r.skus \cup {s}
        /\ x.expired = r.expired /\ x.place = r.place /\ x.final = "none" /\ x.level = r.level
    BY <1>1, OwnStock DEF IsTransaction, Fields
  <2> HIDE DEF x
  <2>3. x.todo \in SUBSET Skus /\ x.skus \in SUBSET Skus
    BY <1>2, <1>3, <1>5, <2>2 DEF Typed, DecrementStock
  <2>. QED BY <1>4, <2>1, <2>2, <2>3
<1>6. CASE DecrementStock(t) /\ ~(stock[s] >= r.cart[s])
  <2> DEFINE x == [r EXCEPT !.pc = "short"]
  <2>1. tx' = [tx EXCEPT ![t] = x]
    BY <1>2, <1>6 DEF DecrementStock, Set
  <2>2. /\ x.pc = "short" /\ x.op = r.op /\ x.id = r.id /\ x.cart = r.cart /\ x.now = r.now
        /\ x.todo = r.todo /\ x.rows = r.rows /\ x.skus = r.skus
        /\ x.expired = r.expired /\ x.place = r.place /\ x.final = "none" /\ x.level = r.level
    BY <1>1, OwnStock DEF IsTransaction, Fields
  <2> HIDE DEF x
  <2>3. x.todo \in SUBSET Skus /\ x.skus \in SUBSET Skus
    BY <1>2, <2>2 DEF Typed
  <2>. QED BY <1>4, <2>1, <2>2, <2>3
<1>7. CASE MarkCommitted(t)
  <2> DEFINE x == [[r EXCEPT !.final = "committed"] EXCEPT !.pc = "commit", !.result = "ok"]
  <2>1. tx' = [tx EXCEPT ![t] = x]
    BY <1>7 DEF MarkCommitted, Set, End
  <2>2. /\ x.pc = "commit" /\ x.op = r.op /\ x.id = r.id /\ x.cart = r.cart /\ x.now = r.now
        /\ x.todo = r.todo /\ x.rows = r.rows /\ x.skus = r.skus
        /\ x.expired = r.expired /\ x.place = r.place /\ x.final = "committed" /\ x.level = r.level
    BY <1>1, OwnStock DEF IsTransaction, Fields
  <2> HIDE DEF x
  <2>3. x.todo \in SUBSET Skus /\ x.skus \in SUBSET Skus
    BY <1>2, <2>2 DEF Typed
  <2>. QED BY <1>4, <2>1, <2>2, <2>3
<1>. QED BY <1>5, <1>6, <1>7

(* The statements of setStockLevel.  While no hold lapses, what it counts  *)
(* is all that is owed.                                                    *)
LEMMA LevelStock ==
  ASSUME IInv, StockInv, NEW t \in Clients, EnsureAndLock(t) \/ CompareLevel(t)
  PROVE  StockInv'
<1> DEFINE r == tx[t]
           s == FirstInDb(r.todo)
<1>1. /\ r.pc \in {"level", "compare"} /\ r.op = "set" /\ r.todo # {}
      /\ clock' = clock /\ stock' = stock /\ res' = res
      /\ r.place = FALSE /\ r.final = "none" /\ r.level = {}
  BY OwnStock, NothingYet DEF EnsureAndLock, CompareLevel, Quiet, Phase, Wants
<1>2. /\ Typed(r) /\ r.now \in Levels /\ Item(t) = s /\ s \in Skus
      /\ r.pc = "compare" => r.skus = {s}
      /\ r.expired = {}
  BY <1>1, OwnStock, FirstIsIn DEF Phase, Wants, Typed, Item
<1> HIDE DEF s
<1>3. CASE EnsureAndLock(t)
  <2> DEFINE x == [r EXCEPT !.pc = "compare", !.skus = {s}]
  <2>1. tx' = [tx EXCEPT ![t] = x]
    BY <1>2, <1>3 DEF EnsureAndLock, Set
  <2>2. /\ x.pc = "compare" /\ x.op = r.op /\ x.cart = r.cart /\ x.now = r.now
        /\ x.todo = r.todo /\ x.rows = r.rows /\ x.skus = {s}
        /\ x.expired = r.expired /\ x.place = r.place /\ x.final = r.final /\ x.level = r.level
    BY OwnStock DEF IsTransaction, Fields
  <2> HIDE DEF x
  <2>3. FirstInDb(x.todo) = s
    BY <2>2 DEF s
  <2>4. Typed(x)
    BY <1>2, <2>2 DEF Typed
  <2>5. Local(x) /\ CountsOut(x) /\ ~Draws(x) /\ Counted(x) = {} /\ x.level = {}
    BY <1>1, <1>2, <2>2, <2>3, <2>4
       DEF Draws, Local, Phase, Wants, Finishing, CountsOut, Counted
  <2>. QED BY <1>1, <2>1, <2>5, PlainStatement
<1>4. CASE CompareLevel(t) /\ NotBelow(s, r.now)
  <2> DEFINE x == [[r EXCEPT !.level = {r.now}] EXCEPT !.pc = "commit", !.result = "ok"]
  <2>1. tx' = [tx EXCEPT ![t] = x] /\ r.pc = "compare"
    BY <1>2, <1>4 DEF CompareLevel, Set, End
  <2>2. /\ x.pc = "commit" /\ x.op = r.op /\ x.cart = r.cart /\ x.now = r.now
        /\ x.todo = r.todo /\ x.rows = r.rows /\ x.skus = {s}
        /\ x.expired = r.expired /\ x.place = r.place /\ x.final = r.final /\ x.level = {r.now}
    BY <1>2, <2>1, OwnStock DEF IsTransaction, Fields
  <2> HIDE DEF x
  <2>3. Typed(x)
    BY <1>2, <2>2 DEF Typed
  <2>4. Local(x) /\ CountsOut(x) /\ ~Draws(x) /\ Counted(x) = {}
    BY <1>1, <1>2, <2>2, <2>3
       DEF Draws, Local, Phase, Wants, Finishing, CountsOut, Counted
  <2>5. ASSUME NoLevelMeetsLapse PROVE Owed(s) <= r.now
    <3> DEFINE L == {c \in Checkouts : Live(c, clock)}
    <3>1. MaxClock < TTL
      BY <1>2, <2>5 DEF NoLevelMeetsLapse
    <3>2. /\ clock \in 0 .. MaxClock /\ MaxClock \in Nat /\ TTL \in Nat
          /\ \A c \in Checkouts :
               res[c].status = "active" => TTL <= res[c].expires /\ res[c].expires \in Nat
      BY InventoryAssumed DEF InventoryAssumption, StockInv, Sound
    <3>3. ASSUME NEW c \in Holds PROVE c \in L
      BY <3>1, <3>2 DEF Holds, Live
    <3> HIDE DEF L
    <3>4. L \in SUBSET Checkouts /\ Holds \in SUBSET L
      BY <3>3 DEF L
    <3>5. Units(L, s) = Pile(LinesOf(s), L)
      BY <3>4 DEF Units, Pile, LinesOf
    <3>6. ActiveQuantity(s, clock) = Cardinality(Pile(LinesOf(s), L))
      BY <3>5 DEF ActiveQuantity, L
    <3>7. ActiveQuantity(s, clock) \in Nat /\ Owed(s) <= ActiveQuantity(s, clock)
      BY <1>2, <3>4, <3>6, OwedType, OwedIsPile, PileFinite, PileMonotone DEF StockInv
    <3>8. ActiveQuantity(s, clock) <= r.now /\ r.now \in Nat /\ Owed(s) \in Nat
      BY <1>2, <1>4, <3>7, OwedType DEF NotBelow, Typed, StockInv
    <3>. QED BY <3>7, <3>8
  <2>. QED BY <1>1, <2>1, <2>2, <2>4, <2>5, StatementStock
<1>5. CASE CompareLevel(t) /\ ~NotBelow(s, r.now)
  <2> DEFINE x == [r EXCEPT !.pc = "commit", !.result = "no"]
  <2>1. tx' = [tx EXCEPT ![t] = x]
    BY <1>2, <1>5 DEF CompareLevel, Set, End
  <2>2. /\ x.pc = "commit" /\ x.op = r.op /\ x.cart = r.cart /\ x.now = r.now
        /\ x.todo = r.todo /\ x.rows = r.rows /\ x.skus = r.skus
        /\ x.expired = r.expired /\ x.place = r.place /\ x.final = r.final /\ x.level = r.level
    BY OwnStock DEF IsTransaction, Fields
  <2> HIDE DEF x
  <2>3. Local(x) /\ CountsOut(x) /\ ~Draws(x) /\ Counted(x) = {} /\ x.level = {}
    BY <1>1, <1>2, <2>2
       DEF Draws, Local, Typed, Phase, Wants, Finishing, CountsOut, Counted
  <2>. QED BY <1>1, <2>1, <2>3, PlainStatement
<1>. QED BY <1>3, <1>4, <1>5

-----------------------------------------------------------------------------
(* Steps that write reservations, stock or the clock.                      *)

(* The transactions of `who` end.  A row changes only when no other        *)
(* transaction holds it, and becomes active only from nothing; what the    *)
(* step takes from the stock it takes from what is owed.                   *)
LEMMA WriteStock ==
  ASSUME IInv, StockInv, NEW who \in SUBSET Clients,
         tx' = [t \in Clients |-> IF t \in who THEN Idle ELSE tx[t]],
         clock' \in 0 .. MaxClock, clock <= clock',
         \A c \in Checkouts :
           /\ res'[c].lines \in [Skus -> Nat] /\ res'[c].expires \in Nat
           /\ res'[c].status \in {"none", "active"} \cup Final
           /\ res'[c].status = "active" => TTL <= res'[c].expires
           /\ res'[c] = res[c] \/ \A t \in Clients \ who : c \notin tx[t].rows
           /\ res'[c] = res[c] \/ res'[c].status # "active" \/ res[c].status = "none",
         NoLevelMeetsLapse => stock' \in [Skus -> Nat],
         NoLevelMeetsLapse => \A s \in Skus : Owed(s)' \in Nat /\ Owed(s)' <= stock'[s],
         NoLevelMeetsLapse =>
           \A t \in Clients \ who : \A s \in tx[t].skus :
             Owed(s)' <= Owed(s) /\ Owed(s)' + stock[s] <= Owed(s) + stock'[s]
  PROVE  StockInv'
<1> USE DEF StockInv
<1>1. \A t \in Clients : tx'[t] = IF t \in who THEN Idle ELSE tx[t]
  OBVIOUS
<1>2. ASSUME NEW c \in Checkouts, Drawn(c)'
      PROVE  Drawn(c) /\ res'[c] = res[c] /\ res[c].status = "active"
  <2>1. PICK u \in Clients : Draws(tx'[u]) /\ tx'[u].id = c
    BY <1>2 DEF Drawn, Draws
  <2>2. u \notin who /\ tx'[u] = tx[u]
    BY <1>1, <2>1, IdleStock
  <2>3. c \in tx[u].rows /\ res[c].status = "active"
    BY <2>1, <2>2, OwnStock DEF Finishing
  <2>. QED BY <2>1, <2>2, <2>3 DEF Drawn
<1>3. ASSUME NEW t \in Clients PROVE Local(tx[t])' /\ CountsOut(tx[t])'
  <2>1. CASE t \in who
    <3>1. tx'[t] = Idle
      BY <1>1, <2>1
    <3>. QED
      BY <3>1, IdleStock DEF Local, Typed, Phase, Wants, Finishing, CountsOut, Draws
  <2>2. CASE t \notin who
    <3>1. tx'[t] = tx[t] /\ \A c \in Checkouts : c \in tx[t].rows => res'[c] = res[c]
      BY <1>1, <2>2
    <3>2. /\ Typed(tx[t]) /\ Phase(tx[t]) /\ Wants(tx[t]) /\ Finishing(tx[t]) /\ CountsOut(tx[t])
          /\ RowsAreThere(tx[t])
      BY OwnStock
    <3>3. clock \in Nat /\ clock' \in Nat /\ tx[t].now \in Nat
      BY <3>2 DEF Sound, Typed
    <3>4. Typed(tx[t])' /\ Phase(tx[t])'
      BY <3>1, <3>2, <3>3 DEF Typed, Phase
    <3>5. Wants(tx[t])' /\ Finishing(tx[t])'
      BY <3>1, <3>2 DEF Wants, Finishing, Draws, RowsAreThere
    <3>6. CountsOut(tx[t])'
      BY <1>2, <3>1, <3>2 DEF CountsOut
    <3>. QED BY <3>4, <3>5, <3>6 DEF Local
  <2>. QED BY <2>1, <2>2
<1>4. Sound'
  BY <1>3 DEF Sound
<1>5. ASSUME NoLevelMeetsLapse PROVE Covered'
  <2>1. ASSUME NEW t \in Clients, NEW s \in Counted(tx'[t])
        PROVE  Owed(s)' + tx'[t].cart[s] <= stock'[s]
    <3>1. t \notin who /\ tx'[t] = tx[t]
      BY <1>1, <2>1, IdleStock
    <3>2. s \in Counted(tx[t]) /\ s \in tx[t].skus /\ s \in Skus
      BY <2>1, <3>1, OwnStock DEF Counted, Typed
    <3>3. /\ Owed(s) \in Nat /\ Owed(s)' \in Nat /\ stock[s] \in Nat /\ stock'[s] \in Nat
          /\ tx[t].cart[s] \in Nat
      BY <1>5, <3>2, OwedType, OwnStock DEF Covered, Typed
    <3>4. Owed(s) + tx[t].cart[s] <= stock[s]
      BY <1>5, <3>2 DEF Covered
    <3>5. Owed(s)' + stock[s] <= Owed(s) + stock'[s]
      BY <1>5, <3>1, <3>2
    <3>. QED BY <3>1, <3>3, <3>4, <3>5
  <2>2. ASSUME NEW t \in Clients, NEW n \in tx'[t].level, NEW s \in tx'[t].skus
        PROVE  Owed(s)' <= n
    <3>1. t \notin who /\ tx'[t] = tx[t]
      BY <1>1, <2>2, IdleStock
    <3>2. s \in Skus /\ n \in Nat
      BY <2>2, <3>1, OwnStock DEF Typed
    <3>3. Owed(s) \in Nat /\ Owed(s)' \in Nat /\ Owed(s) <= n
      BY <1>5, <2>2, <3>1, <3>2, OwedType DEF Covered
    <3>4. Owed(s)' <= Owed(s)
      BY <1>5, <2>2, <3>1
    <3>. QED BY <3>2, <3>3, <3>4
  <2>3. \A t \in Clients : Counted(tx[t])' = Counted(tx'[t])
    BY DEF Counted
  <2>. QED BY <1>5, <2>1, <2>2, <2>3 DEF Covered
<1>. QED BY <1>4, <1>5 DEF NoLevelMeetsLapse

(* COMMIT owes what it places, and draws what it no longer owes. *)
LEMMA CommitStock ==
  ASSUME IInv, StockInv, NEW t \in Clients, Commit(t)
  PROVE  StockInv'
<1> DEFINE r == tx[t]
           placed == [status |-> "active", expires |-> r.now + TTL, lines |-> r.cart]
<1>1. /\ r.pc = "commit" /\ tx' = [tx EXCEPT ![t] = Idle] /\ clock' = clock
      /\ res' = [c \in Checkouts |->
                   IF c = r.id /\ r.place THEN placed
                   ELSE IF c = r.id /\ r.final \in Final THEN [res[c] EXCEPT !.status = r.final]
                   ELSE IF c \in r.expired THEN [res[c] EXCEPT !.status = "expired"] ELSE res[c]]
      /\ stock' = [s \in Skus |->
                     IF r.final = "committed" THEN stock[s] - r.cart[s]
                     ELSE IF r.level # {} /\ s \in r.skus THEN Max(r.level) ELSE stock[s]]
  BY DEF Commit, Set
<1>2. /\ r.cart \in [Skus -> Nat] /\ r.now \in Nat /\ r.skus \in SUBSET Skus
      /\ r.level = {} \/ \E n \in r.level : n \in Nat /\ r.level = {n}
      /\ r.expired \subseteq r.rows /\ r.rows \subseteq Checkouts
      /\ r.place => r.id \in r.rows /\ res[r.id].status = "none" /\ r.final = "none"
                    /\ Lines(r.cart) \subseteq r.skus /\ r.level = {}
      /\ r.final \in Final => r.id \in r.rows
      /\ r.final = "committed" => /\ Draws(r) /\ res[r.id].status = "active"
                                  /\ r.cart = res[r.id].lines
  BY OwnStock DEF Typed, Phase, Wants, Finishing, RowsAreThere, Draws, Final
<1>3. TTL \in Nat /\ IsFiniteSet(Checkouts)
  BY InventoryAssumed DEF InventoryAssumption
<1>4. tx' = [u \in Clients |-> IF u \in {t} THEN Idle ELSE tx[u]]
  BY <1>1 DEF IInv, Shape
<1>5. /\ placed.status = "active" /\ placed.expires = r.now + TTL /\ placed.lines = r.cart
  OBVIOUS
<1> HIDE DEF placed
<1>6. ASSUME NEW c \in Checkouts
      PROVE  \/ c = r.id /\ r.place /\ res'[c] = placed
             \/ /\ ~(c = r.id /\ r.place) /\ res'[c] = res[c]
                /\ ~(c = r.id /\ r.final \in Final)
             \/ /\ c \in r.rows /\ res'[c].status \in Final
                /\ res'[c].lines = res[c].lines /\ res'[c].expires = res[c].expires
                /\ ~(c = r.id /\ r.place)
  <2>1. IsReservation(res[c])
    BY Mine
  <2>2. ASSUME NEW f \in Final, res'[c] = [res[c] EXCEPT !.status = f]
        PROVE  /\ res'[c].status = f /\ res'[c].lines = res[c].lines
               /\ res'[c].expires = res[c].expires
    BY <2>1, <2>2 DEF IsReservation
  <2>. QED BY <1>1, <1>2, <2>2 DEF Final
<1>7. ASSUME NEW c \in Checkouts
      PROVE  /\ res'[c].lines \in [Skus -> Nat] /\ res'[c].expires \in Nat
             /\ res'[c].status \in {"none", "active"} \cup Final
             /\ res'[c].status = "active" => TTL <= res'[c].expires
             /\ res'[c] = res[c] \/ \A u \in Clients \ {t} : c \notin tx[u].rows
             /\ res'[c] = res[c] \/ res'[c].status # "active" \/ res[c].status = "none"
  <2>1. c \in r.rows => \A u \in Clients \ {t} : c \notin tx[u].rows
    BY DEF IInv, LocksAreExclusive
  <2>2. /\ res[c].lines \in [Skus -> Nat] /\ res[c].expires \in Nat
        /\ res[c].status \in {"none", "active"} \cup Final
        /\ res[c].status = "active" => TTL <= res[c].expires
    BY DEF StockInv, Sound
  <2>. QED BY <1>2, <1>3, <1>5, <1>6, <2>1, <2>2 DEF Final
<1>8. ASSUME NEW c \in Holds'
      PROVE  /\ c \in Checkouts /\ (c \in Holds \/ (c = r.id /\ r.place))
             /\ ~(c = r.id /\ r.final \in Final)
  <2>1. c \in Checkouts /\ res'[c].status = "active" /\ (res'[c].expires > clock \/ Drawn(c)')
    BY <1>1 DEF Holds
  <2>2. Drawn(c)' => Drawn(c)
    BY <1>4, IdleStock DEF Drawn, Draws
  <2>3. ~(c = r.id /\ r.final \in Final)
    BY <1>2, <1>6, <2>1 DEF Final
  <2>4. CASE res'[c] = res[c]
    BY <2>1, <2>2, <2>3, <2>4 DEF Holds
  <2>. QED BY <1>6, <2>1, <2>3, <2>4 DEF Final
<1>9. \A s \in Skus : Owed(s) \in Nat /\ LinesOf(s) \in [Checkouts -> Nat]
  BY OwedType DEF StockInv
<1>10. ASSUME NoLevelMeetsLapse, NEW s \in Skus
       PROVE  /\ stock'[s] \in Nat /\ Owed(s)' \in Nat /\ Owed(s)' <= stock'[s]
              /\ s \notin r.skus =>
                   Owed(s)' <= Owed(s) /\ Owed(s)' + stock[s] <= Owed(s) + stock'[s]
  <2>0. /\ stock[s] \in Nat /\ Owed(s) <= stock[s]
        /\ r.place /\ s \in r.skus => Owed(s) + r.cart[s] <= stock[s]
        /\ \A n \in r.level : s \in r.skus => Owed(s) <= n
    BY <1>1, <1>10 DEF StockInv, Covered, Counted
  <2>1. CASE r.place
    <3>1. stock'[s] = stock[s]
      BY <1>1, <1>2, <2>1
    <3>2. /\ Holds \in SUBSET Checkouts /\ r.id \in Checkouts /\ r.id \notin Holds
          /\ Holds' \in SUBSET (Holds \cup {r.id})
      BY <1>2, <1>8, <2>1 DEF Holds
    <3>3. LinesOf(s)' \in [Checkouts -> Nat] /\ LinesOf(s)'[r.id] = r.cart[s]
      BY <1>5, <1>6, <1>7, <2>1, <3>2 DEF LinesOf
    <3>4. \A c \in Holds : LinesOf(s)'[c] = LinesOf(s)[c]
      BY <1>6, <3>2 DEF LinesOf
    <3>5. Pile(LinesOf(s)', Holds) = Pile(LinesOf(s), Holds)
      BY <3>4 DEF Pile
    <3>6. Cardinality(Pile(LinesOf(s)', Holds \cup {r.id})) = Owed(s) + r.cart[s]
      BY <1>3, <3>2, <3>3, <3>5, PileAdd, OwedIsPile
    <3>7. Owed(s)' \in Nat /\ Owed(s)' <= Owed(s) + r.cart[s]
      <4>1. Holds \cup {r.id} \in SUBSET Checkouts /\ Holds' \in SUBSET Checkouts
        BY <3>2
      <4>. QED BY <1>3, <3>2, <3>3, <3>6, <4>1, PileFinite, PileMonotone, OwedIsPile
    <3>8. s \notin r.skus => r.cart[s] = 0
      BY <1>2, <2>1 DEF Lines
    <3>. QED BY <1>2, <1>9, <2>0, <2>1, <3>1, <3>7, <3>8
  <2>2. CASE r.final = "committed"
    <3>1. stock'[s] = stock[s] - r.cart[s] /\ r.id \in Checkouts /\ r.final \in Final /\ ~r.place
      BY <1>1, <1>2, <2>2 DEF Final
    <3>2. r.id \in Holds
      BY <1>2, <2>2, <3>1 DEF Holds, Drawn
    <3>3. Holds' \in SUBSET (Holds \ {r.id})
      BY <1>8, <3>1
    <3>4. Cardinality(Pile(LinesOf(s), Holds)) =
            Cardinality(Pile(LinesOf(s), Holds \ {r.id})) + r.cart[s]
      <4>1. /\ Holds \ {r.id} \in SUBSET Checkouts /\ r.id \in Checkouts \ (Holds \ {r.id})
            /\ (Holds \ {r.id}) \cup {r.id} = Holds
        BY <3>2 DEF Holds
      <4>2. LinesOf(s)[r.id] = r.cart[s]
        BY <1>2, <2>2, <3>1 DEF LinesOf
      <4>3. Cardinality(Pile(LinesOf(s), (Holds \ {r.id}) \cup {r.id})) =
              Cardinality(Pile(LinesOf(s), Holds \ {r.id})) + LinesOf(s)[r.id]
        BY <1>3, <1>9, <4>1, PileAdd
      <4>. QED BY <4>1, <4>2, <4>3
    <3>5. \A c \in Holds' : LinesOf(s)'[c] = LinesOf(s)[c]
      BY <1>6, <3>1 DEF LinesOf, Holds
    <3>6. Pile(LinesOf(s)', Holds') = Pile(LinesOf(s), Holds')
      BY <3>5 DEF Pile
    <3>7. Holds \ {r.id} \in SUBSET Checkouts /\ Holds' \in SUBSET Checkouts
      BY <3>3 DEF Holds
    <3>8. Cardinality(Pile(LinesOf(s), Holds')) <= Cardinality(Pile(LinesOf(s), Holds \ {r.id}))
      BY <1>3, <1>9, <3>3, <3>7, PileMonotone
    <3>9. /\ Cardinality(Pile(LinesOf(s), Holds')) \in Nat
          /\ Cardinality(Pile(LinesOf(s), Holds \ {r.id})) \in Nat
      BY <1>3, <1>9, <3>7, PileFinite
    <3>10. Owed(s)' \in Nat /\ Owed(s)' + r.cart[s] <= Owed(s) /\ r.cart[s] \in Nat
      BY <1>2, <1>9, <3>4, <3>6, <3>8, <3>9, OwedIsPile
    <3>. QED BY <1>9, <2>0, <3>1, <3>10
  <2>3. CASE ~r.place /\ r.final # "committed"
    <3>1. Holds' \subseteq Holds /\ \A c \in Holds' : res'[c].lines = res[c].lines
      BY <1>6, <1>8, <2>3
    <3>2. Owed(s)' \in Nat /\ Owed(s)' <= Owed(s)
      BY <3>1, OwedShrinks DEF StockInv
    <3>3. CASE r.level # {} /\ s \in r.skus
      <4>1. PICK n \in r.level : n \in Nat /\ r.level = {n}
        BY <1>2, <3>3
      <4>2. Max(r.level) = n
        BY <4>1 DEF Max
      <4>3. stock'[s] = n /\ Owed(s) <= n
        BY <1>1, <2>0, <2>3, <3>3, <4>2
      <4>. QED BY <1>9, <3>2, <3>3, <4>1, <4>3
    <3>4. CASE ~(r.level # {} /\ s \in r.skus)
      <4>1. stock'[s] = stock[s]
        BY <1>1, <2>3, <3>4
      <4>. QED BY <1>9, <2>0, <3>2, <4>1
    <3>. QED BY <3>3, <3>4
  <2>. QED BY <2>1, <2>2, <2>3
<1>11. NoLevelMeetsLapse => stock' \in [Skus -> Nat]
  <2>1. stock' = [s \in Skus |-> stock'[s]]
    BY <1>1
  <2>. QED BY <1>10, <2>1
<1>12. clock' \in 0 .. MaxClock /\ clock <= clock'
  BY <1>1 DEF StockInv, Sound
<1>13. NoLevelMeetsLapse =>
         \A u \in Clients \ {t} : \A s \in tx[u].skus :
           Owed(s)' <= Owed(s) /\ Owed(s)' + stock[s] <= Owed(s) + stock'[s]
  <2>1. \A u \in Clients \ {t} : \A s \in tx[u].skus : s \in Skus /\ s \notin r.skus
    BY OwnStock DEF IInv, LocksAreExclusive, Typed
  <2>. QED BY <1>10, <2>1
<1>14. NoLevelMeetsLapse => \A s \in Skus : Owed(s)' \in Nat /\ Owed(s)' <= stock'[s]
  BY <1>10
<1>15. {t} \in SUBSET Clients
  OBVIOUS
<1>. QED BY <1>4, <1>7, <1>11, <1>12, <1>13, <1>14, <1>15, WriteStock

(* A tick only lets holds lapse. *)
LEMMA ClockStock ==
  ASSUME IInv, StockInv, Tick
  PROVE  StockInv'
<1>1. /\ tx' = tx /\ stock' = stock /\ res' = res
      /\ clock' \in 0 .. MaxClock /\ clock <= clock' /\ clock \in Nat /\ clock' \in Nat
  BY InventoryAssumed DEF Tick, StockInv, Sound, InventoryAssumption
<1>2. tx' = [t \in Clients |-> IF t \in {} THEN Idle ELSE tx[t]]
  BY <1>1 DEF IInv, Shape
<1>4. ASSUME NEW c \in Holds' PROVE c \in Holds /\ res'[c] = res[c]
  <2>1. c \in Checkouts /\ res'[c].status = "active" /\ (res'[c].expires > clock' \/ Drawn(c)')
    BY DEF Holds
  <2>2. res'[c] = res[c] /\ (Drawn(c)' => Drawn(c))
    BY <1>1 DEF Drawn
  <2>3. res[c].expires \in Nat
    BY <2>1 DEF StockInv, Sound
  <2>. QED BY <1>1, <2>1, <2>2, <2>3 DEF Holds
<1>5. \A s \in Skus : Owed(s)' \in Nat /\ Owed(s) \in Nat /\ Owed(s)' <= Owed(s)
  BY <1>4, OwedShrinks, OwedType DEF StockInv
<1>6. NoLevelMeetsLapse =>
        /\ stock' \in [Skus -> Nat] /\ \A s \in Skus : Owed(s)' <= stock'[s]
        /\ \A t \in Clients \ {} : \A s \in tx[t].skus :
             Owed(s)' <= Owed(s) /\ Owed(s)' + stock[s] <= Owed(s) + stock'[s]
  <2> SUFFICES ASSUME NoLevelMeetsLapse
               PROVE  /\ stock' \in [Skus -> Nat] /\ \A s \in Skus : Owed(s)' <= stock'[s]
                      /\ \A t \in Clients \ {} : \A s \in tx[t].skus :
                           Owed(s)' <= Owed(s) /\ Owed(s)' + stock[s] <= Owed(s) + stock'[s]
    OBVIOUS
  <2>1. stock \in [Skus -> Nat] /\ \A s \in Skus : Owed(s) <= stock[s]
    BY DEF StockInv, Covered
  <2>2. \A t \in Clients : tx[t].skus \in SUBSET Skus
    BY OwnStock DEF Typed
  <2>. QED BY <1>1, <1>5, <2>1, <2>2
<1>7. \A c \in Checkouts :
        /\ res'[c].lines \in [Skus -> Nat] /\ res'[c].expires \in Nat
        /\ res'[c].status \in {"none", "active"} \cup Final
        /\ res'[c].status = "active" => TTL <= res'[c].expires
        /\ res'[c] = res[c] \/ \A t \in Clients \ {} : c \notin tx[t].rows
        /\ res'[c] = res[c] \/ res'[c].status # "active" \/ res[c].status = "none"
  BY <1>1 DEF StockInv, Sound, Final
<1>8. {} \in SUBSET Clients
  OBVIOUS
<1>. QED BY <1>1, <1>2, <1>5, <1>6, <1>7, <1>8, WriteStock

LEMMA StockInductive == Spec => []StockInv
<1>1. ASSUME Init PROVE StockInv
  <2>1. /\ clock = 0 /\ tx = [t \in Clients |-> Idle] /\ res = [c \in Checkouts |-> NoReservation]
        /\ stock = [s \in Skus |-> IF s \in Listed THEN Stock0 ELSE 0]
    BY <1>1 DEF Init
  <2>2. MaxClock \in Nat /\ Stock0 \in Nat /\ IsFiniteSet(Checkouts)
    BY InventoryAssumed DEF InventoryAssumption
  <2>3. /\ NoReservation.lines \in [Skus -> Nat] /\ NoReservation.expires \in Nat
        /\ NoReservation.status = "none"
    BY DEF NoReservation, NoCart
  <2>4. \A t \in Clients : Local(tx[t]) /\ CountsOut(tx[t])
    BY <2>1, IdleStock
  <2>5. Sound
    BY <2>1, <2>2, <2>3, <2>4 DEF Sound
  <2>6. Holds = {}
    BY <2>1, <2>3 DEF Holds
  <2>7. \A s \in Skus : Owed(s) = 0
    BY <2>6, FS_EmptySet DEF Owed, Units
  <2>8. stock \in [Skus -> Nat] /\ \A s \in Skus : 0 <= stock[s]
    BY <2>1, <2>2
  <2>9. Covered
    BY <2>1, <2>7, <2>8, IdleStock DEF Covered
  <2>. QED BY <2>5, <2>9 DEF StockInv
<1>2. ASSUME IInv, StockInv, [Next]_vars PROVE StockInv'
  <2>1. ASSUME NEW t \in Clients, Begin(t) \/ Rollback(t) PROVE StockInv'
    BY <1>2, <2>1, BeginStock
  <2>2. ASSUME NEW t \in Clients, Statement(t) PROVE StockInv'
    BY <1>2, <2>2, ExpireStock, FindStock, LockStockStock, CountStock, CreateStock,
       LockReservationStock, DrawStock, LevelStock, CommitStock DEF Statement
  <2>3. CASE Tick
    BY <1>2, <2>3, ClockStock
  <2>4. CASE UNCHANGED vars
    <3>1. /\ \A t \in Clients : Local(tx[t])' /\ CountsOut(tx[t])'
          /\ \A s : Owed(s)' = Owed(s)
          /\ \A t \in Clients : Counted(tx[t])' = Counted(tx[t])
      BY <1>2, <2>4
         DEF vars, StockInv, Sound, Local, Typed, Phase, Wants, Finishing, CountsOut, Drawn,
             Draws, Owed, Holds, Units, Counted
    <3>2. clock' = clock /\ stock' = stock /\ res' = res /\ tx' = tx
      BY <2>4 DEF vars
    <3>3. Sound'
      BY <1>2, <3>1, <3>2 DEF StockInv, Sound
    <3>4. ASSUME Covered PROVE Covered'
      <4>1. ASSUME NEW t \in Clients, NEW s, s \in Counted(tx[t])'
            PROVE  (Owed(s) + tx[t].cart[s] <= stock[s])'
        <5>1. s \in Counted(tx[t])
          BY <3>1, <4>1
        <5>. QED BY <3>1, <3>2, <3>4, <5>1 DEF Covered
      <4>. QED BY <3>1, <3>2, <3>4, <4>1 DEF Covered
    <3>. QED BY <1>2, <3>3, <3>4 DEF StockInv, NoLevelMeetsLapse
  <2>. QED BY <1>2, <2>1, <2>2, <2>3, <2>4 DEF Next
<1>. QED BY <1>1, <1>2, Inductive, PTL DEF Spec

(* No overselling, for any requests, checkouts, SKUs and carts: the live    *)
(* holds of a SKU never exceed its stock, as long as no level is set while  *)
(* holds lapse (the run inventory_lapse shows what happens otherwise).      *)
THEOREM HoldsCovered ==
  ASSUME NoLevelMeetsLapse
  PROVE  Spec => []HoldsAreCovered
<1>1. ASSUME StockInv PROVE HoldsAreCovered
  <2> SUFFICES ASSUME NEW s \in Skus PROVE ActiveQuantity(s, clock) <= stock[s]
    BY DEF HoldsAreCovered
  <2> DEFINE L == {c \in Checkouts : Live(c, clock)}
  <2>1. L \in SUBSET Holds /\ Holds \in SUBSET Checkouts /\ L \in SUBSET Checkouts
    BY DEF Live, Holds
  <2> HIDE DEF L
  <2>2. Units(L, s) = Pile(LinesOf(s), L)
    BY <2>1 DEF Units, Pile, LinesOf
  <2>3. ActiveQuantity(s, clock) = Cardinality(Pile(LinesOf(s), L))
    BY <2>2 DEF ActiveQuantity, L
  <2>4. ActiveQuantity(s, clock) \in Nat /\ ActiveQuantity(s, clock) <= Owed(s)
    BY <1>1, <2>1, <2>3, OwedType, OwedIsPile, PileFinite, PileMonotone DEF StockInv
  <2>5. Owed(s) \in Nat /\ stock[s] \in Nat /\ Owed(s) <= stock[s]
    BY <1>1, OwedType DEF StockInv, Covered
  <2>. QED BY <2>4, <2>5
<1>. QED BY <1>1, StockInductive, PTL

(* finish's own assertion never fails: the stock a hold set aside is there  *)
(* when it is drawn, under the same condition on levels.                    *)
THEOREM DrawsAreServed ==
  ASSUME NoLevelMeetsLapse
  PROVE  Spec => []ReservedStockIsThere
<1>1. Init => ReservedStockIsThere
  BY IdleStock DEF Init, ReservedStockIsThere
<1>2. ASSUME IInv, StockInv, ReservedStockIsThere, [Next]_vars PROVE ReservedStockIsThere'
  <2>1. ASSUME NEW t \in Clients, DecrementStock(t) PROVE stock[Item(t)] >= tx[t].cart[Item(t)]
    <3> DEFINE c == tx[t].id
               s == Item(t)
    <3>1. tx[t].pc = "draw" /\ tx[t].todo # {}
      BY <2>1 DEF DecrementStock
    <3>2. /\ tx[t].op = "commit" /\ c \in tx[t].rows /\ c \in Checkouts /\ Draws(tx[t])
          /\ res[c].status = "active" /\ tx[t].cart = res[c].lines /\ tx[t].todo \in SUBSET Skus
      BY <1>2, <3>1, OwnStock DEF Phase, Finishing, Draws, Typed, RowsAreThere
    <3>3. s \in Skus
      BY <3>1, <3>2, FirstIsIn DEF Item
    <3>4. c \in Holds
      BY <3>2 DEF Holds, Drawn
    <3> HIDE DEF s
    <3> DEFINE rest == Holds \ {c}
    <3>5. rest \in SUBSET Checkouts /\ c \in Checkouts \ rest /\ rest \cup {c} = Holds
      BY <3>2, <3>4 DEF Holds
    <3> HIDE DEF rest
    <3>6. LinesOf(s) \in [Checkouts -> Nat] /\ IsFiniteSet(Checkouts) /\ Owed(s) \in Nat
      BY <1>2, <3>3, OwedType DEF StockInv
    <3>7. Cardinality(Pile(LinesOf(s), rest \cup {c})) =
            Cardinality(Pile(LinesOf(s), rest)) + LinesOf(s)[c]
      BY <3>5, <3>6, PileAdd
    <3>8. Cardinality(Pile(LinesOf(s), rest)) \in Nat
      BY <3>5, <3>6, PileFinite
    <3>9. Owed(s) = Cardinality(Pile(LinesOf(s), rest)) + LinesOf(s)[c]
      BY <3>5, <3>7, OwedIsPile
    <3>10. LinesOf(s)[c] = tx[t].cart[s] /\ tx[t].cart[s] \in Nat
      BY <3>2, <3>6 DEF LinesOf
    <3>11. Owed(s) <= stock[s] /\ stock[s] \in Nat
      BY <1>2, <3>3 DEF StockInv, Covered
    <3>. QED BY <3>6, <3>7, <3>8, <3>9, <3>10, <3>11 DEF s
  <2>3. ASSUME NEW t \in Clients, Begin(t) \/ Statement(t) \/ Rollback(t)
        PROVE  ReservedStockIsThere'
    <3> DEFINE Goes == \A u \in Clients : tx'[u].pc # "short"
    <3>1. tx = [u \in Clients |-> tx[u]] /\ IsTransaction(tx[t])
      BY <1>2 DEF IInv, Shape
    <3>2. \A u \in Clients : tx[u].pc # "short"
      BY <1>2 DEF ReservedStockIsThere
    <3> SUFFICES Goes
      BY DEF ReservedStockIsThere
    <3>0. ASSUME NEW r, NEW D, DOMAIN r = Fields, Onward(t, r, D) PROVE Goes
      <4>1. ASSUME NEW x, tx' = [tx EXCEPT ![t] = x], x.pc # "short" PROVE Goes
        BY <3>1, <3>2, <4>1
      <4>2. ASSUME NEW a, NEW d, tx' = [tx EXCEPT ![t] = [r EXCEPT !.pc = "expire", !.at = a,
                                                                  !.due = d]]
            PROVE  Goes
        <5>1. [r EXCEPT !.pc = "expire", !.at = a, !.due = d].pc # "short"
          BY <3>0 DEF Fields
        <5>. QED BY <4>1, <4>2, <5>1
      <4> DEFINE over == [r EXCEPT !.at = {}, !.due = {}]
      <4>3. DOMAIN over = Fields
        BY <3>0
      <4>4. CASE tx' = [tx EXCEPT ![t] = End(over, "ok")]
        <5> HIDE DEF over
        <5>1. End(over, "ok").pc # "short"
          BY <4>3 DEF End, Fields
        <5>. QED BY <4>1, <4>4, <5>1
      <4>5. CASE tx' = [tx EXCEPT ![t] = [over EXCEPT !.pc = "find"]]
        <5> HIDE DEF over
        <5>1. [over EXCEPT !.pc = "find"].pc # "short"
          BY <4>3 DEF Fields
        <5>. QED BY <4>1, <4>5, <5>1
      <4>. QED BY <3>0, <4>2, <4>4, <4>5 DEF Onward, Set
    <3>3. CASE Begin(t)
      <4>1. CASE BeginReserve(t)
        <5>1. PICK c, k : Onward(t, [Idle EXCEPT !.op = "reserve", !.id = c, !.cart = k,
                                                 !.now = clock], Lapsed(clock))
          BY <4>1 DEF BeginReserve
        <5>2. DOMAIN [Idle EXCEPT !.op = "reserve", !.id = c, !.cart = k, !.now = clock] = Fields
          BY DEF Idle, Fields
        <5>. QED BY <3>0, <5>1, <5>2
      <4>2. CASE BeginLook(t)
        <5>1. DOMAIN [Idle EXCEPT !.op = "look", !.now = clock] = Fields
          BY DEF Idle, Fields
        <5>. QED BY <3>0, <4>2, <5>1 DEF BeginLook
      <4>3. CASE BeginFinish(t) \/ BeginSetStock(t)
        BY <3>1, <3>2, <4>3 DEF BeginFinish, BeginSetStock, Set, Idle
      <4>. QED BY <3>3, <4>1, <4>2, <4>3 DEF Begin
    <3>4. CASE Rollback(t)
      BY <3>1, <3>2, <3>4 DEF Rollback, Set, Idle
    <3>5. CASE ExpireRow(t)
      <4>1. \E R, E : Onward(t, [tx[t] EXCEPT !.rows = R, !.expired = E], tx[t].due)
        BY <3>5 DEF ExpireRow
      <4>2. \A R, E : DOMAIN [tx[t] EXCEPT !.rows = R, !.expired = E] = Fields
        BY <3>1 DEF IsTransaction
      <4>. QED BY <3>0, <4>1, <4>2
    <3>6. CASE FindByCheckout(t)
      <4>1. \/ tx' = [tx EXCEPT ![t] = [tx[t] EXCEPT !.pc = "lock",
                                                       !.todo = Lines(tx[t].cart)]]
            \/ \E v, R, E : tx' = [tx EXCEPT ![t] = End([[tx[t] EXCEPT !.rows = R]
                                                          EXCEPT !.expired = E], v)]
            \/ \E v, R : tx' = [tx EXCEPT ![t] = End([tx[t] EXCEPT !.rows = R], v)]
        BY <3>6 DEF FindByCheckout, Set
      <4>. QED BY <3>1, <3>2, <4>1 DEF End, IsTransaction, Fields
    <3>7. CASE LockStock(t)
      BY <3>1, <3>2, <3>7 DEF LockStock, Set, End, IsTransaction, Fields
    <3>8. CASE CountActive(t)
      BY <3>1, <3>2, <3>8 DEF CountActive, Set, End, IsTransaction, Fields
    <3>9. CASE CreateReservation(t)
      BY <3>1, <3>2, <3>9 DEF CreateReservation, Set, End, Idle, IsTransaction, Fields
    <3>10. CASE LockReservation(t)
      <4> DEFINE held == [tx[t] EXCEPT !.rows = {tx[t].id}]
      <4>1. \/ \E l, T : tx' = [tx EXCEPT ![t] = [held EXCEPT !.pc = "draw", !.cart = l, !.todo = T]]
            \/ \E f, v : tx' = [tx EXCEPT ![t] = End([held EXCEPT !.final = f], v)]
            \/ \E v : tx' = [tx EXCEPT ![t] = End(held, v)]
        BY <3>10 DEF LockReservation, Set
      <4>2. held.rows = {tx[t].id} /\ DOMAIN held = Fields
        BY <3>1 DEF IsTransaction
      <4> HIDE DEF held
      <4>3. ASSUME NEW x, tx' = [tx EXCEPT ![t] = x], x.pc # "short" PROVE Goes
        BY <3>1, <3>2, <4>3
      <4>4. ASSUME NEW l, NEW T,
                   tx' = [tx EXCEPT ![t] = [held EXCEPT !.pc = "draw", !.cart = l, !.todo = T]]
            PROVE  Goes
        <5>1. [held EXCEPT !.pc = "draw", !.cart = l, !.todo = T].pc # "short"
          BY <4>2 DEF Fields
        <5>. QED BY <4>3, <4>4, <5>1
      <4>5. ASSUME NEW f, NEW v, tx' = [tx EXCEPT ![t] = End([held EXCEPT !.final = f], v)]
            PROVE  Goes
        <5>1. End([held EXCEPT !.final = f], v).pc # "short"
          BY <4>2 DEF End, Fields
        <5>. QED BY <4>3, <4>5, <5>1
      <4>6. ASSUME NEW v, tx' = [tx EXCEPT ![t] = End(held, v)] PROVE Goes
        <5>1. End(held, v).pc # "short"
          BY <4>2 DEF End, Fields
        <5>. QED BY <4>3, <4>6, <5>1
      <4>. QED BY <4>1, <4>4, <4>5, <4>6
    <3>11. CASE DecrementStock(t)
      BY <2>1, <3>1, <3>2, <3>11 DEF DecrementStock, Set, IsTransaction, Fields
    <3>12. CASE MarkCommitted(t)
      BY <3>1, <3>2, <3>12 DEF MarkCommitted, Set, End, IsTransaction, Fields
    <3>13. CASE EnsureAndLock(t)
      BY <3>1, <3>2, <3>13 DEF EnsureAndLock, Set, IsTransaction, Fields
    <3>14. CASE CompareLevel(t)
      BY <3>1, <3>2, <3>14 DEF CompareLevel, Set, End, IsTransaction, Fields
    <3>15. CASE Commit(t)
      BY <3>1, <3>2, <3>15 DEF Commit, Set, Idle
    <3>. QED BY <2>3, <3>3, <3>4, <3>5, <3>6, <3>7, <3>8, <3>9, <3>10, <3>11, <3>12, <3>13, <3>14, <3>15 DEF Statement
  <2>4. CASE Tick \/ UNCHANGED vars
    BY <1>2, <2>4 DEF ReservedStockIsThere, Tick, vars
  <2>. QED BY <1>2, <2>3, <2>4 DEF Next
<1>. QED BY <1>1, <1>2, Inductive, StockInductive, PTL DEF Spec

(* A lapsed hold is never sold to somebody else and then drawn: from the    *)
(* moment reserve counts a hold out, that hold can no longer commit.        *)
THEOREM CountedOut == Spec => []CountedOutStaysOut
<1>1. ASSUME IInv, StockInv, NEW t \in Clients, NEW u \in Clients, NEW c \in Checkouts,
             tx[t].place, res[c].status = "active", ~Live(c, tx[t].now),
             tx[u].op = "commit", tx[u].id = c, tx[u].pc \in {"draw", "commit"},
             tx[u].final # "expired"
      PROVE  FALSE
  <2>1. /\ tx[t].op = "reserve" /\ tx[t].pc = "commit" /\ tx[t].now \in Nat
        /\ res[c].expires \in Nat
    BY <1>1, OwnStock DEF Phase, Typed, RowsAreThere, StockInv, Sound
  <2>2. res[c].expires <= tx[t].now
    BY <1>1, <2>1 DEF Live
  <2>3. ~Drawn(c)
    BY <1>1, <2>1, <2>2, OwnStock DEF CountsOut
  <2>4. ~Draws(tx[u])
    BY <1>1, <2>3 DEF Drawn
  <2>5. tx[u].pc = "commit" /\ tx[u].final = "none"
    BY <1>1, <2>4, OwnStock DEF Draws, Phase, Final
  <2>6. res[c].status \in Final
    BY <1>1, <2>5, OwnStock DEF Finishing
  <2>. QED BY <1>1, <2>6 DEF Final
<1>2. IInv /\ StockInv => CountedOutStaysOut
  BY <1>1 DEF CountedOutStaysOut
<1>. QED BY <1>2, Inductive, StockInductive, PTL
=============================================================================
