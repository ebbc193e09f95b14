--------------------------- MODULE PaymentHistory ---------------------------
(****************************************************************************)
(* Walking the whole payment list by cursor (fetchAllPayments, the SDK's    *)
(* listOrders) while the indexer books payments and rewinds delete them.    *)
(****************************************************************************)
EXTENDS PaymentQuery

CONSTANTS
  PageSize,    \* rows per request
  MaxPages,    \* requests before the walk reports a truncated history
  MaxChanges   \* bound: insertions and rewinds during the run

PaymentHistoryAssumption == PageSize \in Nat \ {0}

VARIABLES
  rows,     \* the payments that have a timestamp
  walk,     \* the walk: its status, cursor, requests made, rows collected
  steady,   \* history: the payments that were there ever since the walk began
  changes

vars == <<rows, walk, steady, changes>>

NoWalk == [status |-> "none", cursor |-> 0, page |-> 0, got |-> <<>>]

Init ==
  /\ rows \in SUBSET Payment
  /\ walk = NoWalk /\ steady = {} /\ changes = 0

Start ==
  /\ walk.status # "walking"
  /\ walk' = [NoWalk EXCEPT !.status = "walking"]
  /\ steady' = rows
  /\ UNCHANGED <<rows, changes>>

(* One request: the answer is appended, and the walk ends with the cursor.  *)
Fetch ==
  /\ walk.status = "walking"
  /\ LET list == KeysetPage(rows, walk.cursor, PageSize)
         next == NextCursor(list, PageSize)
     IN  walk' = [status |-> IF next = 0 THEN "complete"
                             ELSE IF walk.page + 1 = MaxPages THEN "truncated" ELSE "walking",
                  cursor |-> next, page |-> walk.page + 1, got |-> walk.got \o list]
  /\ UNCHANGED <<rows, steady, changes>>

(* An answer that is not ok, or none: the walk throws.                      *)
Fail ==
  /\ walk.status = "walking"
  /\ walk' = [walk EXCEPT !.status = "failed"]
  /\ UNCHANGED <<rows, steady, changes>>

(* The indexer books a payment, new or late, or fills in a staged row.      *)
Book(p) ==
  /\ p \notin rows /\ changes < MaxChanges
  /\ rows' = rows \cup {p} /\ changes' = changes + 1
  /\ UNCHANGED <<walk, steady>>

(* A rewind deletes the newest rows.                                        *)
Rewind(t) ==
  /\ changes < MaxChanges /\ \E p \in rows : TsOf[p] > t
  /\ rows' = {p \in rows : TsOf[p] <= t} /\ changes' = changes + 1
  /\ steady' = steady \cap rows'
  /\ UNCHANGED walk

Next ==
  \/ Start \/ Fetch \/ Fail
  \/ \E p \in Payment : Book(p) \/ Rewind(TsOf[p] - 1)

Spec == Init /\ [][Next]_vars

(****************************************************************************)
(* Nothing is listed twice in a walk, and a walk that reports the whole     *)
(* history has every payment that was there all along and passes the        *)
(* filters, whatever was booked or deleted between its requests: the        *)
(* revenue reports are sums over these rows.                                *)
(****************************************************************************)
WalkIsExact ==
  LET got == {walk.got[i] : i \in 1..Len(walk.got)}
  IN  /\ Cardinality(got) = Len(walk.got)
      /\ walk.status = "complete" => steady \cap Matches \subseteq got

-----------------------------------------------------------------------------
(* The inductive invariant behind WalkIsExact.                              *)

(* What a sequence of payments holds, and that it lists newer ones first.   *)
Among(s) == {s[i] : i \in DOMAIN s}
Descends(s) == \A i, j \in DOMAIN s : i < j => Newer(s[i], s[j])

(* What the rows, the steady ones and the walk are made of.                 *)
HShape ==
  /\ rows \subseteq Payment /\ steady \subseteq rows
  /\ DOMAIN walk = {"status", "cursor", "page", "got"}
  /\ walk.got \in Seq(Payment)

(* What was collected is in the order of the list, and so has no payment    *)
(* twice.                                                                   *)
GotDescends == Descends(walk.got)

(* The cursor is the last payment collected.                                *)
CursorIsLast ==
  walk.status = "walking" =>
    IF walk.cursor = 0 THEN walk.got = <<>>
    ELSE walk.got # <<>> /\ walk.cursor = walk.got[Len(walk.got)]

(* A payment that was there all along is collected, or behind the cursor.   *)
NoneSkipped ==
  \A p \in steady \cap Matches :
    /\ walk.status = "walking" => p \in Among(walk.got) \/ Behind(p, walk.cursor)
    /\ walk.status = "complete" => p \in Among(walk.got)

WalkInv == HShape /\ GotDescends /\ CursorIsLast /\ NoneSkipped
Found(R, c) == {p \in R : Behind(p, c)} \cap Matches
==============================================================================
