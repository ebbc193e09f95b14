---------------------------- MODULE PaymentBooks ----------------------------
(***************************************************************************)
(* What the indexer promises a merchant: a set of booked transactions and  *)
(* a ledger the books are closed through.  Entries are added, never        *)
(* changed; the books are closed through a ledger only when every transfer *)
(* up to it is entered or lies in the gap that was reported as lost; they  *)
(* are reopened only by striking every entry above the ledger they are     *)
(* reopened at.                                                            *)
(***************************************************************************)
EXTENDS Integers

CONSTANTS Tx, Transfer, TxOf, LedgerOf

VARIABLES entries, closed, lost

books == <<entries, closed, lost>>

\* The ledger of a transaction's transfers, which all lie in one ledger.
Above(l) == {TxOf[x] : x \in {y \in Transfer : LedgerOf[y] > l}}

BooksInit == entries = {} /\ closed = -1 /\ lost = {}

Enter(S) ==
  /\ S \subseteq Tx /\ entries' = entries \cup S
  /\ UNCHANGED <<closed, lost>>

Close(l) ==
  /\ l > closed
  /\ lost \subseteq lost'
  /\ \A x \in Transfer : LedgerOf[x] <= l => TxOf[x] \in entries \/ LedgerOf[x] \in lost'
  /\ closed' = l
  /\ UNCHANGED entries

Reopen(l) ==
  /\ l < closed
  /\ entries' = entries \ Above(l)
  /\ closed' = l
  /\ lost' = {k \in lost : k <= l}

BooksNext ==
  \/ Enter(entries')
  \/ Close(closed')
  \/ Reopen(closed')

BooksSpec == BooksInit /\ [][BooksNext]_books
=============================================================================
