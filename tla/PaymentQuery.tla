---------------------------- MODULE PaymentQuery ----------------------------
(****************************************************************************)
(* What GET /api/payments answers for a set of rows: newest first, by       *)
(* keyset cursor or by page number, with the totals of the filtered set.    *)
(* Rows without a timestamp are not part of the set.                        *)
(****************************************************************************)
EXTENDS Integers, Sequences, FiniteSets

CONSTANTS
  Payment,   \* transaction hashes, as numbers in the order of the hashes
  TsOf,      \* the timestamp of each payment
  Matches    \* the payments the filters of the request let through

PaymentQueryAssumption ==
  /\ Payment \subseteq Nat \ {0} /\ IsFiniteSet(Payment) /\ Matches \subseteq Payment
  /\ TsOf \in [Payment -> Nat]

Newer(p, q) == TsOf[p] > TsOf[q] \/ (TsOf[p] = TsOf[q] /\ p > q)

\* Mutant of Behind: the tie on the timestamp is not broken by the hash.
BehindStrictly(p, cursor) == cursor = 0 \/ TsOf[p] < TsOf[cursor]

(* ts < $ts OR (ts = $ts AND tx_hash < $hash); 0 stands for no cursor.      *)
Behind(p, cursor) == cursor = 0 \/ Newer(cursor, p)

(* ORDER BY ts DESC, tx_hash DESC: as many rows are ahead of a row as are   *)
(* newer.                                                                   *)
Ahead(found, p) == {q \in found : Newer(q, p)}
Sorted(found) ==
  [i \in 1 .. Cardinality(found) |->
     CHOOSE p \in found : Cardinality(Ahead(found, p)) = i - 1]

Listed(rows) == Sorted(rows \cap Matches)

Prefix(list, n) == SubSeq(list, 1, IF Len(list) < n THEN Len(list) ELSE n)

(* ORDER BY ts DESC, tx_hash DESC LIMIT n, behind the cursor.               *)
KeysetPage(rows, cursor, n) ==
  Prefix(Listed({p \in rows : Behind(p, cursor)}), n)

(* LIMIT n OFFSET (page - 1) * n.                                           *)
OffsetPage(rows, page, n) ==
  LET list == Listed(rows)
      from == (page - 1) * n
  IN  Prefix(SubSeq(list, from + 1, Len(list)), n)

(* A full page has a cursor, the key of its last row.                       *)
NextCursor(list, n) == IF Len(list) = n THEN list[n] ELSE 0

(* The aggregate of the same filtered set, cursor and limit apart.          *)
Total(rows) == Cardinality(rows \cap Matches)
TotalPages(rows, n) == (Total(rows) + n - 1) \div n
==============================================================================
