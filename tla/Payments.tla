------------------------------ MODULE Payments ------------------------------
(***************************************************************************)
(* The payments table of one merchant, as the SQL statements that write it *)
(* see it.  A row is keyed by transaction hash.  Its on-chain columns      *)
(* (ledger, payer, amount, asset, ts) are written by the indexer alone and *)
(* come from one transfer: paid[t] names it, NoTransfer standing for the   *)
(* NULL ledger of a row that is only staged.  Its attribution columns      *)
(* (route, method, request_id, hook_reported_at) are written by the settle *)
(* hook alone: reportedAt[t] is hook_reported_at, NoReport its NULL.  A    *)
(* row exists iff one of the two is not NULL, for every statement that     *)
(* creates a row sets one of them.                                         *)
(*                                                                         *)
(* Transfers are numbered in chain order, the order getEvents and          *)
(* orderEvents give them.                                                  *)
(***************************************************************************)
EXTENDS Integers, FiniteSets

CONSTANTS
  Tx,          \* transaction hashes
  Transfer,    \* transfer events addressed to the merchant, in chain order
  TxOf,        \* the transaction a transfer belongs to
  LedgerOf,    \* the ledger that closed it
  BatchSize    \* PAYMENTS_BATCH_SIZE, rows per INSERT statement

NoTransfer == 0
NoReport == 0

ASSUME PaymentsAssumption ==
  /\ Transfer \subseteq Nat \ {NoTransfer}
  /\ TxOf \in [Transfer -> Tx]
  /\ LedgerOf \in [Transfer -> Nat \ {0}]
  /\ \A x, y \in Transfer : x < y => LedgerOf[x] <= LedgerOf[y]
  /\ \A x, y \in Transfer : TxOf[x] = TxOf[y] => LedgerOf[x] = LedgerOf[y]
  /\ BatchSize \in Nat \ {0}

VARIABLES paid, reportedAt

rows == <<paid, reportedAt>>

Booked(t) == paid[t] # NoTransfer
RowExists(t) == Booked(t) \/ reportedAt[t] # NoReport

-----------------------------------------------------------------------------
(* The indexer's batched upsert.                                           *)

\* The statement of a batched insert a row travels in.
Chunk(E, x) == (Cardinality({y \in E : y < x})) \div BatchSize

\* Postgres refuses a statement that would write one row twice.  A row whose
\* ledger is already set is left alone, so only rows still to be written count.
Clash(E) ==
  \E x, y \in E : /\ x # y
                  /\ TxOf[x] = TxOf[y]
                  /\ ~Booked(TxOf[x])
                  /\ Chunk(E, x) = Chunk(E, y)

\* Mutant of FirstOf: the bind parameters are one row off.
AnyOf(E, t) == CHOOSE x \in E : TRUE

\* Of several transfers of one transaction the first one inserted wins: the
\* later statements meet a row whose ledger is no longer NULL.
FirstOf(E, t) ==
  CHOOSE x \in E : TxOf[x] = t /\ \A y \in E : TxOf[y] = t => x <= y

\* Mutant of Fresh: DO UPDATE without its WHERE clause rewrites every row.
Touched(E) == {TxOf[x] : x \in E}

\* The rows RETURNING yields: those the statement really wrote.
Fresh(E) == {t \in {TxOf[x] : x \in E} : ~Booked(t)}

\* Mutant of InsertRows: no WHERE clause, so the last statement wins.
OverwriteRows(E) ==
  /\ paid' = [t \in Tx |-> IF \E x \in E : TxOf[x] = t
                           THEN CHOOSE x \in E : TxOf[x] = t /\ \A y \in E : TxOf[y] = t => y <= x
                           ELSE paid[t]]
  /\ UNCHANGED reportedAt

InsertRows(E) ==
  /\ paid' = [t \in Tx |-> IF t \in Fresh(E) THEN FirstOf(E, t) ELSE paid[t]]
  /\ UNCHANGED reportedAt

-----------------------------------------------------------------------------
(* Attribution and the rollback purge.                                     *)

RecordSettlement(t, at) ==
  /\ reportedAt' = [reportedAt EXCEPT ![t] = IF @ = NoReport \/ @ < at THEN at ELSE @]
  /\ UNCHANGED paid

\* Mutant of Purged: the head itself is purged too.
PurgedFrom(l) == {t \in Tx : Booked(t) /\ LedgerOf[paid[t]] >= l}

\* DELETE FROM payments WHERE ledger > $2: the whole row goes, attribution too.
Purged(l) == {t \in Tx : Booked(t) /\ LedgerOf[paid[t]] > l}

PurgeAbove(l) ==
  /\ paid' = [t \in Tx |-> IF t \in Purged(l) THEN NoTransfer ELSE paid[t]]
  /\ reportedAt' = [t \in Tx |-> IF t \in Purged(l) THEN NoReport ELSE reportedAt[t]]

RowsTypeOK ==
  /\ paid \in [Tx -> Transfer \cup {NoTransfer}]
  /\ \A t \in Tx : Booked(t) => TxOf[paid[t]] = t
  /\ reportedAt \in [Tx -> Nat]

RowsInit ==
  /\ paid = [t \in Tx |-> NoTransfer]
  /\ reportedAt = [t \in Tx |-> NoReport]
=============================================================================
