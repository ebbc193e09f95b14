----------------------------- MODULE Reconcile ------------------------------
(***************************************************************************)
(* scripts/reconcile-payments: a run that rebuilds one merchant's payments *)
(* from the chain and compares them with the payments table, while the     *)
(* chain grows and the indexer writes.  The latest ledger is asked for     *)
(* twice, the chain is read window by window and page by page, and only    *)
(* then is the table read.  The table holds one merchant's rows here: the  *)
(* tool's query does not ask for a merchant.                               *)
(*                                                                         *)
(* A row is altered or lost by whatever the tool is there to catch.        *)
(***************************************************************************)
EXTENDS Payments

CONSTANTS
  MaxLedger,      \* bound: the chain's last ledger
  Window,         \* LEDGER_WINDOW
  PageLimit,      \* the limit of getEvents, 200
  Lookback,       \* DEFAULT_LOOKBACK_LEDGERS
  FromLedger,     \* the values --from-ledger is tried with
  MaxFaults       \* bound: rows altered or lost

Unset == 0

ReconcileAssumption ==
  /\ IsFiniteSet(Transfer)
  /\ {MaxLedger, Window, PageLimit} \cup FromLedger \subseteq Nat \ {Unset}
  /\ {Lookback, MaxFaults} \subseteq Nat

VARIABLES
  head, cursor,   \* the chain's latest ledger, and how far it was indexed
  altered,        \* rows whose columns no longer say what their transfer says
  faults,
  pc,             \* "idle", "named", "read", "paging", "compare", "reported", "failed"
  from, to,       \* the range of the rebuild
  window, page,   \* the window being read, the last event of the page before
  rebuilt,        \* rows, by transaction
  production      \* what fetchProductionPayments answered

chain == <<head, cursor, altered, faults>>
walk == <<pc, from, to, window, page, rebuilt, production>>
vars == <<paid, reportedAt, head, cursor, altered, faults, pc, from, to, window,
          page, rebuilt, production>>

Minimum(a, b) == IF a < b THEN a ELSE b
Maximum(a, b) == IF a < b THEN b ELSE a

Absent == [exists |-> FALSE, of |-> NoTransfer, altered |-> FALSE]

Init ==
  /\ RowsInit
  /\ head = 1 /\ cursor = 0 /\ altered = {} /\ faults = 0
  /\ pc = "idle" /\ from = 0 /\ to = 0 /\ window = 0 /\ page = 0
  /\ rebuilt = [t \in Tx |-> NoTransfer]
  /\ production = [t \in Tx |-> Absent]

-----------------------------------------------------------------------------
(* The world the tool looks at.                                            *)

CloseLedger ==
  /\ head < MaxLedger /\ head' = head + 1
  /\ UNCHANGED <<rows, cursor, altered, faults, walk>>

\* The indexer commits a window and moves on.
Index ==
  \E l \in cursor + 1 .. head :
    LET E == {x \in Transfer : cursor < LedgerOf[x] /\ LedgerOf[x] <= l} IN
      /\ ~Clash(E)
      /\ InsertRows(E)
      /\ cursor' = l
      /\ UNCHANGED <<head, altered, faults, walk>>

\* A sale is reported before or after its transfer is indexed.
Report(t) ==
  /\ reportedAt[t] = NoReport
  /\ RecordSettlement(t, 1)
  /\ UNCHANGED <<chain, walk>>

Alter(t) ==
  /\ faults < MaxFaults /\ faults' = faults + 1
  /\ Booked(t) /\ altered' = altered \cup {t}
  /\ UNCHANGED <<rows, head, cursor, walk>>

Lose(t) ==
  /\ faults < MaxFaults /\ faults' = faults + 1
  /\ Booked(t) /\ paid' = [paid EXCEPT ![t] = NoTransfer]
  /\ reportedAt' = [reportedAt EXCEPT ![t] = NoReport]
  /\ altered' = altered \ {t}
  /\ UNCHANGED <<head, cursor, walk>>

-----------------------------------------------------------------------------
(* The run.                                                                *)

\* Without --from-ledger the range starts the lookback before the latest ledger.
Named ==
  /\ pc = "idle" /\ pc' = "named"
  /\ from' \in FromLedger \cup {Maximum(1, head - Lookback)}
  /\ UNCHANGED <<rows, chain, to, window, page, rebuilt, production>>

\* rebuildFromChain asks for the latest ledger again.
BeginRebuild ==
  /\ pc = "named" /\ pc' = "read"
  /\ to' = head /\ window' = from
  /\ UNCHANGED <<rows, chain, from, page, rebuilt, production>>

\* The first PageLimit events, in chain order.
FirstPage(S) == {x \in S : Cardinality({y \in S : y < x}) < PageLimit}
Last(S) == CHOOSE x \in S : \A y \in S : y <= x

\* Keep first seen.
Taken(P) ==
  [t \in Tx |-> IF rebuilt[t] = NoTransfer /\ \E x \in P : TxOf[x] = t
                THEN FirstOf(P, t) ELSE rebuilt[t]]

\* A full page is followed by its cursor, anything shorter ends the window.
Turned(P) ==
  /\ rebuilt' = Taken(P)
  /\ IF Cardinality(P) < PageLimit
     THEN pc' = "read" /\ window' = window + Window /\ page' = 0
     ELSE pc' = "paging" /\ page' = Last(P) /\ UNCHANGED window
  /\ UNCHANGED <<rows, chain, from, to, production>>

ReadWindow ==
  /\ pc = "read" /\ window <= to
  /\ Turned(FirstPage({x \in Transfer :
       window <= LedgerOf[x] /\ LedgerOf[x] <= Minimum(window + Window - 1, to)}))

\* A request by cursor has no end: it runs on to the node's latest ledger.
ReadPage ==
  /\ pc = "paging"
  /\ Turned(FirstPage({x \in Transfer : page < x /\ LedgerOf[x] <= head}))

\* An RPC call fails three times: exit code 2.
Fail ==
  /\ pc \in {"named", "read", "paging"} /\ pc' = "failed"
  /\ UNCHANGED <<rows, chain, from, to, window, page, rebuilt, production>>

EndRebuild ==
  /\ pc = "read" /\ window > to /\ pc' = "compare"
  /\ UNCHANGED <<rows, chain, from, to, window, page, rebuilt, production>>

FetchProductionPayments ==
  /\ pc = "compare" /\ pc' = "reported"
  /\ production' = [t \in Tx |-> [exists |-> RowExists(t), of |-> paid[t],
                                  altered |-> t \in altered]]
  /\ UNCHANGED <<rows, chain, from, to, window, page, rebuilt>>

ColumnsEqual(t) == production[t].of = rebuilt[t] /\ ~production[t].altered

\* A row that is only staged has no ledger.
Mismatched == {t \in Tx : rebuilt[t] # NoTransfer /\ production[t].exists /\ ~ColumnsEqual(t)}
MissingInDb == {t \in Tx : rebuilt[t] # NoTransfer /\ ~production[t].exists}
MissingOnChain == {t \in Tx : rebuilt[t] = NoTransfer /\ production[t].of # NoTransfer}

\* Mutant of Ok: only the counts are compared.
OkByCount ==
  Cardinality({t \in Tx : rebuilt[t] # NoTransfer}) =
    Cardinality({t \in Tx : production[t].of # NoTransfer})

\* diff.ok, the exit code 0.
Ok == Mismatched = {} /\ MissingInDb = {} /\ MissingOnChain = {}

Walk ==
  \/ Named
  \/ BeginRebuild
  \/ ReadWindow
  \/ ReadPage
  \/ Fail
  \/ EndRebuild
  \/ FetchProductionPayments

Next ==
  \/ CloseLedger
  \/ Index
  \/ \E t \in Tx : Report(t) \/ Alter(t) \/ Lose(t)
  \/ Walk

Spec == Init /\ [][Next]_vars

-----------------------------------------------------------------------------
(* A report without a discrepancy means what it says: in the range it      *)
(* names every transaction is booked as its first transfer, unaltered, and *)
(* no other row claims a ledger.  Windows whose pages run past their end,  *)
(* and several transfers of one transaction, must not blur it.             *)
OkMeansAgreed ==
  pc = "reported" /\ Ok =>
    /\ \A x \in Transfer : from <= LedgerOf[x] /\ LedgerOf[x] <= to =>
         production[TxOf[x]].of # NoTransfer
    /\ \A t \in Tx : production[t].of # NoTransfer =>
         /\ ~production[t].altered
         /\ production[t].of = FirstOf(Transfer, t)

-----------------------------------------------------------------------------
(* The inductive invariant behind OkMeansAgreed.                           *)
(* The transfer a transaction is booked as.                                 *)
IsFirst(x, t) ==
  x \in Transfer /\ TxOf[x] = t /\ \A y \in Transfer : TxOf[y] = t => x <= y

Rebuilt(x) == rebuilt[TxOf[x]] # NoTransfer

(* What was read: every transaction of the ledgers behind the window, and   *)
(* while a window is paged those of it up to the page's last event.         *)
AuditInv ==
  /\ paid \in [Tx -> Transfer \cup {NoTransfer}]
  /\ head \in Nat /\ from \in Nat /\ to \in Nat /\ window \in Nat /\ cursor \in Nat
  /\ rebuilt \in [Tx -> Transfer \cup {NoTransfer}]
  /\ \A t \in Tx : rebuilt[t] # NoTransfer => IsFirst(rebuilt[t], t)
  /\ pc \in {"read", "paging", "compare", "reported"} =>
       /\ to <= head
       /\ \A x \in Transfer :
            from <= LedgerOf[x] /\ LedgerOf[x] < window /\ LedgerOf[x] <= to => Rebuilt(x)
  /\ pc = "paging" =>
       /\ page \in Transfer /\ window <= LedgerOf[page]
       /\ \A x \in Transfer : window <= LedgerOf[x] /\ x <= page => Rebuilt(x)
  /\ pc \in {"compare", "reported"} => to < window
  /\ pc = "reported" =>
       \A t \in Tx : production[t].of # NoTransfer => production[t].exists
=============================================================================
