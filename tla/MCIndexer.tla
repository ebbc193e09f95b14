----------------------------- MODULE MCIndexer ------------------------------
(* Instances of Indexer for TLC: five ledgers, windows of two, pages of one, *)
(* a scheduled and a manual run.                                            *)
EXTENDS Indexer

CONSTANTS t1, t2, cron, manual

MCTx == {t1, t2}
MCTransfer == 1 .. 3
\* The second and third transfer belong to one transaction.
MCTxOf == <<t1, t2, t2>>
\* They close early enough to leave what RPC nodes retain.
MCLedgerOf == <<1, 2, 2>>
\* Everything is retained.
MCLedgerOfLate == <<1, 3, 3>>
\* The webhook may be set or cleared between two windows.
MCConfigured == BOOLEAN
MCCron == {cron}
MCManual == {manual}
=============================================================================
