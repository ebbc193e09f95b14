---------------------------- MODULE LedgerSweep -----------------------------
(***************************************************************************)
(* What a sweep of a range of ledgers promises the run that asked for it:  *)
(* it hands over events, and moves on past a ledger only once every event  *)
(* up to it was handed over.  It may hand over more, and stop anywhere.    *)
(***************************************************************************)
EXTENDS Integers

CONSTANTS Event, LedgerOf, StartLedger, EndLedger

VARIABLES swept, given

SweepInit == swept = StartLedger - 1 /\ given = {}

\* The consumer, which is awaited, takes a window's events.
Hand(S) ==
  /\ S \subseteq Event /\ given' = given \cup S
  /\ UNCHANGED swept

MoveTo(l) ==
  /\ swept < l /\ l <= EndLedger
  /\ \A e \in Event : StartLedger <= LedgerOf[e] /\ LedgerOf[e] <= l => e \in given
  /\ swept' = l
  /\ UNCHANGED given

SweepNext == Hand(given') \/ MoveTo(swept')

SweepStep == SweepNext \/ UNCHANGED <<swept, given>>
SweepSpec == SweepInit /\ [][SweepNext]_<<swept, given>>
=============================================================================
