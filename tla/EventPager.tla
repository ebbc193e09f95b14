----------------------------- MODULE EventPager -----------------------------
(***************************************************************************)
(* lib/event-pager.ts: sweepLedgerRange and parallelSweepLedgerRange, page *)
(* by page.  A batch of windows is fetched concurrently, a batch of one in *)
(* the sequential sweep.  Each window's pages follow a cursor until a      *)
(* short page; then the batch's windows are handed to onEvents one after   *)
(* the other, and sweptThrough follows each, up to the first window that   *)
(* the budget cut short.  A failed fetch or consumer rejects the sweep.    *)
(*                                                                         *)
(* Events are numbered in the order of their ids, which is ledger order.   *)
(* The node that answers has closed HeadLedger ledgers.  Only the request  *)
(* for a window's first page carries its end; a page asked for by cursor   *)
(* runs on to HeadLedger.                                                  *)
(***************************************************************************)
EXTENDS Integers, FiniteSets

CONSTANTS
  Event, LedgerOf,          \* the events that pass the filters
  StartLedger, EndLedger,   \* the range to sweep
  HeadLedger,               \* the node's latest ledger
  Window,                   \* LEDGER_WINDOW
  Concurrency,              \* of the two sweeps: 1 and PARALLEL_CONCURRENCY
  PageLimit                 \* EVENTS_PAGE_LIMIT

PagerAssumption ==
  /\ Event \subseteq Nat \ {0} /\ IsFiniteSet(Event)
  /\ LedgerOf \in [Event -> Nat]
  /\ \A e, f \in Event : e < f => LedgerOf[e] <= LedgerOf[f]
  /\ {StartLedger, Window, PageLimit} \cup Concurrency \subseteq Nat \ {0}
  /\ {EndLedger, HeadLedger} \subseteq Nat /\ EndLedger <= HeadLedger

VARIABLES
  batchSize, \* which of the sweeps this is
  phase,     \* "batch", "fetch", "emit", "done" or "rejected"
  swept,     \* sweptThrough
  next,      \* nextWindowStart
  tasks,     \* the drains of this batch: a function of their first ledger
  given,     \* the events onEvents was awaited for
  budget     \* withinBudget()

vars == <<batchSize, phase, swept, next, tasks, given, budget>>

Minimum(a, b) == IF a <= b THEN a ELSE b

\* Mutant of EndOf: the last window is not cut at the end of the range.
EndUncut(from) == from + Window - 1

\* Windows by their first ledger.
EndOf(from) == Minimum(from + Window - 1, EndLedger)

Starts(from) == {from + i * Window : i \in 0 .. batchSize - 1} \cap (from .. EndLedger)
After(from) == Minimum(from + batchSize * Window - 1, EndLedger) + 1

Task == [state : {"reading", "drained", "stopped"}, events : SUBSET Event,
         cursor : Event \cup {0}]

Init ==
  /\ batchSize \in Concurrency
  /\ phase = "batch" /\ swept = StartLedger - 1 /\ next = StartLedger
  /\ tasks = <<>> /\ given = {} /\ budget = TRUE

BudgetRunsOut ==
  /\ budget /\ phase \in {"batch", "fetch", "emit"} /\ budget' = FALSE
  /\ UNCHANGED <<batchSize, phase, swept, next, tasks, given>>

\* The loop's head: nothing left, no time left, or another batch of windows.
PlanBatch ==
  /\ phase = "batch"
  /\ IF next > EndLedger \/ ~budget
     THEN phase' = "done" /\ UNCHANGED <<next, tasks>>
     ELSE /\ phase' = "fetch"
          /\ tasks' = [s \in Starts(next) |-> [state |-> "reading", events |-> {}, cursor |-> 0]]
          /\ next' = After(next)
  /\ UNCHANGED <<batchSize, swept, given, budget>>

\* The first PageLimit events of a set, in order.
Page(S) == {e \in S : Cardinality({f \in S : f <= e}) <= PageLimit}

\* Mutant of Matching: the page after a cursor starts at its event's ledger end.
MatchingFromNextLedger(s) ==
  IF tasks[s].cursor = 0 THEN {e \in Event : s <= LedgerOf[e] /\ LedgerOf[e] <= EndOf(s)}
  ELSE {e \in Event : LedgerOf[tasks[s].cursor] < LedgerOf[e] /\ LedgerOf[e] <= HeadLedger}

\* What a window's next request asks for: its ledgers, or all beyond a cursor.
Matching(s) ==
  IF tasks[s].cursor = 0 THEN {e \in Event : s <= LedgerOf[e] /\ LedgerOf[e] <= EndOf(s)}
  ELSE {e \in Event : tasks[s].cursor < e /\ LedgerOf[e] <= HeadLedger}

Highest(S) == CHOOSE e \in S : \A f \in S : f <= e

\* Mutant of Received: paging follows the cursor for as long as there is one.
ReceivedByCursor(s, page) ==
  [state |-> IF budget THEN "reading" ELSE "stopped",
   events |-> tasks[s].events \cup page,
   cursor |-> IF page = {} THEN tasks[s].cursor ELSE Highest(page)]

\* A short page ends the window; after a full one the budget decides.
Received(s, page) ==
  [state |-> IF Cardinality(page) < PageLimit THEN "drained"
             ELSE IF budget THEN "reading" ELSE "stopped",
   events |-> tasks[s].events \cup page,
   cursor |-> IF page = {} THEN tasks[s].cursor ELSE Highest(page)]

FetchPage(s) ==
  /\ phase = "fetch" /\ tasks[s].state = "reading"
  /\ tasks' = [tasks EXCEPT ![s] = Received(s, Page(Matching(s)))]
  /\ UNCHANGED <<batchSize, phase, swept, next, given, budget>>

\* Promise.all rejects with the first failed page; the consumer may throw too.
Reject ==
  /\ \/ phase = "fetch" /\ \E s \in DOMAIN tasks : tasks[s].state = "reading"
     \/ phase = "emit"
  /\ phase' = "rejected" /\ tasks' = <<>>
  /\ UNCHANGED <<batchSize, swept, next, given, budget>>

AllResolved ==
  /\ phase = "fetch" /\ \A s \in DOMAIN tasks : tasks[s].state # "reading"
  /\ phase' = "emit"
  /\ UNCHANGED <<batchSize, swept, next, tasks, given, budget>>

\* Windows are emitted in ledger order, and forgotten once they are.
Upcoming == CHOOSE s \in DOMAIN tasks : \A t \in DOMAIN tasks : s <= t

Emit ==
  /\ phase = "emit" /\ DOMAIN tasks # {} /\ ~(tasks[Upcoming].events \subseteq given)
  /\ given' = given \cup tasks[Upcoming].events
  /\ UNCHANGED <<batchSize, phase, swept, next, tasks, budget>>

\* Behind the awaited consumer: past the window, or out of the sweep.
MoveOn ==
  LET rest == [s \in DOMAIN tasks \ {Upcoming} |-> tasks[s]] IN
  /\ phase = "emit" /\ DOMAIN tasks # {} /\ tasks[Upcoming].events \subseteq given
  /\ IF tasks[Upcoming].state = "drained"
     THEN /\ swept' = EndOf(Upcoming) /\ tasks' = rest
          /\ phase' = IF DOMAIN rest = {} THEN "batch" ELSE "emit"
     ELSE phase' = "done" /\ tasks' = <<>> /\ UNCHANGED swept
  /\ UNCHANGED <<batchSize, next, given, budget>>

Step ==
  \/ PlanBatch \/ AllResolved \/ Emit \/ MoveOn
  \/ \E s \in DOMAIN tasks : FetchPage(s)

Next == Step \/ BudgetRunsOut \/ Reject

Spec == Init /\ [][Next]_vars

\* Requests are answered or fail, and promises that are resolved continue.
FairSpec == Spec /\ WF_vars(Step)

-----------------------------------------------------------------------------
(* Properties.                                                             *)

\* Types; sweptThrough and the windows stay inside the range.
TypeOK ==
  /\ batchSize \in Concurrency
  /\ phase \in {"batch", "fetch", "emit", "done", "rejected"}
  /\ swept \in StartLedger - 1 .. EndLedger /\ next \in Nat
  /\ DOMAIN tasks \subseteq StartLedger .. EndLedger
  /\ \A s \in DOMAIN tasks : tasks[s] \in Task
  /\ given \subseteq Event /\ budget \in BOOLEAN

\* The sweep keeps its promise, however its fetches are interleaved, wherever
\* the budget stops them and whichever of them fails.
Sweep == INSTANCE LedgerSweep
ImplementsSweep == Sweep!SweepSpec

\* With time and answers every sweep ends, and it ends complete unless the
\* budget stopped it or a request failed.
Over == phase \in {"done", "rejected"}
Complete == phase = "done" => swept = EndLedger \/ ~budget
SweepEnds == <>Over /\ []Complete
=============================================================================
