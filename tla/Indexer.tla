------------------------------ MODULE Indexer -------------------------------
(***************************************************************************)
(* The indexer of one merchant: runSync and what it calls.  A run takes    *)
(* the merchant's session advisory lock, asks an RPC node for the latest   *)
(* ledger, rewinds when that lies below the cursor, sweeps the ledgers up  *)
(* to it window by window, inserting each window's transfers in one        *)
(* transaction and announcing the rows it wrote (to chat, then to the      *)
(* webhook, with retries), and moves the cursor once at the end.  Runs are *)
(* started by the schedule (Cron) and by the dashboard (Manual, under a    *)
(* cooldown), and overlap.  Any run may throw or die between two steps.    *)
(* RPC nodes may lag behind the chain and behind one another.              *)
(*                                                                         *)
(* A sweep reads one window at a time here.  The parallel sweep reads up   *)
(* to ten ahead of committing them, stops at the first that did not drain  *)
(* and throws if any fetch fails; EventPager models both page by page and  *)
(* shows that they hand over windows as this module has it.                *)
(***************************************************************************)
EXTENDS Payments

CONSTANTS
  Cron, Manual,    \* the overlapping invocations of GET and of POST
  NoRun,           \* nobody holds the lock
  MaxLedger,       \* bound: the chain's last ledger
  Window,          \* LEDGER_WINDOW
  PageLimit,       \* EVENTS_PAGE_LIMIT
  ColdStart,       \* COLD_START_LOOKBACK
  Lookback,        \* MAX_LOOKBACK, inside what an RPC node retains
  MaxLag,          \* bound: how far behind the chain an RPC node may be
  PeerLag,         \* bound: how far the node that serves events may be behind the
                   \* one that named the latest ledger
  Attempts,        \* POSTs of one payment to the webhook, at most
  Configured,      \* whether a webhook is found configured: {TRUE}, {FALSE} or BOOLEAN
  MaxFaults,       \* bound: runs that throw, die or exhaust their budget, failed
                   \* chat INSERTs and unanswered POSTs
  MaxReports       \* bound: settlement reports, and their timestamps

Run == Cron \cup Manual
NoCursor == -1

ASSUME IndexerAssumption ==
  /\ NoRun \notin Run
  /\ {Window, PageLimit, MaxLedger, Attempts} \subseteq Nat \ {0}
  /\ Configured \subseteq BOOLEAN /\ Configured # {}
  /\ {ColdStart, Lookback, MaxLag, PeerLag, MaxFaults, MaxReports} \subseteq Nat

VARIABLES
  head,       \* the chain's latest closed ledger
  cursor,     \* sync_state.last_ledger, NoCursor before the first run
  gap,        \* ledgers the cursor passed unread: skippedLedgers and cold start
  recent,     \* sync_state.updated_at is within MANUAL_COOLDOWN_MS
  lock,       \* the holder of the session advisory lock
  pc, latest, seen, start, swept, batch,   \* the locals of each run
  fresh,      \* of each run: the rows it wrote and has still to announce
  tries,      \* of each run: POSTs of the payment whose turn it is
  queued,     \* payments with rows in chat_notification_outbox
  sent,       \* history: POSTs of a payment since its row was written; the merchant
              \* may have got any of them
  answered,   \* history: which of them was the first to be answered below 500, or 0
  unread,     \* history, of each run: ledgers of its windows that the node which
              \* served them had not closed
  unserved,   \* history: such ledgers that the cursor has passed
  faults, reports

table == <<paid, reportedAt>>
db == <<cursor, gap, recent, unserved>>
locals == <<latest, seen, start, swept, batch, fresh, tries, unread>>
told == <<queued, sent, answered>>
bounds == <<faults, reports>>
vars == <<paid, reportedAt, head, cursor, gap, recent, unserved, lock, pc, latest, seen,
          start, swept, batch, fresh, tries, unread, queued, sent, answered,
          faults, reports>>

Maximum(a, b) == IF a < b THEN b ELSE a
Minimum(a, b) == IF a < b THEN a ELSE b

Between(lo, hi) == {x \in Transfer : lo <= LedgerOf[x] /\ LedgerOf[x] <= hi}

NoBatch == [events |-> {}, through |-> 0, drained |-> TRUE]

PC == {"idle", "locked", "plan", "sweep", "commit", "queue", "post", "advance"}

TypeOK ==
  /\ RowsTypeOK
  /\ head \in Nat /\ cursor \in Nat \cup {NoCursor}
  /\ gap \subseteq Nat /\ unserved \subseteq Nat /\ recent \in BOOLEAN
  /\ lock \in Run \cup {NoRun}
  /\ pc \in [Run -> PC]
  /\ latest \in [Run -> Nat] /\ seen \in [Run -> Nat \cup {NoCursor}]
  /\ start \in [Run -> Nat] /\ swept \in [Run -> Nat]
  /\ batch \in [Run -> [events : SUBSET Transfer, through : Nat, drained : BOOLEAN]]
  /\ fresh \in [Run -> SUBSET Tx] /\ tries \in [Run -> Nat]
  /\ unread \in [Run -> SUBSET Nat]
  /\ queued \subseteq Tx
  /\ sent \in [Tx -> Nat] /\ answered \in [Tx -> Nat]
  /\ faults \in Nat /\ reports \in Nat

Init ==
  /\ RowsInit
  /\ head = 1 /\ cursor = NoCursor /\ gap = {} /\ unserved = {} /\ recent = FALSE
  /\ lock = NoRun
  /\ pc = [r \in Run |-> "idle"]
  /\ latest = [r \in Run |-> 0] /\ seen = [r \in Run |-> NoCursor]
  /\ start = [r \in Run |-> 0] /\ swept = [r \in Run |-> 0]
  /\ batch = [r \in Run |-> NoBatch] /\ fresh = [r \in Run |-> {}]
  /\ tries = [r \in Run |-> 0] /\ unread = [r \in Run |-> {}]
  /\ queued = {}
  /\ sent = [t \in Tx |-> 0] /\ answered = [t \in Tx |-> 0]
  /\ faults = 0 /\ reports = 0

Goto(r, to) == pc' = [pc EXCEPT ![r] = to]

\* The end of a run, by return or throw: the finally block (or the loss of the
\* connection) releases the lock, and the locals are gone.
Leave(r) ==
  /\ Goto(r, "idle")
  /\ lock' = IF lock = r THEN NoRun ELSE lock
  /\ latest' = [latest EXCEPT ![r] = 0] /\ seen' = [seen EXCEPT ![r] = NoCursor]
  /\ start' = [start EXCEPT ![r] = 0] /\ swept' = [swept EXCEPT ![r] = 0]
  /\ batch' = [batch EXCEPT ![r] = NoBatch] /\ fresh' = [fresh EXCEPT ![r] = {}]
  /\ tries' = [tries EXCEPT ![r] = 0] /\ unread' = [unread EXCEPT ![r] = {}]

-----------------------------------------------------------------------------
(* The environment: the chain, the clock, the settle hook.                 *)

CloseLedger ==
  /\ head < MaxLedger
  /\ head' = head + 1
  /\ UNCHANGED <<table, db, lock, pc, locals, told, bounds>>

CooldownPasses ==
  /\ recent
  /\ recent' = FALSE
  /\ UNCHANGED <<table, head, cursor, gap, unserved, lock, pc, locals, told, bounds>>

\* POST /api/hook/settle, by the rules of recordSettlement: a report for any
\* transaction, indexed yet or not, with any timestamp.
ReportSettlement(t, at) ==
  /\ reports < MaxReports
  /\ reports' = reports + 1
  /\ RecordSettlement(t, at)
  /\ UNCHANGED <<head, db, lock, pc, locals, told, faults>>

-----------------------------------------------------------------------------
(* A run.                                                                  *)

AcquireLock(r) ==
  /\ pc[r] = "idle"
  /\ lock = NoRun
  /\ lock' = r
  /\ Goto(r, "locked")
  /\ UNCHANGED <<table, head, db, locals, told, bounds>>

\* A manual run returns at once while the last cursor write is recent.
Cooldown(r) ==
  /\ pc[r] = "locked" /\ r \in Manual /\ recent
  /\ Leave(r)
  /\ UNCHANGED <<table, head, db, told, bounds>>

ReadHead(r, h) ==
  /\ pc[r] = "locked" /\ (r \in Manual => ~recent)
  /\ latest' = [latest EXCEPT ![r] = h]
  /\ seen' = [seen EXCEPT ![r] = cursor]
  /\ Goto(r, "plan")
  /\ UNCHANGED <<table, head, db, lock, start, swept, batch, fresh, tries, unread,
                 told, bounds>>

\* Where the run resumes, given the cursor it works from.
StartLedger(c, l) ==
  Maximum(Maximum(IF c # NoCursor THEN c + 1 ELSE l - ColdStart, l - Lookback), 1)

BeginSweep(r, c) ==
  /\ seen' = [seen EXCEPT ![r] = c]
  /\ start' = [start EXCEPT ![r] = StartLedger(c, latest[r])]
  /\ swept' = [swept EXCEPT ![r] = StartLedger(c, latest[r]) - 1]
  /\ Goto(r, "sweep")
  /\ UNCHANGED <<lock, latest, batch, fresh, tries, unread>>

Plan(r) ==
  /\ pc[r] = "plan"
  /\ ~(seen[r] # NoCursor /\ latest[r] < seen[r])
  /\ IF StartLedger(seen[r], latest[r]) > latest[r] THEN Leave(r) ELSE BeginSweep(r, seen[r])
  /\ UNCHANGED <<table, head, db, told, bounds>>

\* Mutant of Rollback: the cursor write keeps its forward-only guard.
RollbackRowsOnly(r) ==
  /\ pc[r] = "plan"
  /\ seen[r] # NoCursor /\ latest[r] < seen[r]
  /\ PurgeAbove(latest[r])
  /\ sent' = [t \in Tx |-> IF t \in Purged(latest[r]) THEN 0 ELSE sent[t]]
  /\ answered' = [t \in Tx |-> IF t \in Purged(latest[r]) THEN 0 ELSE answered[t]]
  /\ Leave(r)
  /\ UNCHANGED <<db, head, queued, bounds>>

\* rollbackSyncToLedger: purge and rewind commit together, without the
\* forward-only guard.  The corrected head is then the cursor, and since
\* nothing lies between them the run returns.  Chat rows are left as they are.
Rollback(r) ==
  /\ pc[r] = "plan"
  /\ seen[r] # NoCursor /\ latest[r] < seen[r]
  /\ PurgeAbove(latest[r])
  /\ cursor' = latest[r]
  /\ gap' = {l \in gap : l <= latest[r]}
  /\ unserved' = {l \in unserved : l <= latest[r]}
  /\ recent' = TRUE
  /\ sent' = [t \in Tx |-> IF t \in Purged(latest[r]) THEN 0 ELSE sent[t]]
  /\ answered' = [t \in Tx |-> IF t \in Purged(latest[r]) THEN 0 ELSE answered[t]]
  /\ Leave(r)
  /\ UNCHANGED <<head, queued, bounds>>

\* What a node at ledger h answers, page after page, for a window: the request
\* for the first page carries the window's end; the others carry a cursor alone
\* and run on to h.
Answer(from, to, h) ==
  LET first == Between(from, Minimum(to, h))
  IN  IF Cardinality(first) < PageLimit THEN first ELSE Between(from, h)

\* Its pages are read to the end, or the budget runs out after some full pages
\* and the rest stays unread.  A short page counts as the end of the window, also
\* when the node has not closed the window's last ledgers.
Drain(r, E, to, h) ==
  \/ /\ batch' = [batch EXCEPT ![r] = [events |-> E, through |-> to, drained |-> TRUE]]
     /\ unread' = [unread EXCEPT ![r] = @ \cup (h + 1 .. to)]
     /\ UNCHANGED faults
  \/ /\ faults < MaxFaults /\ faults' = faults + 1
     /\ UNCHANGED unread
     /\ \E x \in E :
          LET P == {y \in E : y <= x}
          IN  /\ Cardinality(P) % PageLimit = 0
              /\ batch' = [batch EXCEPT ![r] = [events |-> P, through |-> swept[r],
                                                drained |-> FALSE]]

\* The next window, read from whichever node answers.
ReadWindow(r) ==
  /\ pc[r] = "sweep" /\ swept[r] < latest[r]
  /\ Goto(r, "commit")
  /\ \E h \in swept[r] + 1 .. head :
       /\ latest[r] - PeerLag <= h
       /\ LET to == Minimum(swept[r] + Window, latest[r])
          IN  Drain(r, Answer(swept[r] + 1, to, h), to, h)
  /\ UNCHANGED <<table, head, db, lock, latest, seen, start, swept, fresh, tries, told, reports>>

\* The window's transaction: every chunk or, when a statement fails, none.
CommitWindow(r) ==
  /\ pc[r] = "commit"
  /\ ~Clash(batch[r].events)
  /\ InsertRows(batch[r].events)
  /\ fresh' = [fresh EXCEPT ![r] = Fresh(batch[r].events)]
  /\ Goto(r, "queue")
  /\ UNCHANGED <<head, db, lock, latest, seen, start, swept, batch, tries, unread, told, bounds>>

InsertFails(r) ==
  /\ pc[r] = "commit"
  /\ Clash(batch[r].events)
  /\ Leave(r)
  /\ UNCHANGED <<table, head, db, told, bounds>>

\* After COMMIT: the rows written are queued for chat in one INSERT, which skips
\* those of an earlier booking and whose failure is logged and swallowed.  They
\* are then POSTed, if a webhook is configured for the merchant or for all.
QueueChat(r) ==
  /\ pc[r] = "queue"
  /\ \/ queued' = queued \cup fresh[r] /\ UNCHANGED faults
     \/ /\ fresh[r] # {} /\ faults < MaxFaults
        /\ faults' = faults + 1 /\ UNCHANGED queued
  /\ \E url \in Configured : fresh' = [fresh EXCEPT ![r] = IF url THEN @ ELSE {}]
  /\ Goto(r, "post")
  /\ UNCHANGED <<table, head, db, lock, latest, seen, start, swept, batch, tries, unread,
                 sent, answered, reports>>

\* The payment whose turn it is: RETURNING gives the rows in some order.
Turn(S) == CHOOSE t \in S : TRUE

\* One POST.  An answer below 500 ends the payment's attempts; after a timeout, a
\* network error or a 5xx, whether or not the merchant got the request, there is
\* another, up to Attempts of them.
Post(r) ==
  /\ pc[r] = "post" /\ fresh[r] # {}
  /\ LET t == Turn(fresh[r])
     IN  \E ok \in BOOLEAN :
           /\ ok \/ faults < MaxFaults
           /\ faults' = IF ok THEN faults ELSE faults + 1
           /\ sent' = [sent EXCEPT ![t] = @ + 1]
           /\ answered' = IF ok /\ answered[t] = 0
                          THEN [answered EXCEPT ![t] = sent[t] + 1] ELSE answered
           /\ IF ok \/ tries[r] + 1 = Attempts
              THEN /\ fresh' = [fresh EXCEPT ![r] = @ \ {t}]
                   /\ tries' = [tries EXCEPT ![r] = 0]
              ELSE tries' = [tries EXCEPT ![r] = @ + 1] /\ UNCHANGED fresh
  /\ UNCHANGED <<table, head, db, lock, pc, latest, seen, start, swept, batch, unread,
                 queued, reports>>

\* Every payment is announced, and only then does the sweep move past the window.
NextWindow(r) ==
  /\ pc[r] = "post" /\ fresh[r] = {}
  /\ swept' = [swept EXCEPT ![r] = batch[r].through]
  /\ Goto(r, IF batch[r].drained THEN "sweep" ELSE "advance")
  /\ batch' = [batch EXCEPT ![r] = NoBatch]
  /\ UNCHANGED <<table, head, db, lock, latest, seen, start, fresh, tries, unread, told, bounds>>

SweepDone(r) ==
  /\ pc[r] = "sweep" /\ swept[r] >= latest[r]
  /\ Goto(r, "advance")
  /\ UNCHANGED <<table, head, db, lock, locals, told, bounds>>

BudgetExhausted(r) ==
  /\ pc[r] = "sweep" /\ swept[r] < latest[r]
  /\ faults < MaxFaults /\ faults' = faults + 1
  /\ Goto(r, "advance")
  /\ UNCHANGED <<table, head, db, lock, locals, told, reports>>

\* Mutant of AdvanceCursor: the head is recorded, not what was swept.
AdvanceToHead(r) ==
  /\ pc[r] = "advance"
  /\ cursor' = latest[r]
  /\ gap' = gap \cup (Maximum(seen[r] + 1, 1) .. (start[r] - 1))
  /\ unserved' = unserved \cup unread[r]
  /\ recent' = TRUE
  /\ Leave(r)
  /\ UNCHANGED <<table, head, told, bounds>>

\* setLastSyncedLedger: forward only.  The ledgers between the cursor the run
\* worked from and the one it started at are passed over for good.
AdvanceCursor(r) ==
  /\ pc[r] = "advance"
  /\ IF cursor < swept[r]
     THEN /\ cursor' = swept[r]
          /\ gap' = gap \cup (Maximum(seen[r] + 1, 1) .. (start[r] - 1))
          /\ unserved' = unserved \cup unread[r]
          /\ recent' = TRUE
     ELSE UNCHANGED db
  /\ Leave(r)
  /\ UNCHANGED <<table, head, told, bounds>>

\* An RPC call that fails its retries, a database error, a killed invocation.
Abort(r) ==
  /\ pc[r] # "idle"
  /\ faults < MaxFaults /\ faults' = faults + 1
  /\ Leave(r)
  /\ UNCHANGED <<table, head, db, told, reports>>

Step(r) ==
  \/ Cooldown(r) \/ Plan(r) \/ Rollback(r) \/ ReadWindow(r) \/ CommitWindow(r)
  \/ InsertFails(r) \/ QueueChat(r) \/ Post(r) \/ NextWindow(r)
  \/ SweepDone(r) \/ AdvanceCursor(r)
  \/ \E h \in 1 .. head : head - h <= MaxLag /\ ReadHead(r, h)

Next ==
  \/ CloseLedger \/ CooldownPasses
  \/ \E t \in Tx, at \in 1 .. MaxReports : ReportSettlement(t, at)
  \/ \E r \in Run : AcquireLock(r) \/ Step(r) \/ BudgetExhausted(r) \/ Abort(r)

Spec == Init /\ [][Next]_vars

\* The schedule keeps coming, pg_advisory_lock queues its waiters, and a run
\* that neither throws nor dies reaches its end.
FairSpec ==
  /\ Spec
  /\ WF_vars(CloseLedger)
  /\ \A r \in Cron : SF_vars(AcquireLock(r))
  /\ \A r \in Run : WF_vars(Step(r))

-----------------------------------------------------------------------------
(* Properties.                                                             *)

\* The cursor never passes a ledger that was not read: every transfer at or
\* below it is booked, unless its ledger is in the gap skippedLedgers reports, or
\* was answered for by a node that had not closed it yet.  Windows, budget stops,
\* aborted runs and rewinds all lie in between.
CursorCoversBooks ==
  \A x \in Transfer :
    LedgerOf[x] <= cursor => Booked(TxOf[x]) \/ LedgerOf[x] \in gap \cup unserved

\* Over re-read windows, overlapping runs, crashes between two POSTs and rewinds,
\* the merchant's webhook is sent a payment at most Attempts times per booking,
\* never again once it answered, and only while the payment is on the books.
AnnouncedPerBooking ==
  \A t \in Tx :
    /\ sent[t] <= Attempts
    /\ answered[t] # 0 => answered[t] = sent[t]
    /\ sent[t] # 0 => Booked(t)

\* A payment, once booked, keeps the transfer it was booked from until a
\* rewind deletes the row: a second transfer of the transaction, or a report
\* by the settle hook, never rewrites the on-chain columns.
BookedFieldsFrozen ==
  [][\A t \in Tx : Booked(t) => paid'[t] \in {paid[t], NoTransfer}]_vars

\* Only a rewind takes a payment off the books, and it takes every payment
\* above the ledger it rewinds to, so that books and cursor move together.
PurgeRewindsCursor ==
  [][(\E t \in Tx : Booked(t) /\ ~Booked(t)') =>
        cursor' < cursor /\ \A t \in Tx : Booked(t)' => LedgerOf[paid[t]] <= cursor']_vars

\* The indexer implements the books.
Books == INSTANCE PaymentBooks
           WITH entries <- {t \in Tx : Booked(t)}, closed <- cursor,
                lost <- gap \cup unserved
ImplementsBooks == Books!BooksSpec

\* Every transfer old enough that no RPC node lags behind it is booked in the
\* end, reported lost, or in a ledger that a node answered for before it had
\* closed it, whatever runs are aborted or cut short on the way.
EventuallyBooked ==
  \A x \in Transfer :
    LedgerOf[x] <= MaxLedger - MaxLag => <>[](Booked(TxOf[x]) \/ LedgerOf[x] \in gap \cup unserved)

-----------------------------------------------------------------------------
(* Why CursorCoversBooks holds.                                            *)

LockInv == \A r \in Run : pc[r] # "idle" => lock = r

Announcing == {"queue", "post"}
InSweep == {"sweep", "commit", "advance"} \cup Announcing

\* What a run knows between two of its steps: the cursor it works from is
\* still the cursor, what it swept is booked, and the batch it holds is the
\* whole of the window it will move past, but for what the node had not closed.
SweepInvOf(r) ==
  /\ pc[r] \in InSweep \cup {"plan"} => seen[r] = cursor
  /\ pc[r] \in InSweep =>
       /\ 1 <= start[r] /\ start[r] <= swept[r] + 1
       /\ \A x \in Transfer :
            start[r] <= LedgerOf[x] /\ LedgerOf[x] <= swept[r] =>
              Booked(TxOf[x]) \/ LedgerOf[x] \in unread[r]
  /\ pc[r] \in {"commit"} \cup Announcing =>
       /\ swept[r] <= batch[r].through
       /\ \A x \in Transfer :
            swept[r] < LedgerOf[x] /\ LedgerOf[x] <= batch[r].through =>
              x \in batch[r].events \/ LedgerOf[x] \in unread[r]
  /\ pc[r] \in Announcing => \A x \in batch[r].events : Booked(TxOf[x])

SweepInv == \A r \in Run : SweepInvOf(r)

IInv == TypeOK /\ LockInv /\ SweepInv /\ CursorCoversBooks

\* When the node that serves events is never behind the one that named the head,
\* nothing goes unread.
LagInv == PeerLag = 0 => unserved = {} /\ \A r \in Run : unread[r] = {}

\* Why AnnouncedPerBooking holds: what a run has still to announce is booked and
\* was not sent yet, but for the payment whose turn it is.
AnnounceInv ==
  /\ \A t \in Tx : /\ sent[t] <= Attempts
                   /\ answered[t] \in {0, sent[t]}
                   /\ ~Booked(t) => sent[t] = 0
  /\ \A r \in Run : /\ tries[r] < Attempts
                    /\ fresh[r] # {} => pc[r] \in Announcing
                    /\ tries[r] # 0 => pc[r] = "post" /\ fresh[r] # {}
  /\ \A r \in Run : \A t \in fresh[r] :
       /\ Booked(t)
       /\ sent[t] = IF t = Turn(fresh[r]) THEN tries[r] ELSE 0
       /\ answered[t] = 0

-----------------------------------------------------------------------------
(* What documentation and comments say, and the code does not do.          *)

\* README: the indexer persists the transfer events addressed to the merchant.
\* Of two transfers in one transaction only one has a row.
OneRowPerTransfer ==
  \A x \in Transfer :
    LedgerOf[x] <= cursor => paid[TxOf[x]] = x \/ LedgerOf[x] \in gap \cup unserved

\* README: each insert writes its webhook delivery in the same transaction.  It
\* is announced after COMMIT: a run that dies in between, a failed INSERT of the
\* chat rows or Attempts unanswered POSTs leave it unannounced for good.
EveryBookingAnnounced ==
  \A t \in Tx :
    Booked(t) ~> (t \in queued /\ answered[t] # 0) \/ ~Booked(t)

\* drainEvents: a short page of a bounded window means that it is exhausted.
ShortPageIsTheEnd == unserved = {}

\* rollbackSyncToLedger: the purge is a rewind, not data loss.  It deletes the
\* merchant's attribution, which no later indexing restores.
AttributionSurvives == [][\A t \in Tx : reportedAt'[t] >= reportedAt[t]]_vars

\* runSync: payments past the head a run was given are purged before it
\* resumes.  Those an aborted run committed above the cursor are not.
NothingBeyondHead ==
  \A r \in Run : pc[r] = "sweep" =>
    \A t \in Tx : Booked(t) => LedgerOf[paid[t]] <= latest[r]
=============================================================================
