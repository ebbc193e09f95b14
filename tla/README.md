# Accensa: a model of the merchant back-office

TLA+ modules of this repository: the indexer and its event pager, the outboxes,
stock reservations, the settlement hook and the SDK that reports to it, receipt
anchoring with its public verifier, reconciliation, login, second factor, stores
and roles, refunds, the payment list and its reports, the chats, the checkout
and what keeps itself up to date in a browser. TLC checks each on small
instances; TLAPS proves the central properties of twenty-five of them for every
instance. `PROJECT.json` maps every definition to the source lines it stands
for, lists the runs, the hazards they are aimed at, and for each property a
plausible mistake in the code (a definition marked "Mutant of ..." next to the
one it replaces) under which TLC finds it violated.

    tlc -workers 2 -config MCIndexer.cfg MCIndexer        # a run
    tlapm Indexer_proofs.tla                               # the proofs of a module

Paths below are under `apps/web/src/` unless they start at `packages/` or
`scripts/`; `apps/web/components` and `apps/web/lib` are written so.

## 1. Inventory

### The system

    Stellar RPC --> event pager --> indexer --> payments --> anchoring --> ReceiptAnchor
        |                              |           ^  |      (wallet)       contract
        |                              |           |  |                        |
        |            webhook outbox <--+  settlement  +--> list, reports,   public
        |            chat outbox    <--+  hook <-- SDK    refunds, table    verifier
        +----------------> reconciliation <-----------+
    checkout --> reservations / stock <-- administrator
    login, second factor, stores, schema upkeep --- before every handler
    browser: wallet session, live updates, notification drawer, chats, widget

Everything persistent is in PostgreSQL, one set of rows per merchant, mostly
READ COMMITTED and often single statements. The web app runs as serverless
invocations: any of them may be killed between two statements, several of the
same route overlap, and nothing in memory is relied on (the live-update registry
and the dispute rooms, which are, live with one server). Coordination is by row
locks, unique keys, guarded UPDATEs and one advisory lock. In a browser, steps
interleave at every `await`, tabs share `localStorage` and cookies, and answers
come late, twice or never.

| Component | State | Operations | What is hard |
|---|---|---|---|
| **Indexer** `app/api/sync/route.ts`, `lib/insert-payments.ts`, `lib/db.ts` | `payments`, `sync_state`, advisory lock | scheduled run, manual run with cooldown, rewind, window insert, cursor write | overlapping runs, lagging nodes, budget stops, kills, several transfers in one transaction |
| **Event pager** `lib/event-pager.ts` | none kept | sequential and parallel sweep | concurrent windows that finish, stop or fail in any order; cursors that outrun their window |
| **Settlement hook and reporter** `app/api/hook/settle`, `packages/sdk/index.ts`, `retry.ts`, `settlement.ts` | attribution of `payments`, `settle_nonces` | sign, POST, retry; check age, claim nonce, write | lost answers, killed calls, repeats, a nonce table that is swept, clocks that differ |
| **Webhook outbox** `lib/webhooks/*` | `webhook_deliveries`, attempts | enqueue, stale reset, due query, claim, POST, record, requeue | overlapping workers with old snapshots, kills, failed statements, timeouts that arrived |
| **Chat outbox** `lib/notifications/chatNotifier.ts` | settings, `chat_notification_outbox` | save, enqueue, claim, dispatch, record | the same, without a stale reset |
| **Reservations** `lib/inventory/*` | items, reservations and their lines | reserve, commit, release, set level, expiry sweep | READ COMMITTED interleavings, lapse in mid-transaction, lock order |
| **Receipt anchoring** `lib/anchor.ts`, `lib/anchor-submit.ts`, `components/anchor-panel.tsx`, `packages/sdk/merkle.ts` | `receipt_batches`, proofs, the chain | preview, sign, record, serve a proof | three systems without a common transaction |
| **Public verification** `app/verify`, `app/api/verify`, `packages/sdk/receipt-anchor*.ts` | a form, a file, checks, the ABI registry | edit, drop a file, check, certify | the form changes while a check is under way |
| **Reconciliation** `scripts/reconcile-payments` | none kept | rebuild from the chain, compare | chain and table move between the two reads |
| **Login and sessions** `app/login`, `app/api/auth`, `lib/auth.ts` | nonces, sessions | challenge, sweep, verify | single use under overlap, nonces swept by others |
| **Second factor** `lib/auth/totp*.ts`, its routes and modal | enrolment, limiter, recovery codes | enrol, activate, disable, challenge | read and written in separate awaits |
| **Stores and roles** `lib/stores`, `lib/rbac.ts`, `app/api/roles`, proxy | organisations, tuples, active-store cookie | create, select, grant, revoke, check | a cookie that outlives its session |
| **Configuration and policies** `lib/db.ts` `ensureSchema` | schema, row-level policies | run by every request | policies dropped and recreated while others read |
| **Refunds** `components/refund-panel.tsx`, `lib/refund-submit.ts`, dashboard | panel, transaction, vault, marked set | preflight, sign, submit, poll, mark | confirmations that are lost or late |
| **Payment list and history** `app/api/payments`, dashboard, SDK `listOrders` | rows, cursors, page cache | list by page and cursor, walk, table, prefetch | ties at a page's edge, rows that come and go between pages |
| **Revenue** `lib/revenue-analytics.ts`, savings banner | none | breakdown, series, banner | edges of windows and buckets |
| **Pricing, tips, tax, coupons, split** `lib/pricing`, `lib/tax`, `lib/discounts`, checkout components | component state | price, change tip, place, coupon, share | order and rounding, effects after renders |
| **Live updates** `lib/sync-events.ts`, `hooks/useSyncEvents.ts` | registry of streams | register, broadcast, heartbeat, prune, abort | cleanup of a set that was replaced |
| **Notification center** `lib/notifications.ts`, hook, drawer | table, list and count in a tab | poll, read, dismiss | polls that answer after actions |
| **Dispute chat, secure chat** `apps/web/components/disputes`, `components/secure-chat.tsx`, `packages/sdk` | room and streams; transcript and key | append, relay, load; seal, store, reset | a message that arrives twice or over neither way; keys that change |
| **Wallet session** `context/WalletContext.tsx`, `lib/auth/sessionGuard.ts` | wallet, account, session, marker, cookie | change, logout, sign-in, sign | changes heard twice, each awaiting a logout |
| **SDK client, socket, widget, subscriptions** `packages/sdk/src` | cache; link and timers; frame messages; a subscription | read, clear; ping, drop, reconnect; pay; renew, charge, cancel | late answers, timers, charges that settle after a cancellation |
| **The rest** | little or none | | see section 6 |

### What makes each part correct

- Indexer: the cursor never passes a transfer that is not booked (or in a gap
  the run reports, or in a ledger a node served before it had closed it); a
  booked row keeps its on-chain columns; one booking announces a payment once, in
  at most three POSTs; a rewind moves books and cursor together; everything else
  is booked in the end.
- Pager: it reports a ledger swept only when every event up to it was handed
  over, in order, whatever the fetches do, and a sweep ends.
- Settlement: a dated report takes effect once; the SDK is told the truth; the
  newest report stays.
- Outboxes: one sender at a time; nothing is sent after it is settled; nothing
  waits for ever.
- Reservations: live holds never exceed stock, a hold's stock is there when
  drawn, a deadlock is broken and every request answered, a repeated checkout
  finds its hold when code and database sort the cart's SKUs alike.
- Anchoring and verification: a proof that is served verifies on the chain; a
  batch is recorded whole and for good; every payment is anchored; a verdict and
  the signatures beside it are of what was asked, and so is a certificate printed
  before the form is touched again.
- Reconciliation: agreement is reported only when books and chain agree.
- Login, second factor, stores, upkeep: a signed challenge is one session; an
  activation or removal was earned with a code of that enrolment; a request works
  within the scope of its own session; no merchant sees another's rows.
- Refunds, history, reports: what is marked was refunded; a walk returns each
  steady row once, in order; figures computed twice agree.
- Browser: the session follows the wallet; tables, drawers and outcomes end up
  showing what the server has; silence is noticed.

## 2. Modules

One module per component; an `MC` module composes several for a run and gives
constants. `_proofs` modules hold the theorems; those about machines of an `MC`
module extend it (`Services_proofs` extends `MCServices`, `Chain_proofs` extends
`MCChain`, `Browser_proofs` extends `MCBrowser`), and `MCOutboxes` and
`MCReservations` hold theorems of their own. What a
theorem quantifies over is a CONSTANT of the `MC` module, with its value in the
`.cfg`. No module uses a RECURSIVE operator.

| Module | What it is | Correspondence |
|---|---|---|
| `Payments` | the payments table under its SQL statements | `paid[t]` is the row's on-chain part, `reportedAt[t]` its attribution; `InsertRows`, `PurgeAbove`, `RecordSettlement` are the statements, `Chunk` and `Clash` the batched upsert |
| `Indexer` | `runSync` from lock to cursor, over `Payments` | one action per database call or RPC sweep step; `seen`, `start`, `swept`, `batch`, `fresh`, `tries` are locals of a run, `pc` the line it is at, a POST to the merchant included; `unread` and `unserved` remember ledgers a node answered for before it had closed them |
| `PaymentBooks` | abstract: a set of entries, closed through a ledger | `Indexer` implements it with `entries <- {booked}`, `closed <- cursor`, `lost <- gap` |
| `EventPager` | both sweeps page by page | `tasks` are the drains in flight, `given` what `onEvents` was awaited for |
| `LedgerSweep` | abstract: hand over events, move past a ledger when all up to it are handed over | `EventPager` implements it |
| `Settlement` | sender, hook, nonces and row | `sender[r]` is the SDK's retry loop, `call[c]` an invocation of the hook statement by statement, `taken` counts commits |
| `WebhookOutbox` | rows and workers | `worker[w]` holds the loop's locals; `ripe`, `stale`, `expired` are the three comparisons with the clock |
| `ChatOutbox` | rows, settings and workers | `orphan` remembers claims whose worker died |
| `WebhookPromise` | abstract: post while open, never after | both outboxes implement it |
| `Inventory` | requests as transactions | one action per statement; `rows` and `skus` are the locks, the other fields what COMMIT writes; a sweep locks its lapsed rows one by one, in any order; `BreakDeadlock` is Postgres rolling back one transaction of a cycle |
| `Merkle`, `Anchoring` | the receipt tree; panels, routes, contract | a hash is a number, hashing pairs two of them injectively; `panel[q]` is a panel's React state and, while `writing`, its record transaction |
| `Verification` | form, receipt files, checks, certificate, ABI registry | `check[c]` carries the form as submitted; `shown` is the page's verdict, `Certificate` what a download of the moment prints |
| `Reconcile` | one run of the tool over a moving chain and table, over `Payments` | `page`, `window` are the rebuild's cursors, `rebuilt` what it has read |
| `Login` | challenges, nonces, sweeps, verify, sessions | `post[p]` is a verify call between its statements |
| `TwoFactor` | enrolment, limiter, routes, modal | a request remembers what each of its awaits read |
| `Stores` | session, active-store cookie, tuples | the two forms of the permission check are two operators |
| `SchemaUpkeep` | the statements of `ensureSchema` on one table | `schema` is which keys and policies stand, `call[r]` the statement a request is at |
| `Refunds` | panels, transaction, vault, marked set | `flow[f]` is a mount of a panel, `tx[f]` its transaction on the chain |
| `PaymentQuery`, `PaymentHistory`, `DashboardTable` | the list route; the walk by cursor; the dashboard's table | `walk` is the SDK's or page's loop; `cache` the SWR cache by page |
| `Revenue` | breakdown, series, grouped query, banner | a state is an input, built row by row |
| `Pricing` | the loop of the pricing engine over every small input | a step is one turn of the `for` of `price()`, `left` the rules it has yet to come to; `PriceIsOfFirstRules` says what the price should be |
| `Checkout` | tip, tax, coupon and split, render by render | `mounted` are the components on the page, `told` what the tax line last reported; a rate is a fraction, a quotient rounds to whole units |
| `NotificationCenter` | table, route, hook | `fetch[t]`, `action[t]` are a tab's requests; list and count are read apart |
| `DisputeChat`, `SecureChat` | room, streams and hook; clients, transcript and component | `page[p]`, `client[c]` hold what the component has and awaits |
| `WalletSession` | one tab under a wallet | `handler[h]` is a change handler waiting for its logout |
| `LiveUpdates` | registry of streams and the tabs | a stream remembers the set object it joined |
| `ReconnectingSocket` | the SDK's socket | timers are countdowns; a subscriber told of a loss returns, unsubscribes or throws |
| `CheckoutWidget` | attempts, messages, timeouts, host | `toPage`, `toWidget` are the message queues; a callback of the page may throw; the page sends what it likes, requests it got included |
| `ClientCache` | reads, retries, cache | what the server holds is a version |
| `Subscriptions` | one subscription, renewal job, charges | time in days |

Abstractions common to all: a message, SKU or transaction is a model value or a
number; time is the set of comparisons the code makes with it; what an endpoint
answers is a choice; logging, formatting, tracing and parsing are left out. A
kill or a thrown error is an action of its own, counted by a bound (`MaxFaults`,
`MaxKills`) so that fairness has something to be fair about.

Two compositions are by argument rather than by product. `Indexer` reads windows
one at a time; that the concurrent sweep hands windows over in the same way is
what `EventPager` shows. `Anchoring` has the indexer's bookings and rewinds as
its environment, and `Indexer` the hook's writes (`ReportSettlement`), which
`Settlement` takes apart.

## 3. Runs

Besides `indexer`, a run checks several modules at once. Its MC module extends
one (the host) and instantiates the others over the variables `v1`, `v2`, ...;
`machine` names the module whose initial state was chosen, and every step is a
step of that module alone. So the run explores each module's state graph in turn,
and a property reads "while this machine runs". Such a property may state what
belongs together in two modules; the constants of each instance are in the MC
module or its `.cfg`. `Spec` of a module and the run over its instance check the
same definitions, those the proofs use.

| Run | Modules and instances | What it shows |
|---|---|---|
| `indexer` | a scheduled and a manual run, four transfers of three transactions (two in one) over five ledgers, windows of two, pages of one, retention of one ledger behind the head, nodes one ledger behind the chain and behind each other, two POSTs at most for a payment, two faults, one report | `CursorCoversBooks`, `AnnouncedPerBooking`, `BookedFieldsFrozen`, `PurgeRewindsCursor`; every step is one `PaymentBooks` allows (`ImplementsBooks`); under fairness everything is booked, in the gap or served short |
| `outboxes` | webhooks: two rows, two workers, one attempt; one row with two attempts; a chat message with a kill, a failed record, two changes of settings | `OneSenderPerRow`, `ClaimsAreHeld`; `WebhookPromise` kept by all three (`KeepsPromise`, `RetriesKeepPromise`); everything queued ends (`RowsAreSettled`) |
| `inventory` | carts of two SKUs that code and database sort differently, under an administrator; one SKU, one unit, holds of one tick, sweeps | `HoldsAreCovered`, `RetryFindsItsHold`, no request waits for ever, deadlocks being broken (`EveryCallEnds`); no overselling when a hold lapses in mid-transaction, and a reserved unit is there when drawn (`LapsesAreCovered`) |
| `chain` | the sweep, sequential and with two and three windows at once, nine events over seven ledgers; two panels and two payments under a fault, under a rewind, under both; the verifier with three files; a reconciliation of four transfers; every tree of up to seven leaves | `ImplementsSweep`, `SweepsEnd`; `ReceiptsVerify` (proofs served verify, batches are whole, a verdict and its signatures are of one form, a certificate bears what was checked while the form stands), `ReceiptsAreFinal`, `EventuallyAnchored`; `OkMeansAgreed`; `TreesVerify` (each leaf's proof verifies and no other does, a root is that of one run of leaves) |
| `services` | settlement: two reports of one payment, two calls, clock to 4; login, second factor, stores, upkeep, refunds, history, revenue, both chats, client cache, checkout, pricing, one instance each | `TakenOnce`, `OneSessionEach`, `ProofsAreEarned`, `ScopeIsOwn` (with `AccessFollowsSchema`: both forms of the permission check agree), `TenantsStayApart`, `MarkedWasRefunded`, `WalkIsExact`, `ReportsAgree`, `ChatsAreWhole` (`EachMessageOnce`, `ReadableTranscript`), `ReadsAreRecent`, `PricesAreRight` (`PriceIsOfFirstRules`, `CheckoutAddsUp`: among others, a confirmed split is within the balances and its legs are worth the order at the rates of both, or at what stands in for a missing one) |
| `browser` | wallet session, payment table, live updates, notification drawer, subscription, widget, socket | `OutcomesShow` (an attempt ends in one outcome; a second word only after a callback threw, and then an error), `MismatchEndsSession`, `CatchesUp`, `CancellationHolds`, `DeadAreReleased`, `SilenceIsNoticed` (an attempt ends; a silent link is replaced unless the subscriber threw or left) |
| `indexer_stall`, `inventory_lapse`, `anchor_twice`, `backup_codes`, `refund_failed`, `stream_lost` | one module each | violations of what the repository says, section 5 |

### Why the bounds are enough

- Two actors: every race found in the code is between two (cron and manual run,
  two workers, two requests, two panels, two tabs); a third only repeats one of
  them. Refunds have three flows, since the modal mounts two panels and may be
  opened again; live updates three streams, since a set must be emptied, replaced
  and cleaned up late.
- Indexer: five ledgers hold two whole windows and a cut one, a gap, and a
  rewind between; two transfers of one transaction fit in one statement of two
  rows or in two statements; two faults let one run be cut short and the next
  die. A node one ledger short of the announced head is enough to close a window
  early; a POST and one repeat stand for the three.
- Pager: the range is three windows and a part, so that a batch of two and of
  three are both followed by another; one ledger is split by a page, one event
  lies beyond the range.
- Settlement: retention 3 is the least that covers age 1, skew 1 and a call's
  life 1; the clock reaches 4, where a nonce has been swept.
- Outboxes: two attempts are one retry and one exhaustion; with two rows one
  attempt is enough to see them exchanged.
- Reservations: one unit makes two checkouts compete; two SKUs are the least a
  lock order needs, here `a` and `B`, which `localeCompare` and a byte-wise ORDER
  BY put in opposite orders. Lapses are in the instance of one SKU: a cycle of a
  sweep with a checkout or with another sweep is one of reservation rows.
- Anchoring: two payments give three selections, which overlap. Trees of up to
  seven leaves have an odd level at every height (sizes 3, 5, 6, 7); the theorem
  is for any.
- History: four payments, two with one timestamp, pages of one, two changes.
- Revenue: windows of 7 and 30 days and ages on both sides of a window's edge,
  of a week's edge and of now.
- Socket: interval 3, pong timeout 2, delays to 4: the timeout falls before the
  next ping, and the delay doubles once and is capped.

Deadlock is checked in `indexer` and `indexer_stall`. The composed runs and the
other violation runs say `CHECK_DEADLOCK FALSE`, since the system may stop there:
an outbox with nothing due, a checkout nobody touches, inputs whose evaluation is
the whole behaviour, or bounds that are used up. There "nobody waits for ever" is
stated by properties: `EveryCallEnds`, `RowsAreSettled`, `SweepsEnd`,
`EventuallyAnchored`, and those of `browser`.

### Fairness, and why the code justifies it

- Indexer: the chain goes on; the schedule comes back for ever and
  `pg_advisory_lock` queues its waiters (strong fairness of `AcquireLock` for
  scheduled runs only); a run that neither throws nor dies takes its next step.
  Nothing is assumed of manual runs starting, of reports, or of faults.
- Pager: requests are answered or fail.
- Webhooks: cron calls the route for ever and a call runs on; back-offs end;
  not every call spends its whole 8 s budget before it reaches a given row,
  which is strong fairness of `Send` and the one assumption on load. Chat: the
  same without the last.
- Reservations: Postgres grants a row lock asked for again and again (strong
  fairness of a request's next statement) and breaks a deadlock.
- Anchoring: an operator whose panel has something to do goes on, and starts
  over after an error. Nothing is assumed of a second signature after an error.
- Browser: the event loop runs timers that are due and handlers of answers that
  came; a request is answered or fails; SWR polls a visible tab. Nothing is
  assumed of the user, of broadcasts, or of a connection staying up.
- Subscriptions: days pass and the renewal job runs.

## 4. Proofs

All theorems are for any values of the constants, under the assumptions named in
the modules (TLC evaluates each in a run) and the hypotheses given here.

`Indexer_proofs`: `TypeCorrect`, `CursorCovered` (`[]CursorCoversBooks`),
`RewindsTogether` (`PurgeRewindsCursor`), `BooksRefined` (the indexer implements
`PaymentBooks`) and `BookedStays` (`BookedFieldsFrozen`), none with an assumption
on how far nodes lag. What a lagging node costs is set apart in `unserved`, the
ledgers the cursor passed on the word of a node that had not closed them;
`NothingUnserved` is that there are none when `PeerLag = 0`.

`CursorCoversBooks` is not inductive: it says nothing of what a run carries in
its locals to the cursor write. `IInv` adds `LockInv` (a run that is not idle
holds the lock, so no other run's write comes between) and `SweepInv` (the cursor
a run works from is still the cursor; what it swept is booked; the batch it holds
has every transfer of the ledgers it will move past). The cursor write then moves
to `swept`, all of whose transfers from `start` on are booked, those before
`start` are at or below the old cursor or enter the gap. The pages of a window
need the one arithmetic fact that a cursor's continuation loses nothing below the
end of the window (`Answer`, `Drain`) but ledgers the node has not closed, which
the run remembers (`unread`) and hands on with the cursor. A rewind
strikes what lies above the ledger it rewinds to and nothing else
(`RollbackStrikes`); together these are the steps of the books.

`AnnouncedInBounds` (`[]AnnouncedPerBooking`) has an invariant of its own,
`AnnounceInv`: what a run has left to announce is booked and was not announced,
but for the payment it is posting, which was sent as often as the run has tried
and not answered; and only booked rows count as announced. An upsert returns as
fresh only rows that were not there; the lock keeps other runs from striking rows
in between.

`Chain_proofs`, the pager: `SweptIsGiven` (every event of the ledgers `swept` has
passed was handed over) and `SweepRefined` (`Spec => ImplementsSweep`). The sweep
moves past a window when it is drained, so the invariant `PagerInv` needs two
facts beside `GivenInv`. `ReadInv`: a drain has read every event from its start
to its cursor, hence a drained one every event of its ledgers; a page is a prefix
of what lies beyond the cursor (`PageIsPrefix`), and a page short of `PageLimit`
or with an event past the window leaves nothing of the window behind. `BatchInv`:
the windows in flight follow one another from `swept + 1`, so handing over the
next of them in turn closes no ledger of a later one. Hypothesis:
`PagerAssumption` (events in ledger order, `EndLedger <= HeadLedger`).

`WebhookOutbox_proofs`: `OneSender`, `ClaimIsKept` and `PromiseIsKept`
(`Spec => KeepsPromise`). `ClaimInv` is `OneSenderPerRow`, `HeldRowsAreClaimed`
and `HoldsOnce` (a worker does not hold a row both as a claim and as the row it
sends). Only `Claim` adds to what a worker holds, and its guard says the row is
pending, which by `HeldRowsAreClaimed` is in nobody's hands; the stale reset takes
only rows nobody holds because a worker lives for 30 s and a claim turns stale
after 60 (`MinutePasses`). `PostsInv` adds that a row reported delivered was
posted, which is what the refinement of `WebhookPromise` needs.

`MCOutboxes`, the chat outbox: `AttemptsAreBounded` (`TypeOK`), `HandsHoldClaims`
(`ClaimsAreHeld`) and `ChatPromiseIsKept` (`Spec => KeepsPromise`), under
`ChatAssumption`. `ChatInv` is what the webhook proof needs without its stale
reset: `OneHand` (a row is in one worker's hands, or lost with a worker that
died), `Delivering` (its status says so), `LostForGood` (a lost claim is nobody's
again, there being no reset) and `PostsInv`; `Bounded` carries the number of
attempts, which a worker computes from a snapshot another may have outdated.

`Inventory_proofs` has two invariants. `IInv` is `LocksAreExclusive` (a row being
inserted cannot be locked and is guarded by its unique key), `RowsAreThere` and
`ConflictHolds` (what a retry was compared with is still the row when the retry is
answered). It gives `RowsHaveOneHolder` and `RetriesFindTheirHold`: for any two
orders, a retry is told of its hold only when the lines it was compared with, one
by one, are those of the hold, and of a conflict only when its cart is another
one or one that code and database sort differently (`SameLines`, `SortedAlike`).

`StockInv` builds on it. `Owed(s)` is what a SKU is still owed: the quantities of
the holds that are live or being drawn, less what their commit has drawn of that
SKU already. `Covered` says `Owed(s) <= stock[s]`, that a reserve which has found
its first SKUs enough still finds so (nobody else can place a hold of a SKU whose
row is locked), and that a level about to be written covers what is owed; `Sound`
ties each transaction's `pc` to what it has locked, counted and drawn
(`CountsOut`: a hold lapsed when it was counted is not owed when its counter
commits). Sums over a set of holds are compared as sizes of piles (`Pile`), so
that adding a hold, drawing one line and losing a lapsed one are facts about
finite sets. The results are `HoldsCovered` (`[]HoldsAreCovered`),
`DrawsAreServed` (`ReservedStockIsThere`) and `CountedOut`
(`CountedOutStaysOut`); the first two need `NoLevelMeetsLapse`, since a level
written while a hold lapses under its own commit does oversell (run
`inventory_lapse`).

`Chain_proofs`, the tree: `TreesAlwaysVerify` (`[]TreesVerify`), from
`ProofsVerify`, `OnlyLeavesVerify` and `RootTellsLeaves`, which are about trees of
any size. A level of a tree is a function of the one before. tlapm cannot use the
library's induction theorems here, so `CountUp` proves induction over a set from
the least element that is missing (`LeastElement`), and `Iterates` that a function
defined from the number before exists. Going up, a node's hash is what its proof
has reached so far; going down, equal roots have equal children because `Combine`
is injective and stays above the leaves.

`Chain_proofs`, the verifier and anchoring: `ReceiptsAlwaysVerify`
(`[]ReceiptsVerify`) and `ReceiptsStay` (`ReceiptsAreFinal`), under
`MerkleAssumption`, `AnchoringAssumption` and `VerificationAssumption`, which
are types. `AnchorInv` adds to the property what a record transaction has checked
and written so far, and that two of them never write one row (`WritesSound`); that
a recorded batch has its root on the chain under the id of its row
(`RowsAnchored`); and that a payment's proof is the one of a recorded selection
(`PaymentsRecorded`). The tree enters in one place: two selections with one root
are one selection (`RootsTell`), so a proof that was served under a batch id is of
the batch whose root is there. `VerdictInv` says of each check under way that what
it read of the contract, and what it was answered, is about the form it carries,
and the same of the check a verdict on the page came from. A certificate prints
the form of the moment; it bears what was checked while that form has the batch
and leaf of the check (`StillAsked`).

`Chain_proofs`, the reconciliation: `AgreementsAreTrue` (`[]OkMeansAgreed`), under
`PaymentsAssumption` and `ReconcileAssumption`. `AuditInv`: whatever a page ran
into past the end of its window, every transaction of the ledgers behind the
window was rebuilt, each as its first transfer; within a window, those up to the
page's last event. It needs that the transfers of one transaction are in one
ledger.

`Services_proofs`, settlement: `ReportsTakeEffectOnce`, `SdkIsToldTheTruth`,
`NewestStays`, under `SettlementAssumption` (`Retention >= MaxAge + Skew +
CallLife`, and the rest types) and `"nobody" \notin Reports`. The age is checked
before the nonce is claimed and the nonce table is swept, so the argument is about
time: `YoungInv` (a call past the check knows how young its report was when it
arrived), `CallsInv` (the platform ends a call within `CallLife`), `OneClaim` (at
most one call holds a signature's claim) and `NonceInv` (the nonce of a report
that took effect is there as long as a call that could take it again can be
alive).

`Services_proofs`, the other machines. Their inductive invariants stand at the end
of their modules. For each there is a lemma that the module keeps its property
(`LoginHolds`, ...), one that `MCServices` steps as that module while it is the
machine (`LoginRuns`, ...), and a theorem with the property as the run has it:

| Theorem | Property | The invariant, and what it needs |
|---|---|---|
| `ChallengesServeOnce` | `OneSessionEach` | `LoginInv`: the row of a challenge is there until it is spent or too old for any call past the check (`RowsInv`, from `SweepAge >= TTL + CallLife`); who spent it was alone (`SpentInv`); who is told "reused" was beaten by another (`ReusedInv`) |
| `ProofsAreAlwaysEarned` | `ProofsAreEarned` | `EarnedInv`: the secret a request compares with was stored at some moment since it began |
| `ScopesAreOwn` | `ScopeIsOwn` | `StoresInv`: a store named in a token or in an answer on its way is of the organization beside it; names of organizations are not those of stores and groups |
| `TenantsApart` | `TenantsStayApart` | `Protected`: what a request has switched on nobody switches off |
| `MarksAreTrue` | `MarkedWasRefunded` | `CarriedOut`: what the chain carried out the vault knows of |
| `ReadsStayRecent` | `ReadsAreRecent` | `CacheInv`: whatever is held or kept knows when it was answered and after which drop of the cache it was asked for |
| `HistoryIsWhole` | `WalkIsExact` | `WalkInv`: what was collected descends, the cursor is its last payment, and a payment that was there all along is collected or still behind the cursor; from `PaymentHistoryAssumption`, which makes `(ts, id)` a strict order |
| `PricesStayRight` | `PricesAreRight` | `PriceInv`: the loop takes the rules in their order, so the value of a kind is that of the first rule of it that matched (`FirstCounts`), and the floor the highest. `SumsInv`: what the page was told is the tax of what it shows, a tip is of one sort, a discount on offer is within the order it was given for; the legs of a split that was confirmed are worth the order at its rates, each rounded once (`SplitCovers`, `TokensAreWorth`), and the XLM asked for lasts through the slippage (`MostTokensLast`) |
| `ReportsAlwaysAgree` | `ReportsAgree` | `RevenueInv`: the payments are rows dated around one moment; the rest is about sums and buckets, below; from `RevenueAssumption` (a fixed range is short enough to be drawn by days, a card's fixed fee covers the network's, months begin with days) |
| `ChatsStayWhole` | `ChatsAreWhole` | `RoomInv`: a page whose stream holds is in the set the room sends to and has or will have all sent since it joined; `SecureInv`: a held transcript is of the wallet that unlocked it, and what is being sealed is not in it yet |

The list of a page is the one place where `WalkIsExact` needs more than an
invariant. `Sorted` puts a row where as many rows are ahead of it as are newer,
which the prover can reason about as sizes of sets: a newer row has fewer ahead
(`AheadGrows`), so each place has its row (`SortedSorts`), and a page is the rows
next behind the cursor with none left out between (`PageFacts`).

`ReportsAgree` needs no invariant to speak of but a theory of sums. `Total`, the
community modules' fold, adds up what a function has in an order it chooses.
`AnyFirst` shows that the order makes no difference, from which a sum is the sum
of a part and of the rest (`TotalParts`) and the sum of the sums of its groups
(`TotalByKey`). The steps are by induction over a set (`GrowsTo`, from
`CountsUp`, which rests on the least counterexample), since the library's
induction theorems cannot be used here. With that, the breakdown folded from any
groups that tell two classes of payments apart is one formula of the payments
(`BreakdownIs`, `SaysOf`): both the browser's groups and Postgres' are such
(`RawSays`, `RowsSay`). A chart shows the payments of the days that have a place
on it (`ChartSums`); a day within the range has one exactly if it is not after
the last bucket (`OnChart`), and a day out of the range has none (`OutOfRange`),
for days and for weeks that begin on any weekday (`BucketIs`, `BucketOrder`).

`Browser_proofs`, over the same steps without fairness (`MCSafe`):
`OutcomesAlwaysShow` (`[]OutcomesShow`) and `CancelledEndsStay`, which is the
action half of `CancellationHolds` (`EndsStay`; that the end then comes is
liveness). For the notification drawer, `CenterInv`: a fetch that a tab began
after an action ended has nothing of what the action did (`FetchIsLater`), and an
action drops every older one when it revalidates; a tab whose last fetch failed
promises nothing. For the widget, `WidgetInv`: an answer on its way is what the
wallet made of the request it names (`AnswersTrue`); in what the page heard and
what is on its way to it together (`Heard`) an attempt has one outcome and at
most one error behind it (`Once`), the outcome is that of a wallet request of its
own or a timeout (`Fair`), and an error that follows one follows it in every
channel and is of an attempt whose callback threw (`Behind`, `BehindBoth`),
whatever is queued, sent back, timed out or rendered again. For the subscription,
`BillingInv` is only types: that a charge which settles after a cancellation
moves no end is a matter of the guards of each step.

`MCOutboxes` also states for its run what the two outboxes prove of themselves:
`ChatClaimsHeld` and `PromiseIsKeptByBoth`. `MCReservations` has `LapsesCovered`:
without an administrator `NoLevelMeetsLapse` holds by itself, so `HoldsCovered`
and its companions apply with holds that lapse.

Only model-checked, and why:

- Liveness (`EventuallyBooked`, `RowsAreSettled`, `EveryCallEnds`, `SweepsEnd`,
  `EventuallyAnchored`, and of `browser` all but the two above): fairness is about
  ENABLED, which the prover does not do.

- `OneWayOn` of the socket (a socket or a timer for the next one, never both, and
  neither only after a subscriber threw), a part of `SilenceIsNoticed`: it has no
  theorem yet.

Every other invariant and every action property that a passing run checks has one.

## 5. Where code and documentation disagree

Six runs end in a violation of something the repository says.

- **Two transfers of one transaction** (`indexer_stall`, `lib/insert-payments.ts:93`).
  In one INSERT they make Postgres refuse the statement; every run over that
  window fails and the cursor does not move until the window leaves what is
  retained. `insert-payments.ts:40` says an event must not stall the batch.
- **A level below live holds** (`inventory_lapse`, `reservationManager.ts:238`).
  `setStockLevel` does not count a hold that lapsed while its commit is under
  way; the commit then draws the stock below what other live holds were promised.
- **One selection anchored twice** (`anchor_twice`, `components/anchor-panel.tsx:121`).
  A record call that failed, or a confirmation that came late, leads to a second
  `anchor_batch` of the same set; the unique key is on the database row only.
- **Recovery codes that cannot be used** (`backup_codes`, `lib/auth/totp.ts:211`).
  They are made as AAAA-BBBBBB, the route takes AAAA-BBBB. After an enrolment was
  switched on, a code it handed out is refused at the challenge, or for switching
  the factor off, as malformed.
- **A refund reported failed that pays** (`refund_failed`, `lib/refund-submit.ts:92`).
  The transaction is sent, one poll for its confirmation answers and the next
  throws: the refund ends in `failed` although the transaction is on its way.
- **A tab that hears nothing more** (`stream_lost`, `lib/sync-events.ts:101`).
  The late cleanup of a pruned stream deletes the newer set of its merchant.

### Known gaps

Met while modelling, and true of the code; the properties above are stated so
that they hold beside them, and say so where they do. The first look after a
change of the code should be at these.

Indexer and books:
- Properties defined in `Indexer` and checked by no run, since each is false as
  soon as one fault happens: `OneRowPerTransfer`, `EveryBookingAnnounced`,
  `AttributionSurvives` (a report that arrived before a rewind is deleted with its
  row, `db.ts:743`, and refused when repeated), `NothingBeyondHead`. With
  `PeerLag = 1`, `ShortPageIsTheEnd` fails too: the pager takes a short page for
  the end of a window although the node that sent it may be behind the one that
  named the head (`event-pager.ts:103`), and the run passes those ledgers without
  a word.
- Announcing: a POST that timed out or was answered 5xx is sent again although it
  may have arrived, up to three times (`sync/route.ts:352`); a run killed between
  COMMIT and the webhook tells nobody (323), there being no outbox row to announce
  from; a failed INSERT of the chat message is swallowed (334), and a chat row
  outlives the payment a rewind deletes.
- Reconciliation: without `--from-ledger`, rows older than the look-back are
  "missing on chain" (its README and `reconcile.yml:54` promise exit 0 when
  reconciled); the query has no merchant filter; rows indexed after the range was
  fixed are reported, and a row only staged is "mismatched".
- Settlement: `matchedExistingPayment` is false also for a newer row; undated
  reports are accepted again after 30 days, and the demo merchant's carry neither
  nonce nor time; the SDK reports failure when the answer of a committed report
  is lost for the last time.
- Payment list: `fetchAllPayments` asks for pages of 1000. `/api/routes` reads
  `limit + 1` groups, so "(other)" holds one group although line 73 promises the
  totals, and converts a decimal NUMERIC with `BigInt`, which throws.

Outboxes, stock, anchoring:
- Reservations: the code sorts SKUs by `localeCompare` (`reservationManager.ts:95`),
  the database by the collation of its `ORDER BY sku` (372), and the validator
  admits both cases. Where the two differ, a repeated checkout of the held cart is
  told of a conflict, and a reserve and a commit lock stock in opposite orders;
  so may a sweep and a checkout lock reservation rows (306, 333), or two sweeps.
  Postgres then rolls one of them back, and nothing repeats it.
- `AtMostMaxAttempts` and `BackoffRespected` of `WebhookOutbox` fail with a lost
  statement or two workers; only the 50 oldest due rows are read. A chat claim
  whose worker died stays claimed (`orphan`).
- `EventuallyAnchored` and `BatchIsWhole` hold up to a rewind that deletes
  anchored payments (`forgotten`): the selection is "already recorded" and the
  rows never proved again.
- Verifier: a verdict stays under a form that was changed after it, and a
  certificate printed then names the new batch and leaf beside the old result
  (`ReceiptProofViewer.tsx:27`, `verify/page.tsx:278`). The file
  parser refuses the empty proof of a batch of one, and restore functions called
  out of order bring back an old ABI registration.

Accounts:
- Schema upkeep: a request may lose sight of its own rows, fail on CREATE POLICY,
  or fail on ON CONFLICT while another request recreates policy or key.
- Stores: settings saved in a tab that shows store A go to the active store B; a
  failure leaves a store without owner; the last owner can be revoked; POST
  `/api/roles` writes Postgres only.
- Second factor: the modal never activates, opening it disables an active
  enrolment, a concurrent redemption of a recovery code is lost, no route reads
  the challenge token.
- Wallet session: overlapping changes leave `account` stale; a sign-in during a
  pending logout loses its cookie. The connect dialog's adapters share one kit,
  so a network check may ask another wallet; a restore may replace a choice just
  made.

Money:
- Refunds: a submission whose answer is lost is reported failed as well, whether
  it reached the network or not (`FailedIsFinal` is about polls only); the page
  mounts two panels; preflight and submission may use different
  vaults; two tabs overwrite each other's marked set.
- Pricing: the engine's comments (`engine.ts:39`, 160) say the first matching rule
  of each kind applies and later ones are ignored; of two floors the code takes the
  higher, and a per cent markup and a fixed one are one kind.
- Split: without a rate for XLM a price of $0.10 is assumed (`split.ts:146`), and
  `suggestOptimalSplit` leaves the rate of USDC out, so that its suggestion may
  not cover the order.
- Coupons are never counted as redeemed, and an applied total goes stale when the
  order changes; the suggested split rounds half up and may exceed the balance;
  gas analytics passes fees as bigint to a parser that throws on them; the
  savings banner's "exactly the sum" holds while the protocol fee stays below the
  card's fixed fee, which the model assumes, and covers the loaded page only.
- Subscriptions: the renewal job renews what is past due; repeated failures
  extend the grace period; a late success revives a canceled subscription until
  the next job.
- Widget: `initWidgetHost` does nothing with a request to pay, so without a
  listener of the page's own every payment times out; a success after the timeout
  is dropped and a second click may pay again; `cancel` leaves the attempt running.
  A callback of the page that throws makes an error follow the outcome it was
  told (287, 301). Any message with an attempt's id ends it, and one of another
  type tells the page nothing; without a frame around it the widget hears its own
  request, answers itself so, and loops.

Browser and SDK:
- Socket: a pong timeout not below the interval never fires. `onDisconnect` is
  called before the timer is armed (`socket.ts:149`): a subscriber that throws is
  never connected again, although `realtime/client.ts:79` says a throwing consumer
  "must not tear down the subscription"; one that
  unsubscribes in it leaves a timer behind that `close()` (said to cancel every
  one) did not see, which then connects nothing.
- Client: a read under way at `clearCache` is stored after it and served until it
  expires (`client.ts:119` says otherwise); `fetchWithRetry` retries a
  `TimeoutError`, which its comment excludes.
- Dispute chat: messages between history and subscription are not fetched, a lost
  answer makes a duplicate, a restart changes the salt, and the cleanup has the
  flaw of `stream_lost`. Secure chat: two tabs overwrite each other's transcript;
  after a reset the status says unlocked without a key.
- Notifications: unread ones beyond the newest 50 are counted and cannot be
  listed; list and count may disagree for one poll.

## 6. Not modelled, and why

- Inside modelled components: fees, simulation and prompts before a signature;
  texts, labels, pictures and PDF; the arithmetic of codes, hashes, signatures and
  encryption (a signature is what it was made over, a sealed message opens with
  its key); input validation in front of a handler.
- The deliver route's order of rows is left open (`Limit` is never short of
  rows). A window so busy that one budget cannot read it is not in the runs: they
  bound the number of budget stops. The PUT of several stock levels is a loop of
  transactions; each is modelled, the loop is not. No run models a merchant's
  profile and contract addresses: single statements.
- Exchange rates: a cache with a lifetime, which `ClientCache` models where it is
  harder. Security alerts: sent once, never retried. Rate limiters: counters that
  only refuse a call (that of the second factor is in `TwoFactor`). Shard router:
  a pure map.
- SDK offline store: its push to the server is a comment, and the on-chain
  dispute call a placeholder: no protocol yet. Builders and decoders of
  transactions and events: conversions without a state; `split.ts` is in
  `Checkout`. Shipping tracking and fraud score: adapters and a pure score.
- The pages of the dashboard, onboarding, branding, documentation site and demo
  merchant, which are most of the repository's lines: forms and layout over the
  requests modelled here. The webhook log page reads and calls the requeue that
  is in `WebhookOutbox`.

## 7. Plan

Done: the core in order of importance (payments, indexer, books, outboxes,
reservations, anchoring, pager, pricing), then the settlement hook with the SDK's
retry loop, login, second factor, stores, schema upkeep, refunds, list and
history, revenue, the browser's sessions and live data, chats, checkout, widget,
client and subscriptions, verification and reconciliation. Proved: the invariants
and action properties of the runs `indexer`, `outboxes`, `inventory`, `chain` and
`browser` and `services`, with the four refinements.

Left, modelling: the wallet connect dialog and its adapters; the analytics of
routes; the peer-to-peer chat; rate limiters shared by instances; a product of
`Indexer` and `Anchoring` over one payments table.

Left, proving: `OneWayOn`. The bound on a proof's length
(`MAX_PROOF_LEN`, 32) is not modelled: a batch has at most 1000 leaves, and a
proof one hash a level.
