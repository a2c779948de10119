# Fiber MerchantOps in TLA+

Fiber MerchantOps lets a merchant take payments over the Fiber network: it creates payment
intents, watches their invoices at a Fiber node (`fnn`), issues receipts, keeps an append-only
ledger, announces everything by signed webhooks and exports reconciliation files.  This directory
holds its TLA+ specifications, the TLC configurations that check them on small instances, and
TLAPS proofs of the properties that matter most.

Paths are relative to the repository; `api/` stands for `apps/api-server/src/`.

## The system

| part | state | operations | what makes it correct |
|---|---|---|---|
| lifecycle (`packages/payment-intents`) | none: tables | transition check, adapter status to intent status | only legal moves are taken |
| Fiber adapters (`packages/fiber-adapter`) | real: none, the node holds the invoice; simulated: a map in the process | create an invoice, report its status, demo marks, lazy expiry | a report never contradicts the invoice; a paid invoice stays paid |
| creation (`api/services/payment-intent-service.ts`, `idempotency-service.ts`) | `PaymentIntent`, `IdempotencyRecord` rows | `POST /v1/payment_intents` | one intent per order and key; a retry is safe |
| status tracker (`api/services/payment-status-tracker.ts`, `receipt-service.ts`) | `PaymentIntent.status`, `Receipt`, `LedgerEvent`, `WebhookEvent` rows | refresh, applyPaid, applyNonPaid | an intent is settled once and stays settled, and everything that announces it says the same |
| status poller (`api/workers/status-poller.ts`) | reentrancy flag | tick | settlements are noticed without a client |
| demo endpoints (`api/routes/demo.ts`) | the simulated invoice | mark-paid, -expired, -failed, then refresh | they end up in the same lifecycle |
| webhooks (`api/services/webhook-*.ts`, `api/workers/webhook-worker.ts`, `packages/webhook-engine`) | `WebhookEvent` rows, reentrancy flag | queue, sweep, attempt, record, replay | every event is delivered or given up after four attempts; a delivery is recorded once |
| webhook signatures (`packages/webhook-engine/src/signer.ts`, `verifier.ts`) | none | build a header, verify one | what verifies was signed in time with this secret; what was signed in time verifies |
| merchant demo (`apps/merchant-demo`) | orders, seen event ids and the log of webhooks, in memory | place an order, receive a webhook | an order is fulfilled once, and the log says so |
| shop page (`apps/merchant-demo/src/html.ts`) | in the browser: last answer, tab, filter, page, open drawer | poll, navigate, filter, turn pages | it shows the shop as it is, in the end |
| books (`api/services/reconciliation-service.ts`, `refund-service.ts`) | `LedgerEvent`, `WebhookEvent` rows | refund, adjustment, export | records agree although three reads make them |
| ledger (`packages/ledger`, `api/services/ledger-service.ts`, `api/lib/clock.ts`) | `LedgerEvent` rows | append, list | append-only, in order |
| merchants, receipts, health, node, serializers, config | immutable rows, or none | reads and inserts | |
| admin UI (`apps/admin-ui/src`) | in the browser: selected merchant, page, feeds with loads in flight, actions in flight, locked buttons, table page | navigate, switch merchant, load, act, turn pages | what is shown is what is selected, and whole; buttons are locked only while something is on its way |
| SDK, CLI | none | HTTP calls | |

How they interact.  One Node.js process runs the API, the poller and the webhook worker; they
interleave at every `await` and share the database.  A refresh (from a client, a demo endpoint or
the poller) loads the intent, asks the adapter, and then writes status, receipt, ledger and
`WebhookEvent` rows in one transaction.  The worker lists the due rows and posts them one after the
other to the merchant; the merchant verifies the signature and de-duplicates by event id.  Exports
read what all of them wrote.  The admin UI and the shop page poll; nothing orders their answers.

What is hard.  A refresh acts on a snapshot that is old by the time it writes, and writes by id
alone.  A create request spans two transactions with a network call in between.  A delivery attempt
is recorded from the copy of the row the sweep made.  The process may stop between any two of these
steps, and a simulated invoice or the demo shop's memory does not survive that.  Requests time out
while still on their way.  A browser's loads overtake each other, and its pages are left, and its
selections changed, while they are out.  `PROJECT.json` lists these as hazards, each with its line and properties.

## The modules

| module | models |
|---|---|
| `Lifecycle` | the status registry, the transition table, the maps between adapter status, intent status, ledger event and webhook type, and the filter of a refresh |
| `FiberAdapter` | the invoice in either mode: what a query sees and reports, lazy expiry, demo marks, the node's moves |
| `PaymentIntents` | create requests, refreshes, demo marks, the poller, the node and restarts over the database |
| `Settlement` | the abstract promise: an intent is opened, its invoice paid, and it is settled once, for ever |
| `MerchantDemo` | the demo shop: orders, seen events, the handler |
| `WebhookDelivery` | webhook rows, sweeps, attempts, outcomes, replays, late requests, restarts, together with the shop |
| `MerchantOps` | `Settlement` and `WebhookDelivery` composed: from the payment to the fulfilled order |
| `Books` | refunds, adjustments and exports on top of `PaymentIntents` |
| `Signature` | the signature header and its verification |
| `Storefront` | the receiver with its log in front of `MerchantDemo`, and the shop page |
| `DataTable` | which rows a page of a table shows, and how the page number moves |
| `AdminConsole` | one browser tab of the admin UI |
| `MC*` | small instances for TLC |
| `*_proofs` | theorems and their proofs |

`PaymentIntents` extends `FiberAdapter`, which extends `Lifecycle`; `WebhookDelivery` and
`Storefront` extend `MerchantDemo`; `MerchantOps` extends `WebhookDelivery` and `Settlement`;
`AdminConsole` and `Storefront` extend `DataTable`.  `Books` extends `PaymentIntents` and is proved
to refine it; `PaymentIntents` is shown to implement `Settlement`.  Operators commented
as *faulty variant* are the code with a plausible mistake; they are used by no specification, and
show that the properties can fail.

**State and code, `PaymentIntents`.**  `status`, `ledger`, `outbox`, `receipts` and `idempotency`
are the tables, per intent.  A request inserts at most one intent under a fresh id, so the intent is
named by its request.  `ledger` and `outbox` hold what creation and settlement write; delivery
entries are in `WebhookDelivery`, refunds in `Books`.  `invoice` is the state at the node, or in the
simulated adapter.  `create[c].pc` is how far `PaymentIntentService.create` got: `insert` (its first
transaction is next), `invoice` (the adapter call), `promote` (the second transaction).
`call[r]` is `PaymentStatusTracker.refreshIntent`: `query` after the load, with the status that was
loaded, `apply` after the adapter answered, with the target it decided on.  The poller is a caller
like any other, with `polling` its reentrancy flag and `todo` the listed ids.

**State and code, `WebhookDelivery`.**  `row` has the four columns the worker uses; `nextRetryAt` is
null, in the future or reached.  A sweep holds the copies that `deliverDue` listed, and `at` the one
being attempted: `sent` while the POST is out, `succeeded` or `failed` until the outcome is recorded.
`late` is the set of events with a request the server gave up that may still arrive, any number of
times until it is lost.

**State and code, `Books`.**  An export holds the rows as `findMany` returned them, the two sets that
`Promise.all` fills in either order, and the records.  `after`, the exports already answered when
this one began, is history.

**State and code, `Settlement` and `MerchantOps`.**  `PaymentIntents` instantiates `Settlement` as
`Money`: `opened` is the set of promoted intents, `paid` of those whose invoice the adapter holds as
paid, `issued` of those with a receipt, `announced` of those with a `payment_intent.paid` webhook.
All four are functions of the tables and the adapter, so no history is added.  Only a simulated
adapter may `Forget`.  `MerchantOps` puts this promise in the place of the server and queues an
intent's webhooks in the step that opens or settles it, as `PaymentIntentService.create` and
`applyPaid` do in their transactions.

**State and code, `Storefront`.**  `log` is what `OrderStore.logEvent` keeps; `shown` is the orders
and events the page's script holds, `view` its tab, filter and page number, `drawer` the details as
last rendered, and a member of `polls` one run of `poll`, whose two requests are answered
separately.  A header is the sequence of its parts, and a signature is what it was computed from.

**State and code, `AdminConsole`.**  `feed[f]` is the `data` and `error` of a `useAsync`, and
`loads[f]` the loaders that have not returned, each with the key it was started for and what its
requests were answered so far.  A mounted page has its feeds and no others.  `posts` are the actions
in flight (`heard` while the page that started them is mounted), `busy` the rows or buttons they
lock, `tablePage` and `narrowed` the page and filter of a list.  Of the server only the set of
settled intents is kept: what one transaction writes together, three requests may read apart.

**Abstractions.**  A transaction is one step, because SQLite serialises writers.  A failed
transaction, adapter call or listing is a step that changes nothing.  A request body is a model
value and its hash is injective.  Keys and merchant ids are sequences of characters, because how
they are joined matters.  Merchants never change, so looking one up is folded into the step around
it.  The node always returns a payment hash with an invoice.  Time is not modelled: an invoice may
lapse whenever it is looked at, a retry falls due by a step of its own.  The rows of one listing are
taken in any order.  In the browser, a handler and the rendering after it are one step; texts,
sorting and layout are left out, and a search box narrows a list as its filter does.

## The runs

| run | instance | checks |
|---|---|---|
| `settle_race` | real mode, 1 intent, a refresh and the poller, 2 exports, 1 refund, 1 restart | types; an intent is paid at most once, with all its announcements; a receipt means a paid invoice; the status is backed by ledger, webhook and receipt; creation precedes settlement and is never repeated; the promotion undoes nothing; exported records agree with themselves and never shrink from one export to the next |
| `demo_restart` | simulated mode, 1 intent, 2 callers and the poller, 2 restarts | the same for invoices that demo endpoints drive, that lapse, and that restarts forget; every step is one that `Settlement` allows |
| `create_race` | 3 create requests over 7 possible requests, 2 merchants, 1 restart | one intent per order and per key; a 200 is for the request's own intent; an answered request's retries get that intent again |
| `poller_alone` | 2 intents, no other caller, 1 restart, fairness | settlements are all noticed, and announced once |
| `delivery` | `MerchantOps`: 2 events of one order, 2 sweeps, 1 replay, 1 restart | rows are consistent; delivered once; delivered means handled; fulfilled once; sweeps do not overlap and their copies are fresh; the order shows its settlement; what is fulfilled was paid |
| `give_up` | 2 events, one without an endpoint, 1 replay, 1 restart, fairness | given up after four failures, and exactly four without a replay; every event ends |
| `console` | 2 merchants, 2 intents of the first, one row a page, 2 loads a feed, 2 actions in flight, 2 clicks, fairness | types; no dead buttons; no half of a settlement; no empty page; every feed catches up with the server and the selection |
| `shop` | 1 order and event, 8 requests, 2 log entries, 2 polls in flight, 1 restart, fairness | only signed bodies are looked at, and no genuine one refused; the log counts the fulfilments; tabs keep a page with rows; page and timeline catch up |

Runs that are expected to be violated, because the code does something else than it says:

| run | what happens |
|---|---|
| `terminal_moves` | a refresh that saw the payment in flight writes `processing` over `paid`; the intent then stays `processing`, as each later settlement wants a second receipt and is rolled back.  Overlapping refreshes are the only cause: `SerialRefreshesHold` |
| `retry_conflict` | a create request whose invoice failed is repeated and answered 409.  Once it was answered with an intent this cannot happen: `AnsweredRetriesReplayHolds` |
| `key_collision` | two merchants share an idempotency record.  It takes a merchant id with a colon: `KeysArePerMerchantHolds` |
| `replay_dead_letter` | a replay during the fourth attempt is overwritten by it, and the event dead-lettered without a new attempt.  Such a replay is the only cause: `DeadLetterEarnedIfReplaysWait` |

**Bounds.**  The races are between the holder of an old snapshot and whoever writes meanwhile:
`settle_race` has one such pair (the proofs cover any number of callers), `demo_restart` one caller
more.  Intents share nothing but the two unique indexes, for which `create_race` has three requests:
a first, its rival and a replayer.  A restart count of one puts a crash at every point; the simulated
adapter gets a second one because forgetting changes what later steps do.  Retries are bounded by the
code's own four attempts, so an event's whole schedule is explored, before and after a replay.  Two
sweeps are enough to overlap, two exports to compare; an adjustment takes the same steps as a refund.  In `console` two loads of a feed overtake each
other, two clicks leave one page (or merchant) behind for another while the first one's loads and
actions are out, and one row a page makes a second page vanish; the two list pages left out of
`Visited` run the same code as the one that is in, and the proofs include them.  In `shop` the
tolerance of one second has clocks on both sides of either edge, `MaxLog` allows a fulfilment with
its duplicate or a refused request, and another arrival after a restart, and two polls, each answered
in halves, overtake each other.  Its filter has no choices there: choosing one starts from the first
page, and its rows only matter to what is counted.  `MaxRestarts`, `MaxReplays`,
`MaxRecords`, `MaxLoads`, `MaxPosts`, `MaxClicks`, `MaxLog`, `MaxRejected`, `MaxPolls` and `MaxBoots` are the only
bounds; the ledgers are finite without one, since every write of a settlement needs a move of the
node or a call with an older snapshot.  `create_race` does not check for deadlock, because it ends
when every request is answered.

**Fairness.**  `PaymentIntents!FairSpec` asks that the poller's timer fires and its sweep goes on
(`setInterval`, and awaits that return), and that for each intent the node answers and the database
commits again and again if they are asked again and again: an outage may fail any number of polls
but not all of them.  It asks nothing of clients or of the node's payments.
`WebhookDelivery!FairSpec` asks the same of the worker: the clock reaches a retry time, the timer
fires when no sweep runs, a request ends by its timeout at the latest, each row's turn in a sweep
and the recording of its outcome succeed if they come up again and again.  It does not ask that the
merchant ever answers.  The two browsers (`AdminConsole!Fairness`, `Storefront!Fairness`) keep their
intervals running, and end each request by an answer or an error; answers may be errors every time,
and then the page has to say so.

## What is proved

All theorems hold for any sets of requests, callers, events, sweeps, exports, merchants and intents,
and any bounds, except that four name a condition of their own (below).  The assumptions are those declared with the constants (the poller is not a client,
`NoIntent` is not an intent, bounds are natural numbers, events have an order, the mode is one of two;
finitely many requests, where an export counts its records; finitely many intents or orders, where a
table lists them; a header is a finite sequence whose t parts are numbers).

* `PaymentIntents_proofs`
  * `Typed`: `TypeOK /\ StagesAgree`, the inductive invariant.  Types alone are not inductive: that a
    paid target comes from a paid invoice, and that nobody but the creating request touches an intent
    before its promotion, need each other.  `StagesAgree` says so for requests, calls, poller and receipts.
  * `SettledOnceHolds`: each transaction that announces a payment inserts the receipt first, and the
    receipt is unique; inductive over the four kinds of writers.
  * `ReceiptMeansPaidHolds`: from `StagesAgree`, as a paid invoice stays paid or is forgotten.
  * `StatusOnRecordHolds`: every writer of a status appends its announcement, and logs only grow.
  * `OneIntentPerOrderHolds`: the insert looks at both indexes, and a request never changes after it.
  * `PromotionUndoesNothingHolds`: an action property; in stage `promote` the status is still `created`.
  * `CreationLeadsLedgerHolds`: only the insert writes to an empty ledger, and only a promoted intent
    has a caller that appends to it.
  * `ReplaysOwnRequestHolds`: a stored response belongs to an intent that was promoted under that
    storage key; the invariant `RepliesOwn` keeps its request's hash next to it.
  * `AnsweredRetriesReplayHolds`: an action property.  By `RecordsKept`, whoever was answered with an
    intent has its record under its storage key, the only one there; records are never taken back.
  * `SerialRefreshesHold`, `PollerAloneHolds`: if no two calls work on one intent at a time (`Serial`),
    what a call has read is still so when it writes (`SnapshotsCurrent`), and the status rules out the
    event about to be recorded (`EventsFollowStatus`).  A poller without other callers is serial.
  * `KeysArePerMerchantHolds`: for merchant ids spelled without the separator (`PlainMerchants`), the
    first separator of a storage key ends the merchant (`KeyParts`), so a request told of a conflict
    met another with its own merchant and key (`KeyConflicts`).
* `Settlement_proofs`
  * `PaymentsImplementSettlement`: the refinement under the mapping `Money`, one lemma per kind of
    writer.  It needs one more invariant, `InvoiceHeld`: a call about to record a payment was told
    so by an invoice that is still paid, as a restart that forgets the invoice ends the call as well.
* `WebhookDelivery_proofs`
  * `Typed`: `TypeOK /\ RowConsistent /\ SnapshotsFresh`.  The attempt counts are in range only because
    listed rows have attempts left, and a sweep's `deliveredAt` is current only because no other sweep runs.
  * `DeliveredOnceHolds`: an entry `webhook_delivered` is written only from a fresh copy without `deliveredAt`.
  * `DeliveredWasHandledHolds`: an attempt that `succeeded` was acknowledged (`SuccessWasHandled`), and
    the shop's acknowledgements are never taken back.
  * `RowConsistentHolds`: part of `Typed`.
  * `GivenUpAfterFourHolds`: `FailuresCounted`: the failures on the record are at least what a row, or
    a sweep's copy of it, counts, and no more unless the event was replayed.
  * `DeadLetterEarnedIfReplaysWait`: if no event is replayed while a sweep holds its row (`ReplaysWait`),
    row and copies count the failures since the last reset exactly (`ResetsCounted`).
  * `FulfilledOnceHolds`, `OrderFollowsSettlementHolds`: over the two kinds of steps that move the shop.
* `MerchantOps_proofs`
  * `OpsImplementDelivery`, `OpsImplementSettlement`: the composition refines both of its parts, so
    their theorems carry over.
  * `FulfilledWasPaidHolds`: by `NewsAreTrue`: an event that is a row, under way, or known to the shop
    tells of a payment only if its order has a receipt.
* `Books_proofs`
  * `BooksRefinePayments`: `Books` implements `PaymentIntents`, so its theorems carry over.
  * `RecordsAgreeHolds`: rows are read first and the other tables only grow; the invariant `RowsBacked`
    says that what a row claims is in the tables, and in each read that has returned.
  * `BooksNeverShrinkHolds`: the invariant `Sequel`: what an answered export recorded is still in the
    tables, and in whatever read of a later export has returned.
  * `BooksTypeOKHolds`: an export counts a finite set.
* `Storefront_proofs`
  * `ActsOnSignedHolds`: for every header, of any length, with any repeated or unknown parts.
  * `LogCountsFulfilmentsHolds`: a fulfilment and its log entry are one step, and the entries of an
    order are counted as positions of the log, which only grows until the next boot.
  * `TabHasRowsHolds`: `PageFits`: the page number is within the rows shown, and whatever a poll in
    flight holds is a snapshot that can be shown.
* `DataTable_proofs`: lemmas about pages (`PagesReach`, `PagesGrow`, `PageShowsRows`), used for both browsers.
* `AdminConsole_proofs`
  * `ConsoleTypeOKHolds`: the inductive invariant `Typed` ties the mounted feeds to the page, and every
    action in flight to something a page can start.
  * `PageHasRowsHolds`: arithmetic of rounding up; the page number is clamped wherever it is used.
  * `BusyIsWorkingHolds`: where one flag locks all buttons, whoever is heard has locked them (`OneLock`).
  * `DetailIsWholeHolds`: `Whole` says of each load, too, that the lists were asked for later than the intent.

Four theorems are conditional, where the code does not do what it says without the condition:
`Serial` (refreshes of an intent do not overlap), `ReplaysWait` and `PlainMerchants` are
hypotheses of the theorems that name them, and `PollerAloneHolds` is about a server without
other callers, as the run `poller_alone`.  The violated runs of the
same properties show that the first three are needed; none of them is assumed anywhere else.

Only model-checked: the liveness properties `SettlementObserved`, `EventuallySettled`, `FeedsCatchUp`,
`PageCatchesUp` and `TimelineCatchesUp`, as fairness is outside the prover.  `RetriesReplay` has no
theorem: it is refuted, and what is left of it is `AnsweredRetriesReplay`.
`FulfilledOnce` counts since the last boot of the shop: it keeps its memory of events no longer than
its orders.

## What is not modelled

* Amounts and their hex encoding, RPC parsing, the probe of the node at start-up.
* Wall-clock time: `monotonicNow`, `expiresAt`, the delays of the retry schedule, the order of
  listings with equal or reversed times.
* The parts of the admin UI that only derive a picture or a file: the rail and the charts beside the
  intents, the selection of rows and the clipboard, the global search, downloads, the sidebar's look.
* Creation of merchants and their webhook endpoints, which nothing changes afterwards.
* Rendering of receipts, validation, serialisation, configuration, the reset script, and the SDK and
  CLI, which keep no state.

## Plan

1. `Lifecycle`, `FiberAdapter`, `PaymentIntents`, their runs and proofs (done).
2. `MerchantDemo`, `WebhookDelivery`, their runs and proofs (done).
3. `Books`, on top of `PaymentIntents` (done).
4. `Settlement`, the abstract promise, and the refinement, checked and proved (done).
5. `MerchantOps`, up to the fulfilled order (done).
6. `Signature` and `Storefront` (done); `Units`, amounts as pure operators against a reference
   definition (open).
7. `DataTable` and `AdminConsole` (done); its rail and its search (open).
8. `Clock`: monotonic timestamps across restarts and the ordered listings that rely on them (open).
