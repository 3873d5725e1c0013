# TLA+ models of Sales-CRM

Specifications of the parts of this repository where money and orders can go wrong in ways a test
hardly reaches: several callers, webhooks, retry loops and external providers (Cashfree, Shopify,
WhatsApp) acting on the same rows in an order nobody chose. Every definition is translated from the code under
`src/backend/src`; `PROJECT.json` names, for each one, the lines it stands for.

    cd tla
    tlc -workers 2 -config MCRefunds_races.cfg MCRefunds      # model-check one run
    tlapm RefundsProofs.tla                                   # check the proofs of one module

## 1. Inventory

The application is a CRM for telephone sales: an Express/Prisma/PostgreSQL backend
(`src/backend`), a React front end and a few scripts. The backend's own logic is in
`src/backend/src/modules`; state lives in PostgreSQL, reached through Prisma, and is shared by all
server processes.

| Component | State | Operations | Interacts with |
|---|---|---|---|
| **Refunds** (`modules/refunds`) | `RefundRequest` (status, executionStatus, attempts, failureReason, Cashfree id), `Payment.status`, `Payment.refundedAmount` | request, approve (cancels the order first), reject, execute, refresh, refund webhook, amounts and balances | cancelOrder; Cashfree's refund API; the Cashfree webhook processor |
| **Order cancellation** (`modules/orders/orders.service.ts`) | `Order.status`, `Order.metadata` (`preCancelStatus`, `shopifyCancellation`, `shiprocketCancellation`, ...) | cancelOrder, Shopify cancel and its retry, revertCancellation | called by refund approval; Shopify, Shiprocket, payment links |
| **Order submission** (`modules/orders`) | `IdempotencyKey` rows, `Order.externalId`, the push claim in `Order.metadata`, an in-process map of twins | create order, replay, finish an interrupted submission, push to Shopify, prune keys | Shopify; Cashfree links |
| **Webhook deliveries** (`modules/{shopify,cashfree,shiprocket}/*webhook*`) | `webhook_events` (status, attempts, nextAttemptAt, receivedAt) | record, claim, complete, fail, retry loop, recovery of given-up abandoned carts | the processors of each provider |
| **Cashfree payments** (`modules/cashfree`) | `Payment` rows, payment links, the order's payment state | create link, webhook, refresh, reconcile, daily catch-up, expiry | Cashfree; order confirmation; prepaid upgrade |
| **Prepaid upgrade** (`orders.prepaid-upgrade.service.ts`) | the order's payment mode and its COD discount | offer, pay, apply, cancel | payments, Shopify |
| **Sessions** (`lib/refreshToken.ts`, `modules/auth`) | refresh-token rows (family, rotated, revoked) | login, rotate with a grace of 30 s, reuse detection, logout | front end |
| **Shopify inbound** (`modules/shopify` processors) | orders, customers, abandoned carts | create/update/cancel from Shopify, cart recovery | webhook deliveries |
| **Recording exports** (`modules/abandonment/recording-export.*`) | the job row (status, attempts, heartbeat, counters), a row per recording, the stored chunks of the ZIP, a pg-boss queue | start, claim, download and record, resume, finish, release, maintenance, expiry, retry | the queue; the telephony provider's recordings |
| **Report automation** (`modules/report-automation`) | run rows, recipient rows with three messages each, schedule settings, the recipient's WhatsApp window | tick, create, claim, send, recover, miss, expire, cancel, delete, retry, test, reply, provider callbacks | WhatsApp providers; the scheduler of every process |
| **Shipping** (`modules/shiprocket`) | shipments and their tracking state | submit, track, cancel | webhook deliveries |
| Other modules (leads, calls, telephony, templates, reports, users, ...) | one table each | create, read, update, delete, filtering | the database |
| Front end, scripts, infrastructure | none that is shared | pages, reports, deployment | HTTP API |

What is hard about them:

* **Concurrency.** Handlers of one process interleave at every `await`; several processes run the
  same loops. The refund services serialise on a per-order advisory lock
  (`lockOrderRefunds`), but cancelOrder and revertCancellation do not take it, and a call to a
  provider is always made with no transaction open.
* **Unreliable calls.** A provider's answer can be lost and the call still take effect, or take effect later.
* **Webhooks** come more than once, late and in any order, and race the handler that caused them.
* **Crashes.** Nothing is undone when the process stops between two statements, except by a lease, a
  retry loop or a later request.
* **Whole-document writes.** `Order.metadata` is one JSON column, read, changed and written back as a whole.

Correctness, in a sentence per component: *refunds* never pay back more than was collected, and the
books agree with the provider; *cancellation* and refund approval agree on what is cancelled; a
*submission* makes one order, and one Shopify order; a *webhook delivery* is worked on by one run at a
time, is never forgotten and is not done twice; a *payment* confirms its order once and a duplicate one
is recognised; an *export* ends, with a file that holds what its rows say; a *report* reaches its recipient once,
or its failure is visible; a *session* survives a repeated rotation and does not survive a stolen token.

`PROJECT.json` lists every component with its status, and under `hazards` each place
in the code where one of these can bite, with the property that watches it.

## 2. Modules

| Module | Models |
|---|---|
| `Refunds` | request, approval, rejection, cancellation of the order, revert, execution, refresh and refund webhook, with Cashfree and Shopify as the environment |
| `RefundLedger` | the abstract promise of `Refunds`: claims against the money collected, each refused, or approved and paid at most once. `Refunds` implements it (`ImplementsLedger`) |
| `WebhookDeliveries` | the stored deliveries of one provider: receiving, claiming under a lease, completing, failing, retry loops, recovery, restarts |
| `OrderSubmission` | COD orders submitted with a key: one order for a key, replay, completion, the claimed push to Shopify and the record of the notification, with a second writer of the whole metadata (a cancellation, a revert, an upgrade offer) |
| `CashfreePayments` | the payment links and UPI QRs of one prepaid order: creation, cancellation, expiry, webhook, refresh, catch-up, exceptions, confirmation and its recovery |
| `RecordingExports` | one background ZIP export: workers, maintenance, checkpoints, resumption, end of the archive, interruptions and restarts |
| `ReportDelivery` | one occurrence, or test send, of the daily report to one recipient, from the scheduler's tick to the provider's callbacks |
| `MoneySums` | `Array.reduce` over the rows of a query, as a recursive function |
| `MCRefunds`, `MCWebhookDeliveries`, `MCOrderSubmission`, `MCCashfreePayments`, `MCRecordingExports`, `MCReportDelivery` | the instances TLC checks |
| `RefundsProofs`, `RefundLedgerProofs`, `WebhookDeliveriesProofs`, `OrderSubmissionProofs`, `CashfreePaymentsProofs`, `RecordingExportsProofs`, `ReportDeliveryProofs`, `MoneySumsProofs` | theorems and proofs |

### Refunds

The refunds of the payments of one order. The rows are `order` (status and the part of the metadata
the properties tell apart), `payment` and `req`; `job` says what each HTTP handler (`Calls`) and each
webhook delivery being processed (`Workers`) is doing; `refund` is Cashfree's own record of the refund
of each request (the code derives its `refund_id` from the request, so there is at most one);
`late` holds create calls that were given up on but may still arrive; `events` the stored refund
webhooks; `graced` how many executions of a request are older than `UNKNOWN_REFUND_GRACE_MS`. `hasty` is a history variable: the
requests given up because the grace period ended while Cashfree's answer, given within it, was on its way.

Every transaction of the refund services holds the order's advisory lock, so it is one action. A
handler that leaves the transaction to call a provider is a job with a phase for each gap; anything
may happen in the gap:

| Code | Actions |
|---|---|
| `createRequest` | `CreateRequest` |
| `approve` → `cancelOrder` → `decide` | `ApproveStart`, the cancellation's steps, `Decide` |
| `reject` | `Reject` |
| `cancelOrder` | `CancelRead`, `CancelWrite` (conditional status), `CancelRemember` (preCancelStatus), `CancelShopify` (call, answer and record) |
| `revertCancellation` | `RevertStart` (reads), `RevertWrite`, `RevertRecord` |
| `execute` | `ExecuteStart` (step 1), `CreateAnswered / Rejected / Conflict / Unknown` (step 2), `Recover`, `ExecuteRecord` (step 3) |
| `refresh` | `RefreshStart`, `RefreshRead` (Cashfree reads the refund), `RefreshJudge` (the answer is there, and the clock is looked at), `RefreshRecord` |
| `processRefundEvent` | `WebhookTake`, `WebhookRead`, `WebhookRecord` |
| `applyRefundOutcome` | the operator of that name, used by the three record steps |
| a process that stops, a provider call that throws | `Stop` |
| Cashfree | `LateCreate`, `LateLost`, `Settle`, and the answers inside the actions above |
| time | `GracePasses` |

Abstractions. A payment is an eligible CRM Cashfree payment from the start (what
`CashfreePayments` ends with); the order has no open payment link and no Shiprocket order, whose
cancellation only writes metadata of its own. The `shopifyCancellation` value "not_linked" is "none". Several stored
deliveries about one refund are one element of `events`: a second one would be processed like a later first one.
Amounts are integers of the smallest unit. `manualCheck` stands for the one `failureReason` a
property depends on. The sender of a call to Cashfree does not distinguish a lost request from a lost
answer, so `CreateUnknown` leaves the call outstanding: `LateCreate` lets it take effect at any later time, `LateLost` never.

### WebhookDeliveries

The rows of `webhook_events` (`event`), the runs at work (`run`): those an arrival schedules with
`setImmediate` (`Handlers`), those of the retry loop of each server process (`Loops`) and those of the
abandoned-cart recovery (`Recoveries`); `queued` are the deliveries acknowledged whose run has not started; `batch` the rows
a loop has read and not yet processed; `applied` (a history variable) the deliveries whose effects
were committed. `Record` is the route, `Claim`/`Load` the two statements of `claim`, `Work` the
processor up to its last statement, `Complete` and `Fail` the last statement, `Oldest` is `due`,
`Tick`/`TickNext` the loop, `RecoverDead` the recovery's claim. `Stop`, `ForgetScheduled` and
`ForgetBatch` are a restart. Times are abstract (`ahead` or `come`) and may come at any step. The count of
attempts stops at MaxAttempts, since the code only ever compares it with that limit.

Shopify, Cashfree and Shiprocket share this store and worker (`shopify.webhook.store.ts`, with the provider
as a parameter); the processor mapped is Shopify's, and the other two end a delivery in the same way. WhatsApp's
AiSensy project webhook uses this store too; its other webhooks use a copy of it, which is not mapped.

### OrderSubmission

The rows are `order` (who made it, `externalId` as `linked`, and of the metadata `shopifyPushClaimedAt`, as it compares with its
lease, and `shopifyCreateUncertain`) and `key` (the `IdempotencyKey` rows). `job` says what each request being handled
does, over all processes; `rewrite` what each other writer of the whole metadata (`Writers`: cancelOrder, revertCancellation, the
prepaid-upgrade offers) has read and will write back. `placed` is how many Shopify orders carry the
order's number, `late` the creates that were given up on and are still under way.

| Code | Actions |
|---|---|
| `createManualOrder`, `createWithKey` | `Submit`, `Find` |
| `createManualOrderOnce` (its transaction) | `Insert`, with `Make` |
| `replayOrder`, `finishInterrupted` | `Find`, `Wait`, `Answer`, `Store` |
| `recordOrderNotification`, after a first push | `NotifyRead`, `NotifyWrite` (or its failure, which the code ignores) |
| `completeIdempotency` | `Complete` |
| `POST /orders/:id/shopify-order` | `RetryPush` |
| `linkOrderToShopify` | `Look`, `Claim`, `Release` (its finally) |
| `linkOrderToShopifyClaimed` | `Read`, `Lookup`, `CreateAnswered / Refused / Unanswered`, `Note` and `Record` (the read and the write of the metadata), `Link`, `WriteFails` |
| `ShopifyClient.query` | `CreateResent` |
| the metadata of `cancelOrder`, `revertCancellation`, upgrade offers | `MetadataRead`, `MetadataWrite` |
| a process that stops, a statement that fails | `Stop`, `WriteFails` |
| Shopify | `Unanswered` (executed, lost, or under way), `LateCreate` |
| time | `LeaseEnds` |

`hit` is a history variable: the orders whose push met one of four *mishaps* (a create that arrives after it was given
up on; one executed although answered 50x and sent again; a statement that fails after the call to Shopify; a
push that outlives its lease), or whose claim or mark was lost (`Loses`) when someone who had read the metadata before wrote it back
(`WriteBack`): the record of the notification, or one of the other writers. `SecondOrderNeedsMishap` says that nothing else leads to a
second Shopify order. Each mishap alone, the notification (`notified`) and a cancellation (`second_order`) break
`OneShopifyOrder`, so none of the exceptions could be dropped. The notification is no rare fault: it comes with every COD submission.

Abstractions. Orders are COD and Shopify sync is on. The in-process map of twins (`inFlight`) only delays a
repeat in the same process, so it is left out. Waiting for a claim or an answer is a step that may be taken at any time.
Shopify's search by source identifier is assumed to see every order that was created. The read-back and repair of a
created order, its tags and the record of its totals follow the link, or change nothing that is modelled.

### RefundLedger

Four variables: what each claim on a payment has come to (`asked`, `refused`, `approved`, `sent`, `booked`), what of each
payment is free, what Cashfree has made of each claim, what is booked as refunded. In `Refunds`, `Stage` reads the first off a
request's row and `Ledger == INSTANCE RefundLedger WITH ...` gives the mapping: handlers, locks, calls given up on, webhooks and
refreshes disappear, and each step either takes one step of the ledger or stutters. A rejected request gives its
amount back; once a request was sent to Cashfree its amount is never given back, whatever execution says of it.

### CashfreePayments

One prepaid order. `pay` are the Payment rows, `link` and `qr` what Cashfree knows of them, `order` and `meta` the order's status
and its metadata, `flagged` and `reported` the audit rows of exceptions and of over-collection. `job` says what each
user's request (`Users`), webhook delivery (`Hooks`) and catch-up (`Sweepers`) is doing.

| Code | Actions |
|---|---|
| `createPaymentLink` | `Prepare` (reuse, or lapse the old and insert), `CreateLink` (the call), `Reject`, `Finish` |
| `cancelPaymentLink` | `Cancel`, `CancelLink` (the call), `RecordCancelled` |
| webhook, refresh, catch-up | `HookPaid`/`HookEnded`, `Refresh`, `Sweep`/`SweepNext`, with the calls `AskLink` and `AskQr` |
| `applyPaymentUpdate` | `Apply` (`ApplyUpdate`), one step, since it holds the order's lock |
| the rest of `reconcileCashfreePayment` | `CloseOpenMethods`, `Recover`, `Notify`, `NotifyWrite` |
| `confirmPaidPrepaidOrder`, `syncShopifyPayment` | `Confirm` (reads), `Commit`, `Sync`, `SyncWrite` |
| `sendPaymentQr`, `ensureUpiQr` | `WantQr`, `CallQr`, `StoreQr` |
| `markPrepaidOrderPaid` | `MarkPaid` |
| `cancelOrder`, `revertCancellation` | `Void...`, `Revert...` |
| customer and Cashfree | `PayLink`, `PayQr`, `Lapse`, `ExpireLink`, `ExpireQr` |
| a process that stops, a call that fails | `Stop`, and the failing disjuncts of the calls (`Fault`) |

Abstractions. Every payment is for the whole order. A webhook names the payment, the method and the Cashfree payment id; a
refresh learns of a QR payment without its time. `seen` is a history variable: the money whose SUCCESS reached the CRM
with its Cashfree id.

### RecordingExports

One export. `job` is its row, `item` a row per recording, `chunk` the stored file, `queue` the messages that wait in pg-boss. `run` is
what each worker makes of a message, `sweep` what each pass of the maintenance does, `client` what each request of a
user does. A recording, the summary and the central directory are one unit of the file each, so an offset counts units and
a chunk holds `ChunkSize` of them.

| Code | Actions |
|---|---|
| `processExportJob`, `runExport` | `Take` (the claim), `Open` (resumption: cut behind the last recorded recording), `Fetch`, `Flush`, `SaveItems`, `SaveJob`, `Reload` |
| end of the archive | `PutSummary`, `PutDirectory`, `LastFlush`, `Finish` or `Fail` |
| an error, SIGTERM, the heartbeat | `Interrupted`, `Release`, `Requeue`, `NotReleased`; `Terminate`, `Stop`; `Beat`, `Stall` |
| `recordingExportMaintenance` | `Sweep`: `Find` (what stalled), `HandBack`, `Enqueue`; `Expire` |
| `RecordingExportService.start`, `retry` | `Start`, `Retry`, `Reset`, `Reopen`; `Lost` (the process stops between them) |

Two history variables: `overridden` (a run at work lost its claim, to a write that does not look at the row again or to a late
heartbeat) and `shared` (two runs were at work at once). No write of the code names its run, so what two
runs make of one file is arbitrary: the properties promise nothing then, and `exports` does not follow it. What remains is that such an
export ends, and `ended` follows it for that. An export is planned when the model starts.
The recordings a run has still to do (`todo`) and the results it has not recorded yet (`unsaved`) are sets: the code keeps them in
the order of their `seq`, in which `Fetch` takes them.

### ReportDelivery

One occurrence of one automation for one recipient, or one test send. `run` is the run row; `row` the recipient's row with its three
messages: the notification `note` (a template, sent at any time), the detailed text `txt` and the Excel file `doc` (free form, sent
only while the recipient's 24-hour window is `open`). `clock` is the time against the occurrence (before it, due, past the catch-up
time, two days old), `settings` the automation's against it, `stale` whether a SENDING message is older than a send may take,
`owner` whether the automation's owner is an active Admin or Manager.

| Code | Actions |
|---|---|
| `processScheduled`, `processOccurrence` | `Tick`, `Create`, `Rows`, `Mark` (interrupted sends), `Owner`, `OwnerGone` (closes what is pending, in one step for the three messages), `Read`, `Claim`, `Miss`/`MissedRows`, `Expire` |
| `deliver` | `Note`, `Due`, `Take`, `Free`, `Post` (one transmission; the HTTP client repeats it), `Record`, `Fallback` |
| `recomputeRunStatus` | `Sum`, `Store` |
| `sendTest`, `cancelOccurrence`, `deleteRun`, `retryRecipient`, `saveConfig` | `Test`/`TestRows`, `Cancel`/`CancelRun`/`CancelRows`, `Delete`, `Retry`/`RetryClaim`, `Configure` |
| `releaseHeldReport`, `sendPendingOnReply` | `Reply`, `Recover`, `Select`, `ReplyOwner`, `ReplyClaim`, `Interrupt` |
| `applyReportDeliveryStatus` | `Callback`, `Hook` |
| failures | `NotBuilt`, `NoAnswer`, `NotRecorded`, `Throw`, `Stop` |
| an administrator | `OwnerChanges` (deactivates the owner, or takes or gives the role) |
| time | `Age`, `RetryTime`, `Stale`, `WindowEnds` |

What may happen together is a *scene*: a record of the run's kind, the messages the automation sends, the jobs, the requests and
callbacks there may be and the number of faults. A behaviour picks its scene at its start, so one run covers many small ones.
`reached`, `mail` and `told` are the provider's view: what it accepted, what it answered and what it reported. `lost` and
`missed` are history variables.

## 3. Runs

| Run | Shows |
|---|---|
| `races` | One payment, one request, two handlers and a webhook worker, two executions, an order linked to Shopify: types, no refund without approval (`RefundedAsApproved`), no first execution called failed when it was paid (`FirstFailureWasNotPaid`, but for an answer the end of the grace period overtook), decisions final (`DecisionsFinal`) |
| `money` | Two requests of different amounts against one payment: balance, payouts and books (`BalanceHeld`, `PayoutsCovered`, `AccountedOnce`), and the refinement: `ImplementsLedger` |
| `webhook` | Liveness: the webhook alone settles a first execution (`FirstExecutionSettles`), whatever handlers do or stop doing |
| `claims` | Two deliveries, the run of an arrival, a loop and a recovery, with restarts: `ClaimsExclusive`, `NothingForgotten`, `ProcessedWasApplied`, `DoneStaysDone`, and liveness: every acknowledged delivery is processed, ignored or given up (`EventuallySettled`) |
| `submission` | Two handlers, two bodies, one key, two orders, the record of notifications, another writer of the metadata and every mishap: `OneOrderPerKey`, `OwnOrder`, `LinksExist`, `OrphansRemembered`, `SecondOrderNeedsMishap` |
| `linked` | Liveness: the repeats of a submission get its order linked to Shopify (`EventuallyLinked`), whatever stopped or failed before, unless a notification's record erased what a push had left |
| `payments` | Two links of one order, two users, a fault: no two links can be paid at a time unless one lapsed or its creation was taken for rejected (`LinksDoNotCompete`), an order paid twice is reported (`OverCollectionReported`) |
| `qr` | One payment with link and QR, a webhook, a user who refreshes, cancels and reverts, a fault: no confirmed money vanishes (`NothingVanishes`) or is both recorded and flagged, but for the cases `OneFate` names, the first payment stays of record (`FirstStaysOfRecord`), a late one revives no cancelled order (`NeverRevived`) |
| `paid` | Liveness without any webhook: the catch-up records what was paid (`PaidIsRecorded`) and finishes an interrupted confirmation (`PaidOnceIsConfirmed`) |
| `stuck` | violation: with a second payment through the link, an interrupted confirmation is never finished (`PaidIsConfirmed`) |
| `exports` | Two workers, maintenance, a user who retries, a fault: `OneRunPerClaim`, `RecordedIsStored`, `CompletedIsWhole`, `DownloadedOnce`, and liveness: an export ends, or two runs share it (`EveryExportEnds`) |
| `reports` | Seven scenes of a day, in one of which the owner loses and regains the right to have reports sent: no message twice unless an answer was lost (`CopiesNeedLostAnswers`), `CancelledIsNotSent`, and liveness: `EveryMessageSettles` |

The run that expects a violation states what a comment of the code says (quoted in `findings`) and TLC finds a behaviour of the code that
contradicts it. The configurations that are not in this table are run by hand. `MCRecordingExports_ended` passes: it follows an export that a
maintenance pass and two workers have overwritten each other's claims of, and shows that it ends too (`SharedExportsEnd`, which is `EveryExportEnds`
without its exception). The others are counterexamples: each one checks a
property the code's comments state, and TLC finds it violated (Findings, below):
`MCRefunds_{early_answer,stale_refresh,reactivated,shopify}`, `MCWebhookDeliveries_reopened`, `MCOrderSubmission_{second_order,notified}`,
`MCRecordingExports_twice`, `MCReportDelivery_{unanswered,missed,adopted,deleted,callbacks,summary}`.

### Bounds

* `MaxRequests`: refund requests ever raised. Two compete for one balance; a third adds nothing to a
  pairwise race, and the proofs hold for every number.
* `MaxAttempts` (`Refunds`): executions of one request. Two are enough for an earlier execution to
  interfere with a later one; three are used where the violation needs it.
* `Calls`: two handlers, since the races are between two; `Workers`: one delivery of a refund event at a time in
  a process. The amount collected is 2 and requests ask for 1 or 2, so that two of 1 fit and no other two do.
* `Keys` (`Refunds`) is empty: a key that was used only refuses a request, in the transaction and under the lock that raises it. The proofs are for any
  set of keys.
* `NumEvents` 2, `BatchSize` 2: one delivery waits in the batch while the loop works on the other. One loop and one recovery: with the run of
  the arrival there are three that may claim.
* `MaxAttempts` (`WebhookDeliveries`): 2 instead of the code's limit, so that first, middle and last attempts occur.
* `MaxOrders` 2, one key: a second order for the key would show; `MaxPlaced` 2: a second Shopify order is what must not be, a third
  adds nothing. `Handlers` 2: one that holds the claim and one that repeats or retries. `linked` has no other
  writer and no mishap; the notification is still there, and an order it hit is excepted: after it, `MaxPlaced` may hold up the next create.
* `NumPayments`: two links can compete, and a third adds only another pair; where the methods of one payment compete (`qr`) or
  liveness is checked (`paid`, `stuck`) there is one. `MaxFaults` 1: each call may fail, or each step be the last of its process.
* `NumRecordings` 2, `ChunkSize` 2: four units in two or three chunks, so that an end of the archive falls inside a chunk and a
  recording may start one. `CheckpointEvery` 1 gives every point of resumption. `MaxAttempts` 2: a last and an earlier one. With two faults
  the safety properties were checked too. `ended` has one recording, one maintenance pass, no retry and no fault (a stop of a request and a late
  heartbeat are none), so that two runs on one export can be followed to their end.
* `Scenes`: two ticks at once; one tick, two faults and an owner who leaves (which counts as one of them) and comes back; a reply; retries, new settings and undeliverable messages; cancellation,
  removal and new settings with a fault; test sends with a fault; all three messages with a fault. `MaxAttempts` 2 (an
  automatic retry is one of them), `MaxTries` 2, `MaxReplies` 1. The scene with a reply was checked with a fault as well, which takes several
  minutes more.
* Handlers (`Calls`, `Handlers`, `Users`) and request bodies are interchangeable (`races`: the users too, since both may approve), so symmetry is used, in safety runs only.

### Assumptions stated as constants

* `GraceCoversCalls`: a create call is over (answered, lost or arrived) before the grace period of its execution (`UNKNOWN_REFUND_GRACE_MS`, two
  minutes) ends. `races` and the theorem `FirstFailuresUnpaid` assume it for `FirstFailureWasNotPaid`, which is what the grace period is for;
  `money`, `webhook` and all other theorems do not. It is not enough for every FAILED: `early_answer` shows one that is wrong of a first execution,
  `stale_refresh` one that is wrong of a *second*.
* `LeaseCoversProcessing`: a run finishes, or its process is gone, before its lease ends. `claims` assumes
  it; nothing in the code enforces it (there is no renewal and no fencing), and `reopened` shows what happens
  without it. `ProcessedIsApplied` is proved without it.

### Fairness

`Refunds`: a delivery that fails is processed again (the retry loop of `WebhookDeliveries`), so a worker's steps are
strongly fair although `Stop` can interrupt them, and Cashfree settles a refund it accepted. Nothing is assumed of users
or of handlers: a user may never execute or refresh anything.

`WebhookDeliveries`: the recovery looks only at deliveries of the last seven days, so it stops reviving one (`<>[][~RecoverDead]_vars`; two deliveries
revived for ever could keep a third from being looked at); time passes; a loop ticks (`setInterval`); no run hangs forever, since every provider call has a
timeout; a loop is not stopped in the middle of every attempt at a delivery (strong fairness of a loop's
steps). The runs an arrival schedules get only weak fairness of a run under way and may be forgotten.

`OrderSubmission` (`linked`): the browser sends the submission again whenever it has not been answered and a handler is
free (strong fairness of `Submit`), no handler hangs, since every call has a timeout (weak fairness of `Step`), and the lease
of a claim ends. `<>[][~Failure]_vars` says that stops, refusals and lost answers, however many, end at some time: with
a Shopify that never answers nothing could be linked. It is an assumption on the environment and not on the code;
what the property shows is that no earlier failure leaves anything behind (a claim, a mark, a half-finished row) that
would keep the order from being linked.

`CashfreePayments` (`paid`, `stuck`): a job goes on until its process stops (every call has a timeout), and the catch-up's
timer ticks. Nothing is assumed of customers, users or webhooks. The timer is opt-in (`CASHFREE_RECONCILE_MINUTES`, off when unset), a pass takes the
50 oldest rows and rows older than 31 days are not looked at (`cashfree.catchup.ts:4-11`): what `paid` and `stuck` say is about a server where it is on,
and about payments its passes come to.

`RecordingExports`: a run goes on, one told to exit does, a worker takes the next message of the queue (pg-boss polls),
heartbeats get old, and maintenance runs on its timer. Nothing is assumed of a user's
request: it may stop between the job's row and the message in the queue.

`ReportDelivery`: what is under way goes on, ticks come on a timer in every process of the scene, the time passes. A tick
is in time for what is owed unless a fault, an outage, is spent; that is the assumption under which `EveryMessageSettles` means anything. An owner who
leaves may stay away for ever or come back at any time; a retry planned meanwhile is not owed.

### Deadlock

`Refunds` runs say `CHECK_DEADLOCK FALSE`: an instance can finish (all requests decided and executed, all
attempts used, no handler left to start). So can `CashfreePayments` (nothing left to pay or ask for), `RecordingExports` (an expired
export) and `ReportDelivery` (an occurrence two days old). `WebhookDeliveries` never stops, since its loop ticks with nothing to do, and neither does
`OrderSubmission`: a submission can always be sent again.

## 4. Findings

Payments:

1. **stuck** (a run) `cashfree.reconcile.ts:64`: the recovery of a paid order that still awaits payment is skipped when the result
   at hand is an exception. If the process stops between recording a QR payment and confirming the order, and the customer pays
   through the link too, every later result is the duplicate's, and the order stays PENDING_PAYMENT.
2. A refresh takes a QR payment made in time for a late one, since it does not know when it was made, and flags it; the
   webhook then applies it. `OneFate` names the case. `cashfree.apply.ts:131` calls a payment late when it "was cancelled, or (for the UPI QR) because it expired".
3. What `Overlooked` names is never asked about again by the catch-up: a payment closed because it lapsed when a new link
   was asked for, and a QR payment whose row was closed on an older answer about its link. Only a webhook or a user's refresh finds them.
4. confirmPaidPrepaidOrder wants the recorded payments to add up to exactly the order's total. Two that are recorded before the
   order is confirmed add up to twice of it, and the order is never confirmed (it is reported as over-collected). A second payment
   of an order whose first was refunded is not recognised as a second one (`cashfree.apply.ts:138`).
5. A payment through the QR that came late and is listed for a refund can become the payment of record as well, when the link was paid too,
   the link's event names no Cashfree payment and the QR's event comes again: `cashfree.apply.ts:145` then takes the QR's id for
   the missing one. The proof of `OneFate` met it, and the property names it.
6. A payment whose link's creation was taken for rejected is FAILED and a new link is made, although the old link may exist; when the old payment's
   QR is then paid, the payment is SUCCESS and two links can still be paid. The proof of `LinksDoNotCompete` met it, and the property names it.
7. cancelOrder and revertCancellation write back metadata they read earlier and erase `paymentExceptions` added meanwhile; the audit rows stay.

Refunds, deliveries and submissions:

8. **reactivated** `orders.service.ts:1617`: revertCancellation checks for approved refunds and restores the status
   without the order's refund lock; an approval in between leaves an approved refund on an active order. `execute`
   refuses it, so no money moves.
9. **shopify** `refunds.service.ts:294`: approve may run while another cancellation's Shopify call is outstanding, and approves
   although Shopify then refuses.
10. **early_answer** `refunds.execution.ts:363`: refresh looks at the clock after Cashfree's answer came, not when it asked. A 404 given within the
   grace period, when the create call was still on its way, is judged after its end: the first execution is marked FAILED, "safe to call it
   never created", although the call then arrived and was paid. Executing again finds the refund by its id, so the money stays right.
11. **stale_refresh** `refunds.execution.ts:363`: refresh judges the row it read before its call. A newer execution can
   be marked FAILED while Cashfree has paid it, and its webhook is then ignored. The books stay
   consistent (the request is not COMPLETED) and executing again finds the refund by its id.
12. **reopened** `shopify.webhook.store.ts:93`: complete and fail are not fenced by the claim.
13. **second_order** `orders.service.ts:1500`: cancelOrder (and so revertCancellation and the upgrade offers) writes the whole metadata it read at its start, and with it
   erases a push claim (or the mark of a create without an answer) set in between; the next push creates a second Shopify order.
14. **notified** `orders.service.ts:1073`, `whatsapp.order-notify.service.ts:166`: the record of a COD order's notification writes back the whole metadata it
   read at 162. When the order's first push failed, a repeat or a retry can have claimed the next push in between, or got no answer: its
   claim, or its mark, is gone, and the push after it creates a second Shopify order, with no failure but the first push's. The
   comment at `orders.service.ts:1100-1102` calls the push "the safe way to let a caller "retry" after a failure without ever creating a second Shopify order".

Recording exports:

15. **twice** `recording-export.core.ts:69`: without any failure, a maintenance pass that found a job before a worker claimed it writes QUEUED
   over PROCESSING and enqueues it, and a second worker claims what "someone else" has. It takes two processes, or
   RECORDING_EXPORT_WORKERS above 1.
   Found beside it, and not modelled: a stop while an export is planned (`recording-export.service.ts:319-345`) leaves a QUEUED job with part of its
   recordings, which maintenance enqueues like any other.

Reports:

16. **unanswered** `report-automation.service.ts:30`: the WhatsApp client repeats a request that timed out and then throws the error the sender
   takes for a rejection, so the message is FAILED and sent again by the next attempt, although one without an answer "is NEVER
   re-sent automatically".
17. **missed** `report-automation.service.ts:39`: the messages of a run recorded as Missed are FAILED, and a reply of the recipient sends them hours late.
18. **adopted** `report-automation.service.ts:716`: a test send also sends the parts a retry has claimed meanwhile: a second copy.
19. **deleted** `report-automation.service.ts:356`: a run removed between the check and the claim of a retry, or of a reply, is still sent.
20. **callbacks** `report-automation.status.ts:11`: two callbacks that read the same row at once move a status backwards.
21. **summary** `report-automation.run.ts:3`: two recomputations of a run's status cross, and the older one stays.
22. Found on the way, without a configuration of their own: an outage longer than the catch-up time after the run was created, or a save
    of the settings, leaves PENDING or SENDING parts and planned retries for ever, and the run cannot be deleted; a
    callback that arrives before the message's id is stored is lost; a test's part that waits for a reply waits for ever, since replies
    and expiry look only at scheduled runs; a notification that FAILED and is planned to be tried again stays so for ever when the owner is deactivated
    or loses the role, since every later tick returns at `report-automation.service.ts:655` and closes only PENDING parts, and the planned retry
    keeps the run from being deleted (`EveryMessageSettles` names this case).

## 5. Proofs

All theorems hold for every number of users, payments, requests, handlers, workers and attempts, and every amount. They use
only the named assumptions of the modules.

* `MoneySumsProofs`: sums over rows are natural numbers, monotone, unchanged by what they do not count, and grow by exactly one row's amount.
* `RefundsProofs`. The inductive invariant is

      Inv == TypeOK /\ StartedIsApproved /\ RefundedAsApproved /\ JobsKnow /\ LiveFits /\ AccountedOnce

  `AccountedOnce` is not inductive alone. `LiveFits` says that the amounts of the pending, approved and completed
  requests of a payment fit in it; that is the fact createRequest's check establishes and every later step preserves, and it is
  why applyRefundOutcome's balance check never refuses. `StartedIsApproved` ties an execution status to an approved request.
  `JobsKnow` says what a handler's memory is worth: one that read SUCCESS from Cashfree read it of a refund that is
  paid, and stays paid. `RefundedAsApproved` then gives that a COMPLETED request was paid. From `Inv` follow `TypeCorrect`,
  `RefundsApproved`, `BooksRight`, `NeverPaysTooMuch` (`PayoutsCovered`), `BalanceIsHeld` and, as action property,
  `DecisionsStay`.
  `FirstFailuresUnpaid`, from `GraceCoversCalls`, needs beside `Inv` that a request's only execution makes one call, of which nothing
  is at Cashfree until it was answered or given up on (`OneCall`), and that whoever holds this execution for failed, or has
  recorded it so, does so of a refund that Cashfree refused or never got and will not get any more, or is in `hasty` (`GivenUp`): a grace period that has
  passed when Cashfree answered means that the call is over; one that passes between the answer and its judgement means nothing, and `hasty` is where such
  a request is remembered (`ToldInTime`, `HastyStays`).
* `RefundLedgerProofs`: `LedgerImplemented`, that is `Spec => ImplementsLedger`. The initial states map to the ledger's, and under the
  invariant `Inv` above each action maps to one step of the ledger or to none; what needs the invariant is that a request is only
  booked when the handler's answer is still true (`JobsKnow`), and that a request raised fits in what is free (`LiveFits`), which is the
  amount less the sum over all live claims.
* `WebhookDeliveriesProofs`: `TypeCorrect` and `ProcessedIsApplied` for any timing; `ExclusiveClaims`, `NothingIsForgotten`
  and `DoneIsDone` from the assumption `LeaseCoversProcessing`, by an invariant that ties the one run that holds a
  delivery to a row that is PROCESSING with its lease ahead.
* `OrderSubmissionProofs`: all six properties of `submission`, for every set of mishaps, from `BoundsAssumption` alone. The
  inductive invariant is `Inv == Known /\ PushesSafe`. `Known` is type correctness with what rows and jobs know of each
  other: the order of a key carries that key and body (`RowsAgree`), a handler's order is the one its key leads to (`JobsKnow`),
  a writer has read the metadata of an existing order, nothing is placed for an order that was not made, and
  `LinksExist`. `PushesSafe` is about each order no mishap hit: at most one Shopify order is placed for it, at most one handler pushes it
  and that one's claim is live, what this handler believes is right in each phase (`Sound`: one that is going to create knows
  that nothing is placed), and when nobody pushes it, a placed but unlinked Shopify order is remembered by the mark or by a
  claim (`Remembered`). The last part is what taking over a claim needs, and the reason why a claim must stay behind when its
  holder dies. A mishap, or a write of old metadata by which a claim or a mark is lost, puts the order into `hit`, and
  `PushesSafe` no longer speaks of it; a write by which nothing is lost leaves every part of it true (`WriteBackSafe`, for the notification and the other writers).

* `CashfreePaymentsProofs`: the type invariant and all six safety properties, for every number of payments, users, deliveries and
  catch-ups. The basis is `Sound`: types, and what was learnt of a payment is still true when it is applied (`Justified`): a link
  that ended or was paid stays so, a paid QR too, and whether it was paid in time does not change. That is why `Apply`, which
  happens after any number of other steps, may trust an old answer. On top of it, `RecordStays` follows from the
  condition under which applyPaymentUpdate writes; `MoneyStays` from `IdsKnown` (a payment has a Cashfree id only when it is
  successful, and an exception is listed under an id of its own method); `OneFateAlways` from `Fates`, which says for each kind of
  exception what may have become of the payment beside it; `OverCollectionsKnown` from counting how often the order was paid at the
  one step that makes it more than once; `LinksSeparate` from `LinksKnown` (a FAILED payment's link ended, lapsed or was taken for
  rejected, and a new payment is only prepared when the older ones are out of the way); `CancelledStays` from the writes to the status.
* `RecordingExportsProofs`: the four safety properties and the type invariant of `exports`, for every number of recordings, workers and attempts
  and every size of a chunk and of a batch. The inductive invariant is

      Inv == (~ shared => Sound) /\ (~ overridden => ~ shared /\ Held)

  `Sound` says what the run at work knows of the file. `Built(x, ch, o)` is the unit at an offset as run `x` is building the
  file: in a stored chunk, or still in its writer. A run in the middle of the recordings has every recording, recorded or in its batch, built at its
  offset, these fill the file densely from its start to the writer's end (`Dense`), none is in the batch and recorded, or in the batch and
  still to do (`Batch`), and there is room for those still to do (`Room`), so the directory never falls outside the file.
  Density is what makes resumption right: the highest recorded offset is then the number of recordings in the file, and cutting behind it
  loses none. At `save items` all of it is stored, which is the order of a checkpoint; at the end of the archive the last units are the
  summary and the directory of `Entries`, which nothing changes while the run is at work. `Held` says that a run's claim is seen by
  everyone as long as nobody overrode it. The type invariant is proved until two runs have shared a file
  (`~ shared => TypeOK`): after it, recordings with gaps between them can carry a writer beyond the last chunk.
* `ReportDeliveryProofs`: `TypeCorrect`, with the invariant that a message is sent under the attempt that claimed it and a claim is within the limit
  (`OKPart`, `OKJob`), and `CancelledNotSent`: before the run of an occurrence exists no job does more than create or
  cancel it (`None`), and after it was cancelled its messages are skipped and no job goes on to one (`Off`).
  `CopiesOnlyAfterLostAnswers` is `Spec => [](Calm => CopiesNeedLostAnswers)`. Without `Calm`, which excludes tests that one user retries
  while there is another user's request, it is false: the test send may adopt what the retry claimed (`adopted`). The inductive invariant is

      OInv == CInv /\ (Calm => Once)        Once == Sound /\ Calm /\ Placed /\ \A p \in Parts : Counted(p)

  The point is who may transmit a message. The claims are conditional writes, but a job that adopts messages and one that left the template out
  send what they have not claimed in that step, so being `SENDING` does not say who sends. `Owns(j, p)` does: the job that
  is sending `p`, the one that claimed it for later, and the one that may still send the template it left out. `Counted(p)` says that
  there is at most one owner, that it holds the last attempt, which is neither recorded nor taken by the provider unless the owner is about to
  record it (`Knows`), that a message that can be claimed has no owner (`Fit`), and that every attempt the provider answered but
  the last was reported undeliverable (`Tally`). A callback that will write FAILED comes after the owner is done and before anyone
  can claim again (`Bounces`): this is why the row's message id, which names the last attempt only once it is recorded, makes late
  reports of older attempts harmless. `Placed` says where jobs can be; that the messages a test still comes to were not attempted is what
  keeps its adoptions empty. Each action has one lemma (`...Counts`), by which of six things it does to a message: nothing,
  a claim, a release, a transmission, a report, or the write of one (`Stays`, `Claims`, `Releases`, `Takes`, `Reports`, `WritesBounce`).

Only model-checked: the liveness properties `FirstExecutionSettles`, `EventuallySettled`, `EventuallyLinked`, `PaidIsRecorded`,
`PaidOnceIsConfirmed`, `EveryExportEnds` (and `SharedExportsEnd`) and `EveryMessageSettles`, which are out of reach of the proof system.

## 6. Not modelled, and why

Lists, filters, aggregations, templates, users and roles as such are single-statement CRUD or read-only. The front end, scripts and
infrastructure hold no shared state. Parsing and signature checks of provider messages are conversions whose result is
modelled by the set of messages they accept. Rotation of refresh tokens is two statements on one row, and what matters about it is access
control, which these models are not about. In `Refunds`, notifications and audit rows are left out. In
`OrderSubmission`, prepaid and externally paid orders, the check for a recent twin (a question to the user) and the pruning of keys
(days after their last use) are left out. In `CashfreePayments`: the whole-metadata writes of mark-paid and of the
record of a QR (what they could erase, no property is about), payments of another amount, the states PARTIALLY_PAID and PROCESSING,
Shiprocket, the details of the Shopify payment sync, and the prepaid upgrade's use of links. In `RecordingExports`: the Excel export, planning, the
limits on new exports, a file over the size limit, downloads, a message pg-boss delivers again, a statement that
commits and whose answer is lost. In `ReportDelivery`: contents, templates and formatting, several recipients of one run, changes of the recipient
list, the heartbeat, read-only pages, and what distinguishes the providers beyond the answers they give.

## 7. Plan

In order of importance:

1. An abstract specification of an export (recordings that are pending, in the archive or failed, and a file that is open or complete), which
   `RecordingExports` implements as long as one run is at work, and of a payment's fate for `CashfreePayments`.
2. `PrepaidUpgrade` - an offer to pay a COD order in advance, on top of the links of `CashfreePayments`. To look at: generateLink's call runs
   without the order's lock, so a decline meanwhile leaves an open link of a declined offer; a reused link keeps the stamp
   of the earlier offer, whose payment is then not converted; a payment recorded before generateLink stores its id is never
   converted; a payment that fails while its link is reused leaves an offer that decline cannot close.
3. `OrderCancellation` - the whole metadata, with Shiprocket and payment links and all its writers: preCancelStatus lost by a stop
   (1500), a record overwritten by a revert (1624), a cancellation that meets a push under way (1518).
4. `OrderSubmission` for prepaid orders, whose push follows a payment.
5. Shiprocket: submission, cancellation and tracking of a shipment.
