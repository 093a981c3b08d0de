# Formal model of the WebTemplate backend

TLA+ specifications of the WebTemplate backend (`backend/src`, NestJS on MySQL, Redis and BullMQ),
the TLC configurations that check them on small instances, and theorems about them checked by TLAPS.

The backend is a set of stateless HTTP handlers and background workers around a shared database. Node
runs one callback at a time, but every `await` lets any other request, of this or another server
process, run in between. The state that matters is the database; the hard part is what may happen
between two of its statements. The models therefore have one action per statement that a handler awaits,
and one process per request.

## The system and what is hard about it

| Component | State | Operations | What is hard | What makes it correct |
|---|---|---|---|---|
| Orders (`modules/orders`) | `orders`, `order_items` | createFromCart, createDirect, cancelOrder, updateStatus | a saga over three services with compensations; blind save of the status | everything reserved is held by a checkout, a live order or a cancellation; failed checkouts leave nothing behind |
| Inventory (`modules/inventory`) | `quantity`, `reserved` | reserveStock, releaseStock, adjustStock | concurrent reservations, release twice, movement insert failing | no unit is sold twice |
| Promotions (`modules/promotions`) | `used_count`, usage rows | validate, reserveAndCalculate, recordUsage, releaseSlot, revokeForOrder | limits checked before rows are written | limits kept, slots counted |
| Payments (`modules/payments`) | payment rows | createPayment, processCallback, refund | gateway callbacks duplicated, reordered, concurrent with each other and with refunds, and stripped by the validation pipe before they are verified | paid means captured; a paid payment stays paid until refunded, or until an answer begun before overtakes it |
| Cart (`modules/cart`) | carts, items | getOrCreateCart, addItem, updateItemQuantity, removeItem, clearCart, mergeGuestCart | duplicate carts, additions at once, a merge repeated or beside an addition | no addition is lost, no line is moved twice or left behind |
| Sessions (`modules/auth`) | refresh tokens, the cookie of each browser | login, refreshToken, logout, revokeAllUserTokens, cleanup | rotation, revocation and lost replies | an exchanged token is spent; all sessions end with a revocation |
| Accounts (`modules/auth`, `modules/users`) | the row of a user, lockout counter in Redis | validateUser, changePassword, forgotPassword, resetPassword, backup codes, BaseService.update | a counter without transaction; entities saved whole after others changed the row | guesses are bounded, lockouts end, codes and old passwords stay used |
| Chat (`modules/chat`) | conversation, messages | sendMessage, triggerAiReply, assignAgent, closeConversation, markAsRead, cron | a slow call to a model between read and write, counters from copies | unread messages show, closed conversations stay closed, questions are answered |
| Plans (`modules/plans`) | subscriptions, usage | subscribe, renew, cancel, assertQuotaAvailable | quota check under a row lock beside changes of the plan | the quota is never passed |
| Settings and feature flags | rows and a cache in every process | getOrDefault, set, bulkSet; getFlagCached, createFlag, updateFlag, deleteFlag | a fill racing an invalidation, other processes | nothing stale outlives the time to live |
| Webhooks (`common/queue/webhook.processor.ts`, `common/cron/webhook-retry.cron.ts`, `modules/webhooks`) | deliveries, BullMQ jobs | trigger, process, cron retry, manual retry | at-least-once jobs, several retry mechanisms, a database that throws in between, a lock that expires | an event is lost only in named ways; each job ends |
| Dead letters (`common/queue/dead-letter.service.ts`) | dead letters | moveToDlq, retry, purge | retry racing purge, a statement failing in between | a letter that was requeued has its job |
| Catalogue, content and reporting modules, media, mail, notifications, search, analytics | rows, files | CRUD, uploads, exports | little shared mutable state | not modelled, see the last section |
| Frontend (`frontend`), deployment scripts | | | | not modelled |

Orders calls Inventory and Promotions directly and awaits each call. Payments read the order but never write it. Changing
or resetting a password (Accounts) ends all sessions (Sessions). Webhooks, mail and analytics are fed through BullMQ
queues and fall into the dead letters. The cron jobs share the tables with the handlers.

## Modules

```
Inventory   Promotions
      \      /
       Orders  ---implements--->  StockLedger       MCOrders      OrdersProofs
       Payments ---implements--->  PaymentLifecycle  MCPayments    PaymentsAndPlansProofs
       Webhooks (with the dead letters)              MCWebhooks    WebhooksProofs
       Sessions                                      MCSessions    SessionsProofs
       Accounts                                      MCAccounts    AccountsProofs
       Cart                                          MCCart        CartProofs
       Chat                                          MCChat        ChatProofs
       Caches                                        MCCaches      CachesProofs
       Plans                                         MCPlans       PaymentsAndPlansProofs
```

A module `MCx` extends `x` with definitions for TLC, a module `xProofs` extends it with theorems. Payments and Plans do not
interact, but share a module of theorems: the operators of Plans that every module has (`PlansInit`, `PlansNext`, `PlansSpec`,
`PlansTypeOK`, `planVars`) carry its name so that one module can extend both.

**Inventory**: one row per sku with `quantity` and `reserved`; `ReserveStock`, `ReleaseStock` and
`AdjustStock` are the three UPDATE statements of `inventory.service.ts`, with the WHERE clause of the
reservation and the `GREATEST(0, ...)` of the release.

**Promotions**: `used_count` per code and the rows of `promotion_usages`. Each operator is one statement
of `promotions.service.ts`. Discounts are not modelled: nothing about the counters depends on them.

**Orders** composes the two. Its processes are requests; the variable with the suffix `pc` says which
statement a request awaits next, the other process variables are the handler's local variables.

| Code in `orders.service.ts` | Actions |
|---|---|
| `createFromCart`, `createDirect` up to the first write | `Begin` |
| loop over the lines, `reserveStock` and the insert of its movement | `ReserveLine`, `ReserveRefused`, `ReserveUnrecorded` (units reserved, movement not written) |
| `promotionsService.reserveAndCalculate`: `validate`, then the conditional UPDATE | `CheckPromotion` or `RejectPromotion`; `TakePromotionSlot` or `SlotGone` |
| `generateOrderNumber` | `DrawNumber`, `DrawNumberFails` |
| the transaction inserting order and items | `InsertOrder`, `InsertRefused` |
| `recordUsage` and its catch block | `RecordUsage`, `RecordUsageFails`, `GiveSlotBack` |
| `releaseReserved`, `releaseSlot` in the other catch blocks | `UndoLine`, `EndUndo`, `UndoSlot` |
| `cancelOrder` | `CancelRead`; `CancelSwap` or `CancelConflict`; `CancelRelease` per line; `RevokeFind`, `RevokeRemove`, `RevokeSlot`, `RevokeFails` |
| `updateStatus` | `StaffRead`, `StaffWrite` |
| `adjustStock` | `Adjust` |
| death of a server process with its requests | `Crash` |

A checkout creates at most one order, so an order is named by its checkout. All orders are of one day and
none is soft-deleted, so that `generateOrderNumber` counts them all. `RejectPromotion` is always possible,
because an administrator may deactivate a code at any time. A statement either takes effect and answers, or
throws without effect; an effect whose acknowledgement is lost is not modelled, with the exception of the
movement insert, which leaves the reservation before it in place.

**StockLedger** is what Orders and Inventory promise together, without requests: units are promised one
promise at a time and only while they fit. Under the refinement mapping `stock` is `quantity` and
`promised[s]` is `HeldUnits(s)`, the units of `s` that a checkout under way, a live order, or a
cancellation that has not yet released them answers for.

**Payments**: a payment row, the requests creating it (`CheckNoPayment`, `InsertPayment` with the unique
index on `order_id`, `BuildUrl`), the callbacks (`Deliver` verifies, finds and reads the row; `SaveResult` saves the whole
entity it read; `Reply` or, with 400 or 404, `Refuse`), the refunds (`RefundRead`, `RefundSave`) and `Crash`. The gateway is
external: `Capture`, `Decline`, and notifications that it repeats and reorders. TypeORM writes each column that
differs from what it reads when saving; this is taken as one atomic write of the row.

A notification is the set of fields it is sent with (`Carried`). The global validation pipe keeps those that
`PaymentCallbackDto` declares (`Body`), and what is left decides everything: whether the signature of VNPay or MoMo, taken over all
fields that were sent, still verifies (`Verifies`); whether the payment is found, by the field each gateway is looked up with
(`Finds`); whether the outcome is read as a success (`StatesResult`); whether an amount is compared (`AmountStated`; the
code compares none where it finds none); and whether the transaction is recorded (`NamesTransaction`). The fields of each payment's
notifications are a constant, and the theorems hold for any. Abstracted are the computation of the signatures, the amounts
themselves (right, wrong or absent) and the currencies.

**PaymentLifecycle** is the lifecycle of one payment status, which Payments implements with any number of callbacks at once. Its
one exception is `overtaken`: a payment that was paid or refunded, and then overwritten by a callback that had read it before.

**Webhooks**: the `webhook` queue (BullMQ, external), the processor (`Take`, `Post`, `SaveHook`, `LogDelivery`, `Complete` or `Fail`,
`Bury`), the retry cron of every process (`Acquire`, `Select`, `Enqueue`, `MarkRow`), the Redis lock with its expiry, an administrator
retrying deliveries or switching the webhook off or deleting it, and deaths. Each read and save of the processor may throw: the
queue then counts an attempt that has left no delivery, which the history `unlogged` remembers. A job whose worker died is
handed out again, but only once (`MaxStalledCount`, the default of BullMQ, which the code does not change): the second death
fails it, and the listener writes no dead letter as attempts are left. The lock expires at any time, also under a run, which
then belongs to `outlived` until it ends. The history `been` holds what the webhook has been besides active. Time is abstract: a
`next_retry_at` may have passed whenever the cron looks.

`EventAccounted` says where an event that was triggered is: with the receiver, in a job, in a dead letter, or, after a fault or a
time switched off, in a failed delivery that the cron job still finds. It excepts a webhook that was deleted, a job of which every
attempt below the limit threw before its delivery was logged (`NeverLogged`), and a job whose worker died twice (`StalledOut`). In
the last two the code may lose the event; an outage of the database over all attempts and `moveToDlq` is a case of the first.

The dead letters are part of **Webhooks**, because a retry puts a job in the same queue: an administrator's `retry` reads
the letter (`RetryLetter`), queues the job (`Requeue`) and saves the letter it read (`SaveLetter`); `purge` reads it, saves
it as purged and soft-deletes it (`PurgeLetter`, `SavePurged`, `RemoveLetter`).

**Sessions**: the refresh tokens of one user. A token is a signed payload of the user and the second of its issue and has
nothing random in it, so tokens are named by their second and two issues of one second collide in the unique index
(`IssueFails`). `refreshToken` is `FindNothing`, `FindRevoked` (reported as reuse, ends all sessions) or `FindLive`, then
`RevokeRow`, `ReadUser`, `Issue`; a login `ReadUser`, `SaveUser`, `Issue`; `logout` is `FindForLogout`, `RevokeRow`. Change and
reset of the password and the removal of a user end in `RevokeAll`. A browser keeps its token in a cookie; a request carries the
cookie as it was when it was sent, and a reply may be lost (`Lose`). History variables say which tokens are older than the last
`RevokeAll`, whose ancestors were being issued while it ran, and by what each was revoked.

**Accounts**: the row of one user and the lockout counter. The counter is read (`CheckLockout`), counted (`Incr`) and given its
time to live (`Expire`) by separate calls. `Find` and `Save` are `BaseService.update`: the entity read is saved, so columns that
others have written meanwhile are written back. The backup codes are consumed by a guarded UPDATE (`Consume`). The history
variables `retired` and `restored` hold values that were replaced or consumed, and those that such a save has put back.

**Cart**: carts of a user and of a guest and their lines. Nothing is transactional. Lines without variant never collide in the
unique index on cart, product and variant, because its column is nullable (`Collides`). `save` of an entity inserts the row again
if it was deleted (`Saved`). The merge reads the guest's cart and the user's, deals with the guest's lines one by one (`Skip`,
`AddToMine`, `AddAsNew`), and saves the guest's cart with the lines it had read, which fails when it has got another one
meanwhile (`FinishFails`). Prices are left out; whether the stock suffices is a choice.

**Chat**: one conversation. A message is inserted and the conversation patched after it with a counter computed from a copy
(`Insert`, `Patch`); `triggerAiReply` is `Check`, `Think`, the message of the AI, `SaveMeta`, or `AiFails` and the apology of the
system with its blind change of the status (`LeaveToAgent`). `SaveCopy` is the save of the entity by an assignment or a closing.

**Caches**: one key, of the settings or of the flags, in the cache of every process. The value does not matter, only for how
long it has been superseded; every copy counts its own age, so there is no clock to bound. `Look`, `FindRow`, `Fill` are a read
that misses; the steps of a write are given by `StepsOf`: `bulkSet` invalidates, saves and invalidates, the PUT of one setting saves
only, flags save and invalidate.

**Plans**: the subscriptions of one tenant and its usage of one metric. `LockSub` takes the row locks of `SELECT ... FOR UPDATE`,
which `Save` of another request waits for and the insert of a new subscription does not; `SumUsage` and `Commit` end the
transaction. A period is the second it starts at and its length, the trial's or the billing cycle's.

The operators with an underscore, `CancelSwap_Blind` for example, are mutants: the definition they are named
after as it would be with a plausible mistake. No specification uses them; putting one in the place of
the original makes TLC report the property it is paired with in `PROJECT.json`.

## Runs

Every passing run finishes in about two minutes with two workers. Deadlock is not checked where requests are finite in number, or
the number of jobs is bounded: there the system may come to rest. In Caches it is checked.

| Run | Instance | Shows |
|---|---|---|
| `orders_core` (74,536 states) | 3 checkouts, 2 cancellations, no faults; two of the checkouts want the same two skus in opposite orders, stock 0..2, one code with one use | `StockConserved`, `SlotsConserved`: no unit and no slot leaks or is returned twice; `NumbersGapless`; `ImplementsLedger`; `ReservationsSettle` |
| `orders_faults` (319,719) | 2 checkouts, 2 cancellations, at most 2 faults at any statement, crashes included; `mug` may be backordered | `StockNeverUndercounted`, `SlotsNeverUndercounted`: a failure leaves too much reserved, never too little; `UsageLimitKept`, `NoOversell`, `ImplementsLedger` |
| `orders_staff` (1,484,546) | 1 checkout, 2 cancellations, 2 members of staff following the workflow | `TypeOK` (no counter below 0, whatever is released twice), `DeliveredNotCancelled` |
| `payments` (162,393) | 3 requests for one order: MoMo with an amount, VNPay without, VNPay with `vnp_Amount`, which is refused; 2 callbacks at a time, 1 refund, 1 crash | `OnePaymentPerOrder`, `PaidRecordsCapture`, `ImplementsLifecycle`, `CapturedIsRecorded` |
| `webhooks` (315,802) | 1 event, 1 worker, the cron of 2 processes, 1 request about dead letters, 2 attempts; at most 2 jobs, and at most 3 jobs, faults, runs past their lock and ways the webhook is switched off together | `EventAccounted`, `CronExclusive`, `RetriesEnd` |
| `sessions` (1,238,716) | 2 browsers, 2 requests at a time, 5 in all, 3 seconds, tokens that live 2 | `ParentSpent`, `OldSessionsEnd`, `ReuseHasCause` |
| `accounts` (1,593,238) | 2 requests at a time, 5 in all, 2 attempts, 2 passwords, codes and reset tokens | `GuessesBounded`, `LockoutEnds`, `CodeLetsInOnce`, `RetiredStaysOut` |
| `cart` (723,674) | 3 requests at a time, 4 in all, a product with and one without variant, 4 carts, 4 lines | `CartsBounded`, `AddsKept`, `MovedOnce`, `NotStranded` |
| `chat` (734,409) | 2 requests at a time, 4 in all, of the customer, agents, the AI and the cron job | `BadgeShown`, `ReopenedLate`, `QuestionAnswered` |
| `caches` (1,446,547) | 2 processes, 3 fetches or writes at a time without end, a time to live of 2, fetches of up to 2 | `StaleBounded`, `OwnWritesSeen` |
| `plans` (862,097) | 2 requests at a time, 6 in all, 3 subscriptions, a plan with a short trial and one without, 2 seconds | `QuotaKept`, `OneActive` |

Why these bounds: the hazards of Orders are races of two requests over one row, or of one request with one
failure between two of its statements. Two checkouts with two lines each in opposite orders meet in every way,
the third competes for what they give back; stock between nothing and 2 covers the cases where both,
one or none fit; two faults cover a failure in the compensation of another failure. Two attempts are the fewest
with a retry, and the second job is the one the cron or an administrator adds. `Budget` leaves one job and two mishaps, or two jobs
and one: enough for a worker that dies twice, for an attempt that throws before the webhook is switched off, and for a run that
outlives its lock while the next one selects; two runs both between `Enqueue` and `MarkRow` would take a third job. One handler
reads a payment while the other saves it, and the three payments differ in what the pipe leaves of their notifications. In Sessions and Accounts two
requests meet between any two statements and the others make the history before and after them: five are enough for a login, a
refresh whose reply is lost, its repetition and a revocation. In Cart two additions and two merges are needed, and a third
request at a time to have three carts. The caches run without end. `MaxQuantity`, `MaxFaults`, `MaxCrashes`, `MaxJobs`, `Budget`, `MaxAttempts`
(5 in the code for webhooks and for logins), `MaxOps`, `MaxSent`, `MaxNow`, `MaxCarts`, `MaxLines`, `MaxSubs` and `MaxWait` are the only bounds;
of these only the attempts exist in the code.

### Where the code does not do what it says

The run `orders_cancel_vs_staff` ends with a counterexample to what a comment in `cancelOrder` says (quoted in `PROJECT.json`):
`updateStatus` reads the order, a cancellation wins its UPDATE and releases the stock, `updateStatus` saves: the order lives and
its stock is sold again (`CancelledStaysCancelled`).

The models have other behaviours that a text of the repository excludes, or that a reader of the code would not expect. No
property claims the contrary, and several properties name them as the exception.

- *Orders.* A cancellation between the commit of the order and `recordUsage` finds no usage row; the row written afterwards
  stays with the cancelled order and its slot is lost (`promotions.service.ts:199-200` says the use is undone). Two checkouts of
  one customer pass `validate` before either has a usage row, so `per_user_limit` (`docs/BUSINESS-FEATURES.md:436`) is passed.
  `generateOrderNumber` throws outside every try block (`orders.service.ts:248`, against lines 170-171): stock and slot stay
  reserved for nobody. When `recordUsage` fails the order keeps its discount without a usage row. Nothing ever takes delivered
  units out of `quantity`.
- *Payments.* `docs/CHANGELOG.md:183-186` lists the verification of the callbacks. A notification as VNPay or MoMo signs it does not
  pass it: the pipe has removed signed fields that `PaymentCallbackDto` does not declare (`vnp_Amount` and others; MoMo's
  `orderId`, `requestId`, `extraData`), so the signature does not match and the answer is 400. Stripe's events verify but have no
  `order_id` at their top level, and the answer is 404. Line 66 there says the amount is compared before a payment is marked
  paid: `vnp_Amount` never passes the pipe, so VNPay's is never compared, and a body without an amount is recorded as paid. Of the zero-decimal
  currencies of `toStripeAmount`, `extractCallbackAmount` knows three. Two callbacks read a row as pending; the one of the
  declined attempt saves last and turns paid to failed (`payments.service.ts:119-120` excludes it). Two concurrent refunds of
  one payment both succeed. A customer whose payment URL could not be built can never pay, since a payment for the order exists.
  Neither `createPayment` nor `processCallback` looks at the status of the order, so an order that is being cancelled can be paid.
- *Webhooks.* Comments say that the cron job moves exhausted deliveries to the dead letters (`webhook.processor.ts:273`,
  `webhook-retry.cron.ts:24` and `:81`); its query wants a `next_retry_at`, which `saveDelivery` leaves null at the limit (line 286), so it
  finds none. The cron sets `next_retry_at` to null "so that the next run does not pick the row again" (lines 74-75 of the cron), and
  its first query selects null (line 58): a failed row below the limit is queued anew in every run, for ever, delivered or not, and
  200 such rows, being the oldest, keep newer ones from being selected. An event is lost when the database throws in every attempt and in
  `moveToDlq`, and when the worker of its job dies twice. The save after a post writes back `is_active` and
  `deleted_at` as they were before it (`webhook.processor.ts:239-246`). A dead letter that was purged but not yet removed can be
  retried, the save of a retry brings a removed letter back, and two retries of one letter at once queue it twice.
- *Sessions.* Two tokens of one user and second are equal; the second insert fails, after the old token was revoked. A token
  revoked by a change of password and presented later is reported as reuse and ends the sessions opened since. `refreshToken` does
  not look at `is_active`. The second rule of the cleanup job deletes nothing the first has left.
- *Accounts.* The save of `last_login_at` at the end of a login writes the whole entity: a password changed, a code used or a
  user switched off meanwhile is written back.
- *Cart.* Two lines of one product without variant can stand in a cart, though `cart-item.entity.ts:7` says the index prevents
  it. A line that was removed comes back with a save of its quantity. An owner may have two active carts. `markAbandoned` has no
  caller and no cart becomes `CONVERTED`.
- *Chat.* The apology for a failed answer sets the status blindly and reopens a conversation closed meanwhile. An answer of
  the AI leaves `WAITING_AGENT` as it is, so the cron job answers again in every run. Assignment and closing save old counters.
- *Plans.* `subscribe` does not cancel a subscription that is trialing; overlapping subscribes leave several active.
  `assertQuotaAvailable`, which other services are to call first (`plans.service.ts:225`), has no caller, and nor have
  `recordUsage` and `renew`; nobody looks at `current_period_end`.
- *Settings.* `set` invalidates before it saves; only the last line of `bulkSet` makes up for it, and not when a later key
  fails. `PUT /settings/:key` never invalidates. Other processes learn of a change by the time to live only.

## Fairness

Safety is checked and proved without fairness. `ReservationsSettle` assumes weak fairness of each checkout and
each cancellation that has started: Node runs a handler on once its statement has answered or thrown. No client
has to send a request. `CapturedIsRecorded` assumes weak fairness of a callback that has started, and that
the gateway repeats the notification of a capture while it has no answer to it (strong fairness, because all handlers may be busy from
time to time). It is stated for payments whose notifications are understood. `RetriesEnd` assumes that a worker runs on, and that the queue hands out every waiting job (strong
fairness again, because other jobs may be taken first); `Post` ends because of `AbortSignal.timeout`. `QuestionAnswered` assumes weak
fairness of the handlers of a conversation that have started, the call to the model among them (its client has a timeout); no
request has to come and no call has to fail.

## Proofs

`PROJECT.json` lists the theorems. They hold for any number of requests, lines, codes, staff, faults and crashes;
the assumptions on constants are the named `ASSUME`s of the modules.

**OrdersProofs** shows `TypeCorrect` and `NumbersAreGapless`. `TypeOK` is not inductive: releasing line `cline[k]`
requires that the line exists, so `TypeInv` adds where a request stands in its lines (`CheckoutPlaced`,
`CancelPlaced`). For the numbers, `NumberInv` adds `DrawnBound`, that a number drawn is at most one more than the number of
orders, since orders are only ever added; a number that is neither taken nor larger is the next one.

The second part of **OrdersProofs** shows that the stock is covered. `Coherent` adds to the types where a checkout has what: a
checkout that has not reached the end of its insert has no row, and at most one cancellation is undoing an order, which
is then cancelled. On it rests `NextEffect`: every step either reserves the units of one line and makes them held,
or withdraws at most the units it releases, or leaves both alone (`StockEffect`). Counting those units in finite sets
(`StockReserved`, `StockReleased`) gives `StockCovered`; with the guard of the reserving UPDATE it gives
`NothingSoldTwice`; and the same description of a step shows that it is a step of the ledger, `OrdersImplementLedger`.

It does the same for promotion slots: a slot is held by a checkout, then by a usage row, then by
the cancellation that revokes it (`SlotsCovered`), and with the conditional UPDATE no code is used too often
(`CodesWithinLimit`). `DeliveredStaysDelivered` proves the compare-and-swap of `cancelOrder`.

When no statement fails the inequalities are equalities (`StockIsConserved`, `SlotsAreConserved`). `Unbroken` says of a checkout that it has
given back whatever it gives up and that its usage row comes last; `ExactEffect` and `SlotEffect` are the other half of
`StockEffect`: no step withdraws more than it releases. That the counters never reach the floor of `releaseStock` and `releaseSlot`
follows from the inequality proved first.

Four hypotheses appear in the statements.

- `CancelledStaysCancelled`, for the theorems on stock and slots. It is what `orders_cancel_vs_staff` refutes: a
  status change that revives a cancelled order makes it hold units it has given back, and no theorem on stock
  can hold. `OnlyStaffRevives` proves that staff alone can break it: with `Admins = {}` the theorems hold without a
  hypothesis.
- `Deltas \subseteq Nat`, for `NothingSoldTwice` and `OrdersImplementLedger`. `adjustStock` compares the new quantity with
  0 and not with `reserved`, so an adjustment downwards can leave less than is promised.
- `Faults = {}`, for the equalities: a release that fails, or a checkout that dies, leaves too much reserved.
- No staff move to "cancelled", for `StockIsConserved` and `DeliveredStaysDelivered`: `updateStatus` accepts it and releases nothing.

The first part of **PaymentsAndPlansProofs** shows `PaidIsCaptured`, `OnePaymentForEver` and `PaymentsImplementLifecycle` for any number
of concurrent callbacks and refunds and for notifications with any fields. `PaidRecordsCapture` is not inductive, because handlers save rows
they read earlier: `IInv` says of every copy of a row held by a handler what it says of the row (`CopiesInv`), and of
the gateway that what it notifies has happened (`GatewayInv`). That a result is backed by a capture is `ResultBacked`, a lemma about `Result`: a
payment becomes paid by an exact capture or, where no amount is stated, by any. For the lifecycle `LifeInv` adds that a copy
about to be saved by a callback was not settled, and that the row a refund is about to save is settled or overtaken. Where the row has been settled since,
the step maps to the move to `overtaken`.

**SessionsProofs** shows `ParentTheorem`, `OldSessionsTheorem` and `ReuseTheorem` for any number of browsers, requests and seconds. `ParentSpent` says
nothing of a refresh that has revoked its token and not yet issued the next one; the invariant adds that its token is spent, and that a
token is issued after its parent. For `OldSessionsEnd` it says of every request that is issuing what the property says of the token.
`ReuseHasCause` needs three more: a token belongs to one browser, and before it is issued to none (`OwnersInv`); a browser that waits
has one request under way, which carries the token of its cookie, and only that request can exchange the token or clear the cookie
(`SingleInv`); and what is revoked has a cause (`CauseInv`).

**AccountsProofs** shows all four properties of Accounts. `GuessesBounded` needs counting: the guesses made, plus the requests that
have passed the lockout and will guess, are bounded by the count, the requests under way and the dead ones. `RetiredStaysOut` and
`CodeLetsInOnce` rest on what entities may hold that were read and not saved.

**ChatProofs** shows `BadgeTheorem` and `ReopenedTheorem`: the invariant says of every step between two statements what the counter
and the messages then are. **CachesProofs** shows `StaleTheorem` and `OwnWritesTheorem`: it relates the age of each fetch to that
of the value it has read, and a write under way to the entries it will still remove. The second part of **PaymentsAndPlansProofs** shows
`QuotaTheorem` and `OneActiveTheorem`: whoever is past `LockSub` holds the lock, the newest subscription alone can be active, and nobody
changes what is counted while the lock is held.

**WebhooksProofs** shows `AccountedTheorem` and `ExclusiveTheorem`, for any number of faults. `EventAccounted` is not inductive: that a job
which ended as completed leaves the event somewhere else depends on what its last attempt wrote. `JobInv` says it of a single
job and its log of deliveries: either a delivery below the limit has failed, or all attempts so far threw (`Missed`), and when attempts
have run out the latter is the exception `NeverLogged`. `OutcomeInv` says it of a worker between two statements. `BeenInv` says that what a worker read of the webhook is in its
history, and `LastInv` that every triggered event has a last job, whose outcome decides. `MaxAttempts` is at least 2
(`WebhooksAssumption`): with a single attempt the delivery that a switched-off webhook fails would not be repeated. `ExclusiveTheorem` rests on `CronInv`: a run under way has the lock or has outlived it.

**CartProofs** shows all four properties of Cart, for any number of owners, items, requests, carts and lines, under overlapping adds,
updates, removals and merges. Its invariant has a part for each of them.

- `CartsBounded` needs `CountInv`: the active carts of an owner and the requests about to create one are together at most as many as
  there are requests, because a request goes on to create a cart only where none is active.
- `AddsKept` is inductive with the types: the increment is one UPDATE of the row, and a save that overwrites a quantity is no add.
- `NotStranded` rests on `DealtInv`: the lines a merge has read and has no longer to deal with have been moved, and `moved` never
  shrinks; so when the guest's cart is saved as merged, none of the lines that were read is left in it.
- `MovedOnce` is the hard one. `BelongsTo` says that a line is in a cart or in the copy some request may still save there, and `HomeInv`
  that it belongs to one cart at most, deleted and inserted again as it may be. With it `QuietInv` can say where the moved lines are: in a
  merged cart, which no later merge reads, or in the one being merged, where they have been dealt with.

A step changes one request and few rows. `Changes` says this of every action once, and the proofs of the parts use it.

Each of the modules also shows the type invariant (`TypeCorrect`, `PaymentsTypeCorrect`, `PlansTypeCorrect`), on which all else rests.

Only checked by TLC: the liveness properties `ReservationsSettle`, `CapturedIsRecorded`, `RetriesEnd` and `QuestionAnswered`, since the
prover handles neither fairness nor ENABLED. Every safety property of a passing run is a theorem, under the hypotheses named above.

## Not modelled

- Adjustments downwards, skus without an inventory row (two adjustments may insert two), staff moves outside the
  workflow (`updateStatus` itself accepts any), soft-deleted orders, orders of several days.
- Discounts, totals, shipping fees and currencies.
- Reactivation, creation and editing of webhooks; `failure_count`; the 200 rows a cron run selects at most; dead letters of other queues.
- Registration, verification of the mail address, setup of the authenticator, linking of OAuth accounts.
- The scenarios, follow-up messages and abandoned-cart reminders of the chat, its rooms and rate limits, and the tools of the AI.
- Tenants and users: read-merge-save of single rows; modelled once, in Accounts.
- Media, mail, notifications, catalogue, content, reporting and export, API keys: edits and queries of single rows, or calls
  to libraries, without a protocol between actors.
- Frontend and deployment: clients of the API, and configuration.

Most of the repository is of the last two kinds (pages of the frontend, queries, formatting, configuration), which is why the
models cover a small share of its lines.

## Plan

What would come next, in this order: Orders with unrestricted staff moves and adjustments downwards; Payments composed with
Orders (a payment for an order that is being cancelled); the cron jobs of the chat; registration and verification in Accounts.
