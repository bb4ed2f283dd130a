# Formal models of the secret shop (xianyu-coupons)

The system sells digital goods on the Xianyu marketplace. A seller connects
accounts; a websocket service listens to the messages of each account and, when
an order is paid, confirms it to the platform and sends the buyer a *secret*
(卡密: a code or a picture) out of a stock. A scheduler looks after orders that
were missed and relists or takes offline the items; a web backend gives the
seller a user interface, keeps the users' balances and passes calls on. All of
them share one MySQL database and one Redis. When the platform answers a call
with a slider captcha, the websocket service solves it in a browser.

This directory holds TLA+ models of the core of that system, the TLC runs that
check them, and TLAPS proofs. Paths below are relative to the repository.

```
tlc -config delivery_strict.cfg MCOrderDelivery      # any row of the table of runs
tlapm WalletProofs.tla                               # or any other module named ...Proofs
```

## 1. Inventory

| Component | State | Operations | What makes it correct |
| --- | --- | --- | --- |
| **Secret stock** `common/services/card_secret_service.py`, table `xy_card_secrets` | rows available or used, order number; row locks of open transactions | `take_one`, `release`, `add_batch`, `add_batch_images`, `stock_of` | a secret is sold once, to one order; a rollback leaves no trace |
| **Delivery hook** `auto_delivery_handler.py` 42-167 | the stock task list in Redis | `deliver_data_card_secret`, `enqueue_stock_task` | the sale of the last secret takes the item offline |
| **Stock task worker, guard** `stock_task_worker.py`, `stock_guard_task.py`, `item_relist_service.py` | queue, delayed set, task in hand, item ids in two tables | `process_stock_task`, `drain_queue`, `requeue_task`, `relist_and_remap`, `run` | no waiting task is lost, failures are retried and end, an empty item is not on sale |
| **Distributed lock** `common/db/redis_client.py` | one key per order, value, 120 s to live | `acquire`, `release`, `try_acquire_delivery_lock` | one holder; nobody deletes another's lock |
| **Order delivery** `auto_delivery_handler.py`, `internal.py` (deliver endpoint), `redelivery_task.py`, both `http_client.py`, `orders.py` (the button) | order status and content, hold, cooldown and note in memory, lock, platform's view | `_handle_auto_delivery`, `_auto_delivery`, `deliver_order`, `_process_order`, `auto_confirm` | one secret per order, traceable; confirmation and goods in the order the seller set; every order ends as shipped |
| **Balances**: settlement and distribution `common/services/settlement_service.py`, `_create_agent_order`; recharge, withdrawal, renewal, adjustment `recharge_service.py`, `settlement_service.py` (backend); pickups `pickup_service.py`; adverts `advertisements.py` | balance rows and their locks, flows, recharge orders, withdrawals, agent orders | notices, reviews, `settle_level1_order`, `settle_level2_order`, `pickup`, `ad_payment_notify` | flows continue one another, a settlement moves all its money or none, a payment is credited once, a verdict stands, nobody is stuck in a deadlock |
| **Account life cycle** `cookie_manager.py`, `xianyu_async.py`, `internal.py`, `cookies.py` | task, instance and registration of an account, its lock, its status | start, stop, restart, update, an instance's own restart, cancellation | one live task which the manager knows; a disabled account's connection is closed; every call ends |
| **Tokens** `cookie_token_manager.py`, `xianyu_async.py` (`main`, `init`), `token_manager.py`, `token_renewal_task.py`, `token_renewal_cache_service.py`, table `xy_token_cache` | cached row with its two dates, token and device in memory, counters, the connection | `refresh_token`, `main`'s rounds, promotion, marking, renewal by the scheduler | token and device stay paired, a failure costs no valid token, an expired token serves once, the rounds end or connect |
| **Captcha admission** `remote_captcha_admission_service.py`, `captcha.py`, `risk_control_log_*_service.py` | processing logs, admission lock, account locks, cooldown | `check_admission_with_redis_log`, `slider_solve`, `solve_captcha`, clean-up at a start | the limit holds, one slider per account, logs do not stay processing for ever |
| **Sliders and logins** `common/services/captcha/weighted_runner.py`, `concurrency.py`, `slider_stealth.py`, `password_login.py` | queue of mouse tasks, credits, thread pool, slots, account browser locks | `submit`, dispatcher, `acquire`, `release`, face verification, `close` | fair turns, no more browsers than slots, everybody has a turn |
| Messages and replies, platform clients, images and tracks of a slider, publishing, other scheduled tasks, administration, launcher | mostly none that is shared | one request or one browser at a time | see section 8 |

How they interact: by function calls inside the websocket process (many
coroutines of one event loop, which interleave at every `await`, and the threads
of the browsers); by HTTP from the scheduler and the web backend to the
websocket service's internal API, with retries or with a time limit after which
nobody waits; through rows, Redis keys and Redis lists that all processes share;
and through the platform, whose answers may be late, lost or refusals.

What is hard: several coroutines and processes deliver the same order; a lock
may expire or Redis may fail; a non-idempotent request is posted again; the
process dies between the confirmation and the goods; a task is retried after a
later one has been carried out; transactions read what others are about to
change, wait for each other's rows in circles and are cut off in the middle;
calls for one account overtake one another while they wait for a task to end; a
log that stands for work outlives the work, or the work outlives the log.
`PROJECT.json` lists each of these with its line.

## 2. Plan

Modules are written in this order, the most important behaviour first. All of
them have their parameters as constants with assumptions, one action per
operation, and no recursive operators, so that they can be proved about.

| Step | Module | Composes | Status |
| --- | --- | --- | --- |
| 1 | `SecretLedger` (abstract), `CardSecretStock` | the stock refines the ledger | done, proved |
| 2 | `StockTaskWorker` | sales with their snapshots and locks, on both paths | done, safety proved |
| 3 | `OrderDelivery` | lock, handlers, endpoint, scheduler, platform; a take of the stock as one step | done, proved in part |
| 4 | `Bank` (abstract), `Wallet` | settlements, recharges, withdrawals, pickups, adverts; the wallet refines the bank | done, safety and refinement proved |
| 5 | `AccountTasks` | calls, manager, task and instance of an account | done, safety proved |
| 6 | `SliderLogs` | web backend, Redis, database and websocket service around a slider | done, safety proved |
| 7 | `SliderTasks` | weighted queue, thread pool, slots, account locks | done, safety proved |
| 8 | `AccountTokens` | rounds of `main`, refreshes, cached row, renewal | done, safety proved |
| 9 | handler fields (`_current_buyer_fish_nick`, `_last_delivery_fail_reason`) shared by the coroutines of an account | interleaving of two orders | open |
| 10 | orders of several pieces, orders closed by the pre-check (`card_only`) | extends step 3 | open |

Proofs still open: `IssuedOnce` for posts that overlap (the platform's single
confirmation instead of the lock).

## 3. Modules

**`SecretLedger`** says what the table promises: a secret enters the stock once,
is sold to one order, a recorded sale stays.

**`CardSecretStock`** opens up the transactions. `secrets` is the committed
table; `att[d]` is one delivery attempt with its open transaction (the row it
locked, the snapshot its `SELECT COUNT` will see); `imp` the restock requests;
`stockTasks` the Redis list. One action per statement or call that another
transaction could interleave with: `OpenSession`, `TakeOne` / `TakeNone`
(`FOR UPDATE SKIP LOCKED`), `SendReturns` / `SendRaises` (the callback),
`CountStock`, `QueueStockTask`, `CommitSale`, `Abort`, `ReadExisting`,
`InsertNew`. Two paths use it: the hook for a seller's own cards, and the plain
take of distributed cards, the endpoint and the pickup page.
The isolation level is MySQL's default, REPEATABLE READ, since the code sets
none: the count is taken in the snapshot, the locking read is not.
**`CardSecretStockHistory`** adds the variable `alone`, for the one property that
speaks about attempts made one after the other.

**`StockTaskWorker`** models `drain_queue` command by command (`ZRANGEBYSCORE`,
then `RPUSH` and `ZREM` of each, then `LPOP`, execution, commit, `ZADD`), since
the process can die or a second drain can run between any two. `listing` is the
platform, `bound` the item id the database has. A relisting may give the item a
new id; the old one is then unknown to the platform. The guard's patrol does
nothing in the code as it is (`is_item_online` is a stub that answers False,
and nobody sets `relist_enabled`), so its `run` is a drain.
The tasks come from sales that may overlap (`sale`): a session with its snapshot
(`OpenSession`), the oldest secret nobody has locked (`TakeOne`, `TakeNone`), the
count in that snapshot and the push (`QueueTask`), the commit. The plain path goes
from the secret to the commit with no task; the hook that finds no secret queues
an offline task. Any command to Redis may fail, or be carried out with its
answer lost; the client (`redis_client.py:37-39`: five seconds, `retry_on_timeout`)
sends it once more, so that a task is pushed twice (`PushAgain`, `QueueAgain`) or
taken by nobody (`PopUnheard`). An error that remains ends the drain (`BreakOff`).
`gaps`, `unheard` and `outcome` are history: which of the ways to miss an offline
task a behaviour has met, which tasks went with a lost answer, what the log says.

**`OrderDelivery`** has one order and everyone who may deliver it. `pc` is the
place of each actor: handler coroutines, the scheduler's pass, the button, and
the requests (`Post`) that the last two start and may start again. A handler and
a request go through the same places (`deciding` to `recording`) because
`_auto_delivery` and `deliver_order` contain the same steps; where the two
differ the definition says so (`NoConfirm`, `Forbidden`, `Noticed`, `End`). The
places follow the `await`s: between two of them nothing else can run in the
process. `held`, `cooled` and `noted` are the three memories of the handlers'
process, and die with it; `lock` does not. A message fails in one of three ways:
the platform rejects it in time, which both paths notice; the helper reports that no
attempt got through, which only the handler notices, since the endpoint drops the
result of a text; or it is lost behind the connection, and nobody notices. `taken`, `sent` and `excuse` are history; `excuse` says that an
order which promises the goods first was shipped by the seller, or confirmed by
who had sent a message whose failure it did not notice.

**`Bank`** says what the wallet promises: a transfer is made once, whole, in one
step, or never. **`Wallet`** has the balance rows with their locks (`holder`),
the flows of open transactions (`written`) and of committed ones (`flows`), and
for each job the entries it has yet to book (`todo`). A job begins by what it
reads without a lock (`ReadOrder`, `PreCheck`, `ReadAdvert`, ...), books entry by
entry (`Book`: lock the row, read, write, keep the lock) and ends with `Commit`,
`CutOff` (the exception that `_create_agent_order` swallows, after which what was
booked is committed), `Abort` or `Victim` (InnoDB rolls one of a circle of
waiters back). A pickup first locks all its parties in the order of their ids.
A delivery reads prices, fee and bearer twice, in two sessions: `PreCheck` finds any of
the earlier offers in `Quotes`, the settlement books the `Terms` the card has by then.
History: `quoted`, the offer the check found; `seen`, how many flows the dealer had at
the check, and the user of an order when a notice read the order.

**`AccountTasks`** has one account, since `CookieManager` keeps everything per
account. `pc` is the place of each call, `state` that of each task, which is
named after the call that created it. A lock is named after the call that made
it, because a removal throws it away (`Remove`) and the next call makes another
(`LockFor`). The actions follow the `await`s; a cancellation is asked for
(`asked`) and seen when the task next runs (`Cancelled`). `lapses` is a history
variable: it records which of the known gaps of the exclusion a behaviour has met.

**`SliderLogs`** has remote calls, each with a request in the web backend
(`request`) and a job in the websocket service (`job`), local calls of one
account, and the log of each (`logs`). `Arrive` keeps what the request's own
session saw, since `FallBack` counts in it; `Check` counts in a new session
under the Redis lock and `Create` commits the log before the release. `Claim`
takes over whatever log it was given. A local call whose solving raises (`Raise`) or
whose task is cancelled (`Cancel`) first stores refetched cookies (the place "storing") and
then closes its log (`Store`); a second cancellation meets it between the two and leaves the log.
`ServiceDies`, `CleanUp` and `Serve` are the restart. `excused` and `lost` are history: calls the limit does not bind,
logs nobody is left to close.

**`SliderTasks`** has the weighted queue in front of the one mouse (`Submit`,
`Cancel`, `Choose`, `Weigh`, `Finish`), the thread pool (`Begin`) and the slots
and account locks that every browser takes (`TakeSlot`, `TakeLock`, `Close`). The
credits are scaled to integers. `extra` counts the slots given back twice,
`lead` the turns local tasks had beyond their share; both are history.

**`AccountTokens`** has the cached row (`row`), what one instance keeps (`mem`), the
round `main` is in with its counters (`main`), the connection (`ws`), the refresh
of `main` and of each loop (`ref`) and the scheduler's renewal (`sched`). Each place of
a refresh is an `await` in `refresh_token`; the statements after it, up to the next,
are one action, with what the caller does at once when the refresh returns
(`Done`: `main` counts, `init` registers). A refresh that calls itself again is the same
refresh at an earlier place (`Again`). A token is the number of its issue and
`boundTo` the device it was issued for; `world` says what may happen around the task (answers,
logins, faults, a loop, devices) and never changes; a date is fresh, soon (within the hour
the scheduler looks ahead) or past. `AnswerToken`, `Adopt` and `Store` are three
actions because the device of an answer, its token and its row are written with
awaits between. `Refetch` is the slider asking for a fresh link while a refresh solves:
the token it may get from the remote service is dropped, its device is kept in memory.
`lapses` (refreshes that overlap, a registration between device and token, a lookup of
the row that failed, a device changed under a token), `seen` and `marks` are history.

**`MC...`** modules hold the values and symmetry sets TLC needs. Definitions
marked *Seeded fault* are variants of an action with a plausible bug; no
specification uses them. They show that the property beside them can fail.

## 4. Runs

| Run | Instance | Shows |
| --- | --- | --- |
| `stock` | 2 rows, 3 overlapping attempts on 2 paths, 1 restock, every failure | `SoldOnce`, `UsageMatchesDeliveries`; the table implements the ledger (`ImplementsLedger`); `LastSaleTakesItemOffline` for attempts that did not overlap (`alone`) |
| `worker_faults` | 2 drains, 1 sale; failing platform, account lookup, remap and commit; one command of Redis that fails or loses its answer, one death; fairness | `WaitingTasksSurvive`, `TasksLeave` (and `TypeOK`) |
| `worker_retries` | 2 drains, 2 sales on either path that may overlap, 2 secrets and restocking, failing platform and remap, a new item id | `SoldOutItemIsOffline`, `EmptyRelistIsLate`, `FailuresRetried` |
| `delivery_strict` | 2 handlers, the scheduler (dying), 4 messages, lost answers, a seller who ships by hand, fairness | `IssuedOnce`, `LockExcludes`, `Traceable`, `OrderSettles` |
| `delivery_posts` | scheduler and button, 2 posts each, lost answers and posts, either process dies | `IssuedOnce` without any lock |
| `delivery_modes` | handler, scheduler, button, all settings, every fault (messages that fail unnoticed and a seller who ships by hand among them), slow holders | `ConfirmedAfterGoods` |
| `wallet_settlements` | 4 users; a delivery whose card is edited between check and booking, pickups of 1 and 2 levels (one with nobody to bear the fee), a recharge order with 2 notices that may overlap, an advert; waits that time out | `FlowsContinuous`, `SettledInFull`, `CreditedOnce`, `DeadlocksNeedDeliveries`, `OverdraftExplained` |
| `wallet_bank` | 3 users; a payment with 2 notices, a withdrawal with 2 reviews, a delivery, a pickup; fairness | `VerdictStands`, `JobsEnd`; the wallet implements the bank (`ImplementsBank`) |
| `account_calls` | a start, a stop, a restart and an instance's own restart; slow ends, failing connections, unreadable status, lost answers; fairness | `LiveTaskKnown`, `InstanceKnown`, `StoppedIsDown`, `CallsEnd` |
| `slider_logs` | 2 remote calls (1 names the account), a limit of 1, 2 local calls (1 may be cancelled, and again while it stores cookies), cooldown, failing Redis and database, deaths of both services; fairness | `LimitHolds`, `OneSliderPerAccount`, `SlotsComeBack` |
| `slider_tasks` | 4 mouse tasks; 2 sliders, a login and a user's login; 2 mouse tasks among 3 browser tasks; 1 slot, weights 1:2; fairness | `WithinLimit`, `TurnsInProportion`, `TasksEnd` |
| `tokens` | 2 tokens, limits of 1 and 2; five worlds: every answer and login; 2 starts with 2 devices; a loop beside `main`, refusals; a loop, captchas and refetches with another device; captchas, a failing database and other processes; fairness | `PairKept`, `FailuresSpareValid`, `FallbackOnce`, `UnseenTokenKept`, `ComesUp`, `PromotionReconnects` |

`TypeOK` is proved for every module (`TypeCorrect`), and run for the worker.

**Why the bounds are enough.** Two rows and three attempts are the least with
which one attempt finds every row locked while another still rolls back. Two
drains and two sales are the least with which a count is stale, an
offline task overtakes a relisting, or one LPOP loses what another drain pushed;
two secrets, one that may still come, let the stock be sold out and filled again.
`DrainLimit` of 1 or 2 instead of 100 makes the limit bite, `MaxRetry` of 1 instead of 5 keeps
the difference between a retry and a dead letter. One fault of Redis is enough: the
properties name what one lost answer does, and the theorems allow any number. Two handlers and the scheduler are the least with
which a lock has a holder, a waiter and a successor; two messages per handler
let the same coroutine slot come back after each memory has ended. Two posts per
caller (3 in the code) let an old request overlap a new one; the proofs need
neither bound. `MaxMessages` counts messages and clicks, `MaxRestarts` the deaths
of either process, `MaxSecrets` the stock ever added, `MaxGen` new item ids.

In `wallet_settlements` users 1 and 3 own cards and deal, 2 is the first level between
them, 3 the administrator too, and 4 pays for an advert. The delivery `d1` meets the rows in the
order 3, 2, 1 and a pickup locks them in the order of the ids, which a circle needs.
Opening balances of 3, and 0 for user 2, let checks pass, fail and be overtaken, and let the
first level fall below zero. The card of `d1` was dearer or cheaper when it was checked
(two earlier offers, `MCQuotes`), that of `p3` has nobody to bear the fee. The two
notices of one order are alike, so `Alike` may swap them. That each exception named in
`OverdraftExplained` and `CreditedOnce` is needed was seen by taking it away. Four calls on one account are the least with which a call waits
for a task, a second for the lock and a third throws the lock away. In `slider_logs`
a limit of one with two remote calls is the boundary itself. `slider_tasks` has
three loads instead of one large one: the queue alone, the browsers of two
accounts alone, and both with more tasks than the pool has threads
(`Workers == MaxSlots + 2`); tasks of the mouse come again without end.

Two tokens are the least with which a failure of the first can meet the second in
the row, and two devices the least that can be mixed up; limits of 1 and 2 instead of
3, 100, 5 and 5 keep apart a failure that is counted, one that is cleared and the
last one. What may happen around the task is a record, the variable `world`, chosen once
at the start: the five worlds of `MCAccountTokens` are five instances in one run. Everything
at once does not fit TLC, and need not: three of the properties except what comes of a loop
or a failing database, so they have worlds of their own, and together the worlds take every
action. The theorems of section 6 hold for any set of worlds.

In `stock`, `alone` is a history variable of `CardSecretStockHistory`: no two attempts were open at
once, all took over the hook path and no task was lost in Redis. The other properties of the
run make no use of it.

`CHECK_DEADLOCK FALSE` stands where attempts, messages, requests, calls, starts or
secrets run out and the system then rightly stops; `slider_logs` checks deadlock.

**Timers** over-approximate: a lock without `Slow` expires only when its holder
has stopped (a holder is done or its deliver request is), a cooldown or a note
(60 s, 300 s) outlasts the five seconds of a wait for the lock, and the hold
(600 s) outlasts both and an attempt. With `Slow` the lock may expire at any time.
A wait for a slot or an account lock may end whenever it is in vain. The 70
seconds after which a remote mouse task goes first end in the order of arrival.

## 5. Fairness

All of it is weak fairness of what one actor can do; none favours an outcome.

* `StockTaskWorker!Fairness`: the guard loop of `scheduler_service.py` 1046-1079
  calls `run` every 300 seconds whatever an earlier call raised, so a drain goes
  on and starts again, and time passes (a delayed task ripens). Nothing makes
  anyone buy or restock, and nothing forces a platform call to succeed.
* `OrderDelivery!Fairness`: a coroutine that runs goes on (every `await` in it has
  a timeout or is a call that returns or raises), the redelivery loop
  (`scheduler_service.py` 521-560) starts a pass again and again, Redis expires
  keys and the timers of the process end. Messages, clicks, restocking and the
  shipping by hand are not fair.
* `Wallet!Fairness`: a job that has begun goes on when its row is free, and InnoDB
  breaks circles (`innodb_deadlock_detect` is on by default). Nobody has to begin.
* `AccountTasks!FairSpec`: the event loop runs what is ready: the calls, the steps of
  a task that need no answer, its clean-up and the sight of a cancellation.
  Connections, answers and the sending of a call owe nothing.
* `SliderLogs!Fairness`: every wait of the web backend and every solving has a time
  limit, and `docker-compose.yml:131` restarts the websocket service when it has
  died. No call has to come, nothing has to fail or to succeed.
* `SliderTasks!Fairness`: the dispatcher, the threads and the browsers go on
  (`orchestrator.py` bounds each engine, `concurrency.py:340` and
  `slider_stealth.py:188` each wait), and 70 seconds pass.
* `AccountTokens!Fairness`: the event loop runs what is ready, and every call of a
  refresh has a time limit or ends. A connection that works need not end, a loop
  need not refresh, the scheduler need not renew, nobody need start or stop.
  `ComesUp` is about worlds whose failures are counted (`OnlyCounted`): excused ones
  (captchas, cooling down) and logins that succeed again and again may by design go on
  for ever.

## 6. Proofs

All are for any values of the constants that meet the assumption named in each
module (`StockAssumption`, `WorkerAssumption`, `DeliveryAssumption`, `WalletAssumption`,
`AccountAssumption`, `SliderAssumption`, `TasksAssumption`, `TokensAssumption`: identifiers differ,
bounds are numbers). TLC checked each inductive invariant before it was proved.

`CardSecretStockProofs`: `TypeCorrect`, `SecretsSoldOnce`, `UsageRecordsExact`, and
`StockImplementsLedger` (the refinement). The inductive invariant is `StockInv`.
`SoldOnce` alone is not inductive: that a fresh take hits a row nobody sold
needs `HeldRowsUnsold` (who holds a row has not committed it), and that a
committed sale is new needs `SecretsOfAttempts` (an attempt knows a secret
exactly while it holds the row or has sold it) and `OrdersOfAttempts`. A step is
one of four kinds, each with a lemma: it leaves table and locks alone
(`QuietStep`), takes (`TakeStep`), rolls back (`RollbackStep`), commits
(`CommitStep`) or inserts (`InsertStep`). `SellStep`, `RestockStep` and
`LedgerStep` map each to a step of the ledger or a stutter.
`LastSalesTakeItemOffline` (of `HistorySpec`) needs besides it `InTurn`, which holds
while `alone` does: what the one open attempt saw when it began is still for sale, so
that `left` says truly whether its secret was the last one it saw; once it has queued
its task, that task is the last of the list; and a stock that is sold out ends in an
offline task. What was restocked since the snapshot is for sale but not in it,
so that `left` may be wrong about the stock, but then the stock is not empty.

`StockTaskWorkerProofs`, for any number of products, drains, sales, faults, deaths,
retries and item ids:

| Theorem | Assumes | Says |
| --- | --- | --- |
| `TypeCorrect` | | `TypeOK`, and a drain has a task in hand exactly where the code has one |
| `WaitingSurvives` | | `WaitingTasksSurvive`: only an LPOP whose answer was lost loses a waiting task |
| `FailuresAreRetried` | account lookup, commit and Redis answer | `FailuresRetried`, for any drains and deaths |
| `EmptyRelistsAreLate` | | `EmptyRelistIsLate`, whatever overlaps, fails or dies |
| `SoldOutIsOffline` | | `SoldOutItemIsOffline`, likewise |

`WaitingTasksSurvive` is about every step, and its proof is about the one moment at
which a task is in two places: between `RPUSH` and `ZREM` another drain may take it off
the queue, and the `ZREM` would then remove the last trace of it. `Covered` says that
it is in that drain's hand, that the log says what became of it, or that it went with
a lost answer.
The last two are about products of which nobody has a secret any more and whose sales have
all queued what they queue, without one of the four gaps (`Calm`): a stale count, a
sale on the plain path, a push that failed, an offline task taken while another drain had the
relisting before it. `Ordered` says that then every first try of a relisting in the queue or in
hand has a first try of an offline task behind it (`Retries`: whatever comes out of the
delayed set is no first try), and needs `Locks` (a sale's secret is in the stock and
nobody else's). A product becomes calm by the push of an offline task, or by the commit
behind it. `Ending` adds that a calm product which is on sale has that offline task still to
come, unless an execution failed or a task went with a lost answer or a death, and
`Blamed` that a retry has a failure behind it. `FailuresAreRetried` keeps its assumption
because its conclusion is what the code promises for failures it catches; a drain that ends
by an exception puts nothing back (section 8).

`OrderDeliveryProofs`, for any number of handlers, posts, messages, deaths and
secrets:

| Theorem | Assumes | Says |
| --- | --- | --- |
| `TypeCorrect` | | `TypeOK` |
| `LockHeldByOne` | no lock expires under its holder | `LockExcludes`, also when Redis fails and processes die |
| `ReleasesOnlyOwn` | | `NoForeignRelease`, whatever expires, fails or dies |
| `ShippedWithReason` | | `ShippedForAReason`, whatever fails |
| `GoodsBeforeConfirmation` | | `ConfirmedAfterGoods`, for all ways a message can fail; the two exceptions are in the property |
| `SecretIssuedOnce`, `SecretTraced` | `Sound`, `ConfirmsFirst` | `IssuedOnce`, `Traceable` |

`Sound` and `ConfirmsFirst` (in that module) say: Redis, the database and posts
answer, nobody outlives the lock, the handlers' process does not die, nobody
uses the button, and the account confirms first and requires it. The scheduler
may die at any time, the platform may refuse or lose answers, the seller may
ship by hand. The argument: `LockInv` (who acquired the lock has it and is under
way); `UnderLock` (nobody works without the lock, and an answer the dead
scheduler no longer awaits is still covered by its key); hence `OneWorks`, one
deliverer works at a time; `OnceInv` then carries what the database and the
platform know from one holder to the next: a secret is taken only for a
confirmed order, once the confirmation is out nobody else gets it, and whoever
took the secret writes the order before it leaves. The proof does not use hold,
cooldown and note: with a working lock they are not needed, and without it they
are not enough.

`WalletProofs`: `TypeCorrect`; `FlowsStayContinuous`, by `LocksInv` (flows
that are written and not committed are those of the transaction under way that
has the row, so the invariant can be stated over both kinds together) and
`AdvertsInv` (an advert books one entry, its payer's);
`VerdictsStand`, if reviews of one withdrawal do not overlap: `ReviewsInv` says that a
review under way has the record to itself. `RechargesCreditedOnce` assumes nothing, and
covers notices that overlap: `NoticesInv` and `HomeInv` say that a notice books one
entry, in the row of its order's user, and `CreditsInv` that whoever has credited an
order is done, did so once and has paid the order, and that a notice which goes on to
credit had read the order when no credit for it was among the flows (`Unseen`). So a second
credit is a second notice's, whose read came before the first credit was committed.
`DeadlocksHaveDeliveries` assumes nothing: by `LinesInv` whatever is neither a delivery
nor a pickup holds no row while it waits for one, and a pickup that waits holds only rows
below the one it waits for. In a circle without a delivery each would hold a row below
the one it waits for, and whoever waits for the least of these rows holds one that is
lower still (well-foundedness of Nat).
`WalletImplementsBank` is the refinement, every step a transfer of the bank or a stutter.
By `Balanced` what a job has moved under its locks and what it has yet to book add up to
what it books at all, so that a commit moves a transfer's whole net; `OnlyCommits` says
that nothing else moves a balance, and `OrdersInv` that a notice credits alone and while the
order is pending. It assumes `~Overlap` (an order would be credited twice, finding 7), `~LockTimeouts` (a settlement cut off is part of a transfer) and no
adverts (their payer's balance is read unlocked, finding 9).
`OverdraftsExplained` assumes nothing: cards may be edited between check and booking
(any `Quotes`), and a card may have nobody to bear its fee. `DebtInv` has four parts beside
the types and locks. `DeliveriesInv`: what a delivery has yet to book is always a rest of its
five entries, and while it is under way either the dealer's flows have grown since the
check or the balance covers what the check asked for by the offer it found (`Checked`).
`DealerPays` says that at no point of a settlement has anyone paid more than what it
charges the dealer (`Charged`), but an owner whose fee exceeds the price and a
first level that asks for less than it pays; so the commit cannot go below zero unless
one of the reasons in `Uncovered` holds. `DeltaIsNet` and `DeltaBelowNet` compare the forecast of a
pickup with its settlement: they agree if somebody bears the fee, and if nobody does
only the dealer ends lower than forecast.
`RowsInv`: a row that an adjustment, a renewal or a withdrawal has locked is not
below zero, and one that an advert has locked is its receiver's. `PickupsInv`: a pickup
that books holds the rows of all its parties, and none of them ends short.
`SettledAlways` assumes nothing. By `Owed` what a dock job has booked for a party,
followed by what it has yet to book for it, is what is due to that party, in this order;
and where a delivery is cut off it waits for a row it does not hold, so it has booked
nothing for the party that comes next. `CutWhole` draws from this and from the order of
the five entries (`NoSplit`) that no party is left between two of its entries. The one
exception is a dealer of the second level who owns the card (`PaidBack`; the code
refuses only to dock one's own dock record, `dock_record_service.py:798`): he pays the first level and would be paid by it, and a wait that times
out between the two leaves him with the payment alone.

`AccountTasksProofs`: `TypeCorrect`, `LiveTasksKnown`, `InstancesKnown`. `Base` holds
whatever the calls do: who waits under a lock has it, a task exists before the
manager or a call names it. `Alone` says that, as long as neither lapse of the
exclusion has been met, all calls in line use one lock and the manager's task is
the one its holder waits for or none, so that a new task finds none at work.
`Watched` adds, as long as no stop gave up waiting, that a task which has not ended
is the manager's or one a removal waits for, so that no clean-up meets the
entries of another task. `StoppedAreDown`, by `Down`: while a disabled account has a task
that connects or is connected, a stop is on its way to it (the user's switch writes the
status first, and a task that reads it afterwards ends by itself).

`SliderLogsProofs`: `TypeCorrect` with `Places`; `OneSliderEach`, by `Guarded` (who is
between the query and its log has the account's lock and found no log; who
solves has a log) and `Quiet` (while the service is down nothing is under way in
it, which the clean-up needs); `LimitHeld`, by `HasLog` (who is on its way and not
excused has a processing log), `Admits` (who is between count and log has the
Redis lock and a place) and `WithinMax`; `LogsAreClosed`: every processing log has
a request, a job (one that stores cookies before it closes its log among them) or a
coming start that will close it, or is in `lost`: its closing failed, its web backend died,
or a second cancellation met its task at the place "storing".

`SliderTasksProofs`: `TypeCorrect`; `LimitKept`, by `Accounted` (the browsers that hold
a slot are at most those counted and those given back twice); `ProportionKept`, by
`Balanced` (the credit of the local bucket is what its turns fell short of its
share, the remote one's is the opposite, and neither exceeds half a round).

`AccountTokensProofs`: `TypeCorrect`, by `Typed`, which adds to `TypeOK` that a counter is
below its limit at the places where it may grow and that who is to use or store a
token has one; `UnseenTokensKept`, for any number of loops, devices, tokens and
limits. By itself it is not inductive: it needs `SeenTokens` (a token in memory, in
use, in the hands of a refresh that will mark by it, or held against a failed
connection has been taken over) and, for a failure that names no token and would
mark whatever has run out, `FirstToken`: as long as the task has used no token, and
lost none on the way to the row, the row is empty or the refresh of `main` takes its
token. `Quiet` (no loop runs before the first connection or after the end) and
`Victims` (who marks without naming a token found none in use) connect the two. The
conjunction is `Kept`.
The other three follow one refresh through all its places. `Alone`: until refreshes
have overlapped, at most one is under way; `Issues`: every token anywhere has been
issued, so that the next one is new, to the row and to `seen`. Then
`PairsAreKept` by `Pairs` (wherever a token is kept or carried with a device it is its
own, except in memory between the device and the token of an answer, and in memory and
registration after a refetch has changed the device under a token; the row stays right
even then, because what a refresh stores has the device of its answer);
`FallbackUsedOnce` by `FallbackGone` (once it was used neither the memory nor the refresh
under way has the fallback left) and `LateIsInitial` (who takes an expired token after it
found the local slider enabled has the fallback); where the switch is off or cannot be
read `refresh_token` takes an expired row every time, which the property leaves out; `FailuresSpareTokens` by `Spares`: past its
look at the row a refresh knows the row empty, run out, or holding a token the scheduler
wrote meanwhile (`Spent`), which no refresh has seen (`Unborn`), and a failure that names
no token finds none in use only if the row is empty (`NoneUsed`).

Proved and not run, because the theorem says all of it: `TypeOK` of every module but the
worker's, `NoForeignRelease`, `ShippedForAReason`, `LogsHaveClosers`, `HeldRowsUnsold` (a part of `StockInv`).

## 7. What TLC alone checks

* Liveness: `OrderSettles`, `TasksLeave`, `JobsEnd`, `CallsEnd`, `SlotsComeBack`,
  `TasksEnd`, `ComesUp`, `PromotionReconnects` (fairness and ENABLED are out of the prover's reach). `LogsAreClosed` is
  the safety half of `SlotsComeBack`.
* `IssuedOnce` for posts that overlap (`delivery_posts`).

Nothing the proofs are about needs induction over data: the net of a settlement (`NetOf`)
and the amounts due from it (`Dues`) are written out for its five entries. (That a set of
numbers has a least element, used above, is a fact of the library without operator
parameters.)

## 8. Limits of the models

*Stock and orders.*
* `SendCallbackRaises` is a parameter: the contract of the hook, and its tests,
  allow callbacks that raise; those of production only capture the text and
  the message is sent after the commit.
* `take_one` answers None also when the only secrets are locked by attempts that
  may roll back; the order is then refused as sold out.
* The plain take paths queue no task for the last secret (finding 17);
  `LastSaleTakesItemOffline` is about the hook only.
* `OrderDelivery` has one order for one piece. Left out: several pieces, bargain
  orders (`auto_freeshipping`), an order the pre-check closes (`card_only`), cards
  without a stock of secrets. A pre-check that refuses is `Refuse`. The message a
  buyer gets on a failure, logs and cookies are left out, and with them the
  fields of the handler object (`auto_delivery_handler.py:1274`) that coroutines of
  different orders share.
* The scheduler's cooldown per order and per account only delays a pass; the
  passes are taken to come back.
* `IssuedOnce` is checked with Redis, websocket process and database sound, or for
  posts among themselves. Outside those settings TLC also finds ways to take a
  second secret for the order: the websocket process dies, or the write of the
  order fails, after the first secret was taken; or a click of the button meets a
  handler, and its status write is slower than the 60 seconds of cooldown. These
  go through the note that "shipped already" leaves (finding 2): after the cooldown
  a further message within the note's 300 seconds is taken for a confirmed
  delivery. It fails as well when Redis fails and two handlers hold the lock.
* A task in the hand of a drain that dies, or whose account lookup, commit or
  `ZADD` raises, is in no queue, and one that an LPOP took whose answer was lost
  is nowhere (finding 16). `WaitingTasksSurvive` says exactly that much.
* A sale may take a listing off the platform or only one of its pieces; either is
  possible at any `Buy`. Two executions of one relisting (a task pushed twice) are two
  tasks. A push or pop that Redis never carried out is `QueueFails` or `BreakOff`.
  `AccountsVanish` allows the account of any task to be gone at any time. The
  guard's own relist branch is closed in the code and left out.
* `relist_and_remap` also writes refreshed cookies; they do not change what the
  properties see.

*Balances.* Amounts are integers. Every user has a balance row; without one the
first credit inserts it, under a gap lock. The rows have no unique index, and the
code never makes two. The Redis lock of a pickup (30 s) is left out, so the rows
must do. `PreCheck` compares balances and the first level's price with the owner's; that
the sale price covers them too is left out. The dealer of a dock record does not
change. An advert is polled one call at a time. A cut-off settlement commits its
agent order as "delivered"; a delivery that is the victim of a deadlock leaves the
goods sent and no agent order, which no property forbids because the code does
nothing about it. Adjustments and renewals are modelled and take part in no
passing run with a second transaction of their own kind. Withdrawal risk
reports, signatures of notices and docking itself are left out.

*Accounts.* Left out: the value of the cookie (a delayed restart may put an old
one back), keywords and switches kept in memory, the deletion of an account (a
deleted account's missing status row passes for active), the message tasks of an
instance, the start of the whole process. A repeated HTTP post is one more call.
`Update` has the same bare stop as an instance's own restart, which the run has. A
lost answer to a stop is a request that came late. Who waits for a task that
ended goes on in any order.

*Tokens.* Left out: the value of the cookie and that the API answers by it, proxies,
notifications, the heartbeat, the lengths of waits (any wait may be short or long), the
skip of an account another captcha has disabled (`should_skip_account`), the two
modes of asking for a token. Names of statuses are reduced to what `main` tells
apart: excused or not. A login that renews the cookie and then restarts the
instance is a renewal followed by `Stop` and `Start`. `Age` lets time pass at any moment,
so a date may run out between any two steps. The marking before a restart
(`Invalidate`) also stands for that of the cookie's update and of a login.

*Sliders.* `captcha.remote_processing_max = 0` switches the limit off and is left out.
Local calls without `persist_token_cache` and the password login's flow do not
look for a log of the account. A websocket service too old to acknowledge a log
id, raw and sanitised account names, the deny list and the key of a remote call
are left out. `WeightedSerialScheduler` inside the mouse engine has one caller at
a time behind the dispatcher and is left out, and so are the calls of a remote
solver from a pool thread. Weights are integers, the code's are floats scaled to
1; a weight of zero starves its side by design, and an administrator who keeps
changing the weights resets the round each time, which favours the local side.
`Close` gives back the account lock and the slot in one step.

*Not modelled at all:* the images, tracks and pages of a slider, publishing and the
other scheduled tasks (one browser or one platform call at a time, no state that
others share), reply matching and the language model, the user interface,
start-up and schema creation. Platform clients appear as nondeterministic
answers.

## 9. Findings

Each is a behaviour TLC finds when a passing run's constants are changed as given.

1. *An order forgets its secret.* After a success the redelivery pass writes
   `delivery_content` from the answer (`redelivery_task.py:617`); the answer
   "shipped already" has none. A post repeated after a lost answer erases the
   secret the first post recorded, against `internal.py:1649`. The button had the
   same second write, and `orders.py:638-645` explains why it was removed there.
   (`delivery_strict` with `Handler = {}`, `MaxMessages = 0`, `MaxPosts = 2`,
   `HttpFails = TRUE`, `MaxRestarts = 0`: `Traceable`.)
2. *Goods for an order that was shipped elsewhere.* "Shipped already" is noted like a
   confirmation of one's own (`auto_delivery_handler.py:2068`), and the status update
   after it fails on an undefined name; a later message takes a secret, against the
   message of line 2073. (`delivery_strict` with `Scheduled = {}`, `SellerShips = TRUE`,
   `MaxMessages = 2`: a secret is taken while the platform has the order as shipped
   by hand.)
3. *Confirmed without the goods.* `deliver_order` drops the result of a text message
   (`internal.py:1760`) and confirms, against the description of the setting.
   A message lost behind the connection is noticed by neither path. (`delivery_modes`
   without "unnoticed" in `ConfirmedAfterGoods`, which names this exception.)
4. *Nobody takes the item offline.* Two overlapping sales of the last two secrets each
   count the other's secret as stock (`auto_delivery_handler.py:157`).
   (`stock` without `alone` in `LastSaleTakesItemOffline`.)
5. *One text stored twice.* Two overlapping imports both miss the other's rows
   (`card_secret_service.py:119`; no unique key). (`stock` with
   `Import = {i1, i2}`, `MaxImports = 2`: two rows with one content.)
6. *A late relist.* A retried relist (`stock_task_worker.py:97`) is carried out after the
   offline task of a later sale and puts an empty item on sale. `EmptyRelistIsLate`
   names this way and the others: an offline task that still waits, a stale count
   (finding 4), the plain path and a failed push (finding 17), and a second drain that takes
   the offline task while the first still has the relisting before it.
7. *A payment credited twice.* `handle_alipay_notify` reads the order before the row of
   the balance is locked and never again (`recharge_service.py:153`); of two notices
   that overlap the second waits for the row and adds the amount once more, against
   the comments of lines 152 and 169. (`wallet_settlements` without `seen[b] < i` in
   `CreditedOnce`. Two overlapping reviews overwrite each other's verdict likewise:
   `wallet_bank` with `Overlap = TRUE`, `VerdictStands`.)
8. *A pickup below zero.* The forecast charges the owner unless the fee's bearer is
   'dealer' (`pickup_service.py:370`), the settlement the dealer unless it is
   'distributor'; a card taken out of distribution after it was docked has neither.
   (`wallet_settlements` without "unset" in `OverdraftExplained`, which names it.)
9. *Adverts and balances.* The administrator's balance is read without a lock and
   written back (`advertisements.py:583`): what commits in between is lost. The
   exception in `FlowsContinuous` is there for it.
10. *Two tasks for one account.* `_stop_task_async` takes no lock and drops whatever task
    the manager has by then (`cookie_manager.py:340`), against the comment of line 62;
    and a removal throws away a lock others wait for (line 320). (`account_calls` with
    `Start = {a1, a2}`, `Update = {u1}`, no other calls, `Slow = FALSE`: two live tasks.)
11. *A slot given back twice.* After the wait for the owner's face `register_instance`,
    under the comment "重新获取槽位" (take the slot again), does nothing
    (`concurrency.py:490`), and `close` gives the slot back once more
    (`slider_stealth.py:1540`). A user's login whose browser never came to be gives back
    a slot it never had (`password_login.py:280`, as a safety net). `WithinLimit` fails
    without its `extra`.
12. *Refreshes of one instance overlap.* `main`, `init` and the two loops call `refresh_token`
    with no lock between them. Three things follow. A failure marks the row by the
    token in use and the device in memory at that moment (`cookie_token_manager.py:458`), which
    another refresh has just replaced by fresh ones, against the "避免…覆盖并发更新" (do not
    overwrite concurrent updates) of `token_renewal_cache_service.py:78`. The device of one
    answer is paired with the token of another, in the row and in a registration.
    A failure that is excused is counted, because the other refresh has overwritten the status.
    (`tokens` with both devices in `Beside` and without `lapses` in the properties:
    `FailuresSpareValid`, `PairKept`.)
13. *Failures that are not in a row.* The count of token failures is cleared only when a
    round begins with a token at hand (`xianyu_async.py:2606`), not when one has been fetched;
    a success between failures leaves it, against "连续失败100次" (100 failures in a row) of line
    2573. The count of network failures is cleared by every connection, so the pause
    after 20 (line 2788) is never reached: `TypeOK` has it at one.
14. *A promotion during registration counts as a failure.* A loop that promotes a renewed
    token while `init` is under way closes the connection; `main` takes this for a failed
    connection, counts it, and within 15 seconds marks the row of the token that was just
    promoted (`xianyu_async.py:2811`).
15. *An expired token after a change of cookie.* A start whose row was marked because the
    cookie had changed (`internal.py:319`) still takes the row's token once as its start-up
    fallback (`cookie_token_manager.py:1122`).
16. *A task that nobody has.* The client of Redis sends a command again when its answer does not
    come in five seconds (`redis_client.py:37-39`). An LPOP that was carried out has then
    taken a task which no drain gets (`stock_task_worker.py:140`), and no log line says so.
    (`worker_faults` without `unheard` in `WaitingTasksSurvive`.)
17. *The last secret sold without a task.* The deliver endpoint (`internal.py:1668-1676`) and the
    handler's plain take (`auto_delivery_handler.py:2225-2244`) sell the last secret and
    queue nothing; the item stays on sale until somebody orders and is refused. A push of
    the hook that fails is swallowed (`_safe_enqueue`, line 126) with the same effect. (`worker_retries`
    without "plain" in `EmptyRelistIsLate` or `Cause`.)
18. *Prices read twice.* `_create_agent_order` reads price, fee and bearer of the card anew
    (`auto_delivery_handler.py:2637-2701`) after the goods have gone out by the check of
    lines 2414-2533. An owner who edits the card in between takes the dealer, or a first
    level who then asks for less than it pays, below zero. (`wallet_settlements` without
    `Charged(t) > Required(quoted[d])`, or without the first level, in `Uncovered`.)
19. *A cancelled slider's log.* `handle_captcha_verification` stores refetched cookies before it closes
    its log (`cookie_token_manager.py:959` and 975); a cancellation that meets it there leaves
    the log processing, and the account without a slider, until the websocket service starts
    again. (`slider_logs` with `lost` unchanged in that step of `Cancel`: `SlotsComeBack`.)
20. *A device without its token.* The slider's request for a fresh link may be answered by the
    remote service with a token and its device (`token_refetch.py:326`); the device is
    kept (`cookie_token_manager.py:574-584`), the token is not. A connection that comes up with the
    token held from before registers it with the wrong device. (`tokens` with "refetch" among the
    lapses of the second half of `PairKept`.)
21. *An expired token with the switch on.* Where the local slider is disabled, or the switch
    cannot be read, `refresh_token` takes an expired row at every refresh
    (`cookie_token_manager.py:1085-1088`), so that the one use the start-up fallback allows
    is no bound there. `FallbackOnce` leaves these refreshes out.
