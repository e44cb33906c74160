# A verification of the e-commerce platform's services

The program is a NestJS system of five processes (a gateway and the services
account, product, cart and order) that talk over RabbitMQ, keep a MySQL database
each and share one Redis. Its difficulty is in what crosses statements, processes
and services: a purchase reserves stock in one database, becomes an order in a
second and income in a third, with no distributed transaction, only tokens,
locks, unique keys and compensations; handlers read a row, decide, and write in
a later statement; carts and pages are cached and go stale. This directory
specifies the five services in TLA+, checks small instances with TLC and proves
the main results for all instances with TLAPS.
Paths are relative to `src/`.

## 1. Inventory

### The parts, their state and how they interact

| Part | State | Operations that change it | Talks to |
|---|---|---|---|
| gateway (`apps/gateway`) | cookies; `transaction:<uuid>` in Redis (EX 120) | `freeOrderResult`, `cancelDraftOrder`, `withdraw`, `webhookManager`, `setDraftOrder`, `testPurchase` | every service by `send(..).pipe(withRetry())` |
| order (`apps/order`) | `draft_order`, `draft_item`, `purchase_order`, `order_item`; cached draft (EX 30) | `createDraftOrder`, `setOrder`, `cancelDraftOrder`, `createTestPurchase`, `getDraftOrderStatus` (deletes), `cleanDraftOrders` (cron) | account, cart, product |
| product (`apps/product`) | products with `stock`, meta rows, reviews, ratings; cached pages and lists (EX 30) with a lock each (EX 100) | `reserve`, `restoreStock`; create, update, `updateStock`, delete, ban, restore; reviews; `calculateRating` (cron) | account (status and names), cart (an event when a product is delisted) |
| account (`apps/account`) | accounts, meta (status), profiles, refresh tokens, stores, addresses, `balance`, `increment`, `withdrawal`, with triggers | `withdraw`, `addToBalance`; sign up, log in, log out, refresh, update, delete, ban, suspend, restore; addresses, stores | product (public products; an event to delete products) |
| cart (`apps/cart`) | `cart`, `cart_product`; cached cart (EX 30) | add, set the amount, delete, clear, what `reserve` asks for, `deleteProductsFromCart` (bought), `deleteProductsFromCarts` (delisted) | product |
| Redis (`libs/redis`) | cached values, `lock:*`, channels `transaction:done:*` | `SET NX EX`, Lua compare-and-delete, `PUBLISH` | |
| RabbitMQ (`libs/rabbit-proxy`) | non-durable queues, no acknowledgement, `x-message-ttl` | | |
| Mercado Pago | external; repeats notifications, may reject and then approve | | gateway's webhook |

No test accompanies the code; its intentions are in `README.md` (Spanish, then
English) and in comments.

### What is hard

* **A token per request** (`check` of order, account and product,
  `order.service.ts:173-197`): the cached status is read, *then* the lock is
  tried, and the decision is made on what was read. Retries, other replicas,
  waiters that miss a publication, expiry of the lock and of the entry, failed
  Redis commands and crashes all meet in these lines.
* **A draft's life** (`order.service.ts:199-550, 721-812`): any number of
  notifications, free orders, test purchases, cancellations and status queries
  per draft, each a read, a transaction and messages after it that nobody waits
  for; the product and account services act on those messages one row at a time
  and swallow what fails.
* **Money** (`balance.service.ts:85-197`, `event.service.ts:69-99`): withdrawals
  compute a balance in the process, incomes increment it in place, and either
  may be executed twice with one token.
* **Stale entities**: `updateProduct` and `updateAccount` save an entity they read
  before their transaction; TypeORM writes the columns in which it differs from
  the row by then.
* **Stale copies**: an addition to a cart is computed from a cached copy and
  written three statements later; a cached page may be refilled with what was
  read before an update; most writes drop only some of the entries they change,
  unawaited; a rating run writes averages it computed a statement earlier.
* **Locks of readers**: a reader that misses the cache fills it under a lock; the
  others answer nothing. The lock may expire while its holder waits for another
  service, and a holder may stop.
* **Accounts**: a ban, suspension, restoration or deletion writes whatever the row
  has become since it was read, and races with log in and refresh, which store a
  session after they checked the status.
* **Requests without a token** are sent again by the gateway after 3 s, so that
  anything but purchases and withdrawals may run twice, at the same time.

`PROJECT.json` lists each hazard at its line with the properties that cover it.

### What makes each part correct

* Token: an operation is executed by one delivery at a time, takes effect once
  unless a crash separates the effect from its record, what a caller is told is
  true, and every caller and waiter is answered.
* Drafts and orders: one order per draft, one request told so, a seller credited
  once per order and only for it, stock neither sold twice nor returned oftener
  than its list was executed, a failed creation or a cancellation compensated.
* Balances: what the rows add up to, never negative, changed only together with
  the row that says why, and answers that agree with the rows.
* Catalogue: the stock changes only as one request says, made to the stock of
  that moment; nothing deleted or banned is sold; a restoration ends.
* Caches: an entry shows what the tables have, or ends with its expiry; a lock is
  held by one who works, or by one who has stopped until it expires, and is given
  up by nobody else.
* Ratings: a run never puts back what an earlier run had read.
* Cart: an amount is what it was set to plus the units of some messages, none of
  them twice and none in another cart, within its column; the copy catches up with
  the rows. One click should be one addition, which it is not always.
* Accounts: a user is a seller exactly when a phone is known; every account is in
  one of the administrators' lists; a deleted or banned account has sessions only on
  devices that were let in before; sessions, stores and addresses change only by
  their owner's calls. A suspension should not replace a ban, which it may.

## 2. The modules

| Module | What it is |
|---|---|
| `TransactionToken` | one token: its caller with retries, its deliveries on several replicas, cache, lock, publication, faults |
| `PurchaseLedger` | abstract: a draft is sold once, under one receipt, which credits each seller once; receipts and credits are counted |
| `Checkout` | drafts, stock reservations, orders, compensations and credits across four services; implements `PurchaseLedger` |
| `Balance` | balance, income and withdrawal rows under concurrent and repeated executions |
| `ProductStock` | one product: its seller's and admins' edits against reservations and restorations |
| `Catalogue` | the cached pages and lists of the product service, with their locks, while products, reviews and ratings change |
| `Cart` | the rows of the carts and their cached copies |
| `Storefront` | `Catalogue` and `Cart` together: the catalogue's tables are what the carts ask for, its delistings what empties them |
| `Accounts` | accounts, profiles, sessions, stores, addresses, administration |
| `MC*` | small instances for TLC |
| `*_proofs` | theorems of the components, checked by TLAPS; those of `Cart` are in `Storefront_proofs`, before the composition |
| `Sums_proofs` | lemmas about sums over finite sets |

A definition named `Mutant of X` in a comment is a plausible wrong version of
`X`; it is not part of any specification. `PROJECT.json` pairs each property
with one that breaks it.

### TransactionToken

One token is enough because its key, lock and channel carry its uuid. State:
`cache` (`transaction:<uuid>`), `lock` (who set `lock:<uuid>`; the key's value is
the uuid, the same for every delivery), `pipe[r]` (the commands under way on a
replica's Redis connection, which keeps their order), and per delivery where it
is (`at`, `pc`), what it read (`seen`), records (`outcome`) and answers (`reply`).
`caller` is what the gateway, or the order service, knows.

| Action | Code |
|---|---|
| `Send`, `AttemptTimeout`, `Answer`, `CheckCache` | `withRetry.ts`, the try and catch of `balance.service.ts:38-77` (gateway) and its siblings |
| `PollResult` | `GET /result/:token`, `general.service.ts:19-30` |
| `Receive`, `ReadCache`, `AcquireLock`, `MissLock`, `MarkPending`, `AnswerCached` | `check` |
| `Commit`, `Refuse`, `RefuseEarly` | the handler's transaction; its refusals and catch; the return of `withdraw` before its try block |
| `Record`, `Release`, `Publish` | the final status, `releaseLock`, the publication of the finally block |
| `WaitTimeout` | the timer of `waitForTransaction`; it is longer than the caller's attempt, hence its guard |
| `LockExpires`, `CacheExpires`, `MessageLost`, `Crash` | EX 100, EX 120 and 3600, message TTL and non-durable queues, a replica that stops |

`Handler` says which operation is behind the token; it matters for three things:
whether it answers (`restore_stock` and `add_to_account_balance` return nothing
and complete whatever failed), whether the database refuses a second
execution (`OncePerToken`), and whether it always comes to its try block: a
`withdraw` of an amount that is not positive returns before it (`RefuseEarly`). The
amount is left open until the first execution; one that has so returned settles it for
all (`OfNothing`). A
publication reaches any subset of the waiters, since a waiter installs its
listener after the lock was refused.

`Internal` says whose token it is, and with it how its attempts are timed. That of
a user's request is sent twice, 3 s apart; its lock (EX 100) outlives both. A
service's own, or the gateway's for a notification, is sent up to six times, a
MESSAGE_TIMEOUT and a minute or more apart
(`order.service.ts:98, 147`, `checkout.service.ts:120`), longer than a lock lives. So `LockExpires` takes away the lock of
a holder that stopped, or that returned early, before an internal token's next
attempt or after a user's last one; and under a holder at work, which takes more
than 100 s, only with the fault `lock_ttl`. A delivery that has committed (or
failed) and stops before it has recorded the status is `cut`: the entry still says
Pending (EX 3600), so that the next delivery executes the operation again.
`effects` are the deliveries whose execution committed, and `Unbroken` those of them
that were not cut off.

### Checkout

A draft is created (`creation`), has a row (`draft`), may have an order
(`orders`, the UNIQUE `draft_order_id`); requests about it go through `pc` and end
with a `reply`; `restoring` and `crediting` are what is left of the restore_stock and
add_to_account_balance lists under way; `returned` and `credited` count what they
did; `sent` are the messages whose token does not say Completed yet. A request is
one execution. If a crash cuts it off before its token is recorded, the retry that
executes it again (see `TransactionToken`) is one more request of the set, as are
repeated notifications and test purchases, which have no common token. A list that is so cut
off starts over as a whole: `RestoreAgain` puts back every product of it once more,
also those put back already, and `again` counts how often; `CreditAgain` meets the income
row's key, so that a seller that was credited is refused (`CreditFails`).

| Action | Code |
|---|---|
| `Reserve`, `ReserveRefused` | product `event.service.ts:100-182`, as called from `createDraftOrder` |
| `InsertDraft`, `InsertFails`, `ReservationLost` | `order.service.ts:254-318` |
| `ReadDraft`, `OrderRefused`, `CommitOrder`, `OrderFails`, `FinishOrder` | `setOrder` 454-550, `createTestPurchase` 752-812 |
| `ReadCancel`, `CancelRefused`, `CommitCancel`, `CancelFails`, `FinishCancel` | `cancelDraftOrder` 389-452 |
| `RestoreOne`, `RestoreSkips`, `Settle` | product `event.service.ts:184-229` |
| `RestoreAgain`, `CreditAgain`, `RestoreLost` | `restoreStock` and `addToBalance` of the order service, 90-160: attempts after the consumer stopped, and none that arrives |
| `CreditSeller`, `CreditFails` | account `event.service.ts:69-99`, sums of `order.service.ts:124-160` |
| `ReadStatus`, `DeleteCompleted`, `DeleteFails`, `CleanDraftOrders` | 320-348, 721-742 |

Prices, addresses and titles are left out; what remains of prices is which items
cost nothing (`Gratis`). `Summable` is the arithmetic of `order.service.ts:136`:
`subtotal` is a DECIMAL column, read as a string, so `0 + "12.00"` is a
concatenation, still a number for one item and none for two.

### Balance

Executions of `withdraw` and `add_to_account_balance` with tokens that may
repeat. `holder` is InnoDB's lock on a balance row, `seen` what a withdrawal
read under it, `left` what an income has still to credit. The keys of
`increment` and `withdrawal` and the trigger `withdrawal_guard` are guards of
`CreditAccount`, `Pay` and `Decline`: an execution they refuse has only
`CreditFails` or `TransactionFails` left. Everything between `LockBalance` and
the commit is one step because the lock is held and nothing is visible before
the commit.

### ProductStock

One product, because nothing couples two of them but a reservation that takes
several: one that is refused for another product of its list is `Fails` here, and
`Checkout` has several products. Every handler but `reserve` reads the product
with a plain query, checks it, and writes later without looking again: `Check`
and one write action each. `updateProduct` takes three steps, because TypeORM's
`save` reads the row again (`Reload`, into `snap`) and writes the columns in which
the entity, read before the transaction (`seen`), differs from it (`Save`). `reserve`
asks for the seller's status (`AskSeller`) and then does everything under
`FOR UPDATE` (`Reserve`). `restore_stock` reads, increments, and tries three times.

| Action | Code |
|---|---|
| `Check`, `Refuse` | first query and checks of `product.service.ts:412-724` and `admin.service.ts:76-165` |
| `UpdateStock`, `UpdatePrice`, `DeleteProduct`, `Undelete`, `BanProduct` | the writes of `updateStock`, `updatePrice` and `updateDiscount`, `deleteProduct`, `restoreProduct` and `unbanProduct`, `banProduct` |
| `Reload`, `Save` | `updateProduct` 717-793 |
| `AskSeller`, `Reserve` | `event.service.ts:100-169` |
| `RestoreLooks`, `RestoreStock`, `RestoreFails` | `event.service.ts:184-219` |
| `Fails` | the catch of each handler |
| `SellerChanges` | ban, suspension, deletion, restoration of the seller's account |

`price` stands for every column an update may leave out; the discount is written
like the price. Titles, tags, images and categories are left out. A request that
`withRetry` sends twice is two requests. `deleteAccountData`, which would delete a
seller's products, is not an action: the event is emitted with another pattern
(`account.service.ts:275`) than the one listened for
(`product.controller.ts:145`), so no state of the program reaches it.

### Catalogue

`ProductStock` has what edits and purchases do to one product's columns;
`Catalogue` has what is seen of them. A product is here how often it was written
(`version`), whether it is in stock, who deleted it, and whose ratings its average
is of (`rated`). `cache` and `lock` are the entries of Redis and their `lock:` keys,
`saw` what a request has read, `told` what it answers. `View(e)` is the query behind
an entry, with its condition; texts, page numbers and sort orders are left out.

| Action | Code |
|---|---|
| `Hit`, `Miss`, `TakeLock`, `NoLock`, `Query`, `AskAccounts`, `FillPage`, `ReadFails`, `Release` | `getTotal`, `getProductList`, `getFeatured`, `getMyProductList`, `getProductById` and the other cached reads of `product.service.ts`, `getAccountProducts`, `getAccountReviews`; `releaseLock` (`general.service.ts:48`) |
| `ReadTables` | `searchProduct`, `getBannedList` |
| `SnapshotRatings`, `WriteRatings`, `RatingsFail` | `calculateRating` (`admin.service.ts:20-75`) |
| `CheckProduct`, `CreateProduct`, `Update`, `Remove`, `Ban`, `Restore`, `WriteFails` | the requests of sellers and administrators |
| `Drop` | `deleteCache` after the commit: any subset of the entries, since failures are swallowed |
| `Trade` | what `reserve` and `restore_stock` change of a page: they drop no entry |
| `AddReview`, `DeleteReview` | reviews and their primary key |
| `Crash`, `Expire`, `LockExpires`, `Repeat*` | a replica that stops; EX 30; EX 100; `withRetry` |

A lock expires in the model only when its holder has stopped or waits for the
account service, the one thing it does without a timeout: every other statement is
far shorter than 100 s.

### Cart

`cart` are the rows (`id` 0 is none, as for a cart that is not there), `cached` the
copies in Redis, `copy` what a request opened, `found` what the `save()` of an
addition read. An addition takes five steps, as in the code: open, ask whether the
product is active, let `save()` look for the row, update or insert it, drop the
copy; another request may come between any two.

| Action | Code (`cart.service.ts`) |
|---|---|
| `OpenCached`, `MyCart`, `CreateCart` | the cached copy, `myCart`, the UNIQUE `account_id` |
| `ListGoods`, `FillCart` | `getCart` |
| `AskActive`, `FindRow`, `UpdateRow`, `InsertRow` | `addToCart`; TypeORM's `save` of a row with or without an id |
| `RemoveRow`, `SetAmount`, `ClearCart`, `MakeReserve`, `DropCopy` | `deleteFromCart`, `setAmount`, `deleteCart`, `makeReserve` |
| `RemoveBought`, `RemoveDelisted`, `DelistingLost` | `deleteProductsFromCart`, `deleteProductsFromCarts` and their lost events |
| `CartFails`, `CopyExpires`, `Resend` | the catch of every handler, EX 30, `withRetry` |

`AmountExplained` takes the amounts a row was set to from the `set` requests that name
its id: `setAmount` is given a row, not a product. It counts messages: what the gateway
sends a second time (`Resend`) bears no token, so that for the cart service it is another
addition. One click that is added twice is therefore explained; no property excludes it,
because the code does it.

`Storefront` conjoins the two: `listed` is what the catalogue's tables have,
`delisting` the events its deletions and bans emit.

### Accounts

`row` is an account with its profile and its meta row, `session` the refresh token of
each device (a token is the second it was issued in: two of one second are the
same string), `saw` the row a call has read, `snap` what the `save()` of its
transaction has read. The triggers of `initAccount.sql` are part of the actions
that fire them.

| Action | Code |
|---|---|
| `LogIn`, `SaveRefreshToken`, `LogOut`, `FindToken`, `DropExpired`, `Refresh` | `auth.service.ts` |
| `AddAccount`, `NoToken` | `addAccount`, with the profile's triggers (`FirstRole`) |
| `ReadOwn`, `UpdateNames`, `FindProfile`, `UpdateProfile`, `ChangePassword`, `ChangeCbu`, `DeleteAccount` | `account.service.ts`; `RoleAfter` is the trigger on a profile, `WriteMeta` the one on meta |
| `Verify`, `AddAdmin`, `FindUser`, `SetStatus`, `GetList`, `Search`, `GetAccountInfo` | `admin.service.ts` |
| `GetInfo`, `GetPublicAccount`, `ShowPublicAccount`, `PublicSearch` | the reads of `account.service.ts` |
| `GetPlaces`, `ReadOwner`, `AddPlace`, `DeletePlace` | stores and addresses |
| `CallFails`, `Resend`, `Tick` | the catch of every handler, `withRetry`, the clock |

## 3. What the runs check

| Run | Instance | Checked |
|---|---|---|
| `token_one_replica` | `cancel_draft_order`, internal, 3 deliveries, 1 replica, crashes, lost messages, locks of the stopped expire | `ExecutionExclusive`, `EffectOnce`, `FinalNotReExecuted`, `FailureIsFinal` |
| `token_all_faults` | `withdraw`, of something or of nothing, 2 deliveries, 2 replicas, all faults, fair | `OkIsCommitted`, `CallerReturns`, `PendingResolved`, `WaitersAnswered` |
| `token_two_replicas` | `create_order`, 2 deliveries, 2 replicas, no fault | finding 1 |
| `checkout_anything` | 2 drafts, 7 requests, all faults, `Repeats` 0 | `LedgerImplemented`, `CreditedOnce`, `OneBuyerAnswer`, `CompletedIsOrdered`, types |
| `checkout_unambiguous` | no draft cancelled twice or both cancelled and ordered; consumers may stop in a list (`repeat`), `Repeats` 1; fair | `NoOversell`, `ReturnedOnce`, `Compensated`, `SaleCredited` |
| `checkout_retried_payment` | a rejected and an approved notification of one draft | finding 2 |
| `checkout_one_seller` | two products of one seller | finding 3 |
| `balance` | 4 withdrawals (two that compete, one of 0, one of an admin) and 2 incomes, tokens executed twice, crashes, lost token writes, fair | `Balanced`, `Booked`, `Finalized`, `OutcomeTrue`, `Resolved`, types |
| `stock_listed` | ten requests of all kinds on one product, any four that include a reservation, updates name the stock | `StockMoves`, `NeverSoldDeleted`, `RestoreSettles`, types |
| `stock_omitted` | two reservations and an update that does not name the stock | finding 4 |
| `storefront` | two products, two buyers, mixes of 2 to 5 requests to the catalogue and the carts, replicas that stop, fair | `AmountExplained`, `OpenedCartOnly`, `CopyCatchesUp`, `LockedByWorker`, `LockByOwner`, `RatingsForward`, `PagesCatchUp`, types |
| `accounts` | a user, a business, an administrator and two who register, mixes of 2 to 4 calls, three seconds | `RoleMatchesPhone`, `EveryoneListed`, `SessionsChecked`, `OwnDeviceOnly` |

Reading the results:

* **The token's guarantees depend on the number of replicas.** On one replica a
  delivery that reads Pending has its `SET NX` on the same connection right
  behind that read's reply, before the running execution's record and release, so
  `FinalNotReExecuted` holds, also through crashes and lost messages. On two
  replicas it does not. What holds under every fault is `OkIsCommitted`: success is
  never invented. `ExecutionExclusive` is stated for locks that outlive their
  holders; one that expires under its holder (100 s) really loses it.
* **A crash between the commit and the record makes the retry execute again**, on
  one replica as well: the lock is gone when it comes and the entry says Pending.
  `EffectOnce` and `FailureIsFinal` therefore except the executions so cut off, and
  say that nothing else executes twice. What the second execution does depends on the
  database: an order, a withdrawal or an income meets its key (and is recorded as
  Failed although it stands); `cancel_draft_order` and `restore_stock` have
  none, and return units that are on the shelf already.
* **Credits and orders are safe in any order of requests** because of the UNIQUE
  key and because only the request that committed goes on to credit; a list of
  credits that starts over meets the incomes' keys. **Stock is not**: it is safe when
  requests about a draft, retries of those cut off by a crash included, are unambiguous
  and no restore_stock of it started over. `NoOversell` says so of each product on its
  own (`Steady`): one that started over does not endanger the products it did not hold.
* **Compensation and credit are not guaranteed**: both are messages sent after
  the commit and lost with the process. `Compensated` and `SaleCredited` are
  checked where a consumer may stop in a list, which the sender repeats, but nothing is
  given up; with `crash` or `message` among the faults they fail, as there is no outbox.
  `NoOversell` and `ReturnedOnce` hold under every fault: the run has `repeat`, the one
  that moves stock a second time, and the theorems have all of them.
* **The stock of a product that is edited** is safe against `updateStock`, delete,
  ban and restore in any order, and against `updateProduct` as long as the body
  names the stock: a price left out is overwritten by a stale one all the same.
  What the interleavings do break is the deletion: a `restore_stock` or
  `updateStock` that was checked before it leaves a deleted product with stock
  (`README.md:586` says "with stock 0"), and a deletion or restoration checked
  before a ban replaces it.
* **Balances survive tokens executed twice**, thanks to the keys and the
  trigger; only the recorded *outcome* does not: a second execution records
  Failed over a paid withdrawal, which is why `OutcomeTrue` speaks of failure
  only for tokens that run once.
* **A cart loses additions and may add a click twice, but invents none.** Two
  additions at the same time, or one that goes by an old copy, may end with the amount
  of one of them, and a row that was bought may come back from the copy; what the
  gateway repeats is added twice. But an amount is never more than a
  base plus the units of each message once (`AmountExplained`), and nothing lands in a cart that
  the request did not open (`OpenedCartOnly`), not even when the cart was cleared
  and created again in between.
* **Stale pages end with their expiry, and only with it.** No edit drops
  `total`, `products` or the categories, a concurrent reader may refill any other
  entry with what it read before, and deletions of entries may fail: `PagesCatchUp`
  and `CopyCatchesUp` rest on EX 30 alone, as their mutants show.
* **Readers' locks** never outlive who works under them, except by a stopped
  replica's 100 s, in which readers of that entry answer nothing; and since a token is compared
  before a lock is deleted, a reader whose lock expired does not free another's.
  This is also what keeps two rating runs apart (`RatingsForward`).
* **Accounts**: a ban that overlaps a suspension may be replaced by it,
  and a log in or refresh that had read the status before the ban stores a session
  after the trigger has deleted the others; it cannot be refreshed once.
  `SessionsChecked` permits that: it asks for some call from the device that found the
  account allowed and succeeded, not for the one that stored the session, and excludes
  devices that never were let in. An old phone or CBU may be written back by a stale profile,
  but the role always follows the phone (`RoleMatchesPhone`).

Three more disagreements with the documentation are behaviours of the models, without a
run of their own, and the properties above are worded so as not to claim the contrary:

* A process that stops between the commit of an order and the record of its status has it
  executed again by the next attempt, which meets the UNIQUE key and records Failed for
  an order that is there. `README.md:706`: "the result is registered in the token and cache".
* The gateway sends an addition to a cart again after 3 s, without a token, and both add.
  `README.md:604`: "Adds an `amount` of a product to the cart."
* `suspendAccount` checks the status it read and writes over whatever it has become, so that
  a suspension may replace a ban. `README.md:628`: "Suspends a user who is not banned."

Met as well, without a promise in the repository that a run could hold against
them: the OR of the list of an account's products
(`event.service.ts:268`) is not in parentheses, so it also shows what any other
seller has deleted; `rating_avg` is a DECIMAL(3,2), so a product whose reviews
are all 10 makes every rating run fail as a whole; a reader that does not get
the lock answers nothing at all, which the gateway takes for an error and does
not repeat; an account that deleted itself may log in again and keeps that
session through a later ban, as the trigger fires only when `deleted` was NULL; and
`delete.account.data` is emitted under a name nobody listens for.

### Findings

1. `token_two_replicas`: `check` reads the status before the lock and never
   again, so a final status is executed over. `README.md:706` says other attempts
   "get the final result directly instead of re-executing it", `README.md:704`
   that Swarm may run several replicas.
2. `checkout_retried_payment`: `cancelDraftOrder` restores the stock without
   looking at the status and `setOrder` orders without looking at it, so a payment
   rejected, or pending, and then approved oversells, although `README.md:453`
   lists locking "to prevent stock overselling". For the same reason a completed
   draft can still turn failed and a failed one completed.
3. `checkout_one_seller`: a seller of two items of an order is never credited.
4. `stock_omitted`: `updateProduct` saves the product it read before its
   transaction, so an update of the title puts reserved units back on the shelf.
   `README.md:587`: "Fields omitted from the body keep their current values."

### Bounds, and why they are enough

* Two or three deliveries: one executes, one waits or arrives late, the third
  arrives after both (`withRetry` sends up to four). Two replicas: the model
  distinguishes only same and different connections.
* Two drafts compete for the last unit of one product; the second also holds a
  product of another seller, so that a restoration or credit can be partial. All
  kinds of requests occur, and two that order the same draft. A restore_stock may start
  over `Repeats` times per draft: 1 is enough to return units twice, and 0 where the stock
  is not what is checked. Credits start over without a bound, as their keys leave
  finitely many states. Nothing else repeats.
* Two withdrawals of 2 and 1 from a balance of 2 and an income of 1: whether
  the second is paid depends on the order, and two executions share a token.
* A product of at most two units, reservations of one and of two, updates to two and to
  one: all orders of four requests, enough for any two writers to race with a
  reservation and its restoration. The largest stock is 2 as well, so that a
  restoration can exceed it.
* Storefront: a reader against a writer is enough for every entry; the mixes of three and four
  are those in which a third matters: a repetition, a second reader, an expired
  copy. Two buyers, so that a request can name another's row; amounts to 3,
  so that additions can overflow; `MinReviews` 1 and one author who rates 10.
* Accounts: mixes of calls that meet on one row, each kind of call in some
  mix; `Life` 1 and three seconds (`MaxNow`), so that a token can expire and two can be
  issued in one second.
* No run uses symmetry.
* Deadlock checking is off: requests are finite in number and then nothing is left to do.

### Fairness

Token: timers fire, a lock whose holder has stopped and a Pending entry expire (both are written with
EX; a final status written with KEEPTTL over an expired entry may stay), a
process that runs drains its connection and ends its handler; messages need not
survive and replicas need not stay up. Checkout: a handler that has started goes on and a list in flight is
handled to its end, seller by seller (a consumer that stops leaves it to one of the
finitely many attempts), but no request has to arrive and no draft has to be cleaned. Balance: a
message that was delivered is worked on and InnoDB grants row locks.
ProductStock: a restoration that was delivered is worked on. Storefront: handlers
go on, events are handled or lost, and entries and locks expire; replicas that
stop are outside the fairness. In Balance and Storefront one weak fairness
of all these steps is enough, because every execution, request and entry takes finitely
many: what goes on at all comes to its end. These are
the event loop's, Redis's and InnoDB's guarantees; nothing assumes that a
message or a process survives. Only weak fairness is used.

## 4. What is proved

TLAPS checks these for every value of the constants that satisfies the named
assumptions. `TokenAssumption`, `CheckoutAssumption`, `BalanceAssumption`,
`ProductAssumption`, `CartAssumption`, `CatalogueAssumption` and
`AccountsAssumption` give types and say that model values and the ids of requests
are distinct (`CatalogueAssumption` also that there are finitely many authors of
reviews, as there are in a table). `OldAssumption` and `OldCartsAssumption` say that
the rows there are at first are as the triggers and the unique keys leave rows.
`StorefrontAssumption` ties the constants of the two modules `Storefront` composes.

* `TransactionToken_proofs`: `TypeCorrect`; `ExclusiveCorrect` from `LockOwned`
  (a delivery that holds the lock is the one that set it: needed because
  `releaseLock` would delete anybody's); `OkCorrect` from
  `CompletedIsCommitted` (before a commit nothing that could reach the caller
  says completed: not the entry, what was read from it, an outcome or a reply).
  `EffectCorrect`, `FailureCorrect` and `NotReExecutedCorrect` are about one replica
  (`OneReplica`) and any number of deliveries, where processes stop, messages are
  lost and the locks of what stopped expire before a retry, but Redis answers, the entry lives and a lock outlives its
  holder (`NoRedisFault`). Finding 1 is why the first hypothesis is needed; without the
  second a failed read or write of the status refutes all three. The executions cut off
  between commit and record are excepted, as the retry does execute them again. They rest on the order of the connection: `PipeCorrect` says what it
  holds (a delivery once, and only one that waits for its command), and `OnceInv` that
  a delivery about to try the lock after it read no final status (`LateTry`) has its try
  in front of every release of the lock. A lock that expires was of a process that
  stopped, and whoever tried it there has stopped too. So the try fails, or nothing is
  final yet, and what `Stage` says of each step holds: an execution starts with nothing
  committed but by executions that were cut off. `NothingInv` says that a withdrawal of
nothing never commits, so that what its early return tells is true.
* `Checkout_proofs`: `TypeCorrect` (with it, stock never negative);
  `SalesCorrect`, the inductive invariant with `WinnerInv` (of the requests about a
  draft at most one got past the commit), `CreditInv` (credits in flight or
  booked come from that one's success) and `CompletedInv` (also of queries that
  are about to delete), and from it `CreditCorrect`, `AnswerCorrect`,
  `CompletedCorrect` and the refinement `LedgerCorrect`, in which a sale maps to its
  receipt and a credit to its count, so that a second one would be a step that the
  ledger has not. `ReturnCorrect` adds `OriginInv` and `ReturnInv` and assumes
  `Unambiguous`, without which finding 2 refutes it; it allows one more return for each
  time the list started over. `StockCorrect` (`NoOversell`) assumes it too. Its invariant is an equation
  where the property is an inequality: `StockInv` says that the shelf and the units that
  are out (reserved by a creation, and not put back) are together what there was;
  `PendingInv`, that a draft whose units go back, or are about to, is no longer pending.
  What is sold or pending is then part of what is out, and sums to no more.
* `Balance_proofs`: `TypeCorrect` (no balance negative), which needs `LockInv`:
  what a withdrawal read is still the balance while it holds the row;
  `BookedCorrect`, `FinalizedCorrect`, and `OutcomeCorrect` from `OpenInv`
  (while an execution that is alone with its token runs, its row is absent).
  `BalancedCorrect` is about sums over any number of rows; its invariant `SumsInv`
  carries that there are finitely many of them, without which a sum means nothing.
* `ProductStock_proofs`: `TypeCorrect` (a stock is never negative nor over its
  column) with `BanInv` (who is about to ban is an admin) and `TriesInv` (a restoration
  under way has an attempt left); `MovesCorrect`, assuming that updates name the
  stock (`NamesStock`), with `AnswerInv`; `SoldCorrect`.
* `Accounts_proofs`: `Invariance`, the inductive invariant; from it `TypeCorrect`,
  `RoleCorrect`, `ListsCorrect`, `SessionsCorrect`, `DevicesApart` and
  `PlacesCorrect` (which no run states: it is proved only). The calls write what they
  found earlier, so with the types the invariant has `CallsOK`, what a call knows
  where it is: that it works on its own account unless it looked another one up, that a
  suspension about to write read a status that is not banned, that whoever is about
  to store a session is a log in, a refresh or a registration whose status was neither
  banned nor suspended, and that a refresh about to end an expired session found
  it expired; and `RowsOK`, that a role agrees with its phone and a status with who
  deleted, as the triggers leave them. `SessionsChecked` is inductive only with them.
* `Catalogue_proofs`: `Invariance`, and from it `TypeCorrect`, `LockedCorrect`,
  `OwnerCorrect` and `RatingsCorrect`. `LockedByWorker` is part of the invariant, with
  `AllEntitled` (a write that has been checked is by who may make it), `RunsLocked` (a
  rating run at work has the rating lock, which cannot expire under it as it asks no
  other service) and `RatedOK` (while no review is retracted, a rating is of reviewers of
  today, and what a run is about to write is no less than what there is). The last
  two give `RatingsForward`: two runs can not be between reading and writing at once.
* `Storefront_proofs`, the carts alone: `CartInvariance`, and from it `CartTypeCorrect`
  and `OpenedCorrect`. A copy may be old, and what it names may be gone or there again;
  so the invariant is about ids, wherever they are seen, in the tables, in Redis or in a
  request under way: `OneOwner` (a cart's id is of one account), `OneCart` (a row's id is
  in one cart), `Fresh` (nothing has the id of a request that has yet to insert it) and
  `Known` (what a request has opened or found, where it is). `AmountCorrect`
  (`AmountExplained`, of messages, not of clicks) adds `AmountInv`: every row *seen* anywhere by its account, not only
  one in the table, is explained by what was saved, since any of them may be written
  back with one addition more; and the request that does so has not been saved before,
  so that its addition is not counted already.
* `Storefront_proofs`, the composition: `CatalogueRefined` and `CartRefined` show that a
  storefront implements the catalogue's and the carts' own specifications (its delistings
  are among those the carts allow for, because the catalogue lists and announces only
  products). Every theorem about either is thereby one about both together:
  `StorefrontTypeCorrect` and `StorefrontCorrect` collect those the run `storefront` checks.
* `Sums_proofs` has the lemmas these sums need, about the library's
  `SumFunctionOnSet`, whose definition chooses a recursive function: on finite sets it
  exists and is unique (`SumExists`, `SumUnique`), a sum does not depend on the order
  (`SumRemove`, `SumAdd`), and grows with its set (`SumMonotone`). An induction
  theorem would take the claim as an operator, which the provers cannot instantiate; so
  each proof takes a smallest subset that refutes the claim (`SmallestSubset`: strict
  inclusion of finite sets is well-founded) and refutes it.

The types of `TransactionToken` and `Accounts` are proved rather than checked. Every
invariant and action property of the runs that pass is thus proved, and only liveness,
which is out of the prover's reach, is model-checked alone: `CallerReturns`,
`PendingResolved`, `WaitersAnswered`, `Compensated`, `SaleCredited`, `Resolved`,
`RestoreSettles`, `CopyCatchesUp` and `PagesCatchUp`. The findings are TLC's
counterexamples.

## 5. Not modelled, and why

* Gateway controllers, guards, cookies, DTO validation: no state of their own. Access
  tokens are signed and kept nowhere.
* `createPaymentLink`: builds a request for Mercado Pago. The draft's
  cached copy (`getDraftOrder`, EX 30) is only shown; the lists of orders, incomes and
  withdrawals are queries.
* Page numbers, limits, sort orders, texts, tags, images, prices in a cart.
* The loads for testing (`product.service.ts:811-1001`, `account.service.ts:432-495`).
* `deleteAccountData`: not reachable, see above.
* The configuration of the deployment; the number of replicas is a constant of
  `TransactionToken`.

## 6. Plan

Done: every service, the components that carry money first. Left:

1. A composition of `TransactionToken` with `Balance`: what a caller is told when
   a token runs twice.
2. A composition of `TransactionToken` with `Checkout`, in which the retry of an execution
   that was cut off is the token's, and not one more request of the set.
