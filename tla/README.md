# SmartPOS verification

TLA+ models of SmartPOS, TLC instances that check them, and TLAPS proofs about
them. SmartPOS is a point-of-sale system: a React frontend (`src/Frontend`), a
FastAPI/SQLAlchemy backend (`src/Backend`) and a SQL Server database with stored
procedures and triggers (`src/Database`). Stock can be written by two paths, the
backend's ORM sessions and the stored procedures; both are modelled and both are
compared with one promise, `StockLedger`. Besides stock, the credit path of the
backend is modelled, and of the frontend the API calls, the point of sale page,
the return dialog, and every page's queries, writes, pagers and dialogs.

## 1. The system

| Part | State | Operations | Hard behaviour |
|---|---|---|---|
| Stock, backend (`sales_service`, `returns_service`, `inventory_service`) | `inventory`, `inventory_transactions`, `low_stock_alerts`, `sales`, `sale_items`, `return_items` | create and void a sale, process a return, restock, adjust | concurrent sessions work on copies of rows and write absolute values; checks and writes are separate reads; int() of fractional quantities |
| Stock, database (`SP_CreateSale`, `SP_ProcessReturn`, `SP_RestockProduct`, `SP_AdjustStock`) | the same tables | the same operations | update locks, deadlocks, joins that update a row once, unlocked reads behind CHECK constraints |
| Low-stock trigger (`TRG_inventory_low_stock`) | `low_stock_alerts`, `notifications` | fires on UPDATE of `inventory` | order of its statements; runs besides the backend's own alert code |
| Credit sales (`credits_service`, `10_CreditSales`) | `customers`, `credit_sales`, `credit_payments` | create from a sale, settle, void, delete a customer | credit-limit and settlement races, a debt whose sale is voided |
| Payments (`payments_service`, `SP_Payments.sql`) | `payments`, `payment_methods` | record a payment, (de)activate a method | unlocked balance read, guard on the last active cash method |
| Authentication (`auth_service`, `SP_Login.sql`) | `users`, `user_sessions`, reset tokens | login, refresh, logout, change and reset the password | lock-out counter races, what a refresh still allows |
| Users and roles | `users`, `roles`, `role_permissions` | create, update, deactivate | sessions of a deactivated user |
| Categories | `categories.parent_id` | create, move, delete | two moves that make a cycle together |
| Products and images | `products`, image files | create, update, delete, upload | files and rows are not one transaction |
| Browser session (`api/client.ts`, `AuthContext.tsx`) | tokens in `localStorage`, `isRefreshing`, `failedQueue` | request, refresh, login, logout | requests queued behind one refresh, refresh racing login and logout |
| Point of sale page (`POSPage`) | cart, sale settings, cached products and tax rates, the request under way | edit the cart and the settings, complete the sale | outdated prices and rates, two ways of rounding, edits and Ctrl+Enter while a sale is pending, answers that are late or lost |
| New return dialog (`ReturnsPage`) | sale field, cached sale detail, ticked items, requests under way | look up, tick, change quantities, process, close | one click that is two, details no return refreshes, requests that outlive the dialog |
| List pages (15 pages, `usePagination`, `useDebounce`, React Query) | page number, filters, cache entries and fetches | turn a page, filter, write, refetch | fetches overtaking writes, keys that no write invalidates, pages left behind by a filter |
| Dialogs of the pages | open, row, form, requests under way | open, type, submit, close | double submits, answers to an older dialog, edits from outdated rows |
| Rate limit | request times per client | admit or refuse | window boundaries |
| Suppliers, business profile, settings, audit, dashboard, reports, notifications | rows | CRUD, reads | little: independent rows |

The frontend calls the backend over HTTP; the backend holds one SQLAlchemy
session per request (`get_db`); the database fires the trigger inside the
transaction that updates `inventory`. The database runs READ COMMITTED SNAPSHOT
(`Scripts/setup_database.ps1:168`): a read sees what is committed when it runs
and waits for nobody; writers of one row wait for each other.

What makes the parts correct:

* stock: the quantity on hand is never negative; it changes only together with
  journal rows that lead from the old quantity to the new one; sale items,
  returned quantities and journal agree; nothing is returned or restored beyond
  what was sold; a product has an open alert exactly while it is low;
* credit: a balance is total minus payments, never negative, and the open
  balances of a customer stay within the credit limit;
* sessions: no token outlives its revocation, every request is answered;
* point of sale: a cart is sold once and complete or not at all, at the total the
  server stores, and nothing of one customer's sale reaches the next;
* pages: what a page shows contains, in the end, what its user wrote; a list is
  never left on a page without rows; a form goes once, and to the row it was
  opened for, and turns back nothing that others wrote;
* categories: the parent relation is a forest.

## 2. Modules

| Module | What it is |
|---|---|
| `Journal` | a row of `inventory_transactions`; `Chained`, rows that lead from one quantity to another; `UnitsMoved`, what rows of some kinds add up to |
| `SharedLemmas` | proved facts that the proofs share: sums over finite sets, chained rows and what they move, what the trigger does to alert rows |
| `StockLedger` | the abstract promise: every step that changes stock appends chained rows |
| `LowStockTrigger` | the trigger, as operators on the alert rows of a product |
| `StockSessions` | the backend's stock path: workers with SQLAlchemy sessions |
| `StockProperties` | its invariants and action properties, `LedgerSpec`, the refinement of `StockLedger`, and the inductive invariants behind them |
| `StockProofs` | their proofs, and the proof that `StockLedger` keeps the whole journal chained |
| `MCStockSessions` | TLC instances of it |
| `StockProcedures` | the stored procedures with their locks |
| `ProcedureProperties` | their invariants, the refinement and the liveness property |
| `ProcedureInvariant` | the inductive invariants: `IInv`, and one for the refinement, for the alerts and for the journal |
| `ProcedureProofs` | the proofs of all their safety properties and of the refinement |
| `MCStockProcedures` | TLC instances |
| `CreditSessions` | the backend's credit path: credit rows, settlements, voids, customers |
| `CreditProperties` | its properties, and the inductive invariants for any workers and for one |
| `CreditProofs` | the proofs of its properties |
| `MCCreditSessions` | TLC instances |
| `TokenRefresh` | the API calls of the browser's tabs: the axios interceptors, login, logout |
| `TokenProperties` | its invariants, its action and its liveness property, and the inductive invariants |
| `TokenProofs` | the proofs of all but liveness |
| `MCTokenRefresh` | TLC instances |
| `Register` | the abstract till: one ticket at a time, recorded once and complete |
| `PointOfSale` | the point of sale page and what `create_sale` makes of its payload; implements `Register` |
| `PointOfSaleProofs`, `MCPointOfSale` | the proofs of that refinement and of the other properties; the TLC instance |
| `ReturnForm` | the New return dialog and its requests |
| `ReturnFormProofs`, `MCReturnForm` | the proofs of its invariants; the TLC instance |
| `Pages` | a table: every page's queries, filters, pagers, writes and invalidated keys |
| `QueryView` | one query and one write of that table, through the query cache |
| `Dialogs` | a table: what every dialog is opened for, loads, sends and waits for |
| `DialogForm` | one dialog of that table, over a list that others edit as well |
| `PageProofs`, `MCDialogForm` | the proofs of the properties of lists and dialogs; the TLC instance of the dialogs |

### StockSessions

A worker serves a request in phases. `Receive` is `get_db`; `LoadProduct` is one
turn of the product loop of `create_sale` (or the product read of `restock` and
`adjust`); `LoadSale` and `LoadItems` are the reads of a sale and of its items;
`DeductStock`, `RestoreVoided`, `ReturnLine` process one line; `Restock` and
`Adjust` are the inventory operations; the `Commit*` actions are
`session.commit()`; `Rollback` is any exception. `uow` is the session: `stock` is
the identity map's `quantity_on_hand`, `base` its value when it was read, so that
`NewStock` writes the column only when the attribute changed; `rows`, `raised`,
`resolved` and `items` are pending changes. `autoflush` is off
(`database/session.py`), which is why `HandleLowStock` does not see the alerts of
its own session.

Statements flushed early (`session.flush()` after the header is added) insert rows
nobody else reads before the commit and are part of the commit action; `adjust`
flushes its UPDATE, and is one action from there to its commit because it then
holds the row.

### StockProcedures

A call is one transaction. `LockRow` locks and checks the row of one line
(`UPDLOCK`), `CreateSale`, `RestockProduct` and `AdjustStock` do the rest of the
procedure, up to COMMIT, once every row is locked. `ExpandLines`, `BookItem`,
`RestoreLine` and `CommitReturn` are `SP_ProcessReturn`: the unlocked read of what
is returnable, the UPDATE of a sale item, the UPDATE of the stock, the commit.
Joins and cursors give no order, so `Advance` goes on with any line that is left.
`Refuse`, `Abort` and `DeadlockVictim` roll back.

Quantities of sales and returns are `DECIMAL(12,3)`; stock is `INT`. Both models
count sold quantities in fractions of `1/Scale` and truncate as the code does
(`Whole`); `Scale = 1` makes all quantities whole.

### CreditSessions

Sessions work as in `StockSessions`. `LoadCustomer` is `get_customer`; `CheckLimit`
is `create_from_sale` with its query for what the customer owes; `LoadSale` and
`LoadCreditSale` are the reads of `void_sale` and `settle`; the `Commit*` actions
write. The limit that `CheckLimit` compares with is the copy `LoadCustomer` made. A
commit writes the columns that changed: `settle` always changes the two amounts, but
a row that was read PARTIAL and stays PARTIAL keeps the status another session may
have stored meanwhile (`WriteRow`). `collected` is the sum of the `credit_payments`
rows. `void_sale` and `create_sale` are here for what they do to credit; what they do
to stock is in `StockSessions`.

### TokenRefresh

Each call is at a place: `sent`, `answered`, `queued`, `refreshing` (it started the
refresh), and finally `ended`, or `lost` with its page. JavaScript runs one event at a
time, so an action is one event with the promise callbacks it sets off: the response
of a call (`Finish`, `JoinQueue`, `StartRefresh`, `NoRefreshToken`), the response of a
refresh (`RefreshSucceeds`, `RefreshFails`), the load of a page (`Unload`). The
server answers in actions of its own. `storage` is shared by the tabs;
`isRefreshing`, `failedQueue` and the page belong to a tab. `location.replace` only
asks for the next page (`leaving`): until `Unload`, the old page goes on and makes
calls.

### PointOfSale and Register

In this and the following modules an action is one event handler (a click, a key,
an answer) with the render and the effects it causes: JavaScript lets nothing come
between them. `AfterRender` is the effect that chooses the default tax rate whenever
none is chosen, so it is part of every action that sets the settings. `cart` keeps
the price a product had when it was added; `shown` and `shownRates` are the page's
query results. `CompleteSale` is the button and Ctrl+Enter, `Payload` what it
posts. `ServerSells` is `create_sale` in one step: `StockSessions` and
`CreditSessions` take it apart. `AnswerIsLost` is the client's time-out, with the
sale stored or not.

Money is counted in grains, much smaller than what the database stores. `StoredTotal`
rounds each part as `_money` does, `OnScreen` as `formatCurrency` does. Page and server
compute with IEEE doubles, which do not hold most decimal amounts: each computation
may miss by any of `Errors` grains, chosen anew each time (`\E e \in Errors` in
`CompleteSale`, `ServerSells`, `ServerRefuses`). Where the tax is farther from the middle
of two stored amounts than the errors, rounding undoes them. Where it is not, payment
and stored total may differ by one unit of the database: a price of 0.09 at 12.5% is
0.10124999999999999 on the page, which is stored as 0.1012, while the server's total is
0.1013. `Tied` says so of a request, and `MoneyAgrees` excepts it, within that unit.

`Register` promises that a ticket is the cart as it was submitted, that one is out
at a time, and that a recorded one is recorded once and takes the cart with it.
`Till` maps the page to it: a stored sale has taken its cart, even while the page
still shows it. `RegisterSpec` excepts one step, the lost answer of a stored sale.

### ReturnForm

`selected` says of each item how many lines of `selectedItems` it has, and what they
say: a click on a row toggles once, a click on its checkbox twice, both times from
the selection of before the click (`Toggle`). `detail` is the cached sale detail.
`Close` drops the dialog's state but not its requests, which belong to an `opening`;
`Pending` is the mutation of the present opening. `Process` is
`returns_service.process` in one step; a line refunds its share of the line's total,
rounded (`LineRefund`). `Fails` is `onError`: the return was refused, or its answer did
not come, with the return stored or not (`lost`), and the dialog keeps its selection.
`ReturnElsewhere` is another till.

A server may serve a request after its client has given up. Here, and in `PointOfSale`
and `DialogForm`, such a request is served just before that instead.

### Pages and QueryView

`Pages` is the frontend's pages as data: 41 queries with their keys and the tables
they read, 17 filter bars and 13 pagers, 35 writes with the tables they change and the
keys they invalidate, and what another browser writes. `QueryView` chooses a pair of a
query and a write in `ListInit`; its `List...` names let `PageProofs` extend it beside
`DialogForm`.
What it needs to know of a pair is a `Kind`: filters, pager, whether the write covers
the query's key, and whether both are on one page. Of `CreditsPage` and `SettingsPage` a
"page" is one tab: what the writes of a tab leave stale in a sibling tab counts with
the lists of other pages. `cache` and `fetching` are the
cache entries and the fetches under way, per filter and page number; a value is
older or newer than the write (`version`). `Go` is every way to show another entry,
`TypeText`, `Settles`, `Choose` the filters, `Previous` and `Next_` the pager while it is
shown (`PagerShown`: the tabs of the inventory page show it without an entry, too, and
then count one page), `WriteSucceeds` the mutation's `onSuccess` with
`invalidateQueries`. React Query is external: `Mount`, `Arrives`, `Collect`,
`Refetches` are modelled from how the code uses version 5 of it. Among them is that
`invalidateQueries` does not cancel the first fetch of an entry (`missed`).

### Dialogs and DialogForm

`Dialogs` is the 18 dialogs of the pages as data. `DialogForm` chooses one in `Init`.
A field's value is told apart by who wrote it (`writer`) and in which opening of the
dialog it was set. `Open` loads what that dialog loads, `Close` empties the form,
`Succeeds` closes whatever is open. `Submit` is guarded by the page's pending request
only where the button is disabled by `isPending`. `renews` is what an opening for a new
row sets of a form that is open already: all fields, but of `SettingForm` only one,
for Add Setting resets the category (`SettingsPage.tsx:810`) and the mounted inputs keep
the key, value and description of the setting they were loaded from. The other buttons are disabled by
`isSubmitting`, which has ended by the time `mutate` returns. `Fails` covers a refusal
and a lost answer to a stored request.

## 3. Runs

| Run | Instance | Shows |
|---|---|---|
| `StockSerial` | one worker, two products and a service, 5 requests of every kind, with the trigger | served one at a time, the backend keeps `LedgerSpec`, alerts, returns and voids, and books no return on a voided sale |
| `StockRacing` | two workers, one product, 4 requests | what even racing workers cannot break: `TypeOK` (no negative stock), `LastMoveIsStock`, `SoldStockIsJournaled`, `ReturnedWithinSold` |
| `StockLostUpdate` | two workers, two sales | counterexample to `LedgerChains`: a deduction is lost |
| `ProcRacing` | two connections, two products, 5 calls, fairness | the procedures keep `LedgerSpec`, `ItemsAreJournaled`, `AlertsFollowStock`, `ReturnedWithinSold`, the inductive invariant `IInv`, and every call ends |
| `CreditSerial` | one worker, two customers, 5 requests of every kind | served one at a time, payments add up, the status follows the balance, sales keep the debt within the limit, a voided sale is not owed |
| `CreditRacing` | two workers, one customer, 4 requests | what even racing workers cannot break: `BooksBalance`, `NoDebtForgiven`, and `IInv`, which contains that no balance is negative |
| `TokenRefresh` | one tab, two calls, a login and a logout, three access tokens, fairness | a call waits only for a refresh that will end, is sent again only with a new token, is answered; the stored tokens belong together |
| `PointOfSale` | two products, one tax rate, carts of two units, one sale, a change elsewhere of stock or price and one of the rate, errors of one grain (1,750,000 states) | the page is a `Register`; the payment is the stored total where the rates are current and the tax is not between two stored amounts; no setting is left over |
| `PosCreditIsOwed` | the same | counterexample to `CreditIsOwed`: a stored credit sale is owed nothing |
| `ReturnForm` | two sales of one item each, two openings, two requests, another till (600,000 states) | `SelectionFitsSale`, `ReturnedWithinSold`, `OneReturnPerOpening` but for lost answers |
| `QueryView` | every kind of pair of a query and a write, two pages, two filters, two entries known at once, fairness (730,000 states) | `TablesAdmitWrites`, `FiltersKeepRows`, and `WritesAreShown` |
| `DialogForm` | every kind of dialog, two rows, two openings, two requests, one edit elsewhere (733,000 states) | `OneWritePerOpening`, `SentToItsRow`, `KeepsOthersEdits` |

### Disagreements

Two disagreements of the code with its documents are runs: `StockLostUpdate`
(`13_Database_Overview/README.md:185` claims row locks against lost updates) and
`PosCreditIsOwed` (`05_Functional_Requirements/README.md:350`: a credit sale
increases the customer's balance).

Further configurations, each with the one property that it violates, in at most a few
seconds:

| Configuration | Violates | Because |
|---|---|---|
| `StockVoidAfterReturn` | `RestoredWithinSold` | voiding a partly returned sale restores the returned units again |
| `StockOverReturn` | `ReturnItemsWithinSold` | two returns of one item are both accepted (`10_Business_Rules/README.md:147`) |
| `StockReturnOnVoided` | `NoReturnOnVoided` | a return is booked on a sale that was voided meanwhile |
| `StockTwoAlerts` | `OneOpenAlert` | backend and trigger both raise an alert |
| `StockTwoLines` | `LowStockIsAlerted` | two lines of a product open two alerts, and one is left open |
| `ProcRepeatedLine` | `LedgerChains` | a product on two lines of a call is deducted once and journaled twice; with `Scale = 2`, `LedgerChains` also fails for one sale of half a unit, which takes a unit and journals none |
| `ProcAlertNotified` | `AlertsAreNotified` | the trigger looks for the absence of an open alert after it has inserted it, so it notifies nobody (`All_Triggers.sql:687-689` and `:750` promise one notification per new alert) |
| `ProcUnknownLine` | `SaleHasEveryLine` | `SP_CreateSale` drops the line of an archived product, which its comment (`:22`) says it refuses |
| `CreditLimit` | `DebtWithinLimit` | two racing sales are both within the limit, and exceed it together |
| `CreditStuck` | `SettledOwesNothing` | racing settlements leave a row SETTLED with a balance, which takes no more payments; `PaidWithinTotal` in its place is violated too (`10_Business_Rules/README.md:164`) |
| `TokenAfterLogout` | `TokensCleared` | a refresh answered after the logout stores an access token again (`18_Security_Architecture/README.md:69`) |

`TokenTwoTabs` passes: the types, the queue and the two properties of calls, for two
tabs that share `localStorage`.

These properties of the frontend do not hold. Each is stated beside the one that does,
and putting it in the configuration of its module's run shows why:

| Module | Property | Counterexample |
|---|---|---|
| `PointOfSale` | `NeverSoldTwice` | the answer to a stored sale is lost, the cart stays, and is sold again |
| | `MoneyAlwaysAgrees` | the rate changed after the page fetched it, or the tax is in the middle of two stored amounts and the two computations miss it on different sides |
| | `NothingForgotten` | a product added while the sale was pending goes with the reset |
| | `NoTaxIsKept` | the effect chooses the default rate again |
| | `CartStartsFresh` | the last line is removed, which resets no setting |
| | `ShownTotalIsEnough` | the total shown is rounded down, and typed as received it is refused |
| `ReturnForm` | `NeverReturnedTwice` | the answer to a stored return is lost, the dialog keeps its selection, and returns it again |
| | `ReturnedAsShown` | a click on the checkbox adds the item twice |
| | `RefundWithinPaid` | refunds are shares of the lines' totals, the sale had a discount |
| | `OwnSuccessCloses` | the answer to an earlier opening closes the present one |
| `QueryView` | `NeverStranded`, `NeverTrapped` | a filter or search keeps page 2, or the debounce filters after the user has turned the page; with the pager hidden there is no way back |
| | `AllAdmitWrites` | lists of other pages stay fresh: a sale leaves the inventory list as it was; so do lists of sibling tabs: an edited customer leaves the credit list as it was |
| | `AndNoneIsMissed` | a first fetch that the success overtook passes for fresh |
| | `AnswersFit` | the lists of the credits page send neither page nor filter |
| `DialogForm` | `NeverTwice` | a button disabled by `isSubmitting` is pressed again before the answer |
| | `NothingLeftOver` | the inventory dialogs open with the quantity or the reason of the last one; Add Setting, pressed while a setting is edited, posts what is left of it as a new one |
| | `EveryEditIsKept` | a form sends the whole outdated row |
| | `OwnSuccessCloses` | the answer to an earlier opening closes the present one |

Outside the models, `InventoryPage.tsx:793` offers the Restock button of a low-stock
alert only when its status is `ACTIVE`, which no alert has: the backend uses `OPEN`.

### Bounds and fairness

Bounds. `MaxRequests` (4 or 5) allows a sale followed by the operations that race
on it: sale, return and void, or return and return, with a stock movement
between them. Two workers suffice for the races: each anomaly is between one reader and one
writer. `MCInitStock` puts one product a unit above its threshold, so that
movements cross it in both directions, and one at it. Two products let calls lock
in opposite orders. Symmetry is not used (products and requests differ).

`CreditSerial` has limits that sales reach exactly, exceed, and that are
lowered and raised; `CreditRacing` lets any two of sale, settlement, void, limit
change and deletion overlap. In `TokenRefresh` a call sets off at most one refresh of
its own (`_retry`), and three tokens allow the first one, a refresh and a login or a second
refresh; two ordinary calls are the one that refreshes and the one that queues.

In `PointOfSale` one sale suffices, for its success resets all that the next one
could see; a posted sale can still be edited around, refused, lost and posted again.
The prices and the tax of 12.5% give totals that both roundings change, some beside the
middle of two stored amounts and some on it, and the errors, of one grain in a hundred
either way, decide only the latter (the real ones are far smaller); the stock of
one unit is exceeded by the + button and by the change elsewhere. In `ReturnForm` the
first sale has two units, so that a doubled line can exceed it and a partial return
leaves it open, and a discount; two openings with two requests are an old dialog's
answer meeting a new dialog. In `QueryView` two pages and two filters are what a
filter can leave behind, and two entries are the one shown and the one turned away
from; a third would only be another that is turned away from. A second write would
find the cache in a state the first can leave it in. In `DialogForm` two openings
and two requests are again the old and the new; two rows are what can be confused,
and are symmetric.

Fairness. `ProcRacing`, `TokenRefresh` and `QueryView` state liveness. In `ProcRacing`,
`Fairness` is weak fairness of each
connection's next statement and of the deadlock monitor: the server runs every
statement that does not wait, and SQL Server ends a call of every deadlock. No
fairness is assumed of clients (`Call`) or of failures (`Abort`).
In `TokenRefresh` it is weak fairness of the answer to each call (the axios client
has a time-out, `FailCall`), of the answer to each refresh (the bare
`axios.post` has no time-out, so this is an assumption: the server or the connection
ends), and of the browser handling what arrived. None is assumed of pages that make
calls or load, or of expiry.
`QueryView` assumes that a fetch that has started ends: it arrives, or the 30 seconds of
the client end it. Nothing is assumed of the user, of the write or of the stale time.
`CHECK_DEADLOCK` is off where requests, sales or openings are bounded: with the bound
reached and nothing under way, the system rests.

### Mutants

A definition `Operator_Change` is a variant of `Operator` with a plausible mistake
(a dropped lock, `<` for `<=`, an overwritten counter). No specification uses it.
Putting it in the place of `Operator` must break the property it is listed with in
`PROJECT.json`; so every property is known to depend on the code it is about.

## 4. Proofs

Every safety property that a passing run checks is also a theorem, for every value of
the constants. Each rests on an
inductive invariant: the property strengthened by what the work in progress of a
worker, a call or a request still has to be like, because commits write what was read
earlier. Each component's proof has one lemma per action.

Each theorem needs the assumption that its component's module names
(`SessionsAssumption`, `ProceduresAssumption` and so on: the types of the constants, and
for the point of sale that its products are finitely many). A further hypothesis is
written into the theorem. Without it the property is false, as TLC shows:

| Hypothesis | Of | Without it |
|---|---|---|
| `OneWorker` | the `Serial...` theorems of `StockProofs` and `CreditProofs` | with two workers each of these properties is violated: `StockLostUpdate`, `StockOverReturn`, `StockReturnOnVoided`, `CreditLimit`, `CreditStuck`, and the others when they are put in `StockRacing` or `CreditRacing` |
| `Trigger` | `SerialAlertsFollowStock` | `StockTwoLines`, without the trigger that `setup_database.ps1` installs |
| `WholeReturns` | `ReturnsAlwaysRestoreStock`, `SerialRestoredWithinSold` | the fraction of a unit is lost anew with every return row, not once per product |
| `WholeCalls` | `ProceduresPostMovements`, `JournalIsWhole` | `ProcRepeatedLine`, and the same with `Scale = 2` |
| `Scale = 1` | `ItemsAlwaysJournaled` | the journal's INT has no fractions; repeated lines are allowed here |
| `WholeAmounts` | `MoneyAlwaysBalances` | a discount of more digits than `_money` keeps is rounded by the server before the tax, on the page after it. Its other premises are in `PointOfSaleAssumption`: any errors, but below half a unit of the database, where doubles of prices are by many digits |
| `OneTab`, `InTheApp`, `OneLogin` | `TokensStayTogether` | a refresh is overtaken by a login: in another tab, of a page that began at the login page, or by a second one made before the first is answered |

### Stock, backend: `StockProofs`

* `InvariantHolds`: `IInv`, for any products, requests, `Scale` and number of workers.
  `PendingOK` says of a session, however old what it read, that its pending rows chain
  from the stock it read to the stock it will write, and that it writes the stock
  exactly if one of them moved something (this is what `NewStock` leaves out);
  `CopiesOK` that its copies of sale items name the products and quantities of the
  stored ones and are booked within them. Hence `TypesHold` (no negative stock),
  `ReturnsAreWithinSold` and `LastMoveShowsStock`, however requests race.
* `JournalInvariantHolds`, also for any number of workers: the pending rows of a session
  move what the lines it has processed say (`MovedOK`). So the journal can be added up:
  `SoldStockAlwaysJournaled` and `ReturnsAlwaysRestoreStock`. Lost updates
  lose stock, but no journal row and no sale item.
* `SerialInvariantHolds`, for one worker: what the session read is still stored
  (`ReadOK`, `FreshOK`). Hence `SerialReturnsAddUp`; with `ReturnsAreWithinSold`,
  `SerialReturnItemsWithinSold`; `SerialVoidsAreFinal`; and the refinement
  `SerialSessionsPostMovements`. `LedgerIsWhole` says that `StockLedger` by itself keeps
  the journal chained from the opening stock to the quantity on hand; together they give
  `SerialJournalIsWhole`.
* `SerialAlertsFollowStock`: service and trigger both write alerts, in one commit. The
  invariant (`AlertingOK`, `AlertsOK`) says what the session is going to raise and to
  resolve, so that the trigger finds nothing left to do, or does it. That a sale resolves
  nothing and a void raises nothing needs that a sold product has moved before.
* `SerialVoidsRestoreOnce`: a void restores once what the items of its sale say, since
  the status it read is the stored one.
* `SerialRestoredWithinSold` puts the three sums together: unless a sale was voided after
  some of it had been returned (`ReturnsOnVoided`, which `StockVoidAfterReturn` shows),
  returns and voids put back no more of a product than sales took. What comes back must
  be compared item by item in whole units, so `WholeItems` says that what was returned of
  an item is whole, in the stored rows and in the copies of sessions.

### Stock, database: `ProcedureProofs`

* `InvariantHolds`; hence `TypesHold` and `ReturnsAreWithinSold`, for any products,
  calls, `Scale` and number of connections. `TypeOK` is not inductive alone: that a
  sale stores a natural quantity needs that the rows it checked are still locked by it
  alone (`Exclusive`, `CheckedOK`), and that a return is within what was sold needs that
  what it has booked was checked under the item's lock (`ReturnOK`).
* `ProceduresPostMovements`: the procedures implement `StockLedger`. The invariant added
  is `PendingRowsChain`: the pending rows of a call lead from the stored quantity of each
  row it has locked to the one it will store; other calls do not change that quantity
  because the lock is exclusive. `JournalIsWhole` follows from the same steps: each
  appends rows that lead on from where the journal ended.
* `AlertsAlwaysFollowStock`: `PendingAlertsFollow` says that a locked product has one
  pending OPEN alert exactly while its pending quantity is low. It speaks of products
  stocked above their threshold, as the property does: a product that begins low has
  no alert until it moves.
* `ItemsAlwaysJournaled`: a return has pending RETURN rows for what it has booked, except
  for the line it is restoring (`RowsFitBooked`). No hypothesis on repeated lines:
  the items and the journal agree even where the stock does not.

### Credit: `CreditProofs`

* `CreditInvariantHolds`, hence `BooksAlwaysBalance` and `DebtIsNeverForgiven`, for any
  workers, requests and limits (`CreditAssumption`). The two properties are not
  inductive alone, for a commit writes what its session read earlier: `SettlementOK` says
  that such a copy, however old, balances, has the total of the stored row, claims no
  more paid than was received (payment rows are only added), and has room for the
  payment.
* For one worker, `SerialPaymentsAddUp`, `SerialStatusFollowsBalance` and
  `SerialVoidedOwesNothing`: at its commit a settlement still has the stored row
  (`SerialSessionOK`). A row that shows every payment and balances has taken no more
  than its total (`SerialPaidWithinTotal`), and one that is SETTLED owes nothing
  (`SerialSettledOwesNothing`). `SerialDebtWithinLimit` is an action property about a sum:
  `LimitOK` says that the limit read is still the customer's and that the sale to
  be committed fits under it.

### Browser session: `TokenProofs`

* `InvariantHolds`; hence `TypesHold`, `QueuesAreServed` and `RetriesAreNew`, for any
  tabs, calls and tokens. `QueueOK` says that each refresh has one call that started it,
  and each waiting call one place in the queue; `AnswerFresh` that a
  refreshed token still on its way is used nowhere, so that a call sent again
  with it is not sent with the token it was refused with.
* `TokensStayTogether`, for one tab: no refresh outlives the session it was started for
  (`SessionsOK`), since only the login page logs in and the way to it
  clears the storage (`PagesOK`).

### Pages

* `PointOfSaleProofs!PageIsATill`: every step of the page is a step of `Register`, a
  stutter, or the loss of a stored sale's answer, for any products, prices, rates and
  bounds (`PointOfSaleAssumption`). Needed from `IInv`: lines and requests have their
  types, a line without units is no line (so that `cart # EmptyCart` is the abstract
  one), and a sent request has units. `SettingsAreForgotten` follows from its actions
  alone. `MoneyAlwaysBalances`: a request that was sent carries the payment that its
  items, its discount and the rates the page knew give (`SentOK`), and rounding its
  parts or its total comes to the same when the parts are whole but the tax, or to one
unit beside it where an error decides the rounding (`RoundNear`, `TotalsAgree`).
* `ReturnFormProofs`: `IInv` is inductive, hence `ItemsFitTheirSale`,
  `ReturnsStayWithinSold` and `OpeningsReturnOnce`, for any sales, items and number
  of openings. The last is not inductive alone: `OneRequest` says that an opening has
  one request under way, `Spends` that an opening whose return is stored either still
  has it unanswered, or is closed, so that its button cannot post another, or has lost
  the answer, which the property excepts.
* `PageProofs`, dialogs: `IInv` is inductive, hence `OpeningsWriteOnce`,
  `FormsGoToTheirRow` and `EditsTurnNothingBack`, for any rows, openings, requests and
  edits. `FormIsOwn` says that every field of an open form is what this opening
  loaded or the user typed (of a form that a further opening fills only in part, while
  it is open for a row); `Fit` says the same of requests; hence a field that is
  sent as changed was typed, and stores `me`, never the outdated `old`.
* `PageProofs`, lists: of every row of the tables of `Pages` it is proved that a table
  is under a key that each write of its page invalidates (`OwnIsCovered`), and that a
  list that returns to page 1 as it filters never has the pager of the audit page,
  which stops on the last page but goes on from beyond it (`ResettingStop`). So it is
  with every kind that `ListInit` can choose (`KindsFit`). `ListInv`, for any
  `MaxPage` and `MaxEntries`, adds what makes the properties inductive: a write is
  stored before it is confirmed, and takes no rows before it is stored
  (`WriteKnown`); after the success every fetch of a table, but one that the success
  overtook, brings the write (`FetchesAdmit`); the page shown is one the filter has
  rows for (`PageFits`). Hence `ListsAreTyped`,
  `TablesAlwaysAdmitWrites` and `FiltersAlwaysKeepRows`.

### Sums

Sums over sets of items, lines and journal rows are `SumFunctionOnSet` of the community
modules, a fold defined by recursion over sets. `SharedLemmas` proves what the other
modules need of it (`SumEmpty`, adding and removing an element, disjoint unions, equal
and dominated functions) without an induction rule: of the subsets of a finite set on
which a claim fails, a smallest one is taken (`Smallest`, from well-foundedness), and
its sum is unfolded once.

### Only model-checked

Liveness (`CallsEnd`, `CallsAreAnswered`, `WritesAreShown`) is out of the prover's reach.
`CreditIsOwed` and the `LedgerChains` of two workers of the backend are refuted by their
runs; for one worker the latter is `SerialJournalIsWhole`, and of the procedures it is
`JournalIsWhole`. Of the properties refuted by the further configurations,
`OneOpenAlert`, `AlertsAreNotified` and `TokensCleared` have no theorem for the case
without the fault.

## 5. Not modelled

Of the modelled parts: payments, receipts, notifications and audit rows a sale
writes; `stock_reconciliations`; `quantity_reserved` (nothing sets
it); products that are deleted or archived (backend) and products without an
inventory row (creation inserts both); money, except the sale total that decides
`REFUNDED`; `return_items` and `is_returned` in the procedures. Any failure of those
parts is covered by the rollback actions, which may happen at any point.
Of credit: `create_customer` and the contact data, due dates, the `payments` row of a
settlement (a second record of the same amount). Of the browser: the stored user, and
the retries of React Query, which are further calls.

Of the point of sale page: search and category filter, the payment method (an effect
always chooses cash), reference number and notes. Of the pages: page sizes, sorting,
date presets, look-ups that nothing in the frontend changes (roles, payment methods,
return reasons, currencies), and the reports, which are fetched on a button. Of the
dialogs: validation (a form that fails it is not sent), product images, and
`window.confirm`.

Suppliers, settings, audit, dashboard, reports and routing keep, on the server, independent
rows or only read; they are listed in `PROJECT.json` with the reason. Their pages are
rows of `Pages` and `Dialogs`.

## 6. Plan

Done: stock, credit, the browser's API calls, the point of sale page, the return dialog,
lists and dialogs. Next, in this order:

1. Proofs: `OneOpenAlert` and `LowStockIsAlerted` of the databases without the trigger,
   for requests that name no product on two lines.
2. `AuthSessions`: login, lock-out, refresh, revocation, password change, with
   users being deactivated.
3. `CategoryTree`: moves racing; the parent relation stays a forest for one worker.
4. `PaymentLedger` (`SP_RecordPayment`, payment methods), `ProductImages`,
   `RateLimit`.

Abstract specifications worth stating besides `StockLedger`: a credit ledger (each
balance moves only with a payment row), a session table (a token is usable or
revoked, never usable again).
