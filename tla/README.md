# A TLA+ verification of the Banka-1 backend

This directory holds TLA+ models of the Banka-1 backend, the TLC runs that
check them and the TLAPS proofs about them.  The backend is a set of Go
services over PostgreSQL and RabbitMQ, each deployed as one replica.  What is
hard about it is not a single service but the money and the shares that move
*between* services: between two banks (a two-phase commit over HTTP), between
banking-core and trading-service (an orchestrated saga), and between requests
of one service that share a row.

`PROJECT.json` lists the components, the runs, the mutants of each property,
the map from the definitions to the lines they model (row lookups and
conversions that a mapped definition calls are not listed separately), the
hazards and the theorems.

## 1. The system

| part | state it keeps | operations | talks to |
|---|---|---|---|
| banking-core-service-go | accounts (booked and available balance), interbank and fund reservations, transfers, payments, verification sessions, cards, margin accounts | reserve, commit, release, debit, credit, transfer, reverse | called by interbank, saga orchestrator, trading, credit |
| interbank-service | `interbank_transactions` (2PC rows), `interbank_messages` (outbox and idempotency cache), negotiations, contracts | SendOutboundPayment, AcceptNegotiation, ExerciseContract, inbound NEW_TX / COMMIT_TX / ROLLBACK_TX, retry scheduler | the same service of another bank; banking-core; trading |
| saga-orchestrator-service | `saga_instance` (state, version, compensation log) | OTC exercise, OTC premium, fund subscribe / redeem / liquidate; admin resume, retry, restart | RabbitMQ queues; banking-core, trading, market |
| trading-service-go | offers, option contracts, portfolio, stock reservations, orders, actuary limits, funds, dividends, tax | OTC desk, orders and their execution, funds, dividends, tax, interbank reservations | banking-core, market, RabbitMQ |
| credit-service-go | loan requests, loans, installments | apply, approve, daily collection with retries | banking-core |
| user-service-go | users, tokens, login attempts | login, refresh, activation, lockout | notification |
| notification-service-go | deliveries, price alerts | deliver with retries, evaluate alerts | SMTP, RabbitMQ |
| market-service-go | listings, rates | refresh, convert | third-party data |
| go-platform | none | message consumer and publisher, auth, middleware | all Go services |
| api-gateway, proto, setup, shared, discord-alert-bot, analytics-spark-job | none that matters here | configuration, stubs, forwarding, batch analytics | |

### What is hard, and what makes it correct

* **Cross-bank payment** — an answer is lost, a message is sent again while
  its first copy is still being handled, a process dies between two writes.
  Correct: the recipient is credited only with money that was taken; a success
  is kept; a rollback moves nothing; what was taken arrives.
* **Cross-bank OTC** — the same two-phase transactions carry premiums, options
  and exercises, while negotiations are countered from both sides.  Correct:
  money and shares of our clients follow the committed transactions, a contract
  is exercised once, the banks take turns.
* **Money ledger and client banking** — reservations are committed and released
  late, twice, in any order; payments are retried; jobs write balances they read
  before.  Correct: available = booked − held ≥ 0, money is neither made nor
  lost, and it moves only on a code entered in time.
* **Cards, margin, external transfers** — counts before inserts, loans that
  must add up with the bank's account, a retry job with a lock, a queue and a
  circuit breaker.  Correct: limits, the margin log, no transfer lost or settled
  unanswered.
* **OTC exercise saga** — steps in two services with compensation, redelivery
  after a crash, operators who resume a saga, answers that are lost.  Correct:
  the buyer pays once, a finished saga is settled or fully undone, a request is
  answered.
* **OTC desk** — offers of one seller share his position, which is read
  without a lock.  Correct: what live contracts need is reserved, and no more
  is promised than owned.
* **Order desk and recurring orders** — a confirmation, a supervisor, a
  cancellation, the expiry job and the execution worker act on one order; money
  moves by remote calls inside a database transaction; several orders share a
  position and an agent's limit; templates fire on a calendar.  Correct: shares
  are reserved once, portions settle once, limits are kept, a closed order stays
  closed, an approved one is worked off, a slot fires once and no month is lost.
* **Funds and their sagas** — a fund's liquidity is kept in trading-service and
  its money in banking-core.  Correct: the two agree but for transfers under way.
* **Tax, dividends, exercised options** — remote debits and credits inside
  periodic runs that may overlap, be repeated or die.  Correct: each gain, each
  holder's part and each exercise is settled once.
* **Loans** — a payout before the booking, a charge before the mark.  Correct:
  a loan is paid out once, collected on schedule and in the end paid off.
* **Users, notifications, market** — rows read and written back, redelivered
  messages, overlapping refreshes.  Correct: lockouts and tokens work, a mail
  leaves once and is decided, an alert fires once each time it is armed.

## 2. The modules

| module | models | proved about |
|---|---|---|
| `MonasLedger` | accounts and interbank reservations of banking-core | yes |
| `InterbankPayment` (extends `MonasLedger`) | a payment across both banks: coordinator, executor, outbox, retry scheduler, inbound handler, idempotency cache | yes |
| `MoneyPromise` | the abstract promise: sender → transit → recipient, once | refinement target |
| `OtcExerciseSaga` | the contract's exercise in trading-service, the saga, its row, its downstream effects | yes |
| `OtcTrading` | offers, contracts, position, stock reservations, expiry sweep | yes |
| `OrderDesk` | orders from draft to fill, positions they reserve, agents' limits, the execution worker | yes |
| `RecurringOrders` | templates, the due run, the calendar | |
| `CrossBankOtc` | negotiations, accept and exercise between banks, contracts, trading-side reservations | |
| `Funds` | funds, positions, holdings, liquidation, dividends, snapshots; fund and premium sagas | |
| `CapitalGains` | FIFO matching, collection runs, charge ledger, debts and tracking | |
| `Portfolio` | public quantity, exercise of listed options, dividend runs, summary | |
| `ClientBanking` | accounts, verification, payments, transfers, fund reservations, internal transfers, scheduled jobs | yes |
| `BankProducts` | cards, margin accounts, external transfers, erasure of client data | |
| `Loans` | requests, approval, installments and their collection | |
| `Users` | login and lockout, tokens, activation, employees and clients | yes |
| `Notifications` | messages, delivery rows, attempts, poller, push | yes |
| `Market` | listings, daily prices, alerts, watch lists, rates, price feed, import | |
| `MCPayments` | the payment in two environments: every fault, and lost messages under fairness | |
| `MCBanking` | ledger, client banking, products, loans, notifications and users as one instance | |
| `MCTrading` | OTC desk, market, cross-bank OTC, funds, tax, positions and recurring orders as one instance | |
| `SumTheorems` | what `SumFunctionOnSet` computes on a finite set | lemmas |
| `InterbankPaymentProofs` (with the ledger and the refinement), `OtcTradingProofs`, `OrderDeskProofs`, `OtcExerciseSagaProofs`, `NotificationsProofs`, `ClientBankingProofs`, `UsersProofs` | the theorems of section 5 | |
| other `MC…` | the constants and scenarios of one module, taken over by `MCBanking` and `MCTrading` or run directly | |

**One run, several components.**  `MCBanking` and `MCTrading` put components
that share no variable into one specification.  The variable `part` says whose
behaviour this is; that component starts in one of its scenarios and takes all
the steps, the others rest.  This is the disjoint union of the components'
specifications: nothing is checked about their interleaving, because nothing one
of them does is visible to another.  Where components do interact, the module
that models them does so itself: `InterbankPayment` extends the ledger,
`Funds` holds the funds, the sagas and the bank accounts, `CrossBankOtc` holds
interbank-service, trading-service and banking-core, `OtcExerciseSaga` the saga
and the rows it writes downstream.  `MCBanking` extends `MonasLedger`,
`ClientBanking`, `Notifications` and `Users` and instantiates the others, so that
`Backed`, `Books`, `OnlyVerified`, `DeliveredOnce` and `AccountsInOrder` of the run
are the properties proved.

**Scenarios.**  A component's constant `…Scenarios` lists, for each scenario, the
requests and jobs that are made (`what`, `reqs`), the classes of faults that may
happen (`may`) and how many (`budget`).  Each request is a process; TLC
interleaves them in every order.  A property that the code does not keep under
some fault or overlap names that condition, either by the scenario's `may` or by
a history variable (`ghost.odd`, `fghost.skewed`, `xghost.twice`, …) that records
when it happened; section 4 lists them.

**Granularity.**  A SQL transaction that locks every row it reads is one step.
Where the code reads a row without a lock, makes a remote call, or writes in
several transactions, each part is a step of its own, and other processes step
in between.

**Faults.**  Every remote or SQL call has three outcomes: it takes effect and
answers; it fails without effect; it takes effect and its answer is lost.
Faults are counted and limited (`MaxFaults`, or `maxFaults` of a scenario), and
each class of fault can be switched on by itself.

### InterbankPayment

`pc[t]` is where `Coordinator.SendOutboundPayment` stands for payment `t`;
`rowA` and `rowB` are the statuses of `interbank_transactions` in the two
banks; `out` and `tries` the outbox row of each message; `cache` the partner's
idempotency cache; `hpc[t][k][i]` the goroutine that handles the i-th copy of
message `k`.  `PrepareValidate … PrepareCompensate` are `PrepareLocal`,
`CommitRef`, `CommitStatus`, `CommitFailStatus` are `CommitLocal`,
`RollbackRelease`, `RollbackStatus` are `RollbackLocal`; `Send`, `MarkSent`,
`Resend…` are the outbound client and `RetryScheduler.tryOnce`; `Lookup` and
`Handle…` the inbound handler with the executor behind it.  The scheduler's
cutoff (two minutes) exceeds the client timeout (one minute), so a message is
not resent while its first sender still waits; it can be resent while the
partner's handler still runs (fault class `slow`).

Left out: the recipient's validation beyond "yes, no or error", stock and option
postings (`CrossBankOtc`), message bodies, back-off times.

### OtcExerciseSaga

Two runners may execute the handler: the queue listener and the goroutine an
operator's endpoint starts.  `eff[s][n]` is the row that step `s` of run `n`
wrote downstream; rows get a fresh id per call, so a repeated call writes a
second row.  `refs` is the in-memory compensation log, `log` the saved one,
`ver` the optimistic version.  `Undo…` are the one-shot compensators after a
failed save, `CompensateStep` one attempt of `compensateWithRetry` with the
save after it.  The scenario `env` is chosen at the start: classes and number of
faults, number of requests, and on which saga states an operator acts.

Left out: amounts other than one share, test-mode fault injection, the delay
between attempts, the step audit trail.

### OtcTrading

One seller, one stock, several offers.  Accept, cancel and expire read the
position without a lock (`ReadPosition`) and write absolute values later
(`Accept`, `EndContract`); the position endpoints likewise; the reservation
endpoints lock the row.  Offer and contract rows are locked (`Locked`) for the
whole transaction.  `env` is chosen at the start: how many requests may
overlap, whether saga calls fall inside them (`overlap`), whether exercises may
fail (`compensate`) and outlast the settlement date (`late`).

Left out: prices, premiums, names, history rows, notifications, reminders.

### OrderDesk

`order` holds the mutable columns of an order: status, remaining portions,
reserved limit exposure, approver.  What never changes (owner, direction,
quantity, all-or-none, fund, account) is the scenario's `book`.  Confirm,
approve and decline begin with an unlocked `FindByID`, so they are two steps:
`Load`, then the rest on the loaded copy, which is written back as a whole.
Cancel, the expiry job and the worker lock the row and are one step.  `queue`
counts the attempts the worker has scheduled.  `tally` records what happened
outside the orders table: portions filled, transaction rows, the value of those
rows, trade legs paid, fees charged, shares the fund recorded.

`env.may` names the events of a scenario; a property is stated for the
scenarios without the events that the code does not withstand.  Without `race`,
nothing else touches an order between a handler's read and its write (`Free`).

Left out: quotes, order types and the activation of stop orders (an attempt
fills any quantity at any price of the scenario, or nothing), currencies,
margin accounts, the public quantity of a position, notifications, audit rows,
the window between the draft check `ensurePortfolioOwnership` and the insert.

### RecurringOrders

`rdb.rows` are the templates, `rdb.orders` the orders they gave.  A run lists
the due templates, and for each loads it again (`LoadRecurring`), creates an
order (`fireRecurringOrder`), confirms it and advances the next run whatever
came of it (`advanceRecurringNextRun`, `WriteNextRun`).  Pause, resume and
cancel first read the template of its owner (`FindOwnedRecurring`) and then write
it (`ChangeRecurring`).  Months have lengths, so
`plusMonthsClamped` and the handler's default next run are those of a calendar.
Left out: what the order does next (`OrderDesk`), notifications other than the
skip.

### CrossBankOtc

`xdb` holds our bank's tables: negotiations, contracts, `interbank_transactions`,
our clients' money and holds (banking-core), positions, stock and option
reservations (trading-service).  Each request of the client API, of the partner
and each message NEW_TX, COMMIT_TX, ROLLBACK_TX is a process whose statements and
calls are steps.  The partner answers anything the protocol allows, or nothing.
The postings of a transaction are kept, since the executor, the validator and
the contract recorder decide by them.  When a posting cannot be reserved, the
compensation releases what was reserved, one call a step.  Two branches cannot be
reached and are left out: a stock posting that is reserved by itself
(`RefKindStock`), since `validatePersonAccount` refuses a posting of stock by a
person, and the 409 answers of trading-service to a reservation that was committed
or released before.  Also left out: more than one stock and
currency, the outbox (`InterbankPayment`), display names.

### Funds

A request that holds the fund's row to its end is one step; the liquidation,
the dividend and the sagas are several.  `flock` is the row lock a dividend
holds while `DebitLiquidity` waits for it.  `freq` and `fres` are the queues to
and from the sagas, `fsaga` their rows, `fbank` the accounts.  The figures of a
fund (value, positions, profit, monthly snapshots, statistics) are operators
named as in the code.  Volatility and annualised return are kept as the radicand
of the root, which sorts alike.  Left out: history of prices, names of managers.

### CapitalGains

Trades and exercised contracts are constants that enter the tables as the clock
passes them.  `buildTaxChargeEntries` is the FIFO engine as a fold; a collection
run (`Collect` … `handleFailedChargeAttempt`) reserves a row, debits, settles.
`TaxViews` compares the engine with a definition that uses no queue: the overlap
of the stretches of bought and sold shares.  Left out: the notification's text,
user names.

### Portfolio

`SetPublicQuantity`; the reservation that a confirmed sell order makes on the
same row (`reserveSellQuantityIfNeeded`); the exercise of an option, which reads
the position, asks market-service for the option and its stock, reads the cover of a put
and then moves money by banking-core in the middle of its transaction, each a
step; and the dividend run with one transaction per holder, the three places an
account is looked for, two conversions and its credits.  Left out: profit figures in other currencies than the
two of the instance.

### ClientBanking

A request's steps are its statements and transactions.  The booked and the
available balance move together in every operation here, so an account has one
(`MonasLedger` covers the operations that split them).  `Generate`,
`ValidateCode`, `Status` are the verification sessions; `PaymentStep`, `TransferStep`,
`FundsStep`, `InternalStep` the movements of money; `AccountsStep`,
`RecordStep`, `RecipientStep` accounts, histories and recipients; `JobStep` the
scheduled jobs.  A payment checks its session, looks up its two accounts,
inserts its row, moves the money and marks the row, each a step; the fee job reads
the bank's account first and the clients' accounts after it, and writes what it
read.  An account expires by the clock between any two steps (`AccountExpires`).
The two accounts of a payment are looked up in one step (`Info`): what it finds is
checked again under the locks that move the money.  Left out: companies and activity codes, the text of codes.

### BankProducts

Card numbers are digits, with the brand's length and the Luhn check.  A margin
operation holds the margin account's row and is one step.  External transfers:
the job under its lock (`LockExpires`) with its two scans, one for transfers to
escalate and one for transfers to retry, messages with redelivery, the breaker
(`CoolDown`), the clearing house (external).  A status update whose error is only
logged is not a case of its own: it aborts the PostgreSQL transaction, whose
commit then fails, as modelled.  Left out: the CVV, card names,
mails.

### Loans

`BeginConfirmation` reads the request, `TransactionFromBank` pays the client,
`Book` takes the status and inserts loan and installment.  A list is every order
its `ORDER BY` admits (`Orders`), since amounts and account numbers may tie.  The job is one
goroutine: `FindDueUnpaid`, then per installment a charge and three statements.
Days are counted down to 0.  Left out: the text of mails, rate decimals (amounts
and rates are whole numbers of small units).

### Notifications

`msg` follows a message from the queue to its acknowledgement; `rows` are the
delivery rows; `att` the goroutines of first attempts and the poller.  The claim
is the conditional update to PROCESSING.  Left out: templates and addresses.

### Users

Every endpoint is the sequence of its SQL statements, and a call carries the row
it read.  A password is the number of times it was set, a token the number of
its draw (`MaxTokens` bounds them, `MaxTries` the wrong passwords).  `UpdateEmployee` reads
the row twice (`BeginUpdateEmployee`, `RereadEmployee`), and writes what the second
read gave.  A search by name has every order that equal names leave open
(`NameOrders`).  The
permissions of a role are grouped by what tells roles apart.  The accounts at
the start are as the service writes them (`StartRow`); the development seed, which
stores other permission names for its clients, is not one of them.  Left out:
names, addresses, the encrypted JMBG, audit events.

### Market

`db` holds the tables, `net` what lies outside (price feed, clock, time series,
Redis, local cache).  Refreshes, alert evaluations, rate fetches and requests
are processes of single statements and calls; rates are fetched by one call per
currency, and the fallback copies the latest day with a read of its date and a
read of its rates; `Provider` lists what the data providers
answer, one state after another.  Pages, trading windows, option groups and
margins are operators that `MarketViews` checks against each other.  Left out:
the providers' formats, gRPC doubles of the HTTP endpoints.

## 3. The runs

| run | instance | distinct states | shows |
|---|---|---|---|
| `pay` | 1 payment, 4 attempts; 2 retries and 4 faults of every class, or 3 retries and 3 lost messages, fair | 241,997 | `CreditedOnlyIfDebited`, `SuccessIsKept`, `RolledBackMovesNothing`, `LossIsMadeGood`, `KeepsPromise` (refinement of `MoneyPromise`) |
| `saga` | 1 contract, 3 runs, 2 attempts per compensator, 4 scenarios, fair | 660,495 | `TypeOK`, `PaidOnce`, `Settled`, `ExercisedIsSettled`, `GoodsArePaid`, `ExerciseAnswered` |
| `orders` | 1 client, 1 agent, 3 orders of up to 3 shares, 13 scenarios, fair | 123,871 | `TypeOK`, `SellsStayReserved`, `PortionsSettleOnce`, `ExposureAccounted`, `AutoApprovedWithinLimit`, `ClosedStaysClosed`, `ApprovedIsWorkedOff` |
| `banking` | ledger: 3 reservations on 2 accounts; 13 scenarios of client banking, 9 of products, 6 of loans, 4 of mails, 11 of users; fair | 171,771 | `BankingTypeOK`, `Backed`, `Books`, `OnlyVerified`, `ProductsInOrder`, `LoanBooks`, `DeliveredOnce`, `AccountsInOrder`, `ListsComplete`, `WorkGetsDone` |
| `trading` | OTC desk: 2 offers, 2 workers, up to 3 shares, 4 scenarios; 12 of market, 15 of cross-bank OTC, 11 of funds, 8 of tax, 9 of positions, 5 of recurring orders | 664,147 | `TradingTypeOK`, `NotOversold`, `HoldsMatch`, `NotOverexposed`, `SharesConserved`, `MarketInOrder`, `CrossBooks`, `FundBooks`, `TaxBooks`, `PositionBooks`, `RecurringInOrder`, `ContractLifecycle` |
| `pay_crash_credit` | 1 crash | violation | `CreditedAtMostOnce` |
| `pay_refused_commit` | 1 failing call, fair | violation | `CommittedIsDelivered` |
| `saga_crash` | 1 crash | violation | `RecoveryPaysOnce` |
| `otc_lost_update` | 1 request at a time, overlapping saga calls | violation | `HoldsMatch` |
| `orders_draft_cancel` | a draft is cancelled | violation | `SellsReserved` |
| `cross_shares` | one accept, no fault | violation | `SharesHeldUntilExercise` |
| `funds_client` | one subscription, no fault | violation | `InvestorOwnsShare` |

**Bounds.**  One payment suffices for the protocol: payments share nothing but
the ledger, which `banking` covers with reservations that compete for a balance,
and the theorems hold for any number.  Four faults are enough for a crash, a
resend of its message, a second failure and a late duplicate; the retry
limit is reached within them.  The saga's three runs allow a failed run, its
recovery and a recovery of that; two attempts per compensator distinguish a
retry from giving up.  Two offers are what it takes to compete for a position,
and amounts 1 and 2 of 3 shares make one offer larger than the rest.  Three orders
let two compete for a position or a limit while a third is bought; quantities
of 2 and 3 give partial fills and partial cancellations; the limit of 6 admits
one agent order of 4 and not two; prices 1, 2 and 3 lie below, at and above the
reference price; one rolled-back trade leg per order (`MaxPaid`) shows a retry.

The scenarios of `banking` and `trading` each bring together the two or more
requests that touch the same rows, with one or two faults, since a fault and its
repetition are what the code distinguishes.  The values are the smallest that
tell the cases apart: two currencies; a limit of two wrong codes and of three
mail attempts, so that the last and the one before differ; a loan of two
installments and one of one; sells that take from two buys; a position held in
part for the bank; months of different lengths, with a start on the last day.
`SYMMETRY` in `trading` permutes the desk's offers and workers, which it treats
alike; `ContractLifecycle` is an action property of single steps, so the reduction
keeps it sound.  The history variables are part of the state on purpose: what
they record is what the properties compare.

**Deadlock** is not checked: payments, sagas, contracts, orders and the requests of
a scenario end.

**Fairness.**  `InterbankPayment.FairSpec`: a goroutine that can step does,
and the scheduler keeps ticking (`RetryScheduler.Run` loops until shutdown).
Nothing is assumed of faults, crashes or requests.  `OtcExerciseSaga.FairSpec`:
runners keep running, and RabbitMQ delivers queued messages to the consumers.
`OrderDesk.FairSpec`: a scheduled attempt runs, since the worker schedules the
order again after every attempt that leaves it executable, and the market
eventually fills what is left; that part is about the market and not the code.
`MCBanking.BankingSpec`: the installment job runs every day and its pass to its
end (`Scheduler.Start` loops), and the notification service's workers and
poller keep running.  Refused charges are limited by the scenario's budget; the
code's job asks again every day, so this is the assumption that an account is
funded some day.

## 4. Where the code does not keep a promise

Each violation run states what a comment or document of the repository says and
shows how the code departs from it.

* `pay_crash_credit`: `CommitLocal` is called idempotent, yet the recipient is
  credited again when the handler dies between the credit and the `COMMITTED`
  row.
* `pay_refused_commit`: "retry scheduler covers failures", yet a transient error
  during COMMIT_TX is cached and replayed to every resend.
* `saga_crash`: "all downstream calls are idempotent per correlationID", yet
  each call inserts a fresh row, and a saga re-run after a crash pays again.
* `otc_lost_update`: the OTC endpoints are said to write the portfolio under
  `FOR UPDATE`, yet three of them read it without a lock.
* `orders_draft_cancel`: the reservation is said to be made on confirmation and
  released on cancellation, yet cancelling a draft releases what it never
  reserved.
* `cross_shares`: the exercise is said to commit "the seller's already-held
  accept-time stock reservation" (`store/transactions.go:26-34`), yet committing the
  accept exercises that reservation at once: the shares leave the seller before
  the buyer has exercised, and stay gone when he never does.
* `funds_client`: the subscribe saga reports so that trading-service can "update
  ClientFundPosition", yet its event carries no client and the consumer books
  the share on client 0.

The conditions in the passing properties mark the other places where the code
promises less than one might expect.  Those down to the slots that fire twice were
seen in TLC's counterexamples when the condition is dropped; the ones after that
(month ends, puts, ties, rates, conversions) come from reading the code, and the
properties are worded so that they allow them:

* a lost YES leaves the partner PREPARED, since only a NO vote is followed by
  ROLLBACK_TX (`coordinator.go:358`);
* an operator who resumes a saga that is still running starts a second payment,
  although `otc_exercise.go:51-52` says the optimistic lock rejects it: the lock
  rejects the second save, which comes after the second call (`OneRun` in `PaidOnce`,
  `Settled` and `GoodsArePaid`);
* an operator who retries a saga that runs or has completed takes the references
  of its log into a run that may compensate them, so that an EXERCISED contract
  is paid back (`Cautious` in the theorem `ExerciseSafety`);
* a transfer whose answer is lost is not compensated (`Answered` in `Settled`;
  `Undisturbed` is `Answered` and `OneRun`);
* a second exercise after a compensated one is skipped by the terminal saga
  (`env.requests = 1` in `ExerciseAnswered`);
* the compensation of an exercise releases the reservation made at accept time
  while the contract stays ACTIVE (`compensate` in `HoldsMatch`);
* two accepts at once oversell the position (`Serial` in `NotOversold`);
* the sweep can expire a contract whose exercise has just completed (`late` in
  `ContractLifecycle`);
* a cancellation between the unlocked read and the write of an approval is
  overwritten, and the order comes back (`race` in `ClosedStaysClosed` and
  `SellsStayReserved`);
* a portion or a confirmation whose transaction fails after the trade leg or the
  fee was paid pays again on the retry, and a fund's failed callback is only
  logged (`abort`, `callback` in `PortionsSettleOnce`);
* a limit reset while orders are open forgets what they hold, and a fill above
  the reference price takes from the part of the other orders (`reset` and the
  prices in `ExposureAccounted`);
* the worker's schedule does not survive a restart or a failing read (`restart`
  in `ApprovedIsWorkedOff`);
* a payment whose commit was not answered is applied again, two releases or two
  transfers that both passed their check move money twice, the fee job
  overwrites newer balances, and the reversal of a transfer between currencies
  gives back the wrong amount (`ghost.odd` in `Books`); `Status` can write EXPIRED
  over VERIFIED (`OnlyVerified`);
* two card requests at once exceed the limit, a card can be created after the
  erasure of its account, and a status changed between read and write is lost
  (`pghost` in `CardsInOrder`); a transfer stays RETRYING for good when its
  message and its log row are spent, since escalation selects PENDING only;
* two officers, a lost answer or a failed booking pay a loan out twice (`race`,
  `lost`, `db`, `crash` in `LoanBooks`), and a charge whose mark failed is made
  again;
* overlapping logins are counted once, and an update brings back an older row
  (`overlap` in `AccountsInOrder`); a client who gets another role keeps the
  permissions of the old one (`past.moved`), although
  `setup/GO_SERVICES_REFERENCE.md:192` says the defaults of a role are "used only
  at employee/client creation and role change";
* a mail whose acceptance was not answered is sent again (`ghost` in
  `DeliveredOnce`), and a row left PENDING or PROCESSING is never polled (`db`,
  `crash` in `AllDecided`);
* overlapping evaluations publish an alert twice, overlapping fetches store older
  rates (`mghost.evals`, `mghost.fetches`);
* two accepts in flight pay the premium twice, and an accept may settle terms that
  a counter-offer has moved (`xghost.twice`, `xghost.moved` in `CrossBooks`);
* a liquidation writes an older liquidity over a newer one (`fghost.skewed` in
  `FundBooks`), and the reinvestment of a dividend waits for its own caller's
  row lock (`blocked`);
* a tax debit whose answer was lost is made again (`lost` in `TaxBooks`), a
  dividend whose second credit failed pays the first one again (`refuse`,
  `lost`, `crash`, `db` in `DividendBooks`), and two exercises of one option at
  once are both settled (`overlap` in `ExerciseBooks`);
* two runs of recurring orders at once, or one cut off before the advance, fire a
  slot twice (`overlap`, `db`, `crash` in `RecurringInOrder`);
* a monthly template that meets a shorter month keeps the shorter day for good,
  31, 28, 28, since the next slot is reckoned from the clamped one
  (`recurring.go:53-61`, `:400`); and the default first run on day 31 can skip a
  month, since `AddDate` runs over the end of a short one (`order_handlers.go:387`,
  `:391`): `RecurringInOrder` says which days come, from the first run on;
* the summary shows a put as exercisable although the shares it delivers are
  missing, and the exercise refuses it (`portfolio/service.go:220`); the cover of a
  put counts shares that are reserved; and a sell order confirmed after shares were
  made public reserves them too (`repository.go:154`), so that `ExerciseBooks` bounds the
  public quantity by the free shares and what was reserved since;
* users are listed by name, loans by amount or by account and listings by price
  with LIMIT and OFFSET and nothing to break a tie, so that a row on a tie may
  come twice or not at all over the pages (`ListsComplete` and `MarketInOrder` claim
  completeness for rows that do not tie; creation times are taken as distinct);
* the rates of one day may come from several answers of the provider, one per
  currency, of which only the dates are compared (`MarketInOrder`); and a
  dividend yield of 0 from the provider leaves the old one in place;
* a failed conversion leaves a dividend's amount as it stands, so that when only the
  conversion back fails the tax in dinars is taken off a gross in dollars, and the
  credit of the negative rest is refused (`fx` in `DividendBooks`).

## 5. What is proved

The theorems hold for every value of the constants within the assumptions that
the modules state about them: any number of payments, accounts, orders, users,
offers, requests at once, runs, attempts and faults, any amounts and prices, and
any scenarios.  Sets that are summed over are finite.  Some theorems have a
hypothesis on the scenarios beyond that; each is a constant formula, is met by
the scenarios of the runs, and is needed, as a run or a case of section 4 shows.

| theorem | property | hypothesis |
|---|---|---|
| `LedgerTypes`, `LedgerBacked` | `LedgerTypeOK`, `Backed` | |
| `Invariance`, `TypeCorrect`, `CreditSafety`, `SuccessSafety`, `RollbackSafety` | `IndInv`, `TypeOK`, `CreditedOnlyIfDebited`, `SuccessIsKept`, `RolledBackMovesNothing` | |
| `PaymentsBacked` | `Backed`, of the ledger as the payments use it | |
| `CreditedOnce`, `Refinement` | `CreditedAtMostOnce`, `MoneyPromise!Spec` | `LossOnly`: messages are lost, delayed and repeated, nothing else fails (`pay_crash_credit`) |
| `OtcTypes`, `SharesSafety`, `LifecycleSafety`, `OversoldSafety` | `TypeOK`, `SharesConserved`, `ContractLifecycle`, `NotOversold` | |
| `HoldsSafety`, `ExposureSafety` | `HoldsMatch`, `NotOverexposed` | `Orderly`: unless exercises may fail, saga calls are neither late nor inside a transaction (`otc_lost_update`) |
| `DeskTypes`, `ClosedSafety`, `SellSafety`, `SettlementSafety`, `AgentExposureSafety`, `LimitSafety` | `TypeOK`, `ClosedStaysClosed`, `SellsStayReserved`, `PortionsSettleOnce`, `ExposureAccounted`, `AutoApprovedWithinLimit` | |
| `SagaTypes` | `TypeOK` | |
| `ExerciseSafety` | `ExercisedIsSettled` | `Cautious`: no operator retries a running or completed saga (section 4) |
| `PaymentSafety`, `SettledSafety`, `GoodsSafety` | `PaidOnce`, `Settled`, `GoodsArePaid`, each stated for a saga that is `Undisturbed` (`saga_crash`, section 4) | |
| `MailTypesHold`, `DeliverySafety` | `NotifyTypeOK`, `DeliveredOnce` | |
| `BankTypesHold`, `MoneyVerified`, `MoneyKept` | `BankTypeOK`, `OnlyVerified`, `Books` | |
| `UsersInductive`, `UserTypesHold`, `AccountsSafety` | `UserInv`, `UserTypeOK`, `AccountsInOrder` | |

`ClientBanking` assumes of its constants what the code sets up before a request
comes in.  `AccountsAssumption`: the bank has an open account in each currency,
and only clients' dinar accounts carry a monthly fee (the seed and the account
types give it to no other).  `RequestsAssumption`: finitely many requests, which
name rows that exist; the sessions at the start are ones the service made, so
that a session still open has attempts left and only one is pending per
operation and entity.  `UsersAssumption` of `Users`: a scenario draws at most
`MaxTokens` tokens, its changes are fields of the update request, and it starts
from rows on which nobody has failed to log in and the stored permissions are
those of the role.

### The arguments

* **Ledger.**  `LedgerInv` is the type invariant and `Backed`.  A reservation
  joins or leaves the set of held ones, and the sum changes by its amount.
* **Payment.**  That a credit implies a debit is not inductive: it needs that a
  COMMIT_TX handler runs only when the message is in the outbox
  (`MessageBacked`), that the message is written after the debit
  (`CommitOrder`), that a commit follows a YES which a row at the partner backs
  (`YesBacked`, `VoteBacked`), and that a ROLLBACK_TX excludes success
  (`RollbackBacked`).  `IndInv` is their conjunction with `TypeOK`.  One lemma per
  action and conjunct; payments that do not step are covered by frame lemmas.
* **Refinement.**  `OnceInv` adds that only the last attempt at COMMIT_TX can be
  running, and that a credit is followed by its status before the next attempt
  looks at the row.  With the ledger's and the protocol's invariants every step
  moves each payment's money as `MoneyPromise` allows, or not at all.  The abstract
  specification's fairness is checked by `pay` (`KeepsPromise`).
* **OTC desk.**  Four layers.  `DeskInv`: a transaction holds its rows alone, and
  shares add up.  `CalmInv`: the sweep meets no running exercise, if none is
  late.  `CoverInv`: with one request at a time, what the seller owes and what a
  request is about to write stay within his shares, whatever saga call falls
  in between.  `ExactInv`: if none does, the copy a request read is the row it
  writes, and the reserved quantity is exact.
* **Order desk.**  `DeskInv`: without races the loaded copy of an order is its
  row, and each status fixes what the row may hold.  On it rest `SellInv` (the
  position covers the open quantity of confirmed sells), `SettleInv` (per order,
  the rows, legs, fees and shares agree with the portions filled), `ExposureInv` (an
  agent's reserved limit is the sum over the orders, each of which holds enough
  for what is left) and `LimitInv` (what is used is what was traded, so that
  approval without a supervisor keeps the sum below the limit).
* **Saga.**  `SagaInv`: where a runner stands fixes its step and its attempts.
  `ExercisedInv`: runs have distinct numbers and rows of their own
  (`Numbered`); a run that has not failed keeps its rows to itself (`OnItsWay`);
  a run that announced completion is out of everybody's reach (`Final`).  This
  holds under all faults, crashes and overlaps, because the optimistic version
  keeps a second runner from saving.  `AloneInv`, while calls are answered and runs
  do not overlap: the one run is alone, each step's row is known from where the runner stands
  (`Forward`, `Backward`, `AtRest`), and earlier runs left nothing.
* **Notifications.**  `MailInv`: the claim gives a row to one attempt, which has a
  try left (`Claimed`); what has left follows from the row's status and where
  its attempt stands (`Counted`); a failed row has its reason (`Explained`); and
  a message that is not redelivered has its row and its push behind it
  (`Single`).  A row that a crash or a failed statement leaves PROCESSING keeps
  all of this, since nobody can claim it again.
* **Client banking.**  `BankInv` ties the tables to the requests under way.
  `ControlOK`: where a request stands fixes what it carries.  `CountsOK`: how
  often its money has moved (`ghost.applied`) follows from where it stands.
  `PaidOK` and `TransfersOK`: each row belongs to one request and says what became
  of it, so that `COMPLETED` means moved.  `SessionsOK`: a request past its check
  has a session confirmed within its attempts, and no two pending sessions
  confirm the same.  `HoldsOK`, `RecipientsApart`: holds name accounts, and
  recipients are unique.  `MoneyOK`: the accounts of a currency, its holds and the
  legs still on their way in the transfer log add up to the opening balances and
  what came from outside.  Neither `Books` nor `OnlyVerified` is inductive alone: a
  balance changes in one step and the row that accounts for it in another, and
  the check of a session is past when the money moves.  One lemma per operation;
  the money of an operation is `Debited` and `Credited` rows, whose effect on the
  sum per currency is a lemma (`SumMovedTo`, `FeesMoved`).
* **Users.**  `UserInv`: what a request carries follows from where it stands
  (`CallsOK`), and where requests do not overlap what it read is still in the
  table when it writes (`OneCall`, `ReadOK`).  On this rest the parts of
  `AccountsInOrder`, each of which fails in the middle of a request: a failure is
  read before it is counted (`CountOK`); the session whose token was deleted has
  none until the new one is stored, so the others must not be of that session
  (`SessionsOK`); a password is set before its token is spent, so that the token
  counts as used while it still looks valid (`SpentOK`, which needs that a mailed
  token belongs to one person and that no later token has been used,
  `OwnersOK`); permissions follow the role one statement later (`StaffPerms`); and
  a removed supervisor keeps the fund until the last statement (`FundOK`).
  `OffOK` and `ClientPerms` add that accounts switched off or given a role
  exist.  Frame lemmas say which parts a step leaves alone; one lemma per
  action shows the others.
* **Sums.**  `SumFunctionOnSet` is a recursive function over finite sets.
  `SumTheorems` proves that it is well defined, and what adding, removing and
  changing one summand does, by induction stated with a set in place of a
  predicate.

The inductive invariants were checked by TLC on the runs' instances before they
were proved.

### What is only model-checked

* Liveness under fairness: `LossIsMadeGood`, `ExerciseAnswered`,
  `ApprovedIsWorkedOff`, `WorkGetsDone`, and the fairness of `KeepsPromise`.  The
  prover does not treat ENABLED.
* `CrossBooks`: `CrossBankOtc` declares a RECURSIVE sum, which the prover's SMT
  backend does not accept.
* `LoanBooks` says that a paid-off loan leaves nothing over.  Whole-number
  annuities do so for the amounts and rates of the instance and not for any, so
  this part is about the instance.
* `ListsComplete` counts pages of bounded lists, in every order that ties allow.
* The properties of products, market, funds, tax, positions and
  recurring orders, and the type invariants of the two composed instances.

## 6. Not modelled

Formatting and parsing, token signing, logging, metrics, tracing, deployment,
the analytics job, the alert bot, and the build artefacts of the former Java
services keep no state a property could be about.  The gRPC server of
interbank-service is a second entrance to the executor that its own client never
uses.  OTC history rows, reminders and the mails of the services are appended or
sent and never read back.  Companies and activity codes in banking-core, and
quotes, order types and stop activation in the order desk, are abstracted away.
Lock acquisition inside a transaction is modelled only where one transaction
waits for another of the same request (`Funds`).  `PROJECT.json` gives the reason
for each component.

## 7. What could come next

Proofs of components that are only model-checked: loans (`LoanBooks` without
the last installment's remainder), and, once its sum is not RECURSIVE any more,
the cross-bank OTC (`CrossBooks`).
