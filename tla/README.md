# Formal model of the payment gateway

TLA+ specifications, model-checking configurations and machine-checked proofs for the
payment gateway: Go services that talk over gRPC and Kafka, keep their state in PostgreSQL,
Redis and ClickHouse, and move money between cards.

The question behind all of it: the balance of a card and the row that says what was done
with it live in different databases behind different services. What holds of the two when
calls time out, answers are lost, processes stop and requests are retried?

## 1. The system

| component | state it keeps | operations | interacts with |
|---|---|---|---|
| transfer, transaction, withdraw, topup services (financial database) | one row per operation with a status, idempotency records, outbox rows | create, update, trash/restore/delete, recovery worker | saldo and card services by gRPC, AI scoring by gRPC, outbox by SQL |
| saldo service (payment database) | balance per card, append-only balance ledger, reconciliation queue | create, debit, credit, adjust, update, trash/restore/delete, reconcile | called by all of the above; consumes card-created events; query cache in Redis |
| shared/state | - | the status machine the rows of transfers and transactions follow | used by the command services |
| shared/idempotency | one record per client key (24 hours) | claim, get, complete, release | same database as the command row |
| shared/outbox | `outbox_events` rows | insert, claim, complete, fail; publisher loop | Kafka |
| pkg/resilience, pkg/adapter | breaker state, bulkhead slots | guarded call with a timeout | wraps every gRPC call between services |
| stats-writer | ClickHouse batches, consumer offsets | consume, append, flush, close | Kafka to ClickHouse |
| email service | offsets, in-memory dedup | consume, send mail | Kafka, SMTP |
| api gateway | pending role and merchant requests, caches, rate limits | validate by request/reply over Kafka, forward | role and merchant services by Kafka, all services by gRPC |
| auth service | refresh tokens, reset tokens | register, login, refresh, reset | user, role, user-role services |
| card service | cards, billing cycles | CRUD, billing cycle | publishes card-created and stats events |
| user, role, merchant services | their rows | CRUD with soft deletion; answer validation requests | gateway by Kafka, merchant events |
| stats-reader, ai-security | read models, feature store | queries, scoring | ClickHouse, Redis |

What is hard in it:

* **Two databases, no transaction.** A handler inserts a row here and debits and credits
  there. Every gRPC call may time out *after* it was executed, or be executed *after* its
  caller gave up; every SQL statement may commit and lose its answer.
* **Two writers of one row.** The recovery worker moves rows that look stuck while their
  handler may only be slow; operators trash rows in flight; detached goroutines mark rows
  failed after the handler has returned; amendments do not lock what they read.
* **Retries.** Clients retry under an idempotency key; the saldo service recognises retries
  by operation id; publishers retry rows; the producer retries sends; Kafka redelivers.
* **Several actors on one table.** Four services share `outbox_events`, each with a publisher.
* **State read and used later.** Balance checks before the debit, the delta of an update, the
  daily limit of withdrawals, the merchant's card, the channel of a waiting request.
* **Unlocked counters.** The circuit breaker is several atomics that no lock joins.
* **Buffers in front of commits.** The stats writer acknowledges messages when they are
  buffered, not when they are stored.

What makes each component correct:

* *command services*: a status that outsiders read (success, compensated) agrees with the ledger
  for good; a pending row has moved nothing; one key never pays twice successfully in its 24
  hours; money is moved once or not at all; a row in flight is resolved or quarantined; what an
  update wrote is not taken back by those who were at work on the row.
* *saldo*: an operation is booked once; an answer agrees with the ledger; a request moves balance and
  ledger together; every difference is noticed; no balance is negative; the command services'
  view of it is what it does.
* *outbox*: published means sent; duplicates are bounded; no event is stranded.
* *stats writer*: no message is passed over in silence (it is, section 6).
* *gateway*: a waiting request does not miss its reply; nobody is admitted whom the services
  do not know; a consumer does not hang or die.
* *dependency guard*: no more calls are under way than there are permits, and the breaker closes
  again when the dependency is back.

## 2. Modules

| module | models | theorems |
|---|---|---|
| `CommandState` | `shared/state/state.go`: statuses, allowed transitions, terminal and recoverable ones | |
| `Transfer` | `service/transfer` CreateTransaction, compensateTransfer, idempotency SQL, recovery worker, trash operations, the statuses updates write | `TransferProofs` |
| `TransferPromise` | abstract: what a reader of a transfer row may rely on | `TransferProofs` |
| `SaldoLedger` | `service/saldo`: creation, ledger mutations, update, trash operations, reconciliation | `SaldoLedgerProofs` |
| `SaldoClient` | the saldo service as a command service sees it through `pkg/adapter` | `SaldoLedgerProofs` |
| `IdempotencyStore` | the four idempotency statements, with expiry | |
| `CommandHandler` | what the create handlers share: guard, outbox inserts, soft deletion, expiry of keys, crash, late saldo calls | |
| `Transaction` | `service/transaction` Create, compensateTransaction, recovery worker, the statuses updates write | `TransactionProofs` |
| `PaymentPromise` | abstract: what a reader of a payment row may rely on | `TransactionProofs` |
| `Withdraw`, `Topup` | `service/withdraw` Create, `service/topup` CreateTopup | `CashOperationsProofs` |
| `CashOperations` | withdrawals and top-ups composed over one saldo service | `CashOperationsProofs` |
| `Amendments` | the update handlers of all four services | `AmendmentsProofs` |
| `Validation` | role and API-key validation over Kafka: gateway middlewares and consumers, role and merchant services | `ValidationProofs` |
| `DependencyGuard` | `pkg/resilience`: circuit breaker and bulkhead | `InfrastructureProofs` |
| `EventLog` | the Kafka topic, one partition | |
| `Outbox` | `shared/outbox`: table and publishers | `InfrastructureProofs` |
| `StatsWriter` | `service/stats-writer` with `pkg/kafka` StartConsumers | `InfrastructureProofs` |
| `EventPipeline` | outbox, topic and stats writer composed | `InfrastructureProofs` |
| `SumTheorems` | lemmas about sums over finite sets, for the proofs about money | itself |
| `MC...` | small instances for TLC | |

`PROJECT.json` maps every definition to the lines it stands for. Definitions whose comment
starts with "Mutant" are not part of any specification: each is a plausible slip in the
definition after it, kept to show that a property would notice.

### Calls, places, legs

In all command services a *call* is one invocation of a create handler. It inserts at most
one row, so the row and the saldo operation ids built from the row's id
(`transfer:<id>:sender-debit`, ...) are named by the call and a *leg*. `pc[c]` is the place
of the handler and each place is one remote call or SQL statement. For a transfer:

    idle -> claim -> check -> create -> begin -> debit -> credit -> settle -> enqueue -> complete -> ok
              |                                    |        |         |
            lookup                                fail  quarantine  compensate -> compDebit -> compCredit -> compDone
              |                                                                        \-> compUnknown <-/
       replayed / conflict / inprogress / error        every error path ends in release -> error

* A saldo call (`Rpc`) is booked and answered; refused; or timed out, and then it stays in
  `inflight` until it is executed late, or for ever.
* A guarded status write (`GuardStatus`) may match and answer, match and lose its answer, or
  not happen. It also refuses soft-deleted rows.
* `Claim` may commit and lose its answer: the handler then sees its own record as somebody
  else's. `Release` runs on every error path, as the deferred function does.
* `Crash` stops a handler anywhere without its deferred calls.
* The recovery worker lists recoverable rows and moves each to `unknown` if it still has the status
  read. A row may look stuck while its handler is only slow, so age is not modelled as a guard.
* Events are separate inserts that may fail one by one (`Enqueue`).

The AI score, the card and saldo lookups and the payload checks are one step `Check`, which
may refuse anything and passes only what the code's conditions allow. Logging, tracing,
caching of responses and mapping to protobuf are left out.

`Transfer` is self-contained, with the order of rows in the worker's scan (oldest first, up to
`MaxRows`); its `Expire` takes an expired record away. The other services are built from `CommandHandler`,
`IdempotencyStore` and `SaldoClient`. There an expired record stays: `lapsed` holds the calls whose claim is
more than 24 hours old, and a key whose record belongs to one of them is `Free`, which is what the
`DO UPDATE ... WHERE expires_at <= current_timestamp` of the claim asks. In both a record expires only when the
handler that claimed it is over, because none runs for 24 hours.

UpdateTransaction of the transfer service and Update of the transaction service write success or failed on a
row of Create, with a statement that asks for no status (`Amend`, `UpdateSucceeds`, `MarkTransferAsFailed`,
`MarkTransactionAsFailed`): on any row at any time, as long as it is not in the trash. `Transfer` and
`Transaction` hold these writes, since they race with the handler and the worker; the money that updates
move is in `Amendments`. `amended` remembers the rows that have a status of an update, whose status says nothing of Create any more.

`TransferPromise` keeps only the booked legs and a verdict: open, settled, refused, reversed
or doubt. Its actions say when a verdict may be given and what may still be booked after it.
The refinement maps `status` to the verdict (`VerdictOf`).

### Transaction

The debit of the user comes before the merchant's card is looked up (`ResolveMerchantCard`). A failed
lookup enters the compensation with one leg to reverse, a failed success write with two
(`MerchantCredited`); in the second case the card is looked up again (`DebitMerchant`), and may be
another one by then. `Exit` is the one error path on which the code does not set the status that
releases the key. `ListStuck` picks any set of recoverable rows, which covers any order, age
and limit.

`PaymentPromise` keeps the booked legs and a verdict, as `TransferPromise` does. The bookings go one of
two ways, there and back or only as far as the user's debit and back; the merchant is not credited
after the refund; on the way back the money may leave another card of the merchant than it came to.

### Withdraw, Topup, CashOperations

A withdrawal is debited *before* its row exists, under an operation id made of card, time and
amount (`WithdrawOp`), so two requests with the same body share their operation ids. `CheckLimit`
remembers which rows its sum counted (`counted`, a history variable). A failed insert and a failed
status write refund the debit under different ids. A top-up inserts the row, credits, updates
the card and writes success; a failure after the credit debits it back, and only an answered
debit launches the detached goroutine (`LaunchMarker`, `RunMarker`) that marks the row failed. All calls are on
one day, so the limit is never reset.

### Amendments

The update handlers of the four services differ in their legs (`Legs`), their operation ids
(`Name`: row and new amount, of a top-up the row alone), in whether the row or the money comes first
(`RowFirst`), and in what they undo when a step fails (`UndoLegs`, `Unwind`, `AfterUndo`). No handler asks for
the status the row has or locks it between `Read` and `WriteRow`. The request's card is taken to be the
row's; a request that names another card is left out.

### Validation

One module for two validators with the differences that matter: the role validator registers
its channel before it sends (`RegistersFirst`), drops a reply its channel cannot take, and closes channels;
the merchant validator registers afterwards, waits until its channel can take a reply, and never
closes one. A consumer finds the channel (`Take`) and delivers in another step (`Deliver`, `Panic`), since the
lock is released in between. All instances share one consumer group, so a reply may be taken by
an instance that does not wait for it. `Serve` is the role or merchant service; requests and replies
are redelivered until their offset is committed.

### DependencyGuard

One action per atomic operation of the breaker, because nothing locks them together. Counters
are kept up to the value they are compared with. `aged` is "the timeout has passed since
lastFailureTime". A caller holds a permit of the bulkhead at every place but `idle`. Only four
codes count as failures, so a call of a dependency that is down may still count as a
success (`CallReturns`).

### SaldoLedger, SaldoClient

One call is one request to DebitSaldo, CreditSaldo, ApplySaldoAdjustment or UpdateSaldo; a
retry is another call with the same request. `Mutate` is the data-modifying CTE that locks
the saldo, inserts the ledger entry unless the operation is booked, and updates the balance;
`Lookup` is the second statement that tells a replay from a conflict and from a refusal.
`ReadForUpdate` is UpdateSaldo's read, separate from the statement that uses its delta. A
mutation's `delta` stands for every detail compared on a replay. The insert trigger that
writes the opening entry is part of `Insert`. The reconciler lists the largest differences
and enqueues them one at a time; an operator resolves an item only when the difference is 0.

`SaldoClient` is the abstract saldo service of the command models: a debit or credit is booked at most
once per operation, card and direction, and only if funded. That `SaldoLedger` does what `SaldoClient` says is
a theorem (section 5).

### Outbox, StatsWriter, EventPipeline

`ripe` stands for `available_at`: a failed row ripens after 30 seconds, a row in processing
after 15 minutes, although its publisher may still be alive (`Elapse`). `Publish` is one
SendMessage: it may append several copies (the producer retries inside the call), and may
answer an error after appending. `WriteStatus` is CompleteOutbox or FailOutbox, which write by
event id whatever the row says by then; its error is only logged.

In the stats writer a position of the log stands for the message and the row it becomes.
`ConsumeClaim` hands one message to the batch under the mutex, marks it if dispatch succeeded
and goes on if not; `AutoCommit` is the client's commit of the marked offset; `Rebalance` ends
the session, where Cleanup closes the repository (and with it the flush loop of the process)
and flushes; `Restart` is the end of the process, with the last flush of main or without.
The deduplication branch needs an event envelope, which no producer in the repository writes, so it is never taken.

`EventPipeline` joins the two over the shared log; its theorems lift those of the parts.

## 3. Runs

| run | instance | shows |
|---|---|---|
| `transfer` | 2 calls, 2 cards, 1 key or none, payloads in both directions, expiry | all safety of Create: success and compensation agree with the ledger, a pending row moved nothing, one owner per key, no overdraft, conservation of money, and Transfer implements TransferPromise |
| `transfer_live` | 2 calls, worker scan of 2 rows, trash operations and updates of one row | StuckRowsAreRecovered under fairness; what Create and its compensation said stays true while updates write over the row, and what an update wrote stands |
| `transaction` | 2 calls under 1 key that may expire, a user and two cards the merchant may have, trash and updates of one row | success is settled, compensation reverses what was booked, what an update wrote stands, one key pays once in 24 hours |
| `cash` | 2 calls from 4 bodies on one card, daily limit 4, balance 5 | money moves once or not at all, success is told of money that stays moved, a failed top-up has no late debit, the limit is exceeded only by overlapping checks |
| `amendments` | 2 amendments of one row, 3 amounts, each of the 4 services | only what is booked is undone; amendments that do not overlap add up |
| `validation` | 2 requests on one of 2 instances, 2 subjects, 2 replies looked at per request, both validators | no waiting role request is missed, one late reply does not hang the merchant consumer, only what was granted is admitted or cached |
| `dependency_guard` | 3 callers, threshold 2, 2 probes, 2 permits | never more callers inside than permits, and the circuit closes after recovery |
| `saldo_ledger` | 2 calls from 4 requests, 1 card, 2 saldo rows | ledger uniqueness, answers, that no request moves a balance apart from its ledger, and that gaps are queued |
| `outbox` | 2 publishers, a routed and an unrouted event, 3 attempts, 2 copies a send | published means sent, duplicates bounded, nothing stranded |
| `stats_writer` | 4 messages, batch of 2, 2 retries | **violated**: the last flush of a session fails, its batch is thrown away, and the offsets marked for it are committed |
| `transfer_retry` | 2 calls, 1 key | **violated**: an error after the debit releases the key, and the retry debits again |
| `gateway_panic` | as `validation` | **violated**: a reply is sent on a channel that was closed after it was found, and the instance dies |

The violated properties state what a comment of the repository says; `PROJECT.json` has the quotations.
The longest run (`transfer_live`) takes two to three minutes with two workers, the others up to one and a half.

**Why the bounds are enough.** Two calls cover the relations between calls that the code can
express: same key and same body (retry), same key and other body (conflict), other keys
racing for one balance in the same or opposite direction, two withdrawals that share their
operation ids, a withdrawal beside a top-up. A handler has one row, at most four legs and a fixed sequence of steps, so
a third call adds no new relation between two actors; the theorems of section 5 hold for any
number. In `cash` the limit is smaller than the sum of two permitted withdrawals, and the balance smaller
than the sum of others, so both refusals occur. Three amounts let two amendments differ from each other
and from the original. In `validation` a second reply is the first one that can find a full channel, and the second
instance is the one that takes replies it cannot deliver. In `dependency_guard` three callers are one that opens, one
that closes and one caught in between, and two permits make the bulkhead refuse. For the ledger, two calls are an
operation and its retry or its conflict, and two saldo rows are a card trashed and created again. For the
outbox two publishers give every overlap of claim, send and late write, three attempts give
a stale claim after a failed one. In the stats writer one message in an open batch is enough to be lost.
In `transaction` every call has a key (`MCSpec`): payments without one never meet.

Bounds in guards: `MaxSaldos` rows of saldos, `MaxLog` messages in the stats writer's run, `MaxTakes` replies to one
request. `MaxRows`, `Batch`, `BatchSize`, `MaxAttempts`, `MaxCopies`, `BatchRows`, `MaxRetries`, `Threshold`, `HalfOpenMax`,
`MaxConcurrent`, `DailyLimit` are limits of the code set small so that they are reached. `Trashable` names the rows that operators touch, `Amendable` those that
clients update, `Expiring` the keys (in `Transfer`) or calls whose claims may grow old.
Symmetry (permutations of calls, amendments, requests, subjects, the merchant's cards) is used in safety runs only.
Deadlock is allowed where every call can have ended and nothing else is left to happen.

## 4. Fairness

* *Recovery worker* (`transfer_live`): weak fairness of the scan, which a ticker starts every 30
  seconds as long as the process lives; strong fairness of the update of one row, because a
  database that answers infinitely often lets it through; weak fairness of dropping a row
  from the list, which is the loop going on. Nothing is assumed of handlers: they may stop anywhere.
* *Callers of a dependency* (`dependency_guard`): weak fairness of every caller, since every call ends with an answer or
  its timeout and callers keep calling, and of time. The dependency may go up and down; the
  property speaks of behaviours in which it is up for good from some time on.
* *Reconciler* (`saldo_ledger`): weak fairness of the listing (every five minutes), strong fairness
  of the upsert of one item.
* *Publishers* (`outbox`): time passes (weak fairness of `Elapse`); a claimable row is claimed in the
  end, because publishers poll every 5 seconds in the order of `available_at` (strong fairness,
  since another publisher's claims come between); a publisher that holds a batch goes on or stops.

## 5. Proofs

All theorems hold for every value of the constants that satisfies the named assumptions,
which TLC evaluates in the runs.

* **`TransferProofs`.** SuccessIsSettled and its companions are not inductive: they say nothing of a
  handler between two steps. `Inv` adds, for every place of a handler, which legs are booked or
  in flight there (`Progress`), that a leg is only asked for when those before it are booked (`Chain`), and
  that a row with a final status, also one the worker or an update has moved meanwhile, has
  no handler that could still book for it (`Final`). A status of an update says nothing of the legs, but matches
  no guarded write any more.
  From it follow TypeCorrect, SuccessSettled, CompensatedReversed, PendingMovedNothing and AmendmentsStand. KeyExclusive needs its own
  invariant on keys (`KeyInv`: a handler past its claim owns the record until it releases or
  completes it, expiry included), NeverOverdrawn the one that funds are checked by the
  statement that books (`FundsInv`).
  The refinement is in the same module (PromiseKept): every step of Transfer maps to a step of
  TransferPromise or stutters, from the same invariant. **MoneyIsConserved** comes out of the refinement: only the
  promise's `Move` changes a balance, by the leg it books, and `Progress` says on which side of
  "in transit" the leg puts its call, so each of the four legs moves one balance and one term of the
  sum by opposite amounts. The sums need finitely many cards and calls in transit (`BalanceAssumption`,
  and that every step starts at most one call).
* **`TransactionProofs`.** The same shape for payments to a merchant: `Progress` also says whether the merchant's
  card is known, which decides how many legs a compensation has to reverse, and `Final` is where a
  success write that lost its answer leaves the handler: in a compensation it cannot start and
  whose exit keeps the key. `Owned` says that whoever is past the claim of a key, or whose row
  Create made successful, holds the record of that key, unless its 24 hours are over; and that nobody whose claim
  is that old is still at work. TypeCorrect, SuccessSettled, CompensatedReversed,
  AmendmentsStand, and OnePaymentPerKey from `Owned`: of two successful calls one has lapsed. TypeCorrect is not inductive by itself: a credit is typed
  because the card was found (`Resolved`, a part of `Progress`).
  **PromiseKept** is the refinement of PaymentPromise. `Inv` says which legs a handler has booked at each place;
  the promise also needs that a saldo call that comes late still comes in order: `Trail` says that at most
  one request of a payment is under way, that the bookings it must come after are done, and that
  a leg which is booked is not asked for again.
  KeepsPromise is in no run, because TLC needs much longer to compare each step with the promise than for the
  invariants of `transaction`. With `Keys = {}`, `Spec` and no symmetry, the instance of that run passes it with 2051740
  distinct states.
* **`SaldoLedgerProofs`.** `LedgerInv` adds to the type that opening entries belong to used saldo ids
  and that a call that is about to book has a mutation that is no opening: TypeCorrect,
  OperationUnique, AnswersAgree. **ClientIsServed** is the composition with the command services: under the
  mapping of `Client` (a card's balance is that of its active row, the bookings are the debits and
  credits of the ledger), a debit or credit is answered ok exactly in a step that is
  `SaldoClient`'s `Executes`, and every other step of its handler leaves the client's view alone. It rests on one active
  saldo per card, on the signs of ledger entries and on a call booking what it was asked (`ClientInv`).
  Creation, UpdateSaldo and trash operations also change that view; the command models leave them out.
  **BooksKept**: `GapInv` adds that the ledger is finite. A new entry moves the total of its card and no
  other (`BookedTotal`), and the statement that books it moves the one active saldo of that card by the same
  delta, whatever balance the request had read before; every other step of a request leaves both alone.
* **`CashOperationsProofs`.** For withdrawals and top-ups together, any number of each. `Routed` keeps every handler in
  the code of its own service; `Placed` says for each place of a handler what is booked and what is under
  way, for calls whose operation ids are their own (`Alone`): from it MovesAllOrNothing. The expiry of keys changes
  only who may claim, so `Owned` keeps to records that are not expired. `Announced` makes what a
  call tells its client final: ToldBooked. `Marked` says that a top-up whose row is or will be marked
  failed has no refund under way: FailedNoLateDebit. `Limited` says that a withdrawal past its check counted only
  rows that were there before, within the limit. For OnlyRacesExceedLimit a set of withdrawals that every two
  counted one the other is a tournament; `NoCycles` (nobody counts itself, no cycles of two or three) makes
  it transitive, so one of them counted all the others, and the check of that one bounds the sum of all.
  The theorem needs `DailyLimit \in Nat`, and that call ids differ from bodies, which name operation ids.
* **`AmendmentsProofs`.** `UndoInv`: what a handler counts as booked is in the ledger, it starts to undo with
  something to undo, and what it has asked to be taken back was booked. OnlyBookedUndone follows, for any
  number of overlapping amendments. **AmendmentsSumUp** needs `CleanInv`: as long as no
  amendment has failed, operation ids are not shared and no two started from the same amount, at most one
  amendment is still open, because a second one would have read the same amount; the ledger
  holds exactly the legs that have been passed, and the money is ahead of the row by the legs of the open one
  (`OpenRow`). It assumes that payer and receiver differ (ValidateTransferParties refuses a transfer to the same card).
* **`InfrastructureProofs`.** Outbox, stats writer and circuit breaker. For the outbox: a status that is still to be
  written is already true (`WritesAreTrue`), and an event in a publisher's batch is a claim not yet used, so copies
  plus holders stay within the attempts (`Budget`, by the cardinality theorems of the library; it
  assumes finitely many publishers). For the writer: the committed offset is not ahead of the marked one, nor the
  marked one of what the session was handed. The composition shows that appends do not disturb the
  writer: OutboxTypeCorrect, WriterTypeCorrect, PublishedLogged, CopiesBounded, OffsetsOrdered. GuardTypeCorrect is
  inductive as it stands: a caller acquires only with a permit free, and every other step of a caller keeps
  its permit or gives it back, refusals by the breaker included; it counts the callers with the cardinality theorems
  of the library and assumes that they are finitely many.
* **`ValidationProofs`.** `RoleInv`: between registration and decision the channel is in the map, so a reply taken
  without a channel comes too late for anybody (NoRoleReplyIsMissed). `GrantInv`: every reply in a topic, a consumer or a
  buffer says yes only of a subject the service knew (OnlyGrantedAreAdmitted). `CountInv`: a full
  channel and a reply in hand are two takes (OneLateReplyIsHarmless).
* **`SumTheorems`.** Money is summed with SumFunctionOnSet of the community modules, whose definition is a CHOOSE over
  recursive functions. That such a function exists and is unique on the subsets of a finite set is proved by a
  least counterexample, a smallest number or a minimal subset, because the induction
  theorems of the library take an operator that the provers cannot instantiate. From the equation follow
  adding, removing and changing one term, congruence and monotonicity, which are all that the other proofs cite.

Every invariant and action property that a passing run checks is proved. **Only model-checked**: liveness
(StuckRowsAreRecovered, MismatchIsQueued, EventIsDelivered, RecoveredIsClosed), because the prover has
no support for fairness, and the properties of the three runs that end in a violation.

## 6. What the models show beyond the runs

Behaviour of the code that the models contain, that no run asserts away, and that a reader of the
properties should know:

* *Failed does not mean that no money moved.* state.go:24-25 says so of the status, and
  transactionCommandService.go:211-212 of the error path after the first debit. But a debit that timed out is
  marked failed and may be executed afterwards; nothing records that, and the row is final. No property that passes claims the contrary:
  the two promises let a refused row be debited late, and only that (never credited, because nothing but the debit was asked for).
* *Updates leave the status machine.* state.go:9-11 says that transitions are guarded by the status in the
  database. The update handlers write success (transferCommandService.go:363, transactionCommandService.go:364) and, on any
  error of theirs, failed (transferCommandService.go:591-603, transactionCommandService.go:629-641) on a row in
  whatever status it is: a settled or compensated row becomes failed although its money has moved. The guarded
  writes of others then find no row to match (AmendmentStands). The properties about success therefore speak of rows no update has
  written on. The updates of withdrawals and top-ups do the same; FailedHasNoLateDebit speaks of the markers of CreateTopup.
* *A key pays again after 24 hours.* idempotency.go:50-52 says that a client retry after the 24 hours "never
  double-executes against a stale claim". It does reclaim the key; but then it runs the whole command, also if the first call had
  succeeded. OneSuccessPerKey has exactly this exception.
* *Unknown rows fill the recovery scan.* The worker skips them, but they count against its limit of 100
  rows and are the oldest; StuckRowsAreRecovered is checked with a scan that holds every row.
* *CreateSaldo over a zero balance* replaces it without a ledger entry (saldo.sql:435), where the migration
  20260804000005_add_balance_ledger.sql:28-29 wants to "Keep every newly-created saldo reconcilable from the first
  write". RequestsKeepTheBooks speaks of the requests that move money, not of creation; MismatchIsQueued says that the difference is noticed.
* *A refusal is about its moment.* AnswersMatchLedger says what ok and conflict mean. A refusal says only that nothing was
  booked at that moment: the retry of a refused call may be booked.
* *UpdateSaldo back to an earlier target* is answered as a replay and changes nothing, because its operation id is
  the target. AnswersMatchLedger allows it: the mutation is in the ledger, booked by the earlier call.
* *A withdrawal repeated with the same body* shares its operation ids: its debit is a replay, its refund may be too.
  AllOrNothing and ToldIsBooked are about withdrawals whose ids are their own (`Alone`).
* *Overlapping amendments*, and amendments that ask for an amount asked for before, leave row and money
  apart; a top-up has one operation id for all its amendments. AmendmentsAddUp excludes exactly these.
* *The daily limit* is exceeded by withdrawals whose checks overlap.
* *A half-open breaker* counts successes only: neither a failed probe nor time takes it back to open, so once
  the timeout has passed a dependency that is still down is called by everybody. It closes on any five
  successes since the opening, with failures in between and of calls admitted before it opened, where
  dependency_guard_test.go:138-139 speaks of consecutive ones; a caller between its look at the count and its store may close
  a circuit that opened meanwhile.
* *The merchant consumer* waits for ever behind a channel whose request gave up, once a second reply found it.
* *Stats messages get lost.* A rejected message is passed over when a later one is marked, and a batch that could not be
  sent is deleted although its messages are marked (the run `stats_writer` shows the second way). After the first
  rebalance the flush loop of the process is dead (clickhouse.go:160), so rows wait for a full batch or the next end of a session.
* *An event that is sent again* becomes two rows: no payload carries an event id, and no producer wraps its events in
  the envelope that the consumers would deduplicate by.

## 7. Not modelled, and why

* *Saldo query cache.* The saldo service deletes keys that nothing fills, and the gateway's own keys are never
  deleted before their five minutes: there is no invalidation protocol to check.
* *Auth*: validation, hashing and single statements; what is hard about tokens are questions of security.
* *User, role, merchant, card services* beyond what `Validation` and `SaldoLedger` take from them: one statement per request, no
  protocol. `Billing`, the period arithmetic of TriggerBillingCycle, with its clamping at the end of a month and its
  INSERT ... ON CONFLICT, is a candidate; `outstanding_balance`, which it bills, is written by nothing.
* *Stats reader*: queries. *Email*: consumes like the stats writer; SMTP is outside the system.
  *AI scoring* is a choice of the checks. Generated code, which is most of the repository's lines, deployments and
  dashboards have no logic of their own.
* UpdateSaldoBalance and UpdateSaldoWithdraw of the saldo repository: no service calls them.
* The reset of the daily limit at midnight, and more than 100 differences in one reconciliation pass.
* The gateway's rate limiting is a token bucket of a library.

## 8. Plan

1. `CommandState`, `Transfer`, `TransferPromise`, `SaldoLedger`, `EventLog`, `Outbox`, `StatsWriter`, `EventPipeline` and their proofs - done.
2. `Transaction`, `Withdraw`, `Topup`, `CashOperations`, `Amendments`, `Validation`, `DependencyGuard` and their proofs, and the composition of
   saldo service and clients - done.
3. The safety properties that were only model-checked: conservation of money, cash operations, amendments, books,
   the types of the event pipeline, and the theory of sums they need - done.
4. `PaymentPromise`, the abstract promise for payments to merchants, with the refinement - done.
5. `Billing` over bounded dates; the reconciliation limit with more differences than one pass holds.
6. Expiry of idempotency keys in `CommandHandler`, and the status writes of updates on the rows of `Transfer` and
   `Transaction` - done.
