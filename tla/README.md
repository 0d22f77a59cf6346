# Formal models of AgentOS / OneShots

TLA+ models of the parts of this repository where money and durable agent runs
meet concurrency and failure, the TLC runs that check them on small instances,
and TLAPS proofs, for every value of the constants, of all the safety properties
that those runs check.

The deployed system is two Cloudflare Workers over one Postgres database: the
**control plane** (`control-plane/src`: HTTP API, job queue consumer, cron) and
the **runtime** (`deploy/src`: a Durable Object per agent, a Workflow per agent
run, a telemetry queue consumer). The rest are clients (`cli/`, `portal/`,
`mvp/`, `widget/`, `sdk/`, `voice-agent/`) and an older Python implementation
(`agentos/`).

## 1. Inventory

| Component | State | Operations | What is hard | What makes it correct |
|---|---|---|---|---|
| Credit ledger, `logic/credits.ts` | `org_credit_balance`, `credit_transactions` | `addCredits`, `deductCredits`, `refundCredits`, each several autocommitted statements | concurrent callers (runtime proxy, public API, batch consumer, voice, Stripe), death between statements, reads whose failure is ignored | no overdraft; the log explains the balance; a session is charged once; the daily cap |
| Agent payments, `logic/agent-payments.ts` | the same tables | `transferCredits` (one transaction, then payouts and a platform row), `verifyPaymentReceipt`, `refundTransfer` (a check, then a transaction) | READ COMMITTED; a check outside its transaction; a balance overwritten; a distribution that fails half way | credit neither made nor lost; a transfer refunded once; payouts within the fee |
| Referrals, `logic/referrals.ts` | `referrals`, `referral_earnings` | codes, `distributeReferralEarnings` | called without a transaction and best effort; rounding | payouts within the fee |
| A2A tasks, `routes/a2a.ts` | `a2a_tasks`, an in-memory task store | `SendMessage`, `SendStreamingMessage`, `CancelTask`, REST variants | receipts used again, settlement and refund at once, failures on different paths | served tasks keep their price, failed tasks are refunded, and never both |
| Agent run, `workflow.ts`, `runtime/idempotency.ts`, `runtime/do-lifecycle.ts` | recorded workflow steps, KV cache, KV snapshot, local variables of `run()` | the turn loop, LLM and tool steps, recovery, finalize, cleanup | eviction and replay, retries, parallel tool steps, best-effort KV | the budget; a call executed once; a replay that agrees with what was announced; it ends |
| Session counter, `runtime/session-counter.ts` | KV counter and heartbeats | register, unregister, reconcile | read-modify-write in KV, replays register again | the counter follows the sessions |
| Run delivery, `deploy/src/index.ts` | the Durable Object's guard, its poller, SQLite `active_workflows`, KV progress | run, poll, close, restart, recover | handlers that interleave at every await, a client that leaves, DO restarts, a buffer that is trimmed | one run at a time; each answer recorded, once; no session locked for good |
| Billing records, `runtime/db.ts` | `billing_records`, the KV dead-letter queue | `writeBillingRecord`, `replayBillingDLQ` | a check before a plain INSERT, errors after a commit, overlapping sweeps | a session billed once; no record lost; the queue drains |
| Telemetry, queue consumer of `deploy/src/index.ts` | `sessions`, `turns` | batch insert | at-least-once delivery | no row lost or doubled |
| Batches, `routes/batch-api.ts` and the job queue of `control-plane/src/index.ts` | `batch_jobs`, `batch_tasks`, the message | create, cancel, consume | redelivery after a death, tasks held in memory, cancellation meanwhile | each task run once, cancelled ones never; honest counts |
| Training, `routes/training.ts` and the queue | `training_jobs`, `training_iterations`, `training_resources`, the agent's prompt, messages | create, step, auto-step, cancel | long sequences of single statements, steps that overlap, redelivery, a chain of messages | the best prompt is the best; one active version; the chain ends |
| Stripe and voice webhooks, `routes/stripe.ts`, `logic/voice-webhook.ts` | `stripe_events_processed`, `billing_records`, the ledger | check, credit or debit, mark | redeliveries that overlap, a failure between two steps | each event applied, and not without bound |
| Middleware, CRUD routes, scanners, tools, LLM and context code, Python library, clients | | | | not modelled, see section 8 |

How they interact: a route, the batch consumer or a webhook calls the ledger
directly. A buyer's agent pays a seller's agent with `transferCredits` (through
`POST /credits/transfer`) or with the copy of it in the tool `a2a-send`; the
seller's `SendMessage` handler checks the receipt row, forwards the task to the
runtime, which starts a workflow, and afterwards settles or refunds. All of
them share the two tables of credit. A client's message makes the Durable Object of its
session start a workflow (`AgentRun`) and poll for its end (`RunDelivery`); the poller, or the
recovery after a restart, bills the run (`BillingRecords`). The queue consumer runs batches
and chains training steps by calling the step route and sending itself the next message.

`PROJECT.json` lists every component with its sources, and under `hazards` each
place where this code is hard to test, with the properties that watch it.

## 2. Modules

| Module | Models | State and actions |
|---|---|---|
| `CreditLedger` | `logic/credits.ts` | The balance table is `balance`, `purchased`, `consumed`; the log is what the code asks of it (`audit` sums by type, `daySpend`, `burnRows`). One action per SQL statement: `AddUpsert`, `RefundUpsert`, `DailyCap`, `Dedup`, `DeductUpdate`, `AuditInsert`; `Die` ends a request between any two of them; `WindowSlides` ages rows. A read whose error the code swallows may yield the default. |
| `Account` | what the ledger promises | `Purchase`, `Refund`, `Burn` as single steps with a book that records each by kind. `CreditLedger` implements it (section 5). |
| `FeeSplit` | fee and payout arithmetic | Micro-dollars, half-up rounding, the two referral rates. Exact where the code uses doubles. |
| `AgentPayments` | `agent-payments.ts`, `referrals.ts` | A transfer is a record that walks through the statements after its transaction (`PayL1`, `EarningRow`, `PayL2`, `ReferralThrows`, `PlatformRow`, `TransferDies`). A refund is `RefundCheck`, then `RefundFull`, or `RefundMiss`, `RefundPeek`, `RefundDrain`. `Purchase` and `Spend` stand for the ledger. |
| `A2ATask` | `SendMessage` of `routes/a2a.ts`, the payment of `a2a-send` | EXTENDS `AgentPayments`; a handler is a caller of `refundTransfer`. `Pay` is the transactional transfer, `AutoDebit` to `AutoInRow` the one that commits statement by statement. `Send` goes to the `Gate`, or past it when the read of the agent's row failed and the handler takes the caller's org for the seller's. `Complete`, `RuntimeError`, `Throw`, `AskRefund`, `NoRefund`, `Lapse`, `Finish`, `HandlerDies` are the ways through the handler. |
| `AgentRun` | `AgentRunWorkflow.run` | Recorded steps (`llmStep`, `toolStep`, `recovery`, `finalize`, `cleaned`), KV (`cache`, `snapshot`) and the local variables `run` and `tool`. `Crash` forgets the local variables; the replay runs through the same actions, which find their step recorded. |
| `Webhooks` | the paid events of `routes/stripe.ts`, `recordTelephonyBilling` | EXTENDS `CreditLedger`: a request is a handler of one delivery, and `Credit`, `Added` and `Deduct` are the ledger's own actions. `Check`, `Record`, `Mark`, their failures, `Throws` and `Evicted`; `Unmatched` is the event that finds no package or customer and goes on to the mark; `Deliver` is the provider. |
| `RunDelivery` | the WebSocket handlers of `deploy/src/index.ts` | The object's memory (`activeRun`, `activeWf`, `aborted`, the `onClose` handlers that wait), its table (`tracked`, whose writes may fail: `Insert`, `Untrack`), the conversation (`answers`). The object is single-threaded, so an action is what runs between two awaits: `Ask` to `Track` start a run, `Deliver` to `TimeOut` are the ways out of the polling loop (`DoneTooLate` the one that loses an answer), `Close` and `CloseEnds` the two halves of `onClose`, `Restart` and `Recover` the second life. The workflow is external: `Emit`, `Finish`. |
| `BillingRecords` | `writeBillingRecord`, `replayBillingDLQ` | `rows`, `letters`, and a writer per call and per sweep at its statement: `Select`, `Insert`, its retry, `DeadLetter`, and what throws before or after the commit. |
| `BatchRun` | a batch from its creation to its end | The rows (`batch`, `task`), the message, the consumer's local state (tasks still to run, counts), two API requests. `Close` completes the batch and `Ack` acknowledges the message; `Crash` loses the local state and the queue delivers again, three times. |
| `Training` | training of one agent | The rows of job, iterations and versions, the live `prompt`, messages; a step walks through `Claim`, `Start`, `Evaluate`, `Deactivate`, `Insert`, `Complete`, `Finish`, `Activate`, `Reply`. `Conflict` is the UNIQUE key. |
| `CreditLedger_proofs` | | theorems about `CreditLedger`, `Account` and `Webhooks` (section 7) |
| `AgentPayments_proofs` | | theorems about `AgentPayments` and `A2ATask` |
| `AgentRun_proofs`, `RunDelivery_proofs`, `BillingRecords_proofs`, `BatchRun_proofs`, `Training_proofs` | | theorems about the module each is named after |
| `FiniteSetFacts` | | lemmas on sizes, maxima and sums over finite sets that the proofs share |
| `MC*` | | constants, symmetry |

`history` variables (`charges`, `supply`, `raced`, `stale`, `executed`, `lost`,
`served`, `overlapped`, `excused`, `slips`, ...) are never read by a guard; they only let a property speak of the
past.

Why a transaction is sometimes one action and sometimes several: Postgres runs at
READ COMMITTED, so a statement sees what committed before it. From its first row
write on, a transaction holds the lock of that balance row, and the other
balance row is changed by a relative update, so what others do between its
statements commutes with it: one action. A transaction whose guarded UPDATE
matched no row holds nothing, so `refundTransfer`'s short path is three actions.

Why replayed code is not repeated: code between two steps of the workflow that
reads nothing a replay could see differently belongs to the action of the step
before it. What a replay does see differently (the session limit, the snapshot,
the clock, the mailbox) is a choice in `Start`, `LimitReached`, `WallClockStops` and
`EndTurn`.

Values that a mistake would change are named operators; before each stands the
form a plausible mistake would give it (`CoversAlways` before `Covers`). No action uses
these; the project's mutation entries put them in place to show that every
property can fail.

## 3. Runs that pass

| Run | Instance | States | What it shows |
|---|---|---|---|
| `Ledger` | 3 concurrent requests, 1 org, 1 session, amounts 1 and 2, cap 2, credit 7, 4 calls | 143 thousand | `NoOverdraft`, `RetryNotCharged`, `DuplicatesBounded`, `CapOvershootBounded`, `AtomicLedger` |
| `Payments` | 1 transfer of 50 or 100, referrers on two levels (the second is the buyer), 2 concurrent refunds, 2 purchases or spends | 273 thousand | `NoOverdraft`, `OnlyStaleRefundsLeak`, `SerialRefundsBounded`, `PayoutWithinFee` |
| `AgentRun` | 3 turns, budget 6, LLM 2, 2 parallel calls, 1 retry, backup every 2 turns, 1 eviction | 979 thousand | `BudgetRespected`, `ToolsRunOncePerCall`, `ReplayFaithful` |
| `RunEnds` | 3 turns, everything free of cost, 1 eviction | 214 thousand | `RunEnds` |
| `PaidTask` | 2 receipts, 2 handlers, price 100 (the seller receives 90), overage 0 or the whole 100, 1 purchase or spend, each receipt sent up to twice | 1.35 million | `TaskTypeOK`, `PaymentsAccounted`, `ServedKeepsPrice`, `FailedIsRefunded` |
| `Webhooks` | 2 handlers, a checkout, an invoice and a call, 2 failures or extra deliveries | 984 thousand | `EffectsBounded`, `PaidEventsCredited` |
| `RunDelivery` | 2 clients, 2 runs, 1 reconnection, 1 restart, 1 failed write | 1.49 million | `OneRunUnlessClosed`, `GuardIsFreed`, `AnswerRecordedOnce`, `AnswerKept` |
| `BillingRecords` | 3 calls for 2 sessions, 2 sweeps, 4 failures | 147 thousand | `BilledOnce`, `RecordHeld`, `LettersDrain` |
| `Training` | 1 job, 2 overlapping steps, 2 iterations, scores 1 and 2, 2 requests, 1 eviction or error | 1.40 million | `BestIsBest`, `AtMostOneActive`, `CancelIsFinal`, `IterationsBounded` |
| `BatchRun` | 3 tasks, 3 retries of the message, 4 failures | 325 thousand | `TaskRunOnce`, `WithdrawnNotRun`, `CountsHonest` |

All but `RunEnds` and `Webhooks` also check one type invariant.

* `AtomicLedger`: taken together with the rows that requests still owe the log, or died owing
  it, the ledger behaves like `Account`: whole purchases, refunds and burns, booked once and
  under their kind. This is what the log is worth, with no transaction to help it.
* `RetryNotCharged`, `DuplicatesBounded`: what the idempotency check does guarantee, as opposed
  to what it is said to ("don't double-deduct for the same session"): a call that begins after
  the first row never deducts, and of calls that overlap no more than run at once do.
* `CapOvershootBounded`: concurrent calls overshoot the cap by their own amounts at
  most.
* `OnlyStaleRefundsLeak`: over all interleavings, a partial refund that acts on an
  outdated balance is the only way credit is made or lost.
* `PaymentsAccounted`: the same with the automatic payment of `a2a-send`, whose
  interruption between debit and credit is the only other leak.
* `ServedKeepsPrice`: a receipt used once, whose task completed, keeps its price up to
  what its settlement gives back (all of it at rates of zero), whatever fails afterwards.
* `FailedIsRefunded`: a receipt whose handler threw, and that served nobody, has its price back once
  no handler holds it. `lapsed` names the exceptions: a handler or a refund that broke off, a
  seller who could not cover it, a missing row, and a handler that did not know the agent's owner.
* `BudgetRespected`: over all replays, what the recorded steps cost exceeds the
  budget by less than one LLM call, or by what the tools of one turn cost
  beyond their estimate.
* `ToolsRunOncePerCall`: a call is executed once per time the model made it, plus once
  for each result that was lost before the cache had it or could not be read there.
* `ReplayFaithful`: without a cost backup in between and without the guards that
  depend on the moment, a replay returns the output and the cost that were announced, and its cost
  is that of the recorded steps. The `trace_id` is drawn outside any step (`workflow.ts:171`): a
  replay returns another one than it announced, so it is only asked of a run without evictions.
* `EffectsBounded`: the webhooks check before they act and mark afterwards, so deliveries that
  overlap all act; but no event is booked more often than handlers run at once, plus
  one for each that failed half way, and no call is charged without a billing record.
* `PaidEventsCredited`: because the answer comes last, a paid event is credited in the end, unless
  a handler finds no such package (`stripe.ts:221`) or no org of that customer (l.256): it is then
  marked and answered without a credit (`unmatched`).
* `OneRunUnlessClosed`: the guard "only one run at a time per session" holds over restarts and
  recoveries as long as no client closes its connection and no row of `active_workflows` fails to
  be deleted; any `onClose` clears it, also while another client's handler is between the guard and
  its workflow. A run counts while a poller or a recovery looks after it; the workflow of one that
  was given up may go on beside the next.
* `GuardIsFreed`: in whatever order pollers and `onClose` handlers end, no session stays locked
  (before a restart: a recovery never clears the guard that `onStart` sets), but for a run whose
  question could not be stored, which ends outside the `try` that would clear the guard.
* `AnswerRecordedOnce`, `AnswerKept`: over restarts an answer is recorded, and once. The exceptions
  are the history variables `redo` (a restart between the record and the end of the run), `failed`
  (a row that could not be deleted is recovered again) and `excused`, the runs that are given up:
  by a client that left or closed, an error event, the five minutes, an answer that could not be
  stored, a restart that finds no row of the run, and `DoneTooLate`. That one is the surprising
  one: the poller reads the store, then the status; when the workflow has completed by then and
  its done event has arrived meanwhile, it takes the event for sent (`index.ts:1410-1429`), and
  the answer is neither sent nor recorded.
* `BilledOnce`: one row for a session, plus one for each INSERT that no check covered;
  `RecordHeld`: a record is a row or a letter, unless an eviction, an unreachable database, a
  failing KV store or a replay whose INSERTs failed dropped it. The last is the surprising one: a
  sweep deletes the letter although nothing was written.
* `BestIsBest`, `CancelIsFinal`: hold of jobs whose steps did not overlap, respectively that were
  cancelled while no request was under way. The claim of an iteration keeps two steps from
  claiming the same one, and does not keep a second from starting.
* `AtMostOneActive`: rests on the UNIQUE key alone: two statements replace the active version. The
  agent is taken to have a prompt: without one a job writes no version 0 (`training.ts:168`), and
  the snapshot of a later job would be active beside version 1.
* `IterationsBounded`: unattended training ends, however often its messages are delivered.
* `TaskRunOnce`, `WithdrawnNotRun`, `CountsHonest`: over evictions and redeliveries no task is sent
  to the runtime twice, none that was cancelled before a consumer took it is run, and a
  completed batch does not claim more completed tasks than its rows show (it may claim fewer: a
  redelivery starts from zero, also that of a batch completed but not yet acknowledged).

**Bounds.** `MaxCalls`, `MaxOther`, `MaxSends` and `MaxCrashes` bound counters that would
otherwise grow. Three requests let two race while a third changes the balance; two
callers are the fewest that can refund at once, and the credit is chosen so that
the last call or refund is not covered. Two calls per batch give parallel equal keys;
three turns with a backup at the second give a replay before and after a backup. One
tool name suffices because repeated failures of one tool and of any tools are both
reached with it. In `RunDelivery` two clients and two runs are the fewest in which one client's close meets another's
run, a restart with a reconnection lets a new run meet a recovery, and each kind of write can be the one that fails. In
`BillingRecords` four failures are both INSERTs of a call and both of a replay. In
`BatchRun` they are the four deliveries of a message. In `Webhooks` two failures and two handlers
reach four credits for one event, the bound; an event may find nobody to credit in one delivery and somebody in the next. In `PaidTask` the seller has less than the price after one sale, so that a refund may be partial or not covered, and a purchase lets a stale one meet a changed balance. `Training` has one job: a second one of the
agent has no version 0 of its own and ends in `Conflict`, which an eviction reaches, too.
`MaxFaults`, `MaxFailures`, `MaxOpens`, `MaxRestarts`, `MaxPosts` and `MaxClaims` are the bounds of these modules
(`MaxClaims` and `Webhooks`' `MaxCalls` are never reached).
Amounts of 30, 50 and 100 make fee, first and second level
payouts differ (10, 3 and 1 percent).

**Deadlock** is not checked: behaviours end when the bounds are used up, a workflow
instance is complete or a receipt is spent.

**Fairness.** `RunEnds` needs weak fairness of `Progress`, the steps of the
workflow engine, which keeps running an instance until it ends and starts it again
after an eviction. `LettersDrain` needs that calls run on and that the cron handler comes by
(`FairSpec` of `BillingRecords`); `PaidEventsCredited` that handlers run on and that Stripe
delivers an event until it is answered. Evictions, retries, timeouts and errors have no fairness,
and are bounded: with endless evictions no run would end.

## 4. Runs that show a disagreement

Each of these runs checks one property that a comment, the header or a test
states, and TLC finds a behaviour of the code that violates it. `PROJECT.json` quotes
the line.

| Run | What happens |
|---|---|
| `AutoPay` (`AutoPayAccepted` of `A2ATask`) | the receipt of an automatic payment is for the net amount and always refused |
| `BestNotActivated` (`BestActivated` of `Training`) | the best score belongs to the version that was evaluated, and is booked for the one written afterwards, which goes live untested |

The conditions in passing properties mark further places where the code does less than a
comment or a test says, each of which a counterexample shows once the condition is dropped:
two calls for one session are both charged (`DuplicatesBounded`), two refunds of a transfer
commit (`raced` in `SerialRefundsBounded`), a partial refund loses credit (`stale` in
`OnlyStaleRefundsLeak`), two runs of a session go on at once (`closed` in `OneRunUnlessClosed`), a
dead letter is deleted unwritten (`dropped` in `RecordHeld`), a replayed run returns something
else than it announced (`rebased`, `refused`, the trace in `ReplayFaithful`), a cancelled job goes
on (`settled` in `CancelIsFinal`), an answer is lost to a done event that came too late (`excused`
in `AnswerKept`), a payment is kept without a credit (`unmatched` in `PaidEventsCredited`). That a
failed read skips the payment gate (`a2a.ts:356`) and the task is served on any receipt is part of
`A2ATask`: no property says that a served task was paid, because it need not have been.

## 5. Refinement

`CreditLedger` implements `Account` under the mapping `balance`, `purchased`, `consumed` to
themselves and `books` to `Booked`: the sums of the log, plus the rows of requests that are
between their two statements, plus those of requests that died there. The upserts and the guarded
UPDATE map to `Purchase`, `Refund` and `Burn`; the audit row and a death move an amount from one
term of `Booked` to another, and stutter, as everything else does.

The run `Ledger` checks this, and `LedgerIsAtomic` of `CreditLedger_proofs` proves it for any
requests, orgs and amounts. `Books` says how `Booked` follows one request (its old row leaves the
sum of what is owed, its new one joins it), and two consequences do the work: `Adds` for a
statement that begins to owe a row, `AddsNothing` for one that writes it, dies or has nothing to
do with the log. `BurnFirst` is needed for the guarded UPDATE, whose amount the abstract account
must find covered. `AlwaysReconciled` proves of `Account` that its books explain its balance and
its lifetime counters, so by the refinement they do in the ledger.

`Webhooks` uses the ledger's own actions: `WebhooksUseTheLedger` proves that its behaviours are
behaviours of `CreditLedger`, and so everything proved of the ledger holds under webhooks.

## 6. Abstractions

* Amounts are whole numbers. The code's doubles are rounded to six decimals by
  the column type; drift below that is not modelled.
* `audit` keeps sums, not rows; `burnRows` counts the rows of a session.
* Referrers do not change during a behaviour.
* A transfer and a refund that lock two balance rows in opposite order can
  deadlock in Postgres; one of them then fails, which `RefundDies` and a `Transfer`
  that does not happen cover.
* In `AgentRun` messages, tool results and progress events have no content. A tool attempt that
  timed out is over when it is retried; that it may go on in the background is
  not modelled. The get and the put of `cacheStepResult` are one action. A text is there or not:
  one with a skill activation tag, which a replay may rewrite differently as the prompts of skills
  are loaded outside a step (`workflow.ts:731`), is left out. The wall clock and the engine's limit of steps are one
  nondeterministic exit. The session limit may be reached at any start of `run()`.
* In `RunDelivery` any event may be missed or seen late, which covers the index into the trimmed
  buffer; the five minutes are one exit. `_storeLastResult` and the bill are not part of it.
  Outputs are some text: an empty one is recorded by nobody. Writes to SQLite may fail, reads do
  not. `onClose` awaits `terminate()`; the `cancel()` it calls next does not exist on a workflow
  instance, so the two awaits are one.
* In `BillingRecords` records have an org: one without (a run whose org only the session's
  configuration knows, `index.ts:1358`) returns before anything. Letters do not expire (`db.ts:556` gives them seven days).
* In `Training` a version is its prompt; other resources, and what convergence and the
  algorithms compute from the history, are a choice. The prompt and the end of the iteration are
  written in one action.
* In `Webhooks` an invoice has `credits_cents`: one that only has `credits_usd` is computed as
  NaN (`stripe.ts:264`) and never credited. The ledger's window does not slide.
* In `A2ATask` the task's cost is a choice of overage between nothing and the price, the
  marketplace's pricing is not kept. Requests carry the receipt of a payment by their own org to
  the agent's: requests without a receipt, and receipts presented by others than the payer, are
  not modelled. `verifyPaymentReceipt` and the refund look at rows by transfer, and no check ties a
  receipt to the org that presents it.
* In `BatchRun` the callback between the completion and the acknowledgement changes nothing.

## 7. Proofs

Every invariant and the refinement that a passing run checks is a theorem of its specification,
for any values of the constants. Below are the inductive invariants, and why the property is not
inductive as it stands. TLC checked the stronger ones on the run's instance before they were
proved.

**Assumptions.** Only the named `ASSUME`s of the modules, which every run evaluates: that the sets
of requests, orgs, callers, calls, sweeps, steps, tasks and costs are finite where the code counts
or adds over them; that a missing session, org or run is not one of the real ones; that amounts
are positive, limits natural numbers; that an org does not refer itself; that buyer and seller of
a task differ. The bounds on faults, crashes, sends and calls are any natural numbers
(`MaxCrashes` of `Training` at most 3, the retries of the queue, beyond which it would drop the
message).

**`FiniteSetFacts`.** What is true of sizes and sums over a finite set is shown by a least
counterexample (`LeastSubset`: a nonempty collection of subsets of a finite set has a minimal one,
as inclusion is well-founded there), because the library's induction theorems take an operator as
a parameter, which no installed prover can instantiate. Sums are defined as `Total`, which is
shown to change by the difference when one summand changes (`TotalChange`), and shown to be the
`MapThenSumSet` of the models where it is used.

**`CreditLedger_proofs`**

* `TypeCorrect`, `NeverOverdrawn`: `TypeOK` is inductive, and `NoOverdraft` relative to it,
  because every decrease is guarded by `Covers`.
* `RetriesAreFree`: `RetryInv` says that a request whose session had a row when it began is held
  at the check, and that the row is still there, since no statement deletes one (`BurnRowsGrow`).
* `DuplicatesAreBounded`: the number of charges says nothing of the requests still to deduct.
  `LedgerInv` counts both: until a session has a row, its charges are those of requests that owe
  theirs; and charges and requests at the UPDATE together are never more than the requests there
  are, because once there is a row nobody new passes the check (outside the failed reads and
  deaths the property excepts).
* `OvershootIsBounded`: `CapInv` counts, with what was spent, the largest amount for each request
  that passed the cap and has not deducted. Either that stays within the bound, or one of those
  requests, the last to pass, had room for its own amount and is counted with that.
* `LedgerIsAtomic`, `AlwaysReconciled`: section 5.
* `EffectsAreBounded` (of `Webhooks`): `WebhookInv` ties a handler to the ledger request it works
  with; `EffectInv` counts (`Within`): before an event is marked, its bookings are those of
  handlers between booking and mark, and of failures; afterwards no handler joins those about to
  book. The charges of a call are counted with the handlers yet to charge it.

**`AgentPayments_proofs`**

* `PayoutsFitTheFee`: rounded half up one by one, both payouts together never exceed the rounded
  fee. Pure arithmetic over every amount.
* `TypeCorrect`, `NeverOverdrawn`, `PayoutsBounded`: one invariant, `IInv`, in which `StageInv`
  says what a transfer has paid at each point of its tail (nothing at `refer`, exactly the first
  level at `l1row` and `l2`) and `CallInv` that a refund under way is about a transfer that was
  made. Without `StageInv` there need not be room for the second payout.
* `RefundsAreBounded`: `SerialInv` says, for a transfer none of whose refunds overlapped, that at
  most one refund of it is under way, that there was none before, and that it moves no more than
  it was asked to.
* `OnlyStaleLeaks`: `LeakInv(gap)`: unless a refund was stale, balances, retained fees and `gap`
  are the supply (sums over any set of orgs and the transfers made). To keep it, finitely many
  transfers were made and each is between two different orgs, so that a refund changes two
  summands. The gap is 0 here, and lets the same lemmas serve `A2ATask`.
* `TasksTypeCorrect` (of `A2ATask`): that `served` stays in its range needs `CountInv`: together
  with the handlers that may still serve, it does not exceed the requests that carried the
  receipt.
* `ServedTasksKeepTheirPrice`: `TaskInv` relates a refund under way to its handler (`CallerInv`)
  and a transfer to the price (`RowInv`); `KeepInv`: of a receipt sent once there is one handler,
  and where it stands tells what was refunded so far, and what its settlement asks for. Nothing is
  assumed of an overage but that it does not exceed the price.
* `FailedTasksAreRefunded`: `FailInv`: a receipt that failed, served nobody and has no lapsed refund
  has its price back or a handler that owes it (`Repaid`), and a refund after a failure asks the
  seller for the whole price (`Repaying`). A second handler of the receipt may find a refund row:
  the row of an unserved receipt stands for the whole price.
* `TaskPaymentsAddUp`: `AccountInv`, the property and that finitely many transfers were made; its
  steps are those of `LeakInv` with the amount that automatic payments have debited and not yet
  credited as the gap.

**`AgentRun_proofs`**

* `TypeCorrect`: needs that a tool step is only recorded for a call its turn's recorded reply asks
  for (`StepsAsked`), and that the attempts in memory agree with the records (`HandInv`).
* `ToolsRunOnce`: `OnceInv` bounds the executions of a key by the results lost plus an allowance:
  every call the model made with that key, once the cache has the result, and before that only the
  calls whose result is recorded or in memory.
* `BudgetIsRespected`: the local cost is not that of the records after an eviction. `OrderInv`
  says that turns settle in order, `PaidInv` that at each turn the local cost covers what is
  recorded of the turns before it; so the budget check, which reads the local cost, is not
  deceived.
* `ReplaysAreFaithful`: a replay is at an early turn while records of later turns exist and an
  announcement was already made, so the invariant has to speak of turns that the local variables
  do not know of. `ReplayInv` says that there is a path of local variables at the tops of turns,
  each linked to the next by what the records make of it (`Link`); that `run` is on that path
  (`At`); that nothing is recorded beyond its end, and its cost there is that of the records
  (`Frontier`); and that what was announced is what its end gives. A step at the end of the path
  extends it, any other moves along it, an eviction returns to its beginning. `TraceInv` says
  that no trace of a later start is announced.

**`RunDelivery_proofs`**

* `TypeCorrect`, `GuardFreed`: `GuardIsFreed` is inductive relative to the types.
* `OneRun`: `SoleRun`: as long as no client closed and no delete failed, at most one run is under way, the guard is set
  while one is, and the rows of `active_workflows` are of runs under way, as any other row would
  be recovered next to a new run.
* `AnswersRecordedOnce`, `AnswersKept`: `OnceInv` says that the row of a run that was answered is
  about to be deleted, or its delete failed, so that no recovery finds it; `KeptInv` that until the answer is recorded
  somebody looks after the run, and its row lets a restart find it, or else the restart is named as
  what gave it up. `RowInv` ties rows and
  recoveries to where the poller is.

**`BillingRecords_proofs`**

* `RecordsAreHeld`: `HeldInv` adds that a sweep about to delete a letter has seen to it that the
  record is a row, or has given it up.
* `SessionsBilledOnce`: `Covered` counts the rows of a session together with the writers about to
  insert one: at most one more than the INSERTs that no check covered.

**`Training_proofs`**

* `TypeCorrect`, `OneVersionActive`: `BaseInv`. A claimed number belongs to one request
  (`OwnInv`), which alone touches the iteration's row (`RowInv`); versions are written in order,
  and with the steps that may still write one they are no more than the claims (`VersionsInv`),
  which keeps `resource` within its type. For the one active version, `InsertInv`: a step between
  its two statements can only write the next version if none is active.
* `CancelStays`: `SettledInv`: a job that was cancelled while nobody worked on it is `Dormant`: no
  request works for it, and messages and new requests find it cancelled.
* `IterationsEnd`: `ClaimInv`: messages and requests that can still lead to a claim are no more
  than the requests and evictions so far, and each claim past the last iteration costs one of
  them. `ReplyInv`: a step about to send the next message has iterations left.
* `BestIsTheBest`: for jobs without overlap, `AloneInv` (one step is past its claim, and knows the
  best score of the row), `CountedInv` (an iteration that reached the row keeps its score) and
  `BestInv` (the row's best is one of those, and none is above it).

**`BatchRun_proofs`**

* `TasksRunOnce`, `WithdrawnNeverRuns`: `RunInv`: the consumer has at most one task at hand
  (`HandInv`); what it remembers of a task can differ from the row only by a cancellation
  (`TaskInv`); it has no withdrawn task (`WithdrawnInv`); there is one consumer at a time, and without a fault none
  after the batch is completed and acknowledged (`QueueInv`).
* `CountsAreHonest`: `CountInv`: what a consumer has counted and has left fits into the tasks
  (`ConsumerCounts`), as do the counts of the row (`BatchCounts`); without a fault the counts are
  exact (`ExactCounts`).

**Left to TLC.** `RunEnds`, `LettersDrain` and `PaidEventsCredited`: liveness under fairness needs
ENABLED, which the prover does not support. No module declares a RECURSIVE operator.

## 8. Not modelled

Tools, LLM providers and context management are opaque: a reply or a result is
chosen. Middleware (auth, quotas, rate limits) filters requests before they
reach the modelled handlers. CRUD routes are single statements, as are most branches of the
queue consumer and the cron handler. Scanners and validators are pure functions with unit
tests. The session counter is advisory by its own account. Of training, the routes that
delete a job or activate a version by hand, and `evolve.ts`; of A2A, streaming, the REST variants,
cancellation and the in-memory task store. The Python library and the
clients do not take part in the deployed protocols. They are also most of the repository's
lines: portals, connectors, routes that format rows, tools over external services.

## 9. Plan

1. Done: the ledger and what it promises, payments, A2A tasks, agent runs, webhooks, run
   delivery, billing records, batches, training; proofs of all their safety properties and of
   the refinement.
2. Life cycle of an A2A task: cancel, streaming, the un-awaited audit row.
3. An escrow (paid, kept or returned) that `AgentPayments` refines outside `raced` and `stale`,
   with its proof along the lines of `LedgerIsAtomic`.

Running: `tlc -config MCAgentRun.cfg MCAgentRun` (`PROJECT.json` names the
module and configuration of each run), `tlapm AgentPayments_proofs.tla`.
