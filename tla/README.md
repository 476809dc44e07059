# A TLA+ model of the commerce back end

The back end (`src/`, TypeScript, Fastify + MongoDB) sells from a catalogue,
places and fulfils orders, refunds them, runs tills, keeps books. Most of its
*state machines* live in kernel packages (`@classytic/order`, `flow`, `promo`,
`revenue`, `arc`); what the repository itself writes is the **orchestration**:
handlers that await several kernels in turn without a common transaction, and
that must stay correct when other requests, replicas and clocks run at those
awaits, when one step fails, or when the process dies. That is what these
modules model. Kernel packages appear only through the effects the callers
rely on, and are marked external in `PROJECT.json`.

Paths below are relative to `src/src/`; "orders/" stands for
`resources/sales/orders/`.

## 1. Inventory

| Component | State | Operations | Talks to | What is hard | Correct when |
|---|---|---|---|---|---|
| Order placement (`orders/placement.service.ts`, `order-placement.ts`, `bridges/flow.bridge.ts`, `order-payment.ts`, `promotions/promo-placement.ts`) | orders, stock reservations, promo evaluations, one transaction per order | look up key, reserve per line, evaluate promo, insert, compensate, commit promo, attach payment | flow, promo, order and revenue kernels | races on one idempotency key; failures half way; best-effort compensation; crash leaves holds | a key buys one order; no stock locked for nobody; no order loses its stock to somebody's compensation |
| Refunds (`orders/services/refund.service.ts`, `handlers/refund.handler.ts`, `lifecycle/handlers/cancel-refund-prepaid.ts`, `change-confirmed-refund.ts`) | `paymentState.totalRefunded`, `metadata.refundedAt`, `refundProcessedAt` per change, gateway balance | button, cancellation, confirmed RMA | revenue gateway, event bus | snapshot writes, retries, gateway answers lost, stamps after effects | not paid twice, not overstated, cancellations paid back |
| Lifecycle wiring (`orders/lifecycle/wire-handlers.ts`, `lib/events/EventBus.ts`) | in-memory subscriptions and retries | `withRetry` | all lifecycle handlers | bounded retries, lost at a crash | every delivery ends |
| Transactional outbox (`shared/outbox/`) | `outbox_events`: status, attempts, lease, next visibility | save, claim, acknowledge, fail | cron, transport | leases that end early, late answers, dying relays | published once per lease, settled for good, nothing forgotten |
| Cron scaffolding (`cron/define-job.ts`, `cron-lock.ts`, `index.ts`) | `running` flag per process, lease per job | tick | every background job | flag read before an await and set after it; lease not renewed | one run per cluster |
| Stock hand-over and RMA goods (`orders/handlers/action.handler.ts`, `lifecycle/handlers/stock-commit.ts`, `stock-return.ts`, `ledger-*-bridge.ts`, `change-confirmed-*.ts`, `services/rma-inspect.service.ts`, `logistics/services/logistics.service.ts`) | fulfilments, holds, move groups, COGS and its reversals, RMA stamps | ship, send out, commit, cancel, refund, return, inspect | flow, ledger | check-then-act, effect before stamp, four ways to ship | goods leave once and come back once; no cost reversed that was not booked |
| COD settlement (`orders/handlers/cod-settlement.handler.ts`, `accounting/events/define-posting-handler.ts`) | `metadata.codSettlement`, A/R entries | settle, cancel, refund | accounting | check-then-set; three endpoints clear one receivable | cleared once |
| POS sale and shifts (`resources/sales/pos/`) | shift, drawer breakdown, sale order | open, sell, cash in/out, pause, blind close, reconcile, close | order, flow, promo | guards on a loaded shift | drawer never negative, four eyes |
| Approval chains (`core/approval/`, `inventory/warehouse/procurement/`) | approval steps in the subject document | submit, decide, approve | any approvable document | read-modify-write of the whole chain; approval checked on a loaded order | approved by a quorum of every step of one submission, or without a chain in the way |
| Subscription billing (`resources/payments/subscription/`) | next billing date, status, transactions | bill due, pause, resume, cancel, reschedule | revenue, streamline | create, then advance; resume moves the date in a second write | every date follows a billed one or was set on purpose; no interval billed twice |
| Settlement imports (`resources/accounting/settlement/`) | import status, legs' pins, journal entry | post, cancel, match, pin, reconcile | ledger kernel | post then stamp, unconditional updates | status and ledger agree, a line pinned once |
| Period close (`resources/accounting/period-close/`, `fiscal-period/`) | close session, step index, closed flag | start, advance, skip, abort, close, reopen | ledger kernel | two presses of one step | every step run, or skipped with a reason |
| Stock requests (`resources/inventory/stock-request/`) | request status, transfer ref | approve, reject, fulfil, cancel | flow transfers | check-then-create | one transfer per request |
| Other accounting and inventory (`resources/accounting/`, `resources/inventory/`) | journal entries, budgets, transfers, purchase orders | event handlers, CRUD | ledger, flow | budget check before post | - |
| Cart, guest checkout, quotations, RFQ, blanket orders, loyalty, pricelists | kernel documents | adapters | kernels | little of their own | - |
| Catalogue, content, CRM, logistics, notifications, analytics, auth, platform, audit, archive | CRUD documents | CRUD | - | - | - |

How they interact: HTTP handlers call services directly; services await the
kernels; kernels publish domain events, some straight on the in-memory
transport (`lib/events/EventBus.ts`), some through the outbox, which the cron
job `outbox.relay` empties every five seconds; lifecycle handlers subscribe to
those events under `withRetry`. Cron jobs (reservation clean-up, the outbox
relay, stale shifts, ...) run on every replica behind one lease per job.
Subscription billing does not: it is a step of a durable workflow of the
streamline package (`subscription.workflows.ts`), which keeps one run under one
key and claims each step before it runs it.
Processes share nothing but MongoDB.

`PROJECT.json` lists the hazards at their lines: those with properties are
covered below, the others say why not.

## 2. Modules

| Module | Role |
|---|---|
| `FlowStock` | the reservations of the flow kernel as the order code uses them: reserve, release, TTL, sweep |
| `PlacementContract` | abstract specification of `POST /orders/place`: an idempotency key buys at most one order, every 201 names an order that exists |
| `OrderPlacement` | `executePlacement` await by await; extends `FlowStock`, implements `PlacementContract` |
| `OrderPlacement_proof` | its theorems |
| `RefundFlow` | `executeRefund` and its three prepaid callers under `withRetry` |
| `RefundFlow_proof` | its theorems |
| `EffectOnce` | abstract specification shared by three components: an effect happens once, and again only after a fault that hid it |
| `OrderFulfilment` | the goods of one order: shipments, holds, stock and ledger handlers, the RMA and its inspection; implements `EffectOnce` |
| `OrderFulfilment_proof` | its theorems |
| `StockRequest`, `CodReceivable` | one stock request, one COD receivable; both implement `EffectOnce` |
| `EffectOnce_proof` | that they do |
| `ApprovalChain`, `SubscriptionBilling`, `SettlementImport` | a purchase order's approval with or without a chain, one subscription's sweeps, resumes and reschedules, one settlement import and its matcher |
| `BackOffice_proof` | their theorems |
| `PosShift`, `PosShift_proof` | the shifts of a register, and their theorems |
| `PeriodClose`, `PeriodClose_proof` | the guided close of a fiscal period, and its theorems |
| `CronTick` | `startCronJob` and the leader lock of one job on all replicas |
| `OutboxRelay` | the outbox store and the relay job; extends `CronTick` |
| `OutboxRelay_proof` | its theorems |
| `MC...` | the instances TLC checks |

### OrderPlacement

One process per call. `pc` names the await a call is suspended at, and one
action is the code between two awaits; a client that retries is another call
with the same key. An order is named by the call that inserted it, which is
also how the code tells a replay from its own order: by the reservation ids in
the order's metadata (`placement.service.ts:262-267`).

| `pc` | Code | Actions |
|---|---|---|
| `start` | 58-110: validation, lookup by key | `Reject`, `LookupHit`, `LookupMiss` |
| `reserving` | 112-130, loop of the bridge | `ReserveLine`, `ReserveShort`, `ReserveThrows` |
| `promo` | 132-151 | `ReservePromo` |
| `creating` | 163-283 | `CreateStored`, `CreateReturnsWinner`, `CreateDuplicate`, `CreateThrows` |
| `releasing`, `undoing` | compensation, 223-229, 240-245, 268-275 | `ReleaseHolds`, `RollbackPromo` |
| `finding` | 230-246 | `FindWinner`, `FindNobody` |
| `committing`, `charging` | 285-324 | `CommitPromo`, `AttachPayment` |

`Crash`, `HoldLapses`, `Sweep` and `PromoLapses` are the environment.
`order.create` has four outcomes because the kernel may report a lost race
either by returning the winner or by a duplicate-key error, the duplicate may
come from another unique index, and an insert may be stored and still reported
as failed. `leftToTTL` is a history variable: the holds the code knowingly
leaves to the sweeper (a shortage after other lines were reserved, a release
that failed and was logged, a crash). Prices, addresses, channels and the
customer's pricelist are data no property depends on.

### RefundFlow

One order, captured in full. A job is one run of a caller; it loads the order
(`snap`) and then steps through `executeRefund`: short-circuit on `refundedAt`
(76-80), gateway (107-120), projection (122-158), stamp (160-175). Each caller
then does its own thing with the outcome (`AnswerAdmin`, `EndCancel`,
`StampChange`) and `CloseOrder` tries the transition. `Retry` is `withRetry`:
from the load, at most `MaxRetries` times; the button has no retries, its throw
is a 500. The gateway may fail after it paid. `paidFor`, `lostStamps` and
`closedBy` are history variables. COD orders do not reach this code.

### CronTick and OutboxRelay

A tick of the interval timer reads `running` (`Fire`), awaits the lease
(`LockGranted` is mongo's grant, `Proceed` the tick that resumes and sets
`running`), runs the job, clears the flag. The lease is granted to its holder
again and is never released (`cron-lock.ts:42-48`); it may run out before the
tick even resumes. `OutboxRelay` runs one relay in each tick that
got the lease: it claims the visible events one `findOneAndUpdate` at a time,
publishes them in order and answers for each one by `acknowledge` or `fail`,
which write only where `leaseOwner` is still the caller's. The relay loop is
part of the arc package and external; the store is the repository's.

The store counts the claims of a document in `attempts`, but `toDomainEvent`
(`mongo-outbox-store.ts:205-211`) leaves that count behind when it hands out the
event. The failure policy (`shared/outbox/index.ts:9-12`) is therefore asked about
a count of the relay's own process: `tried`, the refusals of the event that
process has seen. `Policy` decides at the refusal (`refused` or `hopeless`), `Fail`
writes the decision later. A process is taken to keep its count as long as it
lives; its successor starts at zero.

### OrderFulfilment

One stored order whose lines are single units. A fulfilment is one record;
`press` is the await its ship action is suspended at (`ShipLoad`, the guard of
`action.handler.ts:37-102`; `CreateByAction`; `ShipByAction`; `Reflect`). The
fulfilment routes, the carrier's webhook and the manual `send_out` make and move
fulfilments too, and leave the order's status alone. "confirmed" stands for
every status before "fulfilled", "fulfilled" also for "completed"; a delivered
shipment stays where it was, since no handler of goods or cost listens for it.

Each event starts one stock and one ledger job. A stock job is `queued` until
its move group is received, `moved` until its last write is done, then `done`;
`ReceiveAnswerLost` and `StampAnswerLost` are the failures after which
`withRetry` runs the handler again on what the first attempt left, and
`StockJobDies`, `LedgerJobDies` are exhausted retries or a lost process. Ledger
events are idempotent by key, so a set of keys (`reversed`) and a flag (`cost`)
are enough. The coverage check of `createForOrder` and the returnable-quantity
check of `requestChange` are the order package's; `Planned` and `Covered` are
the conditions the repository relies on. `freed`, `unseen`, `skipped` and
`order.forced` are history.

### The back-office modules

All are protocols of calls that load, check and write later; one process per
call, one action per await.

* `StockRequest`, `CodReceivable`: a call keeps only the place it is at; what it
  saves overwrites what is there. `unseen` and `blind` count the calls that began
  while another one's effect did not show, and the stamps that were lost.
* `ApprovalChain`: a handler carries the chain it computed and `WriteChain`
  stores it whatever is stored by then. A step is passed by `requiredApprovals`
  of its approvers (`with-approval-chain.ts:204`), and a rejection may leave the
  chain pending where the step can do without that approver; which of the two a
  package does is left open. `ApproveOrder` is the order's `approve`: a draft with
  a chain needs it approved, a draft without one is approved as it is
  (`tests/scenarios/warehouse/procurement-approval-chain.test.ts`), and what it
  found is not looked at again by the save. `direct` remembers the second way. In
  which order a sequential chain takes its steps is left out: it only refuses
  decisions.
* `SubscriptionBilling`: a sweep carries the date it loaded; `AdvanceDate`
  writes the next one absolutely. The transaction's key makes a cycle's bill
  unique; whether the repository answers or throws on a duplicate is the
  package's, so both are possible. `Resume` makes the subscription active, and
  unless the caller asked for `extendPeriod`, `Reanchor` then sets the date to an
  interval from now (`subscription.actions.ts:81-94`): cycles that were due are
  skipped on purpose. `Reschedule` is an admin's update of `metadata`
  (`subscription.adapter.ts:9-11`). Sweeps may overlap: the workflow engine runs
  a step again that it takes for dead. `anchors` (dates set on purpose) and
  `crossed` (one of them was set by hand, or by a resume with a sweep around) are
  history.
* `SettlementImport`: an officer is one call; the matcher keeps its legs to do,
  the lines it claimed in this run and its pick between read and write.
* `PosShift`: a request carries what of the loaded shift it will rely on; the
  kernel's verbs check only the state they find. A drawer holds units of cash,
  and its cash row is there from the opening: a cash-out from a shift without one,
  which skips the check of the balance (`shift.handlers.ts:351-353`), is left out.
* `PeriodClose`: a press carries the session and index it loaded through the
  handler and the two updates of `markStepResult`. `moves` and `passed` are
  history. What a gate counts is "some is left open", which `WorkChanges` turns
  on and off. `validate_open_pos_shifts` is no gate in the model: it counts a
  collection `shifts` (`period-close.service.ts:234`), while shifts are stored in
  `pos_shifts` (`pos/shift.constants.ts:115`), so that it always finds none.

They share no state in the code either, so `MCBackOffice` runs one of them at
a time: `desk` picks it, and the others rest in their initial states.

## 3. Runs

| Run | Instance | Result |
|---|---|---|
| `Placement` | 2 calls x 2 lines, one key, stock 2 and 1, a promo code each with 2 uses | passes, 0.9 M states |
| `PlacementLive` | 2 calls x 1 line, one key, liveness | passes, 9 k states |
| `PlacementLeak` | 2 calls x 2 lines, no keys | **violated**: `NoLeakOnShortage` |
| `Refund` | charge 3, RMA of 1, button for 3, cancellation; gateway and stamp faults; 1 retry; liveness | passes, 440 k states |
| `RefundSecondRma` | two partial RMAs, no faults | **violated**: `ConfirmedChangesPaid` |
| `Outbox` | 2 replicas x 1 tick, 2 events, 1 fault, dead letter at 2 attempts | passes, 780 k states |
| `CronOverlap` | 2 ticks on one replica, 1 on another | **violated**: `OneSweepPerInstance` |
| `BackOffice` | 2 or 3 calls of each protocol, one protocol at a time | passes, 290 k states |
| `PeriodGates` | 2 presses, ladder of 3 steps, 1 session | **violated**: `SkipsAreDocumented` |
| `Fulfilment` | 2 lines; 2 fulfilments and no fault, or 1 and one fault; 2 inspectors | passes, 0.9 M states |
| `FulfilmentSkip` | 1 line, 1 fulfilment, no faults | **violated**: `SkippedMeansNoCost` |
| `FulfilmentRestock` | 1 line, 1 fulfilment, no faults | **violated**: `RestockedOnce` |

**Placement.** `SameKeySameOrder`: all 201s of one key name one order and one
of them is no replay. `EffectsOncePerKey`: vouchers and transactions are
consumed only by stored orders, once per key. `NoOrphanHold`: a hold that
counts has a running call, an order, or was knowingly left to the sweeper.
`OrderKeepsItsHolds`: no compensation releases an order's holds (an order whose
own insert was stored and reported as failed is excepted: the code compensates
it by design, and the retry with the key finds it). `ImplementsContract`: the
refinement; a call's answer and the set of orders change only as
`PlacementContract` allows. Two calls are enough: every race is about one
winner and one loser of a key, or one taker and one loser of the last unit,
and a third call can only repeat the part of the loser; two lines are needed
for partial reservations and partial releases; the unequal stock makes both
the shortage and the duplicate happen. The calls are interchangeable, so the
run uses their permutations as symmetry; the liveness run does not.

**PlacementLive.** `CallsEnd` (the compensation after a duplicate-key error is
not a loop) and `HoldsComeBack`. Fairness: weak fairness of each call's next
step (the event loop resumes every settled await, and every kernel call
settles), of each TTL (time passes), of the sweep (the cron job is started at
boot, and each tick retries what the last one missed). The sweep visits the
organizations its process has bootstrapped (`cron/index.ts:83`), that is, those it
has served since it started: a hold of an organization that nobody comes back to
after a restart waits longer than the fairness says.

**PlacementLeak.** The docstring of `reserveOrderStock` (154-155) says lines
already reserved are released before the error propagates; the `catch` below
it (192-204) says, and does, the opposite.

**Refund.** `ShownNeverOverstates`: the projection, written from snapshots,
may lag but never exceeds what the gateway paid. `PaidOncePerStamp`: a job is
paid again only if one of its stamps was lost; retries after an ambiguous
gateway failure do not pay again. `CanceledIsPaidBack`: a finished cancel job
paid the order back, unless another refund was given (then the gateway limit
refuses the full amount, and the code takes that for terminal). Amounts 1, 2
and 3 of a charge of 3 distinguish a partial refund, two partials that add up,
and a refund over the limit. One retry is enough to run a handler a second
time on what its first run left behind. `ClosedMeansPaidBack`: a refund
flow closes the order as refunded only when all of it is back. `JobsEnd` holds
under weak fairness of each job (the bus delivers and timers fire as long as
the process lives).

**RefundSecondRma.** `refundedAt` is set by a partial refund as well, and
refuses the next partial RMA before the gateway is asked; the change is
stamped processed with nothing paid, although the service calls several
partial RMAs on one capture common.

**Outbox.** `AloneUnlessOverrun` (replicas), `OncePerLease`, `SettledHonestly`,
`SettledForGood` (an action property: a late `fail` never re-opens an event)
and `EventsSettle`. `MaxFaults` bounds what the environment may spend on
deaths, overrun leases and answers lost with mongo; leases of dead relays run
out for free. `DeadAfter` is 5 in the code and 2 here, which still has one
retry before the dead letter. Two events make batches, and the order of claims,
non-trivial. `SettledHonestly` asks the document for its attempts although the
policy never saw them. `EventsSettle` says that from some time on no event is
pending, which with `SettledForGood` is that every stored event settles. Fairness:
timers fire, runs go on, leases and back-offs end.

**CronOverlap.** The guard reads `running` before the lock is awaited and sets
it after; two callbacks that wait for a slow lock both get it.

**BackOffice.** `LadderWalked`: a session that was never moved twice on one
step walked its ladder, and is completed exactly at its end. `ApprovedByQuorum`:
lost and overwritten decisions never add up to a consent nobody gave; the one way
around is an order that had no chain when its approval was asked for.
`NoCycleForFree`: every date, billed or next to bill, comes one interval after a
billed one unless the creation, a resume or an admin set it, and bills are never
closer than an interval, however sweeps overlap, die and write old dates back. The
exception is real: a resume that moves the date while a sweep is at the old one
(or an admin who sets it) can have two bills closer than an interval. `BooksAgree`: a posted or reconciled statement has its entry, and
only overlapping posts and cancels, or a posting that was cut off, make status
and ledger disagree. `LinesPinnedOnce`: matcher runs one after another, failing
anywhere, pin no line twice; next to another run, or a manual pin, they can.
`FourEyes` and `DrawerCovered`: what the shift handlers check holds at the time
of the write, unless the shift changed its state, or was paid out of, in
between. `TransferredOnce` and `ClearedOnce` are refinements of `EffectOnce`.
The exceptions (`raced`, `behind`, `unseen`, `blind`, ...) are part of what the run
shows: they name exactly the overlaps the code does not guard against, and
nothing else breaks the property. Two calls make every overlap, three make one
late for two others; two lines make "once" distinct from "some"; two approvers
share a step that asks for one of them at first and for both when the order is
submitted again, and a third has a step alone; of three legs two fit one line only, so a run that follows a failed
one could pin it twice, and one leg fits two lines; finance pins at most once by
hand; four days with an interval of two let a date be written back a cycle and
a resume land within one, and one date is set otherwise than by a sweep. The
ladder has a gate, the closing step and a last one. A session that is aborted is
still worked on by presses that loaded it, so one session is enough for the
index; two sessions with a ladder of two steps pass as well, beyond the
time a routine run should take.

**PeriodGates.** Both increments of two presses on one step apply, so the step
after it is passed over.

**Fulfilment.** `HoldUntilGone`: a hold that neither expired nor was released by
a cancel or refund ends only after goods of its line left.
`NoReversalWithoutShipment`: whoever closes the order meanwhile and whichever
handler runs late, a cost is reversed only if a shipment went out, the status
was set by hand (a verb the action endpoint does not know is taken for a
status), or by an inspection, which does not look at the order.
`GoodsMovedOnce`: the refinement of `EffectOnce` for every shipment, the return,
the restock and the inspection. `MCInit` splits the instance: both fulfilments
without faults, or one of them withdrawn and one fault, since a fault concerns
one handler and needs no second shipment; a return is inspected only where a
fulfilment was withdrawn, since an inspection looks at the change alone. Two lines make partial shipments,
returns and holds; two inspectors overlap.

**FulfilmentSkip, FulfilmentRestock.** See the findings in `PROJECT.json`: the
RMA's ledger handler takes an order shipped by route or webhook for one that
never shipped; the guard of the restock handler recognises only the RMA's own
wording of the reason.

The back-office and fulfilment protocols have no liveness worth stating: their
calls end with their request, and what is retried at all may be lost with the
process.

Deadlock is checked in the two outbox runs, where some replica's timer always
goes on firing; the others come to rest when every call and job has ended (or the
bounds are used up), so there it is not.

## 4. Proofs

Each proof module proves, for every value of the constants that satisfies the
named assumptions (`FlowConstants`, `PlacementConstants`, `RefundConstants`,
`CronConstants`, `OutboxConstants`, `FulfilmentConstants`, `PeriodConstants`,
`RequestConstants`, `ApprovalConstants`, `BillingConstants`,
`SettlementConstants`, `TellerConstants`, `ShiftConstants`), the safety
properties of its runs.

* **OrderPlacement.** None of the properties is inductive alone. `IInv` adds
  what is true of a call at each place: `ProgressInv` (when it has an order, a
  fate, a winner; a call that is committing or charging has got its own order),
  `HoldsMatchPlace` (exactly the lines before `nextLine` are reserved; after
  the release whatever still counts was left to the TTL), `OneOrderPerKey` (the
  unique index) and `RepliesNameOrders`. One lemma per action shows that it
  keeps `IInv`; the five safety theorems follow.
  `PlacementImplementsContract` shows that the initial states map to initial
  states and every step to a step of the contract or a stutter, `orders` and
  `reply` being mapped to themselves. `CallsRunDown` ranks a call by the awaits
  it has left (`AwaitsLeft`): no step makes any call's rank larger, and a step of
  the call makes it smaller, so the compensation of a duplicate key cannot go round
  in a circle; that is the safety half of `CallsEnd`, the rest is fairness.
  `PlacementIsFinal` says that orders, discounts, payments, redemptions and
  answers are never undone. `RefusalsAreClean` is what is left of the violated
  `NoLeakOnShortage`: a refused call leaves holds behind, but no order, payment or
  voucher. `HoldsOnlyMoveOn` is the safety half of `HoldsComeBack`: a
  reservation never goes back a step and settles once (it does not say by whom:
  a duplicate call that compensates twice may release what it had left to the
  sweeper). `LimitsHold` proves that reservations never exceed the stock.
  Reserved quantities are a sum over a set of any size: the lemmas before it
  (`SumsExist` to `TotalGrows`) show, by the least set size at which they would
  fail, that the community modules' fold is a sum, and that a hold adds what it
  reserves to it.
* **RefundFlow.** `StaleButCovered`: a snapshot, however old, shows no more than
  was paid, and once a job was paid for, its stale total plus its own amount is
  covered. That makes the projection and the decision to close the order safe.
  `OnlyTheCancel` follows the money while nobody but the cancellation was paid
  for; `PaidByStamps` bounds payments of a job that may still ask the gateway
  by the stamps it lost, which is what `PaidOncePerStamp` needs. `JobsRunDown`
  ranks a job by its steps and retries left (the safety half of `JobsEnd`);
  `UnpaidChangesHaveCause` is what is left of the violated `ConfirmedChangesPaid`: an
  unpaid change met a failing gateway, or money that went back for another job,
  which `Causes` finds behind every snapshot and every refusal.
* **OutboxRelay.** `LeaseBehind`: a tick that runs within its lease has its
  replica in the lock document, so `AloneUnlessOverrun`. `Tokens`: an event that
  may be claimed (`Free`) is a token, and so is each run that claimed it and has
  neither published it nor put it back (`Pend`); claiming moves the token,
  publishing spends it, and only a lease that runs out makes a new one, so
  `published + |Pend| <= lapses + (0 if Free, else 1)`. `Consistent` ties the
  documents to the batches (a settled event has no lease, a run that is about
  to acknowledge has published). `OncePerLease` and `SettledHonestly` follow;
  `SettledForGood` is proved from the same invariant, step by step.
  `RetriesBounded`: once a process gave an event up, a further refusal takes a
  claim, and a claim takes a token that only a lapsed lease hands out again (the
  second half of `Tokens`, with `Over` counting the refusals beyond the limit), so a
  process is refused an event at most `DeadAfter` times plus once per lapsed lease.
  The bound is each process's own, since the policy sees no other count. `Tried`
  ties that count to the document: a refusal a process counted is a claim the
  document counted, so whatever is dead-lettered has `attempts` to show for it
  (`SettledHonestly`). `StepKeepsTried` counts the runs that claimed and have not
  heard yet (`Open`).
* **OrderFulfilment.** `Pipeline` ties each shipment to its stock job (only shipped
  ones have one) and its moves (until the job is past its move, every move is one
  whose answer was lost);
  `Returns` and `Inspections` say the same of the RMA, the restock and the
  inspection, whose excuses bound the moves while a stamp is still missing;
  `Reasons` says what must have happened before any queued or running ledger job
  may reverse a cost. `GoodsSafe` states types, holds and reversals; `GoodsOnce`
  shows that every step is a step of `EffectOnce` or a stutter.
  `FulfilmentStands` lists what no step takes back (goods on their way, ended
  holds, closed orders, decided changes, stamps, costs) and holds what is left of the
  violated `RestockedOnce`: an order that closed without a restock, as one an RMA
  paid back does, is never restocked. `ComesBackAfterLeaving` follows each returned good
  to the shipment it left with (`Trail`: no stamp without a move, no job without a
  decision, no change without covered lines); the one exception is the status
  that is forced by hand.
* **EffectOnce_proof.** `OneAhead`: the transfers created and those about to be
  created exceed the noticed faults by one at most, and not at all when nobody is
  at it and the request shows none. `Accounted` does the same for the clearings
  that are posted, published or decided.
* **BackOffice_proof.** `Truthful` (an approval in any copy of a chain was given
  to the submission the copy belongs to, and a copy that says approved has its
  quorums), `InTurn` (every date a sweep loaded or stored follows a billed one or
  was set on purpose, and is due before it is billed), `Uncrossed` (as long as
  nothing crossed, the bills, the date and every sweep's date belong to one count
  from one anchor, in steps of an interval, and the bills are an interval apart),
  `OneClerk` (unless a race was noticed, one call
  at a time changes the statement's status, on a status that still allows it) and
  `OneRun` (unless a race was noticed, one matcher pins at a time, and what it is about
  to pin nobody has pinned). `BilledInTurn` adds that no bill is taken
  back and that a step that bills takes a date that is due. The lemma
  `DesksAreIndependent` says that the composition implements each of the seven
  protocols (it runs one and leaves the others alone, so this is by construction
  and claims nothing of the code); by it `BackOfficeSafe`,
  `BackOfficeEffectsOnce` and `BackOfficeStands` carry all their theorems over to
  the specification that is model-checked, its type invariant included.
* **PosShift.** `CallKnows`: what a request checked and no other step can have
  undone. A strict shift stays strict, a counter stays once counted.
  `ClosedShiftsStand`: one active shift at a time, and a closed one is final.
* **PeriodClose.** `InStep`: until two presses moved past the same step, a
  session's index is one more than the number of steps moved past; `Carried`: no press
  carries a larger index than its session's, so the blind increment is the right
  one. `SessionsStand`: one session in progress at a time, and none falls back.

Every invariant, action property and refinement of the passing runs is stated by a
theorem. Not proved, only model-checked: liveness (`CallsEnd`, `HoldsComeBack`,
`JobsEnd`, `EventsSettle`), since TLAPS does not reason about fairness and
`ENABLED` here; for `CallsEnd` and `JobsEnd` the run-down theorems leave only
that a call or job with steps left takes one. The six violated claims are
counterexamples. The theorems that state no property of a run (`CallsRunDown`,
`LimitsHold`, `FulfilmentStands` and the like) were checked with TLC on the
instances of the runs before they were proved.

## 5. Not modelled

Kernel packages (except as above); prices, tax and promo arithmetic; access
control; read-only endpoints. Most of the repository is CRUD resources, schemas,
permissions, reports and adapters around packages: the protocols the repository
itself writes are a small part of its lines, so the modules cover a small share
of them. A crash takes one call or one replica at a time; MongoDB itself is
linearizable per document, and the standalone writes of the code are not
transactions. `onHand` does not change in `OrderPlacement`: placement only
reserves. Quantities are single units in `OrderFulfilment` and drawers hold
units in `PosShift`. The order of sequential approval steps, split payments, kit
expansion and the figures of journal entries are left out. `PROJECT.json` gives
the reason for each component that is left out.

## 6. Plan

1. The sale of the till (`pos.controller.ts`): order, stock movement and promo
   commit of one request, composed with `PosShift`; a retried sale commits its
   promo twice.
2. Manual fulfilment: the wiki says COGS posts on `delivered`
   (`wiki/order/fulfillment-ship.md:21`), the handlers listen for `shipped` only.
   `OrderFulfilment` has the behaviour; a run would state the claim.
3. Exchange replacement and restocking fee of a change, next to `RefundFlow`.
4. The budget plugin and the remaining posting handlers, over one model of the
   ledger's idempotency keys.
5. The workflow engine's claim of a step, as `subscription.workflows.ts` relies on
   it, composed with `SubscriptionBilling`: the overlap of sweeps is now assumed.
