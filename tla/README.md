# inventory-manager: TLA+ models and proofs

inventory-manager is a multi-tenant inventory and order system: a TypeScript
API over PostgreSQL, where every stock mutation is one database transaction.
This directory models the parts of it that decide whether stock is promised
twice, lost, shipped twice or valued wrongly: sales-order reservations and
shipments, the transaction shell that all inventory mutations run in, the
event log and its consumer, the inbound flow from receipt to closeout, and
manufacturing. TLC checks the models on small instances; TLAPS proves every
safety property that the passing runs check for every instance.

Paths below are relative to `src/src/` unless they start with `docs/` or
`tests/`; `orderToCash` stands for `services/orderToCash.service.ts`.

## The system

| Part | State | Operations that change it | What is hard about it |
|---|---|---|---|
| Reservations (`orderToCash` 753-1605) | `inventory_reservations`, `inventory_backorders` | create, allocate, cancel, fulfill, expire | two columns of `inventory_balance` must follow five statuses |
| Shipments (`orderToCash` 1733-2684) | `sales_order_shipments` and lines | create (with auto-allocation), post | many lines, one transaction; decisions on rows read before the first line |
| Balance projection (`modules/availability/infrastructure/inventoryBalance.projector.ts`) | `inventory_balance` | apply a delta under guards | its guards are the last defence against negative stock |
| Adjustments (`services/adjustments/posting.service.ts`) | movements, balance | post | negative-stock override |
| Command shell (`modules/platform/application/runInventoryCommand.ts`, `db.ts`) | one transaction | claim, lock, execute, project, finalize, commit, retry | snapshots older than locks, retries, deadlocks |
| Idempotency (`lib/transactionalIdempotency.ts`) | `idempotency_keys` | claim, finalize, (prune) | repeated requests, lost answers |
| ATP locks (`domains/inventory/internal/atpLocks.ts`) | advisory locks | acquire, sorted | lock order against row locks |
| Inventory events and outbox (`modules/platform/infrastructure/inventoryEvents.ts`, `outbox/`, `queue/workers.ts`) | event log, consumer cursor, cost summary | append, process a batch, project | commit order differs from sequence order; several workers |
| Inbound (`services/receipts`, `qc`, `holdDisposition`, `putaways`, `closeout`, `purchaseOrders`) | receipts, allocations, QC events, putaways, order status | receive, void, decide, dispose, put away, close | four records of the same units; READ COMMITTED, no retries |
| Cost layers (`services/costLayers.service.ts`, `transferCosting.service.ts`) | FIFO layers | create, consume, relocate, reverse | units are interchangeable, layers are not |
| Work orders (`services/workOrders`, `workOrder*`, `inventoryReservation`, `wipAccountingEngine`) | orders, component reservations, executions, WIP | ready, issue, complete, batch, scrap, void, close, cancel | share balances; transitions run unlocked beside postings |
| Transfers, license plates, counts, returns, inventory units | movements, units | post, void, move, count, rebuild | multi-row documents |
| ATP cache, legacy idempotency, jobs | in-process and table state | set, invalidate, begin, complete, prune | stale entries, ageing keys |
| Payables, planning, BOMs, metrics, reports, imports, users | documents | CRUD and reads | little concurrent state |

`PROJECT.json` lists every part with its status, and the hazards of the code
at the line where each bites.

How they interact: a route builds a request and calls a service; the service
calls `runInventoryCommand`, which opens a transaction through
`withTransactionRetry`, claims the idempotency key, calls the service's
`lockTargets`, takes the ATP locks, calls `execute` (row updates, movements),
applies the balance operations that `execute` returned, appends events,
finalizes the key and commits. Workers read the events in the order of
`event_seq` and project them. Some steps run outside this shell: the check of
a new putaway, the status refresh after a receipt's void, and the status
transitions of work orders. The models interleave exactly these.

## Modules

| Module | Models |
|---|---|
| `Reservations` | reservations, shipments, adjustments, ledger and balance, at the level of transactions with one step per line |
| `InventoryCommand` | the command shell with its locks, snapshots, retries and idempotency keys |
| `OnceOnly` | the abstract promise of the shell; `InventoryCommand` implements it |
| `InventoryEvents` | postings that append events, and the workers that consume them |
| `Inbound` | receipts, QC, holds, putaways, voids, closeouts and the purchase order they belong to |
| `Production` | work orders: reservation, issue, completion, batch, scrap, void, status transitions |
| `MC...` | instances for TLC |
| `ReservationsSafety`, `ReservationsCommitments` | theorems about `Reservations` |
| `InventoryCommandProofs`, `InventoryEventsProofs`, `ProductionProofs` | theorems about these three |
| `InboundSafety`, `InboundStock` | theorems about `Inbound` |
| `Sums` | lemmas about sums over finite sets and sequences that the proofs about totals use |

The models divide the work. `InventoryCommand` has concurrent transactions
and abstract handlers, and shows that a call is atomic, takes effect at most
once per key and overwrites nobody's update. `Reservations` takes
SERIALIZABLE isolation as given (PostgreSQL provides it and
`buildAtpRetryOptions` and the adjustment service ask for it), so its
transactions run one after another, and spends its states on what they do.
`Inbound` and `Production` do the same for the handlers that are atomic, and
split those that are not. The models are not composed formally.

Definitions commented "Seeded fault" are deliberately wrong variants of the
definition after them. No specification uses them; substituting one for the
real definition must violate a property, which shows that the property
depends on that code.

### Reservations

* `db` is the committed database, `view` what the running transaction sees,
  `tx` the transaction. A handler with several lines takes one step per line
  on `view`; `Commit` installs it and `Abort` (a thrown error, a serialization
  failure, a crash) drops it. A handler that touches one reservation is one
  step.
* A *slot* is what the unique index of `inventory_reservations` identifies;
  its row has a status (`NONE` for no row), the reserved and fulfilled
  quantities, and how `expires_at` stands to the clock. A *Key* is an
  `inventory_balance` row. The ledger of a Key is the total of its posted
  movement lines by movement type.
* `DeltaOK` and `ApplyDelta` are `applyInventoryBalanceProjectionDelta`: the
  guards that throw, and the update.
* `Available` is `inventory_available_location_v`: on-hand from the ledger
  less the open quantity of RESERVED and ALLOCATED rows. It never reads
  `inventory_balance`, which is why keeping the two in step matters.
* A handler's decisions use the rows it read, as in the code: auto-allocation
  and posting decide on `db` and update `view`.
* Quantities are whole numbers in canonical units; the code's 1e-6 tolerance
  is exact comparison. Tenant and warehouse are fixed.

### InventoryCommand

* A handler is three sequences: the rows `lockTargets` locks, the ATP targets
  it returns, and the rows `execute` and the balance operations lock. `Plan`
  is the order in which the locks are taken, with the ATP targets deduplicated
  and sorted. A transaction holds the prefix of its plan that it has walked.
* `rows[r]` counts committed writes; a commit stores what the transaction saw
  plus one, so a lost update makes the count too small.
* `snapshot` is taken at the first statement, the claim, before any lock is
  waited for. A SERIALIZABLE transaction that locks a row changed since gets
  40001 (`Stale`); it may also get 40001 at any other statement.
* PostgreSQL's locks, snapshots, 40001 and 40P01 are external, modelled from
  how `db.ts` and `transactionalIdempotency.ts` use them.
* `Fail` covers handler errors, lock timeouts (`lock_timeout` is not a retried
  error), lost connections and crashes; `Commit` may answer "error" when the
  connection is lost after the commit.
* A committed key has always been finalized, because claim and finalize are in
  one transaction, so the branch that reports a request in progress is not
  reached. A concurrent repetition waits on the INSERT instead.

### InventoryEvents

* A posting draws its `event_seq` from a sequence when it inserts the event
  (`Execute`) and becomes visible at its commit, so postings overtake each
  other. Between the two it reads the item's valuation and writes the cost
  summary, in two statements, with the row lock on `items` from the write on.
* A worker locks the cursor row, takes the lowest visible event above the
  cursor, projects it, moves the cursor and commits (`Fetch`, `Project`,
  `WriteInProjection`, `CommitEvent`). `FailEvent` is the handler throwing,
  `CrashWorker` the connection lost. Several workers are real: the job's
  concurrency, several instances, and `POST /admin/outbox/process`.
* The cost summary is abstracted to the set of movements whose layers it
  accounts for; an event's `Kind` is what the projector makes of it.

### Inbound

* The code keeps four records of the same units: balances, cost layers,
  receipt allocations and the QC and disposition events. The model keeps all
  four and every handler updates each as its statements do.
* A handler under the receipt-line row lock (`receiptAllocationModel` 737-745)
  and the item's ATP lock is one action. `CheckPutaway` and `InsertPutaway`
  are two, because `createPutaway` checks outside its transaction; the void's
  `updatePoStatusFromReceipts` is four, because it runs after the commit, one
  statement after another.
* Layers are consumed oldest first (`OldestFirst`), whichever receipt the
  units are said to come from.
* A closeout brings a *sheet* of physical counts (`CountSheets`): for each
  location no count, a count of one allocation status, or a count without a
  status, which is compared with everything allocated there and settled as
  AVAILABLE (`services/closeout.service.ts:333`). Each difference is resolved by
  an adjustment; `adjusted` and `counted` record what the counts changed, by
  status and by location, which differ when a count names a status that is kept
  elsewhere. A resolution by approval and a difference within the tolerance
  change nothing, and are a sheet without that count.
* An accept leaves its units in QA, units and allocations alike; the putaway
  moves them (finding 7).
* One order line, one item, one line per receipt and putaway; quantities whole.

### Production

* Postings run SERIALIZABLE in the command shell and are single actions, each
  with its reservation, balance, layers, WIP records and status. Status
  transitions read the order before a READ COMMITTED transaction without
  advisory locks, so a transition is a call in four steps (`CheckTransition`,
  `BeginTransition`, `MeasureBalance`, `FinishTransition`) that anything may
  run between, or fail. `BeginTransition` is one step for several statements,
  during which the reservation row is locked: a commit of another transaction
  between them is in the model a commit before them. The step that reads the
  balance, where such a commit matters, is separate.
* A layer is a run of units, oldest first; `qa` remembers the execution that
  made each unit, which the code's FIFO does not look at.
* The work order is made one for one from one component
  (`services/manufacturingInvariant.service.ts` 78-195 scales the rest). The
  units of an execution cost its average, rounded (`Spread`); the run has
  averages that are whole and averages that are not. A void returns the
  components at that rounded average and charges WIP with as much
  (`services/workOrderVoidProduction.workflow.ts` 678-681, 826-861), so it adds
  nothing to what the execution lost or gained by the rounding.
* A void changes neither the order's quantities and status nor the
  execution's status, as in the code; it is found by its movements.

## Runs

| Run | Question | Result |
|---|---|---|
| `onekey` | two sales order lines compete for three units of one balance row | holds |
| `twokeys` | documents over two balance rows that may fail on a later line, override granted, and the expiry of due reservations | holds, the last under fairness |
| `command` | a post against the cancel of its reservation, beside a request sent twice and a reused key | once only, no update lost, deadlocks only through an unguarded row, all calls return |
| `events` | two workers, overtaking postings, failures and a crash | holds |
| `inbound` | all inbound operations on two receipts and two putaways | holds |
| `production` | all work-order operations on two orders with one component | holds |
| `partial_shipment` | do the two columns follow the statuses? | no (finding 1) |
| `repeated_line` | two shipment lines for one sales order line | commitments drift (finding 2) |
| `prefulfilled` | a reservation created part-fulfilled | commitments drift (finding 3) |
| `late_commit` | is the cost summary rebuilt after every movement event? | no (finding 4) |
| `qc_fanout` | does a fully decided receipt leave QC? | no (finding 5) |
| `production_void` | do the balance's commitments survive a void? | no (finding 6) |

### Properties

* `LedgerProjected`: the balance's on-hand is the ledger's.
* `BalanceSound`: commitment columns are non-negative and covered by stock.
* `CommitmentsProjected`: reserved + allocated is the open quantity of live
  reservations.
* `NeverOversold`: canonical availability is never negative, even with the
  negative override (the projector's guard refuses what the override let pass).
* `ReservedCovered`: the reserved column covers all RESERVED rows, so expiring
  or cancelling one cannot fail. This is what survives finding 1.
* `ShipmentsIssuedOnce`: stock is issued for all lines of a posted shipment,
  once, and for no other shipment.
* `ReservationLifecycle`: finished reservations never change; live ones only
  move forward.
* `DueReservationsRelease`: a due reservation does not stay RESERVED.
* `NoLostUpdate`, `ImplementsOnceOnly`, `EveryCallEnds`: a call takes effect at
  most once per key, overwrites nobody's committed write, and returns.
* `CyclesNeedUnguardedRow`: in every circle of waiting calls, one waits for a
  row of another that no ATP lock of both guards. Such a row is one that the
  holder locked in `lockTargets`, before its ATP locks, or any row when the two
  calls have no ATP target in common: the key is tenant, warehouse and item
  (`atpLocks.ts` 113-126), while the summaries write the `items` row
  (`itemCostSummary.projector.ts:101`), which warehouses share. The four calls
  of the run share an ATP target, so it meets the first kind only; the theorem
  covers both. `cancelReservation` locks early
  (`orderToCash:1239`) and `postShipment` does not (`orderToCash:2302`), so the
  two can deadlock; the run contains that cycle, and `EveryCallEnds` shows that
  both calls return all the same. The test
  `tests/ops/reservation-lifecycle-concurrency.test.mjs:444` is titled "cancel
  vs shipment post race does not deadlock" and cannot see a deadlock that
  PostgreSQL breaks and the shell retries.
* `CostedOnce`, `HandledInOrder`, `OnlyOvertakenSkipped`: a movement gets its
  cost layers once, events are handled in order and none twice, and the only
  events passed over are those that committed too late.
* `SummaryRepaired`: two transactions may write the summary in the wrong order,
  but the projection of the later event repairs it.
* `EventsHandled`: every visible event is handled, unless it was overtaken or
  stands behind one the projector refuses.
* `AllocationsMatchEvents`, `LayersMatchStock`, `ReceiptCostConserved`: the four
  records of the inbound units agree. A physical count touches no layer, which
  `LayersMatchStock` makes explicit, location by location.
* `QcCompletedMeansDecided`, `PutawayWithinAccepted`, `ClosedReceiptSettled`:
  a receipt leaves QC only when decided, drafts planned against the same units
  cannot all be posted, and closeout is final.
* `DecidedByOneEventEvaluated`: a receipt decided by a single QC event, with
  its hold resolved by however many dispositions, has left QC. It is what
  finding 5 leaves of the promise: a receipt stuck in QC has had two events.
* `TerminalOrderNotReopened`: the late refresh of a void does not reopen a
  closed or canceled order (`services/status/purchaseOrdersStatus.service.ts:77`).
  It holds only because voided receipts still count as received (51-54 filter
  a joined row that nothing reads); summing what the condition suggests is the
  seeded fault of this property.
* `ProductionValueConserved`, `OutputMatchesExecutions`,
  `FulfilmentMatchesConsumption`: cost, output and consumption are accounted
  for through every posting and void. Value is conserved up to the rounding of
  each execution's average, once per execution whether it is voided or not,
  which the property states exactly.
* `ReopenedOnlyByVoid`: "Reopen from `FULFILLED` is allowed only for
  compensating manufacturing restores"
  (`docs/architecture/inventory-kernel-architecture.md:69`).

### Findings

1. Posting a shipment for part of a RESERVED reservation moves only the
   shipped part from reserved to allocated (`orderToCash:2541`) and leaves the
   row ALLOCATED. The remainder stays in `reserved`, and a later cancel or
   fulfill takes it from `allocated`, where it is not. The sum stays right.
   `tests/ops/inventory-balance-invariants.test.mjs:173` says the columns equal
   the open commitments across the lifecycle.
2. `reserveConsume` (`orderToCash:2328`) is computed for all lines first, so
   two lines for one sales order line consume its reservation twice.
3. `createReservations` stores `quantityFulfilled` but adds the whole quantity
   to the balance (`orderToCash:1021`).
   The invariant job (`jobs/inventoryInvariants.job.ts:454-498`) counts the
   results of 2, 3 and 6 as mismatches.
4. A posting that commits after the cursor has passed its `event_seq` is never
   projected (`inventoryEvents.ts:163`), and the summary it raced with stays
   wrong; `outbox/projectors/inventoryMovement.projector.ts:199-200` says
   summaries must be rebuilt after movement events.
5. The received quantity of a receipt is summed after a join with its QC
   events (`services/qc.service.ts:974`), once per event. A line decided in two
   events does not count as decided, and the receipt stays QC_PENDING unless a
   hold disposition, which sums before its join, evaluates it once more;
   `docs/inventory/qc-lifecycle-spec.md:105-107` says it moves on.
6. The void of a batch sets the balance's commitments to those of its own work
   order (`services/inventoryReservation.service.ts:1252`,
   `services/workOrderVoidProduction.workflow.ts:868-915`) and so drops those
   of every other order on that item and location.
7. A QC accept moves nothing (`services/qc.service.ts:933-966`): the accepted
   units stay in QA, allocated as QA, until a putaway is posted.
   `docs/inventory/qc-lifecycle-spec.md:95` (and 101, 216) says "Receipt
   allocations updated: QA → AVAILABLE (accept) or QA → HOLD (hold/reject)",
   `docs/inventory/acceptance-checklist.md:99` that a transfer from QA to the
   accept location exists and the status is AVAILABLE, and
   `docs/inventory/inventory-command-contracts.md:314` (and 343) that the
   allocations move QA → AVAILABLE. `AllocationsMatchEvents` states what the
   code does, and holds in the run `inbound`; what the documents say holds only
   once the units are put away.

Two more observations come from the models and have no run of their own. A
void takes the oldest output in QA, so after two batches of different cost the
WIP records of an order need not equal its open issues, although total value
is conserved (`docs/architecture/inventory-kernel-architecture.md:66` asks for
symmetry). And `docs/inventory/work-order-inventory-contract.md:42-43` calls
closed and canceled orders immutable, while scrap of an earlier execution
writes their status again (`services/inventoryProjectionEngine.ts:409`).

### Bounds

* `MaxOnHand` bounds stock through adjustments: three units are enough for a
  whole, a partial and a refused request of size two to meet (six in
  `repeated_line`). Quantities are 1 to 3, so fulfil quantities above the open
  quantity occur.
* Two slots on one Key is the least that compete; the third slot of `twokeys`
  has its own Key, so a document can fail on its second Key. Each slot and each
  shipment id is used once, as in the code, which bounds everything else.
* `onekey` has two shipments, which the model does not tell apart
  (`ShipmentSymmetry`; no liveness is checked in that run).
* `command` has four calls with at most one retry each: a retry that succeeds,
  one that is exhausted, and calls without retries all occur. One call runs
  READ COMMITTED without retries, as putaways and receipts do. The run ends
  when all calls have returned, so TLC's deadlock check is off.
* `events`: four movements, one of each kind, and three event numbers
  (`MaxSeq`), so one event can be overtaken by two; one crash, since a second
  one finds the same states. Nothing is left to do at the end.
* `inbound`: an order for two units, two receipts and two putaways of at most
  two units (`MaxQty`), so that an over-receipt, a second receipt whose layers
  are consumed for the first, and competing drafts all occur. An order for
  three units was also explored once with one count per closeout (2.7 million
  states, no violation). The six count sheets (`MCCountSheets`) have no count,
  one count with a status and one without, and three pairs of counts: with and
  without a status, above and below what is expected, and of statuses that are
  kept elsewhere. At most one count per location; the proofs hold for every set
  of such sheets.
* `production`: two orders of two units over four component units of two
  costs, one transition call and two executions (`MaxExecutions`). Two calls
  (9.6 million states) and more document sizes (2.9 million) were explored
  once, without a violation. Orders and calls are symmetric.

### Fairness

* `twokeys`: the scheduler starts the expiry job every 15 minutes (`server.ts`
  288-293, `jobs/scheduler.ts`) and row locks last one transaction, so a run
  that sees all due rows starts infinitely often if it can (strong fairness). A
  run that has started proceeds, and eventually is not rolled back by
  PostgreSQL or a crash. A rejected balance operation is not excused: a
  guard that refused the release would violate the property. Other
  transactions end.
* `command`: a transaction that nothing blocks takes its next step, a retry
  begins after its sleep, and the deadlock detector runs. No fairness is
  assumed of `Fail` or `SerializationFailure`.
* `events`: the job repeats (`queue/workers.ts` 38-42), so some worker fetches
  when there is an event; an open transaction goes on to its end. None is
  assumed of new postings or crashes.

## Proofs

| Module | Theorem | Statement | Conditions |
|---|---|---|---|
| `ReservationsSafety` | `TypeCorrect` | `TypeOK` | constants' types |
| | `LedgerIsProjected`, `BalanceIsSound` | `LedgerProjected`, `BalanceSound` | none further |
| | `LifecycleIsForward` | `ReservationLifecycle` | none further |
| `ReservationsCommitments` | `CommitmentsAreProjected`, `ReservedIsCovered`, `StockIsNeverOversold` | `CommitmentsProjected`, `ReservedCovered`, `NeverOversold` | `DistinctLines`, `NothingPrefulfilled` |
| | `ShipmentsAreIssuedOnce` | `ShipmentsIssuedOnce` | none further |
| `InventoryCommandProofs` | `CommandTypeCorrect` | `TypeOK`: retries bounded, plans respected | constants' types |
| | `CommandIsOnceOnly` | `Spec => Once!Spec` | none further |
| | `CommandLosesNoUpdate` | `NoLostUpdate` | none further |
| | `DeadlocksNeedUnguardedRow` | `CyclesNeedUnguardedRow` | none further |
| `InventoryEventsProofs` | `CostsOnce`, `OrderKept`, `SkipsExplained` | `CostedOnce`, `HandledInOrder`, `OnlyOvertakenSkipped` | constants' types |
| | `SummaryIsRepaired` | `SummaryRepaired` | none further |
| `InboundSafety` | `TypeCorrect` | no quantity, allocation, layer or balance below zero | constants' types |
| | `AllocationsAgree`, `CostConserved`, `QcSound`, `OneEventSound`, `PutawaySound`, `CloseoutSound` | the inbound invariants, receipt by receipt | none further |
| `InboundStock` | `StockIsLayered` | `LayersMatchStock` | none further |
| | `ClosedOrderStaysClosed` | `TerminalOrderNotReopened` | none further |
| `ProductionProofs` | `ValueIsConserved`, `OutputIsAccounted`, `FulfilmentIsConsumption` | `ProductionValueConserved`, `OutputMatchesExecutions`, `FulfilmentMatchesConsumption` | constants' types |
| | `VoidsAloneReopen` | `ReopenedOnlyByVoid` | none further |

They hold for any finite set of slots, shipments, calls, movements or work
orders, any Keys, workers, request bodies, lock plans, retry limits and
isolation levels, any number of receipts, putaways and units, and any costs.
The finite sets are rows of tables and requests in flight.

* `StockInv` (`ReservationsSafety`) is `TypeOK` with the ledger and guard
  facts on both `db` and `view`: a transaction that has done half its lines
  must be sound already, since its commit adds no further check. One lemma,
  `AcceptedDelta`, says what the projector's guards buy.
* `LifecycleInv` adds that each row of `view` is a legal successor of its row
  in `db` (several lines may move it), that fulfilled never exceeds reserved,
  and that the rows the expiry job has left are still RESERVED.
* `CommitmentsInv` (`ReservationsCommitments`) has `Projected` on `db` and
  `view`, and `FreshReads`: what a handler read before its first line is still
  true when a later line uses it. Findings 2 and 3 are exactly why it needs its
  two conditions: `DistinctLines` (no shipment names a slot twice) and
  `NothingPrefulfilled`. `Projected` is the sum and `ReservedCovered`, not each
  column, because of finding 1. `StockIsNeverOversold` combines it with
  `StockInv`.
* `KeyInv` (`InventoryCommandProofs`) says that a key has at most one
  transaction past its claim and that a committed key belongs to the one
  execution that took effect; it makes every step of `InventoryCommand` a step
  or a stutter of `OnceOnly`, under the mapping that `applied` is the calls
  whose execution has committed.
* `LockInv` says that no two transactions hold the same lock, and that a row a
  SERIALIZABLE transaction holds is as its snapshot has it. The ATP lock plays
  no part: the snapshot is older than it, and the row conflict is what
  prevents the lost update.
* `DeadlocksNeedUnguardedRow` needs no further invariant; its argument is about
  one state. Suppose a circle of waiting calls meets no unguarded row. Who is
  waited for by a call past its claim holds a lock that is not one of its first
  rows (`WaitedForIsAhead`), so it is past them. It cannot want a later row,
  since the holder of that row also holds the ATP locks they have in common
  (`AheadWantsAtp`). So it wants an ATP lock, and as those are taken in
  ascending order the call that holds it wants a larger one (`WantedGrows`,
  from `AtpLocksSorted`). A finite circle cannot rise for ever
  (`NoEndlessRise`).
* `IssueInv` (`ReservationsCommitments`) says that the issues of `db` are those
  of its posted documents, and those of `view` too, except while a posting
  runs: then `view` is ahead by the lines of its draft that are done
  (`HalfIssued`). The theorem needs neither of the conditions on commitments:
  a repeated line is issued as often as it is listed.
* The invariant of `InventoryEventsProofs` rests on the cursor row: a worker
  with an open event holds it, so there is one such worker and its event is
  above the committed cursor; numbers are drawn once; a movement without
  committed layers is the only one a worker may be about to cost; and every
  visible number at or below the cursor is handled or recorded as overtaken.
* `SummaryInv` adds that the summary is right unless a committed movement event
  is still unhandled, and that a worker about to write it has read every layer,
  its own included, unless such an event of another movement is left
  (`Current`). A posting that writes an older valuation leaves its own event
  behind, so the obligation passes from event to event until the last one.
* The invariant of `InboundSafety` adds to `TypeOK`, for each receipt, that its
  allocations are the sum of its events, that no more is decided than was
  received nor moved than was accepted, that its lifecycle state implies its
  decisions, that counts change nothing before closeout and that closeout left
  nothing in QA or on hold; and for the whole, that layers are conserved and
  that a checked or drafted putaway names a receipt that exists. The last is
  needed because the check is outside the transaction: what it found may be
  gone, and the proof shows that `PostPutaway` does not rely on it.
* `EvaluationInv` adds for `OneEventSound` that nothing of a receipt is decided
  without an event and that a posted receipt has units: the first event is then
  evaluated against the line counted once, and a disposition against the line.
* `Stocked` (`InboundStock`) is inductive with `TypeOK`: a transfer takes as
  much out of the layers as out of the stock whatever layers are the oldest, a
  void reverses a layer only when all of it is there, and a count is recorded.
  `CountsApplied` (`InboundSafety`) says what a sheet of counts does, whatever
  it names: integer changes that take no location and no status below zero and
  leave reworked and discarded units alone.
* `OrderInv` (`InboundStock`) relates the order, its line and the quantity
  received, and says what a refresh in progress knows (`RefreshKnows`): the
  line status it read is still the line's where it matters. That the received
  quantity never falls, because voided receipts count, is what carries it.
* `Accounted` (`ProductionProofs`) is the total value and the net output with
  `TypeOK`: every step moves value between layers, WIP, QA and output, and what
  an average loses or gains is `Rounding`.
* `Reserved` (`ProductionProofs`) is `Fulfils` with `RowLocks`: a transition
  that has locked a reservation writes what it computed from it, and the row
  has not changed since; a transition that found no row locks none, and the
  insert of a posting in between makes it fail or leave the row alone.
  `VoidsAloneReopen` follows from the same invariant.

The proofs about totals rest on `Sums`. The library defines a sum by recursion
over a set and its induction theorems take operators as parameters, which the
provers cannot instantiate. `Sums` avoids them: a family of subsets of a finite
set that is not empty has a minimal member (`MinimalSubset`), so a false
equation between sums would have a least counterexample, and there is none.
A leaf names its backend where one of them is much the faster (`Zenon`), and
asks for more time where a busy machine might need it (`SMTT(20)`).

Only model-checked: the three liveness properties (`DueReservationsRelease`,
`EveryCallEnds`, `EventsHandled`). They rest on fairness and so on ENABLED,
which is beyond this prover. Findings 1 to 6 are counterexamples of TLC.

## Not modelled

* Reservations and shipments: `reservation_events`, backorder quantities, FIFO
  costing of shipments and adjustments, the repair a replayed post may do,
  draft adjustments, the warehouse-level and sellable availability views.
* Command shell: lock-key hash collisions, the limit on ATP targets, pruning of
  old idempotency keys (`jobs/idempotencyRetention.job.ts`: a repetition after
  the retention period executes again).
* Events: aggregate versions, event hashes, the legacy outbox table and its
  retention, cache invalidation and best-effort publication.
* Inbound: unpriced receipts, discrepancies and lots, two counts at one
  location in one closeout, the rebuild of allocations, `closePurchaseOrder`
  of the closeout service (no route), `deleteReceipt` (no caller), the void of
  a transfer, QC of work orders, editing and approval of orders.
* Production: disassembly, several components, lots, the traceability
  transaction of a production report, overrides.
* Transfers as documents, license plates, returns, cycle counts and inventory
  units: their postings go through the shell that is modelled; the documents
  are not.
* The ATP cache: advisory, no handler decides on it. The repair jobs: what they
  compare is a property here, what they change is not.
* Payables, planning, BOMs, metrics, reports, imports and users: CRUD and reads
  with little concurrent state. Together with routes, schemas, migrations,
  seeds and the user interface they are most of the repository, so the models
  cover a small share of its lines: the handlers listed above and what they
  call.
