----------------------------- MODULE Production -----------------------------
(***************************************************************************)
(* Manufacturing: work orders of one output item, made one for one from    *)
(* one component that is kept in one location.  A work order reserves its  *)
(* component, issues it into work in progress (WIP), completes output into *)
(* QA - in two documents, or in one batch - and can scrap output, void a   *)
(* batch, be cancelled and be closed.                                      *)
(*                                                                         *)
(* Postings (issue, completion, batch, void, scrap) are SERIALIZABLE       *)
(* inventory commands and single steps.  The status transitions (ready,    *)
(* canceled, closed) read the work order before their transaction starts,  *)
(* and that transaction is READ COMMITTED and takes no advisory lock, so   *)
(* each is a call that other calls and postings interleave with.           *)
(*                                                                         *)
(* A cost layer is a run of units: layers are sequences of units, oldest   *)
(* first, each with its unit cost.                                         *)
(***************************************************************************)
EXTENDS Integers, Sequences, FiniteSets, FiniteSetsExt, Functions

CONSTANTS
    WorkOrders,
    Calls,          \* status transition requests, each made once
    Planned,        \* quantity_planned of every work order
    IssueForms,     \* the quantities issues are drafted with
    CompletionForms, \* and completions
    UnitCosts,      \* the component's cost layers at the start, oldest first
    MaxExecutions   \* bound on the executions that are ever posted

ASSUME ProductionAssumption ==
    /\ IsFiniteSet(WorkOrders)
    /\ Planned \in Nat \ {0}
    /\ IssueForms \subseteq Nat \ {0} /\ CompletionForms \subseteq Nat \ {0}
    /\ MaxExecutions \in Nat
    /\ UnitCosts \in Seq(Nat \ {0})

VARIABLES
    wo,          \* work_orders: [status, completed, scrapped]
    row,         \* the work order's row in inventory_reservations
    balance,     \* inventory_balance.reserved and .allocated of the component
    components,  \* the component's remaining layers; its length is on_hand
    issue,       \* the draft issue's quantity, 0 when there is none
    issued,      \* quantity of the posted issues
    completion,  \* the draft completion's quantity, 0 when there is none
    executions,  \* work_order_executions with status posted, and their voids
    openWip,     \* cost of the posted issues no execution has taken yet
    wip,         \* SUM(value_delta) of the order's WIP valuation records
    qa,          \* remaining production layers in QA: [execution, cost]
    left,        \* [units, value] of the output that has left QA
    call         \* the transitions in progress

orderVars == <<wo, issue, issued, completion>>
reservationVars == <<row, balance>>
costVars == <<components, executions, openWip, wip, qa, left>>
vars == <<orderVars, reservationVars, costVars, call>>

Quantities == 1..Planned
Statuses == {"draft", "ready", "in_progress", "partially_completed",
             "completed", "closed", "canceled"}
Terminal == {"completed", "closed", "canceled"}
Targets == {"ready", "closed", "canceled"}
Live == {"RESERVED", "ALLOCATED"}
NoRow == [status |-> "none", reserved |-> 0, fulfilled |-> 0]
Idle == [pc |-> "idle"]
Done == [pc |-> "done"]

Init ==
    /\ wo = [w \in WorkOrders |-> [status |-> "draft", completed |-> 0, scrapped |-> 0]]
    /\ row = [w \in WorkOrders |-> NoRow]
    /\ balance = [reserved |-> 0, allocated |-> 0]
    /\ components = UnitCosts
    /\ issue = [w \in WorkOrders |-> 0]
    /\ issued = [w \in WorkOrders |-> 0]
    /\ completion = [w \in WorkOrders |-> 0]
    /\ executions = << >>
    /\ openWip = [w \in WorkOrders |-> 0]
    /\ wip = [w \in WorkOrders |-> 0]
    /\ qa = << >>
    /\ left = [units |-> 0, value |-> 0]
    /\ call = [c \in Calls |-> Idle]

-----------------------------------------------------------------------------
(* First in, first out: the oldest n units of a sequence of layers, and    *)
(* the rest.                                                               *)

Oldest(layers, n) == SubSeq(layers, 1, n)

Rest(layers, n) == SubSeq(layers, n + 1, Len(layers))

Value(costs) == SumFunction(costs)

Costs(units) == [i \in DOMAIN units |-> units[i].cost]

(* n units that share a total cost: each costs the average, rounded to the *)
(* precision that costs are kept in.                                       *)
Spread(cost, n) == [i \in 1..n |-> (2 * cost + n) \div (2 * n)]

Remain(e) == Cardinality({i \in DOMAIN qa : qa[i].execution = e})

-----------------------------------------------------------------------------
(* inventory_reservations of work orders.  The database's trigger derives  *)
(* the status of a live row from its quantities.                           *)

Open(r) == IF r.status \in Live THEN r.reserved - r.fulfilled ELSE 0

DerivedStatus(reserved, fulfilled) ==
    IF fulfilled = 0 THEN "RESERVED"
    ELSE IF fulfilled = reserved THEN "FULFILLED" ELSE "ALLOCATED"

WithQuantities(reserved, fulfilled) ==
    [status |-> DerivedStatus(reserved, fulfilled),
     reserved |-> reserved, fulfilled |-> fulfilled]

TotalOpen(rows, statuses) ==
    SumFunction([w \in WorkOrders |->
                    IF rows[w].status \in statuses THEN Open(rows[w]) ELSE 0])

Available(rows) == Len(components) - TotalOpen(rows, Live)

RemainingQuantity(w) == Max({0, Planned - wo[w].completed - wo[w].scrapped})

(* Seeded fault: no trigger.                                               *)
TriggerAllowsAny(r, n) == TRUE

(* What the trigger lets syncWorkOrderReservations write when it needs n   *)
(* more units: a FULFILLED row cannot grow, a CANCELLED one not change.    *)
TriggerAllows(r, n) ==
    CASE r.status = "FULFILLED" -> n = 0
      [] r.status = "CANCELLED" -> \/ n = 0
                                   \/ r.fulfilled + n = r.reserved
      [] OTHER                  -> TRUE

(* ensureWorkOrderReservationsReady: succeeds only without a shortage.     *)
CanEnsure(r, n, available) ==
    /\ TriggerAllows(r, n)
    /\ n > 0 => available + (r.reserved - r.fulfilled) >= n

Ensured(r, n) ==
    IF r.status = "CANCELLED" THEN r
    ELSE CASE n > 0                      -> WithQuantities(r.fulfilled + n, r.fulfilled)
           [] n = 0 /\ r.status \in Live -> [r EXCEPT !.status = "CANCELLED"]
           [] OTHER                      -> r

(* consumeWorkOrderReservations                                            *)
CanConsume(r, n) == r.status \in Live /\ n <= Open(r)

Consumed(r, n) == WithQuantities(r.reserved, r.fulfilled + n)

(* Seeded fault: everything fulfilled is given back.                       *)
RestoredWhole(r, n) ==
    IF r.status = "CANCELLED" \/ r.fulfilled = 0 THEN r
    ELSE WithQuantities(r.reserved, 0)

(* restoreReservationsForVoid leaves a CANCELLED row alone.                *)
Restored(r, n) ==
    IF r.status = "CANCELLED" \/ r.fulfilled = 0 THEN r
    ELSE WithQuantities(r.reserved, r.fulfilled - Min({n, r.fulfilled}))

(* releaseWorkOrderReservations                                            *)
Released(r) == IF r.status \in Live THEN [r EXCEPT !.status = "CANCELLED"] ELSE r

(* syncReservationCommitmentProjection: what the balance should say of a   *)
(* set of rows.  The projector refuses commitments beyond the stock.       *)
Commitments(rows) ==
    [reserved |-> TotalOpen(rows, {"RESERVED"}), allocated |-> TotalOpen(rows, {"ALLOCATED"})]

Covered(b, onHand) == b.reserved + b.allocated <= onHand

Shifted(b, target, current) ==
    [reserved |-> b.reserved + target.reserved - current.reserved,
     allocated |-> b.allocated + target.allocated - current.allocated]

-----------------------------------------------------------------------------
(* Locks.  A call between Begin and Finish holds its reservation row, if   *)
(* there was one, and a closing call its work order.                       *)

InTransaction(c) == call[c].pc \in {"begun", "measured"}

RowFree(w) ==
    \A c \in Calls : InTransaction(c) /\ call[c].wo = w => call[c].before = NoRow

OrderFree(w) ==
    \A c \in Calls : InTransaction(c) /\ call[c].wo = w => call[c].next # "closed"

-----------------------------------------------------------------------------
(* transitionWorkOrderStatus.  assertWorkOrderStatusTransition decides on  *)
(* the status that was read before the transaction.                        *)

AllowedTransitions(from) ==
    CASE from \in {"draft", "ready"}       -> {"ready", "canceled"}
      [] from \in {"in_progress", "partially_completed"} -> {"canceled"}
      [] from \in {"completed", "closed"}  -> {"closed"}
      [] from = "canceled"                 -> {"canceled"}

CheckTransition(c, w, next) ==
    /\ call[c] = Idle
    /\ next \in AllowedTransitions(wo[w].status)
    /\ call' = [call EXCEPT ![c] = [pc |-> "checked", wo |-> w, next |-> next]]
    /\ UNCHANGED <<orderVars, reservationVars, costVars>>

(* closeWorkOrder: no draft documents, and the planned quantity processed. *)
CanClose(w) ==
    /\ OrderFree(w)
    /\ issue[w] = 0 /\ completion[w] = 0
    /\ wo[w].completed + wo[w].scrapped >= Planned
    /\ wip[w] >= 0

(* The transaction locks and rewrites the reservation row, if any, and     *)
(* sums the rows it can see: the committed ones and its own.  The code   *)
(* takes several statements for it; the row stays locked from the first    *)
(* on, and what commits between them is here one that commits before.      *)
BeginTransition(c) ==
    /\ call[c].pc = "checked"
    /\ RowFree(call[c].wo)
    /\ LET w == call[c].wo
           n == RemainingQuantity(w)
           readies == call[c].next = "ready"
           after == IF readies THEN Ensured(row[w], n) ELSE Released(row[w])
           syncs == IF readies THEN n > 0 \/ row[w] # NoRow ELSE row[w].status \in Live
       IN /\ readies => CanEnsure(row[w], n, Available(row))
          /\ call[c].next = "closed" => CanClose(w)
          /\ call' = [call EXCEPT ![c] =
                        [pc |-> "begun", wo |-> w, next |-> call[c].next,
                         before |-> row[w], after |-> after, syncs |-> syncs,
                         target |-> Commitments([row EXCEPT ![w] = after])]]
    /\ UNCHANGED <<orderVars, reservationVars, costVars>>

(* The balance is read in a statement of its own.                          *)
MeasureBalance(c) ==
    /\ call[c].pc = "begun"
    /\ call' = [call EXCEPT ![c] =
                  [pc |-> "measured", wo |-> @.wo, next |-> @.next,
                   before |-> @.before, after |-> @.after,
                   target |-> IF @.syncs THEN @.target ELSE balance,
                   current |-> balance]]
    /\ UNCHANGED <<orderVars, reservationVars, costVars>>

(* The difference is applied to the balance as it is by then, the status   *)
(* is written whatever it has become, and the transaction commits.         *)
FinishTransition(c) ==
    /\ call[c].pc = "measured"
    /\ LET w == call[c].wo
           next == Shifted(balance, call[c].target, call[c].current)
       IN /\ \A d \in Calls \ {c} :
                InTransaction(d) /\ call[d].wo = w => call[d].next # "closed"
          /\ call[c].before = NoRow /\ call[c].after # NoRow => row[w] = NoRow
          /\ next.reserved >= 0 /\ next.allocated >= 0
          /\ Covered(next, Len(components))
          /\ balance' = next
          /\ row' = IF call[c].after = call[c].before THEN row
                    ELSE [row EXCEPT ![w] = call[c].after]
          /\ wo' = [wo EXCEPT ![w].status = call[c].next]
    /\ call' = [call EXCEPT ![c] = Done]
    /\ UNCHANGED <<issue, issued, completion, costVars>>

(* An error - a shortage, the trigger, a lost race for the row - or a lost *)
(* connection rolls the call back.                                         *)
FailTransition(c) ==
    /\ call[c].pc \in {"checked", "begun", "measured"}
    /\ call' = [call EXCEPT ![c] = Done]
    /\ UNCHANGED <<orderVars, reservationVars, costVars>>

-----------------------------------------------------------------------------
(* Value in WIP.  Every posting that records some verifies the order's     *)
(* balance, its own records included, before it commits.                   *)

CreateWipValuation(w, delta) == wip' = [wip EXCEPT ![w] = @ + delta]

VerifyWipIntegrity(w) == wip'[w] >= 0

(* A completion takes the whole open WIP of the order.                     *)
AllocateWipCost(w) ==
    /\ openWip[w] > 0
    /\ openWip' = [openWip EXCEPT ![w] = 0]
    /\ CreateWipValuation(w, -openWip[w])
    /\ VerifyWipIntegrity(w)

(* A void moves the value of the output into WIP, that of the components   *)
(* out of it.                                                              *)
ReverseWipCost(w, output, component) ==
    /\ CreateWipValuation(w, output - component)
    /\ VerifyWipIntegrity(w)

-----------------------------------------------------------------------------
(* The work order's progress, as each posting's projection writes it.      *)

NextStatusAfterExecutionStart(status) ==
    IF status \in {"draft", "ready"} THEN "in_progress" ELSE status

NextStatusFromProgress(status, completed, scrapped) ==
    IF completed + scrapped >= Planned THEN "completed"
    ELSE IF completed > 0 THEN "partially_completed"
    ELSE IF status = "draft" THEN "ready" ELSE status

ProjectIssue(w, q) ==
    /\ issue' = [issue EXCEPT ![w] = 0]
    /\ issued' = [issued EXCEPT ![w] = @ + q]
    /\ wo' = [wo EXCEPT ![w].status = NextStatusAfterExecutionStart(@)]

Execution(w, q, cost, batch) ==
    [wo |-> w, quantity |-> q, cost |-> cost, batch |-> batch, voided |-> FALSE]

(* A completion's status does not count what was scrapped.                 *)
ProjectCompletion(w, q, cost) ==
    /\ executions' = Append(executions, Execution(w, q, cost, FALSE))
    /\ completion' = [completion EXCEPT ![w] = 0]
    /\ wo' = [wo EXCEPT ![w].completed = @ + q,
                        ![w].status = NextStatusFromProgress(@, wo[w].completed + q, 0)]

ProjectBatch(w, q, cost) ==
    /\ executions' = Append(executions, Execution(w, q, cost, TRUE))
    /\ wo' = [wo EXCEPT ![w].completed = @ + q,
                        ![w].status = NextStatusFromProgress(@, wo[w].completed + q,
                                                             wo[w].scrapped)]

ProjectScrap(w, q) ==
    LET scrapped == wo[w].scrapped + q
    IN  wo' = [wo EXCEPT ![w].scrapped = scrapped,
                         ![w].status = IF wo[w].completed + scrapped >= Planned
                                       THEN "completed" ELSE "partially_completed"]

-----------------------------------------------------------------------------
(* Postings.                                                               *)

CanPost(w) ==
    /\ wo[w].status \notin Terminal
    /\ RowFree(w) /\ OrderFree(w)

(* A posting of q units first ensures the order's reservation and, once    *)
(* the stock is validated, consumes q of it.                               *)
ReserveAndConsume(w, q) ==
    LET n == RemainingQuantity(w)
        ensured == [row EXCEPT ![w] = Ensured(@, n)]
        consumed == [ensured EXCEPT ![w] = Consumed(@, q)]
    IN /\ CanEnsure(row[w], n, Available(row))
       /\ Covered(Commitments(ensured), Len(components))
       /\ CanConsume(ensured[w], q)
       /\ q <= Len(components)
       /\ Covered(Commitments(consumed), Len(components) - q)
       /\ row' = consumed
       /\ balance' = Commitments(consumed)

CreateIssue(w, q) ==
    /\ wo[w].status \notin Terminal
    /\ issue[w] = 0
    /\ issue' = [issue EXCEPT ![w] = q]
    /\ UNCHANGED <<wo, issued, completion, reservationVars, costVars, call>>

(* postWorkOrderIssue validates the quantity against what is available     *)
(* after the order's own reservation.                                      *)
PostIssue(w) ==
    LET q == issue[w]
        cost == Value(Oldest(components, q))
    IN /\ issue[w] > 0
       /\ CanPost(w)
       /\ Available([row EXCEPT ![w] = Ensured(@, RemainingQuantity(w))]) >= q
       /\ ReserveAndConsume(w, q)
       /\ components' = Rest(components, q)
       /\ openWip' = [openWip EXCEPT ![w] = @ + cost]
       /\ CreateWipValuation(w, cost)
       /\ VerifyWipIntegrity(w)
       /\ ProjectIssue(w, q)
       /\ UNCHANGED <<completion, executions, qa, left, call>>

CreateCompletion(w, q) ==
    /\ wo[w].status \notin Terminal
    /\ completion[w] = 0
    /\ completion' = [completion EXCEPT ![w] = q]
    /\ UNCHANGED <<wo, issue, issued, reservationVars, costVars, call>>

(* The output layer of execution e.                                        *)
Produced(e, cost, q) == [i \in 1..q |-> [execution |-> e, cost |-> Spread(cost, q)[i]]]

(* postWorkOrderCompletion values its output at the whole open WIP.        *)
PostCompletion(w) ==
    LET q == completion[w]
        cost == openWip[w]
    IN /\ completion[w] > 0
       /\ wo[w].status \notin Terminal /\ OrderFree(w)
       /\ Len(executions) < MaxExecutions
       /\ AllocateWipCost(w)
       /\ qa' = qa \o Produced(Len(executions) + 1, cost, q)
       /\ ProjectCompletion(w, q, cost)
       /\ UNCHANGED <<issue, issued, reservationVars, components, left, call>>

(* executeWorkOrderBatchPosting issues and reports q in one step: the      *)
(* value goes into WIP and out of it.  What the order's own reservation    *)
(* covers is not validated against availability.                           *)
ExecuteBatch(w, q) ==
    LET cost == Value(Oldest(components, q))
    IN /\ ReserveAndConsume(w, q)
       /\ components' = Rest(components, q)
       /\ qa' = qa \o Produced(Len(executions) + 1, cost, q)
       /\ CreateWipValuation(w, cost - cost)
       /\ VerifyWipIntegrity(w)
       /\ ProjectBatch(w, q, cost)

RecordBatch(w, q) ==
    /\ CanPost(w)
    /\ Len(executions) < MaxExecutions
    /\ ExecuteBatch(w, q)
    /\ UNCHANGED <<issue, issued, completion, openWip, left, call>>

(* A void asks for a reported execution whose own output is untouched in   *)
(* QA.                                                                     *)
VoidAllowed(e) ==
    /\ executions[e].batch
    /\ Remain(e) = executions[e].quantity
    /\ RowFree(executions[e].wo)

(* A live restored row sets the balance to what that row alone commits,    *)
(* the allocated column first.                                             *)
RestoreBalance(r, onHand) ==
    LET own == [reserved |-> IF r.status = "RESERVED" THEN Open(r) ELSE 0,
                allocated |-> IF r.status = "ALLOCATED" THEN Open(r) ELSE 0]
    IN  IF r.status \in Live
        THEN /\ own.allocated + balance.reserved <= onHand
             /\ Covered(own, onHand)
             /\ balance' = own
        ELSE balance' = balance

(* What the output that the void consumes has cost: the oldest in QA.      *)
OutputCost(e) == Value(Costs(Oldest(qa, executions[e].quantity)))

(* voidWorkOrderProductionReport takes the oldest output in QA; the        *)
(* components come back as the newest layer at the rounded unit cost they  *)
(* were issued at, and WIP gives up what that layer is worth.  The work    *)
(* order is left as it is.                                                 *)
VoidExecution(e, reversed) ==
    LET x == executions[e]
        after == Restored(row[x.wo], x.quantity)
        back == Spread(x.cost, x.quantity)
    IN /\ VoidAllowed(e)
       /\ qa' = Rest(qa, x.quantity)
       /\ components' = components \o back
       /\ executions' = [executions EXCEPT ![e].voided = TRUE]
       /\ ReverseWipCost(x.wo, reversed, Value(back))
       /\ row' = [row EXCEPT ![x.wo] = after]
       /\ RestoreBalance(after, Len(components) + x.quantity)
       /\ UNCHANGED <<orderVars, openWip, left, call>>

(* Seeded fault: WIP is restored at the execution's own cost, while QA     *)
(* loses the cost of its oldest output.                                    *)
VoidAtIssueCost(e) ==
    /\ ~executions[e].voided
    /\ VoidExecution(e, executions[e].cost)

(* Seeded fault: nothing remembers that the execution was voided.          *)
VoidTwice(e) == VoidExecution(e, OutputCost(e))

(* An execution that has its void is replayed, not voided again.           *)
VoidProduction(e) ==
    /\ ~executions[e].voided
    /\ VoidExecution(e, OutputCost(e))

(* A transfer of the oldest q units out of QA.                             *)
LeaveQa(q) ==
    /\ qa' = Rest(qa, q)
    /\ left' = [units |-> left.units + q,
                value |-> left.value + Value(Costs(Oldest(qa, q)))]

(* reportWorkOrderScrap looks at the execution, not at the order's status. *)
ReportScrap(e, q) ==
    LET w == executions[e].wo
    IN /\ q <= Remain(e)
       /\ OrderFree(w)
       /\ LeaveQa(q)
       /\ ProjectScrap(w, q)
       /\ UNCHANGED <<issue, issued, completion, reservationVars, components, executions,
                      openWip, wip, call>>

(* QC accepts output: a transfer out of QA.                                *)
AcceptOutput(q) ==
    /\ q <= Len(qa)
    /\ LeaveQa(q)
    /\ UNCHANGED <<orderVars, reservationVars, components, executions, openWip, wip, call>>

Transition ==
    \E c \in Calls :
        \/ \E w \in WorkOrders, next \in Targets : CheckTransition(c, w, next)
        \/ BeginTransition(c)
        \/ MeasureBalance(c)
        \/ FinishTransition(c)
        \/ FailTransition(c)

Posting ==
    \/ \E w \in WorkOrders :
        \/ PostIssue(w)
        \/ PostCompletion(w)
        \/ \E q \in IssueForms : CreateIssue(w, q)
        \/ \E q \in CompletionForms : CreateCompletion(w, q)
        \/ \E q \in Quantities : RecordBatch(w, q)
    \/ \E e \in DOMAIN executions :
        VoidProduction(e) \/ \E q \in Quantities : ReportScrap(e, q)
    \/ \E q \in Quantities : AcceptOutput(q)

Next == Transition \/ Posting

Spec == Init /\ [][Next]_vars

-----------------------------------------------------------------------------
(* Correctness.                                                            *)

(* What rounding takes out of the value of each execution's output.  A     *)
(* void returns the components and charges WIP at one rounded cost, so it  *)
(* loses nothing more.                                                     *)
Rounding ==
    [e \in DOMAIN executions |->
        LET x == executions[e]
        IN  x.cost - Value(Spread(x.cost, x.quantity))]

(* Value is neither made nor lost but by rounding: what the components     *)
(* cost is in their layers, in WIP, in QA or has left QA, through issues,  *)
(* completions, batches, voids and scrap.                                  *)
ProductionValueConserved ==
    Value(components) + SumFunction(wip) + Value(Costs(qa)) + left.value
        + SumFunction(Rounding) = Value(UnitCosts)

Quantity == [e \in DOMAIN executions |-> executions[e].quantity]

(* While a work order's reservation is not cancelled, its fulfilled        *)
(* quantity is what the order has really consumed: its posted issues and   *)
(* the batches that have not been voided.                                  *)
FulfilmentMatchesConsumption ==
    \A w \in WorkOrders :
        row[w].status \in Live \cup {"FULFILLED"} =>
            row[w].fulfilled = issued[w] +
                SumFunctionOnSet(Quantity,
                                 {e \in DOMAIN executions : /\ executions[e].wo = w
                                                            /\ executions[e].batch
                                                            /\ ~executions[e].voided})

(* The output that exists, in QA or beyond, is that of the executions that *)
(* have not been voided: an execution is voided at most once, whatever its *)
(* layers still hold.                                                      *)
OutputMatchesExecutions ==
    Len(qa) + left.units =
        SumFunctionOnSet(Quantity, {e \in DOMAIN executions : ~executions[e].voided})

(* A CANCELLED reservation never changes, and a FULFILLED one is reopened  *)
(* only in a step that voids an execution of its work order.               *)
ReopenedOnlyByVoid ==
    [][\A w \in WorkOrders :
        /\ row[w].status = "CANCELLED" => row'[w] = row[w]
        /\ (row[w].status = "FULFILLED" /\ row'[w] # row[w]) =>
                \E e \in DOMAIN executions :
                    /\ executions[e].wo = w
                    /\ ~executions[e].voided /\ executions'[e].voided]_vars

(* The commitments in the component's balance are the open quantities of   *)
(* the live reservations, as the inventory invariants job compares them.   *)
WorkOrderCommitmentsProjected ==
    balance.reserved + balance.allocated = TotalOpen(row, Live)
=============================================================================
