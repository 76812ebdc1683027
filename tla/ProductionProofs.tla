-------------------------- MODULE ProductionProofs --------------------------
(***************************************************************************)
(* The invariants of Production, for any number of work orders and calls,  *)
(* any quantities and any costs.                                           *)
(***************************************************************************)
EXTENDS Production, Sums

USE DEF Live, Idle, Done, NoRow

-----------------------------------------------------------------------------
(* Types.                                                                  *)

Rows == [status : {"none", "RESERVED", "ALLOCATED", "FULFILLED", "CANCELLED"},
         reserved : Nat, fulfilled : Nat]

Balances == [reserved : Int, allocated : Int]

Orders == [status : Statuses, completed : Nat, scrapped : Nat]

Executions == [wo : WorkOrders, quantity : Nat \ {0}, cost : Nat,
               batch : BOOLEAN, voided : BOOLEAN]

Units == [execution : Nat, cost : Nat]

CallRecords ==
    {Idle, Done}
    \cup [pc : {"checked"}, wo : WorkOrders, next : Targets]
    \cup [pc : {"begun"}, wo : WorkOrders, next : Targets, before : Rows, after : Rows,
          syncs : BOOLEAN, target : Balances]
    \cup [pc : {"measured"}, wo : WorkOrders, next : Targets, before : Rows, after : Rows,
          target : Balances, current : Balances]

TypeOK ==
    /\ wo \in [WorkOrders -> Orders]
    /\ row \in [WorkOrders -> Rows]
    /\ balance \in Balances
    /\ components \in Seq(Nat)
    /\ issue \in [WorkOrders -> Nat]
    /\ issued \in [WorkOrders -> Nat]
    /\ completion \in [WorkOrders -> Nat]
    /\ executions \in Seq(Executions)
    /\ openWip \in [WorkOrders -> Nat]
    /\ wip \in [WorkOrders -> Int]
    /\ qa \in Seq(Units)
    /\ left \in [units : Nat, value : Nat]
    /\ call \in [Calls -> CallRecords]

-----------------------------------------------------------------------------
(* The operators of the model.                                             *)

(* The remaining quantity is a natural, whatever was overproduced.         *)
LEMMA RemainingType ==
    ASSUME NEW w \in WorkOrders, wo \in [WorkOrders -> Orders]
    PROVE  RemainingQuantity(w) \in Nat
<1> DEFINE k == Planned - wo[w].completed - wo[w].scrapped
<1>1. k \in Int
  BY ProductionAssumption DEF Orders
<1> HIDE DEF k
<1>2. \E x \in {0, k} : \A y \in {0, k} : x >= y
  BY <1>1
<1>3. Max({0, k}) \in {0, k} /\ \A y \in {0, k} : Max({0, k}) >= y
  BY <1>2, Zenon DEF Max
<1>4. Max({0, k}) \in Nat
  BY <1>1, <1>3
<1>5. QED BY <1>4, Zenon DEF RemainingQuantity, k

(* The smaller of two naturals.                                            *)
LEMMA MinOfTwo ==
    ASSUME NEW a \in Nat, NEW b \in Nat
    PROVE  /\ Min({a, b}) \in {a, b}
           /\ Min({a, b}) <= a /\ Min({a, b}) <= b
<1>1. \E x \in {a, b} : \A y \in {a, b} : x =< y
  OBVIOUS
<1>2. Min({a, b}) \in {a, b} /\ \A y \in {a, b} : Min({a, b}) =< y
  BY <1>1, Zenon DEF Min
<1>3. QED BY <1>2, Zenon

(* The trigger's status for a row's quantities.                            *)
LEMMA WithQuantitiesType ==
    ASSUME NEW a \in Nat, NEW b \in Nat
    PROVE  /\ WithQuantities(a, b) \in Rows
           /\ WithQuantities(a, b).status \in {"RESERVED", "ALLOCATED", "FULFILLED"}
           /\ WithQuantities(a, b).reserved = a
           /\ WithQuantities(a, b).fulfilled = b
<1>1. DerivedStatus(a, b) \in {"RESERVED", "ALLOCATED", "FULFILLED"}
  BY Zenon DEF DerivedStatus
<1>2. QED BY <1>1, Zenon DEF WithQuantities, Rows

(* What the reservation operations make of a row is a row.                 *)
LEMMA RowTypes ==
    ASSUME NEW r \in Rows, NEW n \in Nat
    PROVE  /\ Ensured(r, n) \in Rows
           /\ Consumed(r, n) \in Rows
           /\ Restored(r, n) \in Rows
           /\ Released(r) \in Rows
<1>1. /\ r.reserved \in Nat /\ r.fulfilled \in Nat
      /\ r.fulfilled + n \in Nat
      /\ [r EXCEPT !.status = "CANCELLED"] \in Rows
  BY DEF Rows
<1>2. /\ WithQuantities(r.fulfilled + n, r.fulfilled) \in Rows
      /\ WithQuantities(r.reserved, r.fulfilled + n) \in Rows
  BY <1>1, WithQuantitiesType, Zenon
<1>3. r.fulfilled - Min({n, r.fulfilled}) \in Nat
  <2> DEFINE f == r.fulfilled
             m == Min({n, f})
  <2>1. f \in Nat
    BY <1>1, Zenon
  <2> HIDE DEF f
  <2>2. m \in {n, f} /\ m <= f
    BY <2>1, MinOfTwo, Zenon
  <2> HIDE DEF m
  <2>3. f - m \in Nat
    BY <2>1, <2>2
  <2>4. QED BY <2>3, Zenon DEF f, m
<1>4. WithQuantities(r.reserved, r.fulfilled - Min({n, r.fulfilled})) \in Rows
  BY <1>1, <1>3, WithQuantitiesType, Zenon
<1>5. Ensured(r, n) \in Rows
  BY <1>1, <1>2, Zenon DEF Ensured
<1>6. Consumed(r, n) \in Rows
  BY <1>2, Zenon DEF Consumed
<1>7. Restored(r, n) \in Rows
  BY <1>4, Zenon DEF Restored
<1>8. Released(r) \in Rows
  BY <1>1, Zenon DEF Released
<1>9. QED BY <1>5, <1>6, <1>7, <1>8, Zenon

(* Commitments are numbers.                                                *)
LEMMA CommitmentsType ==
    ASSUME NEW rows \in [WorkOrders -> Rows]
    PROVE  Commitments(rows) \in Balances
<1>1. ASSUME NEW statuses PROVE TotalOpen(rows, statuses) \in Int
  <2> DEFINE f == [w \in WorkOrders |-> IF rows[w].status \in statuses THEN Open(rows[w]) ELSE 0]
  <2>1. \A w \in WorkOrders : f[w] \in Int
    BY DEF Open, Rows
  <2>2. DOMAIN f = WorkOrders
    BY Zenon
  <2> HIDE DEF f
  <2>3. SumFunction(f) \in Int
    BY <2>1, <2>2, ProductionAssumption, SumIsInteger, Zenon DEF SumFunction
  <2>4. QED BY <2>3, Zenon DEF TotalOpen, f
<1>2. QED BY <1>1, Zenon DEF Commitments, Balances

(* The oldest units and the rest.                                          *)
LEMMA CutTypes ==
    ASSUME NEW T, NEW s \in Seq(T), NEW n \in Nat, n <= Len(s)
    PROVE  /\ Oldest(s, n) \in Seq(T) /\ Len(Oldest(s, n)) = n
           /\ Rest(s, n) \in Seq(T) /\ Len(Rest(s, n)) = Len(s) - n
           /\ \A i \in 1..n : Oldest(s, n)[i] = s[i]
           /\ \A i \in 1..(Len(s) - n) : Rest(s, n)[i] = s[n + i]
BY DEF Oldest, Rest

(* The costs of units.                                                     *)
LEMMA CostsType ==
    ASSUME NEW s \in Seq(Units)
    PROVE  /\ Costs(s) \in Seq(Nat) /\ Len(Costs(s)) = Len(s)
           /\ \A i \in 1..Len(s) : Costs(s)[i] = s[i].cost
<1>1. /\ Len(s) \in Nat /\ DOMAIN s = 1..Len(s)
      /\ \A i \in 1..Len(s) : s[i] \in Units
  OBVIOUS
<1>2. \A u \in Units : u.cost \in Nat
  BY Zenon DEF Units
<1>3. Costs(s) = [i \in 1..Len(s) |-> s[i].cost]
  BY <1>1, Zenon DEF Costs
<1>4. \A i \in 1..Len(s) : s[i].cost \in Nat
  BY <1>1, <1>2, Zenon
<1> DEFINE n == Len(s)
<1> HIDE DEF n
<1>5. QED BY <1>1, <1>3, <1>4 DEF n

(* A value is a number of whole cost units.                                *)
LEMMA ValueType ==
    ASSUME NEW s \in Seq(Nat)
    PROVE  Value(s) \in Nat
BY TotalIsNatural, Zenon DEF Value

(* The averaged layer has the quantity it is made for.                     *)
LEMMA SpreadType ==
    ASSUME NEW cost \in Nat, NEW n \in Nat \ {0}
    PROVE  Spread(cost, n) \in Seq(Nat) /\ Len(Spread(cost, n)) = n
<1> DEFINE k == (2 * cost + n) \div (2 * n)
<1>1. 2 * cost + n \in Nat /\ 2 * n \in Nat \ {0}
  OBVIOUS
<1>2. \A a \in Nat, b \in Nat \ {0} : a \div b \in Nat
  OBVIOUS
<1>3. k \in Nat
  BY <1>1, <1>2, Zenon
<1> HIDE DEF k
<1>4. [i \in 1..n |-> k] \in Seq(Nat) /\ Len([i \in 1..n |-> k]) = n
  BY <1>3
<1>5. QED BY <1>4, Zenon DEF Spread, k

(* The output layer of an execution: its units and their costs.            *)
LEMMA ProducedType ==
    ASSUME NEW e \in Nat, NEW cost \in Nat, NEW q \in Nat \ {0}
    PROVE  /\ Produced(e, cost, q) \in Seq(Units) /\ Len(Produced(e, cost, q)) = q
           /\ Costs(Produced(e, cost, q)) = Spread(cost, q)
<1>1. Spread(cost, q) \in Seq(Nat) /\ Len(Spread(cost, q)) = q
  BY SpreadType, Zenon
<1> DEFINE s == Spread(cost, q)
           p == [i \in 1..q |-> [execution |-> e, cost |-> s[i]]]
<1>2. s = [i \in 1..q |-> s[i]] /\ \A i \in 1..q : s[i] \in Nat
  BY <1>1
<1> HIDE DEF s
<1>3. p \in Seq(Units) /\ Len(p) = q
  <2>1. \A i \in 1..q : [execution |-> e, cost |-> s[i]] \in Units
    BY <1>2, Zenon DEF Units
  <2>2. p \in [1..q -> Units]
    BY <2>1, Zenon
  <2> HIDE DEF p
  <2>3. QED BY <2>2
<1>4. DOMAIN p = 1..q /\ \A i \in 1..q : p[i].cost = s[i]
  BY Zenon
<1>5. Costs(p) = s
  BY <1>2, <1>4, Zenon DEF Costs
<1>6. QED BY <1>3, <1>5, Zenon DEF Produced, s

(* What remains of an execution is part of what is in QA.                  *)
LEMMA RemainBounded ==
    ASSUME qa \in Seq(Units), NEW e
    PROVE  Remain(e) \in Nat /\ Remain(e) <= Len(qa)
<1> DEFINE S == {i \in DOMAIN qa : qa[i].execution = e}
           I == 1..Len(qa)
<1>1. DOMAIN qa = I /\ Len(qa) \in Nat
  OBVIOUS
<1>2. IsFiniteSet(I) /\ Cardinality(I) = Len(qa)
  BY <1>1, FS_Interval, SMTT(20)
<1>3. S \in SUBSET I
  BY <1>1, Zenon
<1> HIDE DEF S, I
<1>4. IsFiniteSet(S) /\ Cardinality(S) <= Cardinality(I)
  BY <1>2, <1>3, FS_Subset, Zenon
<1>5. Cardinality(S) \in Nat
  BY <1>4, FS_CardinalityType, Zenon
<1>6. QED BY <1>2, <1>4, <1>5, Zenon DEF Remain, S

-----------------------------------------------------------------------------
(* Type correctness.                                                       *)

(* A work order has a status, quantities and a call record, by type.       *)
LEMMA CallFields ==
    ASSUME TypeOK, NEW c \in Calls
    PROVE  /\ call[c].pc \in {"idle", "done", "checked", "begun", "measured"}
           /\ call[c].pc \in {"checked", "begun", "measured"} =>
                call[c].wo \in WorkOrders /\ call[c].next \in Targets
           /\ call[c].pc \in {"begun", "measured"} =>
                /\ call[c].before \in Rows /\ call[c].after \in Rows
                /\ call[c].target \in Balances
           /\ call[c].pc = "begun" => call[c].syncs \in BOOLEAN
           /\ call[c].pc = "measured" => call[c].current \in Balances
<1>1. call[c] \in CallRecords
  BY Zenon DEF TypeOK
<1>2. QED BY <1>1 DEF CallRecords

(* The status transition calls keep the types.                             *)
LEMMA TransitionType == TypeOK /\ Transition => TypeOK'
<1> SUFFICES ASSUME TypeOK, NEW c \in Calls,
                    \/ \E w \in WorkOrders, next \in Targets : CheckTransition(c, w, next)
                    \/ BeginTransition(c)
                    \/ MeasureBalance(c)
                    \/ FinishTransition(c)
                    \/ FailTransition(c)
             PROVE  TypeOK'
  BY Zenon DEF Transition
<1>1. ASSUME NEW w \in WorkOrders, NEW next \in Targets, CheckTransition(c, w, next)
      PROVE  TypeOK'
  <2>1. [pc |-> "checked", wo |-> w, next |-> next] \in CallRecords
    BY Zenon DEF CallRecords
  <2>2. QED BY <1>1, <2>1, Zenon DEF CheckTransition, TypeOK, orderVars, reservationVars, costVars
<1>2. ASSUME BeginTransition(c)
      PROVE  TypeOK'
  <2> DEFINE w == call[c].wo
             n == RemainingQuantity(w)
             readies == call[c].next = "ready"
             after == IF readies THEN Ensured(row[w], n) ELSE Released(row[w])
             syncs == IF readies THEN n > 0 \/ row[w] # NoRow ELSE row[w].status \in Live
             rows == [row EXCEPT ![w] = after]
             record == [pc |-> "begun", wo |-> w, next |-> call[c].next,
                        before |-> row[w], after |-> after, syncs |-> syncs,
                        target |-> Commitments(rows)]
  <2>1. w \in WorkOrders /\ call[c].next \in Targets
    BY <1>2, CallFields DEF BeginTransition
  <2>2. row[w] \in Rows /\ n \in Nat
    BY <2>1, RemainingType, Zenon DEF TypeOK
  <2>3. after \in Rows
    BY <2>2, RowTypes, Zenon
  <2>4. rows \in [WorkOrders -> Rows]
    BY <2>3, Zenon DEF TypeOK
  <2>5. Commitments(rows) \in Balances
    BY <2>4, CommitmentsType, Zenon
  <2>6. syncs \in BOOLEAN
    <3>1. CASE readies
      BY <3>1, Zenon
    <3>2. CASE ~readies
      <4>1. (row[w].status \in Live) \in BOOLEAN
        BY SMT
      <4>2. syncs = (row[w].status \in Live)
        BY <3>2, Zenon
      <4>3. QED BY <4>1, <4>2, Zenon
    <3>3. QED BY <3>1, <3>2, Zenon
  <2>7. call' = [call EXCEPT ![c] = record]
    BY <1>2, Zenon DEF BeginTransition
  <2> HIDE DEF w, n, after, syncs, rows
  <2>8. row[w] \in Rows /\ record \in CallRecords
    BY <2>1, <2>2, <2>3, <2>5, <2>6, Zenon DEF CallRecords
  <2> HIDE DEF record
  <2>9. call' \in [Calls -> CallRecords]
    BY <2>7, <2>8, Zenon DEF TypeOK
  <2>10. QED BY <1>2, <2>9, Zenon DEF BeginTransition, TypeOK, orderVars, reservationVars, costVars
<1>3. ASSUME MeasureBalance(c)
      PROVE  TypeOK'
  <2> DEFINE record == [pc |-> "measured", wo |-> call[c].wo, next |-> call[c].next,
                        before |-> call[c].before, after |-> call[c].after,
                        target |-> IF call[c].syncs THEN call[c].target ELSE balance,
                        current |-> balance]
  <2>1. call' = [call EXCEPT ![c] = record]
    BY <1>3, Zenon DEF MeasureBalance, TypeOK
  <2>2. /\ call[c].wo \in WorkOrders /\ call[c].next \in Targets
        /\ call[c].before \in Rows /\ call[c].after \in Rows
        /\ call[c].target \in Balances /\ balance \in Balances
    BY <1>3, CallFields DEF MeasureBalance, TypeOK
  <2>3. record \in CallRecords
    BY <2>2, Zenon DEF CallRecords
  <2> HIDE DEF record
  <2>4. call' \in [Calls -> CallRecords]
    BY <2>1, <2>3, Zenon DEF TypeOK
  <2>5. QED BY <1>3, <2>4, Zenon DEF MeasureBalance, TypeOK, orderVars, reservationVars, costVars
<1>4. ASSUME FinishTransition(c)
      PROVE  TypeOK'
  <2> DEFINE w == call[c].wo
             next == Shifted(balance, call[c].target, call[c].current)
  <2>1. /\ w \in WorkOrders /\ call[c].next \in Targets
        /\ call[c].before \in Rows /\ call[c].after \in Rows
        /\ call[c].target \in Balances /\ call[c].current \in Balances
        /\ balance \in Balances
    BY <1>4, CallFields, Zenon DEF FinishTransition, TypeOK
  <2>2. next \in Balances
    BY <2>1 DEF Shifted, Balances
  <2>3. /\ balance' = next
        /\ row' \in {row, [row EXCEPT ![w] = call[c].after]}
        /\ wo' = [wo EXCEPT ![w].status = call[c].next]
        /\ call' = [call EXCEPT ![c] = Done]
    BY <1>4, Zenon DEF FinishTransition
  <2> HIDE DEF w, next
  <2>4. row' \in [WorkOrders -> Rows]
    BY <2>1, <2>3, Zenon DEF TypeOK
  <2>5. wo' \in [WorkOrders -> Orders]
    <3>1. call[c].next \in Statuses
      BY <2>1, Zenon DEF Targets, Statuses
    <3>2. [wo[w] EXCEPT !.status = call[c].next] \in Orders
      BY <2>1, <3>1, Zenon DEF TypeOK, Orders
    <3>3. wo' = [wo EXCEPT ![w] = [wo[w] EXCEPT !.status = call[c].next]]
      BY <2>1, <2>3, Zenon DEF TypeOK
    <3>4. QED BY <2>1, <3>2, <3>3, Zenon DEF TypeOK
  <2>6. Done \in CallRecords
    BY Zenon DEF CallRecords
  <2>7. call' \in [Calls -> CallRecords]
    BY <2>3, <2>6 DEF TypeOK
  <2>8. QED
    BY <1>4, <2>2, <2>3, <2>4, <2>5, <2>7, Zenon DEF FinishTransition, TypeOK, costVars
<1>5. ASSUME FailTransition(c)
      PROVE  TypeOK'
  <2>1. Done \in CallRecords
    BY Zenon DEF CallRecords
  <2>2. QED
    BY <1>5, <2>1, Zenon DEF FailTransition, TypeOK, orderVars, reservationVars, costVars
<1>6. QED BY <1>1, <1>2, <1>3, <1>4, <1>5, Zenon

(* A posting rewrites its own row and takes components that are there.     *)
LEMMA ReserveEffect ==
    ASSUME TypeOK, NEW w \in WorkOrders, NEW q \in Nat, ReserveAndConsume(w, q)
    PROVE  LET n == RemainingQuantity(w)
               ensured == Ensured(row[w], n)
           IN  /\ n \in Nat /\ row[w] \in Rows /\ ensured \in Rows
               /\ TriggerAllows(row[w], n)
               /\ CanConsume(ensured, q)
               /\ row' = [row EXCEPT ![w] = Consumed(ensured, q)]
               /\ row' \in [WorkOrders -> Rows]
               /\ balance' \in Balances
               /\ q <= Len(components)
<1> DEFINE n == RemainingQuantity(w)
           ensured == Ensured(row[w], n)
           rows == [row EXCEPT ![w] = ensured]
           consumed == [rows EXCEPT ![w] = Consumed(ensured, q)]
<1>1. n \in Nat /\ row[w] \in Rows
  BY RemainingType, Zenon DEF TypeOK
<1>2. ensured \in Rows /\ Consumed(ensured, q) \in Rows
  BY <1>1, RowTypes, Zenon
<1>3. rows[w] = ensured
  BY Zenon DEF TypeOK
<1>4. /\ TriggerAllows(row[w], n) /\ CanConsume(rows[w], q)
      /\ q <= Len(components)
      /\ row' = [rows EXCEPT ![w] = Consumed(rows[w], q)]
      /\ balance' = Commitments([rows EXCEPT ![w] = Consumed(rows[w], q)])
  BY Zenon DEF ReserveAndConsume, CanEnsure
<1> HIDE DEF n
<1>5. row' = [row EXCEPT ![w] = Consumed(ensured, q)]
  <2> HIDE DEF ensured
  <2>1. QED BY <1>3, <1>4, Zenon DEF TypeOK
<1>6. row' \in [WorkOrders -> Rows]
  <2> HIDE DEF ensured
  <2>1. QED BY <1>2, <1>5, Zenon DEF TypeOK
<1>7. balance' \in Balances
  <2>1. balance' = Commitments(row')
    BY <1>4, Zenon
  <2>2. ASSUME NEW r \in [WorkOrders -> Rows] PROVE Commitments(r) \in Balances
    BY CommitmentsType, Zenon
  <2>3. QED BY <1>6, <2>1, <2>2, Zenon
<1>8. CanConsume(ensured, q)
  BY <1>3, <1>4, Zenon
<1>9. QED BY <1>1, <1>2, <1>4, <1>5, <1>6, <1>7, <1>8, Zenon DEF n

(* A work order with other quantities and a status.                        *)
LEMMA OrderType ==
    ASSUME wo \in [WorkOrders -> Orders], NEW w \in WorkOrders,
           NEW x \in Statuses, NEW a \in Nat, NEW b \in Nat
    PROVE  /\ [wo EXCEPT ![w].status = x] \in [WorkOrders -> Orders]
           /\ [wo EXCEPT ![w].completed = a, ![w].status = x] \in [WorkOrders -> Orders]
           /\ [wo EXCEPT ![w].scrapped = b, ![w].status = x] \in [WorkOrders -> Orders]
<1>1. wo[w] \in Orders
  BY Zenon
<1>2. /\ [wo[w] EXCEPT !.status = x] \in Orders
      /\ [wo[w] EXCEPT !.completed = a, !.status = x] \in Orders
      /\ [wo[w] EXCEPT !.scrapped = b, !.status = x] \in Orders
  BY <1>1, Zenon DEF Orders
<1>3. /\ [wo EXCEPT ![w].status = x] = [wo EXCEPT ![w] = [wo[w] EXCEPT !.status = x]]
      /\ [wo EXCEPT ![w].completed = a, ![w].status = x]
            = [wo EXCEPT ![w] = [wo[w] EXCEPT !.completed = a, !.status = x]]
      /\ [wo EXCEPT ![w].scrapped = b, ![w].status = x]
            = [wo EXCEPT ![w] = [wo[w] EXCEPT !.scrapped = b, !.status = x]]
  BY Zenon
<1>4. QED BY <1>2, <1>3, Zenon

(* The status that progress derives is a status.                           *)
LEMMA StatusTypes ==
    ASSUME NEW x \in Statuses, NEW a, NEW b
    PROVE  /\ NextStatusAfterExecutionStart(x) \in Statuses
           /\ NextStatusFromProgress(x, a, b) \in Statuses
BY Zenon DEF Statuses, NextStatusAfterExecutionStart, NextStatusFromProgress

(* The cost of components that a posting takes.                            *)
LEMMA TakenType ==
    ASSUME TypeOK, NEW q \in Nat, q <= Len(components)
    PROVE  /\ Value(Oldest(components, q)) \in Nat
           /\ Rest(components, q) \in Seq(Nat)
<1>1. components \in Seq(Nat)
  BY Zenon DEF TypeOK
<1>2. Oldest(components, q) \in Seq(Nat) /\ Rest(components, q) \in Seq(Nat)
  BY <1>1, CutTypes, Zenon
<1>3. QED BY <1>2, ValueType, Zenon

(* The cost of output that leaves QA.                                      *)
LEMMA OutputType ==
    ASSUME TypeOK, NEW q \in Nat, q <= Len(qa)
    PROVE  /\ Value(Costs(Oldest(qa, q))) \in Nat
           /\ Rest(qa, q) \in Seq(Units) /\ Len(Rest(qa, q)) = Len(qa) - q
<1>1. qa \in Seq(Units)
  BY Zenon DEF TypeOK
<1>2. /\ Oldest(qa, q) \in Seq(Units) /\ Rest(qa, q) \in Seq(Units)
      /\ Len(Rest(qa, q)) = Len(qa) - q
  BY <1>1, CutTypes, Zenon
<1>3. Costs(Oldest(qa, q)) \in Seq(Nat)
  BY <1>2, CostsType, Zenon
<1>4. QED BY <1>2, <1>3, ValueType, Zenon

(* postWorkOrderIssue keeps the types.                                     *)
LEMMA PostIssueType ==
    ASSUME TypeOK, NEW w \in WorkOrders, PostIssue(w)
    PROVE  TypeOK'
<1> DEFINE q == issue[w]
           cost == Value(Oldest(components, q))
<1>1. q \in Nat
  BY Zenon DEF TypeOK
<1>2. ReserveAndConsume(w, q)
  BY Zenon DEF PostIssue
<1>3. row' \in [WorkOrders -> Rows] /\ balance' \in Balances /\ q <= Len(components)
  <2> HIDE DEF q
  <2>1. QED BY <1>1, <1>2, ReserveEffect, Zenon
<1>4. cost \in Nat /\ Rest(components, q) \in Seq(Nat)
  <2> HIDE DEF q
  <2>1. QED BY <1>1, <1>3, TakenType, Zenon
<1>5. /\ components' = Rest(components, q)
      /\ openWip' = [openWip EXCEPT ![w] = @ + cost]
      /\ wip' = [wip EXCEPT ![w] = @ + cost]
      /\ issue' = [issue EXCEPT ![w] = 0]
      /\ issued' = [issued EXCEPT ![w] = @ + q]
      /\ wo' = [wo EXCEPT ![w].status = NextStatusAfterExecutionStart(wo[w].status)]
      /\ UNCHANGED <<completion, executions, qa, left, call>>
  BY Zenon DEF PostIssue, CreateWipValuation, ProjectIssue, TypeOK
<1>6. wo' \in [WorkOrders -> Orders]
  <2>1. wo[w].status \in Statuses
    BY Zenon DEF TypeOK, Orders
  <2>2. NextStatusAfterExecutionStart(wo[w].status) \in Statuses
    BY <2>1, StatusTypes, Zenon
  <2>3. QED BY <1>1, <1>5, <2>2, OrderType, Zenon DEF TypeOK
<1> HIDE DEF q, cost
<1>7. /\ openWip' \in [WorkOrders -> Nat] /\ wip' \in [WorkOrders -> Int]
      /\ issue' \in [WorkOrders -> Nat] /\ issued' \in [WorkOrders -> Nat]
  <2>1. cost \in Nat
    BY <1>4, Zenon
  <2>2. openWip' \in [WorkOrders -> Nat]
    BY <1>5, <2>1 DEF TypeOK
  <2>3. wip' \in [WorkOrders -> Int]
    BY <1>5, <2>1 DEF TypeOK
  <2>4. issue' \in [WorkOrders -> Nat] /\ issued' \in [WorkOrders -> Nat]
    BY <1>1, <1>5 DEF TypeOK
  <2>5. QED BY <2>2, <2>3, <2>4, Zenon
<1>8. components' \in Seq(Nat)
  BY <1>4, <1>5, Zenon
<1>9. QED BY <1>3, <1>5, <1>6, <1>7, <1>8, Zenon DEF TypeOK

(* Drafting a document keeps the types.                                    *)
LEMMA DraftType ==
    ASSUME TypeOK, NEW w \in WorkOrders, NEW q,
           \/ q \in IssueForms /\ CreateIssue(w, q)
           \/ q \in CompletionForms /\ CreateCompletion(w, q)
    PROVE  TypeOK'
<1>1. q \in Nat
  BY ProductionAssumption, Zenon
<1>2. CASE CreateIssue(w, q)
  BY <1>1, <1>2, Zenon DEF CreateIssue, TypeOK, reservationVars, costVars
<1>3. CASE CreateCompletion(w, q)
  BY <1>1, <1>3, Zenon DEF CreateCompletion, TypeOK, reservationVars, costVars
<1>4. QED BY <1>2, <1>3, Zenon

(* What an execution appends.                                              *)
LEMMA ExecutedType ==
    ASSUME TypeOK, NEW w \in WorkOrders, NEW q \in Nat \ {0}, NEW cost \in Nat,
           NEW batch \in BOOLEAN
    PROVE  /\ Execution(w, q, cost, batch) \in Executions
           /\ Append(executions, Execution(w, q, cost, batch)) \in Seq(Executions)
           /\ qa \o Produced(Len(executions) + 1, cost, q) \in Seq(Units)
<1>1. Execution(w, q, cost, batch) \in Executions
  BY Zenon DEF Execution, Executions
<1>2. executions \in Seq(Executions) /\ qa \in Seq(Units)
  BY Zenon DEF TypeOK
<1>3. Len(executions) + 1 \in Nat
  BY <1>2
<1>4. Produced(Len(executions) + 1, cost, q) \in Seq(Units)
  BY <1>3, ProducedType, Zenon
<1> HIDE DEF Executions, Units
<1>5. QED BY <1>1, <1>2, <1>4, ExtendedSeq, JoinedSeq, Zenon

(* postWorkOrderCompletion keeps the types.                                *)
LEMMA PostCompletionType ==
    ASSUME TypeOK, NEW w \in WorkOrders, PostCompletion(w)
    PROVE  TypeOK'
<1> DEFINE q == completion[w]
           cost == openWip[w]
<1>1. q \in Nat \ {0} /\ cost \in Nat
  BY DEF TypeOK, PostCompletion
<1>2. /\ openWip' = [openWip EXCEPT ![w] = 0]
      /\ wip' = [wip EXCEPT ![w] = @ + (-cost)]
      /\ qa' = qa \o Produced(Len(executions) + 1, cost, q)
      /\ executions' = Append(executions, Execution(w, q, cost, FALSE))
      /\ completion' = [completion EXCEPT ![w] = 0]
      /\ wo' = [wo EXCEPT ![w].completed = @ + q,
                          ![w].status = NextStatusFromProgress(@, wo[w].completed + q, 0)]
      /\ UNCHANGED <<issue, issued, row, balance, components, left, call>>
  BY Zenon DEF PostCompletion, AllocateWipCost, CreateWipValuation, ProjectCompletion,
         reservationVars
<1> HIDE DEF q, cost
<1>3. executions' \in Seq(Executions) /\ qa' \in Seq(Units)
  BY <1>1, <1>2, ExecutedType, Zenon
<1>4. wo' \in [WorkOrders -> Orders]
  <2> DEFINE a == wo[w].completed + q
             x == NextStatusFromProgress(wo[w].status, a, 0)
  <2>1. wo[w].status \in Statuses /\ a \in Nat
    <3>1. wo[w].status \in Statuses /\ wo[w].completed \in Nat
      BY Zenon DEF TypeOK, Orders
    <3> QED BY <1>1, <3>1
  <2>2. x \in Statuses
    BY <2>1, StatusTypes, Zenon
  <2>3. wo' = [wo EXCEPT ![w].completed = a, ![w].status = x]
    BY <1>2, Zenon DEF TypeOK, Orders
  <2> HIDE DEF a, x
  <2>4. QED BY <2>1, <2>2, <2>3, OrderType, Zenon DEF TypeOK
<1>5. /\ openWip' \in [WorkOrders -> Nat] /\ wip' \in [WorkOrders -> Int]
      /\ completion' \in [WorkOrders -> Nat]
  <2>1. /\ openWip \in [WorkOrders -> Nat] /\ wip \in [WorkOrders -> Int]
        /\ completion \in [WorkOrders -> Nat]
    BY Zenon DEF TypeOK
  <2>2. 0 \in Nat /\ wip[w] + (-cost) \in Int
    BY <1>1, <2>1
  <2> QED BY <1>2, <2>1, <2>2, Zenon
<1>6. QED BY <1>2, <1>3, <1>4, <1>5, Zenon DEF TypeOK

(* A production batch keeps the types.                                     *)
LEMMA RecordBatchType ==
    ASSUME TypeOK, NEW w \in WorkOrders, NEW q \in Quantities, RecordBatch(w, q)
    PROVE  TypeOK'
<1> DEFINE cost == Value(Oldest(components, q))
<1>1. q \in Nat \ {0}
  BY ProductionAssumption DEF Quantities
<1>2. ReserveAndConsume(w, q)
  BY Zenon DEF RecordBatch, ExecuteBatch
<1>3. row' \in [WorkOrders -> Rows] /\ balance' \in Balances /\ q <= Len(components)
  BY <1>1, <1>2, ReserveEffect, Zenon
<1>4. cost \in Nat /\ Rest(components, q) \in Seq(Nat)
  BY <1>1, <1>3, TakenType, Zenon
<1>5. /\ components' = Rest(components, q)
      /\ qa' = qa \o Produced(Len(executions) + 1, cost, q)
      /\ wip' = [wip EXCEPT ![w] = @ + (cost - cost)]
      /\ executions' = Append(executions, Execution(w, q, cost, TRUE))
      /\ wo' = [wo EXCEPT ![w].completed = @ + q,
                          ![w].status = NextStatusFromProgress(@, wo[w].completed + q,
                                                               wo[w].scrapped)]
      /\ UNCHANGED <<issue, issued, completion, openWip, left, call>>
  BY Zenon DEF RecordBatch, ExecuteBatch, CreateWipValuation, ProjectBatch
<1> HIDE DEF cost
<1>6. executions' \in Seq(Executions) /\ qa' \in Seq(Units)
  BY <1>1, <1>4, <1>5, ExecutedType, Zenon
<1>7. wo' \in [WorkOrders -> Orders]
  <2> DEFINE a == wo[w].completed + q
             x == NextStatusFromProgress(wo[w].status, a, wo[w].scrapped)
  <2>1. wo[w].status \in Statuses /\ a \in Nat
    <3>1. wo[w].status \in Statuses /\ wo[w].completed \in Nat
      BY Zenon DEF TypeOK, Orders
    <3> QED BY <1>1, <3>1
  <2>2. x \in Statuses
    BY <2>1, StatusTypes, Zenon
  <2>3. wo' = [wo EXCEPT ![w].completed = a, ![w].status = x]
    BY <1>5, Zenon DEF TypeOK, Orders
  <2> HIDE DEF a, x
  <2>4. QED BY <2>1, <2>2, <2>3, OrderType, Zenon DEF TypeOK
<1>8. wip' \in [WorkOrders -> Int]
  <2>1. cost \in Nat
    BY <1>4, Zenon
  <2>2. QED BY <1>5, <2>1 DEF TypeOK
<1>9. components' \in Seq(Nat)
  BY <1>4, <1>5, Zenon
<1>10. QED BY <1>3, <1>5, <1>6, <1>7, <1>8, <1>9, Zenon DEF TypeOK

(* What a void changes.                                                    *)
LEMMA VoidEffect ==
    ASSUME TypeOK, NEW e \in DOMAIN executions, VoidProduction(e)
    PROVE  LET x == executions[e]
               output == OutputCost(e)
           IN  /\ x \in Executions /\ output \in Nat
               /\ x.wo \in WorkOrders /\ x.quantity \in Nat \ {0} /\ x.cost \in Nat
               /\ x.batch = TRUE /\ x.voided = FALSE /\ RowFree(x.wo)
               /\ x.quantity <= Len(qa)
               /\ qa' = Rest(qa, x.quantity)
               /\ components' = components \o Spread(x.cost, x.quantity)
               /\ executions' = [executions EXCEPT ![e].voided = TRUE]
               /\ wip' = [wip EXCEPT ![x.wo] = @ + (output - Value(Spread(x.cost, x.quantity)))]
               /\ row' = [row EXCEPT ![x.wo] = Restored(row[x.wo], x.quantity)]
               /\ balance' \in Balances
               /\ UNCHANGED <<wo, issue, issued, completion, openWip, left, call>>
<1> DEFINE x == executions[e]
           after == Restored(row[x.wo], x.quantity)
<1>1. x \in Executions
  BY DEF TypeOK
<1>2. /\ x.wo \in WorkOrders /\ x.quantity \in Nat \ {0} /\ x.cost \in Nat
      /\ x.batch \in BOOLEAN /\ x.voided \in BOOLEAN
  BY <1>1, Zenon DEF Executions
<1>3. /\ VoidAllowed(e) /\ ~x.voided
      /\ qa' = Rest(qa, x.quantity)
      /\ components' = components \o Spread(x.cost, x.quantity)
      /\ executions' = [executions EXCEPT ![e].voided = TRUE]
      /\ wip' = [wip EXCEPT ![x.wo] = @ + (OutputCost(e) - Value(Spread(x.cost, x.quantity)))]
      /\ row' = [row EXCEPT ![x.wo] = after]
      /\ RestoreBalance(after, Len(components) + x.quantity)
      /\ UNCHANGED <<wo, issue, issued, completion, openWip, left, call>>
  BY Zenon DEF VoidProduction, VoidExecution, ReverseWipCost, CreateWipValuation, orderVars
<1>4. x.batch /\ x.quantity <= Len(qa) /\ RowFree(x.wo)
  <2>1. x.batch /\ Remain(e) = x.quantity /\ RowFree(x.wo)
    BY <1>3, Zenon DEF VoidAllowed
  <2>2. Remain(e) <= Len(qa)
    BY RemainBounded, Zenon DEF TypeOK
  <2>3. QED BY <2>1, <2>2, Zenon
<1>5. OutputCost(e) \in Nat
  <2>1. Value(Costs(Oldest(qa, x.quantity))) \in Nat
    <3> HIDE DEF x
    <3>1. QED BY <1>2, <1>4, OutputType, Zenon
  <2>2. QED BY <2>1 DEF OutputCost
<1>6. balance' \in Balances
  <2>1. after \in Rows
    <3>1. row[x.wo] \in Rows /\ x.quantity \in Nat
      BY <1>2, Zenon DEF TypeOK
    <3> HIDE DEF x
    <3>2. QED BY <3>1, RowTypes, Zenon
  <2> HIDE DEF after
  <2>2. Open(after) \in Int
    BY <2>1 DEF Open, Rows
  <2>3. balance \in Balances
    BY Zenon DEF TypeOK
  <2>4. QED BY <1>3, <2>2, <2>3 DEF RestoreBalance, Balances
<1>7. x.batch = TRUE /\ x.voided = FALSE
  BY <1>2, <1>3, <1>4, Zenon
<1>8. QED BY <1>1, <1>2, <1>3, <1>4, <1>5, <1>6, <1>7, Zenon

(* A void keeps the types.                                                 *)
LEMMA VoidType ==
    ASSUME TypeOK, NEW e \in DOMAIN executions, VoidProduction(e)
    PROVE  TypeOK'
<1> DEFINE x == executions[e]
           output == OutputCost(e)
<1>1. /\ x \in Executions /\ output \in Nat
      /\ x.wo \in WorkOrders /\ x.quantity \in Nat \ {0} /\ x.cost \in Nat
      /\ x.quantity <= Len(qa)
      /\ qa' = Rest(qa, x.quantity)
      /\ components' = components \o Spread(x.cost, x.quantity)
      /\ executions' = [executions EXCEPT ![e].voided = TRUE]
      /\ wip' = [wip EXCEPT ![x.wo] = @ + (output - Value(Spread(x.cost, x.quantity)))]
      /\ row' = [row EXCEPT ![x.wo] = Restored(row[x.wo], x.quantity)]
      /\ balance' \in Balances
      /\ UNCHANGED <<wo, issue, issued, completion, openWip, left, call>>
  BY VoidEffect, Zenon
<1> HIDE DEF output
<1>2. executions' \in Seq(Executions)
  <2>1. [x EXCEPT !.voided = TRUE] \in Executions
    BY <1>1, Zenon DEF Executions
  <2>2. executions' = [executions EXCEPT ![e] = [x EXCEPT !.voided = TRUE]]
    BY <1>1, Zenon
  <2>3. executions \in Seq(Executions)
    BY Zenon DEF TypeOK
  <2> DEFINE y == [x EXCEPT !.voided = TRUE]
  <2> HIDE DEF x, y, Executions
  <2>4. QED BY <2>1, <2>2, <2>3, UpdatedSeq DEF y
<1> HIDE DEF x
<1>3. qa' \in Seq(Units)
  BY <1>1, OutputType, Zenon
<1>4. components' \in Seq(Nat)
  <2>1. Spread(x.cost, x.quantity) \in Seq(Nat)
    BY <1>1, SpreadType, Zenon
  <2>2. QED BY <1>1, <2>1, JoinedSeq DEF TypeOK
<1>5. row' \in [WorkOrders -> Rows]
  <2>1. Restored(row[x.wo], x.quantity) \in Rows
    BY <1>1, RowTypes, Zenon DEF TypeOK
  <2>2. QED BY <1>1, <2>1, Zenon DEF TypeOK
<1>6. wip' \in [WorkOrders -> Int]
  <2>1. wip \in [WorkOrders -> Int] /\ x.wo \in WorkOrders
    BY <1>1, Zenon DEF TypeOK
  <2> DEFINE back == Value(Spread(x.cost, x.quantity))
  <2>0. back \in Nat
    BY <1>1, SpreadType, ValueType, Zenon
  <2> HIDE DEF back
  <2>2. wip[x.wo] + (output - back) \in Int
    BY <1>1, <2>0, <2>1
  <2> QED BY <1>1, <2>1, <2>2, Zenon DEF back
<1>7. QED BY <1>1, <1>2, <1>3, <1>4, <1>5, <1>6, Zenon DEF TypeOK

(* What taking output out of QA changes.                                   *)
LEMMA LeaveEffect ==
    ASSUME TypeOK, NEW q \in Quantities, q <= Len(qa), LeaveQa(q)
    PROVE  /\ q \in Nat \ {0}
           /\ Value(Costs(Oldest(qa, q))) \in Nat
           /\ qa' = Rest(qa, q) /\ qa' \in Seq(Units)
           /\ left' = [units |-> left.units + q,
                       value |-> left.value + Value(Costs(Oldest(qa, q)))]
           /\ left' \in [units : Nat, value : Nat]
<1>1. q \in Nat \ {0}
  BY ProductionAssumption DEF Quantities
<1> DEFINE v == Value(Costs(Oldest(qa, q)))
<1>2. v \in Nat /\ Rest(qa, q) \in Seq(Units)
  BY <1>1, OutputType, Zenon
<1>3. /\ qa' = Rest(qa, q)
      /\ left' = [units |-> left.units + q, value |-> left.value + v]
  BY DEF LeaveQa
<1> HIDE DEF v
<1>4. left' \in [units : Nat, value : Nat]
  <2>1. v \in Nat
    BY <1>2, Zenon
  <2>2. QED BY <1>1, <1>3, <2>1 DEF TypeOK
<1>5. QED BY <1>1, <1>2, <1>3, <1>4, Zenon DEF v

(* Output leaves QA by scrap or by acceptance; the types are kept.         *)
LEMMA LeaveType ==
    ASSUME TypeOK, NEW q \in Quantities,
           \/ AcceptOutput(q)
           \/ \E e \in DOMAIN executions : ReportScrap(e, q)
    PROVE  TypeOK' /\ q <= Len(qa) /\ LeaveQa(q)
<1>1. ASSUME AcceptOutput(q)
      PROVE  TypeOK' /\ q <= Len(qa) /\ LeaveQa(q)
  <2>1. q <= Len(qa) /\ LeaveQa(q)
    BY <1>1, Zenon DEF AcceptOutput
  <2>2. qa' \in Seq(Units) /\ left' \in [units : Nat, value : Nat]
    BY <2>1, LeaveEffect, Zenon
  <2>3. UNCHANGED <<wo, issue, issued, completion, row, balance, components, executions,
                    openWip, wip, call>>
    BY <1>1 DEF AcceptOutput, orderVars, reservationVars
  <2>4. QED BY <2>1, <2>2, <2>3 DEF TypeOK
<1>2. ASSUME NEW e \in DOMAIN executions, ReportScrap(e, q)
      PROVE  TypeOK' /\ q <= Len(qa) /\ LeaveQa(q)
  <2> DEFINE w == executions[e].wo
             b == wo[w].scrapped + q
             x == IF wo[w].completed + b >= Planned
                  THEN "completed" ELSE "partially_completed"
  <2>1. LeaveQa(q) /\ q <= Remain(e)
    BY <1>2, Zenon DEF ReportScrap
  <2>2. q <= Len(qa)
    <3>1. Remain(e) \in Nat /\ Remain(e) <= Len(qa) /\ Len(qa) \in Nat
      BY RemainBounded DEF TypeOK
    <3>2. q \in Nat
      BY ProductionAssumption DEF Quantities
    <3>3. QED BY <2>1, <3>1, <3>2
  <2>3. qa' \in Seq(Units) /\ left' \in [units : Nat, value : Nat] /\ q \in Nat
    BY <2>1, <2>2, LeaveEffect, Zenon
  <2>4. w \in WorkOrders
    <3>1. executions[e] \in Executions
      BY DEF TypeOK
    <3>2. QED BY <3>1, Zenon DEF Executions
  <2>5. /\ wo' = [wo EXCEPT ![w].scrapped = b, ![w].status = x]
        /\ UNCHANGED <<issue, issued, completion, row, balance, components, executions,
                       openWip, wip, call>>
    BY <1>2, Zenon DEF ReportScrap, ProjectScrap, reservationVars
  <2>6. x \in Statuses /\ b \in Nat
    <3>1. wo[w] \in Orders
      BY <2>4, Zenon DEF TypeOK
    <3>2. b \in Nat
      BY <2>3, <3>1 DEF Orders
    <3>3. x \in Statuses
      BY Zenon DEF Statuses
    <3>4. QED BY <3>2, <3>3, Zenon
  <2> HIDE DEF w, b, x
  <2>7. wo' \in [WorkOrders -> Orders]
    BY <2>4, <2>5, <2>6, OrderType, Zenon DEF TypeOK
  <2>8. QED BY <2>1, <2>2, <2>3, <2>5, <2>7, Zenon DEF TypeOK
<1>3. QED BY <1>1, <1>2, Zenon

(* The type invariant holds initially and is kept by every step.           *)
LEMMA InitType == Init => TypeOK
<1> SUFFICES ASSUME Init PROVE TypeOK
  BY Zenon
<1>1. wo \in [WorkOrders -> Orders] /\ row \in [WorkOrders -> Rows]
  BY Zenon DEF Init, Orders, Statuses, Rows
<1>2. balance \in Balances /\ left \in [units : Nat, value : Nat]
  BY DEF Init, Balances
<1>3. components \in Seq(Nat) /\ executions \in Seq(Executions) /\ qa \in Seq(Units)
  BY ProductionAssumption DEF Init
<1>4. /\ issue \in [WorkOrders -> Nat] /\ issued \in [WorkOrders -> Nat]
      /\ completion \in [WorkOrders -> Nat] /\ openWip \in [WorkOrders -> Nat]
      /\ wip \in [WorkOrders -> Int]
  BY DEF Init
<1>5. call \in [Calls -> CallRecords]
  BY Zenon DEF Init, CallRecords
<1>6. QED BY <1>1, <1>2, <1>3, <1>4, <1>5, Zenon DEF TypeOK

(* Every step keeps the types.                                             *)
LEMMA NextType == TypeOK /\ [Next]_vars => TypeOK'
<1> SUFFICES ASSUME TypeOK, [Next]_vars PROVE TypeOK'
  BY Zenon
<1>1. CASE Transition
  BY <1>1, TransitionType, Zenon
<1>2. CASE Posting
  BY <1>2, PostIssueType, PostCompletionType, DraftType, RecordBatchType, VoidType, LeaveType
     DEF Posting
<1>3. CASE UNCHANGED vars
  BY <1>3, Zenon DEF TypeOK, vars, orderVars, reservationVars, costVars
<1>4. QED BY <1>1, <1>2, <1>3, Zenon DEF Next

-----------------------------------------------------------------------------
(* What the steps do to the sums.                                          *)

(* The value of units that are joined, and of units that are cut in two.   *)
LEMMA ValueOfUnits ==
    ASSUME NEW s \in Seq(Units)
    PROVE  /\ Value(Costs(s)) \in Nat
           /\ \A t \in Seq(Units) : Value(Costs(s \o t)) = Value(Costs(s)) + Value(Costs(t))
           /\ \A n \in Nat : n <= Len(s) =>
                Value(Costs(s)) = Value(Costs(Oldest(s, n))) + Value(Costs(Rest(s, n)))
<1>1. Value(Costs(s)) \in Nat
  BY CostsType, ValueType, Zenon
<1>2. ASSUME NEW r \in Seq(Units), NEW t \in Seq(Units)
      PROVE  Value(Costs(r \o t)) = Value(Costs(r)) + Value(Costs(t))
  <2>1. /\ r \o t \in Seq(Units) /\ Len(r \o t) = Len(r) + Len(t)
        /\ \A i \in 1..(Len(r) + Len(t)) :
             (r \o t)[i] = IF i <= Len(r) THEN r[i] ELSE t[i - Len(r)]
    BY JoinedSeq, Zenon
  <2>2. /\ Costs(r) \in Seq(Nat) /\ Len(Costs(r)) = Len(r)
        /\ \A i \in 1..Len(r) : Costs(r)[i] = r[i].cost
    BY CostsType, Zenon
  <2>3. /\ Costs(t) \in Seq(Nat) /\ Len(Costs(t)) = Len(t)
        /\ \A i \in 1..Len(t) : Costs(t)[i] = t[i].cost
    BY CostsType, Zenon
  <2>4. /\ Costs(r \o t) \in Seq(Nat) /\ Len(Costs(r \o t)) = Len(r) + Len(t)
        /\ \A i \in 1..(Len(r) + Len(t)) : Costs(r \o t)[i] = (r \o t)[i].cost
    BY <2>1, CostsType, Zenon
  <2>5. Costs(r \o t) = Costs(r) \o Costs(t)
    <3> DEFINE a == Costs(r)
               b == Costs(t)
               c == Costs(r \o t)
               n == Len(r)
               m == Len(t)
    <3>1. n \in Nat /\ m \in Nat
      OBVIOUS
    <3>2. \A i \in 1..(n + m) : c[i] = IF i <= n THEN a[i] ELSE b[i - n]
      <4>1. TAKE i \in 1..(n + m)
      <4>2. CASE i <= n
        <5>1. i \in 1..n
          BY <3>1, <4>2
        <5>2. c[i] = r[i].cost /\ a[i] = r[i].cost
          BY <2>1, <2>2, <2>4, <4>2, <5>1, Zenon
        <5>3. QED BY <4>2, <5>2, Zenon
      <4>3. CASE ~(i <= n)
        <5>1. i - n \in 1..m
          BY <3>1, <4>3
        <5>2. c[i] = t[i - n].cost /\ b[i - n] = t[i - n].cost
          BY <2>1, <2>3, <2>4, <4>3, <5>1, Zenon
        <5>3. QED BY <4>3, <5>2, Zenon
      <4>4. QED BY <4>2, <4>3, Zenon
    <3>3. a \in Seq(Nat) /\ b \in Seq(Nat) /\ c \in Seq(Nat)
          /\ Len(a) = n /\ Len(b) = m /\ Len(c) = n + m
      BY <2>2, <2>3, <2>4, Zenon
    <3> HIDE DEF a, b, c, n, m
    <3>4. /\ a \o b \in Seq(Nat) /\ Len(a \o b) = n + m
          /\ \A i \in 1..(n + m) : (a \o b)[i] = IF i <= n THEN a[i] ELSE b[i - n]
      BY <3>3, JoinedSeq, Zenon
    <3>5. c = a \o b
      <4> DEFINE d == a \o b
      <4>1. /\ d \in Seq(Nat) /\ Len(d) = Len(c)
            /\ \A i \in 1..Len(c) : c[i] = d[i]
        BY <3>2, <3>3, <3>4, Zenon
      <4> HIDE DEF d
      <4>2. c = d
        BY <3>3, <4>1
      <4>3. QED BY <4>2, Zenon DEF d
    <3>6. QED BY <3>5 DEF a, b, c
  <2>6. Costs(r) \in Seq(Int) /\ Costs(t) \in Seq(Int)
    BY <2>2, <2>3
  <2>7. QED BY <2>5, <2>6, TotalOfConcatenation, Zenon DEF Value
<1>3. ASSUME NEW n \in Nat, n <= Len(s)
      PROVE  Value(Costs(s)) = Value(Costs(Oldest(s, n))) + Value(Costs(Rest(s, n)))
  <2>1. Oldest(s, n) \in Seq(Units) /\ Rest(s, n) \in Seq(Units)
    BY <1>3, CutTypes, Zenon
  <2>2. s = Oldest(s, n) \o Rest(s, n)
    <3>1. n \in 0..Len(s)
      BY <1>3
    <3>2. QED BY <3>1, SplitAndJoined, Zenon DEF Oldest, Rest
  <2>3. QED BY <1>2, <2>1, <2>2, Zenon
<1>4. QED BY <1>1, <1>2, <1>3, Zenon

(* The value of component layers that are joined or cut.                   *)
LEMMA ValueOfLayers ==
    ASSUME NEW s \in Seq(Nat)
    PROVE  /\ Value(s) \in Nat
           /\ \A t \in Seq(Nat) : Value(s \o t) = Value(s) + Value(t)
           /\ \A n \in Nat : n <= Len(s) =>
                Value(s) = Value(Oldest(s, n)) + Value(Rest(s, n))
<1>1. s \in Seq(Int) /\ \A t \in Seq(Nat) : t \in Seq(Int)
  OBVIOUS
<1>2. ASSUME NEW n \in Nat, n <= Len(s)
      PROVE  Value(s) = Value(Oldest(s, n)) + Value(Rest(s, n))
  <2>1. n \in 0..Len(s)
    BY <1>2
  <2>2. QED BY <1>1, <2>1, TotalOfSplit, Zenon DEF Value, Oldest, Rest
<1>3. QED BY <1>1, <1>2, ValueType, TotalOfConcatenation, Zenon DEF Value

(* A valuation record changes the total of WIP by its own value.           *)
LEMMA WipTotal ==
    ASSUME TypeOK, NEW w \in WorkOrders, NEW k \in Int,
           wip' = [wip EXCEPT ![w] = @ + k]
    PROVE  SumFunction(wip) \in Int /\ SumFunction(wip') = SumFunction(wip) + k
<1> DEFINE f == wip
           g == [wip EXCEPT ![w] = @ + k]
<1>1. /\ DOMAIN f = WorkOrders /\ DOMAIN g = WorkOrders
      /\ \A y \in WorkOrders : f[y] \in Int /\ g[y] \in Int
      /\ \A y \in WorkOrders \ {w} : f[y] = g[y]
      /\ g[w] = f[w] + k
  BY DEF TypeOK
<1> HIDE DEF f, g
<1>2. SumFunctionOnSet(g, WorkOrders) = SumFunctionOnSet(f, WorkOrders) - f[w] + g[w]
  BY <1>1, ProductionAssumption, SumAtPoint, SMTT(20)
<1>3. SumFunctionOnSet(f, WorkOrders) \in Int
  BY <1>1, ProductionAssumption, SumIsInteger, Zenon
<1>4. SumFunctionOnSet(g, WorkOrders) = SumFunctionOnSet(f, WorkOrders) + k
  BY <1>1, <1>2, <1>3
<1>5. QED BY <1>1, <1>3, <1>4, Zenon DEF SumFunction, f, g

(* What rounding takes out of one execution, and out of a list of them.    *)
Off(x) == x.cost - Value(Spread(x.cost, x.quantity))

RoundingOf(xs) == [e \in DOMAIN xs |-> Off(xs[e])]

QuantityOf(xs) == [e \in DOMAIN xs |-> xs[e].quantity]

(* Rounding and quantity read the executions only.                         *)
LEMMA RoundingIs ==
    /\ Rounding = RoundingOf(executions) /\ Rounding' = RoundingOf(executions')
    /\ Quantity = QuantityOf(executions) /\ Quantity' = QuantityOf(executions')
BY Zenon DEF Rounding, RoundingOf, Off, Quantity, QuantityOf

(* Rounding is an integer, of either sign.                                 *)
LEMMA OffType ==
    ASSUME NEW x \in Executions
    PROVE  Off(x) \in Int
<1>1. x.cost \in Nat /\ x.quantity \in Nat \ {0}
  BY Zenon DEF Executions
<1>2. Value(Spread(x.cost, x.quantity)) \in Nat
  BY <1>1, SpreadType, ValueType, Zenon
<1>3. QED BY <1>1, <1>2 DEF Off

(* A list of executions: its domain and the sums over it.                  *)
LEMMA ExecutionSums ==
    ASSUME NEW xs \in Seq(Executions)
    PROVE  /\ DOMAIN xs = 1..Len(xs) /\ IsFiniteSet(DOMAIN xs) /\ Len(xs) \in Nat
           /\ \A e \in DOMAIN xs : /\ xs[e] \in Executions
                                   /\ RoundingOf(xs)[e] = Off(xs[e])
                                   /\ RoundingOf(xs)[e] \in Int
                                   /\ QuantityOf(xs)[e] = xs[e].quantity
                                   /\ QuantityOf(xs)[e] \in Nat \ {0}
           /\ SumFunction(RoundingOf(xs)) = SumFunctionOnSet(RoundingOf(xs), DOMAIN xs)
           /\ SumFunction(RoundingOf(xs)) \in Int
           /\ \A S \in SUBSET DOMAIN xs : /\ IsFiniteSet(S)
                                          /\ SumFunctionOnSet(QuantityOf(xs), S) \in Nat
<1>1. DOMAIN xs = 1..Len(xs) /\ Len(xs) \in Nat /\ IsFiniteSet(DOMAIN xs)
  BY FS_Interval
<1>2. \A e \in DOMAIN xs : xs[e] \in Executions
  BY <1>1
<1>3. \A e \in DOMAIN xs : RoundingOf(xs)[e] = Off(xs[e]) /\ RoundingOf(xs)[e] \in Int
  BY <1>2, OffType, Zenon DEF RoundingOf
<1>4. \A e \in DOMAIN xs :
        QuantityOf(xs)[e] = xs[e].quantity /\ QuantityOf(xs)[e] \in Nat \ {0}
  BY <1>2, Zenon DEF QuantityOf, Executions
<1> DEFINE D == DOMAIN xs
           f == RoundingOf(xs)
           g == QuantityOf(xs)
<1>5. DOMAIN f = D
  BY Zenon DEF RoundingOf
<1>6. SumFunction(f) = SumFunctionOnSet(f, D)
  BY <1>5 DEF SumFunction
<1>7. IsFiniteSet(D) /\ (\A e \in D : f[e] \in Int) /\ (\A e \in D : g[e] \in Nat)
  BY <1>1, <1>3, <1>4, Zenon
<1> HIDE DEF D, f, g
<1>8. SumFunctionOnSet(f, D) \in Int
  BY <1>7, SumIsInteger, Zenon
<1>9. ASSUME NEW S \in SUBSET D
      PROVE  IsFiniteSet(S) /\ SumFunctionOnSet(g, S) \in Nat
  <2>1. IsFiniteSet(S)
    BY <1>7, FS_Subset, Zenon
  <2>2. QED BY <1>7, <2>1, SumIsNatural
<1>10. QED BY <1>1, <1>2, <1>3, <1>4, <1>6, <1>8, <1>9, SMTT(20) DEF D, f, g

(* A posted execution adds its rounding and, to a sum that counts it, its  *)
(* quantity.                                                               *)
LEMMA ExecutionAppended ==
    ASSUME NEW xs \in Seq(Executions), NEW x \in Executions, x.voided = FALSE
    PROVE  LET ys == Append(xs, x)
               e == Len(xs) + 1
           IN  /\ ys \in Seq(Executions) /\ e \notin DOMAIN xs /\ DOMAIN ys = DOMAIN xs \cup {e}
               /\ ys[e] = x /\ \A d \in DOMAIN xs : ys[d] = xs[d]
               /\ SumFunction(RoundingOf(ys)) = SumFunction(RoundingOf(xs)) + Off(x)
               /\ \A S \in SUBSET DOMAIN xs :
                    /\ SumFunctionOnSet(QuantityOf(ys), S) = SumFunctionOnSet(QuantityOf(xs), S)
                    /\ SumFunctionOnSet(QuantityOf(ys), S \cup {e})
                         = SumFunctionOnSet(QuantityOf(xs), S) + x.quantity
<1> DEFINE ys == Append(xs, x)
           e == Len(xs) + 1
           D == DOMAIN xs
           E == DOMAIN ys
           f == RoundingOf(xs)
           g == RoundingOf(ys)
           p == QuantityOf(xs)
           q == QuantityOf(ys)
<1>1. /\ ys \in Seq(Executions) /\ Len(ys) = Len(xs) + 1
      /\ \A d \in 1..Len(xs) : ys[d] = xs[d]
      /\ ys[e] = x
  BY ExtendedSeq
<1> HIDE DEF ys
<1>2. /\ D = 1..Len(xs) /\ E = 1..Len(ys) /\ Len(xs) \in Nat
      /\ IsFiniteSet(D) /\ IsFiniteSet(E)
      /\ SumFunction(f) = SumFunctionOnSet(f, D) /\ SumFunction(g) = SumFunctionOnSet(g, E)
      /\ \A d \in E : g[d] \in Int /\ g[d] = Off(ys[d])
      /\ \A d \in D : f[d] = Off(xs[d])
      /\ \A d \in E : q[d] \in Nat \ {0} /\ q[d] = ys[d].quantity
      /\ \A d \in D : p[d] = xs[d].quantity
      /\ \A S \in SUBSET D : IsFiniteSet(S)
  BY <1>1, ExecutionSums, Zenon
<1>3. e \notin D /\ E = D \cup {e}
  BY <1>1, <1>2
<1>4. \A d \in D : ys[d] = xs[d]
  BY <1>1, <1>2, Zenon
<1>5. g[e] = Off(x) /\ q[e] = x.quantity
  BY <1>1, <1>2, <1>3, Zenon
<1>6. \A d \in D : f[d] = g[d] /\ p[d] = q[d]
  BY <1>2, <1>3, <1>4, Zenon
<1> HIDE DEF e, D, E, f, g, p, q
<1>7. SumFunctionOnSet(g, E) = SumFunctionOnSet(f, D) + Off(x)
  <2>1. SumFunctionOnSet(g, D \cup {e}) = SumFunctionOnSet(g, D) + g[e]
    <3>1. IsFiniteSet(D) /\ e \notin D /\ \A y \in D \cup {e} : g[y] \in Int
      BY <1>2, <1>3, SMTT(20)
    <3>2. QED BY <3>1, SumInserted, Zenon
  <2>2. SumFunctionOnSet(f, D) = SumFunctionOnSet(g, D)
    BY <1>2, <1>6, SumAgrees
  <2>3. QED BY <1>3, <1>5, <2>1, <2>2, Zenon
<1>8. ASSUME NEW S \in SUBSET D
      PROVE  /\ SumFunctionOnSet(q, S) = SumFunctionOnSet(p, S)
             /\ SumFunctionOnSet(q, S \cup {e}) = SumFunctionOnSet(p, S) + x.quantity
  <2>1. IsFiniteSet(S) /\ e \notin S /\ \A y \in S \cup {e} : q[y] \in Int
    BY <1>2, <1>3
  <2>2. SumFunctionOnSet(q, S \cup {e}) = SumFunctionOnSet(q, S) + q[e]
    BY <2>1, SumInserted, Zenon
  <2>3. SumFunctionOnSet(p, S) = SumFunctionOnSet(q, S)
    BY <1>6, <2>1, SumAgrees, Zenon
  <2>4. QED BY <1>5, <2>2, <2>3, Zenon
<1>9. QED BY <1>1, <1>2, <1>3, <1>4, <1>7, <1>8, Zenon DEF ys, e, D, E, f, g, p, q

(* A void leaves the rounding alone and takes the execution's quantity out *)
(* of a sum that counted it.                                               *)
LEMMA ExecutionVoided ==
    ASSUME NEW xs \in Seq(Executions), NEW e \in DOMAIN xs, xs[e].voided = FALSE
    PROVE  LET ys == [xs EXCEPT ![e].voided = TRUE]
           IN  /\ ys \in Seq(Executions) /\ DOMAIN ys = DOMAIN xs
               /\ ys[e] = [xs[e] EXCEPT !.voided = TRUE]
               /\ \A d \in DOMAIN xs \ {e} : ys[d] = xs[d]
               /\ SumFunction(RoundingOf(ys)) = SumFunction(RoundingOf(xs))
               /\ \A S \in SUBSET DOMAIN xs :
                    /\ SumFunctionOnSet(QuantityOf(ys), S) = SumFunctionOnSet(QuantityOf(xs), S)
                    /\ e \in S =>
                        SumFunctionOnSet(QuantityOf(ys), S \ {e})
                            = SumFunctionOnSet(QuantityOf(xs), S) - xs[e].quantity
<1> DEFINE x == xs[e]
           y == [x EXCEPT !.voided = TRUE]
           ys == [xs EXCEPT ![e].voided = TRUE]
           D == DOMAIN xs
           f == RoundingOf(xs)
           g == RoundingOf(ys)
           p == QuantityOf(xs)
           q == QuantityOf(ys)
<1>1. /\ D = 1..Len(xs) /\ IsFiniteSet(D)
      /\ SumFunction(f) = SumFunctionOnSet(f, D) /\ SumFunction(f) \in Int
      /\ \A d \in D : /\ xs[d] \in Executions
                      /\ f[d] \in Int /\ f[d] = Off(xs[d])
                      /\ p[d] \in Nat \ {0} /\ p[d] = xs[d].quantity
      /\ \A S \in SUBSET D : IsFiniteSet(S) /\ SumFunctionOnSet(p, S) \in Nat
  BY ExecutionSums, Zenon
<1>2. x \in Executions /\ x.voided = FALSE
  BY <1>1, Zenon
<1>3. y \in Executions /\ y.voided = TRUE /\ y.quantity = x.quantity /\ y.cost = x.cost
  <2> HIDE DEF x
  <2>1. QED BY <1>2, Zenon DEF Executions
<1>4. ys = [xs EXCEPT ![e] = y]
  OBVIOUS
<1>5. Off(y) = Off(x)
  BY <1>3, Zenon DEF Off
<1> HIDE DEF x, y
<1>6. /\ ys \in Seq(Executions) /\ Len(ys) = Len(xs)
      /\ \A d \in 1..Len(xs) : ys[d] = IF d = e THEN y ELSE xs[d]
  <2>1. e \in 1..Len(xs)
    BY <1>1, Zenon
  <2> HIDE DEF ys, D
  <2>2. QED BY <1>3, <1>4, <2>1, UpdatedSeq
<1> HIDE DEF ys
<1>7. /\ DOMAIN ys = D
      /\ SumFunction(g) = SumFunctionOnSet(g, D)
      /\ \A d \in D : /\ g[d] \in Int /\ g[d] = Off(ys[d])
                      /\ q[d] \in Nat \ {0} /\ q[d] = ys[d].quantity
  <2>1. DOMAIN ys = 1..Len(ys)
    BY <1>6, ExecutionSums
  <2>2. DOMAIN ys = D
    BY <1>1, <1>6, <2>1, Zenon
  <2>3. QED BY <1>6, <2>2, ExecutionSums, Zenon
<1>8. ys[e] = y /\ \A d \in D \ {e} : ys[d] = xs[d]
  BY <1>1, <1>6, Zenon
<1>9. \A d \in D : f[d] = g[d]
  BY <1>1, <1>5, <1>7, <1>8, SMTT(20) DEF x
<1>10. p[e] = x.quantity /\ \A d \in D : p[d] = q[d]
  BY <1>1, <1>3, <1>7, <1>8, SMTT(20) DEF x
<1> HIDE DEF D, f, g, p, q
<1>12. SumFunctionOnSet(f, D) = SumFunctionOnSet(g, D)
  BY <1>1, <1>9, SumAgrees
<1>13. ASSUME NEW S \in SUBSET D
       PROVE  /\ SumFunctionOnSet(q, S) = SumFunctionOnSet(p, S)
              /\ e \in S => SumFunctionOnSet(q, S \ {e}) = SumFunctionOnSet(p, S) - x.quantity
  <2>1. IsFiniteSet(S) /\ IsFiniteSet(S \ {e})
    <3>1. S \ {e} \in SUBSET D
      BY Zenon
    <3>2. QED BY <1>1, <3>1, Zenon
  <2>2. SumFunctionOnSet(p, S) = SumFunctionOnSet(q, S)
    BY <1>10, <2>1, SumAgrees
  <2>3. SumFunctionOnSet(p, S \ {e}) = SumFunctionOnSet(q, S \ {e})
    <3> DEFINE T == S \ {e}
    <3>1. IsFiniteSet(T) /\ \A d \in T : p[d] = q[d]
      BY <1>10, <2>1, Zenon
    <3> HIDE DEF T
    <3>2. SumFunctionOnSet(p, T) = SumFunctionOnSet(q, T)
      BY <3>1, SumAgrees
    <3>3. QED BY <3>2, Zenon DEF T
  <2>4. ASSUME e \in S
        PROVE  SumFunctionOnSet(q, S \ {e}) = SumFunctionOnSet(p, S) - x.quantity
    <3>1. \A d \in S : p[d] \in Int
      BY <1>1
    <3>2. SumFunctionOnSet(p, S) = p[e] + SumFunctionOnSet(p, S \ {e})
      BY <2>1, <2>4, <3>1, SumWithout, SMTT(20)
    <3>3. SumFunctionOnSet(p, S \ {e}) \in Nat /\ p[e] \in Nat
      BY <1>1, <2>4, Zenon
    <3>4. QED BY <1>10, <2>3, <3>2, <3>3, SMTT(20)
  <2>5. QED BY <2>2, <2>4, Zenon
<1>14. QED BY <1>1, <1>6, <1>7, <1>8, <1>12, <1>13, Zenon DEF x, y, ys, D, f, g, p, q

-----------------------------------------------------------------------------
(* Value is conserved.                                                     *)

(* The value there is: in component layers, in WIP, in QA, beyond QA, and  *)
(* lost to rounding.                                                       *)
TotalValue ==
    Value(components) + SumFunction(wip) + Value(Costs(qa)) + left.value
        + SumFunction(RoundingOf(executions))

(* The parts of the total are numbers.                                     *)
LEMMA TotalParts ==
    ASSUME TypeOK
    PROVE  /\ Value(components) \in Nat /\ SumFunction(wip) \in Int
           /\ Value(Costs(qa)) \in Nat /\ left.value \in Nat /\ left.units \in Nat
           /\ SumFunction(RoundingOf(executions)) \in Int
<1>1. Value(components) \in Nat
  BY ValueOfLayers, Zenon DEF TypeOK
<1>2. SumFunction(wip) \in Int
  <2>1. DOMAIN wip = WorkOrders /\ \A w \in WorkOrders : wip[w] \in Int
    BY Zenon DEF TypeOK
  <2>2. SumFunctionOnSet(wip, WorkOrders) \in Int
    BY <2>1, ProductionAssumption, SumIsInteger
  <2>3. QED BY <2>1, <2>2, Zenon DEF SumFunction
<1>3. Value(Costs(qa)) \in Nat
  BY ValueOfUnits, Zenon DEF TypeOK
<1>4. left.value \in Nat /\ left.units \in Nat
  BY Zenon DEF TypeOK
<1>5. SumFunction(RoundingOf(executions)) \in Int
  BY ExecutionSums, Zenon DEF TypeOK
<1>6. QED BY <1>1, <1>2, <1>3, <1>4, <1>5, Zenon

(* Components taken: their value leaves the layers.                        *)
LEMMA ComponentsTaken ==
    ASSUME TypeOK, NEW q \in Nat, q <= Len(components), components' = Rest(components, q)
    PROVE  /\ Value(Oldest(components, q)) \in Nat
           /\ Value(components') = Value(components) - Value(Oldest(components, q))
<1>1. components \in Seq(Nat)
  BY Zenon DEF TypeOK
<1>2. Value(components) = Value(Oldest(components, q)) + Value(Rest(components, q))
  BY <1>1, ValueOfLayers, Zenon
<1>3. Value(Oldest(components, q)) \in Nat /\ Value(Rest(components, q)) \in Nat
  BY TakenType, ValueType, Zenon
<1>4. QED BY <1>2, <1>3

(* Output produced: QA gains its cost, less the rounding, and its units.   *)
LEMMA OutputProduced ==
    ASSUME TypeOK, NEW w \in WorkOrders, NEW q \in Nat \ {0}, NEW cost \in Nat,
           NEW batch \in BOOLEAN,
           qa' = qa \o Produced(Len(executions) + 1, cost, q),
           executions' = Append(executions, Execution(w, q, cost, batch))
    PROVE  /\ Value(Costs(qa')) + SumFunction(RoundingOf(executions'))
                = Value(Costs(qa)) + SumFunction(RoundingOf(executions)) + cost
           /\ Len(qa') = Len(qa) + q
<1> DEFINE e == Len(executions) + 1
           new == Produced(e, cost, q)
           x == Execution(w, q, cost, batch)
           v == Value(Spread(cost, q))
<1>1. executions \in Seq(Executions) /\ qa \in Seq(Units) /\ e \in Nat
  BY DEF TypeOK
<1>2. new \in Seq(Units) /\ Len(new) = q /\ Costs(new) = Spread(cost, q)
  <2> HIDE DEF e
  <2>1. QED BY <1>1, ProducedType, Zenon
<1>3. v \in Nat
  BY SpreadType, ValueType, Zenon
<1>4. Value(Costs(qa')) = Value(Costs(qa)) + v
  <2> HIDE DEF new, e
  <2>1. qa' = qa \o new
    BY Zenon DEF new, e
  <2>2. Value(Costs(qa \o new)) = Value(Costs(qa)) + Value(Costs(new))
    BY <1>1, <1>2, ValueOfUnits
  <2>3. QED BY <1>2, <2>1, <2>2, Zenon
<1>5. x \in Executions /\ x.voided = FALSE /\ Off(x) = cost - v
  BY ExecutedType, Zenon DEF Off, Execution
<1>6. SumFunction(RoundingOf(executions')) = SumFunction(RoundingOf(executions)) + (cost - v)
  <2> HIDE DEF x, e, v
  <2>1. executions' = Append(executions, x)
    BY Zenon DEF x
  <2>2. SumFunction(RoundingOf(Append(executions, x)))
          = SumFunction(RoundingOf(executions)) + Off(x)
    BY <1>1, <1>5, ExecutionAppended, Zenon
  <2>3. QED BY <1>5, <2>1, <2>2, Zenon
<1>7. Len(qa') = Len(qa) + q
  <2> HIDE DEF new, e
  <2>1. Len(qa \o new) = Len(qa) + Len(new)
    BY <1>1, <1>2, JoinedSeq, Zenon
  <2>2. QED BY <1>2, <2>1, Zenon DEF new, e
<1> HIDE DEF v, x, e, new
<1>8. QED BY <1>3, <1>4, <1>6, <1>7, TotalParts, SMTT(20)

(* The executions that stand, and the output that no execution accounts    *)
(* for.                                                                    *)
Standing(xs) == {e \in DOMAIN xs : ~xs[e].voided}

NetOutput ==
    Len(qa) + left.units - SumFunctionOnSet(QuantityOf(executions), Standing(executions))

(* An execution that is posted stands; one that is voided does not.        *)
LEMMA StandingQuantity ==
    ASSUME NEW xs \in Seq(Executions)
    PROVE  /\ SumFunctionOnSet(QuantityOf(xs), Standing(xs)) \in Nat
           /\ \A x \in Executions : x.voided = FALSE =>
                SumFunctionOnSet(QuantityOf(Append(xs, x)), Standing(Append(xs, x)))
                    = SumFunctionOnSet(QuantityOf(xs), Standing(xs)) + x.quantity
           /\ \A e \in DOMAIN xs : xs[e].voided = FALSE =>
                LET ys == [xs EXCEPT ![e].voided = TRUE]
                IN  SumFunctionOnSet(QuantityOf(ys), Standing(ys))
                        = SumFunctionOnSet(QuantityOf(xs), Standing(xs)) - xs[e].quantity
<1> DEFINE S == Standing(xs)
<1>1. S \in SUBSET DOMAIN xs
  BY Zenon DEF Standing
<1>2. SumFunctionOnSet(QuantityOf(xs), S) \in Nat
  BY <1>1, ExecutionSums, Zenon
<1>3. ASSUME NEW x \in Executions, x.voided = FALSE
      PROVE  SumFunctionOnSet(QuantityOf(Append(xs, x)), Standing(Append(xs, x)))
                 = SumFunctionOnSet(QuantityOf(xs), S) + x.quantity
  <2> DEFINE ys == Append(xs, x)
             e == Len(xs) + 1
  <2>1. /\ e \notin DOMAIN xs /\ DOMAIN ys = DOMAIN xs \cup {e}
        /\ ys[e] = x /\ \A d \in DOMAIN xs : ys[d] = xs[d]
    BY <1>3, ExecutionAppended
  <2> HIDE DEF ys, e
  <2>2. Standing(ys) = S \cup {e}
    BY <1>3, <2>1, Zenon DEF Standing
  <2>3. SumFunctionOnSet(QuantityOf(ys), S \cup {e})
          = SumFunctionOnSet(QuantityOf(xs), S) + x.quantity
    <3>1. \A T \in SUBSET DOMAIN xs :
            SumFunctionOnSet(QuantityOf(ys), T \cup {e})
                = SumFunctionOnSet(QuantityOf(xs), T) + x.quantity
      BY <1>3, ExecutionAppended, Zenon DEF ys, e
    <3> HIDE DEF S
    <3>2. QED BY <1>1, <3>1, Zenon
  <2>4. QED BY <2>2, <2>3, Zenon DEF ys
<1>4. ASSUME NEW e \in DOMAIN xs, xs[e].voided = FALSE
      PROVE  LET ys == [xs EXCEPT ![e].voided = TRUE]
             IN  SumFunctionOnSet(QuantityOf(ys), Standing(ys))
                     = SumFunctionOnSet(QuantityOf(xs), S) - xs[e].quantity
  <2> DEFINE ys == [xs EXCEPT ![e].voided = TRUE]
  <2>1. /\ DOMAIN ys = DOMAIN xs /\ ys[e] = [xs[e] EXCEPT !.voided = TRUE]
        /\ \A d \in DOMAIN xs \ {e} : ys[d] = xs[d]
    BY <1>4, ExecutionVoided, Zenon
  <2>2. ys[e].voided = TRUE
    <3>1. xs[e] \in Executions
      BY ExecutionSums, Zenon
    <3> HIDE DEF ys
    <3>2. QED BY <2>1, <3>1, Zenon DEF Executions
  <2> HIDE DEF ys
  <2>3. Standing(ys) = S \ {e} /\ e \in S
    BY <1>4, <2>1, <2>2, Zenon DEF Standing
  <2>4. SumFunctionOnSet(QuantityOf(ys), S \ {e})
          = SumFunctionOnSet(QuantityOf(xs), S) - xs[e].quantity
    BY <1>1, <1>4, <2>3, ExecutionVoided, Zenon DEF ys
  <2>5. QED BY <2>3, <2>4, Zenon DEF ys
<1>5. QED BY <1>2, <1>3, <1>4, Zenon

(* No step changes the total value or the output not accounted for: an     *)
(* issue moves value into WIP,                                             *)
LEMMA IssueConserves ==
    ASSUME TypeOK, NEW w \in WorkOrders, PostIssue(w)
    PROVE  TotalValue' = TotalValue /\ NetOutput' = NetOutput
<1> DEFINE q == issue[w]
           cost == Value(Oldest(components, q))
<1>1. q \in Nat /\ ReserveAndConsume(w, q)
  BY Zenon DEF TypeOK, PostIssue
<1>2. /\ components' = Rest(components, q)
      /\ wip' = [wip EXCEPT ![w] = @ + cost]
      /\ UNCHANGED <<executions, qa, left>>
  BY DEF PostIssue, CreateWipValuation
<1> HIDE DEF q
<1>3. q <= Len(components)
  BY <1>1, ReserveEffect, Zenon
<1>4. cost \in Nat /\ Value(components') = Value(components) - cost
  BY <1>1, <1>2, <1>3, ComponentsTaken, Zenon
<1> HIDE DEF cost
<1>5. SumFunction(wip') = SumFunction(wip) + cost
  <2>1. cost \in Int
    BY <1>4
  <2>2. QED BY <1>2, <2>1, WipTotal, Zenon
<1>6. TotalValue' = TotalValue
  BY <1>2, <1>4, <1>5, TotalParts, SMTT(20) DEF TotalValue
<1>7. NetOutput' = NetOutput
  BY <1>2, Zenon DEF NetOutput
<1>8. QED BY <1>6, <1>7, Zenon

(* a completion out of WIP into QA,                                        *)
LEMMA CompletionConserves ==
    ASSUME TypeOK, NEW w \in WorkOrders, PostCompletion(w)
    PROVE  TotalValue' = TotalValue /\ NetOutput' = NetOutput
<1> DEFINE q == completion[w]
           cost == openWip[w]
           x == Execution(w, q, cost, FALSE)
<1>1. q \in Nat \ {0} /\ cost \in Nat
  BY DEF TypeOK, PostCompletion
<1>2. /\ wip' = [wip EXCEPT ![w] = @ + (-cost)]
      /\ qa' = qa \o Produced(Len(executions) + 1, cost, q)
      /\ executions' = Append(executions, x)
      /\ UNCHANGED <<components, left>>
  BY DEF PostCompletion, AllocateWipCost, CreateWipValuation, ProjectCompletion
<1> HIDE DEF q, cost
<1>3. /\ Value(Costs(qa')) + SumFunction(RoundingOf(executions'))
           = Value(Costs(qa)) + SumFunction(RoundingOf(executions)) + cost
      /\ Len(qa') = Len(qa) + q
  BY <1>1, <1>2, OutputProduced, Zenon
<1>4. SumFunction(wip') = SumFunction(wip) - cost
  <2>1. -cost \in Int
    BY <1>1
  <2>2. SumFunction(wip') = SumFunction(wip) + (-cost) /\ SumFunction(wip) \in Int
    BY <1>2, <2>1, WipTotal, Zenon
  <2>3. QED BY <1>1, <2>2, Zenon
<1>5. TypeOK'
  BY PostCompletionType, Zenon
<1>6. TotalValue' = TotalValue
  <2>1. /\ Value(Costs(qa')) \in Nat /\ SumFunction(RoundingOf(executions')) \in Int
    BY <1>5, ValueOfUnits, ExecutionSums, Zenon DEF TypeOK
  <2>2. /\ Value(components) \in Nat /\ SumFunction(wip) \in Int
        /\ Value(Costs(qa)) \in Nat /\ left.value \in Nat
        /\ SumFunction(RoundingOf(executions)) \in Int
    BY TotalParts, Zenon
  <2>3. TotalValue' = Value(components) + (SumFunction(wip) - cost) + Value(Costs(qa'))
                        + left.value + SumFunction(RoundingOf(executions'))
    BY <1>2, <1>4 DEF TotalValue
  <2> DEFINE a == Value(components)
             k == SumFunction(wip)
             b == Value(Costs(qa))
             d == left.value
             r == SumFunction(RoundingOf(executions))
             v == Value(Costs(qa'))
             u == SumFunction(RoundingOf(executions'))
  <2>4. /\ a \in Nat /\ k \in Int /\ b \in Nat /\ d \in Nat /\ r \in Int
        /\ v \in Nat /\ u \in Int /\ v + u = b + r + cost
    BY <1>3, <2>1, <2>2, Zenon
  <2>5. TotalValue = a + k + b + d + r /\ TotalValue' = a + (k - cost) + v + d + u
    BY <2>3, Zenon DEF TotalValue
  <2> HIDE DEF a, k, b, d, r, v, u
  <2>6. QED BY <1>1, <2>4, <2>5
<1>7. x \in Executions /\ x.voided = FALSE /\ x.quantity = q
  BY <1>1, ExecutedType, Zenon DEF Execution
<1> HIDE DEF x
<1>8. NetOutput' = NetOutput
  <2> DEFINE a == SumFunctionOnSet(QuantityOf(executions), Standing(executions))
  <2>1. a \in Nat /\ SumFunctionOnSet(QuantityOf(executions'), Standing(executions')) = a + q
    BY <1>2, <1>7, StandingQuantity, Zenon DEF TypeOK
  <2>2. Len(qa) \in Nat /\ left.units \in Nat /\ left' = left
    BY <1>2, TotalParts DEF TypeOK
  <2> HIDE DEF a
  <2>3. QED BY <1>1, <1>3, <2>1, <2>2 DEF NetOutput, a
<1>9. QED BY <1>6, <1>8, Zenon

(* a batch straight from the components into QA,                           *)
LEMMA BatchConserves ==
    ASSUME TypeOK, NEW w \in WorkOrders, NEW q \in Quantities, RecordBatch(w, q)
    PROVE  TotalValue' = TotalValue /\ NetOutput' = NetOutput
<1> DEFINE cost == Value(Oldest(components, q))
           x == Execution(w, q, cost, TRUE)
<1>1. q \in Nat \ {0}
  BY ProductionAssumption DEF Quantities
<1>2. ReserveAndConsume(w, q)
  BY Zenon DEF RecordBatch, ExecuteBatch
<1>3. q <= Len(components)
  BY <1>1, <1>2, ReserveEffect, Zenon
<1>4. /\ components' = Rest(components, q)
      /\ wip' = [wip EXCEPT ![w] = @ + (cost - cost)]
      /\ qa' = qa \o Produced(Len(executions) + 1, cost, q)
      /\ executions' = Append(executions, x)
      /\ UNCHANGED left
  BY DEF RecordBatch, ExecuteBatch, CreateWipValuation, ProjectBatch
<1>5. cost \in Nat /\ Value(components') = Value(components) - cost
  BY <1>1, <1>3, <1>4, ComponentsTaken
<1> HIDE DEF cost
<1>6. /\ Value(Costs(qa')) + SumFunction(RoundingOf(executions'))
           = Value(Costs(qa)) + SumFunction(RoundingOf(executions)) + cost
      /\ Len(qa') = Len(qa) + q
  <2>1. cost \in Nat
    BY <1>5, Zenon
  <2>2. QED BY <1>1, <1>4, <2>1, OutputProduced, Zenon
<1>7. SumFunction(wip') = SumFunction(wip)
  <2>1. cost - cost \in Int /\ cost - cost = 0
    BY <1>5
  <2>2. SumFunction(wip') = SumFunction(wip) + (cost - cost) /\ SumFunction(wip) \in Int
    <3> DEFINE k == cost - cost
    <3>1. k \in Int /\ wip' = [wip EXCEPT ![w] = @ + k]
      BY <1>4, <2>1
    <3> HIDE DEF k
    <3>2. SumFunction(wip') = SumFunction(wip) + k /\ SumFunction(wip) \in Int
      BY <3>1, WipTotal, Zenon
    <3>3. QED BY <3>2, Zenon DEF k
  <2>3. QED BY <2>1, <2>2
<1>8. TypeOK'
  BY RecordBatchType, Zenon
<1>9. TotalValue' = TotalValue
  <2>1. /\ Value(Costs(qa')) \in Nat /\ SumFunction(RoundingOf(executions')) \in Int
    BY <1>8, ValueOfUnits, ExecutionSums, Zenon DEF TypeOK
  <2>2. /\ Value(components) \in Nat /\ SumFunction(wip) \in Int
        /\ Value(Costs(qa)) \in Nat /\ left.value \in Nat
        /\ SumFunction(RoundingOf(executions)) \in Int
    BY TotalParts, Zenon
  <2>3. TotalValue' = (Value(components) - cost) + SumFunction(wip) + Value(Costs(qa'))
                        + left.value + SumFunction(RoundingOf(executions'))
    BY <1>4, <1>5, <1>7, Zenon DEF TotalValue
  <2> DEFINE a == Value(components)
             k == SumFunction(wip)
             b == Value(Costs(qa))
             d == left.value
             r == SumFunction(RoundingOf(executions))
             v == Value(Costs(qa'))
             u == SumFunction(RoundingOf(executions'))
  <2>4. /\ a \in Nat /\ k \in Int /\ b \in Nat /\ d \in Nat /\ r \in Int
        /\ v \in Nat /\ u \in Int /\ v + u = b + r + cost /\ cost \in Nat
    BY <1>5, <1>6, <2>1, <2>2
  <2>5. TotalValue = a + k + b + d + r /\ TotalValue' = (a - cost) + k + v + d + u
    BY <2>3, Zenon DEF TotalValue
  <2> HIDE DEF a, k, b, d, r, v, u
  <2>6. QED BY <2>4, <2>5
<1>10. x \in Executions /\ x.voided = FALSE /\ x.quantity = q
  <2>1. cost \in Nat
    BY <1>5, Zenon
  <2>2. QED BY <1>1, <2>1, ExecutedType, Zenon DEF Execution
<1> HIDE DEF x
<1>11. NetOutput' = NetOutput
  <2> DEFINE a == SumFunctionOnSet(QuantityOf(executions), Standing(executions))
  <2>1. a \in Nat /\ SumFunctionOnSet(QuantityOf(executions'), Standing(executions')) = a + q
    BY <1>4, <1>10, StandingQuantity, Zenon DEF TypeOK
  <2>2. Len(qa) \in Nat /\ left.units \in Nat /\ left' = left
    BY <1>4, TotalParts DEF TypeOK
  <2> HIDE DEF a
  <2>3. QED BY <1>1, <1>6, <2>1, <2>2 DEF NetOutput, a
<1>12. QED BY <1>9, <1>11

(* a void from QA back into components, through WIP,                       *)
LEMMA VoidConserves ==
    ASSUME TypeOK, NEW e \in DOMAIN executions, VoidProduction(e)
    PROVE  TotalValue' = TotalValue /\ NetOutput' = NetOutput
<1> DEFINE x == executions[e]
           output == OutputCost(e)
           back == Value(Spread(x.cost, x.quantity))
<1>1. /\ x \in Executions /\ output \in Nat
      /\ x.wo \in WorkOrders /\ x.quantity \in Nat \ {0} /\ x.cost \in Nat
      /\ x.voided = FALSE /\ x.quantity <= Len(qa)
      /\ qa' = Rest(qa, x.quantity)
      /\ components' = components \o Spread(x.cost, x.quantity)
      /\ executions' = [executions EXCEPT ![e].voided = TRUE]
      /\ wip' = [wip EXCEPT ![x.wo] = @ + (output - Value(Spread(x.cost, x.quantity)))]
      /\ left' = left
  BY VoidEffect, Zenon
<1>2. output = Value(Costs(Oldest(qa, x.quantity)))
  BY Zenon DEF OutputCost
<1>3. executions \in Seq(Executions) /\ qa \in Seq(Units) /\ components \in Seq(Nat)
  BY Zenon DEF TypeOK
<1>4. /\ SumFunction(RoundingOf(executions'))
           = SumFunction(RoundingOf(executions))
      /\ SumFunctionOnSet(QuantityOf(executions'), Standing(executions'))
           = SumFunctionOnSet(QuantityOf(executions), Standing(executions)) - x.quantity
  BY <1>1, <1>3, ExecutionVoided, StandingQuantity, Zenon
<1> HIDE DEF x, output
<1>5. back \in Nat /\ Value(components') = Value(components) + back
  <2>1. Spread(x.cost, x.quantity) \in Seq(Nat)
    BY <1>1, SpreadType, Zenon
  <2>2. QED BY <1>1, <1>3, <2>1, ValueOfLayers, Zenon
<1>6. Value(Costs(qa')) = Value(Costs(qa)) - output /\ Len(qa') = Len(qa) - x.quantity
  <2>1. Value(Costs(qa)) = output + Value(Costs(Rest(qa, x.quantity)))
    BY <1>1, <1>2, <1>3, ValueOfUnits, Zenon
  <2>2. Rest(qa, x.quantity) \in Seq(Units) /\ Len(Rest(qa, x.quantity)) = Len(qa) - x.quantity
    BY <1>1, OutputType, Zenon
  <2>3. Value(Costs(Rest(qa, x.quantity))) \in Nat
    BY <2>2, ValueOfUnits
  <2>4. QED BY <1>1, <2>1, <2>2, <2>3
<1>7. SumFunction(wip') = SumFunction(wip) + (output - back)
  <2> DEFINE k == output - back
  <2>1. wip' = [wip EXCEPT ![x.wo] = @ + k]
    BY <1>1, Zenon
  <2>0. k \in Int
    <3> HIDE DEF back
    <3> QED BY <1>1, <1>5
  <2> HIDE DEF k
  <2>2. SumFunction(wip') = SumFunction(wip) + k
    BY <1>1, <2>0, <2>1, WipTotal, Zenon
  <2>3. QED BY <2>2, Zenon DEF k
<1> HIDE DEF back
<1>8. TotalValue' = TotalValue
  <2> DEFINE a == Value(components)
             k == SumFunction(wip)
             b == Value(Costs(qa))
             d == left.value
             r == SumFunction(RoundingOf(executions))
  <2>1. /\ a \in Nat /\ k \in Int /\ b \in Nat /\ d \in Nat /\ r \in Int
        /\ back \in Nat /\ output \in Nat
    BY <1>1, <1>5, TotalParts, Zenon
  <2>2. /\ TotalValue = a + k + b + d + r
        /\ TotalValue' = (a + back) + (k + (output - back)) + (b - output) + d + r
    BY <1>1, <1>4, <1>5, <1>6, <1>7, Zenon DEF TotalValue
  <2> HIDE DEF a, k, b, d, r
  <2>3. QED BY <2>1, <2>2
<1>9. NetOutput' = NetOutput
  <2> DEFINE a == SumFunctionOnSet(QuantityOf(executions), Standing(executions))
  <2>1. a \in Nat
    BY <1>3, StandingQuantity, Zenon
  <2>2. Len(qa) \in Nat /\ left.units \in Nat
    BY <1>3, TotalParts
  <2>3. SumFunctionOnSet(QuantityOf(executions'), Standing(executions')) = a - x.quantity
    BY <1>4, Zenon
  <2> DEFINE n == Len(qa)
             m == x.quantity
             u == left.units
  <2>4. NetOutput = n + u - a /\ NetOutput' = (n - m) + u - (a - m)
    BY <1>1, <1>6, <2>3 DEF NetOutput
  <2>5. n \in Nat /\ m \in Nat /\ u \in Nat
    BY <1>1, <2>2, Zenon
  <2> HIDE DEF a, n, m, u
  <2>6. QED BY <2>1, <2>4, <2>5
<1>10. QED BY <1>8, <1>9, Zenon

(* and scrap and acceptance out of QA.                                     *)
LEMMA LeaveConserves ==
    ASSUME TypeOK, NEW q \in Quantities, q <= Len(qa), LeaveQa(q),
           UNCHANGED <<components, executions, wip>>
    PROVE  TotalValue' = TotalValue /\ NetOutput' = NetOutput
<1> DEFINE v == Value(Costs(Oldest(qa, q)))
<1>1. /\ q \in Nat \ {0} /\ v \in Nat /\ qa' = Rest(qa, q)
      /\ left' = [units |-> left.units + q, value |-> left.value + v]
  BY LeaveEffect, Zenon
<1>2. qa \in Seq(Units) /\ executions \in Seq(Executions)
  BY Zenon DEF TypeOK
<1>3. Value(Costs(qa)) = v + Value(Costs(Rest(qa, q)))
  BY <1>1, <1>2, ValueOfUnits, Zenon
<1>4. Rest(qa, q) \in Seq(Units) /\ Len(Rest(qa, q)) = Len(qa) - q
  BY <1>1, OutputType
<1>5. Value(Costs(Rest(qa, q))) \in Nat
  BY <1>4, ValueOfUnits, Zenon
<1>6. left'.units = left.units + q /\ left'.value = left.value + v
  BY <1>1, Zenon
<1> HIDE DEF v
<1>7. TotalValue' = TotalValue
  <2> DEFINE a == Value(components)
             k == SumFunction(wip)
             b == Value(Costs(Rest(qa, q)))
             d == left.value
             r == SumFunction(RoundingOf(executions))
  <2>1. /\ a \in Nat /\ k \in Int /\ b \in Nat /\ d \in Nat /\ r \in Int
    BY <1>5, TotalParts, Zenon
  <2>2. TotalValue = a + k + (v + b) + d + r /\ TotalValue' = a + k + b + (d + v) + r
    BY <1>1, <1>3, <1>6, Zenon DEF TotalValue
  <2> HIDE DEF a, k, b, d, r
  <2>3. QED BY <1>1, <2>1, <2>2
<1>8. NetOutput' = NetOutput
  <2> DEFINE a == SumFunctionOnSet(QuantityOf(executions), Standing(executions))
             n == Len(qa)
             u == left.units
  <2>1. a \in Nat /\ n \in Nat /\ u \in Nat
    <3>1. a \in Nat
      BY <1>2, StandingQuantity, Zenon
    <3>2. n \in Nat /\ u \in Nat
      BY <1>2, TotalParts
    <3>3. QED BY <3>1, <3>2, Zenon
  <2>2. NetOutput = n + u - a /\ NetOutput' = (n - q) + (u + q) - a
    BY <1>1, <1>4, <1>6, Zenon DEF NetOutput
  <2> HIDE DEF a, n, u
  <2>3. QED BY <1>1, <2>1, <2>2
<1>9. QED BY <1>7, <1>8, Zenon

(* No step changes the total value or the output accounted for.            *)
LEMMA NextConserves ==
    ASSUME TypeOK, [Next]_vars
    PROVE  TotalValue' = TotalValue /\ NetOutput' = NetOutput
<1>1. CASE UNCHANGED <<components, executions, wip, qa, left>>
  BY <1>1 DEF TotalValue, NetOutput
<1>2. CASE Transition
  <2>1. UNCHANGED costVars
    BY <1>2, Zenon DEF Transition, CheckTransition, BeginTransition, MeasureBalance,
                FinishTransition, FailTransition
  <2>2. QED BY <1>1, <2>1, Zenon DEF costVars
<1>3. CASE Posting
  <2>1. ASSUME NEW w \in WorkOrders,
               (\E q \in IssueForms : CreateIssue(w, q))
                 \/ (\E q \in CompletionForms : CreateCompletion(w, q))
        PROVE  TotalValue' = TotalValue /\ NetOutput' = NetOutput
    <3>1. UNCHANGED costVars
      BY <2>1, Zenon DEF CreateIssue, CreateCompletion
    <3>2. QED BY <1>1, <3>1, Zenon DEF costVars
  <2>2. ASSUME NEW q \in Quantities,
               AcceptOutput(q) \/ \E e \in DOMAIN executions : ReportScrap(e, q)
        PROVE  TotalValue' = TotalValue /\ NetOutput' = NetOutput
    <3>1. q <= Len(qa) /\ LeaveQa(q)
      BY <2>2, LeaveType, Zenon
    <3>2. UNCHANGED <<components, executions, wip>>
      BY <2>2, Zenon DEF AcceptOutput, ReportScrap
    <3>3. QED BY <3>1, <3>2, LeaveConserves
  <2>3. QED
    BY SMTT(20), <1>3, <2>1, <2>2, IssueConserves, CompletionConserves, BatchConserves, VoidConserves
       DEF Posting
<1>4. CASE UNCHANGED vars
  BY <1>1, <1>4 DEF vars, costVars
<1>5. QED BY <1>2, <1>3, <1>4, Zenon DEF Next

(* What the two sums say of the model's invariants.                        *)
LEMMA SumsAreInvariants ==
    ASSUME TypeOK
    PROVE  /\ ProductionValueConserved <=> TotalValue = Value(UnitCosts)
           /\ OutputMatchesExecutions <=> NetOutput = 0
<1>1. ProductionValueConserved <=> TotalValue = Value(UnitCosts)
  BY RoundingIs, Zenon DEF ProductionValueConserved, TotalValue
<1>2. OutputMatchesExecutions <=> NetOutput = 0
  <2> DEFINE a == SumFunctionOnSet(QuantityOf(executions), Standing(executions))
  <2>1. a \in Nat /\ Len(qa) \in Nat /\ left.units \in Nat
    <3>1. executions \in Seq(Executions) /\ qa \in Seq(Units)
      BY Zenon DEF TypeOK
    <3>2. a \in Nat
      BY <3>1, StandingQuantity, Zenon
    <3>3. QED BY <3>1, <3>2, TotalParts
  <2>2. OutputMatchesExecutions <=> Len(qa) + left.units = a
    BY RoundingIs, Zenon DEF OutputMatchesExecutions, Standing
  <2> HIDE DEF a
  <2>3. QED BY <2>1, <2>2 DEF NetOutput, a
<1>3. QED BY <1>1, <1>2, Zenon

(* Initially all the value is in the components and there is no output.    *)
LEMMA InitConserves ==
    ASSUME Init
    PROVE  TotalValue = Value(UnitCosts) /\ NetOutput = 0
<1>1. /\ components = UnitCosts /\ executions = << >> /\ qa = << >>
      /\ left.units = 0 /\ left.value = 0 /\ wip = [w \in WorkOrders |-> 0]
  BY Zenon DEF Init
<1>2. Value(Costs(qa)) = 0
  <2>1. DOMAIN Costs(qa) = {}
    BY <1>1 DEF Costs
  <2>2. QED BY <2>1, SumEmpty DEF Value, SumFunction
<1>3. SumFunction(RoundingOf(executions)) = 0
  <2>1. DOMAIN RoundingOf(executions) = {}
    BY <1>1 DEF RoundingOf
  <2>2. QED BY <2>1, SumEmpty, Zenon DEF SumFunction
<1>4. SumFunctionOnSet(QuantityOf(executions), Standing(executions)) = 0
  <2>1. Standing(executions) = {}
    BY <1>1 DEF Standing
  <2>2. QED BY <2>1, SumEmpty, Zenon
<1>5. SumFunction(wip) = 0
  <2>1. DOMAIN wip = WorkOrders /\ \A w \in WorkOrders : wip[w] \in {0}
    BY <1>1, Zenon
  <2>2. 0 \in {0} /\ \A a, b \in {0} : a + b \in {0}
    OBVIOUS
  <2> DEFINE Z == {0}
  <2>3. 0 \in Z /\ (\A a, b \in Z : a + b \in Z) /\ (\A w \in WorkOrders : wip[w] \in Z)
    BY <2>1, <2>2, Zenon
  <2> HIDE DEF Z
  <2>4. SumFunctionOnSet(wip, WorkOrders) \in Z
    BY <2>3, ProductionAssumption, SumStaysIn, Zenon
  <2>5. QED BY <2>1, <2>4, Zenon DEF SumFunction, Z
<1>6. Value(UnitCosts) \in Nat
  BY ProductionAssumption, ValueType
<1>7. TotalValue = Value(UnitCosts)
  BY <1>1, <1>2, <1>3, <1>5, <1>6 DEF TotalValue
<1>8. NetOutput = 0
  BY <1>1, <1>4 DEF NetOutput
<1>9. QED BY <1>7, <1>8, Zenon

(* The value there is, is what the components cost, and every unit of      *)
(* output belongs to an execution that stands.                             *)
Accounted == TypeOK /\ TotalValue = Value(UnitCosts) /\ NetOutput = 0

(* Value and output are accounted for in every reachable state.            *)
LEMMA SpecAccounted == Spec => []Accounted
<1>1. Init => Accounted
  BY InitType, InitConserves, Zenon DEF Accounted
<1>2. Accounted /\ [Next]_vars => Accounted'
  BY NextType, NextConserves, Zenon DEF Accounted
<1>3. QED BY <1>1, <1>2, PTL DEF Spec

(* Value is neither made nor lost but by rounding, for any number of work  *)
(* orders, issues, completions, batches, voids and scraps.                 *)
THEOREM ValueIsConserved == Spec => []ProductionValueConserved
<1>1. Accounted => ProductionValueConserved
  BY SumsAreInvariants, Zenon DEF Accounted
<1>2. QED BY <1>1, SpecAccounted, PTL

(* The output in QA and beyond it is that of the executions that stand:    *)
(* no execution is voided twice.                                           *)
THEOREM OutputIsAccounted == Spec => []OutputMatchesExecutions
<1>1. Accounted => OutputMatchesExecutions
  BY SumsAreInvariants DEF Accounted
<1>2. QED BY <1>1, SpecAccounted, PTL

-----------------------------------------------------------------------------
(* Reservations.                                                           *)

(* What a transition may make of a row: nothing, a first reservation, a    *)
(* cancellation, or another reserved quantity.                             *)
Rewrites(before, after) ==
    \/ after = before
    \/ before = NoRow /\ after.status \in Live /\ after.fulfilled = 0
    \/ /\ before.status \in Live
       /\ \/ after.status = "CANCELLED"
          \/ after.status \in Live /\ after.fulfilled = before.fulfilled

HoldsRow(c) == InTransaction(c) /\ call[c].before # NoRow

(* A row that a transition has locked is the row it read, no two of them   *)
(* lock the same, and what one will write is a rewrite of what it read.    *)
RowLocks ==
    /\ \A w \in WorkOrders : row[w].status = "none" => row[w] = NoRow
    /\ \A c \in Calls : HoldsRow(c) => row[call[c].wo] = call[c].before
    /\ \A c, d \in Calls :
        HoldsRow(c) /\ HoldsRow(d) /\ call[c].wo = call[d].wo => c = d
    /\ \A c \in Calls : InTransaction(c) => Rewrites(call[c].before, call[c].after)

(* The batches of an order that stand, and what they consumed.             *)
Batches(xs, w) == {e \in DOMAIN xs : xs[e].wo = w /\ xs[e].batch /\ ~xs[e].voided}

BatchQuantity(xs, w) == SumFunctionOnSet(QuantityOf(xs), Batches(xs, w))

(* Unless it is cancelled, a row has fulfilled what its order consumed.    *)
Fulfils ==
    \A w \in WorkOrders :
        row[w].status # "CANCELLED" =>
            row[w].fulfilled = issued[w] + BatchQuantity(executions, w)

(* What the reservation service and the trigger make of a row.             *)
LEMMA EnsuredRow ==
    ASSUME NEW r \in Rows, r.status = "none" => r = NoRow, NEW n \in Nat, TriggerAllows(r, n)
    PROVE  Rewrites(r, Ensured(r, n))
<1>1. CASE r.status = "CANCELLED"
  BY <1>1, Zenon DEF Ensured, Rewrites
<1>2. CASE r.status # "CANCELLED" /\ n = 0 /\ r.status \in Live
  <2>1. Ensured(r, n) = [r EXCEPT !.status = "CANCELLED"]
    BY <1>2 DEF Ensured
  <2>2. Ensured(r, n).status = "CANCELLED"
    BY <2>1, Zenon DEF Rows
  <2>3. QED BY <1>2, <2>2, Zenon DEF Rewrites
<1>3. CASE r.status # "CANCELLED" /\ n = 0 /\ r.status \notin Live
  BY <1>3 DEF Ensured, Rewrites
<1>4. CASE r.status # "CANCELLED" /\ n > 0
  <2>1. r.status # "FULFILLED"
    BY <1>4 DEF TriggerAllows
  <2>2. Ensured(r, n) = WithQuantities(r.fulfilled + n, r.fulfilled)
    BY <1>4 DEF Ensured
  <2>3. r.fulfilled \in Nat
    BY Zenon DEF Rows
  <2>4. Ensured(r, n).status \in Live /\ Ensured(r, n).fulfilled = r.fulfilled
    BY <1>4, <2>2, <2>3 DEF WithQuantities, DerivedStatus
  <2>5. r = NoRow \/ r.status \in Live
    BY <1>4, <2>1, Zenon DEF Rows
  <2>6. r = NoRow => r.fulfilled = 0
    OBVIOUS
  <2>7. QED BY <1>4, <2>4, <2>5, <2>6, Zenon DEF Rewrites
<1>5. QED BY <1>1, <1>2, <1>3, <1>4

(* Releasing a row rewrites it.                                            *)
LEMMA ReleasedRow ==
    ASSUME NEW r \in Rows
    PROVE  Rewrites(r, Released(r))
BY Zenon DEF Released, Rewrites, Rows

(* A posting consumes from a row that is live, or that it has just made.   *)
LEMMA ConsumedRow ==
    ASSUME NEW r \in Rows, r.status = "none" => r = NoRow, NEW n \in Nat, TriggerAllows(r, n),
           NEW q \in Nat, CanConsume(Ensured(r, n), q)
    PROVE  LET after == Consumed(Ensured(r, n), q)
           IN  /\ r = NoRow \/ r.status \in Live
               /\ after.status \notin {"none", "CANCELLED"}
               /\ after.fulfilled = r.fulfilled + q
<1> DEFINE ensured == Ensured(r, n)
<1>1. ensured \in Rows /\ ensured.status \in Live /\ Rewrites(r, ensured)
  BY RowTypes, EnsuredRow DEF CanConsume
<1> HIDE DEF ensured
<1>2. (r = NoRow \/ r.status \in Live) /\ ensured.fulfilled = r.fulfilled
  <2>1. CASE ensured = r
    BY <1>1, <2>1, Zenon
  <2>2. CASE r = NoRow /\ ensured.status \in Live /\ ensured.fulfilled = 0
    BY <2>2
  <2>3. CASE r.status \in Live /\ ensured.fulfilled = r.fulfilled
    BY <2>3, Zenon
  <2>4. QED BY <1>1, <2>1, <2>2, <2>3, Zenon DEF Rewrites
<1>3. /\ Consumed(ensured, q).fulfilled = ensured.fulfilled + q
      /\ Consumed(ensured, q).status \notin {"none", "CANCELLED"}
  BY Zenon DEF Consumed, WithQuantities, DerivedStatus
<1>4. QED BY <1>2, <1>3, Zenon DEF ensured

(* A void gives back what the batch consumed, but for a CANCELLED row.     *)
LEMMA RestoredRow ==
    ASSUME NEW r \in Rows, NEW q \in Nat \ {0}
    PROVE  /\ r.status = "CANCELLED" => Restored(r, q) = r
           /\ r.status # "CANCELLED" /\ q <= r.fulfilled =>
                /\ Restored(r, q).fulfilled = r.fulfilled - q
                /\ Restored(r, q).status \notin {"none", "CANCELLED"}
<1>1. r.fulfilled \in Nat
  BY Zenon DEF Rows
<1>2. r.status = "CANCELLED" => Restored(r, q) = r
  BY Zenon DEF Restored
<1>3. ASSUME r.status # "CANCELLED", q <= r.fulfilled
      PROVE  /\ Restored(r, q).fulfilled = r.fulfilled - q
             /\ Restored(r, q).status \notin {"none", "CANCELLED"}
  <2>1. Min({q, r.fulfilled}) = q
    BY <1>1, <1>3, MinOfTwo
  <2>2. Restored(r, q) = WithQuantities(r.reserved, r.fulfilled - q)
    BY <1>1, <1>3, <2>1 DEF Restored
  <2>3. QED BY <2>2 DEF WithQuantities, DerivedStatus
<1>4. QED BY <1>2, <1>3, Zenon

(* Only a batch of the order itself changes what its batches consumed.     *)
LEMMA BatchAppended ==
    ASSUME NEW xs \in Seq(Executions), NEW x \in Executions, x.voided = FALSE,
           NEW w \in WorkOrders
    PROVE  /\ BatchQuantity(xs, w) \in Nat
           /\ BatchQuantity(Append(xs, x), w)
                = BatchQuantity(xs, w) + (IF x.wo = w /\ x.batch THEN x.quantity ELSE 0)
<1> DEFINE ys == Append(xs, x)
           e == Len(xs) + 1
           S == Batches(xs, w)
<1>1. S \in SUBSET DOMAIN xs
  BY Zenon DEF Batches
<1>2. SumFunctionOnSet(QuantityOf(xs), S) \in Nat
  BY <1>1, ExecutionSums, Zenon
<1>3. /\ e \notin DOMAIN xs /\ DOMAIN ys = DOMAIN xs \cup {e}
      /\ ys[e] = x /\ \A d \in DOMAIN xs : ys[d] = xs[d]
  BY ExecutionAppended
<1>4. \A T \in SUBSET DOMAIN xs :
        /\ SumFunctionOnSet(QuantityOf(ys), T) = SumFunctionOnSet(QuantityOf(xs), T)
        /\ SumFunctionOnSet(QuantityOf(ys), T \cup {e})
             = SumFunctionOnSet(QuantityOf(xs), T) + x.quantity
  BY ExecutionAppended, Zenon
<1> HIDE DEF ys, e
<1>5. CASE x.wo = w /\ x.batch
  <2>1. Batches(ys, w) = S \cup {e}
    BY <1>3, <1>5 DEF Batches
  <2> HIDE DEF S
  <2>2. SumFunctionOnSet(QuantityOf(ys), S \cup {e})
          = SumFunctionOnSet(QuantityOf(xs), S) + x.quantity
    BY <1>1, <1>4, Zenon
  <2>3. QED BY <1>2, <1>5, <2>1, <2>2, Zenon DEF BatchQuantity, ys, S
<1>6. CASE ~(x.wo = w /\ x.batch)
  <2>1. Batches(ys, w) = S
    BY <1>3, <1>6, Zenon DEF Batches
  <2> HIDE DEF S
  <2>2. SumFunctionOnSet(QuantityOf(ys), S) = SumFunctionOnSet(QuantityOf(xs), S)
    BY <1>1, <1>4, Zenon
  <2>3. QED BY <1>2, <1>6, <2>1, <2>2 DEF BatchQuantity, ys, S
<1>7. QED BY <1>5, <1>6

(* Voiding an execution takes its quantity off what its work order has     *)
(* consumed.                                                               *)
LEMMA BatchVoided ==
    ASSUME NEW xs \in Seq(Executions), NEW e \in DOMAIN xs,
           xs[e].voided = FALSE, xs[e].batch = TRUE, NEW w \in WorkOrders
    PROVE  LET ys == [xs EXCEPT ![e].voided = TRUE]
           IN  /\ BatchQuantity(xs, w) \in Nat
               /\ xs[e].wo = w => /\ BatchQuantity(ys, w) = BatchQuantity(xs, w) - xs[e].quantity
                                  /\ xs[e].quantity <= BatchQuantity(xs, w)
               /\ xs[e].wo # w => BatchQuantity(ys, w) = BatchQuantity(xs, w)
<1> DEFINE ys == [xs EXCEPT ![e].voided = TRUE]
           S == Batches(xs, w)
           k == xs[e].quantity
<1>1. S \in SUBSET DOMAIN xs
  BY Zenon DEF Batches
<1>2. SumFunctionOnSet(QuantityOf(xs), S) \in Nat /\ xs[e] \in Executions
  BY <1>1, ExecutionSums, Zenon
<1>3. /\ ys \in Seq(Executions) /\ DOMAIN ys = DOMAIN xs
      /\ ys[e] = [xs[e] EXCEPT !.voided = TRUE]
      /\ \A d \in DOMAIN xs \ {e} : ys[d] = xs[d]
  BY ExecutionVoided, Zenon
<1>4. \A T \in SUBSET DOMAIN xs :
        /\ SumFunctionOnSet(QuantityOf(ys), T) = SumFunctionOnSet(QuantityOf(xs), T)
        /\ e \in T => SumFunctionOnSet(QuantityOf(ys), T \ {e})
                         = SumFunctionOnSet(QuantityOf(xs), T) - k
  BY ExecutionVoided, Zenon
<1> HIDE DEF ys
<1>5. ys[e].voided = TRUE /\ ys[e].wo = xs[e].wo /\ ys[e].batch = TRUE /\ k \in Nat
  BY <1>2, <1>3, Zenon DEF Executions
<1>6. ASSUME xs[e].wo = w
      PROVE  /\ BatchQuantity(ys, w) = BatchQuantity(xs, w) - k
             /\ k <= BatchQuantity(xs, w)
  <2>1. Batches(ys, w) = S \ {e} /\ e \in S
    BY <1>3, <1>5, <1>6, Zenon DEF Batches
  <2>2. Batches(ys, w) \in SUBSET DOMAIN ys
    BY Zenon DEF Batches
  <2>3. BatchQuantity(ys, w) \in Nat
    BY <1>3, <2>2, ExecutionSums DEF BatchQuantity
  <2> HIDE DEF S, k
  <2>4. SumFunctionOnSet(QuantityOf(ys), S \ {e}) = SumFunctionOnSet(QuantityOf(xs), S) - k
    BY <1>1, <1>4, <2>1, Zenon
  <2>5. BatchQuantity(ys, w) = BatchQuantity(xs, w) - k
    BY <2>1, <2>4, Zenon DEF BatchQuantity, S
  <2>6. BatchQuantity(xs, w) \in Nat
    BY <1>2 DEF BatchQuantity, S
  <2>7. QED BY <1>5, <2>3, <2>5, <2>6
<1>7. ASSUME xs[e].wo # w
      PROVE  BatchQuantity(ys, w) = BatchQuantity(xs, w)
  <2>1. Batches(ys, w) = S
    BY <1>3, <1>5, <1>7, Zenon DEF Batches
  <2> HIDE DEF S
  <2>2. SumFunctionOnSet(QuantityOf(ys), S) = SumFunctionOnSet(QuantityOf(xs), S)
    BY <1>1, <1>4, Zenon
  <2>3. QED BY <2>1, <2>2, Zenon DEF BatchQuantity, S
<1>8. QED BY <1>2, <1>6, <1>7 DEF BatchQuantity, ys

(* A posting that rewrites a row nobody has locked keeps the locks.        *)
LEMMA PostingLocks ==
    ASSUME TypeOK, RowLocks, NEW w \in WorkOrders, NEW after \in Rows,
           after.status # "none" \/ after = row[w],
           RowFree(w), row' = [row EXCEPT ![w] = after], call' = call
    PROVE  RowLocks'
<1>1. \A x \in WorkOrders : row'[x] = IF x = w THEN after ELSE row[x]
  BY Zenon DEF TypeOK
<1>2. \A c \in Calls : HoldsRow(c) => call[c].wo # w
  BY Zenon DEF RowFree, HoldsRow
<1>3. \A c \in Calls : InTransaction(c) => call[c].wo \in WorkOrders
  BY CallFields, Zenon DEF TypeOK, InTransaction
<1>4. \A x \in WorkOrders : row'[x].status = "none" => row'[x] = NoRow
  BY <1>1, Zenon DEF RowLocks
<1>5. \A c \in Calls : HoldsRow(c)' => row'[call'[c].wo] = call'[c].before
  BY <1>1, <1>2, <1>3 DEF RowLocks, HoldsRow, InTransaction
<1>6. QED BY <1>4, <1>5, Zenon DEF RowLocks, HoldsRow, InTransaction

(* What a step may do to a reservation: nothing once it is CANCELLED, and  *)
(* to a FULFILLED one only a void of one of the order's executions.        *)
RowStep ==
    \A w \in WorkOrders :
        /\ row[w].status = "CANCELLED" => row'[w] = row[w]
        /\ (row[w].status = "FULFILLED" /\ row'[w] # row[w]) =>
                \E e \in DOMAIN executions :
                    /\ executions[e].wo = w
                    /\ ~executions[e].voided /\ executions'[e].voided

(* A posting consumes: its row fulfils q more.                             *)
LEMMA ConsumeStep ==
    ASSUME TypeOK, RowLocks, NEW w \in WorkOrders, NEW q \in Nat, ReserveAndConsume(w, q),
           RowFree(w), call' = call
    PROVE  /\ RowLocks' /\ RowStep
           /\ \A x \in WorkOrders \ {w} : row'[x] = row[x]
           /\ row[w].status # "CANCELLED" /\ row'[w].fulfilled = row[w].fulfilled + q
<1> DEFINE n == RemainingQuantity(w)
           after == Consumed(Ensured(row[w], n), q)
<1>1. /\ n \in Nat /\ row[w] \in Rows /\ TriggerAllows(row[w], n)
      /\ CanConsume(Ensured(row[w], n), q)
      /\ row' = [row EXCEPT ![w] = after] /\ row' \in [WorkOrders -> Rows]
  BY ReserveEffect, Zenon
<1>2. row[w].status = "none" => row[w] = NoRow
  BY DEF RowLocks
<1> HIDE DEF n
<1>3. /\ row[w] = NoRow \/ row[w].status \in Live
      /\ after.status \notin {"none", "CANCELLED"}
      /\ after.fulfilled = row[w].fulfilled + q
  BY <1>1, <1>2, ConsumedRow, Zenon
<1> HIDE DEF after
<1>4. row'[w] = after /\ \A x \in WorkOrders \ {w} : row'[x] = row[x]
  BY <1>1, Zenon DEF TypeOK
<1>5. after \in Rows
  BY <1>1, <1>4
<1>6. RowLocks'
  BY <1>1, <1>3, <1>5, PostingLocks, Zenon
<1>7. row[w].status \notin {"CANCELLED", "FULFILLED"}
  BY <1>3
<1>8. RowStep
  <2>1. \A x \in WorkOrders :
          /\ row[x].status = "CANCELLED" => row'[x] = row[x]
          /\ row[x].status = "FULFILLED" => row'[x] = row[x]
    BY <1>4, <1>7, Zenon
  <2>2. QED BY <2>1, Zenon DEF RowStep
<1>9. QED BY <1>3, <1>4, <1>6, <1>7, <1>8, Zenon

(* The postings keep the reservation invariants.                           *)
LEMMA IssueFulfils ==
    ASSUME TypeOK, RowLocks, Fulfils, NEW w \in WorkOrders, PostIssue(w)
    PROVE  RowLocks' /\ RowStep /\ Fulfils'
<1> DEFINE q == issue[w]
<1>1. /\ q \in Nat /\ ReserveAndConsume(w, q) /\ RowFree(w)
      /\ issued' = [issued EXCEPT ![w] = @ + q]
      /\ call' = call /\ executions' = executions
  BY Zenon DEF TypeOK, PostIssue, CanPost, ProjectIssue
<1> HIDE DEF q
<1>2. /\ RowLocks' /\ RowStep
      /\ \A x \in WorkOrders \ {w} : row'[x] = row[x]
      /\ row[w].status # "CANCELLED" /\ row'[w].fulfilled = row[w].fulfilled + q
  BY <1>1, ConsumeStep, Zenon
<1>3. ASSUME NEW x \in WorkOrders, row'[x].status # "CANCELLED"
      PROVE  row'[x].fulfilled = issued'[x] + BatchQuantity(executions', x)
  <2>1. BatchQuantity(executions', x) = BatchQuantity(executions, x)
        /\ BatchQuantity(executions, x) \in Nat
    <3>1. Batches(executions, x) \in SUBSET DOMAIN executions
      BY Zenon DEF Batches
    <3>2. BatchQuantity(executions, x) \in Nat
      BY <3>1, ExecutionSums, Zenon DEF TypeOK, BatchQuantity
    <3>3. QED BY <1>1, <3>2, Zenon
  <2>2. issued[x] \in Nat /\ issued'[x] = IF x = w THEN issued[x] + q ELSE issued[x]
    BY <1>1, Zenon DEF TypeOK
  <2>3. row[x].status # "CANCELLED" =>
          row[x].fulfilled = issued[x] + BatchQuantity(executions, x)
    BY Zenon DEF Fulfils
  <2>4. CASE x = w
    BY <1>1, <1>2, <2>1, <2>2, <2>3, <2>4, SMTT(20)
  <2>5. CASE x # w
    BY <1>2, <1>3, <2>1, <2>2, <2>3, <2>5, Zenon
  <2>6. QED BY <2>4, <2>5
<1>4. QED BY <1>2, <1>3 DEF Fulfils

(* A batch fulfils as much as it consumes.                                 *)
LEMMA BatchFulfils ==
    ASSUME TypeOK, RowLocks, Fulfils, NEW w \in WorkOrders, NEW q \in Quantities,
           RecordBatch(w, q)
    PROVE  RowLocks' /\ RowStep /\ Fulfils'
<1> DEFINE cost == Value(Oldest(components, q))
           new == Execution(w, q, cost, TRUE)
<1>1. q \in Nat \ {0}
  BY ProductionAssumption DEF Quantities
<1>2. /\ ReserveAndConsume(w, q) /\ RowFree(w)
      /\ executions' = Append(executions, new)
      /\ call' = call /\ issued' = issued
  BY Zenon DEF RecordBatch, CanPost, ExecuteBatch, ProjectBatch
<1>3. /\ RowLocks' /\ RowStep
      /\ \A x \in WorkOrders \ {w} : row'[x] = row[x]
      /\ row[w].status # "CANCELLED" /\ row'[w].fulfilled = row[w].fulfilled + q
  BY <1>1, <1>2, ConsumeStep, Zenon
<1>4. new \in Executions /\ new.voided = FALSE /\ new.wo = w /\ new.batch = TRUE
      /\ new.quantity = q
  <2>1. q <= Len(components)
    BY <1>1, <1>2, ReserveEffect, Zenon
  <2>2. cost \in Nat
    BY <1>1, <2>1, TakenType
  <2> HIDE DEF cost
  <2>3. QED BY <1>1, <2>2, ExecutedType, Zenon DEF Execution
<1> HIDE DEF new
<1>5. ASSUME NEW x \in WorkOrders, row'[x].status # "CANCELLED"
      PROVE  row'[x].fulfilled = issued'[x] + BatchQuantity(executions', x)
  <2>1. /\ BatchQuantity(executions, x) \in Nat
        /\ BatchQuantity(executions', x)
              = BatchQuantity(executions, x) + (IF x = w THEN q ELSE 0)
    BY <1>2, <1>4, BatchAppended, Zenon DEF TypeOK
  <2>2. issued[x] \in Nat /\ issued'[x] = issued[x]
    BY <1>2 DEF TypeOK
  <2>3. row[x].status # "CANCELLED" =>
          row[x].fulfilled = issued[x] + BatchQuantity(executions, x)
    BY DEF Fulfils
  <2>4. CASE x = w
    BY <1>1, <1>3, <2>1, <2>2, <2>3, <2>4, SMTT(20)
  <2>5. CASE x # w
    BY <1>3, <1>5, <2>1, <2>2, <2>3, <2>5, SMTT(20)
  <2>6. QED BY <2>4, <2>5, Zenon
<1>6. QED BY <1>3, <1>5 DEF Fulfils

(* A completion consumes nothing and fulfils nothing.                      *)
LEMMA CompletionFulfils ==
    ASSUME TypeOK, Fulfils, NEW w \in WorkOrders, PostCompletion(w)
    PROVE  Fulfils' /\ UNCHANGED <<row, call>>
<1> DEFINE q == completion[w]
           cost == openWip[w]
           new == Execution(w, q, cost, FALSE)
<1>1. q \in Nat \ {0} /\ cost \in Nat
  BY DEF TypeOK, PostCompletion
<1>2. executions' = Append(executions, new) /\ UNCHANGED <<row, issued, call>>
  BY Zenon DEF PostCompletion, ProjectCompletion, reservationVars
<1> HIDE DEF q, cost
<1>3. new \in Executions /\ new.voided = FALSE /\ new.batch = FALSE
  BY <1>1, ExecutedType, Zenon DEF Execution
<1> HIDE DEF new
<1>4. \A x \in WorkOrders : BatchQuantity(executions', x) = BatchQuantity(executions, x)
  <2>1. TAKE x \in WorkOrders
  <2>2. /\ BatchQuantity(executions, x) \in Nat
        /\ BatchQuantity(executions', x) = BatchQuantity(executions, x)
              + (IF new.wo = x /\ new.batch THEN new.quantity ELSE 0)
    BY <1>2, <1>3, BatchAppended, Zenon DEF TypeOK
  <2>3. (IF new.wo = x /\ new.batch THEN new.quantity ELSE 0) = 0
    BY <1>3, Zenon
  <2>4. QED BY <2>2, <2>3
<1>5. QED BY <1>2, <1>4, Zenon DEF Fulfils

(* A void takes back what the batch had fulfilled, whole: the row has      *)
(* fulfilled at least that much.                                           *)
LEMMA VoidFulfils ==
    ASSUME TypeOK, RowLocks, Fulfils, NEW e \in DOMAIN executions, VoidProduction(e)
    PROVE  RowLocks' /\ RowStep /\ Fulfils'
<1> DEFINE x == executions[e]
           w == x.wo
           k == x.quantity
           after == Restored(row[w], k)
<1>1. /\ x \in Executions /\ w \in WorkOrders /\ k \in Nat \ {0}
      /\ x.batch = TRUE /\ x.voided = FALSE /\ RowFree(w)
      /\ executions' = [executions EXCEPT ![e].voided = TRUE]
      /\ row' = [row EXCEPT ![w] = after]
      /\ UNCHANGED <<issued, call>>
  BY VoidEffect, Zenon
<1>2. executions \in Seq(Executions)
  BY Zenon DEF TypeOK
<1>3. /\ BatchQuantity(executions, w) \in Nat
      /\ BatchQuantity(executions', w) = BatchQuantity(executions, w) - k
      /\ k <= BatchQuantity(executions, w)
  BY <1>1, <1>2, BatchVoided, Zenon
<1>4. \A y \in WorkOrders \ {w} :
        BatchQuantity(executions', y) = BatchQuantity(executions, y)
  <2>1. TAKE y \in WorkOrders \ {w}
  <2>2. executions[e].wo # y
    BY Zenon
  <2>3. QED BY <1>1, <1>2, <2>2, BatchVoided, Zenon
<1>5. executions'[e].voided = TRUE
  <2>1. executions'[e] = [x EXCEPT !.voided = TRUE]
    BY <1>1, <1>2, ExecutionVoided
  <2> HIDE DEF x
  <2>2. QED BY <1>1, <2>1, Zenon DEF Executions
<1>6. issued[w] \in Nat /\ row[w] \in Rows
  BY <1>1, Zenon DEF TypeOK
<1>7. row[w].status # "CANCELLED" =>
        row[w].fulfilled = issued[w] + BatchQuantity(executions, w)
  BY <1>1, Zenon DEF Fulfils
<1>8. x.wo = w /\ ~x.voided
  BY <1>1
<1>9. /\ row'[w] = after /\ \A y \in WorkOrders \ {w} : row'[y] = row[y]
  <2> HIDE DEF w, after
  <2>1. QED BY <1>1, Zenon DEF TypeOK
<1> HIDE DEF w, k
<1>10. /\ row[w].status = "CANCELLED" => after = row[w]
       /\ row[w].status # "CANCELLED" =>
            /\ after.fulfilled = row[w].fulfilled - k
            /\ after.status \notin {"none", "CANCELLED"}
  <2>1. row[w].status # "CANCELLED" => k <= row[w].fulfilled
    BY <1>1, <1>3, <1>6, <1>7
  <2>2. QED BY <1>1, <1>6, <2>1, RestoredRow, Zenon
<1>11. after \in Rows
  BY <1>1, <1>6, RowTypes, Zenon
<1> HIDE DEF after
<1>12. RowLocks'
  <2>1. after.status # "none" \/ after = row[w]
    BY <1>10, Zenon
  <2>2. QED BY <1>1, <1>11, <2>1, PostingLocks, Zenon
<1>13. RowStep
  <2>1. \A y \in WorkOrders : row[y].status = "CANCELLED" => row'[y] = row[y]
    BY <1>9, <1>10
  <2>2. \A y \in WorkOrders : row'[y] # row[y] => y = w
    BY <1>9, Zenon
  <2>3. executions[e].wo = w /\ ~executions[e].voided /\ executions'[e].voided
    BY <1>5, <1>8, Zenon
  <2>4. QED BY <2>1, <2>2, <2>3, Zenon DEF RowStep
<1>14. Fulfils'
  <2>1. ASSUME NEW y \in WorkOrders, row'[y].status # "CANCELLED"
        PROVE  row'[y].fulfilled = issued'[y] + BatchQuantity(executions', y)
    <3>1. CASE y = w
      <4>1. row[w].status # "CANCELLED"
        BY <1>9, <1>10, <2>1, <3>1
      <4>2. row'[w].fulfilled = row[w].fulfilled - k
        BY <1>9, <1>10, <4>1, Zenon
      <4>3. row[w].fulfilled = issued[w] + BatchQuantity(executions, w)
        BY <1>7, <4>1
      <4>4. k \in Nat /\ issued'[w] = issued[w]
        BY <1>1, Zenon
      <4>5. row'[w].fulfilled = issued[w] + (BatchQuantity(executions, w) - k)
        BY <1>3, <1>6, <4>2, <4>3, <4>4, SMTT(20)
      <4>6. QED BY <1>3, <3>1, <4>4, <4>5, Zenon
    <3>2. CASE y # w
      BY <1>1, <1>4, <1>9, <2>1, <3>2, Zenon DEF Fulfils
    <3>3. QED BY <3>1, <3>2
  <2>2. QED BY <2>1 DEF Fulfils
<1>15. QED BY <1>12, <1>13, <1>14

(* The steps of a transition.                                              *)
LEMMA BeginLocks ==
    ASSUME TypeOK, RowLocks, NEW c \in Calls, BeginTransition(c)
    PROVE  RowLocks'
<1> DEFINE w == call[c].wo
           n == RemainingQuantity(w)
           readies == call[c].next = "ready"
           after == IF readies THEN Ensured(row[w], n) ELSE Released(row[w])
<1>1. /\ call[c].pc = "checked" /\ RowFree(w)
      /\ readies => CanEnsure(row[w], n, Available(row))
      /\ UNCHANGED row
  BY Zenon DEF BeginTransition, reservationVars
<1>2. w \in WorkOrders /\ row[w] \in Rows
  BY <1>1, CallFields, Zenon DEF TypeOK
<1>3. n \in Nat
  <2> HIDE DEF w
  <2>1. QED BY <1>2, RemainingType DEF TypeOK
<1>4. /\ \A d \in Calls \ {c} : call'[d] = call[d]
      /\ call'[c].pc = "begun" /\ call'[c].wo = w
      /\ call'[c].before = row[w] /\ call'[c].after = after
  BY Zenon DEF BeginTransition, TypeOK
<1>5. Rewrites(row[w], after)
  <2>1. CASE readies
    <3>1. TriggerAllows(row[w], n)
      BY <1>1, <2>1, Zenon DEF CanEnsure
    <3>2. row[w].status = "none" => row[w] = NoRow
      BY <1>2 DEF RowLocks
    <3>3. Rewrites(row[w], Ensured(row[w], n))
      <4> HIDE DEF w, n
      <4>1. QED BY <1>2, <1>3, <3>1, <3>2, EnsuredRow, Zenon
    <3>4. QED BY <2>1, <3>3
  <2>2. CASE ~readies
    <3>1. Rewrites(row[w], Released(row[w]))
      <4> HIDE DEF w
      <4>1. QED BY <1>2, ReleasedRow, Zenon
    <3>2. QED BY <2>2, <3>1
  <2>3. QED BY <2>1, <2>2, Zenon
<1>6. \A d \in Calls \ {c} : HoldsRow(d) => call[d].wo # w
  BY <1>1, Zenon DEF RowFree, HoldsRow
<1> HIDE DEF w, n, readies, after
<1>7. \A d \in Calls \ {c} : (HoldsRow(d)' <=> HoldsRow(d)) /\ (InTransaction(d)' <=> InTransaction(d))
  BY <1>4, SMTT(20) DEF HoldsRow, InTransaction
<1>8. \A x \in WorkOrders : row'[x].status = "none" => row'[x] = NoRow
  BY <1>1 DEF RowLocks
<1>9. \A d \in Calls : HoldsRow(d)' => row'[call'[d].wo] = call'[d].before
  BY <1>1, <1>4, <1>7, Zenon DEF RowLocks
<1>10. \A d, b \in Calls :
        HoldsRow(d)' /\ HoldsRow(b)' /\ call'[d].wo = call'[b].wo => d = b
  BY <1>4, <1>6, <1>7, Zenon DEF RowLocks
<1>11. \A d \in Calls : InTransaction(d)' => Rewrites(call'[d].before, call'[d].after)
  BY <1>4, <1>5, <1>7, Zenon DEF RowLocks
<1>12. QED BY <1>8, <1>9, <1>10, <1>11, Zenon DEF RowLocks

(* A call that keeps its locks, or gives them up, and leaves the rows.     *)
LEMMA CallLocks ==
    ASSUME TypeOK, RowLocks, NEW c \in Calls,
           (\E w \in WorkOrders, next \in Targets : CheckTransition(c, w, next))
             \/ MeasureBalance(c) \/ FailTransition(c)
    PROVE  RowLocks' /\ UNCHANGED <<row, issued, executions>>
<1>1. UNCHANGED <<row, issued, executions>> /\ \A d \in Calls \ {c} : call'[d] = call[d]
  BY Zenon DEF CheckTransition, MeasureBalance, FailTransition, TypeOK, reservationVars, orderVars,
         costVars
<1>2. \/ ~InTransaction(c)'
      \/ /\ InTransaction(c) /\ call'[c].wo = call[c].wo
         /\ call'[c].before = call[c].before /\ call'[c].after = call[c].after
  <2>1. CASE \E w \in WorkOrders, next \in Targets : CheckTransition(c, w, next)
    BY <2>1 DEF CheckTransition, InTransaction, TypeOK
  <2>2. CASE MeasureBalance(c)
    BY <2>2, Zenon DEF MeasureBalance, InTransaction, TypeOK
  <2>3. CASE FailTransition(c)
    BY <2>3, Zenon DEF FailTransition, InTransaction, TypeOK
  <2>4. QED BY <2>1, <2>2, <2>3, Zenon
<1>3. \A d \in Calls : InTransaction(d)' =>
        /\ InTransaction(d) /\ call'[d].wo = call[d].wo
        /\ call'[d].before = call[d].before /\ call'[d].after = call[d].after
  BY <1>1, <1>2, Zenon DEF InTransaction
<1>4. \A d \in Calls : HoldsRow(d)' => HoldsRow(d) /\ InTransaction(d)'
  BY <1>3, Zenon DEF HoldsRow
<1>5. QED BY <1>1, <1>3, <1>4, Zenon DEF RowLocks

(* A transition commits a rewrite of the row as it still is.               *)
LEMMA FinishRow ==
    ASSUME TypeOK, RowLocks, NEW c \in Calls, FinishTransition(c)
    PROVE  LET w == call[c].wo
           IN  /\ w \in WorkOrders /\ UNCHANGED <<issued, executions>>
               /\ call' = [call EXCEPT ![c] = Done]
               /\ \A x \in WorkOrders \ {w} : row'[x] = row[x]
               /\ Rewrites(row[w], row'[w])
               /\ \A d \in Calls \ {c} : HoldsRow(d) /\ call[d].wo = w => row'[w] = row[w]
<1> DEFINE w == call[c].wo
           before == call[c].before
           after == call[c].after
<1>1. /\ InTransaction(c)
      /\ before = NoRow /\ after # NoRow => row[w] = NoRow
      /\ row' = IF after = before THEN row ELSE [row EXCEPT ![w] = after]
      /\ call' = [call EXCEPT ![c] = Done]
      /\ UNCHANGED <<issued, executions>>
  BY Zenon DEF FinishTransition, InTransaction, costVars
<1>2. w \in WorkOrders
  BY <1>1, CallFields DEF InTransaction
<1>3. Rewrites(before, after)
  BY <1>1, Zenon DEF RowLocks
<1>4. before # NoRow => HoldsRow(c) /\ row[w] = before
  BY <1>1, Zenon DEF RowLocks, HoldsRow
<1>5. \A d \in Calls \ {c} : HoldsRow(d) /\ call[d].wo = w =>
        ~HoldsRow(c) /\ row[w] = call[d].before /\ call[d].before # NoRow
  BY Zenon DEF RowLocks, HoldsRow
<1> HIDE DEF w, before, after
<1>6. CASE after = before
  <2>1. row' = row
    BY <1>1, <1>6, Zenon
  <2>2. QED BY <1>1, <1>2, <2>1 DEF w, Rewrites
<1>7. CASE after # before
  <2>1. row[w] = before
    BY <1>1, <1>4, <1>7, Zenon
  <2>2. row'[w] = after /\ \A x \in WorkOrders \ {w} : row'[x] = row[x]
    BY <1>1, <1>2, <1>7, SMTT(20) DEF TypeOK
  <2>3. \A d \in Calls \ {c} : ~(HoldsRow(d) /\ call[d].wo = w)
    BY <1>4, <1>5, <2>1, Zenon
  <2>4. QED BY <1>1, <1>2, <1>3, <2>1, <2>2, <2>3, SMTT(20) DEF w
<1>8. QED BY <1>6, <1>7, Zenon

(* A transition that finishes keeps what is fulfilled.                     *)
LEMMA FinishFulfils ==
    ASSUME TypeOK, RowLocks, Fulfils, NEW c \in Calls, FinishTransition(c)
    PROVE  RowLocks' /\ RowStep /\ Fulfils'
<1> DEFINE w == call[c].wo
<1>1. /\ w \in WorkOrders /\ UNCHANGED <<issued, executions>>
      /\ call' = [call EXCEPT ![c] = Done]
      /\ \A x \in WorkOrders \ {w} : row'[x] = row[x]
      /\ Rewrites(row[w], row'[w])
      /\ \A d \in Calls \ {c} : HoldsRow(d) /\ call[d].wo = w => row'[w] = row[w]
  BY FinishRow, Zenon
<1> HIDE DEF w
<1>2. \A d \in Calls : InTransaction(d)' =>
        d # c /\ InTransaction(d) /\ call'[d] = call[d]
  BY <1>1, Zenon DEF InTransaction, TypeOK
<1>3. \A d \in Calls : HoldsRow(d)' => d # c /\ HoldsRow(d) /\ call'[d] = call[d]
  BY <1>2, Zenon DEF HoldsRow
<1>4. \A d \in Calls : InTransaction(d) => call[d].wo \in WorkOrders
  BY CallFields DEF InTransaction
<1>5. \A x \in WorkOrders : row'[x].status = "none" => row'[x] = NoRow
  <2>1. row[w].status = "none" => row[w] = NoRow
    BY <1>1, Zenon DEF RowLocks
  <2>2. row'[w].status = "none" => row'[w] = NoRow
    BY <1>1, <2>1 DEF Rewrites
  <2>3. QED BY <1>1, <2>2, Zenon DEF RowLocks
<1>6. \A d \in Calls : HoldsRow(d)' => row'[call'[d].wo] = call'[d].before
  <2>1. ASSUME NEW d \in Calls, HoldsRow(d)'
        PROVE  row'[call'[d].wo] = call'[d].before
    <3>1. d # c /\ HoldsRow(d) /\ call'[d] = call[d] /\ call[d].wo \in WorkOrders
      BY <1>3, <1>4, <2>1 DEF HoldsRow
    <3>2. row'[call[d].wo] = row[call[d].wo]
      BY <1>1, <3>1, Zenon
    <3>3. QED BY <3>1, <3>2, Zenon DEF RowLocks
  <2>2. QED BY <2>1, Zenon
<1>7. RowLocks'
  BY <1>2, <1>3, <1>5, <1>6, Zenon DEF RowLocks
<1>8. RowStep
  <2>1. row[w].status \in {"CANCELLED", "FULFILLED"} => row'[w] = row[w]
    BY <1>1 DEF Rewrites
  <2>2. \A x \in WorkOrders :
          /\ row[x].status = "CANCELLED" => row'[x] = row[x]
          /\ row[x].status = "FULFILLED" => row'[x] = row[x]
    BY <1>1, <2>1, Zenon
  <2>3. QED BY <2>2, SMTT(20) DEF RowStep
<1>9. Fulfils'
  <2>1. ASSUME NEW x \in WorkOrders, row'[x].status # "CANCELLED"
        PROVE  row[x].status # "CANCELLED" /\ row'[x].fulfilled = row[x].fulfilled
    <3>1. CASE x = w
      BY <1>1, <2>1, <3>1 DEF Rewrites
    <3>2. CASE x # w
      BY <1>1, <2>1, <3>2, Zenon
    <3>3. QED BY <3>1, <3>2, SMTT(20)
  <2>2. QED BY <1>1, <2>1, Zenon DEF Fulfils
<1>10. QED BY <1>7, <1>8, <1>9, Zenon

(* The inductive invariant of the reservations.                            *)
Reserved == TypeOK /\ RowLocks /\ Fulfils

(* Before the first work order nothing is consumed or fulfilled.           *)
LEMMA InitReserved == Init => Reserved
<1> SUFFICES ASSUME Init PROVE Reserved
  BY Zenon
<1>1. TypeOK
  BY InitType, Zenon
<1>2. RowLocks
  BY Zenon DEF Init, RowLocks, HoldsRow, InTransaction
<1>3. Fulfils
  <2>1. ASSUME NEW w \in WorkOrders
        PROVE  row[w].fulfilled = issued[w] + BatchQuantity(executions, w)
    <3>1. Batches(executions, w) = {}
      BY DEF Init, Batches
    <3>2. BatchQuantity(executions, w) = 0
      BY <3>1, SumEmpty, Zenon DEF BatchQuantity
    <3>3. row[w].fulfilled = 0 /\ issued[w] = 0
      BY DEF Init
    <3>4. QED BY <3>2, <3>3, SMTT(20)
  <2>2. QED BY <2>1 DEF Fulfils
<1>4. QED BY <1>1, <1>2, <1>3, SMTT(20) DEF Reserved

(* Every step keeps fulfilment and consumption together.                   *)
LEMMA NextReserved == Reserved /\ [Next]_vars => Reserved' /\ RowStep
<1> SUFFICES ASSUME Reserved, [Next]_vars PROVE Reserved' /\ RowStep
  BY Zenon
<1>1. TypeOK /\ RowLocks /\ Fulfils /\ TypeOK'
  BY NextType DEF Reserved
<1>2. ASSUME UNCHANGED <<row, issued, executions>>
      PROVE  Fulfils' /\ RowStep
  <2>1. Fulfils'
    BY <1>1, <1>2, Zenon DEF Fulfils
  <2>2. \A w \in WorkOrders : row'[w] = row[w]
    BY <1>2
  <2>3. QED BY <2>1, <2>2 DEF RowStep
<1>3. ASSUME UNCHANGED <<row, call>>
      PROVE  RowLocks'
  BY <1>1, <1>3, Zenon DEF RowLocks, HoldsRow, InTransaction
<1>4. CASE Transition
  <2>1. PICK c \in Calls :
          \/ \E w \in WorkOrders, next \in Targets : CheckTransition(c, w, next)
          \/ BeginTransition(c)
          \/ MeasureBalance(c)
          \/ FinishTransition(c)
          \/ FailTransition(c)
    BY <1>4 DEF Transition
  <2>2. CASE BeginTransition(c)
    <3>1. UNCHANGED <<row, issued, executions>>
      BY <2>2 DEF BeginTransition, orderVars, reservationVars, costVars
    <3>2. QED BY <1>1, <1>2, <2>2, <3>1, BeginLocks, SMTT(20) DEF Reserved
  <2>3. CASE FinishTransition(c)
    BY <1>1, <2>3, FinishFulfils, Zenon DEF Reserved
  <2>4. CASE (\E w \in WorkOrders, next \in Targets : CheckTransition(c, w, next))
               \/ MeasureBalance(c) \/ FailTransition(c)
    BY <1>1, <1>2, <2>4, CallLocks, Zenon DEF Reserved
  <2>5. QED BY <2>1, <2>2, <2>3, <2>4, Zenon
<1>5. CASE Posting
  <2>1. ASSUME NEW w \in WorkOrders, PostIssue(w)
        PROVE  Reserved' /\ RowStep
    BY <1>1, <2>1, IssueFulfils, Zenon DEF Reserved
  <2>2. ASSUME NEW w \in WorkOrders, PostCompletion(w)
        PROVE  Reserved' /\ RowStep
    <3>1. Fulfils' /\ UNCHANGED <<row, call>>
      BY <1>1, <2>2, CompletionFulfils, Zenon
    <3>2. \A x \in WorkOrders : row'[x] = row[x]
      BY <3>1
    <3>3. RowStep
      BY <3>2, Zenon DEF RowStep
    <3>4. QED BY <1>1, <1>3, <3>1, <3>3, SMTT(20) DEF Reserved
  <2>3. ASSUME NEW w \in WorkOrders, NEW q \in Quantities, RecordBatch(w, q)
        PROVE  Reserved' /\ RowStep
    BY <1>1, <2>3, BatchFulfils, Zenon DEF Reserved
  <2>4. ASSUME NEW e \in DOMAIN executions, VoidProduction(e)
        PROVE  Reserved' /\ RowStep
    BY <1>1, <2>4, VoidFulfils DEF Reserved
  <2>5. ASSUME UNCHANGED <<row, issued, executions, call>>
        PROVE  Reserved' /\ RowStep
    BY <1>1, <1>2, <1>3, <2>5, Zenon DEF Reserved
  <2>6. ASSUME NEW w \in WorkOrders,
               (\E q \in IssueForms : CreateIssue(w, q))
                 \/ (\E q \in CompletionForms : CreateCompletion(w, q))
        PROVE  UNCHANGED <<row, issued, executions, call>>
    BY <2>6 DEF CreateIssue, CreateCompletion, reservationVars, costVars
  <2>7. ASSUME NEW q \in Quantities,
               AcceptOutput(q) \/ \E e \in DOMAIN executions : ReportScrap(e, q)
        PROVE  UNCHANGED <<row, issued, executions, call>>
    BY <2>7 DEF AcceptOutput, ReportScrap, reservationVars, orderVars
  <2>8. QED BY <1>5, <2>1, <2>2, <2>3, <2>4, <2>5, <2>6, <2>7, SMTT(20) DEF Posting
<1>6. CASE UNCHANGED vars
  BY <1>1, <1>2, <1>3, <1>6, Zenon DEF vars, orderVars, reservationVars, costVars, Reserved
<1>7. QED BY <1>4, <1>5, <1>6, Zenon DEF Next

(* What a live or fulfilled reservation says was consumed is what the      *)
(* order's posted issues and its standing batches consumed, whatever the   *)
(* transitions and the voids that interleave.                              *)
THEOREM FulfilmentIsConsumption == Spec => []FulfilmentMatchesConsumption
<1>1. Reserved => FulfilmentMatchesConsumption
  BY RoundingIs, Zenon DEF Reserved, Fulfils, FulfilmentMatchesConsumption, BatchQuantity, Batches
<1>2. QED BY <1>1, InitReserved, NextReserved, PTL DEF Spec

(* A CANCELLED reservation never changes, and only a void reopens one that *)
(* is FULFILLED.                                                           *)
THEOREM VoidsAloneReopen == Spec => ReopenedOnlyByVoid
<1>1. Reserved /\ [Next]_vars => [RowStep]_vars
  BY NextReserved, Zenon
<1>2. [RowStep]_vars => [\A w \in WorkOrders :
        /\ row[w].status = "CANCELLED" => row'[w] = row[w]
        /\ (row[w].status = "FULFILLED" /\ row'[w] # row[w]) =>
                \E e \in DOMAIN executions :
                    /\ executions[e].wo = w
                    /\ ~executions[e].voided /\ executions'[e].voided]_vars
  BY Zenon DEF RowStep
<1>3. QED BY <1>1, <1>2, InitReserved, NextReserved, PTL DEF Spec, ReopenedOnlyByVoid
=============================================================================
