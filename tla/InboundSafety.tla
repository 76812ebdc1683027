---------------------------- MODULE InboundSafety ----------------------------
(***************************************************************************)
(* The safety invariants of Inbound, for any number of receipts and        *)
(* putaways and any quantities: first what a transfer and a change of      *)
(* allocation status preserve and type correctness, then the invariants.   *)
(*                                                                         *)
(* The invariant that carries the proof is Inv: five of the properties the *)
(* runs check, receipt by receipt, and what makes them inductive.  A       *)
(* receipt that does not exist yet has left no trace, a physical count     *)
(* only ever happens in the closeout that ends a receipt, and a putaway    *)
(* that was checked names an existing receipt.                             *)
(***************************************************************************)
EXTENDS Inbound, Sums, TLAPS

-----------------------------------------------------------------------------
(* The layers of receipt r, at whatever location.                          *)
LayersOf(r) ==
  layers["QA"][r] + layers["SELLABLE"][r] + layers["HOLD"][r] + layers["REJECT"][r]

(* Taking the oldest layers first takes no more of a layer than it holds.  *)
LEMMA OldestFirstTakes ==
  ASSUME NEW l, NEW q, NEW taken, OldestFirst(l, q, taken)
  PROVE  \A r \in Receipts : taken[r] <= layers[l][r]
BY Zenon DEF OldestFirst

(* A transfer keeps the types, and every receipt's layers in sum.          *)
LEMMA TransferKeeps ==
  ASSUME layers \in [Roles -> [Receipts -> Nat]], stock \in [Roles -> Nat],
         NEW from \in Roles, NEW to \in Roles, from # to, NEW q \in Nat,
         Transfer(from, to, q)
  PROVE  /\ layers' \in [Roles -> [Receipts -> Nat]]
         /\ stock' \in [Roles -> Nat]
         /\ \A r \in Receipts : LayersOf(r)' = LayersOf(r)
<1>1. PICK taken \in [Receipts -> 0..q] :
        /\ OldestFirst(from, q, taken)
        /\ layers' = [layers EXCEPT
             ![from] = [r \in Receipts |-> layers[from][r] - taken[r]],
             ![to] = [r \in Receipts |-> layers[to][r] + taken[r]]]
  BY Zenon DEF Transfer
<1>2. \A r \in Receipts : taken[r] \in Nat /\ taken[r] <= layers[from][r]
  BY <1>1, OldestFirstTakes
<1>3. stock' \in [Roles -> Nat]
  BY DEF Transfer
<1>4. /\ layers'[from] = [r \in Receipts |-> layers[from][r] - taken[r]]
      /\ layers'[to] = [r \in Receipts |-> layers[to][r] + taken[r]]
      /\ \A l \in Roles \ {from, to} : layers'[l] = layers[l]
      /\ DOMAIN layers' = Roles
  BY <1>1, Zenon
<1>5. layers' \in [Roles -> [Receipts -> Nat]]
  BY <1>1, <1>2
<1>6. ASSUME NEW r \in Receipts
      PROVE  LayersOf(r)' = LayersOf(r)
  <2>1. /\ layers'[from][r] = layers[from][r] - taken[r]
        /\ layers'[to][r] = layers[to][r] + taken[r]
        /\ \A l \in Roles \ {from, to} : layers'[l][r] = layers[l][r]
    BY <1>4, Zenon
  <2>2. \A l \in Roles : layers[l][r] \in Int /\ layers'[l][r] \in Int
    BY <1>5
  <2>3. taken[r] \in Int
    BY <1>2
  <2> QED
    BY <2>1, <2>2, <2>3 DEF LayersOf, Roles
<1> QED
  BY <1>3, <1>5, <1>6, Zenon

(* Units of one receipt change their allocation status.                    *)
LEMMA MoveKeeps ==
  ASSUME alloc \in [Receipts -> [Buckets -> Nat]],
         NEW r \in Receipts, NEW from \in Buckets, NEW to \in Buckets, from # to,
         NEW q \in Nat, MoveAllocation(r, from, to, q)
  PROVE  /\ alloc' \in [Receipts -> [Buckets -> Nat]]
         /\ alloc'[r][from] = alloc[r][from] - q
         /\ alloc'[r][to] = alloc[r][to] + q
         /\ \A b \in Buckets \ {from, to} : alloc'[r][b] = alloc[r][b]
         /\ \A s \in Receipts \ {r} : alloc'[s] = alloc[s]
         /\ alloc[r][from] >= q
BY DEF MoveAllocation

-----------------------------------------------------------------------------
(* The refresh of the order derives a status from every input.             *)
LEMMA DerivedTypes ==
  ASSUME NEW ln \in LineStatuses, NEW seen \in PoStatuses, NEW qty
  PROVE  DerivedLine(ln, qty) \in LineStatuses /\ DerivedPo(seen, ln, qty) \in PoStatuses
BY Zenon DEF DerivedLine, DerivedPo, LineStatuses, PoStatuses

(* The status update of an order writes statuses.                          *)
LEMMA UpdatePoTypes ==
  ASSUME NEW p \in PoStatuses, NEW ln \in LineStatuses, NEW st, NEW rcv,
         UpdatePoStatusFromReceipts(p, ln, st, rcv)
  PROVE  line' \in LineStatuses /\ po' \in PoStatuses
<1> DEFINE qty == LineReceived(st, rcv)
<1> DEFINE resolved == DerivedLine(ln, qty)
<1>1. resolved \in LineStatuses
  BY DerivedTypes, Zenon
<1>2. DerivedPo(p, resolved, qty) \in PoStatuses
  BY <1>1, DerivedTypes, Zenon
<1>3. /\ line' = IF p = "closed" THEN ln ELSE resolved
      /\ po' = IF p \in {"closed", "canceled"} THEN p ELSE DerivedPo(p, resolved, qty)
  BY Zenon DEF UpdatePoStatusFromReceipts
<1> HIDE DEF resolved
<1> QED
  BY <1>1, <1>2, <1>3, Zenon

(* The lifecycle of a receipt stays within its states.                     *)
LEMMA LifeTypes ==
  ASSUME NEW state \in LifeStates, NEW complete, NEW a, NEW h, NEW w
  PROVE  /\ EvaluateQc(state, complete, a, h, w) \in LifeStates
         /\ CompletePutaway(state, a, h) \in LifeStates
BY Zenon DEF EvaluateQc, CompletePutaway, LifeStates

(* A disposition leads off hold, to another status and another location.   *)
LEMMA DispositionTypes ==
  ASSUME NEW d \in Dispositions
  PROVE  /\ DispositionBucket(d) \in Buckets \ {"HOLD"}
         /\ RoleOf(DispositionBucket(d)) \in Roles \ {"HOLD"}
BY Zenon DEF Dispositions, DispositionBucket, Buckets, RoleOf, Roles

(* A quantity is positive.                                                 *)
LEMMA QuantityTypes == Quantities \subseteq Nat \ {0}
BY InboundAssumption DEF Quantities

(* The records of the refresh that follows a void, and of the putaways.    *)
Refreshes ==
  [pc : {"idle", "due", "read", "derived", "write"}, seen : PoStatuses, next : PoStatuses,
   stale : LineStatuses, line : LineStatuses]

PutawayRecords ==
  [status : {"none", "checked", "draft", "completed"}, receipt : Receipts, qty : Nat]

(* The putaways are records of their type.                                 *)
LEMMA PutawayType ==
  ASSUME TypeOK
  PROVE  putaway \in [Putaways -> PutawayRecords]
BY Zenon DEF TypeOK, PutawayRecords

(* The deferred refreshes are records of their type.                       *)
LEMMA RefreshType ==
  ASSUME TypeOK
  PROVE  refresh \in [Receipts -> Refreshes] /\ Idle \in Refreshes
<1>1. refresh \in [Receipts -> Refreshes]
  BY Zenon DEF TypeOK, Refreshes
<1>2. Idle \in Refreshes
  BY Zenon DEF Idle, Refreshes, PoStatuses, LineStatuses
<1> QED
  BY <1>1, <1>2, Zenon

(* The sets that the totals run over are finite.                           *)
LEMMA FiniteTables ==
  IsFiniteSet(Receipts) /\ \A l : IsFiniteSet({b \in Buckets : RoleOf(b) = l})
<1>1. IsFiniteSet(Receipts)
  BY InboundAssumption, FS_Interval DEF Receipts
<1>2. IsFiniteSet(Buckets)
  <2>1. IsFiniteSet({"QA"}) /\ IsFiniteSet({"AVAILABLE"}) /\ IsFiniteSet({"HOLD"})
        /\ IsFiniteSet({"REJECT"}) /\ IsFiniteSet({"REWORK"}) /\ IsFiniteSet({"DISCARDED"})
    BY FS_Singleton, Zenon
  <2>2. IsFiniteSet({"QA"} \cup {"AVAILABLE"}) /\ IsFiniteSet({"HOLD"} \cup {"REJECT"})
        /\ IsFiniteSet({"REWORK"} \cup {"DISCARDED"})
    BY <2>1, FS_Union, Zenon
  <2>3. IsFiniteSet(({"QA"} \cup {"AVAILABLE"}) \cup ({"HOLD"} \cup {"REJECT"}))
    BY <2>2, FS_Union, Zenon
  <2>4. IsFiniteSet((({"QA"} \cup {"AVAILABLE"}) \cup ({"HOLD"} \cup {"REJECT"}))
                      \cup ({"REWORK"} \cup {"DISCARDED"}))
    BY <2>2, <2>3, FS_Union, Zenon
  <2>5. Buckets = (({"QA"} \cup {"AVAILABLE"}) \cup ({"HOLD"} \cup {"REJECT"}))
                    \cup ({"REWORK"} \cup {"DISCARDED"})
    BY Zenon DEF Buckets
  <2> QED
    BY <2>4, <2>5, Zenon
<1>3. ASSUME NEW l PROVE IsFiniteSet({b \in Buckets : RoleOf(b) = l})
  <2>1. {b \in Buckets : RoleOf(b) = l} \subseteq Buckets
    BY Zenon
  <2> QED
    BY <1>2, <2>1, FS_Subset, Zenon
<1> QED
  BY <1>1, <1>3, Zenon

-----------------------------------------------------------------------------
(* The physical counts of a closeout.                                      *)

(* A count is about one of the four statuses that units can be counted in. *)
LEMMA CountedStatusType ==
  ASSUME NEW c \in Counts, NEW l
  PROVE  CountedStatus(c, l) \in {"QA", "AVAILABLE", "HOLD", "REJECT"}
BY DEF CountedStatus, Counts

(* Every status is kept at one location.                                   *)
LEMMA RoleOfType == \A b \in Buckets : RoleOf(b) \in Roles
BY DEF Buckets, RoleOf, Roles

(* What a count is compared with is a quantity.                            *)
LEMMA ExpectedCountType ==
  ASSUME alloc \in [Receipts -> [Buckets -> Nat]],
         NEW r \in Receipts, NEW c \in Counts, NEW l \in Roles
  PROVE  ExpectedCount(r, c, l) \in Nat
<1> DEFINE f == alloc[r]
           S == {b \in Buckets : RoleOf(b) = l}
<1>1. IsFiniteSet(S) /\ \A b \in S : f[b] \in Nat
  BY FiniteTables, Zenon
<1>2. f[CountedStatus(c, l)] \in Nat
  <2>1. CountedStatus(c, l) \in Buckets
    BY CountedStatusType, Zenon DEF Buckets
  <2> QED
    BY <2>1, Zenon
<1> HIDE DEF f, S
<1>3. SumFunctionOnSet(f, S) \in Nat
  BY <1>1, SumIsNatural, Zenon
<1> QED
  BY <1>2, <1>3 DEF ExpectedCount, f, S

(* The differences that the counts find are integers.                      *)
LEMMA DifferencesType ==
  ASSUME alloc \in [Receipts -> [Buckets -> Nat]],
         NEW r \in Receipts, NEW sheet \in CountSheets
  PROVE  Differences(r, sheet) \in [Roles -> Int]
<1>1. ASSUME NEW l \in Roles
      PROVE  (IF sheet[l].status = "none" THEN 0
              ELSE sheet[l].qty - ExpectedCount(r, sheet[l], l)) \in Int
  <2>1. sheet[l] \in Counts
    BY InboundAssumption, Zenon
  <2>2. sheet[l].qty \in Nat
    BY <2>1, Zenon DEF Counts
  <2>3. ExpectedCount(r, sheet[l], l) \in Nat
    BY <2>1, ExpectedCountType, Zenon
  <2> QED
    BY <2>2, <2>3
<1> QED
  BY <1>1, Zenon DEF Differences

(* A sheet of counts changes each location by an integer and each status   *)
(* by an integer, takes neither below zero, and leaves the reworked and    *)
(* the discarded units alone.                                              *)
LEMMA CountsApplied ==
  ASSUME TypeOK, NEW r \in Receipts, NEW sheet \in CountSheets, ApplyAdjustments(r, sheet)
  PROVE  \E delta \in [Roles -> Int], correction \in [Buckets -> Int] :
           /\ correction["REWORK"] = 0 /\ correction["DISCARDED"] = 0
           /\ \A b \in Buckets : alloc[r][b] + correction[b] >= 0
           /\ \A l \in Roles : stock[l] + delta[l] >= 0
           /\ alloc' = [alloc EXCEPT ![r] = [b \in Buckets |-> alloc[r][b] + correction[b]]]
           /\ adjusted' = [adjusted EXCEPT
                ![r] = [b \in Buckets |-> adjusted[r][b] + correction[b]]]
           /\ counted' = [counted EXCEPT ![r] = [l \in Roles |-> counted[r][l] + delta[l]]]
           /\ stock' = [l \in Roles |-> stock[l] + delta[l]]
<1>0. \A b \in Buckets : alloc[r][b] \in Nat
  BY DEF TypeOK
<1> DEFINE delta == Differences(r, sheet)
           correction == Corrections(sheet, delta)
           at(b, l) == IF CountedStatus(sheet[l], l) = b THEN delta[l] ELSE 0
<1>1. delta \in [Roles -> Int]
  BY DifferencesType, Zenon DEF TypeOK
<1>2. /\ \A l \in Roles : /\ ShortageCovered(r, CountedStatus(sheet[l], l), l, delta[l])
                          /\ stock[l] + delta[l] >= 0
      /\ alloc' = [alloc EXCEPT ![r] = [b \in Buckets |-> alloc[r][b] + correction[b]]]
      /\ adjusted' = [adjusted EXCEPT
           ![r] = [b \in Buckets |-> adjusted[r][b] + correction[b]]]
      /\ counted' = [counted EXCEPT ![r] = [l \in Roles |-> counted[r][l] + delta[l]]]
      /\ stock' = [l \in Roles |-> stock[l] + delta[l]]
  BY Zenon DEF ApplyAdjustments
<1>3. ASSUME NEW b \in Buckets
      PROVE  /\ correction[b] \in Int
             /\ alloc[r][b] + correction[b] >= 0
             /\ b \in {"REWORK", "DISCARDED"} => correction[b] = 0
  <2>1. correction[b] = at(b, "QA") + at(b, "SELLABLE") + at(b, "HOLD") + at(b, "REJECT")
    BY Zenon DEF Corrections
  <2>2. alloc[r][b] \in Nat
    BY <1>0, Zenon
  <2>3. ASSUME NEW l \in Roles
        PROVE  /\ at(b, l) \in Int
               /\ RoleOf(b) # l => at(b, l) >= 0
               /\ RoleOf(b) = l => alloc[r][b] + at(b, l) >= 0
               /\ b \in {"REWORK", "DISCARDED"} => at(b, l) = 0
    <3>1. delta[l] \in Int
      BY <1>1, Zenon
    <3>2. ShortageCovered(r, CountedStatus(sheet[l], l), l, delta[l])
      BY <1>2, Zenon
    <3>3. CountedStatus(sheet[l], l) \in {"QA", "AVAILABLE", "HOLD", "REJECT"}
      BY CountedStatusType, InboundAssumption, Zenon
    <3> DEFINE k == delta[l]
               s == CountedStatus(sheet[l], l)
    <3> HIDE DEF delta, k, s
    <3> QED
      BY <2>2, <3>1, <3>2, <3>3 DEF ShortageCovered, k, s
  <2>4. RoleOf(b) \in Roles
    BY RoleOfType, Zenon
  <2> DEFINE a == alloc[r][b]
             k1 == at(b, "QA")
             k2 == at(b, "SELLABLE")
             k3 == at(b, "HOLD")
             k4 == at(b, "REJECT")
  <2>5. /\ k1 \in Int /\ k2 \in Int /\ k3 \in Int /\ k4 \in Int
        /\ b \in {"REWORK", "DISCARDED"} => k1 = 0 /\ k2 = 0 /\ k3 = 0 /\ k4 = 0
    BY <2>3, Zenon DEF Roles
  <2>6. \/ a + k1 >= 0 /\ k2 >= 0 /\ k3 >= 0 /\ k4 >= 0
        \/ a + k2 >= 0 /\ k1 >= 0 /\ k3 >= 0 /\ k4 >= 0
        \/ a + k3 >= 0 /\ k1 >= 0 /\ k2 >= 0 /\ k4 >= 0
        \/ a + k4 >= 0 /\ k1 >= 0 /\ k2 >= 0 /\ k3 >= 0
    BY <2>3, <2>4, Zenon DEF Roles
  <2>7. correction[b] = k1 + k2 + k3 + k4 /\ a \in Nat
    BY <2>1, <2>2, Zenon
  <2> DEFINE k == correction[b]
  <2> HIDE DEF a, k, k1, k2, k3, k4
  <2>8. k \in Int /\ a + k >= 0 /\ (b \in {"REWORK", "DISCARDED"} => k = 0)
    BY <2>5, <2>6, <2>7 DEF k
  <2> QED
    BY <2>8, Zenon DEF a, k
<1>4. correction \in [Buckets -> Int]
  BY <1>3, Zenon DEF Corrections
<1>5. correction["REWORK"] = 0 /\ correction["DISCARDED"] = 0
  BY <1>3, Zenon DEF Buckets
<1> HIDE DEF delta, correction
<1> QED
  BY <1>1, <1>2, <1>3, <1>4, <1>5, Zenon

-----------------------------------------------------------------------------
(* The initial state is well typed.                                        *)
LEMMA TypeInit == Init => TypeOK
BY InboundAssumption
DEF Init, TypeOK, Idle, NoPutaway, Receipts, LifeStates, PoStatuses, LineStatuses,
    QcTypes, Dispositions, Buckets

(* One step per action, and one per table the action rewrites.             *)
LEMMA TypeNext == TypeOK /\ [Next]_vars => TypeOK'
<1> SUFFICES ASSUME TypeOK, [Next]_vars PROVE TypeOK'
  BY Zenon
<1> USE QuantityTypes
<1>1. ASSUME NEW r \in Receipts, NEW q \in Quantities, NEW over \in BOOLEAN,
             CreateReceipt(r, q, over)
      PROVE  TypeOK'
  <2>1. line' \in LineStatuses /\ po' \in PoStatuses
    BY <1>1, UpdatePoTypes, Zenon DEF CreateReceipt, TypeOK
  <2>2. alloc' \in [Receipts -> [Buckets -> Nat]]
    BY <1>1, Zenon DEF CreateReceipt, TypeOK
  <2>3. layers' \in [Roles -> [Receipts -> Nat]]
    BY <1>1, Zenon DEF CreateReceipt, TypeOK
  <2>4. stock' \in [Roles -> Nat]
    <3>1. stock' = [stock EXCEPT !["QA"] = @ + q] /\ "QA" \in Roles /\ stock \in [Roles -> Nat]
      BY <1>1, Zenon DEF CreateReceipt, Roles, TypeOK
    <3> QED
      BY <3>1
  <2> QED
    BY <1>1, <2>1, <2>2, <2>3, <2>4, Zenon DEF CreateReceipt, TypeOK, qcVars, LifeStates
<1>2. ASSUME NEW r \in Receipts, VoidReceipt(r)
      PROVE  TypeOK'
  <2>1. layers' \in [Roles -> [Receipts -> Nat]]
    BY <1>2, Zenon DEF VoidReceipt, TypeOK, Roles
  <2>2. stock' \in [Roles -> Nat]
    <3>1. received[r] \in Nat /\ "QA" \in Roles /\ stock["QA"] \in Nat
      BY Zenon DEF TypeOK, Roles
    <3> QED
      BY <1>2, <3>1 DEF VoidReceipt, TypeOK
  <2>3. refresh' \in [Receipts -> Refreshes]
    <3>1. refresh' = [refresh EXCEPT ![r].pc = "due"]
      BY <1>2, Zenon DEF VoidReceipt
    <3> QED
      BY <3>1, RefreshType, Zenon DEF Refreshes
  <2> QED
    BY <1>2, <2>1, <2>2, <2>3, Zenon DEF VoidReceipt, TypeOK, Refreshes, qcVars
<1>3. ASSUME NEW r \in Receipts, ReadPoStatus(r) \/ ReadPoLines(r)
      PROVE  TypeOK'
  <2>1. DerivedLine(line, LineReceived(status, received)) \in LineStatuses
    BY DerivedTypes, Zenon DEF TypeOK
  <2>2. DerivedPo(refresh[r].seen, DerivedLine(line, LineReceived(status, received)),
                  LineReceived(status, received)) \in PoStatuses
    BY <2>1, DerivedTypes, Zenon DEF TypeOK
  <2>3. refresh' \in [Receipts -> Refreshes]
    <3>1. CASE ReadPoStatus(r)
      <4>1. refresh' = [refresh EXCEPT ![r] =
              IF po = "closed" THEN Idle ELSE [@ EXCEPT !.pc = "read", !.seen = po]]
        BY <3>1, Zenon DEF ReadPoStatus
      <4>2. po \in PoStatuses
        BY Zenon DEF TypeOK
      <4> QED
        BY <4>1, <4>2, RefreshType, Zenon DEF Refreshes
    <3>2. CASE ReadPoLines(r)
      <4> DEFINE resolved == DerivedLine(line, LineReceived(status, received))
      <4> DEFINE nxt == DerivedPo(refresh[r].seen, resolved, LineReceived(status, received))
      <4>1. refresh' = [refresh EXCEPT ![r] =
              [@ EXCEPT !.pc = "derived", !.stale = line, !.line = resolved, !.next = nxt]]
        BY <3>2, Zenon DEF ReadPoLines
      <4>2. resolved \in LineStatuses /\ nxt \in PoStatuses /\ line \in LineStatuses
        BY <2>1, <2>2, Zenon DEF TypeOK
      <4> HIDE DEF resolved, nxt
      <4> QED
        BY <4>1, <4>2, RefreshType, Zenon DEF Refreshes
    <3> QED
      BY <1>3, <3>1, <3>2, Zenon
  <2> QED
    BY <1>3, <2>3, Zenon
    DEF ReadPoStatus, ReadPoLines, TypeOK, Refreshes, receiptVars, qcVars, stockVars
<1>4. ASSUME NEW r \in Receipts, WritePoLine(r) \/ WritePoStatus(r)
      PROVE  TypeOK'
  <2>1. CASE WritePoLine(r)
    <3>1. refresh' = [refresh EXCEPT ![r] =
            IF @.seen \in {"canceled", @.next} THEN Idle ELSE [@ EXCEPT !.pc = "write"]]
      BY <2>1, Zenon DEF WritePoLine
    <3>2. refresh' \in [Receipts -> Refreshes]
      BY <3>1, RefreshType, Zenon DEF Refreshes
    <3>3. line' \in LineStatuses
      BY <2>1, RefreshType, Zenon DEF WritePoLine, TypeOK, Refreshes
    <3> QED
      BY <2>1, <3>2, <3>3, Zenon DEF WritePoLine, TypeOK, Refreshes, receiptVars, qcVars, stockVars
  <2>2. CASE WritePoStatus(r)
    <3>1. refresh' \in [Receipts -> Refreshes]
      BY <2>2, RefreshType, Zenon DEF WritePoStatus
    <3>2. po' \in PoStatuses
      BY <2>2, RefreshType, Zenon DEF WritePoStatus, Refreshes
    <3> QED
      BY <2>2, <3>1, <3>2, Zenon
      DEF WritePoStatus, TypeOK, Refreshes, receiptVars, qcVars, stockVars
  <2> QED
    BY <1>4, <2>1, <2>2, Zenon
<1>5. ASSUME NEW r \in Receipts, NEW q \in Quantities, NEW t \in QcTypes, QcEvent(r, t, q)
      PROVE  TypeOK'
  <2>1. /\ alloc' \in [Receipts -> [Buckets -> Nat]]
        /\ layers' \in [Roles -> [Receipts -> Nat]]
        /\ stock' \in [Roles -> Nat]
    <3>1. CASE UNCHANGED <<alloc, stockVars>>
      BY <3>1, Zenon DEF stockVars, TypeOK
    <3>2. CASE MoveAllocation(r, "QA", "HOLD", q) /\ Transfer("QA", "HOLD", q)
      BY <3>2, MoveKeeps, TransferKeeps, Zenon DEF TypeOK, Roles, Buckets
    <3>3. CASE MoveAllocation(r, "QA", "REJECT", q) /\ Transfer("QA", "REJECT", q)
      BY <3>3, MoveKeeps, TransferKeeps, Zenon DEF TypeOK, Roles, Buckets
    <3> QED
      BY <1>5, <3>1, <3>2, <3>3, Zenon DEF QcEvent, QcUnits
  <2>2. qc' \in [Receipts -> [QcTypes -> Nat]]
    BY <1>5 DEF QcEvent, TypeOK
  <2>3. events' \in [Receipts -> Nat]
    BY <1>5 DEF QcEvent, TypeOK
  <2>4. life' \in [Receipts -> LifeStates]
    BY <1>5, LifeTypes, Zenon DEF QcEvent, TypeOK
  <2> QED
    BY <1>5, <2>1, <2>2, <2>3, <2>4, Zenon DEF QcEvent, TypeOK, poVars
<1>6. ASSUME NEW r \in Receipts, NEW q \in Quantities, NEW d \in Dispositions,
             ResolveHoldDisposition(r, d, q)
      PROVE  TypeOK'
  <2> DEFINE b == DispositionBucket(d)
  <2>1. b \in Buckets /\ b # "HOLD" /\ RoleOf(b) \in Roles /\ RoleOf(b) # "HOLD"
    BY DispositionTypes, Zenon
  <2>2. MoveAllocation(r, "HOLD", b, q) /\ Transfer("HOLD", RoleOf(b), q)
    BY <1>6, Zenon DEF ResolveHoldDisposition
  <2> HIDE DEF b
  <2>3. /\ alloc' \in [Receipts -> [Buckets -> Nat]]
        /\ layers' \in [Roles -> [Receipts -> Nat]]
        /\ stock' \in [Roles -> Nat]
    <3>1. "HOLD" \in Buckets /\ "HOLD" \in Roles
      BY Zenon DEF Buckets, Roles
    <3> QED
      BY <2>1, <2>2, <3>1, MoveKeeps, TransferKeeps, Zenon DEF TypeOK
  <2>4. disposed' \in [Receipts -> [Dispositions -> Nat]]
    BY <1>6 DEF ResolveHoldDisposition, TypeOK
  <2>5. life' \in [Receipts -> LifeStates]
    BY <1>6, LifeTypes, Zenon DEF ResolveHoldDisposition, TypeOK
  <2> QED
    BY <1>6, <2>3, <2>4, <2>5, Zenon DEF ResolveHoldDisposition, TypeOK, poVars
<1>7. ASSUME NEW l \in Roles, NEW q \in Quantities, QcWarehouseDisposition(l, q)
      PROVE  TypeOK'
  <2>1. layers' \in [Roles -> [Receipts -> Nat]] /\ stock' \in [Roles -> Nat]
    <3>1. "QA" \in Roles /\ l # "QA" /\ Transfer("QA", l, q)
      BY <1>7, Zenon DEF QcWarehouseDisposition, Roles
    <3> QED
      BY <3>1, TransferKeeps, Zenon DEF TypeOK
  <2> QED
    BY <1>7, <2>1, Zenon DEF QcWarehouseDisposition, TypeOK, receiptVars, qcVars, poVars
<1>8. ASSUME NEW p \in Putaways, NEW r \in Receipts, NEW q \in Quantities, CheckPutaway(p, r, q)
      PROVE  TypeOK'
  BY <1>8, Zenon DEF CheckPutaway, TypeOK, receiptVars, qcVars, stockVars, poVars
<1>9. ASSUME NEW p \in Putaways, InsertPutaway(p)
      PROVE  TypeOK'
  <2>1. putaway' \in [Putaways -> PutawayRecords]
    <3>1. putaway' = [putaway EXCEPT ![p].status = "draft"]
      BY <1>9, Zenon DEF InsertPutaway
    <3> QED
      BY <3>1, PutawayType, Zenon DEF PutawayRecords
  <2> QED
    BY <1>9, <2>1, Zenon
    DEF InsertPutaway, TypeOK, PutawayRecords, receiptVars, qcVars, stockVars, poVars
<1>10. ASSUME NEW p \in Putaways, PostPutaway(p)
       PROVE  TypeOK'
  <2> DEFINE r == putaway[p].receipt
  <2> DEFINE q == putaway[p].qty
  <2>1. r \in Receipts /\ q \in Nat
    BY Zenon DEF TypeOK
  <2>2. MoveAllocation(r, "QA", "AVAILABLE", q) /\ Transfer("QA", "SELLABLE", q)
    BY <1>10, Zenon DEF PostPutaway
  <2>3. /\ moved' = [moved EXCEPT ![r] = @ + q]
        /\ life' = [life EXCEPT ![r] =
             CompletePutaway(@, qc[r]["accept"], alloc'[r]["AVAILABLE"])]
        /\ putaway' = [putaway EXCEPT ![p].status = "completed"]
        /\ UNCHANGED <<status, received, closed, qcVars, adjusted, counted, poVars>>
    BY <1>10, Zenon DEF PostPutaway
  <2> HIDE DEF r, q
  <2>4. /\ alloc' \in [Receipts -> [Buckets -> Nat]]
        /\ layers' \in [Roles -> [Receipts -> Nat]]
        /\ stock' \in [Roles -> Nat]
    BY <2>1, <2>2, MoveKeeps, TransferKeeps, Zenon DEF TypeOK, Roles, Buckets
  <2>5. moved' \in [Receipts -> Nat]
    BY <2>1, <2>3 DEF TypeOK
  <2>6. life' \in [Receipts -> LifeStates]
    BY <2>1, <2>3, LifeTypes, Zenon DEF TypeOK
  <2>7. putaway' \in [Putaways -> PutawayRecords]
    BY <2>3, PutawayType, Zenon DEF PutawayRecords
  <2> QED
    BY <2>3, <2>4, <2>5, <2>6, <2>7, Zenon DEF TypeOK, PutawayRecords, qcVars, poVars
<1>11. ASSUME NEW r \in Receipts, NEW sheet \in CountSheets, CloseReceipt(r, sheet)
       PROVE  TypeOK'
  <2>1. ApplyAdjustments(r, sheet)
    BY <1>11, Zenon DEF CloseReceipt
  <2>2. PICK delta \in [Roles -> Int], correction \in [Buckets -> Int] :
          /\ \A b \in Buckets : alloc[r][b] + correction[b] >= 0
          /\ \A l \in Roles : stock[l] + delta[l] >= 0
          /\ alloc' = [alloc EXCEPT ![r] = [b \in Buckets |-> alloc[r][b] + correction[b]]]
          /\ adjusted' = [adjusted EXCEPT
               ![r] = [b \in Buckets |-> adjusted[r][b] + correction[b]]]
          /\ counted' = [counted EXCEPT ![r] = [l \in Roles |-> counted[r][l] + delta[l]]]
          /\ stock' = [l \in Roles |-> stock[l] + delta[l]]
    BY <2>1, CountsApplied, Zenon
  <2>3. [b \in Buckets |-> alloc[r][b] + correction[b]] \in [Buckets -> Nat]
    BY <2>2 DEF TypeOK
  <2>4. alloc' \in [Receipts -> [Buckets -> Nat]]
    BY <2>2, <2>3, Zenon DEF TypeOK
  <2>5. stock' \in [Roles -> Nat]
    BY <2>2 DEF TypeOK
  <2>6. /\ [b \in Buckets |-> adjusted[r][b] + correction[b]] \in [Buckets -> Int]
        /\ [l \in Roles |-> counted[r][l] + delta[l]] \in [Roles -> Int]
    BY DEF TypeOK
  <2>7. /\ adjusted' \in [Receipts -> [Buckets -> Int]]
        /\ counted' \in [Receipts -> [Roles -> Int]]
    BY <2>2, <2>6, Zenon DEF TypeOK
  <2> QED
    BY <1>11, <2>4, <2>5, <2>7, Zenon DEF CloseReceipt, TypeOK, qcVars, poVars
<1>12. ASSUME NEW c \in LineStatuses, ClosePurchaseOrderLine(c)
       PROVE  TypeOK'
  <2>1. line' \in LineStatuses /\ po' \in PoStatuses
    BY <1>12, UpdatePoTypes, Zenon DEF ClosePurchaseOrderLine, TypeOK
  <2> QED
    BY <1>12, <2>1, Zenon DEF ClosePurchaseOrderLine, TypeOK, receiptVars, qcVars, stockVars
<1>13. ASSUME NEW c \in PoStatuses, ClosePurchaseOrder(c)
       PROVE  TypeOK'
  <2>1. line' \in LineStatuses
    BY <1>13, Zenon DEF ClosePurchaseOrder, TypeOK, LineStatuses
  <2> QED
    BY <1>13, <2>1, Zenon DEF ClosePurchaseOrder, TypeOK, receiptVars, qcVars, stockVars
<1>14. CASE UNCHANGED vars
  BY <1>14, Zenon DEF vars, TypeOK, receiptVars, qcVars, stockVars, poVars
<1> QED
  BY <1>1, <1>2, <1>3, <1>4, <1>5, <1>6, <1>7, <1>8, <1>9, <1>10, <1>11, <1>12, <1>13, <1>14, Zenon
  DEF Next

(* The tables of the inbound flow keep their types: no handler drives a    *)
(* balance, an allocation or a cost layer below zero.                      *)
THEOREM TypeCorrect == Spec => []TypeOK
BY TypeInit, TypeNext, PTL DEF Spec

-----------------------------------------------------------------------------
(***************************************************************************)
(* The inductive invariant.  The allocations add up only because a receipt *)
(* that does not exist yet has no events (Untouched), and putaways stay    *)
(* within what was accepted only because a count, which could lower the    *)
(* available quantity and so make room for another putaway, happens in the *)
(* closeout alone (CountedLast), after which nothing is left in QA.        *)
(***************************************************************************)

AllocationsAdd(r) ==
  /\ alloc[r]["QA"] = received[r] - moved[r] - qc[r]["hold"] - qc[r]["reject"] + adjusted[r]["QA"]
  /\ alloc[r]["AVAILABLE"] = moved[r] + disposed[r]["release"] + adjusted[r]["AVAILABLE"]
  /\ alloc[r]["HOLD"] = NetHold(r) + adjusted[r]["HOLD"]
  /\ alloc[r]["REJECT"] = qc[r]["reject"] + adjusted[r]["REJECT"]
  /\ alloc[r]["REWORK"] = disposed[r]["rework"]
  /\ alloc[r]["DISCARDED"] = disposed[r]["discard"]

(* The states of a receipt whose inspection is over.                       *)
DecidedStates == {"QC_COMPLETED", "PUTAWAY_PENDING", "AVAILABLE", "REJECTED"}

Decided(r) ==
  /\ life[r] \in DecidedStates =>
       QcTotal(r) = received[r] /\ NetHold(r) = 0
  /\ life[r] = "REJECTED" =>
       qc[r]["accept"] = 0 /\ disposed[r]["release"] = 0 /\ disposed[r]["rework"] = 0

Untouched(r) ==
  /\ received[r] = 0
  /\ moved[r] = 0
  /\ qc[r]["accept"] = 0 /\ qc[r]["hold"] = 0 /\ qc[r]["reject"] = 0
  /\ disposed[r]["release"] = 0 /\ disposed[r]["rework"] = 0 /\ disposed[r]["discard"] = 0
  /\ closed[r] = FALSE

CountedLast(r) ==
  closed[r] = FALSE => /\ adjusted[r]["QA"] = 0
                       /\ adjusted[r]["AVAILABLE"] = 0
                       /\ adjusted[r]["HOLD"] = 0
                       /\ adjusted[r]["REJECT"] = 0

RecordOK(r) ==
  /\ AllocationsAdd(r)
  /\ Decided(r)
  /\ QcTotal(r) <= received[r]
  /\ moved[r] <= qc[r]["accept"]
  /\ closed[r] = TRUE => alloc[r]["QA"] = 0 /\ NetHold(r) = 0
  /\ status[r] = "none" => Untouched(r)
  /\ CountedLast(r)
  /\ NetHold(r) >= 0

CostOK(r) == LayersOf(r) = IF status[r] = "voided" THEN 0 ELSE received[r]

(* A checked putaway moves something, of a receipt that exists.            *)
PutawayOK(p) ==
  putaway[p].status # "none" => putaway[p].qty >= 1 /\ status[putaway[p].receipt] # "none"

Inv ==
  /\ TypeOK
  /\ \A r \in Receipts : RecordOK(r) /\ CostOK(r)
  /\ \A p \in Putaways : PutawayOK(p)

(* The invariant implies what the runs check.                              *)
LEMMA InvImplies ==
  Inv => /\ AllocationsMatchEvents
         /\ ReceiptCostConserved
         /\ QcCompletedMeansDecided
         /\ PutawayWithinAccepted
         /\ ClosedReceiptSettled
<1> SUFFICES ASSUME Inv PROVE /\ AllocationsMatchEvents
                              /\ ReceiptCostConserved
                              /\ QcCompletedMeansDecided
                              /\ PutawayWithinAccepted
                              /\ ClosedReceiptSettled
  BY Zenon
<1>1. AllocationsMatchEvents
  BY Zenon DEF Inv, RecordOK, AllocationsAdd, AllocationsMatchEvents
<1>2. ReceiptCostConserved
  BY Zenon DEF Inv, CostOK, LayersOf, ReceiptCostConserved
<1>3. QcCompletedMeansDecided
  BY Zenon DEF Inv, RecordOK, Decided, DecidedStates, QcCompletedMeansDecided
<1>4. PutawayWithinAccepted
  BY Zenon DEF Inv, RecordOK, PutawayWithinAccepted
<1>5. ClosedReceiptSettled
  BY Zenon DEF Inv, RecordOK, ClosedReceiptSettled, TypeOK
<1> QED
  BY <1>1, <1>2, <1>3, <1>4, <1>5, Zenon

(* A change of allocation status, status by status.                        *)
LEMMA MoveBuckets ==
  ASSUME TypeOK, NEW r \in Receipts, NEW from \in Buckets, NEW to \in Buckets, from # to,
         NEW q \in Quantities \cup Nat, MoveAllocation(r, from, to, q)
  PROVE  /\ alloc[r][from] >= q
         /\ alloc'[r][from] = alloc[r][from] - q
         /\ alloc'[r][to] = alloc[r][to] + q
         /\ \A b \in Buckets \ {from, to} : alloc'[r][b] = alloc[r][b]
<1>1. q \in Nat
  BY QuantityTypes, Zenon
<1> QED
  BY <1>1, MoveKeeps DEF TypeOK

(* What is said of a receipt depends on its own rows only.                 *)
LEMMA RecordFrame ==
  ASSUME NEW s, RecordOK(s),
         status'[s] = status[s], life'[s] = life[s], received'[s] = received[s],
         closed'[s] = closed[s], qc'[s] = qc[s], disposed'[s] = disposed[s],
         alloc'[s] = alloc[s], adjusted'[s] = adjusted[s], moved'[s] = moved[s]
  PROVE  RecordOK(s)'
BY Zenon
DEF RecordOK, AllocationsAdd, Decided, Untouched, CountedLast, QcTotal, NetHold, DisposedTotal

(* The invariant holds before the first receipt.                           *)
LEMMA InvInit == Init => Inv
<1> SUFFICES ASSUME Init PROVE Inv
  BY Zenon
<1>1. TypeOK
  BY TypeInit, Zenon
<1>2. ASSUME NEW r \in Receipts PROVE RecordOK(r)
  <2>1. /\ status[r] = "none" /\ life[r] = "none" /\ received[r] = 0 /\ moved[r] = 0
        /\ closed[r] = FALSE
        /\ \A t \in QcTypes : qc[r][t] = 0
        /\ \A d \in Dispositions : disposed[r][d] = 0
        /\ \A b \in Buckets : alloc[r][b] = 0 /\ adjusted[r][b] = 0
    BY Zenon DEF Init
  <2>2. Decided(r)
    BY <2>1, Zenon DEF Decided, DecidedStates
  <2>3. Untouched(r) /\ CountedLast(r) /\ QcTotal(r) = 0 /\ NetHold(r) = 0
    BY <2>1
    DEF Untouched, CountedLast, QcTotal, NetHold, DisposedTotal, QcTypes, Dispositions, Buckets
  <2>4. AllocationsAdd(r)
    BY <2>1, <2>3 DEF AllocationsAdd, Untouched, Buckets
  <2> QED
    BY <2>1, <2>2, <2>3, <2>4 DEF RecordOK, Untouched
<1>3. ASSUME NEW r \in Receipts PROVE CostOK(r)
  BY DEF Init, CostOK, LayersOf, Roles
<1>4. ASSUME NEW p \in Putaways PROVE PutawayOK(p)
  BY Zenon DEF Init, PutawayOK, NoPutaway
<1> QED
  BY <1>1, <1>2, <1>3, <1>4, Zenon DEF Inv

-----------------------------------------------------------------------------
(* The line counted once per event is at least the line.                   *)
LEMMA FanOut ==
  ASSUME NEW x \in Nat, NEW n \in Nat
  PROVE  x <= x * (n + 1)
<1>1. x * (n + 1) = x * n + x
  OBVIOUS
<1>2. x * n \in Nat
  OBVIOUS
<1> QED
  BY <1>1, <1>2

(* The quantities of a receipt, table by table.                            *)
LEMMA LineValues ==
  ASSUME TypeOK, NEW r \in Receipts
  PROVE  /\ received[r] \in Int /\ received[r] >= 0
         /\ moved[r] \in Int /\ moved[r] >= 0
<1>1. received \in [Receipts -> Nat] /\ moved \in [Receipts -> Nat]
  BY Zenon DEF TypeOK
<1> QED
  BY <1>1

(* The QC events.                                                          *)
LEMMA QcValues ==
  ASSUME TypeOK, NEW r \in Receipts
  PROVE  /\ qc[r]["accept"] \in Int /\ qc[r]["hold"] \in Int /\ qc[r]["reject"] \in Int
         /\ qc[r]["accept"] >= 0 /\ qc[r]["hold"] >= 0 /\ qc[r]["reject"] >= 0
<1>1. qc \in [Receipts -> [QcTypes -> Nat]]
  BY Zenon DEF TypeOK
<1> QED
  BY <1>1 DEF QcTypes

(* The dispositions of what was held.                                      *)
LEMMA DisposedValues ==
  ASSUME TypeOK, NEW r \in Receipts
  PROVE  /\ disposed[r]["release"] \in Int /\ disposed[r]["release"] >= 0
         /\ disposed[r]["rework"] \in Int /\ disposed[r]["rework"] >= 0
         /\ disposed[r]["discard"] \in Int /\ disposed[r]["discard"] >= 0
<1>1. disposed \in [Receipts -> [Dispositions -> Nat]]
  BY Zenon DEF TypeOK
<1> QED
  BY <1>1 DEF Dispositions

(* The allocations.                                                        *)
LEMMA AllocValues ==
  ASSUME TypeOK, NEW r \in Receipts
  PROVE  /\ alloc[r]["QA"] \in Int /\ alloc[r]["AVAILABLE"] \in Int
         /\ alloc[r]["HOLD"] \in Int /\ alloc[r]["REJECT"] \in Int
         /\ alloc[r]["REWORK"] \in Int /\ alloc[r]["DISCARDED"] \in Int
<1>1. alloc \in [Receipts -> [Buckets -> Nat]]
  BY Zenon DEF TypeOK
<1> QED
  BY <1>1 DEF Buckets

(* The adjustments made by counts.                                         *)
LEMMA AdjustedValues ==
  ASSUME TypeOK, NEW r \in Receipts
  PROVE  /\ adjusted[r]["QA"] \in Int /\ adjusted[r]["AVAILABLE"] \in Int
         /\ adjusted[r]["HOLD"] \in Int /\ adjusted[r]["REJECT"] \in Int
<1>1. adjusted \in [Receipts -> [Buckets -> Int]]
  BY Zenon DEF TypeOK
<1> QED
  BY <1>1, Zenon DEF Buckets

(* The cost layers.                                                        *)
LEMMA LayerValues ==
  ASSUME TypeOK, NEW r \in Receipts
  PROVE  /\ layers["QA"][r] \in Nat /\ layers["SELLABLE"][r] \in Nat
         /\ layers["HOLD"][r] \in Nat /\ layers["REJECT"][r] \in Nat
<1>1. layers \in [Roles -> [Receipts -> Nat]]
  BY Zenon DEF TypeOK
<1> QED
  BY <1>1, Zenon DEF Roles

(* What is on hold is a number.                                            *)
LEMMA HoldValue ==
  ASSUME TypeOK, NEW r \in Receipts
  PROVE  NetHold(r) \in Int /\ DisposedTotal(disposed[r]) \in Int
BY QcValues, DisposedValues DEF NetHold, DisposedTotal

(* The hold grows by what QC puts on it.                                   *)
LEMMA HoldGrows ==
  ASSUME TypeOK, NEW r \in Receipts, NEW n \in Int,
         qc'[r]["hold"] = qc[r]["hold"] + n, disposed'[r] = disposed[r]
  PROVE  NetHold(r) \in Int /\ NetHold(r)' = NetHold(r) + n
<1> DEFINE h == qc[r]["hold"]
           k == DisposedTotal(disposed[r])
<1>1. h \in Int /\ k \in Int
  BY QcValues, HoldValue, Zenon
<1>2. NetHold(r) = h - k /\ NetHold(r)' = (h + n) - k
  BY Zenon DEF NetHold
<1> HIDE DEF h, k
<1> QED
  BY <1>1, <1>2

(* A receipt with units in QA or on hold is not closed.                    *)
LEMMA OpenReceipt ==
  ASSUME TypeOK, NEW r \in Receipts, RecordOK(r), alloc[r]["QA"] # 0 \/ NetHold(r) # 0
  PROVE  closed[r] = FALSE
<1>1. closed[r] = TRUE => alloc[r]["QA"] = 0 /\ NetHold(r) = 0
  BY Zenon DEF RecordOK
<1>2. closed \in [Receipts -> BOOLEAN]
  BY Zenon DEF TypeOK
<1>3. closed[r] \in BOOLEAN
  BY <1>2, Zenon
<1> QED
  BY <1>1, <1>3, Zenon

(* A QC event keeps the receipt's records in agreement.                    *)
LEMMA QcEventRecord ==
  ASSUME Inv, NEW r \in Receipts, NEW q \in Quantities, NEW t \in QcTypes, QcEvent(r, t, q)
  PROVE  RecordOK(r)'
<1> DEFINE accepted == IF t = "accept" THEN q ELSE 0
           put == IF t = "hold" THEN q ELSE 0
           refused == IF t = "reject" THEN q ELSE 0
<1>1. q \in Int /\ q >= 1
  BY QuantityTypes
<1>2. TypeOK /\ RecordOK(r)
  BY Zenon DEF Inv
<1>3. /\ accepted \in Int /\ put \in Int /\ refused \in Int
      /\ accepted >= 0 /\ put >= 0 /\ refused >= 0 /\ accepted + put + refused = q
  BY <1>1 DEF QcTypes
<1>4. /\ status'[r] = "posted" /\ received'[r] = received[r] /\ moved'[r] = moved[r]
      /\ closed'[r] = closed[r] /\ disposed'[r] = disposed[r] /\ adjusted'[r] = adjusted[r]
  BY Zenon DEF QcEvent
<1>5. /\ qc'[r]["accept"] = qc[r]["accept"] + accepted
      /\ qc'[r]["hold"] = qc[r]["hold"] + put
      /\ qc'[r]["reject"] = qc[r]["reject"] + refused
  <2>1. qc' = [qc EXCEPT ![r][t] = @ + q]
    BY Zenon DEF QcEvent
  <2>2. qc \in [Receipts -> [QcTypes -> Nat]]
    BY <1>2, Zenon DEF TypeOK
  <2>3. /\ qc'[r][t] = qc[r][t] + q
        /\ \A u \in QcTypes \ {t} : qc'[r][u] = qc[r][u]
        /\ \A u \in QcTypes : qc[r][u] \in Int
    BY <1>1, <2>1, <2>2
  <2>4. CASE t = "accept"
    BY <2>3, <2>4 DEF QcTypes
  <2>5. CASE t = "hold"
    BY <2>3, <2>5 DEF QcTypes
  <2>6. CASE t = "reject"
    BY <2>3, <2>6 DEF QcTypes
  <2> QED
    BY <2>4, <2>5, <2>6, Zenon DEF QcTypes
<1>6. /\ alloc[r]["QA"] >= q
      /\ alloc'[r]["QA"] = alloc[r]["QA"] - put - refused
      /\ alloc'[r]["HOLD"] = alloc[r]["HOLD"] + put
      /\ alloc'[r]["REJECT"] = alloc[r]["REJECT"] + refused
      /\ alloc'[r]["AVAILABLE"] = alloc[r]["AVAILABLE"]
      /\ alloc'[r]["REWORK"] = alloc[r]["REWORK"]
      /\ alloc'[r]["DISCARDED"] = alloc[r]["DISCARDED"]
  <2>0. QcUnits(r, t, q)
    BY Zenon DEF QcEvent
  <2>v. alloc[r]["QA"] \in Int /\ alloc[r]["HOLD"] \in Int /\ alloc[r]["REJECT"] \in Int
    BY <1>2, AllocValues, Zenon
  <2>1. CASE t = "accept"
    <3>1. alloc[r]["QA"] >= q /\ alloc' = alloc
      BY <2>0, <2>1, Zenon DEF QcUnits
    <3> QED
      BY <2>1, <2>v, <3>1
  <2>2. CASE t = "hold"
    <3>1. MoveAllocation(r, "QA", "HOLD", q)
      BY <2>0, <2>2, Zenon DEF QcUnits
    <3>2. /\ alloc[r]["QA"] >= q
          /\ alloc'[r]["QA"] = alloc[r]["QA"] - q
          /\ alloc'[r]["HOLD"] = alloc[r]["HOLD"] + q
          /\ \A b \in Buckets \ {"QA", "HOLD"} : alloc'[r][b] = alloc[r][b]
      BY <1>2, <3>1, MoveBuckets DEF Buckets
    <3> QED
      BY <1>1, <2>2, <2>v, <3>2 DEF Buckets
  <2>3. CASE t = "reject"
    <3>1. MoveAllocation(r, "QA", "REJECT", q)
      BY <2>0, <2>3, Zenon DEF QcUnits
    <3>2. /\ alloc[r]["QA"] >= q
          /\ alloc'[r]["QA"] = alloc[r]["QA"] - q
          /\ alloc'[r]["REJECT"] = alloc[r]["REJECT"] + q
          /\ \A b \in Buckets \ {"QA", "REJECT"} : alloc'[r][b] = alloc[r][b]
      BY <1>2, <3>1, MoveBuckets DEF Buckets
    <3> QED
      BY <1>1, <2>3, <2>v, <3>2 DEF Buckets
  <2> QED
    BY <2>1, <2>2, <2>3, Zenon DEF QcTypes
<1> HIDE DEF accepted, put, refused
<1>7. closed[r] = FALSE /\ closed'[r] = FALSE
  <2>1. alloc[r]["QA"] # 0
    BY <1>1, <1>6
  <2> QED
    BY <1>2, <1>4, <2>1, OpenReceipt, Zenon
<1>8. AllocationsAdd(r)'
  <2>1. AllocationsAdd(r)
    BY <1>2, Zenon DEF RecordOK
  <2>2. alloc'[r]["QA"]
          = received'[r] - moved'[r] - qc'[r]["hold"] - qc'[r]["reject"] + adjusted'[r]["QA"]
    <3>1. alloc[r]["QA"]
            = received[r] - moved[r] - qc[r]["hold"] - qc[r]["reject"] + adjusted[r]["QA"]
      BY <2>1, Zenon DEF AllocationsAdd
    <3>2. /\ received[r] \in Int /\ moved[r] \in Int /\ qc[r]["hold"] \in Int
          /\ qc[r]["reject"] \in Int /\ adjusted[r]["QA"] \in Int
      BY <1>2, LineValues, QcValues, AdjustedValues, Zenon
    <3> QED
      BY <1>3, <1>4, <1>5, <1>6, <3>1, <3>2
  <2>3. alloc'[r]["AVAILABLE"] = moved'[r] + disposed'[r]["release"] + adjusted'[r]["AVAILABLE"]
    BY <1>4, <1>6, <2>1, Zenon DEF AllocationsAdd
  <2>4. alloc'[r]["HOLD"] = NetHold(r)' + adjusted'[r]["HOLD"]
    <3>1. alloc[r]["HOLD"] = NetHold(r) + adjusted[r]["HOLD"]
      BY <2>1, Zenon DEF AllocationsAdd
    <3>2. NetHold(r) \in Int /\ NetHold(r)' = NetHold(r) + put /\ adjusted[r]["HOLD"] \in Int
      BY <1>2, <1>3, <1>4, <1>5, HoldGrows, AdjustedValues, Zenon
    <3> QED
      BY <1>3, <1>4, <1>6, <3>1, <3>2
  <2>5. alloc'[r]["REJECT"] = qc'[r]["reject"] + adjusted'[r]["REJECT"]
    <3>1. alloc[r]["REJECT"] = qc[r]["reject"] + adjusted[r]["REJECT"]
      BY <2>1, Zenon DEF AllocationsAdd
    <3>2. qc[r]["reject"] \in Int /\ adjusted[r]["REJECT"] \in Int
      BY <1>2, QcValues, AdjustedValues, Zenon
    <3> QED
      BY <1>3, <1>4, <1>5, <1>6, <3>1, <3>2
  <2> QED
    BY <1>4, <1>6, <2>1, <2>2, <2>3, <2>4, <2>5, Zenon DEF AllocationsAdd
<1>9. QcTotal(r) + q <= received[r] /\ QcTotal(r)' = QcTotal(r) + q /\ QcTotal(r) \in Int
  <2>1. QcTotal(r) + q <= received[r]
    BY Zenon DEF QcEvent
  <2>2. qc[r]["accept"] \in Int /\ qc[r]["hold"] \in Int /\ qc[r]["reject"] \in Int
    BY <1>2, QcValues, Zenon
  <2> QED
    BY <1>3, <1>5, <2>1, <2>2 DEF QcTotal
<1>10. NetHold(r)' >= 0 /\ NetHold(r)' \in Int
  <2>1. NetHold(r) >= 0
    BY <1>2, Zenon DEF RecordOK
  <2>2. NetHold(r) \in Int /\ NetHold(r)' = NetHold(r) + put
    BY <1>2, <1>3, <1>4, <1>5, HoldGrows, Zenon
  <2> QED
    BY <1>3, <2>1, <2>2
<1>11. Decided(r)'
  <2> DEFINE complete == received[r] * events'[r] <= QcTotal(r) + q
             acc == qc'[r]["accept"] + disposed[r]["release"]
             held == qc'[r]["hold"] - DisposedTotal(disposed[r])
  <2>0. received[r] \in Int /\ received[r] >= 0
    BY <1>2, LineValues, Zenon
  <2>1. life[r] \notin DecidedStates
    <3>1. QcTotal(r) # received[r]
      BY <1>1, <1>9, <2>0
    <3> QED
      BY <1>2, <3>1, Zenon DEF RecordOK, Decided, DecidedStates
  <2>2. life'[r] = EvaluateQc(life[r], complete, acc, held, disposed[r]["rework"])
    <3>1. life' = [life EXCEPT ![r] = EvaluateQc(@, complete, acc, held, disposed[r]["rework"])]
      BY Zenon DEF QcEvent
    <3>2. life \in [Receipts -> LifeStates]
      BY <1>2, Zenon DEF TypeOK
    <3> QED
      BY <3>1, <3>2, Zenon
  <2>3. received[r] <= received[r] * events'[r] /\ received[r] * events'[r] \in Int
    <3>1. events' = [events EXCEPT ![r] = @ + 1]
      BY Zenon DEF QcEvent
    <3>2. events \in [Receipts -> Nat]
      BY <1>2, Zenon DEF TypeOK
    <3>3. events'[r] = events[r] + 1 /\ events[r] \in Nat
      BY <3>1, <3>2, Zenon
    <3>4. received[r] <= received[r] * (events[r] + 1)
      BY <2>0, <3>3, FanOut
    <3> QED
      BY <2>0, <3>3, <3>4
  <2>4. complete => QcTotal(r)' = received'[r]
    <3>1. QcTotal(r) + q <= received[r] /\ QcTotal(r) + q \in Int
      BY <1>1, <1>9
    <3> QED
      BY <1>4, <1>9, <2>0, <2>3, <3>1
  <2>5. held = NetHold(r)'
    BY <1>4, Zenon DEF NetHold
  <2>6. /\ qc'[r]["accept"] \in Int /\ qc'[r]["accept"] >= 0
        /\ disposed[r]["release"] \in Int /\ disposed[r]["release"] >= 0
        /\ disposed[r]["rework"] \in Int /\ disposed[r]["rework"] >= 0
    BY <1>2, <1>3, <1>5, QcValues, DisposedValues
  <2>7. acc \in Int /\ (acc <= 0 => qc'[r]["accept"] = 0 /\ disposed[r]["release"] = 0)
    BY <2>6
  <2> HIDE DEF complete, acc, held
  <2>8. ASSUME life'[r] \in DecidedStates
        PROVE  /\ complete
               /\ ~(held > 0)
               /\ life'[r] = "REJECTED" => ~(acc > 0) /\ ~(disposed[r]["rework"] > 0)
    BY <2>1, <2>2, <2>8, Zenon DEF EvaluateQc, DecidedStates
  <2>9. life'[r] \in DecidedStates => QcTotal(r)' = received'[r] /\ NetHold(r)' = 0
    BY <1>10, <2>4, <2>5, <2>8
  <2>10. life'[r] = "REJECTED" => /\ qc'[r]["accept"] = 0
                                 /\ disposed'[r]["release"] = 0
                                 /\ disposed'[r]["rework"] = 0
    BY <1>4, <2>6, <2>7, <2>8 DEF DecidedStates
  <2> QED
    BY <2>9, <2>10, Zenon DEF Decided
<1>12. moved'[r] <= qc'[r]["accept"]
  <2>1. moved[r] <= qc[r]["accept"]
    BY <1>2, Zenon DEF RecordOK
  <2>2. moved[r] \in Int /\ qc[r]["accept"] \in Int
    BY <1>2, LineValues, QcValues, Zenon
  <2> QED
    BY <1>3, <1>4, <1>5, <2>1, <2>2
<1>13. QcTotal(r)' <= received'[r]
  BY <1>4, <1>9, Zenon
<1>14. CountedLast(r)'
  BY <1>2, <1>4, Zenon DEF RecordOK, CountedLast
<1> QED
  BY <1>4, <1>7, <1>8, <1>10, <1>11, <1>12, <1>13, <1>14, Zenon DEF RecordOK

(* A disposition of a hold keeps the receipt's records in agreement.       *)
LEMMA DispositionRecord ==
  ASSUME Inv, NEW r \in Receipts, NEW q \in Quantities, NEW d \in Dispositions,
         ResolveHoldDisposition(r, d, q)
  PROVE  RecordOK(r)'
<1> DEFINE released == IF d = "release" THEN q ELSE 0
           reworked == IF d = "rework" THEN q ELSE 0
           discarded == IF d = "discard" THEN q ELSE 0
<1>1. q \in Int /\ q >= 1
  BY QuantityTypes
<1>2. TypeOK /\ RecordOK(r)
  BY DEF Inv
<1>3. /\ released \in Int /\ reworked \in Int /\ discarded \in Int
      /\ released >= 0 /\ reworked >= 0 /\ discarded >= 0
      /\ released + reworked + discarded = q
  BY <1>1 DEF Dispositions
<1>4. /\ status'[r] = "posted" /\ received'[r] = received[r] /\ moved'[r] = moved[r]
      /\ closed'[r] = closed[r] /\ qc'[r] = qc[r] /\ adjusted'[r] = adjusted[r]
      /\ q <= NetHold(r)
  BY Zenon DEF ResolveHoldDisposition
<1>5. /\ disposed'[r]["release"] = disposed[r]["release"] + released
      /\ disposed'[r]["rework"] = disposed[r]["rework"] + reworked
      /\ disposed'[r]["discard"] = disposed[r]["discard"] + discarded
  <2>1. disposed' = [disposed EXCEPT ![r][d] = @ + q]
    BY Zenon DEF ResolveHoldDisposition
  <2>2. disposed \in [Receipts -> [Dispositions -> Nat]]
    BY <1>2, Zenon DEF TypeOK
  <2>3. /\ disposed'[r][d] = disposed[r][d] + q
        /\ \A u \in Dispositions \ {d} : disposed'[r][u] = disposed[r][u]
        /\ \A u \in Dispositions : disposed[r][u] \in Int
    BY <1>1, <2>1, <2>2
  <2>4. CASE d = "release"
    BY <2>3, <2>4 DEF Dispositions
  <2>5. CASE d = "rework"
    BY <2>3, <2>5 DEF Dispositions
  <2>6. CASE d = "discard"
    BY <2>3, <2>6 DEF Dispositions
  <2> QED
    BY <2>4, <2>5, <2>6, Zenon DEF Dispositions
<1>6. /\ alloc'[r]["QA"] = alloc[r]["QA"]
      /\ alloc'[r]["HOLD"] = alloc[r]["HOLD"] - q
      /\ alloc'[r]["REJECT"] = alloc[r]["REJECT"]
      /\ alloc'[r]["AVAILABLE"] = alloc[r]["AVAILABLE"] + released
      /\ alloc'[r]["REWORK"] = alloc[r]["REWORK"] + reworked
      /\ alloc'[r]["DISCARDED"] = alloc[r]["DISCARDED"] + discarded
  <2> DEFINE b == DispositionBucket(d)
  <2>1. MoveAllocation(r, "HOLD", b, q)
    BY Zenon DEF ResolveHoldDisposition
  <2>2. b = (IF d = "release" THEN "AVAILABLE" ELSE IF d = "rework" THEN "REWORK" ELSE "DISCARDED")
    BY Zenon DEF DispositionBucket, Dispositions
  <2> HIDE DEF b
  <2>3. b \in Buckets /\ b # "HOLD" /\ "HOLD" \in Buckets
    BY <2>2, Zenon DEF Buckets
  <2>4. /\ alloc'[r]["HOLD"] = alloc[r]["HOLD"] - q
        /\ alloc'[r][b] = alloc[r][b] + q
        /\ \A c \in Buckets \ {"HOLD", b} : alloc'[r][c] = alloc[r][c]
    BY <1>2, <2>1, <2>3, MoveBuckets
  <2>5. /\ alloc[r]["AVAILABLE"] \in Int /\ alloc[r]["REWORK"] \in Int
        /\ alloc[r]["DISCARDED"] \in Int
    BY <1>2, AllocValues, Zenon
  <2>6. CASE d = "release"
    BY <2>2, <2>4, <2>5, <2>6 DEF Buckets
  <2>7. CASE d = "rework"
    BY <2>2, <2>4, <2>5, <2>7 DEF Buckets
  <2>8. CASE d = "discard"
    BY <2>2, <2>4, <2>5, <2>8 DEF Buckets
  <2> QED
    BY <2>6, <2>7, <2>8, Zenon DEF Dispositions
<1> HIDE DEF released, reworked, discarded
<1>7. closed[r] = FALSE /\ closed'[r] = FALSE
  <2>1. NetHold(r) # 0
    BY <1>1, <1>4
  <2> QED
    BY <1>2, <1>4, <2>1, OpenReceipt, Zenon
<1>8. /\ NetHold(r) \in Int /\ NetHold(r)' \in Int
      /\ NetHold(r)' = NetHold(r) - q /\ NetHold(r)' >= 0
  <2> DEFINE h == qc[r]["hold"]
             k == DisposedTotal(disposed[r])
  <2>1. DisposedTotal(disposed'[r]) = k + q
    <3>1. /\ disposed[r]["release"] \in Int /\ disposed[r]["rework"] \in Int
          /\ disposed[r]["discard"] \in Int
      BY <1>2, DisposedValues, Zenon
    <3> QED
      BY <1>3, <1>5, <3>1 DEF DisposedTotal
  <2>2. h \in Int /\ k \in Int
    BY <1>2, QcValues, HoldValue, Zenon
  <2>3. NetHold(r) = h - k
    BY Zenon DEF NetHold
  <2>4. NetHold(r)' = h - (k + q)
    BY <1>4, <2>1, Zenon DEF NetHold
  <2> HIDE DEF h, k
  <2> QED
    BY <1>1, <1>4, <2>2, <2>3, <2>4
<1>9. QcTotal(r)' = QcTotal(r) /\ QcTotal(r) \in Int
  <2>1. qc[r]["accept"] \in Int /\ qc[r]["hold"] \in Int /\ qc[r]["reject"] \in Int
    BY <1>2, QcValues
  <2> QED
    BY <1>4, <2>1 DEF QcTotal
<1>10. AllocationsAdd(r)'
  <2>1. AllocationsAdd(r)
    BY <1>2, Zenon DEF RecordOK
  <2>2. alloc'[r]["QA"]
          = received'[r] - moved'[r] - qc'[r]["hold"] - qc'[r]["reject"] + adjusted'[r]["QA"]
    BY <1>4, <1>6, <2>1, Zenon DEF AllocationsAdd
  <2>3. alloc'[r]["AVAILABLE"] = moved'[r] + disposed'[r]["release"] + adjusted'[r]["AVAILABLE"]
    <3>1. alloc[r]["AVAILABLE"] = moved[r] + disposed[r]["release"] + adjusted[r]["AVAILABLE"]
      BY <2>1, Zenon DEF AllocationsAdd
    <3>2. /\ moved[r] \in Int /\ disposed[r]["release"] \in Int
          /\ adjusted[r]["AVAILABLE"] \in Int
      BY <1>2, LineValues, DisposedValues, AdjustedValues, Zenon
    <3> QED
      BY <1>3, <1>4, <1>5, <1>6, <3>1, <3>2
  <2>4. alloc'[r]["HOLD"] = NetHold(r)' + adjusted'[r]["HOLD"]
    <3>1. alloc[r]["HOLD"] = NetHold(r) + adjusted[r]["HOLD"]
      BY <2>1, Zenon DEF AllocationsAdd
    <3>2. adjusted[r]["HOLD"] \in Int
      BY <1>2, AdjustedValues, Zenon
    <3> QED
      BY <1>1, <1>4, <1>6, <1>8, <3>1, <3>2
  <2>5. alloc'[r]["REJECT"] = qc'[r]["reject"] + adjusted'[r]["REJECT"]
    BY <1>4, <1>6, <2>1, Zenon DEF AllocationsAdd
  <2>6. /\ alloc'[r]["REWORK"] = disposed'[r]["rework"]
        /\ alloc'[r]["DISCARDED"] = disposed'[r]["discard"]
    BY <1>5, <1>6, <2>1, Zenon DEF AllocationsAdd
  <2> QED
    BY <2>2, <2>3, <2>4, <2>5, <2>6, Zenon DEF AllocationsAdd
<1>11. Decided(r)'
  <2> DEFINE complete == received[r] <= QcTotal(r)
             acc == qc[r]["accept"] + disposed'[r]["release"]
             held == qc[r]["hold"] - DisposedTotal(disposed'[r])
  <2>1. life[r] \notin DecidedStates
    <3>1. NetHold(r) # 0
      BY <1>1, <1>4
    <3> QED
      BY <1>2, <3>1, Zenon DEF RecordOK, Decided
  <2>2. life'[r] = EvaluateQc(life[r], complete, acc, held, disposed'[r]["rework"])
    <3>1. life' = [life EXCEPT ![r] = EvaluateQc(@, complete, acc, held, disposed'[r]["rework"])]
      BY Zenon DEF ResolveHoldDisposition
    <3>2. life \in [Receipts -> LifeStates]
      BY <1>2, Zenon DEF TypeOK
    <3> QED
      BY <3>1, <3>2, Zenon
  <2>3. held = NetHold(r)'
    BY <1>4, Zenon DEF NetHold
  <2>4. complete => QcTotal(r)' = received'[r]
    <3>1. QcTotal(r) <= received[r]
      BY <1>2, Zenon DEF RecordOK
    <3>2. received[r] \in Int
      BY <1>2, LineValues, Zenon
    <3> QED
      BY <1>4, <1>9, <3>1, <3>2
  <2>5. /\ qc[r]["accept"] \in Int /\ qc[r]["accept"] >= 0
        /\ disposed'[r]["release"] \in Int /\ disposed'[r]["release"] >= 0
        /\ disposed'[r]["rework"] \in Int /\ disposed'[r]["rework"] >= 0
    BY <1>2, <1>3, <1>5, QcValues, DisposedValues
  <2>6. acc \in Int /\ (acc <= 0 => qc[r]["accept"] = 0 /\ disposed'[r]["release"] = 0)
    BY <2>5
  <2> HIDE DEF complete, acc, held
  <2>7. ASSUME life'[r] \in DecidedStates
        PROVE  /\ complete
               /\ ~(held > 0)
               /\ life'[r] = "REJECTED" => ~(acc > 0) /\ ~(disposed'[r]["rework"] > 0)
    BY <2>1, <2>2, <2>7, Zenon DEF EvaluateQc, DecidedStates
  <2>8. life'[r] \in DecidedStates => QcTotal(r)' = received'[r] /\ NetHold(r)' = 0
    BY <1>8, <2>3, <2>4, <2>7
  <2>9. life'[r] = "REJECTED" => /\ qc'[r]["accept"] = 0
                                /\ disposed'[r]["release"] = 0
                                /\ disposed'[r]["rework"] = 0
    BY <1>4, <2>5, <2>6, <2>7 DEF DecidedStates
  <2> QED
    BY <2>8, <2>9 DEF Decided
<1>12. moved'[r] <= qc'[r]["accept"] /\ QcTotal(r)' <= received'[r]
  BY <1>2, <1>4, <1>9, Zenon DEF RecordOK
<1>13. CountedLast(r)'
  BY <1>2, <1>4, Zenon DEF RecordOK, CountedLast
<1> QED
  BY <1>4, <1>7, <1>8, <1>10, <1>11, <1>12, <1>13, Zenon DEF RecordOK

(* What the post of a putaway of q units does to the records of receipt r. *)
PutawayStep(r, q) ==
  /\ q >= 1
  /\ status[r] # "none"
  /\ q <= RemainingAfterPosted(r)
  /\ MoveAllocation(r, "QA", "AVAILABLE", q)
  /\ moved' = [moved EXCEPT ![r] = @ + q]
  /\ life' = [life EXCEPT ![r] = CompletePutaway(@, qc[r]["accept"], alloc'[r]["AVAILABLE"])]
  /\ UNCHANGED <<status, received, closed, qc, disposed, adjusted>>

(* A putaway keeps the receipt's records in agreement.  The second check   *)
(* of the quantity, against what is left after the units that are already  *)
(* available, is what keeps two drafts of the same units apart.            *)
LEMMA PutawayRecord ==
  ASSUME Inv, NEW r \in Receipts, NEW q \in Nat, PutawayStep(r, q)
  PROVE  RecordOK(r)'
<1>1. q \in Int /\ q >= 1 /\ status[r] # "none"
  BY DEF PutawayStep
<1>2. TypeOK /\ RecordOK(r)
  BY Zenon DEF Inv
<1>3. AllocationsAdd(r)
  BY <1>2, Zenon DEF RecordOK
<1>c. Decided(r) /\ CountedLast(r)
  BY <1>2, Zenon DEF RecordOK
<1>4. /\ status'[r] = status[r] /\ received'[r] = received[r] /\ qc'[r] = qc[r]
      /\ disposed'[r] = disposed[r] /\ closed'[r] = closed[r] /\ adjusted'[r] = adjusted[r]
  BY Zenon DEF PutawayStep
<1>5. moved'[r] = moved[r] + q
  <2>1. moved' = [moved EXCEPT ![r] = @ + q]
    BY Zenon DEF PutawayStep
  <2>2. moved \in [Receipts -> Nat]
    BY <1>2, Zenon DEF TypeOK
  <2> QED
    BY <2>1, <2>2, Zenon
<1>6. MoveAllocation(r, "QA", "AVAILABLE", q) /\ q <= RemainingAfterPosted(r)
  BY Zenon DEF PutawayStep
<1>7. life'[r] = CompletePutaway(life[r], qc[r]["accept"], alloc'[r]["AVAILABLE"])
  <2>1. life' = [life EXCEPT ![r] = CompletePutaway(@, qc[r]["accept"], alloc'[r]["AVAILABLE"])]
    BY Zenon DEF PutawayStep
  <2>2. life \in [Receipts -> LifeStates]
    BY <1>2, Zenon DEF TypeOK
  <2> QED
    BY <2>1, <2>2, Zenon
<1>8. /\ alloc[r]["QA"] >= q
      /\ alloc'[r]["QA"] = alloc[r]["QA"] - q
      /\ alloc'[r]["AVAILABLE"] = alloc[r]["AVAILABLE"] + q
      /\ alloc'[r]["HOLD"] = alloc[r]["HOLD"]
      /\ alloc'[r]["REJECT"] = alloc[r]["REJECT"]
      /\ alloc'[r]["REWORK"] = alloc[r]["REWORK"]
      /\ alloc'[r]["DISCARDED"] = alloc[r]["DISCARDED"]
  <2>1. /\ alloc[r]["QA"] >= q
        /\ alloc'[r]["QA"] = alloc[r]["QA"] - q
        /\ alloc'[r]["AVAILABLE"] = alloc[r]["AVAILABLE"] + q
        /\ \A b \in Buckets \ {"QA", "AVAILABLE"} : alloc'[r][b] = alloc[r][b]
    BY <1>2, <1>6, MoveBuckets DEF Buckets
  <2> QED
    BY <2>1, Zenon DEF Buckets
<1>v. /\ alloc[r]["QA"] \in Int /\ alloc[r]["AVAILABLE"] \in Int
      /\ received[r] \in Int /\ moved[r] \in Int
      /\ qc[r]["accept"] \in Int /\ qc[r]["hold"] \in Int /\ qc[r]["reject"] \in Int
      /\ disposed[r]["release"] \in Int /\ disposed[r]["release"] >= 0
      /\ adjusted[r]["QA"] \in Int /\ adjusted[r]["AVAILABLE"] \in Int
  BY <1>2, AllocValues, LineValues, QcValues, DisposedValues, AdjustedValues, Zenon
<1>9. closed[r] = FALSE /\ closed'[r] = FALSE
  <2>1. alloc[r]["QA"] # 0
    BY <1>1, <1>8
  <2> QED
    BY <1>2, <1>4, <2>1, OpenReceipt, Zenon
<1>10. QcTotal(r)' = QcTotal(r) /\ NetHold(r)' = NetHold(r)
  BY <1>4, Zenon DEF QcTotal, NetHold
<1>11. AllocationsAdd(r)'
  <2>1. alloc[r]["QA"]
          = received[r] - moved[r] - qc[r]["hold"] - qc[r]["reject"] + adjusted[r]["QA"]
    BY <1>3, Zenon DEF AllocationsAdd
  <2>2. alloc'[r]["QA"]
          = received'[r] - moved'[r] - qc'[r]["hold"] - qc'[r]["reject"] + adjusted'[r]["QA"]
    BY <1>1, <1>4, <1>5, <1>8, <1>v, <2>1
  <2>3. alloc[r]["AVAILABLE"] = moved[r] + disposed[r]["release"] + adjusted[r]["AVAILABLE"]
    BY <1>3, Zenon DEF AllocationsAdd
  <2>4. alloc'[r]["AVAILABLE"] = moved'[r] + disposed'[r]["release"] + adjusted'[r]["AVAILABLE"]
    BY <1>1, <1>4, <1>5, <1>8, <1>v, <2>3
  <2> QED
    BY <1>3, <1>4, <1>8, <1>10, <2>2, <2>4, Zenon DEF AllocationsAdd
<1>12. moved'[r] <= qc'[r]["accept"]
  <2>1. q <= qc[r]["accept"] - alloc[r]["AVAILABLE"]
    <3>1. q <= QcAllowed(r) - alloc[r]["AVAILABLE"]
      BY <1>6, Zenon DEF RemainingAfterPosted
    <3>2. q <= 0 - alloc[r]["AVAILABLE"] => q <= qc[r]["accept"] - alloc[r]["AVAILABLE"]
      <4>1. qc[r]["accept"] >= 0
        BY <1>2, QcValues, Zenon
      <4> QED
        BY <1>1, <1>v, <4>1
    <3>3. QcAllowed(r) \in {0, qc[r]["accept"]} \/
            (QcAllowed(r) < qc[r]["accept"] /\ QcAllowed(r) \in Int)
      BY <1>v DEF QcAllowed
    <3> QED
      BY <1>1, <1>v, <3>1, <3>2, <3>3
  <2>2. adjusted[r]["AVAILABLE"] = 0
    BY <1>c, <1>9, Zenon DEF CountedLast
  <2>3. alloc[r]["AVAILABLE"] = moved[r] + disposed[r]["release"] + adjusted[r]["AVAILABLE"]
    BY <1>3, Zenon DEF AllocationsAdd
  <2>4. moved[r] + q <= qc[r]["accept"]
    BY <1>1, <1>v, <2>1, <2>2, <2>3
  <2> QED
    BY <1>4, <1>5, <2>4, Zenon
<1>13. Decided(r)'
  <2>1. life'[r] = "REJECTED" => life[r] = "REJECTED"
    BY <1>7, Zenon DEF CompletePutaway
  <2>2. life'[r] \in DecidedStates => life[r] \in DecidedStates
    BY <1>7, Zenon DEF CompletePutaway, DecidedStates
  <2> QED
    BY <1>c, <1>4, <1>10, <2>1, <2>2, Zenon DEF Decided
<1>14. QcTotal(r)' <= received'[r] /\ NetHold(r)' >= 0
  BY <1>2, <1>4, <1>10, Zenon DEF RecordOK
<1>15. CountedLast(r)'
  BY <1>c, <1>4, Zenon DEF CountedLast
<1> QED
  BY <1>1, <1>4, <1>9, <1>11, <1>12, <1>13, <1>14, <1>15, Zenon DEF RecordOK

(* Quantities that add up to nothing are all nothing.                      *)
LEMMA ZeroSum ==
  ASSUME NEW a \in Nat, NEW b \in Nat, NEW c \in Nat, NEW d \in Nat, a + b + c + d = 0
  PROVE  a = 0 /\ b = 0 /\ c = 0 /\ d = 0
OBVIOUS

(* A new receipt starts with everything in QA.                             *)
LEMMA CreateRecord ==
  ASSUME Inv, NEW r \in Receipts, NEW q \in Quantities, NEW over \in BOOLEAN,
         CreateReceipt(r, q, over)
  PROVE  RecordOK(r)' /\ CostOK(r)'
<1>1. q \in Int /\ q >= 1
  BY QuantityTypes
<1>2. TypeOK /\ RecordOK(r) /\ CostOK(r) /\ status[r] = "none"
  BY Zenon DEF Inv, CreateReceipt
<1>3. AllocationsAdd(r) /\ CountedLast(r)
  BY <1>2, Zenon DEF RecordOK
<1>4. Untouched(r)
  BY <1>2, Zenon DEF RecordOK
<1>5. /\ status'[r] = "posted" /\ life'[r] = "QC_PENDING" /\ received'[r] = q
      /\ closed'[r] = closed[r] /\ qc'[r] = qc[r] /\ disposed'[r] = disposed[r]
      /\ adjusted'[r] = adjusted[r] /\ moved'[r] = moved[r]
  <2>1. /\ status' = [status EXCEPT ![r] = "posted"]
        /\ life' = [life EXCEPT ![r] = "QC_PENDING"]
        /\ received' = [received EXCEPT ![r] = q]
        /\ UNCHANGED <<closed, qcVars, adjusted, moved>>
    BY Zenon DEF CreateReceipt
  <2>2. r \in DOMAIN status /\ r \in DOMAIN life /\ r \in DOMAIN received
    BY <1>2, Zenon DEF TypeOK
  <2> QED
    BY <2>1, <2>2, Zenon DEF qcVars
<1>6. /\ alloc'[r]["QA"] = q
      /\ \A b \in Buckets \ {"QA"} : alloc'[r][b] = alloc[r][b]
  <2>1. alloc' = [alloc EXCEPT ![r]["QA"] = q]
    BY Zenon DEF CreateReceipt
  <2>2. alloc \in [Receipts -> [Buckets -> Nat]]
    BY <1>2, Zenon DEF TypeOK
  <2> QED
    BY <2>1, <2>2, Zenon DEF Buckets
<1>7. /\ layers'["QA"][r] = q
      /\ \A l \in Roles \ {"QA"} : layers'[l][r] = layers[l][r]
  <2>1. layers' = [layers EXCEPT !["QA"][r] = q]
    BY Zenon DEF CreateReceipt
  <2>2. layers \in [Roles -> [Receipts -> Nat]]
    BY <1>2, Zenon DEF TypeOK
  <2> QED
    BY <2>1, <2>2, Zenon DEF Roles
<1>8. AllocationsAdd(r)'
  <2>0. closed[r] = FALSE /\ qc[r]["hold"] = 0 /\ qc[r]["reject"] = 0 /\ moved[r] = 0
    BY <1>4, Zenon DEF Untouched
  <2>1. adjusted[r]["QA"] = 0
    BY <1>3, <2>0, Zenon DEF CountedLast
  <2>5. NetHold(r)' = NetHold(r)
    BY <1>5, Zenon DEF NetHold
  <2>2. /\ alloc'[r]["AVAILABLE"] = alloc[r]["AVAILABLE"]
        /\ alloc'[r]["HOLD"] = alloc[r]["HOLD"]
        /\ alloc'[r]["REJECT"] = alloc[r]["REJECT"]
        /\ alloc'[r]["REWORK"] = alloc[r]["REWORK"]
        /\ alloc'[r]["DISCARDED"] = alloc[r]["DISCARDED"]
    BY <1>6, Zenon DEF Buckets
  <2>3. /\ qc'[r]["hold"] = 0 /\ qc'[r]["reject"] = 0 /\ moved'[r] = 0
        /\ adjusted'[r]["QA"] = 0
    BY <1>5, <2>0, <2>1, Zenon
  <2>4. alloc'[r]["QA"]
          = received'[r] - moved'[r] - qc'[r]["hold"] - qc'[r]["reject"] + adjusted'[r]["QA"]
    BY <1>1, <1>5, <1>6, <2>3
  <2> QED
    BY <1>3, <1>5, <2>2, <2>4, <2>5, Zenon DEF AllocationsAdd
<1>9. QcTotal(r)' = 0 /\ NetHold(r)' = 0
  <2>1. /\ qc'[r]["accept"] = 0 /\ qc'[r]["hold"] = 0 /\ qc'[r]["reject"] = 0
        /\ disposed'[r]["release"] = 0 /\ disposed'[r]["rework"] = 0
        /\ disposed'[r]["discard"] = 0
    BY <1>4, <1>5, Zenon DEF Untouched
  <2>2. DisposedTotal(disposed'[r]) = 0
    BY <2>1 DEF DisposedTotal
  <2> QED
    BY <2>1, <2>2 DEF QcTotal, NetHold
<1>10. RecordOK(r)'
  <2>1. closed[r] = FALSE /\ moved[r] = 0 /\ qc[r]["accept"] = 0
    BY <1>4, Zenon DEF Untouched
  <2>2. Decided(r)'
    BY <1>5, Zenon DEF Decided, DecidedStates
  <2>3. CountedLast(r)'
    BY <1>3, <1>5, Zenon DEF CountedLast
  <2>4. moved'[r] <= qc'[r]["accept"] /\ QcTotal(r)' <= received'[r] /\ NetHold(r)' >= 0
    BY <1>1, <1>5, <1>9, <2>1
  <2> QED
    BY <1>5, <1>8, <2>1, <2>2, <2>3, <2>4, Zenon DEF RecordOK
<1>11. CostOK(r)'
  <2>1. \A l \in Roles : layers[l][r] = 0
    <3>1. LayersOf(r) = 0
      <4>1. received[r] = 0
        BY <1>4, Zenon DEF Untouched
      <4> QED
        BY <1>2, <4>1, Zenon DEF CostOK
    <3>2. /\ layers["QA"][r] \in Nat /\ layers["SELLABLE"][r] \in Nat
          /\ layers["HOLD"][r] \in Nat /\ layers["REJECT"][r] \in Nat
      BY <1>2, LayerValues, Zenon
    <3>3. /\ layers["QA"][r] = 0 /\ layers["SELLABLE"][r] = 0
          /\ layers["HOLD"][r] = 0 /\ layers["REJECT"][r] = 0
      BY <3>1, <3>2, ZeroSum, Zenon DEF LayersOf
    <3> QED
      BY <3>3, Zenon DEF Roles
  <2> QED
    BY <1>1, <1>5, <1>7, <2>1 DEF CostOK, LayersOf, Roles
<1> QED
  BY <1>10, <1>11, Zenon

(* The closeout of a receipt keeps its records in agreement.               *)
LEMMA CloseRecord ==
  ASSUME Inv, NEW r \in Receipts, NEW sheet \in CountSheets, CloseReceipt(r, sheet)
  PROVE  RecordOK(r)'
<1>2. TypeOK /\ RecordOK(r)
  BY Zenon DEF Inv
<1>3. AllocationsAdd(r)
  BY <1>2, Zenon DEF RecordOK
<1>4. /\ status'[r] = status[r] /\ status[r] # "none" /\ life'[r] = life[r]
      /\ received'[r] = received[r] /\ qc'[r] = qc[r] /\ disposed'[r] = disposed[r]
      /\ moved'[r] = moved[r] /\ closed'[r] = TRUE
      /\ alloc'[r]["QA"] = 0 /\ NetHold(r) <= 0
  <2>1. CloseoutAllowed(r)
    BY Zenon DEF CloseReceipt
  <2>2. alloc'[r]["QA"] = 0 /\ NetHold(r) <= 0
    BY <2>1, Zenon DEF CloseoutAllowed
  <2> QED
    BY <1>2, <2>2, Zenon DEF CloseReceipt, TypeOK, qcVars
<1>5. PICK correction \in [Buckets -> Int] :
        /\ correction["REWORK"] = 0 /\ correction["DISCARDED"] = 0
        /\ \A c \in Buckets : /\ alloc'[r][c] = alloc[r][c] + correction[c]
                              /\ adjusted'[r][c] = adjusted[r][c] + correction[c]
  <2>1. ApplyAdjustments(r, sheet)
    BY Zenon DEF CloseReceipt
  <2>2. PICK correction \in [Buckets -> Int] :
          /\ correction["REWORK"] = 0 /\ correction["DISCARDED"] = 0
          /\ alloc' = [alloc EXCEPT ![r] = [b \in Buckets |-> alloc[r][b] + correction[b]]]
          /\ adjusted' = [adjusted EXCEPT
               ![r] = [b \in Buckets |-> adjusted[r][b] + correction[b]]]
    BY <1>2, <2>1, CountsApplied, Zenon
  <2>3. \A c \in Buckets : /\ alloc'[r][c] = alloc[r][c] + correction[c]
                           /\ adjusted'[r][c] = adjusted[r][c] + correction[c]
    BY <1>2, <2>2, Zenon DEF TypeOK
  <2> QED
    BY <2>2, <2>3, Zenon
<1>6. QcTotal(r)' = QcTotal(r) /\ NetHold(r)' = NetHold(r) /\ NetHold(r) \in Int
  <2>1. NetHold(r) \in Int
    BY <1>2, HoldValue, Zenon
  <2> QED
    BY <1>4, <2>1, Zenon DEF QcTotal, NetHold
<1>7. AllocationsAdd(r)'
  <2>1. ASSUME NEW c \in Buckets
        PROVE  /\ alloc'[r][c] \in Int /\ adjusted'[r][c] \in Int
               /\ alloc'[r][c] = alloc[r][c] - adjusted[r][c] + adjusted'[r][c]
    <3>1. alloc[r][c] \in Int /\ adjusted[r][c] \in Int /\ correction[c] \in Int
      BY <1>2 DEF TypeOK
    <3>2. /\ alloc'[r][c] = alloc[r][c] + correction[c]
          /\ adjusted'[r][c] = adjusted[r][c] + correction[c]
      BY <1>5, Zenon
    <3> QED
      BY <3>1, <3>2
  <2>2. /\ alloc'[r]["REWORK"] = alloc[r]["REWORK"]
        /\ alloc'[r]["DISCARDED"] = alloc[r]["DISCARDED"]
    <3>1. /\ alloc[r]["REWORK"] \in Int /\ alloc[r]["DISCARDED"] \in Int
          /\ "REWORK" \in Buckets /\ "DISCARDED" \in Buckets
      BY <1>2 DEF TypeOK, Buckets
    <3> QED
      BY <1>5, <3>1
  <2>4. /\ alloc'[r]["QA"] = alloc[r]["QA"] - adjusted[r]["QA"] + adjusted'[r]["QA"]
        /\ adjusted'[r]["QA"] \in Int
    BY <2>1, Zenon DEF Buckets
  <2>5. /\ alloc'[r]["AVAILABLE"] = alloc[r]["AVAILABLE"] - adjusted[r]["AVAILABLE"] + adjusted'[r]["AVAILABLE"]
        /\ adjusted'[r]["AVAILABLE"] \in Int
    BY <2>1, Zenon DEF Buckets
  <2>6. /\ alloc'[r]["HOLD"] = alloc[r]["HOLD"] - adjusted[r]["HOLD"] + adjusted'[r]["HOLD"]
        /\ adjusted'[r]["HOLD"] \in Int
    BY <2>1, Zenon DEF Buckets
  <2>7. /\ alloc'[r]["REJECT"] = alloc[r]["REJECT"] - adjusted[r]["REJECT"] + adjusted'[r]["REJECT"]
        /\ adjusted'[r]["REJECT"] \in Int
    BY <2>1, Zenon DEF Buckets
  <2>8. alloc'[r]["QA"]
          = received'[r] - moved'[r] - qc'[r]["hold"] - qc'[r]["reject"] + adjusted'[r]["QA"]
    <3>1. alloc[r]["QA"]
            = received[r] - moved[r] - qc[r]["hold"] - qc[r]["reject"] + adjusted[r]["QA"]
      BY <1>3, Zenon DEF AllocationsAdd
    <3>2. /\ received[r] \in Int /\ moved[r] \in Int /\ qc[r]["hold"] \in Int
          /\ qc[r]["reject"] \in Int /\ adjusted[r]["QA"] \in Int
      BY <1>2, LineValues, QcValues, DisposedValues, AdjustedValues, Zenon
    <3> QED
      BY <1>4, <2>4, <3>1, <3>2
  <2>9. alloc'[r]["AVAILABLE"] = moved'[r] + disposed'[r]["release"] + adjusted'[r]["AVAILABLE"]
    <3>1. alloc[r]["AVAILABLE"] = moved[r] + disposed[r]["release"] + adjusted[r]["AVAILABLE"]
      BY <1>3, Zenon DEF AllocationsAdd
    <3>2. /\ moved[r] \in Int /\ disposed[r]["release"] \in Int
          /\ adjusted[r]["AVAILABLE"] \in Int
      BY <1>2, LineValues, QcValues, DisposedValues, AdjustedValues, Zenon
    <3> QED
      BY <1>4, <2>5, <3>1, <3>2
  <2>10. alloc'[r]["HOLD"] = NetHold(r)' + adjusted'[r]["HOLD"]
    <3>1. alloc[r]["HOLD"] = NetHold(r) + adjusted[r]["HOLD"]
      BY <1>3, Zenon DEF AllocationsAdd
    <3>2. adjusted[r]["HOLD"] \in Int
      BY <1>2, LineValues, QcValues, DisposedValues, AdjustedValues, Zenon
    <3> QED
      BY <1>6, <2>6, <3>1, <3>2
  <2>11. alloc'[r]["REJECT"] = qc'[r]["reject"] + adjusted'[r]["REJECT"]
    <3>1. alloc[r]["REJECT"] = qc[r]["reject"] + adjusted[r]["REJECT"]
      BY <1>3, Zenon DEF AllocationsAdd
    <3>2. qc[r]["reject"] \in Int /\ adjusted[r]["REJECT"] \in Int
      BY <1>2, LineValues, QcValues, DisposedValues, AdjustedValues, Zenon
    <3> QED
      BY <1>4, <2>7, <3>1, <3>2
  <2> QED
    BY <1>3, <1>4, <2>2, <2>8, <2>9, <2>10, <2>11, Zenon DEF AllocationsAdd
<1>8. Decided(r)'
  BY <1>2, <1>4, <1>6, Zenon DEF RecordOK, Decided
<1>9. moved'[r] <= qc'[r]["accept"] /\ QcTotal(r)' <= received'[r]
  BY <1>2, <1>4, <1>6, Zenon DEF RecordOK
<1>10. NetHold(r)' >= 0 /\ NetHold(r)' = 0
  <2>1. NetHold(r) >= 0
    BY <1>2, Zenon DEF RecordOK
  <2>2. NetHold(r) <= 0 /\ NetHold(r) \in Int
    BY <1>4, <1>6, Zenon
  <2>3. NetHold(r)' = NetHold(r)
    BY <1>6, Zenon
  <2> QED
    BY <2>1, <2>2, <2>3
<1> QED
  BY <1>4, <1>7, <1>8, <1>9, <1>10, Zenon DEF RecordOK, CountedLast

(* A transfer leaves every receipt's cost where the invariant wants it.    *)
LEMMA TransferCost ==
  ASSUME Inv, NEW from \in Roles, NEW to \in Roles, from # to, NEW q \in Nat,
         Transfer(from, to, q), status' = status, received' = received
  PROVE  \A s \in Receipts : CostOK(s)'
<1>1. \A s \in Receipts : LayersOf(s)' = LayersOf(s)
  BY TransferKeeps, Zenon DEF Inv, TypeOK
<1> QED
  BY <1>1, Zenon DEF Inv, CostOK

(* One step per action; the records of the receipt it works on, the        *)
(* records of the others, the costs, and the putaways.                     *)
LEMMA InvNext == Inv /\ [Next]_vars => Inv'
<1> SUFFICES ASSUME Inv, [Next]_vars PROVE Inv'
  OBVIOUS
<1>0. TypeOK /\ TypeOK'
  BY TypeNext, Zenon DEF Inv
<1>1. ASSUME NEW r \in Receipts, NEW q \in Quantities, NEW over \in BOOLEAN,
             CreateReceipt(r, q, over)
      PROVE  Inv'
  <2>1. RecordOK(r)' /\ CostOK(r)'
    BY <1>1, CreateRecord, Zenon
  <2>2. ASSUME NEW s \in Receipts \ {r} PROVE RecordOK(s)' /\ CostOK(s)'
    <3>1. /\ status'[s] = status[s] /\ life'[s] = life[s] /\ received'[s] = received[s]
          /\ closed'[s] = closed[s] /\ qc'[s] = qc[s] /\ disposed'[s] = disposed[s]
          /\ alloc'[s] = alloc[s] /\ adjusted'[s] = adjusted[s] /\ moved'[s] = moved[s]
      BY <1>0, <1>1 DEF CreateReceipt, TypeOK, qcVars
    <3>2. \A l \in Roles : layers'[l][s] = layers[l][s]
      <4>1. layers' = [layers EXCEPT !["QA"][r] = q] /\ layers \in [Roles -> [Receipts -> Nat]]
        BY <1>0, <1>1, Zenon DEF CreateReceipt, TypeOK
      <4> QED
        BY <4>1, Zenon
    <3>3. RecordOK(s)'
      BY <3>1, RecordFrame, Zenon DEF Inv
    <3>4. CostOK(s)'
      BY <3>1, <3>2, Zenon DEF Inv, CostOK, LayersOf, Roles
    <3> QED
      BY <3>3, <3>4, Zenon
  <2>3. ASSUME NEW p \in Putaways PROVE PutawayOK(p)'
    BY <1>0, <1>1, Zenon DEF Inv, PutawayOK, CreateReceipt, TypeOK
  <2> QED
    BY <1>0, <2>1, <2>2, <2>3, Zenon DEF Inv
<1>2. ASSUME NEW r \in Receipts, VoidReceipt(r)
      PROVE  Inv'
  <2>1. ASSUME NEW s \in Receipts PROVE RecordOK(s)'
    <3>1. status'[s] = "none" => status[s] = "none"
      BY <1>0, <1>2, Zenon DEF VoidReceipt, TypeOK
    <3>2. UNCHANGED <<life, received, closed, qc, disposed, alloc, adjusted, moved>>
      BY <1>2, Zenon DEF VoidReceipt, qcVars
    <3>3. RecordOK(s)
      BY Zenon DEF Inv
    <3> QED
      BY <3>1, <3>2, <3>3, Zenon
      DEF RecordOK, AllocationsAdd, Decided, Untouched, CountedLast, QcTotal, NetHold
  <2>2. ASSUME NEW s \in Receipts PROVE CostOK(s)'
    <3>1. CostOK(s)
      BY Zenon DEF Inv
    <3>2. CASE s = r
      <4>1. /\ status'[r] = "voided" /\ layers["QA"][r] = received[r] /\ layers'["QA"][r] = 0
            /\ status[r] = "posted"
            /\ \A l \in Roles \ {"QA"} : layers'[l][r] = layers[l][r]
        BY <1>0, <1>2 DEF VoidReceipt, CostLayersReversible, TypeOK, Roles
      <4>2. /\ layers["QA"][r] \in Int /\ layers["SELLABLE"][r] \in Int
            /\ layers["HOLD"][r] \in Int /\ layers["REJECT"][r] \in Int
        BY <1>0 DEF TypeOK, Roles
      <4> QED
        BY <3>1, <3>2, <4>1, <4>2 DEF CostOK, LayersOf, Roles
    <3>3. CASE s # r
      <4>1. /\ status'[s] = status[s] /\ received'[s] = received[s]
            /\ \A l \in Roles : layers'[l][s] = layers[l][s]
        BY <1>0, <1>2, <3>3 DEF VoidReceipt, TypeOK
      <4> QED
        BY <3>1, <4>1, Zenon DEF CostOK, LayersOf, Roles
    <3> QED
      BY <3>2, <3>3, Zenon
  <2>3. ASSUME NEW p \in Putaways PROVE PutawayOK(p)'
    BY <1>0, <1>2, Zenon DEF Inv, PutawayOK, VoidReceipt, TypeOK
  <2> QED
    BY <1>0, <2>1, <2>2, <2>3, Zenon DEF Inv
<1>3. ASSUME UNCHANGED <<receiptVars, qc, disposed, alloc, adjusted, layers, moved>>,
             \A p \in Putaways : PutawayOK(p)'
      PROVE  Inv'
  <2>1. ASSUME NEW s \in Receipts PROVE RecordOK(s)' /\ CostOK(s)'
    BY <1>3, RecordFrame, Zenon DEF Inv, receiptVars, CostOK, LayersOf
  <2> QED
    BY <1>0, <1>3, <2>1, Zenon DEF Inv
<1>4. ASSUME NEW r \in Receipts,
             ReadPoStatus(r) \/ ReadPoLines(r) \/ WritePoLine(r) \/ WritePoStatus(r)
      PROVE  Inv'
  BY <1>3, <1>4, Zenon
  DEF ReadPoStatus, ReadPoLines, WritePoLine, WritePoStatus, receiptVars, qcVars, stockVars,
      Inv, PutawayOK
<1>5. ASSUME NEW r \in Receipts, NEW q \in Quantities, NEW t \in QcTypes, QcEvent(r, t, q)
      PROVE  Inv'
  <2>1. RecordOK(r)'
    BY <1>5, QcEventRecord, Zenon
  <2>2. ASSUME NEW s \in Receipts \ {r} PROVE RecordOK(s)'
    <3>1. alloc'[s] = alloc[s]
      BY <1>0, <1>5 DEF QcEvent, QcUnits, MoveAllocation, TypeOK
    <3>2. /\ status'[s] = status[s] /\ life'[s] = life[s] /\ received'[s] = received[s]
          /\ closed'[s] = closed[s] /\ qc'[s] = qc[s] /\ disposed'[s] = disposed[s]
          /\ adjusted'[s] = adjusted[s] /\ moved'[s] = moved[s]
      BY <1>0, <1>5, Zenon DEF QcEvent, TypeOK
    <3>3. RecordOK(s)
      BY <2>2, Zenon DEF Inv
    <3> QED
      BY <3>1, <3>2, <3>3, RecordFrame, Zenon
  <2>3. ASSUME NEW s \in Receipts PROVE CostOK(s)'
    <3>1. status' = status /\ received' = received /\ q \in Nat
      BY <1>5, QuantityTypes, Zenon DEF QcEvent
    <3>2. CASE UNCHANGED stockVars
      BY <3>1, <3>2, Zenon DEF stockVars, Inv, CostOK, LayersOf
    <3>3. CASE \E l \in Roles \ {"QA"} : Transfer("QA", l, q)
      BY <3>1, <3>3, TransferCost, Zenon DEF Roles
    <3> QED
      BY <1>5, <3>2, <3>3, Zenon DEF QcEvent, QcUnits, Roles
  <2>4. ASSUME NEW p \in Putaways PROVE PutawayOK(p)'
    BY <1>5, Zenon DEF Inv, PutawayOK, QcEvent
  <2> QED
    BY <1>0, <2>1, <2>2, <2>3, <2>4, Zenon DEF Inv
<1>6. ASSUME NEW r \in Receipts, NEW q \in Quantities, NEW d \in Dispositions,
             ResolveHoldDisposition(r, d, q)
      PROVE  Inv'
  <2>1. RecordOK(r)'
    BY <1>6, DispositionRecord, Zenon
  <2>2. ASSUME NEW s \in Receipts \ {r} PROVE RecordOK(s)'
    <3>1. alloc'[s] = alloc[s]
      BY <1>0, <1>6 DEF ResolveHoldDisposition, MoveAllocation, TypeOK
    <3>2. /\ status'[s] = status[s] /\ life'[s] = life[s] /\ received'[s] = received[s]
          /\ closed'[s] = closed[s] /\ qc'[s] = qc[s] /\ disposed'[s] = disposed[s]
          /\ adjusted'[s] = adjusted[s] /\ moved'[s] = moved[s]
      BY <1>0, <1>6, Zenon DEF ResolveHoldDisposition, TypeOK
    <3>3. RecordOK(s)
      BY <2>2, Zenon DEF Inv
    <3> QED
      BY <3>1, <3>2, <3>3, RecordFrame, Zenon
  <2>3. \A s \in Receipts : CostOK(s)'
    <3> DEFINE l == RoleOf(DispositionBucket(d))
    <3>1. status' = status /\ received' = received /\ Transfer("HOLD", l, q)
      BY <1>6, Zenon DEF ResolveHoldDisposition
    <3>2. l \in Roles /\ l # "HOLD" /\ "HOLD" \in Roles /\ q \in Nat
      BY DispositionTypes, QuantityTypes, Zenon DEF Roles
    <3> HIDE DEF l
    <3> QED
      BY <3>1, <3>2, TransferCost, Zenon
  <2>4. ASSUME NEW p \in Putaways PROVE PutawayOK(p)'
    BY <1>6, Zenon DEF Inv, PutawayOK, ResolveHoldDisposition
  <2> QED
    BY <1>0, <2>1, <2>2, <2>3, <2>4, Zenon DEF Inv
<1>7. ASSUME NEW l \in Roles, NEW q \in Quantities, QcWarehouseDisposition(l, q)
      PROVE  Inv'
  <2>1. ASSUME NEW s \in Receipts PROVE RecordOK(s)'
    BY <1>7, RecordFrame, Zenon DEF QcWarehouseDisposition, receiptVars, qcVars, Inv
  <2>2. \A s \in Receipts : CostOK(s)'
    <3>1. /\ status' = status /\ received' = received /\ Transfer("QA", l, q)
          /\ l # "QA" /\ "QA" \in Roles /\ q \in Nat
      BY <1>7, QuantityTypes, Zenon DEF QcWarehouseDisposition, receiptVars, Roles
    <3> QED
      BY <3>1, TransferCost, Zenon
  <2>3. ASSUME NEW p \in Putaways PROVE PutawayOK(p)'
    BY <1>7, Zenon DEF Inv, PutawayOK, QcWarehouseDisposition, receiptVars
  <2> QED
    BY <1>0, <2>1, <2>2, <2>3, Zenon DEF Inv
<1>8. ASSUME NEW p \in Putaways, NEW r \in Receipts, NEW q \in Quantities, CheckPutaway(p, r, q)
      PROVE  Inv'
  <2>1. ASSUME NEW o \in Putaways PROVE PutawayOK(o)'
    <3>1. status' = status /\ status[r] = "posted"
      BY <1>8, Zenon DEF CheckPutaway, receiptVars
    <3>2. CASE o = p
      <4>1. putaway'[p] = [status |-> "checked", receipt |-> r, qty |-> q]
        BY <1>0, <1>8, Zenon DEF CheckPutaway, TypeOK
      <4> QED
        BY <3>1, <3>2, <4>1, QuantityTypes DEF PutawayOK
    <3>3. CASE o # p
      <4>1. putaway'[o] = putaway[o]
        BY <1>0, <1>8, <3>3, Zenon DEF CheckPutaway, TypeOK
      <4> QED
        BY <3>1, <4>1, Zenon DEF Inv, PutawayOK
    <3> QED
      BY <3>2, <3>3, Zenon
  <2> QED
    BY <1>3, <1>8, <2>1, Zenon DEF CheckPutaway, qcVars, stockVars
<1>9. ASSUME NEW p \in Putaways, InsertPutaway(p)
      PROVE  Inv'
  <2>1. ASSUME NEW o \in Putaways PROVE PutawayOK(o)'
    BY <1>0, <1>9 DEF Inv, PutawayOK, InsertPutaway, TypeOK, receiptVars
  <2> QED
    BY <1>3, <1>9, <2>1, Zenon DEF InsertPutaway, qcVars, stockVars
<1>10. ASSUME NEW p \in Putaways, PostPutaway(p)
       PROVE  Inv'
  <2>1. PICK r \in Receipts, q \in Nat : r = putaway[p].receipt /\ q = putaway[p].qty
    BY <1>0, Zenon DEF TypeOK
  <2>2. RecordOK(r)'
    <3>1. putaway[p].status = "draft" /\ PutawayOK(p)
      BY <1>10, Zenon DEF PostPutaway, Inv
    <3>2. q >= 1 /\ status[r] # "none"
      BY <2>1, <3>1, Zenon DEF PutawayOK
    <3>3. PutawayStep(r, q)
      BY <1>10, <2>1, <3>2, Zenon DEF PostPutaway, PutawayStep, qcVars
    <3> QED
      BY <3>3, PutawayRecord, Zenon
  <2>3. ASSUME NEW s \in Receipts \ {r} PROVE RecordOK(s)'
    <3>1. alloc'[s] = alloc[s]
      BY <1>0, <1>10, <2>1, Zenon DEF PostPutaway, MoveAllocation, TypeOK
    <3>2. /\ status'[s] = status[s] /\ life'[s] = life[s] /\ received'[s] = received[s]
          /\ closed'[s] = closed[s] /\ qc'[s] = qc[s] /\ disposed'[s] = disposed[s]
          /\ adjusted'[s] = adjusted[s] /\ moved'[s] = moved[s]
      BY <1>0, <1>10, <2>1 DEF PostPutaway, TypeOK, qcVars
    <3>3. RecordOK(s)
      BY <2>2, Zenon DEF Inv
    <3> QED
      BY <3>1, <3>2, <3>3, RecordFrame, Zenon
  <2>4. \A s \in Receipts : CostOK(s)'
    <3>1. /\ status' = status /\ received' = received /\ Transfer("QA", "SELLABLE", q)
          /\ "QA" \in Roles /\ "SELLABLE" \in Roles
      BY <1>10, <2>1, Zenon DEF PostPutaway, Roles
    <3> QED
      BY <3>1, TransferCost, Zenon
  <2>5. ASSUME NEW o \in Putaways PROVE PutawayOK(o)'
    BY <1>0, <1>10 DEF Inv, PutawayOK, PostPutaway, TypeOK
  <2> QED
    BY <1>0, <2>2, <2>3, <2>4, <2>5, Zenon DEF Inv
<1>11. ASSUME NEW r \in Receipts, NEW sheet \in CountSheets, CloseReceipt(r, sheet)
       PROVE  Inv'
  <2>1. RecordOK(r)'
    BY <1>11, CloseRecord, Zenon
  <2>2. ASSUME NEW s \in Receipts \ {r} PROVE RecordOK(s)'
    <3>1. /\ status'[s] = status[s] /\ life'[s] = life[s] /\ received'[s] = received[s]
          /\ closed'[s] = closed[s] /\ qc'[s] = qc[s] /\ disposed'[s] = disposed[s]
          /\ alloc'[s] = alloc[s] /\ adjusted'[s] = adjusted[s] /\ moved'[s] = moved[s]
      <4>1. /\ UNCHANGED <<status, life, received, qc, disposed, moved>>
            /\ closed' = [closed EXCEPT ![r] = TRUE]
            /\ ApplyAdjustments(r, sheet)
        BY <1>11, Zenon DEF CloseReceipt, qcVars
      <4>2. /\ \E f : alloc' = [alloc EXCEPT ![r] = f]
            /\ \E f : adjusted' = [adjusted EXCEPT ![r] = f]
        BY <1>0, <4>1, CountsApplied, Zenon
      <4> QED
        BY <1>0, <4>1, <4>2, Zenon DEF TypeOK
    <3> QED
      BY <3>1, RecordFrame, Zenon DEF Inv
  <2>3. ASSUME NEW s \in Receipts PROVE CostOK(s)'
    BY <1>11, Zenon DEF CloseReceipt, Inv, CostOK, LayersOf
  <2>4. ASSUME NEW p \in Putaways PROVE PutawayOK(p)'
    BY <1>11, Zenon DEF Inv, PutawayOK, CloseReceipt
  <2> QED
    BY <1>0, <2>1, <2>2, <2>3, <2>4, Zenon DEF Inv
<1>12. ASSUME NEW c, ClosePurchaseOrderLine(c) \/ ClosePurchaseOrder(c)
       PROVE  Inv'
  BY <1>3, <1>12, Zenon
  DEF ClosePurchaseOrderLine, ClosePurchaseOrder, receiptVars, qcVars, stockVars, Inv, PutawayOK
<1>13. CASE UNCHANGED vars
  BY <1>3, <1>13, Zenon DEF vars, receiptVars, qcVars, stockVars, Inv, PutawayOK
<1> QED
  BY <1>1, <1>2, <1>4, <1>5, <1>6, <1>7, <1>8, <1>9, <1>10, <1>11, <1>12, <1>13, Zenon DEF Next

(* The invariant holds in every reachable state.                           *)
LEMMA InvAlways == Spec => []Inv
BY InvInit, InvNext, PTL DEF Spec

(* The receipt allocations are what the QC events, the dispositions, the   *)
(* putaways and the counts add up to.                                      *)
THEOREM AllocationsAgree == Spec => []AllocationsMatchEvents
BY InvAlways, InvImplies, PTL

(* Transfers, putaways and dispositions neither create nor lose the cost   *)
(* layers of a receipt, and a void removes all of them.                    *)
THEOREM CostConserved == Spec => []ReceiptCostConserved
BY InvAlways, InvImplies, PTL

(* A receipt leaves QC with every unit decided and no hold open.           *)
THEOREM QcSound == Spec => []QcCompletedMeansDecided
BY InvAlways, InvImplies, PTL

(* However many putaways are drafted at once, those that post move no more *)
(* than QC accepted.                                                       *)
THEOREM PutawaySound == Spec => []PutawayWithinAccepted
BY InvAlways, InvImplies, PTL

(* A receipt that was closed out stays settled.                            *)
THEOREM CloseoutSound == Spec => []ClosedReceiptSettled
BY InvAlways, InvImplies, PTL

-----------------------------------------------------------------------------
(***************************************************************************)
(* A receipt decided by one event.  The evaluation after a QC event counts *)
(* the line once per event, so it is right for the first event; that no    *)
(* unit is decided about without an event, and that a posted receipt has   *)
(* units, makes the claim inductive.                                       *)
(***************************************************************************)

OneEventOK(r) ==
  /\ events[r] = 0 => QcTotal(r) = 0
  /\ status[r] = "posted" => received[r] # 0
  /\ status[r] = "posted" /\ events[r] = 1 /\ QcTotal(r) = received[r] /\ NetHold(r) = 0
       => life[r] # "QC_PENDING"

EvaluationInv == Inv /\ \A r \in Receipts : OneEventOK(r)

(* The invariant implies what the run checks.                              *)
LEMMA EvaluationImplies == EvaluationInv => DecidedByOneEventEvaluated
<1> SUFFICES ASSUME EvaluationInv, NEW r \in Receipts,
                    status[r] = "posted", events[r] <= 1, QcTotal(r) = received[r], NetHold(r) = 0
             PROVE  life[r] # "QC_PENDING"
  BY Zenon DEF DecidedByOneEventEvaluated
<1>1. OneEventOK(r) /\ TypeOK
  BY Zenon DEF EvaluationInv, Inv
<1>2. events[r] \in Nat
  BY <1>1, Zenon DEF TypeOK
<1>3. events[r] # 0
  BY <1>1, Zenon DEF OneEventOK
<1>4. events[r] = 1
  BY <1>2, <1>3
<1> QED
  BY <1>1, <1>4, Zenon DEF OneEventOK

(* There is no receipt at first.                                           *)
LEMMA EvaluationInit == Init => EvaluationInv
<1> SUFFICES ASSUME Init PROVE EvaluationInv
  BY Zenon
<1>1. Inv
  BY InvInit, Zenon
<1>2. ASSUME NEW r \in Receipts PROVE OneEventOK(r)
  <2>1. status[r] = "none" /\ Untouched(r)
    BY <1>1, Zenon DEF Init, Inv, RecordOK
  <2>2. QcTotal(r) = 0
    BY <2>1 DEF Untouched, QcTotal
  <2> QED
    BY <2>1, <2>2, Zenon DEF OneEventOK
<1> QED
  BY <1>1, <1>2, Zenon DEF EvaluationInv

(* What is said of a receipt depends on its own rows only.                 *)
LEMMA OneEventFrame ==
  ASSUME NEW s, OneEventOK(s),
         status'[s] = status[s], life'[s] = life[s], received'[s] = received[s],
         qc'[s] = qc[s], events'[s] = events[s], disposed'[s] = disposed[s]
  PROVE  OneEventOK(s)'
BY Zenon DEF OneEventOK, QcTotal, NetHold, DisposedTotal

(* A receipt that is created has units, and none is decided about.         *)
LEMMA CreateEvaluation ==
  ASSUME EvaluationInv, NEW r \in Receipts, NEW q \in Quantities, NEW over \in BOOLEAN,
         CreateReceipt(r, q, over)
  PROVE  OneEventOK(r)'
<1>1. TypeOK /\ RecordOK(r)
  BY Zenon DEF EvaluationInv, Inv
<1>2. received'[r] = q /\ qc' = qc
  BY <1>1, Zenon DEF CreateReceipt, TypeOK, qcVars
<1>3. q # 0
  BY QuantityTypes
<1>4. Untouched(r)
  BY <1>1, Zenon DEF CreateReceipt, RecordOK
<1>5. QcTotal(r)' = 0
  BY <1>2, <1>4 DEF Untouched, QcTotal
<1> QED
  BY <1>2, <1>3, <1>5, Zenon DEF OneEventOK

(* The first QC event is evaluated against the line counted once: if it    *)
(* decides about every unit and holds none, the receipt leaves QC.         *)
LEMMA FirstEventEvaluated ==
  ASSUME EvaluationInv, NEW r \in Receipts, NEW q \in Quantities, NEW t \in QcTypes,
         QcEvent(r, t, q)
  PROVE  OneEventOK(r)'
<1> DEFINE complete == received[r] * events'[r] <= QcTotal(r) + q
           accepted == qc'[r]["accept"] + disposed[r]["release"]
           held == qc'[r]["hold"] - DisposedTotal(disposed[r])
<1>1. TypeOK /\ TypeOK' /\ OneEventOK(r)
  <2>1. Next
    BY Zenon DEF Next
  <2> QED
    BY <2>1, TypeNext, Zenon DEF EvaluationInv, Inv
<1>2. /\ status[r] = "posted" /\ status'[r] = status[r] /\ received'[r] = received[r]
      /\ disposed'[r] = disposed[r]
  BY Zenon DEF QcEvent
<1>3. events'[r] = events[r] + 1 /\ events[r] \in Nat
  BY <1>1, Zenon DEF QcEvent, TypeOK
<1>4. received[r] \in Int /\ QcTotal(r) \in Int /\ q \in Int
  BY <1>1, LineValues, QcValues, QuantityTypes DEF QcTotal
<1>5. life'[r] = EvaluateQc(life[r], complete, accepted, held, disposed[r]["rework"])
  BY <1>1, Zenon DEF QcEvent, TypeOK
<1>6. held = NetHold(r)'
  BY <1>2, Zenon DEF NetHold
<1>7. QcTotal(r)' = QcTotal(r) + q
  <2>1. /\ qc' = [qc EXCEPT ![r][t] = @ + q]
        /\ qc \in [Receipts -> [QcTypes -> Nat]]
    BY <1>1, Zenon DEF QcEvent, TypeOK
  <2>2. /\ qc'[r][t] = qc[r][t] + q
        /\ \A u \in QcTypes \ {t} : qc'[r][u] = qc[r][u]
        /\ \A u \in QcTypes : qc[r][u] \in Int
    BY <1>4, <2>1
  <2>3. t = "accept" \/ t = "hold" \/ t = "reject"
    BY Zenon DEF QcTypes
  <2> QED
    BY <1>4, <2>2, <2>3 DEF QcTotal, QcTypes
<1>8. ASSUME events'[r] = 1, QcTotal(r)' = received'[r] PROVE complete
  BY <1>2, <1>4, <1>7, <1>8
<1>9. ASSUME NetHold(r)' = 0 PROVE ~(held > 0)
  BY <1>6, <1>9
<1> HIDE DEF complete, accepted, held
<1>10. complete /\ ~(held > 0) => life'[r] # "QC_PENDING"
  BY <1>5, Zenon DEF EvaluateQc
<1>11. events'[r] # 0
  BY <1>3
<1>12. received'[r] # 0
  BY <1>1, <1>2, Zenon DEF OneEventOK
<1> QED
  BY <1>8, <1>9, <1>10, <1>11, <1>12, Zenon DEF OneEventOK

(* The disposition that takes up the last unit held evaluates the receipt  *)
(* against the line itself, however many events decided about it.          *)
LEMMA DispositionEvaluated ==
  ASSUME EvaluationInv, NEW r \in Receipts, NEW q \in Quantities, NEW d \in Dispositions,
         ResolveHoldDisposition(r, d, q)
  PROVE  OneEventOK(r)'
<1> DEFINE complete == received[r] <= QcTotal(r)
           accepted == qc[r]["accept"] + disposed'[r]["release"]
           held == qc[r]["hold"] - DisposedTotal(disposed'[r])
<1>1. TypeOK /\ OneEventOK(r)
  BY Zenon DEF EvaluationInv, Inv
<1>2. /\ status'[r] = status[r] /\ received'[r] = received[r]
      /\ qc'[r] = qc[r] /\ events'[r] = events[r]
  BY Zenon DEF ResolveHoldDisposition
<1>3. life'[r] = EvaluateQc(life[r], complete, accepted, held, disposed'[r]["rework"])
  BY <1>1, Zenon DEF ResolveHoldDisposition, TypeOK
<1>4. held = NetHold(r)' /\ QcTotal(r)' = QcTotal(r)
  BY <1>2, Zenon DEF NetHold, QcTotal
<1>5. ASSUME QcTotal(r)' = received'[r] PROVE complete
  <2>1. received[r] \in Int
    BY <1>1, LineValues, Zenon
  <2> QED
    BY <1>2, <1>4, <1>5, <2>1
<1>6. ASSUME NetHold(r)' = 0 PROVE ~(held > 0)
  BY <1>4, <1>6
<1> HIDE DEF complete, accepted, held
<1>7. complete /\ ~(held > 0) => life'[r] # "QC_PENDING"
  BY <1>3, Zenon DEF EvaluateQc
<1> QED
  BY <1>1, <1>2, <1>4, <1>5, <1>6, <1>7, Zenon DEF OneEventOK

(* Every step keeps every receipt decided by one event evaluated.          *)
LEMMA EvaluationNext == EvaluationInv /\ [Next]_vars => EvaluationInv'
<1> SUFFICES ASSUME EvaluationInv, [Next]_vars PROVE EvaluationInv'
  BY Zenon
<1>0. Inv /\ Inv' /\ TypeOK
  BY InvNext, Zenon DEF EvaluationInv, Inv
<1>s. SUFFICES ASSUME NEW s \in Receipts PROVE OneEventOK(s)'
  BY <1>0, Zenon DEF EvaluationInv
<1>f. OneEventOK(s)
  BY Zenon DEF EvaluationInv
<1>1. ASSUME NEW r \in Receipts, NEW q \in Quantities, NEW over \in BOOLEAN,
             CreateReceipt(r, q, over)
      PROVE  OneEventOK(s)'
  <2>1. CASE s = r
    BY <1>1, <2>1, CreateEvaluation, Zenon
  <2>2. CASE s # r
    <3>1. /\ status'[s] = status[s] /\ life'[s] = life[s] /\ received'[s] = received[s]
          /\ UNCHANGED <<qc, events, disposed>>
      BY <1>0, <1>1, <2>2, Zenon DEF CreateReceipt, TypeOK, qcVars
    <3> QED
      BY <1>f, <3>1, OneEventFrame, Zenon
  <2> QED
    BY <2>1, <2>2, Zenon
<1>2. ASSUME NEW r \in Receipts, VoidReceipt(r)
      PROVE  OneEventOK(s)'
  <2>1. status'[s] = "posted" => status[s] = "posted"
    BY <1>0, <1>2, Zenon DEF VoidReceipt, TypeOK
  <2>2. UNCHANGED <<life, received, qc, events, disposed>>
    BY <1>2, Zenon DEF VoidReceipt, qcVars
  <2> QED
    BY <1>f, <2>1, <2>2, Zenon DEF OneEventOK, QcTotal, NetHold, DisposedTotal
<1>3. ASSUME UNCHANGED <<status, life, received, qcVars>>
      PROVE  OneEventOK(s)'
  BY <1>f, <1>3, OneEventFrame, Zenon DEF qcVars
<1>4. ASSUME NEW r \in Receipts,
             ReadPoStatus(r) \/ ReadPoLines(r) \/ WritePoLine(r) \/ WritePoStatus(r)
      PROVE  OneEventOK(s)'
  BY <1>3, <1>4, Zenon DEF ReadPoStatus, ReadPoLines, WritePoLine, WritePoStatus, receiptVars
<1>5. ASSUME NEW r \in Receipts, NEW q \in Quantities, NEW t \in QcTypes, QcEvent(r, t, q)
      PROVE  OneEventOK(s)'
  <2>1. CASE s = r
    BY <1>5, <2>1, FirstEventEvaluated, Zenon
  <2>2. CASE s # r
    <3>1. /\ status'[s] = status[s] /\ life'[s] = life[s] /\ received'[s] = received[s]
          /\ qc'[s] = qc[s] /\ events'[s] = events[s] /\ disposed'[s] = disposed[s]
      BY <1>0, <1>5, <2>2, Zenon DEF QcEvent, TypeOK
    <3> QED
      BY <1>f, <3>1, OneEventFrame, Zenon
  <2> QED
    BY <2>1, <2>2, Zenon
<1>6. ASSUME NEW r \in Receipts, NEW q \in Quantities, NEW d \in Dispositions,
             ResolveHoldDisposition(r, d, q)
      PROVE  OneEventOK(s)'
  <2>1. CASE s = r
    BY <1>6, <2>1, DispositionEvaluated, Zenon
  <2>2. CASE s # r
    <3>1. /\ status'[s] = status[s] /\ life'[s] = life[s] /\ received'[s] = received[s]
          /\ qc'[s] = qc[s] /\ events'[s] = events[s] /\ disposed'[s] = disposed[s]
      BY <1>0, <1>6, <2>2, Zenon DEF ResolveHoldDisposition, TypeOK
    <3> QED
      BY <1>f, <3>1, OneEventFrame, Zenon
  <2> QED
    BY <2>1, <2>2, Zenon
<1>7. ASSUME NEW l \in Roles, NEW q \in Quantities, QcWarehouseDisposition(l, q)
      PROVE  OneEventOK(s)'
  BY <1>3, <1>7, Zenon DEF QcWarehouseDisposition, receiptVars
<1>8. ASSUME NEW p \in Putaways, NEW r \in Receipts, NEW q \in Quantities,
             CheckPutaway(p, r, q)
      PROVE  OneEventOK(s)'
  BY <1>3, <1>8, Zenon DEF CheckPutaway, receiptVars
<1>9. ASSUME NEW p \in Putaways, InsertPutaway(p)
      PROVE  OneEventOK(s)'
  BY <1>3, <1>9, Zenon DEF InsertPutaway, receiptVars
<1>10. ASSUME NEW p \in Putaways, PostPutaway(p)
       PROVE  OneEventOK(s)'
  <2>1. UNCHANGED <<status, received, qc, events, disposed>>
    BY <1>10, Zenon DEF PostPutaway, qcVars
  <2>2. life'[s] = "QC_PENDING" => life[s] = "QC_PENDING"
    <3> DEFINE r == putaway[p].receipt
               accepted == qc[r]["accept"]
               available == alloc'[r]["AVAILABLE"]
    <3>1. /\ life' = [life EXCEPT ![r] = CompletePutaway(@, accepted, available)]
          /\ life \in [Receipts -> LifeStates]
      BY <1>0, <1>10, Zenon DEF PostPutaway, TypeOK
    <3> HIDE DEF r, accepted, available
    <3>2. life'[s] = life[s] \/ life'[s] = CompletePutaway(life[s], accepted, available)
      BY <3>1, Zenon
    <3>3. CompletePutaway(life[s], accepted, available) \in {life[s], "PUTAWAY_PENDING", "AVAILABLE"}
      BY Zenon DEF CompletePutaway
    <3> QED
      BY <3>2, <3>3, Zenon
  <2> QED
    BY <1>f, <2>1, <2>2, Zenon DEF OneEventOK, QcTotal, NetHold, DisposedTotal
<1>11. ASSUME NEW r \in Receipts, NEW sheet \in CountSheets, CloseReceipt(r, sheet)
       PROVE  OneEventOK(s)'
  BY <1>3, <1>11, Zenon DEF CloseReceipt
<1>12. ASSUME NEW c, ClosePurchaseOrderLine(c) \/ ClosePurchaseOrder(c)
       PROVE  OneEventOK(s)'
  BY <1>3, <1>12, Zenon DEF ClosePurchaseOrderLine, ClosePurchaseOrder, receiptVars
<1>13. CASE UNCHANGED vars
  BY <1>3, <1>13, Zenon DEF vars, receiptVars
<1> QED
  BY <1>1, <1>2, <1>4, <1>5, <1>6, <1>7, <1>8, <1>9, <1>10, <1>11, <1>12, <1>13, Zenon DEF Next

(* A receipt decided about by one QC event, with its hold taken up by      *)
(* dispositions, is out of QC: a decided receipt that still waits has had  *)
(* two events, and its line was counted twice.                             *)
THEOREM OneEventSound == Spec => []DecidedByOneEventEvaluated
<1>1. Spec => []EvaluationInv
  BY EvaluationInit, EvaluationNext, PTL DEF Spec
<1> QED
  BY <1>1, EvaluationImplies, PTL
=============================================================================
