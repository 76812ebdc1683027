---------------------------- MODULE InboundStock ----------------------------
(***************************************************************************)
(* What Inbound keeps in sums: the stock of a location against its cost    *)
(* layers and the physical counts, and the order's status against the      *)
(* quantity received.  For any number of receipts and any quantities.      *)
(***************************************************************************)
EXTENDS InboundSafety

-----------------------------------------------------------------------------
(* The stock at a location.                                                *)

(* What the physical counts added at a location.                           *)
Counted(l) == SumFunction([r \in Receipts |-> counted[r][l]])

(* What the layers of a location add up to is a natural number.            *)
LEMMA LayerTotalType ==
  ASSUME layers \in [Roles -> [Receipts -> Nat]], NEW l \in Roles
  PROVE  LayerTotal(l) \in Nat
<1>1. \A r \in Receipts : layers[l][r] \in Nat
  OBVIOUS
<1> DEFINE f == layers[l]
<1>2. \A r \in Receipts : f[r] \in Nat
  BY <1>1, Zenon
<1> HIDE DEF f
<1>3. SumFunctionOnSet(f, Receipts) \in Nat
  BY <1>2, FiniteTables, SumIsNatural, Zenon
<1> QED
  BY <1>3, Zenon DEF LayerTotal, f

(* A transfer moves q units of layers, whichever they are.                 *)
LEMMA TransferTotals ==
  ASSUME layers \in [Roles -> [Receipts -> Nat]], stock \in [Roles -> Nat],
         NEW from \in Roles, NEW to \in Roles, from # to, NEW q \in Nat,
         Transfer(from, to, q)
  PROVE  /\ LayerTotal(from)' = LayerTotal(from) - q
         /\ LayerTotal(to)' = LayerTotal(to) + q
         /\ \A l \in Roles \ {from, to} : LayerTotal(l)' = LayerTotal(l)
<1>1. PICK taken \in [Receipts -> 0..q] :
        /\ OldestFirst(from, q, taken)
        /\ layers' = [layers EXCEPT
             ![from] = [r \in Receipts |-> layers[from][r] - taken[r]],
             ![to] = [r \in Receipts |-> layers[to][r] + taken[r]]]
  BY Zenon DEF Transfer
<1>2. SumFunctionOnSet(taken, Receipts) = q /\ \A r \in Receipts : taken[r] \in Int
  BY <1>1 DEF OldestFirst
<1> DEFINE f == layers[from]
           f2 == layers'[from]
           t == layers[to]
           t2 == layers'[to]
<1>3. /\ \A l \in Roles \ {from, to} : layers'[l] = layers[l]
      /\ \A r \in Receipts : /\ f2[r] = f[r] - taken[r] /\ t2[r] = t[r] + taken[r]
                             /\ f[r] \in Int /\ t[r] \in Int
  BY <1>1
<1>4. \A r \in Receipts : /\ f2[r] \in Int /\ taken[r] \in Int /\ f[r] = f2[r] + taken[r]
                          /\ t[r] \in Int /\ t2[r] = t[r] + taken[r]
  BY <1>2, <1>3
<1>5. IsFiniteSet(Receipts)
  BY FiniteTables, Zenon
<1> HIDE DEF f, f2, t, t2
<1>6. SumFunctionOnSet(f, Receipts) = SumFunctionOnSet(f2, Receipts) + q
  BY <1>2, <1>4, <1>5, SumPlus
<1>7. SumFunctionOnSet(t2, Receipts) = SumFunctionOnSet(t, Receipts) + q
  BY <1>2, <1>4, <1>5, SumPlus
<1>8. SumFunctionOnSet(f2, Receipts) \in Int
  BY <1>4, <1>5, SumIsInteger, Zenon
<1>9. SumFunctionOnSet(f2, Receipts) = SumFunctionOnSet(f, Receipts) - q
  BY <1>6, <1>8
<1> QED
  BY <1>3, <1>7, <1>9 DEF LayerTotal, f, f2, t, t2

(* One layer rewritten.                                                    *)
LEMMA LayerRewritten ==
  ASSUME layers \in [Roles -> [Receipts -> Nat]], NEW r \in Receipts, NEW k \in Nat,
         layers' = [layers EXCEPT !["QA"][r] = k]
  PROVE  /\ LayerTotal("QA")' = LayerTotal("QA") - layers["QA"][r] + k
         /\ \A l \in Roles \ {"QA"} : LayerTotal(l)' = LayerTotal(l)
<1> DEFINE f == layers["QA"]
           g == layers'["QA"]
<1>1. "QA" \in Roles
  BY Zenon DEF Roles
<1>2. /\ \A s \in Receipts : f[s] \in Int /\ g[s] \in Int
      /\ \A s \in Receipts \ {r} : f[s] = g[s]
      /\ g[r] = k
      /\ \A l \in Roles \ {"QA"} : layers'[l] = layers[l]
  BY <1>1
<1>3. IsFiniteSet(Receipts)
  BY FiniteTables, Zenon
<1> HIDE DEF f, g
<1>4. SumFunctionOnSet(g, Receipts) = SumFunctionOnSet(f, Receipts) - f[r] + g[r]
  BY <1>2, <1>3, SumAtPoint
<1> QED
  BY <1>2, <1>4, Zenon DEF LayerTotal, f, g

(* The counted differences of a location are integers.                     *)
LEMMA CountedType ==
  ASSUME counted \in [Receipts -> [Roles -> Int]], NEW l \in Roles
  PROVE  Counted(l) \in Int
<1> DEFINE g == [r \in Receipts |-> counted[r][l]]
<1>1. DOMAIN g = Receipts /\ \A r \in Receipts : g[r] \in Int
  OBVIOUS
<1> HIDE DEF g
<1>2. SumFunctionOnSet(g, Receipts) \in Int
  BY <1>1, FiniteTables, SumIsInteger, Zenon
<1> QED
  BY <1>1, <1>2, Zenon DEF Counted, SumFunction, g

(* Quantities that add up to nothing are zero.                             *)
LEMMA NothingAddsUp ==
  ASSUME NEW a \in Nat, NEW b \in Nat, NEW c \in Nat, NEW d \in Nat, a + b + c + d = 0
  PROVE  a = 0
OBVIOUS

(* A table of integers, one entry per receipt, that changes at one receipt *)
(* changes its total by as much.                                           *)
LEMMA TableStep ==
  ASSUME NEW p, NEW q, NEW r \in Receipts, NEW d \in Int,
         DOMAIN p = Receipts, DOMAIN q = Receipts,
         \A s \in Receipts : p[s] \in Int /\ q[s] \in Int,
         \A s \in Receipts \ {r} : p[s] = q[s],
         q[r] = p[r] + d
  PROVE  SumFunction(q) = SumFunction(p) + d
<1>1. IsFiniteSet(Receipts)
  BY FiniteTables, Zenon
<1>2. SumFunctionOnSet(q, Receipts) = SumFunctionOnSet(p, Receipts) - p[r] + q[r]
  BY <1>1, SumAtPoint
<1>3. SumFunctionOnSet(p, Receipts) \in Int /\ p[r] \in Int
  BY <1>1, SumIsInteger, Zenon
<1>4. SumFunctionOnSet(q, Receipts) = SumFunctionOnSet(p, Receipts) + d
  BY <1>2, <1>3
<1> QED
  BY <1>4, Zenon DEF SumFunction

(* A sheet of counts: every location changes by what was counted there.    *)
LEMMA CountedStep ==
  ASSUME counted \in [Receipts -> [Roles -> Int]],
         NEW r \in Receipts, NEW delta \in [Roles -> Int],
         counted' = [counted EXCEPT ![r] = [l \in Roles |-> counted[r][l] + delta[l]]]
  PROVE  \A l \in Roles : Counted(l)' = Counted(l) + delta[l]
<1>1. ASSUME NEW l \in Roles
      PROVE  Counted(l)' = Counted(l) + delta[l]
  <2> DEFINE p == [s \in Receipts |-> counted[s][l]]
             q == [s \in Receipts |-> counted'[s][l]]
  <2>1. /\ DOMAIN p = Receipts /\ DOMAIN q = Receipts
        /\ \A s \in Receipts : p[s] \in Int /\ q[s] \in Int
        /\ \A s \in Receipts \ {r} : p[s] = q[s]
        /\ q[r] = p[r] + delta[l]
    OBVIOUS
  <2>2. Counted(l) = SumFunction(p) /\ Counted(l)' = SumFunction(q)
    BY Zenon DEF Counted
  <2>3. delta[l] \in Int
    OBVIOUS
  <2> HIDE DEF p, q
  <2>4. SumFunction(q) = SumFunction(p) + delta[l]
    BY <2>1, <2>3, TableStep, Zenon
  <2> QED
    BY <2>2, <2>4, Zenon
<1> QED
  BY <1>1, Zenon

(* What the runs check, location by location.                              *)
Stocked(l) == stock[l] = LayerTotal(l) + Counted(l)

(* LayersMatchStock is Stocked at every location.                          *)
LEMMA StockedIsLayered == LayersMatchStock <=> \A l \in Roles : Stocked(l)
BY Zenon DEF LayersMatchStock, Stocked, Counted

(* Before the first receipt there is neither stock nor a layer.            *)
LEMMA StockInit == Init => \A l \in Roles : Stocked(l)
<1> SUFFICES ASSUME Init, NEW l \in Roles PROVE Stocked(l)
  BY Zenon
<1>1. /\ stock[l] = 0 /\ \A r \in Receipts : layers[l][r] = 0
      /\ \A r \in Receipts : counted[r][l] = 0
  BY Zenon DEF Init
<1>2. IsFiniteSet(Receipts)
  BY FiniteTables, Zenon
<1>3. LayerTotal(l) = 0
  <2> DEFINE f == layers[l]
  <2>1. \A r \in Receipts : f[r] = 0
    BY <1>1, Zenon
  <2> HIDE DEF f
  <2>2. SumFunctionOnSet(f, Receipts) = 0
    BY <1>2, <2>1, SumOfZeros, Zenon
  <2> QED
    BY <2>2 DEF LayerTotal, f
<1>4. Counted(l) = 0
  <2> DEFINE g == [r \in Receipts |-> counted[r][l]]
  <2>1. DOMAIN g = Receipts /\ \A r \in Receipts : g[r] = 0
    BY <1>1, Zenon
  <2> HIDE DEF g
  <2>2. SumFunctionOnSet(g, Receipts) = 0
    BY <1>2, <2>1, SumOfZeros, Zenon
  <2> QED
    BY <2>1, <2>2 DEF Counted, SumFunction, g
<1> QED
  BY <1>1, <1>3, <1>4 DEF Stocked

(* A transfer moves stock and layers by the same quantity.                 *)
LEMMA StockTransferred ==
  ASSUME TypeOK, \A l \in Roles : Stocked(l),
         NEW from \in Roles, NEW to \in Roles, from # to, NEW q \in Nat,
         Transfer(from, to, q), counted' = counted
  PROVE  \A l \in Roles : Stocked(l)'
<1>1. /\ layers \in [Roles -> [Receipts -> Nat]] /\ stock \in [Roles -> Nat]
      /\ counted \in [Receipts -> [Roles -> Int]]
  BY Zenon DEF TypeOK
<1>2. /\ LayerTotal(from)' = LayerTotal(from) - q
      /\ LayerTotal(to)' = LayerTotal(to) + q
      /\ \A l \in Roles \ {from, to} : LayerTotal(l)' = LayerTotal(l)
  BY <1>1, TransferTotals, Zenon
<1>3. \A l \in Roles : Counted(l)' = Counted(l) /\ Counted(l) \in Int /\ LayerTotal(l) \in Int
  BY <1>1, CountedType, LayerTotalType DEF Counted
<1>4. /\ stock'[from] = stock[from] - q /\ stock'[to] = stock[to] + q
      /\ \A l \in Roles \ {from, to} : stock'[l] = stock[l]
  BY <1>1, Zenon DEF Transfer
<1> QED
  BY <1>2, <1>3, <1>4 DEF Stocked

(* One step per action that touches stock, layers or counts.               *)
LEMMA StockNext ==
  Inv /\ (\A l \in Roles : Stocked(l)) /\ [Next]_vars => \A l \in Roles : Stocked(l)'
<1> SUFFICES ASSUME Inv, \A l \in Roles : Stocked(l), [Next]_vars
             PROVE  \A l \in Roles : Stocked(l)'
  OBVIOUS
<1>0. /\ TypeOK /\ layers \in [Roles -> [Receipts -> Nat]] /\ stock \in [Roles -> Nat]
      /\ counted \in [Receipts -> [Roles -> Int]] /\ received \in [Receipts -> Nat]
      /\ "QA" \in Roles /\ "HOLD" \in Roles /\ "SELLABLE" \in Roles /\ "REJECT" \in Roles
  BY Zenon DEF Inv, TypeOK, Roles
<1>00. \A l \in Roles : Counted(l) \in Int /\ LayerTotal(l) \in Int
  BY <1>0, CountedType, LayerTotalType
<1>1. ASSUME NEW r \in Receipts, NEW q \in Quantities, NEW over \in BOOLEAN,
             CreateReceipt(r, q, over)
      PROVE  \A l \in Roles : Stocked(l)'
  <2>1. /\ layers' = [layers EXCEPT !["QA"][r] = q] /\ stock' = [stock EXCEPT !["QA"] = @ + q]
        /\ counted' = counted /\ status[r] = "none"
    BY <1>1, Zenon DEF CreateReceipt
  <2>2. layers["QA"][r] = 0 /\ q \in Nat
    <3>1. LayersOf(r) = 0
      BY <2>1, Zenon DEF Inv, CostOK, RecordOK, Untouched
    <3>2. layers["QA"][r] \in Nat /\ layers["SELLABLE"][r] \in Nat /\ layers["HOLD"][r] \in Nat
          /\ layers["REJECT"][r] \in Nat
      BY <1>0, Zenon
    <3>3. q \in Nat
      BY QuantityTypes, Zenon
    <3>4. layers["QA"][r] = 0
      BY <3>1, <3>2, NothingAddsUp, Zenon DEF LayersOf
    <3> QED
      BY <3>3, <3>4, Zenon
  <2>3. /\ LayerTotal("QA")' = LayerTotal("QA") - layers["QA"][r] + q
        /\ \A l \in Roles \ {"QA"} : LayerTotal(l)' = LayerTotal(l)
    BY <1>0, <2>1, <2>2, LayerRewritten, Zenon
  <2>4. \A l \in Roles : Counted(l)' = Counted(l)
    BY <2>1, Zenon DEF Counted
  <2>5. stock'["QA"] = stock["QA"] + q /\ \A l \in Roles \ {"QA"} : stock'[l] = stock[l]
    BY <1>0, <2>1, Zenon
  <2> QED
    BY <1>0, <1>00, <2>2, <2>3, <2>4, <2>5, SMTT(20) DEF Stocked
<1>2. ASSUME NEW r \in Receipts, VoidReceipt(r)
      PROVE  \A l \in Roles : Stocked(l)'
  <2>1. /\ layers' = [layers EXCEPT !["QA"][r] = 0]
        /\ stock' = [stock EXCEPT !["QA"] = @ - received[r]]
        /\ counted' = counted /\ layers["QA"][r] = received[r]
    BY <1>2, Zenon DEF VoidReceipt, CostLayersReversible
  <2>2. /\ LayerTotal("QA")' = LayerTotal("QA") - received[r]
        /\ \A l \in Roles \ {"QA"} : LayerTotal(l)' = LayerTotal(l)
    <3>1. /\ LayerTotal("QA")' = LayerTotal("QA") - layers["QA"][r] + 0
          /\ \A l \in Roles \ {"QA"} : LayerTotal(l)' = LayerTotal(l)
      BY <1>0, <2>1, LayerRewritten, Zenon
    <3> QED
      BY <1>0, <1>00, <2>1, <3>1
  <2>3. \A l \in Roles : Counted(l)' = Counted(l)
    BY <2>1, Zenon DEF Counted
  <2>4. stock'["QA"] = stock["QA"] - received[r] /\ \A l \in Roles \ {"QA"} : stock'[l] = stock[l]
    BY <1>0, <2>1
  <2>5. received[r] \in Int
    BY <1>0
  <2> QED
    BY <1>0, <1>00, <2>2, <2>3, <2>4, <2>5, SMTT(20) DEF Stocked
<1>3. ASSUME UNCHANGED <<stock, layers, counted>>
      PROVE  \A l \in Roles : Stocked(l)'
  BY <1>3, Zenon DEF Stocked, LayerTotal, Counted
<1>4. ASSUME NEW r \in Receipts, NEW q \in Quantities, NEW t \in QcTypes, QcEvent(r, t, q)
      PROVE  \A l \in Roles : Stocked(l)'
  <2>1. counted' = counted /\ q \in Nat
    BY <1>4, QuantityTypes DEF QcEvent
  <2>2. CASE UNCHANGED stockVars
    BY <1>3, <2>1, <2>2, Zenon DEF stockVars
  <2>3. CASE Transfer("QA", "HOLD", q)
    BY <1>0, <2>1, <2>3, StockTransferred, Zenon
  <2>4. CASE Transfer("QA", "REJECT", q)
    BY <1>0, <2>1, <2>4, StockTransferred, SMTT(20)
  <2> QED
    BY <1>4, <2>2, <2>3, <2>4, Zenon DEF QcEvent, QcUnits
<1>5. ASSUME NEW r \in Receipts, NEW q \in Quantities, NEW d \in Dispositions,
             ResolveHoldDisposition(r, d, q)
      PROVE  \A l \in Roles : Stocked(l)'
  <2> DEFINE k == RoleOf(DispositionBucket(d))
  <2>1. counted' = counted /\ Transfer("HOLD", k, q)
    BY <1>5, Zenon DEF ResolveHoldDisposition
  <2>2. k \in Roles /\ k # "HOLD" /\ q \in Nat
    BY DispositionTypes, QuantityTypes
  <2> HIDE DEF k
  <2> QED
    BY <1>0, <2>1, <2>2, StockTransferred, Zenon
<1>6. ASSUME NEW k \in Roles, NEW q \in Quantities, QcWarehouseDisposition(k, q)
      PROVE  \A l \in Roles : Stocked(l)'
  <2>1. counted' = counted /\ Transfer("QA", k, q) /\ k # "QA" /\ q \in Nat
    BY <1>6, QuantityTypes, Zenon DEF QcWarehouseDisposition
  <2> QED
    BY <1>0, <2>1, StockTransferred, Zenon
<1>7. ASSUME NEW p \in Putaways, PostPutaway(p)
      PROVE  \A l \in Roles : Stocked(l)'
  <2>1. PICK q \in Nat : q = putaway[p].qty
    BY <1>0, Zenon DEF TypeOK
  <2>2. counted' = counted /\ Transfer("QA", "SELLABLE", q)
    BY <1>7, <2>1, Zenon DEF PostPutaway
  <2> QED
    BY <1>0, <2>1, <2>2, StockTransferred
<1>8. ASSUME NEW r \in Receipts, NEW sheet \in CountSheets, CloseReceipt(r, sheet)
      PROVE  \A l \in Roles : Stocked(l)'
  <2>1. ApplyAdjustments(r, sheet) /\ layers' = layers
    BY <1>8, Zenon DEF CloseReceipt
  <2>2. PICK delta \in [Roles -> Int] :
          /\ stock' = [l \in Roles |-> stock[l] + delta[l]]
          /\ counted' = [counted EXCEPT ![r] = [l \in Roles |-> counted[r][l] + delta[l]]]
    BY <1>0, <2>1, CountsApplied, Zenon
  <2>3. \A l \in Roles : Counted(l)' = Counted(l) + delta[l]
    BY <1>0, <2>2, CountedStep, Zenon DEF TypeOK
  <2>4. \A l \in Roles : LayerTotal(l)' = LayerTotal(l)
    BY <2>1 DEF LayerTotal
  <2>5. \A l \in Roles : stock'[l] = stock[l] + delta[l] /\ delta[l] \in Int /\ stock[l] \in Int
    BY <1>0, <2>2 DEF TypeOK
  <2> QED
    BY <1>0, <1>00, <2>3, <2>4, <2>5, SMTT(20) DEF Stocked
<1>9. ASSUME NEW r \in Receipts,
             ReadPoStatus(r) \/ ReadPoLines(r) \/ WritePoLine(r) \/ WritePoStatus(r)
      PROVE  \A l \in Roles : Stocked(l)'
  BY <1>3, <1>9, Zenon DEF ReadPoStatus, ReadPoLines, WritePoLine, WritePoStatus, stockVars
<1>10. ASSUME NEW p \in Putaways, NEW r, NEW q, CheckPutaway(p, r, q) \/ InsertPutaway(p)
       PROVE  \A l \in Roles : Stocked(l)'
  BY <1>3, <1>10 DEF CheckPutaway, InsertPutaway, stockVars
<1>11. ASSUME NEW c, ClosePurchaseOrderLine(c) \/ ClosePurchaseOrder(c)
       PROVE  \A l \in Roles : Stocked(l)'
  BY <1>3, <1>11, Zenon DEF ClosePurchaseOrderLine, ClosePurchaseOrder, stockVars
<1>12. CASE UNCHANGED vars
  BY <1>3, <1>12 DEF vars, stockVars
<1> QED
  BY <1>1, <1>2, <1>4, <1>5, <1>6, <1>7, <1>8, <1>9, <1>10, <1>11, <1>12, Zenon DEF Next

(* At every location the balance is what the cost layers value, up to the  *)
(* physical counts, whichever layers the transfers took and however many   *)
(* receipts share the location.                                            *)
THEOREM StockIsLayered == Spec => []LayersMatchStock
<1>1. Init => Inv /\ \A l \in Roles : Stocked(l)
  BY InvInit, StockInit, Zenon
<1>2. (Inv /\ \A l \in Roles : Stocked(l)) /\ [Next]_vars
        => (Inv /\ \A l \in Roles : Stocked(l))'
  BY InvNext, StockNext
<1>3. (Inv /\ \A l \in Roles : Stocked(l)) => LayersMatchStock
  BY StockedIsLayered, Zenon
<1> QED
  BY <1>1, <1>2, <1>3, PTL DEF Spec

-----------------------------------------------------------------------------
(***************************************************************************)
(* The order's status.  The refresh after a void reads the order, reads    *)
(* the line and writes both without a lock.  What it has read can be old   *)
(* when it writes; it does no harm because the quantity received never     *)
(* falls (a void drops no receipt line from it) and a line that is no      *)
(* longer open never changes again.  So a refresh that has derived         *)
(* "received" or "closed" has seen a line that still says so, and one that *)
(* has derived "partially_received" finds that nothing is to be written.   *)
(***************************************************************************)

QtyReceived == LineReceived(status, received)

(* The order and its line against the quantity received.                   *)
OrderFollows(p, ln, qty) ==
  /\ ln = "open" => qty < Ordered
  /\ ln = "complete" => qty >= Ordered
  /\ p = "approved" => qty = 0
  /\ p \in {"approved", "partially_received"} <=> ln = "open"
  /\ p = "received" <=> ln = "complete"

(* What a refresh f that follows a void knows about the line.              *)
RefreshKnows(f, ln, qty) ==
  /\ f.pc # "idle" => qty > 0
  /\ f.pc \in {"read", "derived"} =>
       /\ f.seen \in {"partially_received", "received", "canceled"}
       /\ f.seen = "received" => ln = "complete"
  /\ f.pc = "derived" =>
       /\ f.line = f.stale
       /\ \/ f.next = "partially_received" /\ f.seen # "received"
          \/ f.next = "received" /\ ln = "complete"
          \/ f.next = "closed" /\ ln \in {"closed_short", "cancelled"}
  /\ f.pc = "write" =>
       \/ f.next = "received" /\ ln = "complete"
       \/ f.next = "closed" /\ ln \in {"closed_short", "cancelled"}

OrderInv ==
  /\ TypeOK
  /\ \A r \in Receipts : status[r] # "none" => received[r] >= 1
  /\ OrderFollows(po, line, QtyReceived)
  /\ \A r \in Receipts : RefreshKnows(refresh[r], line, QtyReceived)

(* The quantity received is a number, at least that of any receipt.        *)
LEMMA QtyReceivedType ==
  ASSUME TypeOK
  PROVE  /\ QtyReceived \in Nat
         /\ \A r \in Receipts : status[r] # "none" => QtyReceived >= received[r]
<1> DEFINE S == {r \in Receipts : status[r] # "none"}
<1>1. S \subseteq Receipts /\ IsFiniteSet(S)
  BY FiniteTables, FS_Subset
<1>2. \A r \in S : received[r] \in Nat
  BY Zenon DEF TypeOK
<1>3. QtyReceived = SumFunctionOnSet(received, S) /\ \A r \in Receipts : status[r] # "none" => r \in S
  BY Zenon DEF QtyReceived, LineReceived
<1> HIDE DEF S
<1>4. SumFunctionOnSet(received, S) \in Nat
  BY <1>1, <1>2, SumIsNatural
<1>5. \A r \in S : SumFunctionOnSet(received, S) >= received[r]
  BY <1>1, <1>2, SumAtLeast, Zenon
<1> QED
  BY <1>3, <1>4, <1>5, Zenon

(* A receipt adds its quantity, ...                                        *)
LEMMA QtyReceivedAdds ==
  ASSUME TypeOK, TypeOK', NEW r \in Receipts, NEW q \in Nat, status[r] = "none",
         status' = [status EXCEPT ![r] = "posted"], received' = [received EXCEPT ![r] = q]
  PROVE  QtyReceived' = QtyReceived + q
<1> DEFINE S == {s \in Receipts : status[s] # "none"}
           T == {s \in Receipts : status'[s] # "none"}
           g == received'
<1>1. S \subseteq Receipts /\ IsFiniteSet(S)
  BY FiniteTables, FS_Subset, Zenon
<1>2. T = S \cup {r} /\ r \notin S
  BY DEF TypeOK
<1>3. g[r] = q /\ (\A s \in S : received[s] = g[s]) /\ \A s \in S \cup {r} : g[s] \in Int
  BY <1>1, <1>2 DEF TypeOK
<1>4. QtyReceived = SumFunctionOnSet(received, S) /\ QtyReceived' = SumFunctionOnSet(g, T)
  BY Zenon DEF QtyReceived, LineReceived
<1> HIDE DEF S, T, g
<1>5. SumFunctionOnSet(received, S) = SumFunctionOnSet(g, S)
  BY <1>1, <1>3, SumAgrees, Zenon
<1>6. SumFunctionOnSet(g, S \cup {r}) = SumFunctionOnSet(g, S) + g[r]
  BY <1>1, <1>2, <1>3, SumInserted
<1> QED
  BY <1>2, <1>3, <1>4, <1>5, <1>6

(* ... and a void takes nothing away.                                      *)
LEMMA QtyReceivedKept ==
  ASSUME received' = received,
         \A r \in Receipts : status'[r] = "none" <=> status[r] = "none"
  PROVE  QtyReceived' = QtyReceived
<1>1. {r \in Receipts : status'[r] # "none"} = {r \in Receipts : status[r] # "none"}
  BY Zenon
<1> QED
  BY <1>1, Zenon DEF QtyReceived, LineReceived

(* An order nobody has received against agrees with its receipts.          *)
LEMMA OrderInit == Init => OrderInv
<1> SUFFICES ASSUME Init PROVE OrderInv
  BY Zenon
<1>1. TypeOK
  BY TypeInit, Zenon
<1>2. \A r \in Receipts : status[r] = "none" /\ refresh[r] = Idle
  BY DEF Init
<1>3. QtyReceived = 0
  <2>1. {r \in Receipts : status[r] # "none"} = {}
    BY <1>2, Zenon
  <2>2. QtyReceived = SumFunctionOnSet(received, {})
    BY <2>1 DEF QtyReceived, LineReceived
  <2> QED
    BY <2>2, SumEmpty
<1>4. OrderFollows(po, line, QtyReceived)
  BY <1>3, InboundAssumption DEF Init, OrderFollows
<1>5. \A r \in Receipts : RefreshKnows(refresh[r], line, QtyReceived)
  BY <1>2 DEF RefreshKnows, Idle
<1> QED
  BY <1>1, <1>2, <1>4, <1>5 DEF OrderInv

(* A refresh keeps what it knows when a receipt arrives: the line was open *)
(* until then.                                                             *)
LEMMA RefreshOutlives ==
  ASSUME NEW f, NEW ln, NEW qty, NEW n, RefreshKnows(f, "open", qty), n > 0
  PROVE  RefreshKnows(f, ln, n)
BY Zenon DEF RefreshKnows

(* The same when the open line is closed.                                  *)
LEMMA RefreshSurvives ==
  ASSUME NEW f, NEW ln, NEW qty, RefreshKnows(f, "open", qty)
  PROVE  RefreshKnows(f, ln, qty)
BY Zenon DEF RefreshKnows

(* The steps that leave the order alone.                                   *)
LEMMA OrderFrame ==
  ASSUME OrderInv, TypeOK', UNCHANGED <<status, received, poVars>>
  PROVE  OrderInv'
BY Zenon DEF OrderInv, poVars, QtyReceived

(* A step of one refresh: it alone changes, and what it knows holds.       *)
LEMMA OrderRefreshed ==
  ASSUME OrderInv, TypeOK', UNCHANGED <<status, received, line>>,
         NEW r \in Receipts, NEW f, refresh' = [refresh EXCEPT ![r] = f],
         RefreshKnows(f, line, QtyReceived),
         OrderFollows(po', line, QtyReceived)
  PROVE  OrderInv'
<1>1. QtyReceived' = QtyReceived
  BY Zenon DEF QtyReceived
<1>2. ASSUME NEW s \in Receipts PROVE RefreshKnows(refresh'[s], line, QtyReceived)
  <2>1. refresh'[s] = IF s = r THEN f ELSE refresh[s]
    BY DEF OrderInv, TypeOK
  <2> QED
    BY <2>1, Zenon DEF OrderInv
<1> QED
  BY <1>1, <1>2, Zenon DEF OrderInv

(* One step per action; the order is not reopened by any of them.          *)
NotReopened == po \in {"closed", "canceled"} => po' \in {"closed", "canceled"}

(* Every step keeps the order in step with its receipts and a terminal     *)
(* order terminal.                                                         *)
LEMMA OrderNext == OrderInv /\ [Next]_vars => OrderInv' /\ NotReopened
<1> SUFFICES ASSUME OrderInv, [Next]_vars PROVE OrderInv' /\ NotReopened
  OBVIOUS
<1>0. TypeOK /\ TypeOK'
  BY TypeNext DEF OrderInv
<1>00. QtyReceived \in Nat /\ \A r \in Receipts : status[r] # "none" => QtyReceived >= received[r]
  BY <1>0, QtyReceivedType, Zenon
<1>1. ASSUME NEW r \in Receipts, NEW q \in Quantities, NEW over \in BOOLEAN,
             CreateReceipt(r, q, over)
      PROVE  OrderInv' /\ NotReopened
  <2> DEFINE n == QtyReceived'
  <2>1. /\ status[r] = "none" /\ line = "open" /\ po \notin {"received", "closed", "canceled"}
        /\ status' = [status EXCEPT ![r] = "posted"] /\ received' = [received EXCEPT ![r] = q]
        /\ refresh' = refresh
        /\ UpdatePoStatusFromReceipts(po, line, status', received')
    BY <1>1, Zenon DEF CreateReceipt, ReceiptCanBeCreated
  <2>2. q \in Nat /\ q >= 1
    BY QuantityTypes
  <2>3. n = QtyReceived + q
    BY <1>0, <2>1, <2>2, QtyReceivedAdds, Zenon
  <2>4. n \in Nat /\ n > 0
    BY <1>00, <2>2, <2>3
  <2>5. n = LineReceived(status', received')
    BY Zenon DEF QtyReceived, LineReceived
  <2> HIDE DEF n
  <2>6. line' = DerivedLine("open", n) /\ po' = DerivedPo(po, line', n)
    BY <2>1, <2>5, Zenon DEF UpdatePoStatusFromReceipts
  <2>7. OrderFollows(po', line', n)
    BY <2>4, <2>6, InboundAssumption DEF OrderFollows, DerivedLine, DerivedPo
  <2>8. \A s \in Receipts : RefreshKnows(refresh'[s], line', n)
    BY <2>1, <2>4, RefreshOutlives, Zenon DEF OrderInv
  <2>9. \A s \in Receipts : status'[s] # "none" => received'[s] >= 1
    BY <1>0, <2>1, <2>2, Zenon DEF OrderInv, TypeOK
  <2> QED
    BY <1>0, <2>1, <2>7, <2>8, <2>9 DEF OrderInv, NotReopened, n
<1>2. ASSUME NEW r \in Receipts, VoidReceipt(r)
      PROVE  OrderInv' /\ NotReopened
  <2>1. /\ status[r] = "posted" /\ status' = [status EXCEPT ![r] = "voided"]
        /\ refresh' = [refresh EXCEPT ![r].pc = "due"]
        /\ UNCHANGED <<received, po, line>>
    BY <1>2, Zenon DEF VoidReceipt
  <2>2. \A s \in Receipts : status'[s] = "none" <=> status[s] = "none"
    BY <1>0, <2>1 DEF TypeOK
  <2>3. QtyReceived' = QtyReceived
    BY <2>1, <2>2, QtyReceivedKept, Zenon
  <2>4. QtyReceived > 0
    <3>1. received[r] \in Nat /\ received[r] >= 1 /\ QtyReceived >= received[r]
      BY <1>0, <1>00, <2>1, Zenon DEF OrderInv, TypeOK
    <3> HIDE DEF QtyReceived
    <3> QED
      BY <1>00, <3>1
  <2>5. ASSUME NEW s \in Receipts PROVE RefreshKnows(refresh'[s], line, QtyReceived)
    <3>1. CASE s = r
      <4>1. refresh'[s].pc = "due"
        BY <1>0, <2>1, <3>1, SMTT(20) DEF TypeOK
      <4> QED
        BY <2>4, <4>1, Zenon DEF RefreshKnows
    <3>2. CASE s # r
      BY <1>0, <2>1, <3>2 DEF OrderInv, TypeOK
    <3> QED
      BY <3>1, <3>2
  <2> QED
    BY <1>0, <2>1, <2>2, <2>3, <2>5, SMTT(20) DEF OrderInv, NotReopened
<1>3. ASSUME NEW r \in Receipts, ReadPoStatus(r)
      PROVE  OrderInv' /\ NotReopened
  <2> DEFINE f == IF po = "closed" THEN Idle
                  ELSE [refresh[r] EXCEPT !.pc = "read", !.seen = po]
  <2>1. /\ refresh[r].pc = "due" /\ refresh' = [refresh EXCEPT ![r] = f]
        /\ UNCHANGED <<status, received, po, line>>
    BY <1>3 DEF ReadPoStatus, receiptVars
  <2>2. refresh[r] \in Refreshes
    BY <1>0, RefreshType, Zenon
  <2>3. /\ po = "closed" => f.pc = "idle"
        /\ po # "closed" => f.pc = "read" /\ f.seen = po
    BY <2>2, Zenon DEF Idle, Refreshes
  <2>4. QtyReceived > 0 /\ OrderFollows(po, line, QtyReceived) /\ po \in PoStatuses
    BY <1>0, <2>1 DEF OrderInv, RefreshKnows, TypeOK
  <2> HIDE DEF f
  <2>5. RefreshKnows(f, line, QtyReceived)
    BY <2>3, <2>4 DEF RefreshKnows, OrderFollows, PoStatuses
  <2> QED
    BY <1>0, <2>1, <2>4, <2>5, OrderRefreshed, Zenon DEF NotReopened
<1>4. ASSUME NEW r \in Receipts, ReadPoLines(r)
      PROVE  OrderInv' /\ NotReopened
  <2> DEFINE resolved == DerivedLine(line, QtyReceived)
             f == [refresh[r] EXCEPT !.pc = "derived", !.stale = line, !.line = resolved,
                      !.next = DerivedPo(refresh[r].seen, resolved, QtyReceived)]
  <2>1. /\ refresh[r].pc = "read" /\ refresh' = [refresh EXCEPT ![r] = f]
        /\ UNCHANGED <<status, received, po, line>>
    BY <1>4 DEF ReadPoLines, receiptVars, QtyReceived
  <2>2. refresh[r] \in Refreshes
    BY <1>0, RefreshType, Zenon
  <2>3. /\ OrderFollows(po, line, QtyReceived) /\ line \in LineStatuses
        /\ RefreshKnows(refresh[r], line, QtyReceived)
    BY <1>0, Zenon DEF OrderInv, TypeOK
  <2>4. resolved = line
    BY <1>00, <2>3, InboundAssumption DEF OrderFollows, DerivedLine, LineStatuses
  <2>5. /\ f.pc = "derived" /\ f.stale = line /\ f.line = resolved
        /\ f.next = DerivedPo(refresh[r].seen, resolved, QtyReceived)
        /\ f.seen = refresh[r].seen
    BY <2>2, Zenon DEF Refreshes
  <2> HIDE DEF f, resolved
  <2>6. /\ refresh[r].seen \in {"partially_received", "received", "canceled"}
        /\ refresh[r].seen = "received" => line = "complete"
        /\ QtyReceived > 0
    BY <2>1, <2>3 DEF RefreshKnows
  <2>7. RefreshKnows(f, line, QtyReceived)
    BY <2>3, <2>4, <2>5, <2>6, Zenon DEF RefreshKnows, DerivedPo, LineStatuses
  <2> QED
    BY <1>0, <2>1, <2>3, <2>7, OrderRefreshed, Zenon DEF NotReopened
<1>5. ASSUME NEW r \in Receipts, WritePoLine(r)
      PROVE  OrderInv' /\ NotReopened
  <2> DEFINE f == IF refresh[r].seen \in {"canceled", refresh[r].next} THEN Idle
                  ELSE [refresh[r] EXCEPT !.pc = "write"]
  <2>1. /\ refresh[r].pc = "derived" /\ refresh' = [refresh EXCEPT ![r] = f]
        /\ line' = IF refresh[r].line # refresh[r].stale THEN refresh[r].line ELSE line
        /\ UNCHANGED <<status, received, po>>
    BY <1>5, Zenon DEF WritePoLine, receiptVars
  <2>2. refresh[r] \in Refreshes
    BY <1>0, RefreshType, Zenon
  <2>3. OrderFollows(po, line, QtyReceived) /\ RefreshKnows(refresh[r], line, QtyReceived)
    BY DEF OrderInv
  <2>4. line' = line
    BY <2>1, <2>3 DEF RefreshKnows
  <2>5. /\ refresh[r].seen \in {"canceled", refresh[r].next} => f.pc = "idle"
        /\ refresh[r].seen \notin {"canceled", refresh[r].next} =>
             f.pc = "write" /\ f.next = refresh[r].next
    BY <2>2, Zenon DEF Idle, Refreshes
  <2> HIDE DEF f
  <2>6. RefreshKnows(f, line, QtyReceived)
    BY <2>1, <2>3, <2>5 DEF RefreshKnows
  <2> QED
    BY <1>0, <2>1, <2>3, <2>4, <2>6, OrderRefreshed, Zenon DEF NotReopened
<1>6. ASSUME NEW r \in Receipts, WritePoStatus(r)
      PROVE  OrderInv' /\ NotReopened
  <2>1. /\ refresh[r].pc = "write" /\ refresh' = [refresh EXCEPT ![r] = Idle]
        /\ po' = refresh[r].next
        /\ UNCHANGED <<status, received, line>>
    BY <1>6 DEF WritePoStatus, receiptVars
  <2>2. OrderFollows(po, line, QtyReceived) /\ RefreshKnows(refresh[r], line, QtyReceived)
    BY Zenon DEF OrderInv
  <2>3. \/ po' = "received" /\ line = "complete"
        \/ po' = "closed" /\ line \in {"closed_short", "cancelled"}
    BY <2>1, <2>2, Zenon DEF RefreshKnows
  <2>4. OrderFollows(po', line, QtyReceived) /\ NotReopened
    BY <2>2, <2>3, Zenon DEF OrderFollows, NotReopened
  <2>5. RefreshKnows(Idle, line, QtyReceived)
    BY DEF RefreshKnows, Idle
  <2> QED
    BY <1>0, <2>1, <2>4, <2>5, OrderRefreshed, Zenon
<1>7. ASSUME NEW c, ClosePurchaseOrderLine(c) \/ ClosePurchaseOrder(c)
      PROVE  OrderInv' /\ NotReopened
  <2>1. /\ po \notin {"received", "closed", "canceled"} /\ refresh' = refresh
        /\ UNCHANGED <<status, received>>
    BY <1>7 DEF ClosePurchaseOrderLine, ClosePurchaseOrder, receiptVars
  <2>2. line = "open" /\ OrderFollows(po, line, QtyReceived)
    BY <1>0, <2>1, Zenon DEF OrderInv, OrderFollows, TypeOK, PoStatuses
  <2>3. line' \in {"closed_short", "cancelled"} /\ po' \in {"closed", "canceled"}
    BY <1>7, <2>1, <2>2, Zenon
    DEF ClosePurchaseOrderLine, ClosePurchaseOrder, UpdatePoStatusFromReceipts,
        DerivedLine, DerivedPo
  <2>4. QtyReceived' = QtyReceived
    BY <2>1 DEF QtyReceived
  <2>5. OrderFollows(po', line', QtyReceived)
    BY <2>3, Zenon DEF OrderFollows
  <2>6. \A s \in Receipts : RefreshKnows(refresh'[s], line', QtyReceived)
    BY <2>1, <2>2, RefreshSurvives, Zenon DEF OrderInv
  <2> QED
    BY <1>0, <2>1, <2>3, <2>4, <2>5, <2>6 DEF OrderInv, NotReopened
<1>8. ASSUME UNCHANGED <<status, received, poVars>>
      PROVE  OrderInv' /\ NotReopened
  BY <1>0, <1>8, OrderFrame DEF poVars, NotReopened
<1>9. ASSUME NEW r, NEW q, NEW t, QcEvent(r, t, q) \/ ResolveHoldDisposition(r, t, q)
                                  \/ QcWarehouseDisposition(t, q)
      PROVE  OrderInv' /\ NotReopened
  BY <1>8, <1>9, Zenon DEF QcEvent, ResolveHoldDisposition, QcWarehouseDisposition, receiptVars
<1>10. ASSUME NEW p, NEW r, NEW q, CheckPutaway(p, r, q) \/ InsertPutaway(p) \/ PostPutaway(p)
       PROVE  OrderInv' /\ NotReopened
  BY <1>8, <1>10, Zenon DEF CheckPutaway, InsertPutaway, PostPutaway, receiptVars
<1>11. ASSUME NEW r, NEW sheet, CloseReceipt(r, sheet)
       PROVE  OrderInv' /\ NotReopened
  BY <1>8, <1>11 DEF CloseReceipt
<1>12. CASE UNCHANGED vars
  BY <1>8, <1>12, Zenon DEF vars, receiptVars
<1> QED
  BY <1>1, <1>2, <1>3, <1>4, <1>5, <1>6, <1>7, <1>9, <1>10, <1>11, <1>12, SMTT(20) DEF Next

(* An order that is closed or canceled stays so: the refresh that a void   *)
(* leaves behind, unlocked and however late, never puts an older status    *)
(* back.                                                                   *)
THEOREM ClosedOrderStaysClosed == Spec => TerminalOrderNotReopened
<1>1. OrderInv /\ [Next]_vars
        => [(po \in {"closed", "canceled"}) => (po' \in {"closed", "canceled"})]_vars
  BY OrderNext, Zenon DEF NotReopened
<1>2. OrderInv /\ [Next]_vars => OrderInv'
  BY OrderNext, Zenon
<1> QED
  BY OrderInit, <1>1, <1>2, PTL DEF Spec, TerminalOrderNotReopened
=============================================================================
