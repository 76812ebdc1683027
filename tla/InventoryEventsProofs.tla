------------------------ MODULE InventoryEventsProofs ------------------------
(***************************************************************************)
(* Proofs about InventoryEvents, for any movements, any number of workers, *)
(* any number of crashes and of aborted postings.                          *)
(*                                                                         *)
(* The inductive invariant says what the row lock on the cursor buys: only *)
(* one worker has an event in hand, that event lies above the cursor, and  *)
(* every sequence number between the two belongs to a posting the worker   *)
(* could not see when it fetched.                                          *)
(***************************************************************************)
EXTENDS InventoryEvents, TLAPS

-----------------------------------------------------------------------------
(***************************************************************************)
(* The inductive invariant.                                                *)
(***************************************************************************)

(* A worker with an open transaction holds the cursor row and has a        *)
(* committed event above the cursor in hand; what lies between is unseen.  *)
HasEvent(w) ==
  /\ cursorRow = w
  /\ event[w] \in Movements
  /\ Visible(event[w])
  /\ seq[event[w]] > cursor
  /\ \A m \in Movements :
       cursor < seq[m] /\ seq[m] < seq[event[w]] => m \in unseen[w]

(* Costs are recorded for the event in hand, which had none.               *)
Costs(w) == creates[w] = TRUE => wpc[w] # "idle" /\ costings[event[w]] = 0

(* Sequence numbers are drawn once, by postings that have begun.           *)
Drawn ==
  /\ cursor < nextSeq
  /\ \A m \in Movements : seq[m] < nextSeq /\ (pc[m] = "idle" <=> seq[m] = 0)
  /\ \A m, n \in Movements : seq[m] = seq[n] /\ seq[m] # 0 => m = n

(* A posting that has not committed has no costs in the database.          *)
Costed ==
  /\ CostedOnce
  /\ \A m \in Movements : ~Visible(m) => costings[m] = 0

(* The handled events lie at or below the cursor.                          *)
Past ==
  /\ HandledInOrder
  /\ \A i \in DOMAIN handled : Visible(handled[i]) /\ seq[handled[i]] <= cursor

(* What lies at or below the cursor was handled or overtaken, committed or *)
(* not.                                                                    *)
Accounted ==
  \A m \in Movements : seq[m] # 0 /\ seq[m] <= cursor => Handled(m) \/ m \in overtaken

Inv ==
  /\ TypeOK
  /\ \A w \in Workers : (wpc[w] # "idle" => HasEvent(w)) /\ Costs(w)
  /\ Drawn
  /\ Costed
  /\ Past
  /\ Accounted

(* The invariant holds before the first posting.                           *)
LEMMA InvInit == Init => Inv
<1> SUFFICES ASSUME Init PROVE Inv
  BY Zenon
<1> USE EventsAssumption
<1>1. TypeOK
  BY DEF Init, TypeOK
<1>2. \A w \in Workers : (wpc[w] # "idle" => HasEvent(w)) /\ Costs(w)
  BY Zenon DEF Init, Costs
<1>3. Drawn /\ Costed
  BY DEF Init, Drawn, Costed, CostedOnce
<1>4. Past
  BY DEF Init, Past, HandledInOrder
<1>5. Accounted
  BY Zenon DEF Init, Accounted
<1> QED
  BY <1>1, <1>2, <1>3, <1>4, <1>5, Zenon DEF Inv

-----------------------------------------------------------------------------
(* The end of a worker's transaction keeps the types of what it closes.    *)
LEMMA CloseTypes ==
  ASSUME TypeOK, NEW w \in Workers, CloseWorker(w)
  PROVE  /\ wpc' \in [Workers -> {"idle", "fetched", "valued", "ready"}]
         /\ cursorRow' \in Workers \cup {Nobody}
         /\ event' \in [Workers -> Movements \cup {Nobody}]
         /\ creates' \in [Workers -> BOOLEAN]
         /\ unseen' \in [Workers -> SUBSET Movements]
         /\ itemRow' \in Movements \cup Workers \cup {Nobody}
         /\ view' \in [Movements \cup Workers -> SUBSET Movements]
BY Zenon DEF TypeOK, CloseWorker, Release

(* Every step keeps the types.                                             *)
LEMMA TypeNext == Inv /\ [Next]_vars => TypeOK'
<1> SUFFICES ASSUME Inv, [Next]_vars PROVE TypeOK'
  BY Zenon
<1>0. TypeOK /\ \A w \in Workers : wpc[w] # "idle" => event[w] \in Movements
  BY Zenon DEF Inv, HasEvent
<1> USE EventsAssumption
<1>1. ASSUME NEW m \in Movements, Execute(m) PROVE TypeOK'
  BY <1>0, <1>1 DEF Execute, TypeOK, consumer
<1>2. ASSUME NEW m \in Movements, ValueInPosting(m) PROVE TypeOK'
  <2>1. view' \in [Movements \cup Workers -> SUBSET Movements]
    BY <1>0, <1>2 DEF ValueInPosting, TypeOK, Layers
  <2> QED
    BY <1>0, <1>2, <2>1, Zenon DEF ValueInPosting, TypeOK, consumer
<1>3. ASSUME NEW m \in Movements, WriteInPosting(m) PROVE TypeOK'
  BY <1>0, <1>3, Zenon DEF WriteInPosting, TypeOK, consumer
<1>4. ASSUME NEW m \in Movements, CommitPosting(m) PROVE TypeOK'
  BY <1>0, <1>4 DEF CommitPosting, TypeOK, consumer, Release
<1>5. ASSUME NEW m \in Movements, AbortPosting(m) PROVE TypeOK'
  BY <1>0, <1>5, Zenon DEF AbortPosting, TypeOK, consumer, Release
<1>6. ASSUME NEW w \in Workers, Fetch(w) PROVE TypeOK'
  BY <1>0, <1>6 DEF Fetch, Take, TypeOK, posting
<1>7. ASSUME NEW w \in Workers, SkipEvent(w) \/ WriteInProjection(w) PROVE TypeOK'
  BY <1>0, <1>7, Zenon DEF SkipEvent, WriteInProjection, TypeOK, posting
<1>8. ASSUME NEW w \in Workers, Project(w) PROVE TypeOK'
  <2>1. event[w] \in Movements
    BY <1>0, <1>8, Zenon DEF Project
  <2>2. view' \in [Movements \cup Workers -> SUBSET Movements]
    BY <1>0, <1>8, <2>1 DEF Project, TypeOK, Layers
  <2> QED
    BY <1>0, <1>8, <2>2, Zenon DEF Project, TypeOK, posting
<1>9. ASSUME NEW w \in Workers, CommitEvent(w) PROVE TypeOK'
  <2>1. event[w] \in Movements /\ TypeOK /\ CloseWorker(w) /\ CommitEffects(w)
    BY <1>0, <1>9, Zenon DEF CommitEvent
  <2>2. costings' \in [Movements -> Nat]
    BY <2>1 DEF CommitEffects, TypeOK
  <2>3. summary' \subseteq Movements /\ overtaken' \subseteq Movements
    BY <2>1, Zenon DEF CommitEffects, TypeOK
  <2>4. handled' \in Seq(Movements)
    BY <2>1 DEF CommitEffects, TypeOK
  <2>5. cursor' \in Nat
    BY <1>9, <2>1, Zenon DEF CommitEvent, TypeOK
  <2> QED
    BY <1>9, <2>1, <2>2, <2>3, <2>4, <2>5, CloseTypes, Zenon DEF CommitEvent, TypeOK, posting
<1>10. ASSUME NEW w \in Workers, FailEvent(w) \/ CrashWorker(w) PROVE TypeOK'
  <2>1. TypeOK /\ CloseWorker(w)
    BY <1>0, <1>10, Zenon DEF FailEvent, CrashWorker
  <2>2. UNCHANGED <<pc, seq, nextSeq, cursor, handled, overtaken, costings, summary>>
    BY <1>10, Zenon DEF FailEvent, CrashWorker, posting
  <2>3. crashes' \in Nat
    BY <1>10, <2>1 DEF FailEvent, CrashWorker, TypeOK
  <2> QED
    BY <2>1, <2>2, <2>3, CloseTypes, Zenon DEF TypeOK
<1>11. CASE UNCHANGED vars
  BY <1>0, <1>11, Zenon DEF vars, TypeOK, posting, consumer
<1> QED
  BY <1>1, <1>2, <1>3, <1>4, <1>5, <1>6, <1>7, <1>8, <1>9, <1>10, <1>11, Zenon
  DEF Next, PostingStep, TurnStep

-----------------------------------------------------------------------------
(* What a step of a posting never does: touch a committed posting, give    *)
(* one a sequence number already drawn, or record costs before the commit. *)
PostingFrame(m) ==
  /\ UNCHANGED consumer
  /\ \A n \in Movements \ {m} : pc'[n] = pc[n] /\ seq'[n] = seq[n] /\ costings'[n] = costings[n]
  /\ pc[m] # "done"
  /\ \/ seq'[m] = seq[m] /\ nextSeq' = nextSeq /\ pc[m] # "idle" /\ pc'[m] # "idle"
     \/ seq'[m] = nextSeq /\ nextSeq' = nextSeq + 1 /\ pc'[m] \notin {"idle", "done"}
     \/ seq'[m] = 0 /\ nextSeq' = nextSeq /\ pc'[m] = "idle"
  /\ \/ costings'[m] = costings[m]
     \/ costings'[m] = costings[m] + 1 /\ pc'[m] = "done"

(* What a step of one posting leaves alone.                                *)
LEMMA PostingFrames ==
  ASSUME TypeOK, NEW m \in Movements, PostingStep(m)
  PROVE  PostingFrame(m)
<1>1. CASE Execute(m)
  BY <1>1, Zenon DEF Execute, PostingFrame, TypeOK, consumer
<1>2. CASE ValueInPosting(m) \/ WriteInPosting(m)
  BY <1>2, Zenon DEF ValueInPosting, WriteInPosting, PostingFrame, TypeOK
<1>3. CASE CommitPosting(m)
  <2>1. costings'[m] = costings[m] \/ costings'[m] = costings[m] + 1
    BY <1>3 DEF CommitPosting, TypeOK
  <2> QED
    BY <1>3, <2>1, Zenon DEF CommitPosting, PostingFrame, TypeOK
<1>4. CASE AbortPosting(m)
  BY <1>4, Zenon DEF AbortPosting, PostingFrame, TypeOK
<1> QED
  BY <1>1, <1>2, <1>3, <1>4, Zenon DEF PostingStep

(* A step of a posting preserves the invariant.                            *)
LEMMA PostingInv ==
  ASSUME Inv, TypeOK', NEW m \in Movements, PostingStep(m)
  PROVE  Inv'
<1>0. TypeOK /\ PostingFrame(m)
  BY PostingFrames, Zenon DEF Inv
<1>1. /\ nextSeq \in Int /\ cursor \in Int /\ cursor >= 0
      /\ \A n \in Movements : seq[n] \in Int /\ seq'[n] \in Int /\ costings[n] \in Int
      /\ \A n \in Movements : seq[n] >= 0
  <2>1. /\ nextSeq \in Nat \ {0} /\ cursor \in Nat
        /\ seq \in [Movements -> Nat] /\ seq' \in [Movements -> Nat]
        /\ costings \in [Movements -> Nat]
    BY <1>0, Zenon DEF TypeOK
  <2> QED
    BY <2>1
<1>2. UNCHANGED <<cursor, cursorRow, wpc, event, creates, handled, unseen, overtaken>>
  BY <1>0, Zenon DEF PostingFrame, consumer
<1>3. \A n \in Movements : Visible(n) => n # m /\ Visible(n)' /\ seq'[n] = seq[n] /\ costings'[n] = costings[n]
  BY <1>0, Zenon DEF PostingFrame, Visible
<1>4. Drawn'
  BY <1>0, <1>1, <1>2 DEF Inv, Drawn, PostingFrame
<1>5. cursor < nextSeq /\ \A n \in Movements : seq[n] < nextSeq
  BY Zenon DEF Inv, Drawn
<1>6. \A n \in Movements : seq'[n] = seq[n] \/ seq'[n] = nextSeq \/ seq'[n] = 0
  BY <1>0, Zenon DEF PostingFrame
<1>7. ASSUME NEW w \in Workers PROVE (wpc'[w] # "idle" => HasEvent(w)') /\ Costs(w)'
  <2>1. (wpc[w] # "idle" => HasEvent(w)) /\ Costs(w)
    BY Zenon DEF Inv
  <2>2. ASSUME wpc'[w] # "idle" PROVE HasEvent(w)'
    <3>1. HasEvent(w) /\ event'[w] = event[w] /\ event[w] \in Movements /\ Visible(event[w])
      BY <1>2, <2>1, <2>2, Zenon DEF HasEvent
    <3>2. Visible(event[w])' /\ seq'[event[w]] = seq[event[w]] /\ seq[event[w]] < nextSeq
      BY <1>2, <1>3, <1>5, <3>1, Zenon
    <3>3. ASSUME NEW n \in Movements, cursor < seq'[n], seq'[n] < seq[event[w]]
          PROVE  n \in unseen[w]
      <4>1. seq'[n] = seq[n]
        BY <1>1, <1>6, <3>1, <3>2, <3>3
      <4> QED
        BY <3>1, <3>3, <4>1, Zenon DEF HasEvent
    <3> QED
      BY <1>2, <3>1, <3>2, <3>3, Zenon DEF HasEvent
  <2>3. Costs(w)'
    BY <1>2, <1>3, <2>1, Zenon DEF Costs, HasEvent
  <2> QED
    BY <2>2, <2>3, Zenon
<1>8. Costed'
  <2>1. ASSUME NEW n \in Movements PROVE costings'[n] <= 1 /\ (~Visible(n)' => costings'[n] = 0)
    <3>1. costings[n] <= 1 /\ (~Visible(n) => costings[n] = 0)
      BY Zenon DEF Inv, Costed, CostedOnce
    <3>2. CASE n = m
      BY <1>0, <1>1, <3>1, <3>2 DEF PostingFrame, Visible
    <3>3. CASE n # m
      BY <1>0, <3>1, <3>3, Zenon DEF PostingFrame, Visible
    <3> QED
      BY <3>2, <3>3, Zenon
  <2> QED
    BY <2>1, Zenon DEF Costed, CostedOnce
<1>9. Past'
  <2>1. \A i \in DOMAIN handled : handled[i] \in Movements /\ Visible(handled[i])
    BY <1>0 DEF Inv, Past, TypeOK
  <2>2. \A i \in DOMAIN handled : seq'[handled[i]] = seq[handled[i]] /\ Visible(handled[i])'
    BY <1>2, <1>3, <2>1, Zenon
  <2> QED
    BY <1>2, <2>2, Zenon DEF Inv, Past, HandledInOrder
<1>10. Accounted'
  <2>1. ASSUME NEW n \in Movements, seq'[n] # 0, seq'[n] <= cursor
        PROVE  Handled(n)' \/ n \in overtaken'
    <3>1. seq'[n] = seq[n]
      BY <1>1, <1>5, <1>6, <2>1
    <3>2. Handled(n) \/ n \in overtaken
      BY <2>1, <3>1, Zenon DEF Inv, Accounted
    <3> QED
      BY <1>2, <3>2, Zenon DEF Handled
  <2> QED
    BY <1>2, <2>1, Zenon DEF Accounted
<1> QED
  BY <1>4, <1>7, <1>8, <1>9, <1>10, Zenon DEF Inv

-----------------------------------------------------------------------------
(* No two workers have an event in hand.                                   *)
LEMMA OneWorker ==
  ASSUME Inv, NEW w \in Workers, NEW v \in Workers, v # w,
         cursorRow \in {w, Nobody}
  PROVE  wpc[v] = "idle"
BY EventsAssumption, Zenon DEF Inv, HasEvent

(* A fetch takes the first visible event above the cursor.                 *)
LEMMA FetchInv ==
  ASSUME Inv, TypeOK', NEW w \in Workers, Fetch(w)
  PROVE  Inv'
<1>0. TypeOK
  BY Zenon DEF Inv
<1>1. PICK m \in Movements : NextEvent(m) /\ Take(w, m)
  BY Zenon DEF Fetch
<1>2. /\ UNCHANGED <<pc, seq, nextSeq, cursor, creates, handled, overtaken, costings>>
      /\ wpc[w] = "idle" /\ cursorRow = Nobody /\ cursorRow' = w
      /\ wpc' = [wpc EXCEPT ![w] = "fetched"]
  BY Zenon DEF Fetch, posting
<1>3. /\ event'[w] = m
      /\ unseen'[w] = {n \in Movements : ~Visible(n) /\ seq[n] \in 1..(seq[m] - 1)}
  BY <1>0, <1>1, Zenon DEF Take, TypeOK
<1>4. Drawn' /\ Costed' /\ Past' /\ Accounted'
  BY <1>2, Zenon
  DEF Inv, Drawn, Costed, CostedOnce, Past, HandledInOrder, Accounted, Handled, Visible
<1>5. HasEvent(w)'
  <2>1. Visible(m) /\ seq[m] > cursor /\ \A n \in Movements : Visible(n) /\ seq[n] > cursor => seq[m] <= seq[n]
    BY <1>1, Zenon DEF NextEvent, Pending
  <2>2. ASSUME NEW n \in Movements, cursor < seq[n], seq[n] < seq[m]
        PROVE  n \in unseen'[w]
    <3>1. seq[n] \in Nat /\ seq[m] \in Nat /\ cursor \in Nat
      BY <1>0, Zenon DEF TypeOK
    <3>2. ~Visible(n)
      BY <2>1, <2>2, <3>1
    <3>3. seq[n] \in 1..(seq[m] - 1)
      BY <2>2, <3>1
    <3> QED
      BY <1>3, <3>2, <3>3, Zenon
  <2> QED
    BY <1>2, <1>3, <2>1, <2>2, Zenon DEF HasEvent, Visible
<1>6. ASSUME NEW v \in Workers, v # w PROVE wpc'[v] = "idle" /\ creates'[v] # TRUE
  <2>1. wpc[v] = "idle"
    BY <1>2, <1>6, OneWorker, Zenon
  <2> QED
    BY <1>0, <1>2, <1>6, <2>1, Zenon DEF Inv, Costs, TypeOK
<1>7. creates'[w] # TRUE
  BY <1>2, Zenon DEF Inv, Costs
<1> QED
  BY <1>4, <1>5, <1>6, <1>7, Zenon DEF Inv, Costs

(* The steps of a turn before its end.                                     *)
LEMMA TurnInv ==
  ASSUME Inv, TypeOK', NEW w \in Workers, SkipEvent(w) \/ Project(w) \/ WriteInProjection(w)
  PROVE  Inv'
<1>0. TypeOK
  BY Zenon DEF Inv
<1>1. /\ UNCHANGED <<pc, seq, nextSeq, cursor, cursorRow, event, unseen, handled, overtaken, costings>>
      /\ wpc[w] # "idle" /\ \A v \in Workers \ {w} : wpc'[v] = wpc[v] /\ creates'[v] = creates[v]
      /\ wpc'[w] # "idle"
  BY <1>0 DEF SkipEvent, Project, WriteInProjection, posting, TypeOK
<1>2. Drawn' /\ Costed' /\ Past' /\ Accounted'
  BY <1>1, Zenon
  DEF Inv, Drawn, Costed, CostedOnce, Past, HandledInOrder, Accounted, Handled, Visible
<1>3. ASSUME NEW v \in Workers, wpc'[v] # "idle" PROVE HasEvent(v)'
  <2>1. HasEvent(v)
    BY <1>1, <1>3, Zenon DEF Inv
  <2> QED
    BY <1>1, <2>1, Zenon DEF HasEvent, Visible
<1>4. ASSUME NEW v \in Workers \ {w} PROVE Costs(v)'
  BY <1>1, Zenon DEF Inv, Costs
<1>5. Costs(w)'
  <2>1. event[w] \in Movements
    BY <1>1, Zenon DEF Inv, HasEvent
  <2>2. CASE Project(w)
    <3>1. creates'[w] = (~HasCostLayerActivity(event[w]) /\ Kind[event[w]] = "uncosted")
      BY <1>0, <2>2 DEF Project, TypeOK
    <3>2. costings[event[w]] \in Nat
      BY <1>0, <2>1, Zenon DEF TypeOK
    <3>3. creates'[w] = TRUE => ~HasCostLayerActivity(event[w])
      BY <3>1, Zenon
    <3>4. ~HasCostLayerActivity(event[w]) => costings[event[w]] = 0
      BY <3>2 DEF HasCostLayerActivity
    <3> QED
      BY <1>1, <3>3, <3>4, Zenon DEF Costs
  <2>3. CASE SkipEvent(w) \/ WriteInProjection(w)
    BY <1>1, <2>3, Zenon DEF Inv, Costs, SkipEvent, WriteInProjection
  <2> QED
    BY <2>2, <2>3, Zenon
<1> QED
  BY <1>2, <1>3, <1>4, <1>5, Zenon DEF Inv

(* The end of a transaction leaves no worker with an event.                *)
LEMMA CloseIdle ==
  ASSUME Inv, NEW w \in Workers, wpc[w] # "idle", CloseWorker(w)
  PROVE  \A v \in Workers : wpc'[v] = "idle" /\ creates'[v] # TRUE
<1>0. TypeOK /\ cursorRow = w
  BY Zenon DEF Inv, HasEvent
<1>1. ASSUME NEW v \in Workers, v # w PROVE wpc[v] = "idle" /\ creates[v] # TRUE
  <2>1. wpc[v] = "idle"
    BY <1>0, <1>1, OneWorker, Zenon
  <2> QED
    BY <2>1, Zenon DEF Inv, Costs
<1> QED
  BY <1>0, <1>1, Zenon DEF CloseWorker, TypeOK

(* So does a rollback of a worker, whatever caused it.                     *)
LEMMA RollbackInv ==
  ASSUME Inv, TypeOK', NEW w \in Workers, FailEvent(w) \/ CrashWorker(w)
  PROVE  Inv'
<1>1. /\ UNCHANGED <<pc, seq, nextSeq, cursor, handled, overtaken, costings>>
      /\ wpc[w] # "idle" /\ CloseWorker(w)
  BY Zenon DEF FailEvent, CrashWorker, posting
<1>2. Drawn' /\ Costed' /\ Past' /\ Accounted'
  BY <1>1, Zenon
  DEF Inv, Drawn, Costed, CostedOnce, Past, HandledInOrder, Accounted, Handled, Visible
<1>3. \A v \in Workers : wpc'[v] = "idle" /\ creates'[v] # TRUE
  BY <1>1, CloseIdle, Zenon
<1> QED
  BY <1>2, <1>3, Zenon DEF Inv, Costs

(* The commit of a turn: its event is handled, and what the cursor passed  *)
(* with it is overtaken.                                                   *)
LEMMA CommitInv ==
  ASSUME Inv, TypeOK', NEW w \in Workers, CommitEvent(w)
  PROVE  Inv'
<1> DEFINE e == event[w]
<1>0. TypeOK /\ HasEvent(w) /\ Costs(w)
  BY Zenon DEF Inv, CommitEvent
<1>1. /\ e \in Movements /\ Visible(e) /\ seq[e] > cursor
      /\ \A m \in Movements : cursor < seq[m] /\ seq[m] < seq[e] => m \in unseen[w]
  BY <1>0, Zenon DEF HasEvent
<1>2. /\ UNCHANGED <<pc, seq, nextSeq>> /\ cursor' = seq[e]
      /\ handled' = Append(handled, e) /\ overtaken' = overtaken \cup unseen[w]
      /\ costings' = IF creates[w] THEN [costings EXCEPT ![e] = @ + 1] ELSE costings
      /\ wpc[w] # "idle" /\ CloseWorker(w)
  BY Zenon DEF CommitEvent, CommitEffects, posting
<1>3. creates[w] = TRUE => costings[e] = 0
  BY <1>0, Zenon DEF Costs
<1> HIDE DEF e
<1>4. /\ cursor \in Int /\ nextSeq \in Int
      /\ \A m \in Movements : seq[m] \in Int /\ seq[m] >= 0 /\ costings[m] \in Int
      /\ handled \in Seq(Movements) /\ costings \in [Movements -> Nat] /\ creates[w] \in BOOLEAN
  BY <1>0 DEF TypeOK
<1>5. \A v \in Workers : wpc'[v] = "idle" /\ creates'[v] # TRUE
  BY <1>2, CloseIdle, Zenon
<1>6. Drawn'
  BY <1>1, <1>2, Zenon DEF Inv, Drawn
<1>7. Costed'
  <2>1. ASSUME NEW m \in Movements PROVE costings'[m] <= 1 /\ (~Visible(m) => costings'[m] = 0)
    <3>1. costings[m] <= 1 /\ (~Visible(m) => costings[m] = 0)
      BY Zenon DEF Inv, Costed, CostedOnce
    <3>2. CASE m = e /\ creates[w] = TRUE
      <4>1. costings'[m] = costings[m] + 1 /\ costings[m] = 0
        BY <1>2, <1>3, <1>4, <3>2, Zenon
      <4> QED
        BY <1>1, <3>2, <4>1
    <3>3. CASE m # e \/ creates[w] = FALSE
      <4>1. costings'[m] = costings[m]
        BY <1>2, <1>4, <3>3, Zenon
      <4> QED
        BY <3>1, <4>1, Zenon
    <3> QED
      BY <1>4, <3>2, <3>3, Zenon
  <2> QED
    BY <1>2, <2>1, Zenon DEF Costed, CostedOnce, Visible
<1>8. /\ DOMAIN handled' = 1..(Len(handled) + 1) /\ DOMAIN handled = 1..Len(handled)
      /\ handled'[Len(handled) + 1] = e /\ Len(handled) \in Nat
      /\ \A i \in 1..Len(handled) : handled'[i] = handled[i] /\ handled[i] \in Movements
  BY <1>1, <1>2, <1>4
<1>9. Past'
  <2>1. \A i \in 1..Len(handled) : Visible(handled[i]) /\ seq[handled[i]] <= cursor
    BY <1>8, Zenon DEF Inv, Past
  <2>2. ASSUME NEW i \in 1..(Len(handled) + 1)
        PROVE  Visible(handled'[i]) /\ seq[handled'[i]] <= seq[e]
    <3>1. CASE i \in 1..Len(handled)
      <4>1. /\ handled'[i] = handled[i] /\ Visible(handled[i])
            /\ seq[handled[i]] <= cursor /\ seq[handled[i]] \in Int
        BY <1>4, <1>8, <2>1, <3>1, Zenon
      <4>2. seq[e] \in Int /\ seq[e] > cursor /\ cursor \in Int
        BY <1>1, <1>4, Zenon
      <4>3. seq[handled[i]] <= seq[e]
        BY <4>1, <4>2
      <4> QED
        BY <4>1, <4>3, Zenon
    <3>2. CASE i = Len(handled) + 1
      <4>1. handled'[i] = e /\ Visible(e) /\ seq[e] \in Int
        BY <1>1, <1>4, <1>8, <3>2, Zenon
      <4>2. seq[e] <= seq[e]
        BY <4>1
      <4> QED
        BY <4>1, <4>2, Zenon
    <3> QED
      BY <1>8, <3>1, <3>2
  <2>3. ASSUME NEW i \in 1..(Len(handled) + 1), NEW j \in 1..(Len(handled) + 1), i < j
        PROVE  seq[handled'[i]] < seq[handled'[j]]
    <3>1. i \in 1..Len(handled)
      BY <1>8, <2>3
    <3>2. CASE j \in 1..Len(handled)
      BY <1>8, <2>3, <3>1, <3>2, Zenon DEF Inv, Past, HandledInOrder
    <3>3. CASE j = Len(handled) + 1
      <4>1. seq[handled[i]] <= cursor /\ seq[handled[i]] \in Int /\ handled'[i] = handled[i]
        BY <1>4, <1>8, <2>1, <3>1, Zenon
      <4>2. handled'[j] = e
        BY <1>8, <3>3, Zenon
      <4> QED
        BY <1>1, <1>4, <4>1, <4>2
    <3> QED
      BY <1>8, <3>2, <3>3
  <2> QED
    BY <1>2, <1>8, <2>2, <2>3, Zenon DEF Past, HandledInOrder, Visible
<1>10. Accounted'
  <2>1. ASSUME NEW m \in Movements, seq[m] # 0, seq[m] <= seq[e]
        PROVE  (\E i \in DOMAIN handled' : handled'[i] = m) \/ m \in overtaken'
    <3>1. CASE seq[m] <= cursor
      <4>1. Handled(m) \/ m \in overtaken
        BY <2>1, <3>1, Zenon DEF Inv, Accounted
      <4> QED
        BY <1>2, <1>8, <4>1 DEF Handled
    <3>2. CASE seq[m] = seq[e]
      <4>1. m = e
        BY <1>1, <2>1, <3>2, Zenon DEF Inv, Drawn
      <4> QED
        BY <1>8, <4>1
    <3>3. CASE cursor < seq[m] /\ seq[m] < seq[e]
      BY <1>1, <1>2, <3>3, Zenon
    <3> QED
      BY <1>1, <1>4, <2>1, <3>1, <3>2, <3>3
  <2> QED
    BY <1>2, <2>1, Zenon DEF Accounted, Handled
<1> QED
  BY <1>5, <1>6, <1>7, <1>9, <1>10, Zenon DEF Inv, Costs

(* Every step preserves the invariant.                                     *)
LEMMA InvNext == Inv /\ [Next]_vars => Inv'
<1> SUFFICES ASSUME Inv, [Next]_vars PROVE Inv'
  BY Zenon
<1>0. TypeOK'
  BY TypeNext, Zenon
<1>1. ASSUME NEW m \in Movements, PostingStep(m) PROVE Inv'
  BY <1>0, <1>1, PostingInv, Zenon
<1>2. ASSUME NEW w \in Workers, Fetch(w) \/ TurnStep(w) \/ CrashWorker(w) PROVE Inv'
  BY <1>0, <1>2, FetchInv, TurnInv, CommitInv, RollbackInv, Zenon DEF TurnStep
<1>3. CASE UNCHANGED vars
  BY <1>0, <1>3, Zenon
  DEF vars, posting, consumer, Inv, HasEvent, Costs, Drawn, Costed, CostedOnce, Past,
      HandledInOrder, Accounted, Handled, Visible
<1> QED
  BY <1>1, <1>2, <1>3, Zenon DEF Next

(* The invariant holds in every reachable state.                           *)
LEMMA InvAlways == Spec => []Inv
BY InvInit, InvNext, PTL DEF Spec

(* The invariant contains the properties that the runs check.              *)
LEMMA InvImplies == Inv => TypeOK /\ CostedOnce /\ HandledInOrder /\ OnlyOvertakenSkipped
<1> SUFFICES ASSUME Inv PROVE TypeOK /\ CostedOnce /\ HandledInOrder /\ OnlyOvertakenSkipped
  BY Zenon
<1>1. ASSUME NEW m \in Movements, Visible(m) PROVE seq[m] # 0
  BY <1>1, Zenon DEF Inv, Drawn, Visible
<1> QED
  BY <1>1, Zenon DEF Inv, Costed, Past, Accounted, OnlyOvertakenSkipped

(* However many workers project the log, crash and start again, the cost   *)
(* of a movement is recorded at most once.                                 *)
THEOREM CostsOnce == Spec => []CostedOnce
BY InvAlways, InvImplies, PTL

(* The workers together handle the events in event_seq order, none twice.  *)
THEOREM OrderKept == Spec => []HandledInOrder
BY InvAlways, InvImplies, PTL

(* A committed event at or below the cursor was handled, or its posting    *)
(* committed after a later event had been fetched.                         *)
THEOREM SkipsExplained == Spec => []OnlyOvertakenSkipped
BY InvAlways, InvImplies, PTL

-----------------------------------------------------------------------------
(***************************************************************************)
(* The cost summary.  A posting and a projection each read the layers and  *)
(* write the summary later, so either may overwrite a newer one.  What     *)
(* repairs it is the log: a posting that changed anything leaves an event  *)
(* that is still to be handled, and the projection of the last such event  *)
(* has read every layer there is (Refreshing), or else another event is    *)
(* still outstanding.                                                      *)
(***************************************************************************)

(* A committed movement event that no worker has handled.                  *)
Outstanding(m) == Visible(m) /\ Kind[m] # "other" /\ ~Handled(m)

Repaired == (\A m \in Movements : ~Outstanding(m)) => summary = Layers

(* A projection that has read the layers has read all of them, its own     *)
(* included, or a posting has committed since.                             *)
Current(w) ==
  \/ view[w] = Layers \cup {x \in {event[w]} : creates[w] = TRUE}
  \/ \E m \in Movements \ {event[w]} : Outstanding(m)

Refreshing(w) ==
  /\ wpc[w] = "valued" => Kind[event[w]] # "other"
  /\ itemRow = w <=> wpc[w] = "ready" /\ Kind[event[w]] # "other"
  /\ creates[w] = TRUE => Kind[event[w]] # "other"
  /\ wpc[w] \in {"valued", "ready"} /\ Kind[event[w]] # "other" => Current(w)

(* An event of another type refreshes nothing.                             *)
Bystander(m) ==
  Kind[m] = "other" => pc[m] \notin {"executed", "valued"} /\ itemRow # m

SummaryInv ==
  /\ \A w \in Workers : Refreshing(w)
  /\ \A m \in Movements : Bystander(m)
  /\ Repaired

(* With no cost layer and no posting the summary is current.               *)
LEMMA SummaryInit == Init => SummaryInv
<1> SUFFICES ASSUME Init PROVE SummaryInv
  OBVIOUS
<1>1. \A w \in Workers : Refreshing(w)
  BY EventsAssumption, Zenon DEF Init, Refreshing
<1>2. \A m \in Movements : Bystander(m)
  BY EventsAssumption, Zenon DEF Init, Bystander
<1>3. summary = Layers
  BY DEF Init, Layers
<1> QED
  BY <1>1, <1>2, <1>3, Zenon DEF SummaryInv, Repaired

(* A posting that has not committed was not handled.                       *)
LEMMA HandledVisible ==
  ASSUME Inv, NEW m \in Movements, ~Visible(m)
  PROVE  ~Handled(m)
BY Zenon DEF Inv, Past, Handled

(* The row lock on the item, and what the workers have read, under a step  *)
(* of a posting.                                                           *)
LEMMA PostingRows ==
  ASSUME TypeOK, NEW m \in Movements, PostingStep(m), \A n \in Movements : Bystander(n)
  PROVE  /\ \A w \in Workers : (itemRow' = w <=> itemRow = w) /\ view'[w] = view[w]
         /\ \A n \in Movements : Bystander(n)'
<1>1. \A w \in Workers : w # m /\ w # Nobody /\ w \in Movements \cup Workers
  BY EventsAssumption, Zenon
<1>2. m # Nobody /\ m \in Movements \cup Workers
  BY EventsAssumption, Zenon
<1>3. CASE Execute(m)
  BY <1>3, Zenon DEF Execute, Bystander, TypeOK
<1>4. CASE ValueInPosting(m)
  BY <1>1, <1>4, Zenon DEF ValueInPosting, Bystander, TypeOK
<1>5. CASE WriteInPosting(m)
  BY <1>1, <1>5, Zenon DEF WriteInPosting, Bystander, TypeOK
<1>6. CASE CommitPosting(m) \/ AbortPosting(m)
  <2>1. Release(m) /\ (pc' = [pc EXCEPT ![m] = "done"] \/ pc' = [pc EXCEPT ![m] = "idle"])
    BY <1>6, Zenon DEF CommitPosting, AbortPosting
  <2>2. \A w \in Workers : (itemRow' = w <=> itemRow = w) /\ view'[w] = view[w]
    BY <1>1, <2>1, Zenon DEF Release, TypeOK
  <2>3. \A n \in Movements : n # Nobody
    BY EventsAssumption, Zenon
  <2>4. \A n \in Movements : itemRow' = n => itemRow = n
    BY <2>1, <2>3, Zenon DEF Release
  <2>5. \A n \in Movements : pc'[n] \in {"executed", "valued"} => pc[n] = pc'[n]
    BY <2>1, Zenon DEF TypeOK
  <2> QED
    BY <2>2, <2>4, <2>5, Zenon DEF Bystander
<1> QED
  BY <1>3, <1>4, <1>5, <1>6, Zenon DEF PostingStep

(* A step of a posting leaves the summary repaired or its repair           *)
(* outstanding.                                                            *)
LEMMA PostingSummary ==
  ASSUME Inv, SummaryInv, NEW m \in Movements, PostingStep(m)
  PROVE  SummaryInv'
<1>0. TypeOK /\ PostingFrame(m)
  BY PostingFrames, Zenon DEF Inv
<1>1. /\ \A w \in Workers : (itemRow' = w <=> itemRow = w) /\ view'[w] = view[w]
      /\ \A n \in Movements : Bystander(n)'
  BY <1>0, PostingRows, Zenon DEF SummaryInv
<1>2. UNCHANGED <<wpc, event, creates, handled>>
  BY <1>0, Zenon DEF PostingFrame, consumer
<1>3. ~Visible(m) /\ \A n \in Movements \ {m} : Visible(n)' <=> Visible(n)
  BY <1>0, Zenon DEF PostingFrame, Visible
<1>4. \A n \in Movements : Handled(n)' <=> Handled(n)
  BY <1>2, Zenon DEF Handled
<1>5. \A n \in Movements : Outstanding(n) => n # m /\ Outstanding(n)'
  BY <1>3, <1>4, Zenon DEF Outstanding
<1>6. ~Handled(m)
  BY <1>3, HandledVisible, Zenon
<1>7. CASE CommitPosting(m) /\ Kind[m] # "other"
  <2>1. Outstanding(m)'
    BY <1>0, <1>4, <1>6, <1>7, Zenon DEF Outstanding, Visible, CommitPosting, TypeOK
  <2>2. ASSUME NEW w \in Workers PROVE Refreshing(w)'
    <3>1. Refreshing(w) /\ (wpc[w] # "idle" => event[w] # m)
      BY <1>3, Zenon DEF SummaryInv, Inv, HasEvent
    <3>2. wpc[w] # "idle" => Current(w)'
      BY <1>2, <2>1, <3>1, Zenon DEF Current
    <3> QED
      BY <1>1, <1>2, <3>1, <3>2, Zenon DEF Refreshing
  <2> QED
    BY <1>1, <2>1, <2>2, Zenon DEF SummaryInv, Repaired
<1>8. CASE ~CommitPosting(m) \/ Kind[m] = "other"
  <2>1. costings' = costings /\ summary' = summary
    <3>1. CASE ~CommitPosting(m)
      BY <3>1, Zenon DEF PostingStep, Execute, ValueInPosting, WriteInPosting, AbortPosting
    <3>2. CASE CommitPosting(m) /\ Kind[m] = "other"
      <4>1. itemRow # m
        BY <3>2, Zenon DEF SummaryInv, Bystander
      <4>2. costings \in [Movements -> Nat] /\ costings' = [costings EXCEPT ![m] = @ + 0]
        BY <1>0, <3>2, Zenon DEF CommitPosting, TypeOK
      <4>3. costings' = costings
        BY <4>2
      <4> QED
        BY <3>2, <4>1, <4>3, Zenon DEF CommitPosting
    <3> QED
      BY <1>8, <3>1, <3>2, Zenon
  <2>2. Layers' = Layers
    BY <2>1, Zenon DEF Layers
  <2>3. ASSUME NEW w \in Workers PROVE Refreshing(w)'
    <3>1. Refreshing(w)
      BY Zenon DEF SummaryInv
    <3>2. Current(w) => Current(w)'
      BY <1>1, <1>2, <1>5, <2>2, Zenon DEF Current
    <3> QED
      BY <1>1, <1>2, <3>1, <3>2, Zenon DEF Refreshing
  <2>4. Repaired'
    BY <1>5, <2>1, <2>2, Zenon DEF SummaryInv, Repaired
  <2> QED
    BY <1>1, <2>3, <2>4, Zenon DEF SummaryInv
<1> QED
  BY <1>7, <1>8, Zenon

(* A fetch and the steps of a turn before its end.                         *)
LEMMA TurnSummary ==
  ASSUME Inv, SummaryInv, NEW w \in Workers,
         Fetch(w) \/ SkipEvent(w) \/ Project(w) \/ WriteInProjection(w)
  PROVE  SummaryInv'
<1>0. TypeOK
  BY Zenon DEF Inv
<1>1. /\ UNCHANGED <<pc, costings, summary, handled>>
      /\ \A v \in Workers \ {w} : wpc'[v] = wpc[v] /\ creates'[v] = creates[v]
  BY <1>0 DEF Fetch, SkipEvent, Project, WriteInProjection, posting, TypeOK
<1>2. cursorRow \in {w, Nobody}
  BY Zenon DEF Fetch, SkipEvent, Project, WriteInProjection, Inv, HasEvent
<1>3. Layers' = Layers /\ \A n \in Movements : Outstanding(n)' <=> Outstanding(n)
  BY <1>1, Zenon DEF Layers, Outstanding, Visible, Handled
<1>4. Repaired'
  BY <1>1, <1>3, Zenon DEF SummaryInv, Repaired
<1>5. itemRow' = itemRow \/ itemRow' = w
  BY Zenon DEF Fetch, SkipEvent, Project, WriteInProjection
<1>6. \A n \in Movements : Bystander(n)'
  <2>1. w \notin Movements
    BY EventsAssumption, Zenon
  <2> QED
    BY <1>1, <1>5, <2>1, Zenon DEF SummaryInv, Bystander
<1>7. ASSUME NEW v \in Workers, v # w PROVE Refreshing(v)'
  <2>1. wpc[v] = "idle"
    BY <1>2, <1>7, OneWorker, Zenon
  <2>2. creates[v] # TRUE /\ itemRow # v
    BY <2>1, Zenon DEF Inv, Costs, SummaryInv, Refreshing
  <2> QED
    BY <1>1, <1>5, <1>7, <2>1, <2>2, Zenon DEF Refreshing
<1>8. Refreshing(w)'
  <2>0. Refreshing(w)
    BY Zenon DEF SummaryInv
  <2>1. CASE Fetch(w)
    <3>1. wpc[w] = "idle" /\ wpc'[w] = "fetched" /\ itemRow' = itemRow /\ creates' = creates
      BY <1>0, <2>1, Zenon DEF Fetch, TypeOK
    <3>2. creates[w] # TRUE /\ itemRow # w
      BY <2>0, <3>1, Zenon DEF Inv, Costs, Refreshing
    <3> QED
      BY <3>1, <3>2, Zenon DEF Refreshing
  <2>2. CASE SkipEvent(w)
    <3>1. /\ wpc[w] = "fetched" /\ wpc'[w] = "ready" /\ Kind[event[w]] = "other"
          /\ UNCHANGED <<event, itemRow, creates>>
      BY <1>0, <2>2, Zenon DEF SkipEvent, TypeOK
    <3> QED
      BY <2>0, <3>1, Zenon DEF Refreshing
  <2>3. CASE Project(w)
    <3> DEFINE new == ~HasCostLayerActivity(event[w]) /\ Kind[event[w]] = "uncosted"
    <3>1. /\ wpc[w] = "fetched" /\ wpc'[w] = "valued" /\ Kind[event[w]] # "other"
          /\ UNCHANGED <<event, itemRow>>
      BY <1>0, <2>3, Zenon DEF Project, TypeOK
    <3>2. creates'[w] = new
      BY <1>0, <2>3, Zenon DEF Project, TypeOK
    <3>3. w \in Movements \cup Workers
      BY Zenon
    <3>4. view'[w] = Layers \cup {x \in {event[w]} : new}
      BY <1>0, <2>3, <3>3, Zenon DEF Project, TypeOK
    <3> HIDE DEF new
    <3>5. {x \in {event[w]} : new} = {x \in {event[w]} : creates'[w] = TRUE}
      <4>1. new \in BOOLEAN
        BY Zenon DEF new
      <4> QED
        BY <3>2, <4>1, Zenon
    <3>6. Current(w)'
      BY <1>3, <3>1, <3>4, <3>5, Zenon DEF Current
    <3> QED
      BY <2>0, <3>1, <3>6, Zenon DEF Refreshing
  <2>4. CASE WriteInProjection(w)
    <3>1. /\ wpc[w] = "valued" /\ wpc'[w] = "ready" /\ itemRow' = w
          /\ UNCHANGED <<event, creates, view>>
      BY <1>0, <2>4, Zenon DEF WriteInProjection, TypeOK
    <3>2. Current(w) => Current(w)'
      BY <1>3, <3>1, Zenon DEF Current
    <3> QED
      BY <2>0, <3>1, <3>2, Zenon DEF Refreshing
  <2> QED
    BY <2>1, <2>2, <2>3, <2>4, Zenon
<1> QED
  BY <1>4, <1>6, <1>7, <1>8, Zenon DEF SummaryInv

(* The end of a worker's transaction: the row is free of workers.          *)
LEMMA CloseSummary ==
  ASSUME Inv, SummaryInv, NEW w \in Workers, wpc[w] # "idle", CloseWorker(w), pc' = pc
  PROVE  (\A v \in Workers : Refreshing(v)') /\ \A n \in Movements : Bystander(n)'
<1>1. \A v \in Workers : wpc'[v] = "idle" /\ creates'[v] # TRUE
  BY CloseIdle, Zenon
<1>2. itemRow' = IF itemRow = w THEN Nobody ELSE itemRow
  BY Zenon DEF CloseWorker, Release
<1>3. \A v \in Workers \cup Movements : v # Nobody
  BY EventsAssumption, Zenon
<1>4. ASSUME NEW v \in Workers PROVE itemRow' # v
  <2>1. CASE v = w
    BY <1>2, <1>3, <2>1, Zenon
  <2>2. CASE v # w
    <3>1. wpc[v] = "idle"
      BY <2>2, OneWorker, Zenon DEF Inv, HasEvent
    <3>2. itemRow # v
      BY <3>1, Zenon DEF SummaryInv, Refreshing
    <3> QED
      BY <1>2, <1>3, <3>2, Zenon
  <2> QED
    BY <2>1, <2>2, Zenon
<1>5. \A v \in Workers : Refreshing(v)'
  BY <1>1, <1>4, Zenon DEF Refreshing
<1>6. \A n \in Movements : Bystander(n)'
  BY <1>2, <1>3, Zenon DEF SummaryInv, Bystander
<1> QED
  BY <1>5, <1>6, Zenon

(* The commit of a turn: the projection of the last outstanding event      *)
(* writes all the layers there are.                                        *)
LEMMA CommitSummary ==
  ASSUME Inv, SummaryInv, NEW w \in Workers, CommitEvent(w)
  PROVE  SummaryInv'
<1> DEFINE e == event[w]
<1>0. TypeOK /\ wpc[w] = "ready" /\ Refreshing(w) /\ Costs(w) /\ e \in Movements
  BY Zenon DEF Inv, SummaryInv, CommitEvent, HasEvent
<1>1. /\ CloseWorker(w) /\ pc' = pc
      /\ handled' = Append(handled, e)
      /\ costings' = IF creates[w] THEN [costings EXCEPT ![e] = @ + 1] ELSE costings
      /\ summary' = IF itemRow = w THEN view[w] ELSE summary
  BY Zenon DEF CommitEvent, CommitEffects, posting
<1>2. (\A v \in Workers : Refreshing(v)') /\ \A n \in Movements : Bystander(n)'
  BY <1>0, <1>1, CloseSummary, Zenon
<1>3. \A n \in Movements : Handled(n)' <=> Handled(n) \/ n = e
  <2>1. handled \in Seq(Movements)
    BY <1>0, Zenon DEF TypeOK
  <2>2. /\ DOMAIN handled' = 1..(Len(handled) + 1) /\ DOMAIN handled = 1..Len(handled)
        /\ handled'[Len(handled) + 1] = e /\ Len(handled) \in Nat
        /\ \A i \in 1..Len(handled) : handled'[i] = handled[i]
    BY <1>0, <1>1, <2>1
  <2>3. \A i \in 1..(Len(handled) + 1) : i \in 1..Len(handled) \/ i = Len(handled) + 1
    BY <2>2
  <2>4. Len(handled) + 1 \in 1..(Len(handled) + 1) /\ \A i \in 1..Len(handled) : i \in 1..(Len(handled) + 1)
    BY <2>2
  <2> QED
    BY <2>2, <2>3, <2>4, Zenon DEF Handled
<1>4. \A n \in Movements \ {e} : Outstanding(n) => Outstanding(n)'
  BY <1>1, <1>3, Zenon DEF Outstanding, Visible
<1>5. Layers' = Layers \cup {x \in {e} : creates[w] = TRUE}
  <2>1. costings \in [Movements -> Nat] /\ creates[w] \in BOOLEAN
    BY <1>0, Zenon DEF TypeOK
  <2>2. CASE creates[w] = TRUE
    <3>1. costings' = [costings EXCEPT ![e] = @ + 1]
      BY <1>1, <2>2, Zenon
    <3>2. \A n \in Movements : costings'[n] > 0 <=> costings[n] > 0 \/ n = e
      BY <1>0, <2>1, <3>1
    <3> HIDE DEF e
    <3> QED
      BY <1>0, <2>2, <3>2, Zenon DEF Layers
  <2>3. CASE creates[w] = FALSE
    BY <1>1, <2>3, Zenon DEF Layers
  <2> QED
    BY <2>1, <2>2, <2>3, Zenon
<1>6. Repaired'
  <2>1. SUFFICES ASSUME \A n \in Movements : ~Outstanding(n)' PROVE summary' = Layers'
    BY Zenon DEF Repaired
  <2>2. \A n \in Movements \ {e} : ~Outstanding(n)
    BY <1>4, <2>1, Zenon
  <2>3. CASE Kind[e] = "other"
    <3>1. creates[w] # TRUE /\ itemRow # w
      BY <1>0, <2>3, Zenon DEF Refreshing
    <3>2. ~Outstanding(e)
      BY <2>3, Zenon DEF Outstanding
    <3>3. summary = Layers
      BY <2>2, <3>2, Zenon DEF SummaryInv, Repaired
    <3>4. Layers' = Layers
      BY <1>5, <3>1, Zenon
    <3> QED
      BY <1>1, <3>1, <3>3, <3>4, Zenon
  <2>4. CASE Kind[e] # "other"
    <3>1. itemRow = w /\ Current(w)
      BY <1>0, <2>4, Zenon DEF Refreshing
    <3>2. view[w] = Layers \cup {x \in {e} : creates[w] = TRUE}
      BY <2>2, <3>1, Zenon DEF Current
    <3> QED
      BY <1>1, <1>5, <3>1, <3>2, Zenon
  <2> QED
    BY <2>3, <2>4, Zenon
<1> QED
  BY <1>2, <1>6, Zenon DEF SummaryInv

(* Every step does.                                                        *)
LEMMA SummaryNext == Inv /\ SummaryInv /\ [Next]_vars => SummaryInv'
<1> SUFFICES ASSUME Inv, SummaryInv, [Next]_vars PROVE SummaryInv'
  BY Zenon
<1>1. ASSUME NEW m \in Movements, PostingStep(m) PROVE SummaryInv'
  BY <1>1, PostingSummary, Zenon
<1>2. ASSUME NEW w \in Workers, FailEvent(w) \/ CrashWorker(w) PROVE SummaryInv'
  <2>1. /\ UNCHANGED <<pc, handled, costings, summary>> /\ wpc[w] # "idle" /\ CloseWorker(w)
    BY <1>2, Zenon DEF FailEvent, CrashWorker, posting
  <2>2. (\A v \in Workers : Refreshing(v)') /\ \A n \in Movements : Bystander(n)'
    BY <2>1, CloseSummary, Zenon
  <2>3. Repaired'
    BY <2>1, Zenon DEF SummaryInv, Repaired, Outstanding, Visible, Handled, Layers
  <2> QED
    BY <2>2, <2>3, Zenon DEF SummaryInv
<1>3. ASSUME NEW w \in Workers, Fetch(w) \/ TurnStep(w) \/ CrashWorker(w) PROVE SummaryInv'
  BY <1>2, <1>3, TurnSummary, CommitSummary, Zenon DEF TurnStep
<1>4. CASE UNCHANGED vars
  BY <1>4
  DEF vars, posting, consumer, SummaryInv, Refreshing, Bystander, Repaired, Current,
      Outstanding, Visible, Handled, Layers
<1> QED
  BY <1>1, <1>3, <1>4, Zenon DEF Next

(* Whatever the postings and the projections overwrote, once the log is    *)
(* drained and no event was overtaken the summary accounts for every       *)
(* movement with cost layers.                                              *)
THEOREM SummaryIsRepaired == Spec => []SummaryRepaired
<1>1. Init => Inv /\ SummaryInv
  BY InvInit, SummaryInit, Zenon
<1>2. (Inv /\ SummaryInv) /\ [Next]_vars => (Inv /\ SummaryInv)'
  BY InvNext, SummaryNext, Zenon
<1>3. Inv /\ SummaryInv => SummaryRepaired
  <2> SUFFICES ASSUME Inv, SummaryInv, Drained, overtaken = {} PROVE summary = Layers
    BY Zenon DEF SummaryRepaired
  <2>1. ASSUME NEW m \in Movements, Visible(m) PROVE Handled(m)
    <3>1. seq[m] # 0 /\ seq[m] \in Nat /\ cursor \in Nat /\ ~(seq[m] > cursor)
      BY <2>1, Zenon DEF Inv, Drawn, Visible, TypeOK, Drained, Pending
    <3> QED
      BY <3>1 DEF Inv, Accounted
  <2> QED
    BY <2>1, Zenon DEF SummaryInv, Repaired, Outstanding
<1> QED
  BY <1>1, <1>2, <1>3, PTL DEF Spec
=============================================================================
