--------------------------- MODULE InventoryEvents ---------------------------
(***************************************************************************)
(* The inventory event log and its consumer.  A posting transaction        *)
(* (runInventoryCommand, READ COMMITTED, as receipts and putaways run)     *)
(* inserts its event, whose event_seq comes from a sequence at the insert  *)
(* and which others see from the commit on; then it refreshes the cost     *)
(* summary of the item and commits.  Workers run processInventoryEventBatch*)
(* for the consumer 'inventory-projector': lock the cursor row, take the   *)
(* next visible event, project it, move the cursor, commit.                *)
(*                                                                         *)
(* All movements are of one item.  items.average_cost is abstracted to the *)
(* set of movements whose cost layers it was computed from; the row lock   *)
(* on items that the refresh's UPDATE takes is kept to the commit.         *)
(***************************************************************************)
EXTENDS Integers, Sequences, FiniteSets

CONSTANTS
    Movements,   \* posting commands, one event each
    Kind,        \* what the event is to the projector, see Kinds
    Workers,     \* outbox workers: job concurrency, instances, the admin route
    Nobody,
    MaxSeq,      \* bound: event_seq values drawn, those of aborted postings included
    MaxCrashes   \* bound: workers lost while a transaction is open

(* "costed": the posting itself created or consumed cost layers (or the    *)
(* movement is a transfer).  "uncosted": the projector does it.            *)
(* "forbidden": a work-order movement without cost activity, or a type     *)
(* sourceTypeForMovement does not know.  "other": not a movement event.    *)
Kinds == {"costed", "uncosted", "forbidden", "other"}

ASSUME EventsAssumption ==
    /\ IsFiniteSet(Movements)
    /\ Kind \in [Movements -> Kinds]
    /\ Nobody \notin Movements \cup Workers
    /\ Movements \cap Workers = {}
    /\ MaxSeq \in Nat /\ MaxCrashes \in Nat

VARIABLES
    pc,        \* of a posting: idle, executed, valued, ready, done
    seq,       \* its event's event_seq, 0 before the insert
    nextSeq,   \* the bigserial
    costings,  \* committed: how often cost activity was recorded for a movement
    summary,   \* committed items.average_cost: the movements it accounts for
    itemRow,   \* holder of the row lock on items
    view,      \* the valuation an open transaction has read
    cursor,    \* committed last_event_seq
    cursorRow, \* holder of the row lock on inventory_event_consumers
    wpc,       \* of a worker: idle, fetched, valued, ready
    event,     \* the event it is handling
    creates,   \* whether its open transaction has recorded cost activity
    handled,   \* history: the events whose handling has committed, in order
    unseen,    \* history: the events before it that were not visible at its fetch
    overtaken, \* history: the movements whose event the cursor passed that way
    crashes

posting == <<pc, seq, nextSeq>>
consumer == <<cursor, cursorRow, wpc, event, creates, handled, unseen, overtaken, crashes>>
vars == <<posting, consumer, costings, summary, itemRow, view>>

Layers == {m \in Movements : costings[m] > 0}

Visible(m) == pc[m] = "done"

-----------------------------------------------------------------------------
(* Posting                                                                 *)

(* execute, then appendInventoryEvent: the INSERT draws the event_seq.     *)
Execute(m) ==
    /\ pc[m] = "idle"
    /\ nextSeq <= MaxSeq
    /\ pc' = [pc EXCEPT ![m] = IF Kind[m] = "other" THEN "ready" ELSE "executed"]
    /\ seq' = [seq EXCEPT ![m] = nextSeq]
    /\ nextSeq' = nextSeq + 1
    /\ UNCHANGED <<consumer, costings, summary, itemRow, view>>

(* The projection operation's valuation SELECT: what is committed, and the *)
(* transaction's own layers.                                               *)
ValueInPosting(m) ==
    /\ pc[m] = "executed"
    /\ pc' = [pc EXCEPT ![m] = "valued"]
    /\ view' = [view EXCEPT ![m] = Layers \cup {x \in {m} : Kind[m] = "costed"}]
    /\ UNCHANGED <<seq, nextSeq, consumer, costings, summary, itemRow>>

(* Its UPDATE items, which waits for the row.                              *)
WriteInPosting(m) ==
    /\ pc[m] = "valued"
    /\ itemRow = Nobody
    /\ pc' = [pc EXCEPT ![m] = "ready"]
    /\ itemRow' = m
    /\ UNCHANGED <<seq, nextSeq, consumer, costings, summary, view>>

(* What every end of a transaction gives up.                               *)
Release(holder) ==
    /\ itemRow' = IF itemRow = holder THEN Nobody ELSE itemRow
    /\ view' = [view EXCEPT ![holder] = {}]

CommitPosting(m) ==
    /\ pc[m] = "ready"
    /\ pc' = [pc EXCEPT ![m] = "done"]
    /\ costings' = [costings EXCEPT ![m] = @ + IF Kind[m] = "costed" THEN 1 ELSE 0]
    /\ summary' = IF itemRow = m THEN view[m] ELSE summary
    /\ Release(m)
    /\ UNCHANGED <<seq, nextSeq, consumer>>

(* ROLLBACK: the event_seq is not given back; the request may come again.  *)
AbortPosting(m) ==
    /\ pc[m] \in {"executed", "valued", "ready"}
    /\ pc' = [pc EXCEPT ![m] = "idle"]
    /\ seq' = [seq EXCEPT ![m] = 0]
    /\ Release(m)
    /\ UNCHANGED <<nextSeq, consumer, costings, summary>>

-----------------------------------------------------------------------------
(* processInventoryEventBatch, one turn of its loop                        *)

Pending == {m \in Movements : Visible(m) /\ seq[m] > cursor}

NextEvent(m) == m \in Pending /\ \A n \in Pending : seq[m] <= seq[n]

Take(w, m) ==
    /\ event' = [event EXCEPT ![w] = m]
    /\ unseen' = [unseen EXCEPT ![w] =
                     {n \in Movements : ~Visible(n) /\ seq[n] \in 1..(seq[m] - 1)}]

(* Seeded fault: the cursor row is read without FOR UPDATE.                *)
FetchWithoutLock(w) ==
    /\ wpc[w] = "idle"
    /\ wpc' = [wpc EXCEPT ![w] = "fetched"]
    /\ cursorRow' = w
    /\ \E m \in Movements : NextEvent(m) /\ Take(w, m)
    /\ UNCHANGED <<posting, cursor, creates, handled, overtaken, crashes,
                   costings, summary, itemRow, view>>

(* Seeded fault: the next event is any event above the cursor.             *)
FetchUnordered(w) ==
    /\ wpc[w] = "idle"
    /\ cursorRow = Nobody
    /\ wpc' = [wpc EXCEPT ![w] = "fetched"]
    /\ cursorRow' = w
    /\ \E m \in Pending : Take(w, m)
    /\ UNCHANGED <<posting, cursor, creates, handled, overtaken, crashes,
                   costings, summary, itemRow, view>>

(* Lock the cursor row, read it, and select the first event above it.      *)
(* With nothing to select the transaction commits and changes nothing.     *)
Fetch(w) ==
    /\ wpc[w] = "idle"
    /\ cursorRow = Nobody
    /\ wpc' = [wpc EXCEPT ![w] = "fetched"]
    /\ cursorRow' = w
    /\ \E m \in Movements : NextEvent(m) /\ Take(w, m)
    /\ UNCHANGED <<posting, cursor, creates, handled, overtaken, crashes,
                   costings, summary, itemRow, view>>

(* processOutboxBatch's handler ignores other event types.                 *)
SkipEvent(w) ==
    /\ wpc[w] = "fetched"
    /\ Kind[event[w]] = "other"
    /\ wpc' = [wpc EXCEPT ![w] = "ready"]
    /\ UNCHANGED <<posting, cursor, cursorRow, event, creates, handled, unseen,
                   overtaken, crashes, costings, summary, itemRow, view>>

HasCostLayerActivity(m) == costings[m] > 0

(* Seeded fault: a movement that has its costs is not projected further.   *)
ProjectUncosted(w) ==
    LET m == event[w]
        new == ~HasCostLayerActivity(m) /\ Kind[m] = "uncosted"
    IN  /\ wpc[w] = "fetched"
        /\ Kind[m] \in {"costed", "uncosted"}
        /\ wpc' = [wpc EXCEPT ![w] = IF new THEN "valued" ELSE "ready"]
        /\ creates' = [creates EXCEPT ![w] = new]
        /\ view' = [view EXCEPT ![w] = Layers \cup {x \in {m} : new}]
        /\ UNCHANGED <<posting, cursor, cursorRow, event, handled, unseen,
                       overtaken, crashes, costings, summary, itemRow>>

(* projectInventoryMovement up to the valuation SELECT of the refresh.     *)
Project(w) ==
    LET m == event[w]
        new == ~HasCostLayerActivity(m) /\ Kind[m] = "uncosted"
    IN  /\ wpc[w] = "fetched"
        /\ Kind[m] \in {"costed", "uncosted"}
        /\ wpc' = [wpc EXCEPT ![w] = "valued"]
        /\ creates' = [creates EXCEPT ![w] = new]
        /\ view' = [view EXCEPT ![w] = Layers \cup {x \in {m} : new}]
        /\ UNCHANGED <<posting, cursor, cursorRow, event, handled, unseen,
                       overtaken, crashes, costings, summary, itemRow>>

(* The refresh's UPDATE items.                                             *)
WriteInProjection(w) ==
    /\ wpc[w] = "valued"
    /\ itemRow = Nobody
    /\ wpc' = [wpc EXCEPT ![w] = "ready"]
    /\ itemRow' = w
    /\ UNCHANGED <<posting, cursor, cursorRow, event, creates, handled, unseen,
                   overtaken, crashes, costings, summary, view>>

(* The end of a worker's transaction.                                      *)
CloseWorker(w) ==
    /\ wpc' = [wpc EXCEPT ![w] = "idle"]
    /\ cursorRow' = IF cursorRow = w THEN Nobody ELSE cursorRow
    /\ event' = [event EXCEPT ![w] = Nobody]
    /\ creates' = [creates EXCEPT ![w] = FALSE]
    /\ unseen' = [unseen EXCEPT ![w] = {}]
    /\ Release(w)

CommitEffects(w) ==
    /\ costings' = IF creates[w] THEN [costings EXCEPT ![event[w]] = @ + 1] ELSE costings
    /\ summary' = IF itemRow = w THEN view[w] ELSE summary
    /\ handled' = Append(handled, event[w])
    /\ overtaken' = overtaken \cup unseen[w]

(* UPDATE of the cursor and COMMIT.                                        *)
CommitEvent(w) ==
    /\ wpc[w] = "ready"
    /\ CommitEffects(w)
    /\ cursor' = seq[event[w]]
    /\ CloseWorker(w)
    /\ UNCHANGED <<posting, crashes>>

(* Seeded fault: the failed transaction is left open.                      *)
FailWithoutRollback(w) ==
    /\ wpc[w] = "fetched"
    /\ Kind[event[w]] = "forbidden"
    /\ ~HasCostLayerActivity(event[w])
    /\ wpc' = [wpc EXCEPT ![w] = "idle"]
    /\ UNCHANGED <<posting, cursor, cursorRow, event, creates, handled, unseen,
                   overtaken, crashes, costings, summary, itemRow, view>>

(* The handler throws: ROLLBACK, and the job runs again later.             *)
FailEvent(w) ==
    /\ wpc[w] = "fetched"
    /\ Kind[event[w]] = "forbidden"
    /\ ~HasCostLayerActivity(event[w])
    /\ CloseWorker(w)
    /\ UNCHANGED <<posting, cursor, handled, overtaken, crashes, costings, summary>>

(* The process or its connection is lost: PostgreSQL rolls back.           *)
CrashWorker(w) ==
    /\ wpc[w] # "idle"
    /\ crashes < MaxCrashes
    /\ crashes' = crashes + 1
    /\ CloseWorker(w)
    /\ UNCHANGED <<posting, cursor, handled, overtaken, costings, summary>>

-----------------------------------------------------------------------------
Init ==
    /\ pc = [m \in Movements |-> "idle"]
    /\ seq = [m \in Movements |-> 0]
    /\ nextSeq = 1
    /\ costings = [m \in Movements |-> 0]
    /\ summary = {}
    /\ itemRow = Nobody
    /\ view = [x \in Movements \cup Workers |-> {}]
    /\ cursor = 0
    /\ cursorRow = Nobody
    /\ wpc = [w \in Workers |-> "idle"]
    /\ event = [w \in Workers |-> Nobody]
    /\ creates = [w \in Workers |-> FALSE]
    /\ handled = << >>
    /\ unseen = [w \in Workers |-> {}]
    /\ overtaken = {}
    /\ crashes = 0

PostingStep(m) ==
    \/ Execute(m) \/ ValueInPosting(m) \/ WriteInPosting(m)
    \/ CommitPosting(m) \/ AbortPosting(m)

TurnStep(w) ==
    \/ SkipEvent(w) \/ Project(w) \/ WriteInProjection(w)
    \/ CommitEvent(w) \/ FailEvent(w)

Next ==
    \/ \E m \in Movements : PostingStep(m)
    \/ \E w \in Workers : Fetch(w) \/ TurnStep(w) \/ CrashWorker(w)

Spec == Init /\ [][Next]_vars

(* The job repeats every OUTBOX_POLL_INTERVAL_MS, and its attempts again   *)
(* after an error; a transaction that is open and not blocked goes on.     *)
Fairness ==
    /\ WF_vars(\E w \in Workers : Fetch(w))
    /\ \A w \in Workers : WF_vars(TurnStep(w))
    /\ \A m \in Movements : WF_vars(PostingStep(m) /\ pc[m] # "idle")

FairSpec == Spec /\ Fairness

-----------------------------------------------------------------------------
(* Properties                                                              *)

(* The log, the cursor and the open transactions have their types.         *)
TypeOK ==
    /\ pc \in [Movements -> {"idle", "executed", "valued", "ready", "done"}]
    /\ seq \in [Movements -> Nat]
    /\ nextSeq \in Nat \ {0}
    /\ costings \in [Movements -> Nat]
    /\ summary \subseteq Movements
    /\ itemRow \in Movements \cup Workers \cup {Nobody}
    /\ view \in [Movements \cup Workers -> SUBSET Movements]
    /\ cursor \in Nat
    /\ cursorRow \in Workers \cup {Nobody}
    /\ wpc \in [Workers -> {"idle", "fetched", "valued", "ready"}]
    /\ event \in [Workers -> Movements \cup {Nobody}]
    /\ creates \in [Workers -> BOOLEAN]
    /\ handled \in Seq(Movements)
    /\ unseen \in [Workers -> SUBSET Movements]
    /\ overtaken \subseteq Movements
    /\ crashes \in Nat

Handled(m) == \E i \in DOMAIN handled : handled[i] = m

(* No movement is costed twice, however many workers run, crash and retry: *)
(* hasCostLayerActivity and the creation of the layers are in the          *)
(* transaction that holds the cursor row.                                  *)
CostedOnce == \A m \in Movements : costings[m] <= 1

(* Events are handled in the order of event_seq, and none twice.           *)
HandledInOrder ==
    \A i, j \in DOMAIN handled : i < j => seq[handled[i]] < seq[handled[j]]

(* The only events the cursor passes unhandled are those whose posting     *)
(* had drawn its event_seq and had not committed when a later event was    *)
(* handled.                                                                *)
OnlyOvertakenSkipped ==
    \A m \in Movements :
        Visible(m) /\ seq[m] <= cursor => Handled(m) \/ m \in overtaken

(* No transaction is open, and the log holds nothing above the cursor.     *)
Drained ==
    /\ \A m \in Movements : pc[m] \in {"idle", "done"}
    /\ \A w \in Workers : wpc[w] = "idle"
    /\ Pending = {}

(* A refresh writes a valuation that may be older than the row it          *)
(* overwrites; the projection of each event repairs that, so that once the *)
(* log is drained without a skipped event the summary accounts for every   *)
(* movement with cost layers.                                              *)
SummaryRepaired == Drained /\ overtaken = {} => summary = Layers

(* The projector's comment: the summaries must be rebuilt from the         *)
(* authoritative state after movement events.                              *)
SummaryRebuilt == Drained => summary = Layers

(* Every committed event is handled in the end, unless it was overtaken or *)
(* an event before it is one the projector refuses.                        *)
EventsHandled ==
    \A m \in Movements :
        Visible(m) ~>
            \/ Handled(m)
            \/ m \in overtaken
            \/ \E n \in Pending : Kind[n] = "forbidden" /\ seq[n] <= seq[m]
=============================================================================
