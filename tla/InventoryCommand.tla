-------------------------- MODULE InventoryCommand --------------------------
(***************************************************************************)
(* runInventoryCommand: the shell every inventory mutation runs in.  A     *)
(* call opens a transaction (withTransactionRetry), claims its idempotency *)
(* key, locks the rows its lockTargets callback reads, takes the ATP       *)
(* advisory locks in sorted order, executes, finalizes the key and         *)
(* commits; 40001 and 40P01 start the whole closure again while attempts   *)
(* remain.                                                                 *)
(*                                                                         *)
(* A handler is abstracted to the rows it locks and writes: FirstRows in   *)
(* lockTargets, LaterRows in execute and the projection operations.        *)
(* rows[r] counts the committed writes of row r; a write stores the value  *)
(* the transaction read plus one, so a lost update shows in the count.     *)
(* A transaction's locks are those of the prefix of its Plan it has        *)
(* walked; PostgreSQL (external) gives the waiting, the snapshots, the     *)
(* serialization failures and the deadlock detector.                       *)
(***************************************************************************)
EXTENDS Integers, Sequences, FiniteSets, Functions

CONSTANTS
    Calls,         \* calls of runInventoryCommand, repeated requests included
    Keys,          \* idempotency keys
    NoKey,
    KeyOf,         \* the idempotency key of a call, or NoKey
    HashOf,        \* its endpoint and request hash
    Rows,          \* reservations, documents and balances
    FirstRows,     \* the rows lockTargets locks, in order
    AtpTargets,    \* the ATP targets lockTargets returns, in its order
    LaterRows,     \* the rows execute and its projection operations lock, in order
    Retries,       \* retryOptions.retries
    Serializable   \* retryOptions.isolationLevel is SERIALIZABLE, else READ COMMITTED

ASSUME CommandAssumption ==
    /\ IsFiniteSet(Calls)
    /\ NoKey \notin Keys
    /\ KeyOf \in [Calls -> Keys \cup {NoKey}]
    /\ FirstRows \in [Calls -> Seq(Rows)]
    /\ AtpTargets \in [Calls -> Seq(Nat)]
    /\ LaterRows \in [Calls -> Seq(Rows)]
    /\ Retries \in [Calls -> Nat]
    /\ Serializable \in [Calls -> BOOLEAN]
    /\ Calls \cap {"none", "error"} = {}

VARIABLES
    idem,      \* idempotency_keys: the call whose claim of the key is committed, or "none"
    rows,      \* committed writes of each row
    pc,        \* where a call is: idle, claiming, locking, replaying, done
    pos,       \* the next lock of its Plan
    attempt,   \* restarts so far
    snapshot,  \* the tables as its open transaction's snapshot has them
    effect,    \* whether the call's own execution has committed
    answer     \* "none", "error", or the call whose response body was returned

vars == <<idem, rows, pc, pos, attempt, snapshot, effect, answer>>

EmptyTables == [idem |-> [k \in Keys |-> "none"], rows |-> [r \in Rows |-> 0]]

-----------------------------------------------------------------------------
(* Locks                                                                   *)

(* Seeded fault: the targets are locked as the handler lists them.          *)
UnsortedAtpLocks == AtpTargets

(* The i-th smallest element of a set of numbers.                          *)
IthSmallest(S, i) == CHOOSE x \in S : Cardinality({y \in S : y < x}) = i - 1

(* buildAtpLockKeys and the ORDER BY of acquireAtpLocks: no duplicates, in  *)
(* ascending order.                                                        *)
AtpLocks ==
    [c \in Calls |->
        [i \in 1..Cardinality(Range(AtpTargets[c])) |-> IthSmallest(Range(AtpTargets[c]), i)]]

Locks(kind, s) == [i \in DOMAIN s |-> <<kind, s[i]>>]

(* The locks a call takes after its claim, in order.                       *)
Plan ==
    [c \in Calls |->
        Locks("row", FirstRows[c]) \o Locks("atp", AtpLocks[c]) \o Locks("row", LaterRows[c])]

Written == [c \in Calls |-> Range(FirstRows[c]) \cup Range(LaterRows[c])]

Running(c) == pc[c] \in {"claiming", "locking", "replaying"}

KeyLock(c) == <<"key", KeyOf[c]>>

(* All locks are held to the end of the transaction.                       *)
Holds(c) ==
    {Plan[c][i] : i \in 1..(pos[c] - 1)}
        \cup {l \in {KeyLock(c)} : KeyOf[c] # NoKey /\ pc[c] \in {"locking", "replaying"}}

(* The lock a call is about to take: none, or one.                         *)
Wants(c) ==
    {l \in {KeyLock(c)} : pc[c] = "claiming"}
        \cup {Plan[c][i] : i \in {i \in {pos[c]} : pc[c] = "locking" /\ i <= Len(Plan[c])}}

WaitsFor(c, d) == c # d /\ Wants(c) \cap Holds(d) # {}

Blocked(c) == \E d \in Calls : WaitsFor(c, d)

(* c waits for a call that waits ... for c: a call wants at most one lock,  *)
(* so calls of which each waits for one and is waited for by one go round. *)
InWaitCycle(c) ==
    \E S \in SUBSET Calls :
        /\ c \in S
        /\ \A d \in S : (\E e \in S : WaitsFor(d, e)) /\ (\E e \in S : WaitsFor(e, d))

-----------------------------------------------------------------------------
(* withTransactionRetry                                                    *)

(* BEGIN and the first statement, which takes the snapshot and which runs  *)
(* before any lock is waited for.                                          *)
Begin(c) ==
    /\ pc[c] = "idle"
    /\ pc' = [pc EXCEPT ![c] = IF KeyOf[c] = NoKey THEN "locking" ELSE "claiming"]
    /\ snapshot' = [snapshot EXCEPT ![c] = [idem |-> idem, rows |-> rows]]
    /\ UNCHANGED <<idem, rows, pos, attempt, effect, answer>>

(* The transaction is over: its locks and its snapshot are released.       *)
Close(c, next) ==
    /\ pc' = [pc EXCEPT ![c] = next]
    /\ pos' = [pos EXCEPT ![c] = 1]
    /\ snapshot' = [snapshot EXCEPT ![c] = EmptyTables]

(* The call returns answer a.                                              *)
End(c, a) ==
    /\ Close(c, "done")
    /\ answer' = [answer EXCEPT ![c] = a]
    /\ UNCHANGED attempt

(* ROLLBACK with an error that is not retried: one the handler throws, a   *)
(* lock timeout, a lost connection, a crash of the process.                *)
Throw(c) == End(c, "error") /\ UNCHANGED <<idem, rows, effect>>

(* Seeded fault: the attempt is not counted.                                *)
RetryForever(c) ==
    /\ Close(c, "idle")
    /\ UNCHANGED <<idem, rows, attempt, effect, answer>>

(* Seeded fault: one attempt too many.                                      *)
RetryOnceMore(c) ==
    IF attempt[c] <= Retries[c]
    THEN /\ Close(c, "idle")
         /\ attempt' = [attempt EXCEPT ![c] = @ + 1]
         /\ UNCHANGED <<idem, rows, effect, answer>>
    ELSE Throw(c)

(* Seeded fault: the failed attempt is committed before the next one.       *)
RetryWithoutRollback(c) ==
    IF attempt[c] < Retries[c]
    THEN /\ Close(c, "idle")
         /\ attempt' = [attempt EXCEPT ![c] = @ + 1]
         /\ rows' = [r \in Rows |-> IF <<"row", r>> \in Holds(c) THEN rows[r] + 1 ELSE rows[r]]
         /\ UNCHANGED <<idem, effect, answer>>
    ELSE Throw(c)

(* ROLLBACK on 40001 or 40P01: again, or TX_RETRY_EXHAUSTED.               *)
Retry(c) ==
    IF attempt[c] < Retries[c]
    THEN /\ Close(c, "idle")
         /\ attempt' = [attempt EXCEPT ![c] = @ + 1]
         /\ UNCHANGED <<idem, rows, effect, answer>>
    ELSE Throw(c)

Fail(c) == Running(c) /\ Throw(c)

(* PostgreSQL may fail a SERIALIZABLE transaction at any statement.        *)
SerializationFailure(c) ==
    /\ Running(c)
    /\ Serializable[c]
    /\ Retry(c)

DeadlockVictim(c) == InWaitCycle(c) /\ Retry(c)

-----------------------------------------------------------------------------
(* claimTransactionalIdempotency and the replay                            *)

(* INSERT ... ON CONFLICT DO NOTHING waits for an uncommitted claim, and    *)
(* inserts when there is no committed one.                                 *)
ClaimKey(c) ==
    /\ pc[c] = "claiming"
    /\ ~Blocked(c)
    /\ idem[KeyOf[c]] = "none"
    /\ pc' = [pc EXCEPT ![c] = "locking"]
    /\ UNCHANGED <<idem, rows, pos, attempt, snapshot, effect, answer>>

(* Seeded fault: the claim looks at the key alone.                          *)
ReplayClaimWithoutHash(c) ==
    /\ pc[c] = "claiming"
    /\ ~Blocked(c)
    /\ idem[KeyOf[c]] # "none"
    /\ pc' = [pc EXCEPT ![c] = "replaying"]
    /\ UNCHANGED <<idem, rows, pos, attempt, snapshot, effect, answer>>

(* The key is committed: the conflicting row is invisible to a snapshot    *)
(* that is older (40001), belongs to another request, or is replayed.      *)
FindKeyTaken(c) ==
    /\ pc[c] = "claiming"
    /\ ~Blocked(c)
    /\ idem[KeyOf[c]] # "none"
    /\ IF Serializable[c] /\ snapshot[c].idem[KeyOf[c]] = "none" THEN Retry(c)
       ELSE IF HashOf[idem[KeyOf[c]]] # HashOf[c] THEN Throw(c)
       ELSE /\ pc' = [pc EXCEPT ![c] = "replaying"]
            /\ UNCHANGED <<idem, rows, pos, attempt, snapshot, effect, answer>>

(* COMMIT of a replay: the caller gets the recorded response, or the       *)
(* connection is lost before it does.                                      *)
CommitReplay(c) ==
    /\ pc[c] = "replaying"
    /\ End(c, idem[KeyOf[c]])
    /\ UNCHANGED <<idem, rows, effect>>

-----------------------------------------------------------------------------
(* lockTargets, acquireAtpLocks, execute, projection operations            *)

(* The row has been written since the snapshot was taken: first updater     *)
(* wins, PostgreSQL answers 40001.                                         *)
Stale(c, l) == l[1] = "row" /\ Serializable[c] /\ rows[l[2]] # snapshot[c].rows[l[2]]

TakeLock(c) ==
    /\ pc[c] = "locking"
    /\ pos[c] <= Len(Plan[c])
    /\ ~Blocked(c)
    /\ IF Stale(c, Plan[c][pos[c]]) THEN Retry(c)
       ELSE /\ pos' = [pos EXCEPT ![c] = @ + 1]
            /\ UNCHANGED <<idem, rows, pc, attempt, snapshot, effect, answer>>

(* What the transaction sees in row r once it holds it.                    *)
Seen(c, r) == IF Serializable[c] THEN snapshot[c].rows[r] ELSE rows[r]

(* The handler's writes, finalizeTransactionalIdempotency and COMMIT; the   *)
(* connection may be lost after it, and the caller is told of an error.    *)
Commit(c) ==
    /\ pc[c] = "locking"
    /\ pos[c] = Len(Plan[c]) + 1
    /\ rows' = [r \in Rows |-> IF r \in Written[c] THEN Seen(c, r) + 1 ELSE rows[r]]
    /\ idem' = [k \in Keys |-> IF k = KeyOf[c] THEN c ELSE idem[k]]
    /\ effect' = [effect EXCEPT ![c] = TRUE]
    /\ \E a \in {c, "error"} : End(c, a)

-----------------------------------------------------------------------------

Init ==
    /\ idem = EmptyTables.idem
    /\ rows = EmptyTables.rows
    /\ pc = [c \in Calls |-> "idle"]
    /\ pos = [c \in Calls |-> 1]
    /\ attempt = [c \in Calls |-> 0]
    /\ snapshot = [c \in Calls |-> EmptyTables]
    /\ effect = [c \in Calls |-> FALSE]
    /\ answer = [c \in Calls |-> "none"]

Next ==
    \E c \in Calls :
        \/ Begin(c)
        \/ ClaimKey(c)
        \/ FindKeyTaken(c)
        \/ CommitReplay(c)
        \/ TakeLock(c)
        \/ Commit(c)
        \/ Fail(c)
        \/ SerializationFailure(c)
        \/ DeadlockVictim(c)

Spec == Init /\ [][Next]_vars

-----------------------------------------------------------------------------
(* Properties                                                              *)

(* The tables and the state of every call have their types: a call walks   *)
(* its Plan and no further, is never attempted more than retries + 1       *)
(* times, and claims or replays only with a key.                           *)
TypeOK ==
    /\ idem \in [Keys -> Calls \cup {"none"}]
    /\ rows \in [Rows -> Nat]
    /\ pc \in [Calls -> {"idle", "claiming", "locking", "replaying", "done"}]
    /\ \A c \in Calls : pc[c] \in {"claiming", "replaying"} => KeyOf[c] \in Keys
    /\ pos \in [Calls -> Nat \ {0}]
    /\ \A c \in Calls : pos[c] <= Len(Plan[c]) + 1
    /\ attempt \in [Calls -> Nat]
    /\ \A c \in Calls : attempt[c] <= Retries[c]
    /\ snapshot \in [Calls -> [idem: [Keys -> Calls \cup {"none"}], rows: [Rows -> Nat]]]
    /\ effect \in [Calls -> BOOLEAN]
    /\ answer \in [Calls -> Calls \cup {"none", "error"}]

Applied == {c \in Calls : effect[c]}

(* Every execution that committed wrote every one of its rows, on top of   *)
(* the writes committed before it: none is lost to a stale snapshot, none  *)
(* is left behind by an attempt that was rolled back.                      *)
NoLostUpdate ==
    \A r \in Rows : rows[r] = Cardinality({c \in Applied : r \in Written[c]})

Once == INSTANCE OnceOnly WITH applied <- Applied

(* Retried, repeated, refused and interrupted calls together behave like    *)
(* the once-only specification: one effect per idempotency key, and every  *)
(* answer is the response of the execution that took effect.               *)
ImplementsOnceOnly == Once!Spec

(* The rows of call d that no ATP lock keeps c away from: those d locks in *)
(* lockTargets, before its ATP targets, and when the two have no target in *)
(* common (an item's row, for calls in two warehouses) the later ones too. *)
UnguardedRows(c, d) ==
    Range(FirstRows[d]) \cup
        {r \in Range(LaterRows[d]) : Range(AtpTargets[c]) \cap Range(AtpTargets[d]) = {}}

(* Every circle of waiting calls goes through an unguarded row: sorted ATP *)
(* locks and the rows taken under a common one never deadlock by           *)
(* themselves, in whatever order the handlers list and write them.         *)
CyclesNeedUnguardedRow ==
    \A S \in (SUBSET Calls) \ {{}} :
        (\A c \in S : \E d \in S : WaitsFor(c, d)) =>
            \E c, d \in S :
                c # d /\ \E r \in UnguardedRows(c, d) : <<"row", r>> \in Wants(c) \cap Holds(d)

(* A transaction that runs takes its next step when nothing blocks it, a   *)
(* retry follows its backoff sleep, and the deadlock detector runs.        *)
Fairness ==
    /\ \A c \in Calls :
         WF_vars((attempt[c] > 0 /\ Begin(c)) \/ ClaimKey(c) \/ FindKeyTaken(c)
                    \/ CommitReplay(c) \/ TakeLock(c) \/ Commit(c))
    /\ WF_vars(\E c \in Calls : DeadlockVictim(c))

FairSpec == Spec /\ Fairness

(* Every call that starts returns: retries are bounded and no lock is       *)
(* waited for forever.                                                     *)
EveryCallEnds ==
    \A c \in Calls : pc[c] \in {"claiming", "locking", "replaying"} ~> pc[c] = "done"
=============================================================================
