----------------------- MODULE InventoryCommandProofs -----------------------
(***************************************************************************)
(* runInventoryCommand is once-only and loses no update, whatever the      *)
(* calls, their keys, rows, lock targets, isolation levels and retries.    *)
(***************************************************************************)
EXTENDS InventoryCommand, FiniteSetTheorems, TLAPS

-----------------------------------------------------------------------------
(* Type correctness                                                        *)

(* The locks of one kind form a sequence as long as the list they are made of. *)
LEMMA LocksAreSeq ==
    ASSUME NEW T, NEW s \in Seq(T), NEW kind
    PROVE  /\ Locks(kind, s) \in Seq({kind} \X T)
           /\ Len(Locks(kind, s)) = Len(s)
           /\ \A i \in 1..Len(s) : Locks(kind, s)[i] = <<kind, s[i]>>
BY DEF Locks

(* The locks on a sequence of rows are that sequence, row by row.          *)
LEMMA RowLocksAreSeq ==
    \A s \in Seq(Rows) :
        /\ Locks("row", s) \in Seq({"row"} \X Rows)
        /\ Len(Locks("row", s)) = Len(s)
        /\ \A i \in 1..Len(s) : Locks("row", s)[i] = <<"row", s[i]>>
BY DEF Locks

(* AtpLocks is a sequence whatever the targets.                            *)
LEMMA AtpLocksAreSeq ==
    ASSUME NEW c \in Calls
    PROVE  \E T : AtpLocks[c] \in Seq(T)
<1> DEFINE S == Range(AtpTargets[c])
           n == Cardinality(S)
<1>1. AtpTargets[c] \in Seq(Nat)
  BY CommandAssumption, Zenon
<1>2. IsFiniteSet(S)
  <2>1. AtpTargets[c] \in Surjection(1..Len(AtpTargets[c]), S)
    BY <1>1 DEF Range, Surjection
  <2>2. IsFiniteSet(1..Len(AtpTargets[c]))
    BY <1>1, FS_Interval
  <2> QED
    BY <2>1, <2>2, FS_Surjection
<1>3. n \in Nat
  BY <1>2, FS_CardinalityType, Zenon
<1>4. AtpLocks[c] = [i \in 1..n |-> IthSmallest(S, i)]
  BY Zenon DEF AtpLocks
<1> HIDE DEF n, S
<1>5. AtpLocks[c] \in Seq({IthSmallest(S, i) : i \in 1..n})
  BY <1>3, <1>4
<1> QED
  BY <1>5, Zenon

(* The Plan of a call is a sequence, and has every row the call writes.    *)
LEMMA PlanShape ==
    ASSUME NEW c \in Calls
    PROVE  /\ Len(Plan[c]) \in Nat
           /\ DOMAIN Plan[c] = 1..Len(Plan[c])
           /\ \A r \in Written[c] : \E i \in 1..Len(Plan[c]) : Plan[c][i] = <<"row", r>>
<1>1. PICK T : AtpLocks[c] \in Seq(T)
  BY AtpLocksAreSeq, Zenon
<1>2. FirstRows[c] \in Seq(Rows) /\ LaterRows[c] \in Seq(Rows)
  BY CommandAssumption, Zenon
<1> DEFINE A == Locks("row", FirstRows[c])
           B == Locks("atp", AtpLocks[c])
           D == Locks("row", LaterRows[c])
           U == ({"row"} \X Rows) \cup ({"atp"} \X T)
<1>3. /\ A \in Seq({"row"} \X Rows) /\ Len(A) = Len(FirstRows[c])
      /\ \A i \in 1..Len(FirstRows[c]) : A[i] = <<"row", FirstRows[c][i]>>
  BY <1>2, RowLocksAreSeq, Zenon
<1>4. B \in Seq({"atp"} \X T)
  BY <1>1, LocksAreSeq, Zenon
<1>5. /\ D \in Seq({"row"} \X Rows) /\ Len(D) = Len(LaterRows[c])
      /\ \A i \in 1..Len(LaterRows[c]) : D[i] = <<"row", LaterRows[c][i]>>
  BY <1>2, RowLocksAreSeq, Zenon
<1>6. Plan[c] = A \o B \o D
  BY DEF Plan
<1> HIDE DEF A, B, D
<1>7. A \in Seq(U) /\ B \in Seq(U) /\ D \in Seq(U)
  BY <1>3, <1>4, <1>5
<1> HIDE DEF U
<1>8. /\ A \o B \o D \in Seq(U)
      /\ Len(A \o B \o D) = Len(A) + Len(B) + Len(D)
      /\ \A i \in 1..Len(A) : (A \o B \o D)[i] = A[i]
      /\ \A i \in 1..Len(D) : (A \o B \o D)[Len(A) + Len(B) + i] = D[i]
  BY <1>7
<1>9. Len(A) \in Nat /\ Len(B) \in Nat /\ Len(D) \in Nat
  BY <1>7
<1>10. Len(Plan[c]) \in Nat /\ DOMAIN Plan[c] = 1..Len(Plan[c])
  BY <1>6, <1>8
<1>11. ASSUME NEW r \in Written[c]
       PROVE  \E i \in 1..Len(Plan[c]) : Plan[c][i] = <<"row", r>>
  <2>1. \/ \E i \in 1..Len(FirstRows[c]) : r = FirstRows[c][i]
        \/ \E i \in 1..Len(LaterRows[c]) : r = LaterRows[c][i]
    BY <1>2 DEF Written, Range
  <2>2. ASSUME NEW i \in 1..Len(FirstRows[c]), r = FirstRows[c][i]
        PROVE  \E j \in 1..Len(Plan[c]) : Plan[c][j] = <<"row", r>>
    <3>1. i \in 1..Len(A) /\ i \in 1..Len(A \o B \o D)
      BY <1>3, <1>8, <1>9
    <3>2. (A \o B \o D)[i] = <<"row", r>>
      BY <1>3, <1>8, <3>1, <2>2, Zenon
    <3> QED
      BY <3>1, <3>2, <1>6, Zenon
  <2>3. ASSUME NEW i \in 1..Len(LaterRows[c]), r = LaterRows[c][i]
        PROVE  \E j \in 1..Len(Plan[c]) : Plan[c][j] = <<"row", r>>
    <3>1. i \in 1..Len(D) /\ Len(A) + Len(B) + i \in 1..Len(A \o B \o D)
      BY <1>5, <1>8, <1>9
    <3>2. (A \o B \o D)[Len(A) + Len(B) + i] = <<"row", r>>
      BY <1>5, <1>8, <3>1, <2>3, Zenon
    <3> QED
      BY <3>1, <3>2, <1>6, Zenon
  <2> QED
    BY <2>1, <2>2, <2>3, Zenon
<1> QED
  BY <1>10, <1>11, Zenon

-----------------------------------------------------------------------------
(* Eight kinds of step                                                     *)

(* A step of call c is one of these: the three ways a claim, a lock request *)
(* and a failure can go wrong come down to Throw and Restart.              *)
BeginReplay(c) ==
    /\ pc[c] = "claiming"
    /\ idem[KeyOf[c]] # "none"
    /\ HashOf[idem[KeyOf[c]]] = HashOf[c]
    /\ pc' = [pc EXCEPT ![c] = "replaying"]
    /\ UNCHANGED <<idem, rows, pos, attempt, snapshot, effect, answer>>

Advance(c) ==
    /\ pc[c] = "locking"
    /\ pos[c] <= Len(Plan[c])
    /\ ~Blocked(c)
    /\ ~Stale(c, Plan[c][pos[c]])
    /\ pos' = [pos EXCEPT ![c] = @ + 1]
    /\ UNCHANGED <<idem, rows, pc, attempt, snapshot, effect, answer>>

Restart(c) ==
    /\ Running(c)
    /\ attempt[c] < Retries[c]
    /\ Close(c, "idle")
    /\ attempt' = [attempt EXCEPT ![c] = @ + 1]
    /\ UNCHANGED <<idem, rows, effect, answer>>

Move(c) ==
    \/ Begin(c)
    \/ ClaimKey(c)
    \/ BeginReplay(c)
    \/ CommitReplay(c)
    \/ Advance(c)
    \/ Commit(c)
    \/ Running(c) /\ Throw(c)
    \/ Restart(c)

(* A retry is a step of its own call alone.                                *)
LEMMA RetryMoves ==
    ASSUME NEW c \in Calls, Running(c), Retry(c)
    PROVE  Move(c)
BY Zenon DEF Retry, Move, Restart

(* Only a running call waits for a lock.                                   *)
LEMMA BlockedRuns ==
    ASSUME NEW c \in Calls, Blocked(c)
    PROVE  Running(c)
BY Zenon DEF Blocked, WaitsFor, Wants, Running

(* A call in a wait cycle waits.                                           *)
LEMMA WaitCycleBlocked ==
    ASSUME NEW c \in Calls, InWaitCycle(c)
    PROVE  Blocked(c)
<1>1. PICK S \in SUBSET Calls : /\ c \in S
                               /\ \A d \in S : \E e \in S : WaitsFor(d, e)
  BY Zenon DEF InWaitCycle
<1>2. PICK e \in S : WaitsFor(c, e)
  BY <1>1, Zenon
<1> QED
  BY <1>1, <1>2, Zenon DEF Blocked

(* So is every other step.                                                 *)
LEMMA NextMoves ==
    ASSUME Next
    PROVE  \E c \in Calls : Move(c)
<1>1. PICK c \in Calls :
        \/ Begin(c)
        \/ ClaimKey(c)
        \/ FindKeyTaken(c)
        \/ CommitReplay(c)
        \/ TakeLock(c)
        \/ Commit(c)
        \/ Fail(c)
        \/ SerializationFailure(c)
        \/ DeadlockVictim(c)
  BY Zenon DEF Next
<1>2. CASE Begin(c) \/ ClaimKey(c) \/ CommitReplay(c) \/ Commit(c) \/ Fail(c)
  BY <1>2, Zenon DEF Move, Fail
<1>3. CASE FindKeyTaken(c)
  <2>1. Running(c)
    BY <1>3, Zenon DEF FindKeyTaken, Running
  <2>2. Retry(c) \/ Throw(c) \/ BeginReplay(c)
    BY <1>3, Zenon DEF FindKeyTaken, BeginReplay
  <2> QED
    BY <2>1, <2>2, RetryMoves, Zenon DEF Move
<1>4. CASE TakeLock(c)
  <2>1. Running(c)
    BY <1>4, Zenon DEF TakeLock, Running
  <2>2. Retry(c) \/ Advance(c)
    BY <1>4, Zenon DEF TakeLock, Advance
  <2> QED
    BY <2>1, <2>2, RetryMoves, Zenon DEF Move
<1>5. CASE SerializationFailure(c)
  BY <1>5, RetryMoves, Zenon DEF SerializationFailure
<1>6. CASE DeadlockVictim(c)
  BY <1>6, WaitCycleBlocked, BlockedRuns, RetryMoves, Zenon DEF DeadlockVictim
<1> QED
  BY <1>1, <1>2, <1>3, <1>4, <1>5, <1>6, Zenon

-----------------------------------------------------------------------------

(* The initial state is well typed.                                        *)
LEMMA InitTypeOK == Init => TypeOK
<1> SUFFICES ASSUME Init PROVE TypeOK
  BY Zenon
<1>1. \A c \in Calls : Len(Plan[c]) \in Nat
  BY PlanShape, Zenon
<1>2. \A c \in Calls : Retries[c] \in Nat
  BY CommandAssumption, Zenon
<1>3. EmptyTables \in [idem: [Keys -> Calls \cup {"none"}], rows: [Rows -> Nat]]
  BY Zenon DEF EmptyTables
<1>4. idem \in [Keys -> Calls \cup {"none"}] /\ rows \in [Rows -> Nat]
  BY Zenon DEF Init, EmptyTables
<1> QED
  BY <1>1, <1>2, <1>3, <1>4 DEF Init, TypeOK

(* Every step keeps the types.                                             *)
LEMMA TypeStep == TypeOK /\ [Next]_vars => TypeOK'
<1> SUFFICES ASSUME TypeOK, [Next]_vars PROVE TypeOK'
  BY Zenon
<1> USE DEF TypeOK
<1>a. \A c \in Calls : Len(Plan[c]) \in Nat
  BY PlanShape, Zenon
<1>b. Retries \in [Calls -> Nat] /\ KeyOf \in [Calls -> Keys \cup {NoKey}]
  BY CommandAssumption, Zenon
<1>c. EmptyTables \in [idem: [Keys -> Calls \cup {"none"}], rows: [Rows -> Nat]]
  BY DEF EmptyTables
<1>1. CASE UNCHANGED vars
  BY <1>1 DEF vars
<1>2. CASE Next
  <2>1. PICK c \in Calls : Move(c)
    BY <1>2, NextMoves
  <2>2. CASE Begin(c)
    BY <2>2, <1>a, <1>b, Zenon DEF Begin
  <2>3. CASE ClaimKey(c)
    BY <2>3, <1>a, Zenon DEF ClaimKey
  <2>4. CASE BeginReplay(c)
    BY <2>4, <1>a DEF BeginReplay
  <2>5. CASE CommitReplay(c)
    <3>1. idem[KeyOf[c]] \in Calls \cup {"none", "error"}
      BY <2>5, Zenon DEF CommitReplay
    <3> QED
      BY <2>5, <3>1, <1>a, <1>c DEF CommitReplay, End, Close
  <2>6. CASE Advance(c)
    BY <2>6, <1>a DEF Advance
  <2>7. CASE Commit(c)
    <3>1. \A r \in Rows : Seen(c, r) \in Nat
      BY DEF Seen
    <3>2. rows' \in [Rows -> Nat]
      BY <2>7, <3>1 DEF Commit
    <3>3. idem' \in [Keys -> Calls \cup {"none"}]
      BY <2>7, Zenon DEF Commit
    <3>4. effect' \in [Calls -> BOOLEAN]
      BY <2>7, Zenon DEF Commit
    <3>5. PICK a \in {c, "error"} : End(c, a)
      BY <2>7, Zenon DEF Commit
    <3> QED
      BY <3>2, <3>3, <3>4, <3>5, <1>a, <1>c DEF End, Close
  <2>8. CASE Running(c) /\ Throw(c)
    BY <2>8, <1>a, <1>c DEF Throw, End, Close
  <2>9. CASE Restart(c)
    <3>1. attempt' \in [Calls -> Nat] /\ \A d \in Calls : attempt'[d] <= Retries[d]
      <4>1. /\ attempt \in [Calls -> Nat]
            /\ \A d \in Calls : attempt[d] <= Retries[d]
        BY Zenon
      <4>2. /\ attempt[c] < Retries[c]
            /\ attempt' = [attempt EXCEPT ![c] = attempt[c] + 1]
        BY <2>9, Zenon DEF Restart
      <4>3. attempt' \in [Calls -> Nat]
        BY <4>1, <4>2
      <4>4. \A d \in Calls : attempt[d] \in Nat /\ Retries[d] \in Nat
        BY <4>1, <1>b, Zenon
      <4>5. attempt'[c] = attempt[c] + 1 /\ \A d \in Calls \ {c} : attempt'[d] = attempt[d]
        BY <4>1, <4>2, Zenon
      <4>6. attempt'[c] <= Retries[c]
        BY <4>2, <4>4, <4>5
      <4> QED
        BY <4>1, <4>3, <4>5, <4>6, Zenon
    <3>2. /\ pc' = [pc EXCEPT ![c] = "idle"]
          /\ pos' = [pos EXCEPT ![c] = 1]
          /\ snapshot' = [snapshot EXCEPT ![c] = EmptyTables]
          /\ UNCHANGED <<idem, rows, effect, answer>>
      BY <2>9, Zenon DEF Restart, Close
    <3> QED
      BY <3>1, <3>2, <1>a, <1>c
  <2> QED
    BY <2>1, <2>2, <2>3, <2>4, <2>5, <2>6, <2>7, <2>8, <2>9, Zenon DEF Move
<1> QED
  BY <1>1, <1>2, Zenon

(* Every reachable state of the command shell is well-typed; in particular *)
(* withTransactionRetry never exceeds its retries.                         *)
THEOREM CommandTypeCorrect == Spec => []TypeOK
BY InitTypeOK, TypeStep, PTL DEF Spec

-----------------------------------------------------------------------------
(* Once only                                                               *)

(* Who owns a key: at most one transaction has claimed it, and then nobody *)
(* has committed it; a committed key names the one call that took effect.  *)
KeyInv ==
    /\ \A c \in Calls : pc[c] # "done" => answer[c] = "none" /\ ~effect[c]
    /\ \A c \in Calls : pc[c] = "locking" /\ KeyOf[c] # NoKey => idem[KeyOf[c]] = "none"
    /\ \A c, d \in Calls :
            c # d /\ pc[c] = "locking" /\ pc[d] = "locking" /\ KeyOf[c] = KeyOf[d]
                => KeyOf[c] = NoKey
    /\ \A k \in Keys : idem[k] # "none" => effect[idem[k]] /\ KeyOf[idem[k]] = k
    /\ \A c \in Calls : effect[c] /\ KeyOf[c] # NoKey => idem[KeyOf[c]] = c
    /\ \A c \in Calls :
            pc[c] = "replaying" =>
                idem[KeyOf[c]] # "none" /\ HashOf[idem[KeyOf[c]]] = HashOf[c]

(* No idempotency key is taken before the first call.                      *)
LEMMA InitKeyInv == Init => KeyInv
<1> SUFFICES ASSUME Init PROVE KeyInv
  OBVIOUS
<1>1. \A k \in Keys : idem[k] = "none"
  BY Zenon DEF Init, EmptyTables
<1>2. \A c \in Calls : pc[c] = "idle" /\ answer[c] = "none" /\ ~effect[c]
  BY Zenon DEF Init
<1> QED
  BY <1>1, <1>2, Zenon DEF KeyInv

(* A claim that is not blocked is the only one for its key.                *)
LEMMA ClaimIsAlone ==
    ASSUME NEW c \in Calls, NEW d \in Calls, c # d, ~Blocked(c),
           pc[c] = "claiming", pc[d] = "locking", KeyOf[d] = KeyOf[c]
    PROVE  KeyOf[d] = NoKey
<1> SUFFICES ASSUME KeyOf[d] # NoKey PROVE FALSE
  BY Zenon
<1>1. KeyLock(c) \in Wants(c)
  BY Zenon DEF Wants
<1>2. KeyLock(c) = KeyLock(d)
  BY Zenon DEF KeyLock
<1>3. KeyLock(d) \in Holds(d)
  BY Zenon DEF Holds
<1> QED
  BY <1>1, <1>2, <1>3, Zenon DEF Blocked, WaitsFor

(* Every step keeps keys and effects together.                             *)
LEMMA KeyStep == TypeOK /\ KeyInv /\ [Next]_vars => KeyInv'
<1> SUFFICES ASSUME TypeOK, KeyInv, [Next]_vars PROVE KeyInv'
  BY Zenon
<1>b. KeyOf \in [Calls -> Keys \cup {NoKey}] /\ NoKey \notin Keys
  BY CommandAssumption, Zenon
<1>n. "none" \notin Calls /\ "error" \notin Calls
  BY CommandAssumption
<1>1. CASE UNCHANGED vars
  BY <1>1 DEF vars, KeyInv
<1>2. CASE Next
  <2>1. PICK c \in Calls : Move(c)
    BY <1>2, NextMoves, Zenon
  <2>t. /\ pc \in [Calls -> {"idle", "claiming", "locking", "replaying", "done"}]
        /\ answer \in [Calls -> Calls \cup {"none", "error"}]
        /\ effect \in [Calls -> BOOLEAN]
        /\ idem \in [Keys -> Calls \cup {"none"}]
        /\ \A d \in Calls : pc[d] \in {"claiming", "replaying"} => KeyOf[d] \in Keys
    BY Zenon DEF TypeOK
  <2>2. CASE Begin(c)
    BY <2>2, <2>t DEF Begin, KeyInv
  <2>3. CASE ClaimKey(c)
    <3>1. \A d \in Calls :
            d # c /\ pc[d] = "locking" /\ KeyOf[d] = KeyOf[c] => KeyOf[d] = NoKey
      BY <2>3, ClaimIsAlone, Zenon DEF ClaimKey
    <3> QED
      BY <2>3, <2>t, <3>1 DEF ClaimKey, KeyInv
  <2>4. CASE BeginReplay(c)
    BY <2>4, <2>t DEF BeginReplay, KeyInv
  <2>5. CASE CommitReplay(c)
    BY <2>5, <2>t DEF CommitReplay, End, Close, KeyInv
  <2>6. CASE Advance(c)
    BY <2>6 DEF Advance, KeyInv
  <2>7. CASE Commit(c)
    <3>1. PICK a \in {c, "error"} : End(c, a)
      BY <2>7, Zenon DEF Commit
    <3>2. /\ pc' = [pc EXCEPT ![c] = "done"]
          /\ answer' = [answer EXCEPT ![c] = a]
      BY <3>1, Zenon DEF End, Close
    <3>3. /\ pc[c] = "locking"
          /\ idem' = [k \in Keys |-> IF k = KeyOf[c] THEN c ELSE idem[k]]
          /\ effect' = [effect EXCEPT ![c] = TRUE]
      BY <2>7, Zenon DEF Commit
    <3>4. \A d \in Calls : pc'[d] # "done" => answer'[d] = "none" /\ ~effect'[d]
      BY <3>2, <3>3, <2>t DEF KeyInv
    <3>5. \A d \in Calls : pc'[d] = "locking" /\ KeyOf[d] # NoKey => idem'[KeyOf[d]] = "none"
      BY <3>2, <3>3, <2>t, <1>b DEF KeyInv
    <3>6. \A d, e \in Calls :
            d # e /\ pc'[d] = "locking" /\ pc'[e] = "locking" /\ KeyOf[d] = KeyOf[e]
                => KeyOf[d] = NoKey
      BY <3>2, <2>t DEF KeyInv
    <3>7. \A k \in Keys : idem'[k] # "none" => effect'[idem'[k]] /\ KeyOf[idem'[k]] = k
      BY <3>3, <2>t DEF KeyInv
    <3>8. \A d \in Calls : effect'[d] /\ KeyOf[d] # NoKey => idem'[KeyOf[d]] = d
      BY <3>3, <2>t, <1>b, <1>n DEF KeyInv
    <3>9. \A d \in Calls :
            pc'[d] = "replaying" =>
                idem'[KeyOf[d]] # "none" /\ HashOf[idem'[KeyOf[d]]] = HashOf[d]
      <4> SUFFICES ASSUME NEW d \in Calls, pc'[d] = "replaying"
                   PROVE  idem'[KeyOf[d]] # "none" /\ HashOf[idem'[KeyOf[d]]] = HashOf[d]
        BY Zenon
      <4>1. pc[d] = "replaying" /\ KeyOf[d] \in Keys /\ d # c
        BY <3>2, <3>3, <2>t, Zenon
      <4>2. idem[KeyOf[d]] # "none" /\ HashOf[idem[KeyOf[d]]] = HashOf[d]
        BY <4>1, Zenon DEF KeyInv
      <4>3. KeyOf[d] # KeyOf[c]
        BY <4>1, <4>2, <3>3, <1>b DEF KeyInv
      <4> QED
        BY <4>1, <4>2, <4>3, <3>3, Zenon
    <3> QED
      BY <3>4, <3>5, <3>6, <3>7, <3>8, <3>9, Zenon DEF KeyInv
  <2>8. CASE Running(c) /\ Throw(c)
    BY <2>8, <2>t DEF Running, Throw, End, Close, KeyInv
  <2>9. CASE Restart(c)
    BY <2>9, <2>t DEF Restart, Running, Close, KeyInv
  <2> QED
    BY <2>1, <2>2, <2>3, <2>4, <2>5, <2>6, <2>7, <2>8, <2>9, Zenon DEF Move
<1> QED
  BY <1>1, <1>2

(* What one step of the shell is to the once-only specification.           *)
LEMMA OnceStep ==
    ASSUME TypeOK, KeyInv, [Next]_vars
    PROVE  [Once!Next]_<<Applied, answer>>
<1>n. KeyOf \in [Calls -> Keys \cup {NoKey}] /\ NoKey \notin Keys
  BY CommandAssumption
<1>t. /\ answer \in [Calls -> Calls \cup {"none", "error"}]
      /\ effect \in [Calls -> BOOLEAN]
      /\ idem \in [Keys -> Calls \cup {"none"}]
      /\ \A d \in Calls : pc[d] \in {"claiming", "replaying"} => KeyOf[d] \in Keys
  BY Zenon DEF TypeOK
<1>1. ASSUME UNCHANGED <<effect, answer>>
      PROVE  UNCHANGED <<Applied, answer>>
  BY <1>1, Zenon DEF Applied
<1>2. CASE UNCHANGED vars
  BY <1>1, <1>2, Zenon DEF vars
<1>3. CASE Next
  <2>1. PICK c \in Calls : Move(c)
    BY <1>3, NextMoves
  <2>2. CASE Begin(c) \/ ClaimKey(c) \/ BeginReplay(c) \/ Advance(c) \/ Restart(c)
    <3>1. UNCHANGED <<effect, answer>>
      BY <2>2, Zenon DEF Begin, ClaimKey, BeginReplay, Advance, Restart
    <3> QED
      BY <3>1, <1>1
  <2>3. CASE CommitReplay(c)
    <3>1. /\ pc[c] = "replaying"
          /\ answer' = [answer EXCEPT ![c] = idem[KeyOf[c]]]
          /\ UNCHANGED effect
      BY <2>3 DEF CommitReplay, End
    <3>2. /\ answer[c] = "none"
          /\ KeyOf[c] \in Keys
          /\ idem[KeyOf[c]] # "none"
          /\ HashOf[idem[KeyOf[c]]] = HashOf[c]
      BY <3>1, <1>t, Zenon DEF KeyInv
    <3>3. /\ idem[KeyOf[c]] \in Applied
          /\ KeyOf[idem[KeyOf[c]]] = KeyOf[c]
      BY <3>2, <1>t DEF KeyInv, Applied
    <3>4. Once!SameRequest(idem[KeyOf[c]], c)
      BY <3>2, <3>3, <1>n DEF Once!SameRequest
    <3>5. Applied' = Applied
      BY <3>1, Zenon DEF Applied
    <3>6. Once!Replay(c)
      BY <3>1, <3>2, <3>3, <3>4, <3>5, Zenon DEF Once!Replay
    <3> QED
      BY <3>6 DEF Once!Next
  <2>4. CASE Commit(c)
    <3>1. PICK a \in {c, "error"} : answer' = [answer EXCEPT ![c] = a]
      BY <2>4, Zenon DEF Commit, End
    <3>2. pc[c] = "locking" /\ effect' = [effect EXCEPT ![c] = TRUE]
      BY <2>4 DEF Commit
    <3>3. answer[c] = "none" /\ c \notin Applied
      BY <3>2 DEF KeyInv, Applied
    <3>4. Applied' = Applied \cup {c}
      BY <3>2, <1>t, Zenon DEF Applied
    <3>5. ~Once!Taken(c)
      <4> SUFFICES ASSUME KeyOf[c] # NoKey, NEW b \in Applied, KeyOf[b] = KeyOf[c]
                   PROVE  FALSE
        BY Zenon DEF Once!Taken
      <4>1. b \in Calls /\ effect[b]
        BY Zenon DEF Applied
      <4>2. idem[KeyOf[b]] = b
        BY <4>1 DEF KeyInv
      <4>3. idem[KeyOf[c]] = "none"
        BY <3>2, Zenon DEF KeyInv
      <4>4. "none" \notin Calls
        BY CommandAssumption, Zenon
      <4> QED
        BY <4>1, <4>2, <4>3, <4>4
    <3>6. Once!Apply(c)
      BY <3>1, <3>3, <3>4, <3>5, Zenon DEF Once!Apply
    <3> QED
      BY <3>6, Zenon DEF Once!Next
  <2>5. CASE Running(c) /\ Throw(c)
    <3>1. answer' = [answer EXCEPT ![c] = "error"] /\ UNCHANGED effect
      BY <2>5, Zenon DEF Throw, End
    <3>2. answer[c] = "none"
      BY <2>5 DEF Running, KeyInv
    <3>3. Applied' = Applied
      BY <3>1 DEF Applied
    <3>4. Once!Refuse(c)
      BY <3>1, <3>2, <3>3, Zenon DEF Once!Refuse
    <3> QED
      BY <3>4, Zenon DEF Once!Next
  <2> QED
    BY <2>1, <2>2, <2>3, <2>4, <2>5, Zenon DEF Move
<1> QED
  BY <1>2, <1>3, Zenon

(* runInventoryCommand implements OnceOnly: a request takes effect at most *)
(* once per idempotency key, and what a call is told is the response of    *)
(* the execution that took effect, through retries, repetitions, crashes   *)
(* and lost answers.                                                       *)
THEOREM CommandIsOnceOnly == Spec => ImplementsOnceOnly
<1>1. Init => Once!Init
  <2> SUFFICES ASSUME Init PROVE Once!Init
    OBVIOUS
  <2>1. Applied = {}
    BY Zenon DEF Init, Applied
  <2> QED
    BY <2>1, Zenon DEF Init, Once!Init
<1>2. TypeOK /\ KeyInv /\ [Next]_vars => [Once!Next]_<<Applied, answer>>
  BY OnceStep
<1>3. Spec => [](TypeOK /\ KeyInv)
  BY InitTypeOK, TypeStep, InitKeyInv, KeyStep, PTL DEF Spec
<1> QED
  BY <1>1, <1>2, <1>3, PTL DEF Spec, ImplementsOnceOnly, Once!Spec

-----------------------------------------------------------------------------
(* No lost update                                                          *)

(* No lock is held twice, and a row a SERIALIZABLE transaction holds is as *)
(* its snapshot has it.                                                    *)
LockInv ==
    /\ \A c \in Calls : pc[c] # "locking" => pos[c] = 1
    /\ \A c, d \in Calls : c # d =>
            \A i \in 1..(pos[c] - 1), j \in 1..(pos[d] - 1) : Plan[c][i] # Plan[d][j]
    /\ \A c \in Calls : Serializable[c] =>
            \A i \in 1..(pos[c] - 1), r \in Rows :
                Plan[c][i] = <<"row", r>> => snapshot[c].rows[r] = rows[r]

(* No lock is held before the first call.                                  *)
LEMMA InitLockInv == Init => LockInv /\ NoLostUpdate
<1> SUFFICES ASSUME Init PROVE LockInv /\ NoLostUpdate
  BY Zenon
<1>1. LockInv
  BY DEF Init, LockInv
<1>2. \A r \in Rows : rows[r] = 0
  BY Zenon DEF Init, EmptyTables
<1>3. \A r \in Rows : {c \in Applied : r \in Written[c]} = {}
  BY Zenon DEF Init, Applied
<1>4. Cardinality({}) = 0
  BY FS_EmptySet, Zenon
<1> QED
  BY <1>1, <1>2, <1>3, <1>4, Zenon DEF NoLostUpdate

(* A transaction about to commit holds every row it writes, with its       *)
(* present value.                                                          *)
LEMMA CommitHoldsItsRows ==
    ASSUME TypeOK, LockInv, NEW c \in Calls, pc[c] = "locking", pos[c] = Len(Plan[c]) + 1,
           NEW r \in Written[c]
    PROVE  /\ \E i \in 1..(pos[c] - 1) : Plan[c][i] = <<"row", r>>
           /\ r \in Rows => Seen(c, r) = rows[r]
<1>1. Len(Plan[c]) \in Nat
  BY PlanShape, Zenon
<1>2. PICK i \in 1..Len(Plan[c]) : Plan[c][i] = <<"row", r>>
  BY PlanShape, Zenon
<1>3. i \in 1..(pos[c] - 1)
  BY <1>1
<1>4. r \in Rows /\ Serializable[c] => snapshot[c].rows[r] = rows[r]
  BY <1>2, <1>3 DEF LockInv
<1> QED
  BY <1>2, <1>3, <1>4, Zenon DEF Seen

(* Every step keeps the locks exclusive and the rows held under a snapshot *)
(* as the snapshot has them.                                               *)
LEMMA LockStep == TypeOK /\ KeyInv /\ LockInv /\ [Next]_vars => LockInv'
<1> SUFFICES ASSUME TypeOK, KeyInv, LockInv, [Next]_vars PROVE LockInv'
  BY Zenon
<1>p. \A c \in Calls : Len(Plan[c]) \in Nat
  BY PlanShape, Zenon
<1>t. /\ pc \in [Calls -> {"idle", "claiming", "locking", "replaying", "done"}]
      /\ pos \in [Calls -> Nat \ {0}]
      /\ snapshot \in [Calls -> [idem: [Keys -> Calls \cup {"none"}], rows: [Rows -> Nat]]]
  BY Zenon DEF TypeOK
<1>1. CASE UNCHANGED vars
  BY <1>1 DEF vars, LockInv
<1>2. CASE Next
  <2>1. PICK c \in Calls : Move(c)
    BY Zenon, <1>2, NextMoves
  (* The transaction of c is over, and the rows are as they were.          *)
  <2>2. ASSUME NEW next \in {"idle", "done"}, Close(c, next), UNCHANGED rows
        PROVE  LockInv'
    BY <2>2, <1>t DEF Close, LockInv
  <2>3. CASE Begin(c)
    <3>1. pos[c] = 1
      BY <2>3, Zenon DEF Begin, LockInv
    <3>2. /\ pc[c] = "idle"
          /\ \A d \in Calls \ {c} : pc'[d] = pc[d] /\ snapshot'[d] = snapshot[d]
          /\ UNCHANGED <<pos, rows>>
      BY <2>3, <1>t, Zenon DEF Begin
    <3> QED
      BY <3>1, <3>2, <1>t, SMTT(30) DEF LockInv
  <2>4. CASE ClaimKey(c) \/ BeginReplay(c)
    <3>1. pos[c] = 1
      BY <2>4, Zenon DEF ClaimKey, BeginReplay, LockInv
    <3>2. /\ \A d \in Calls \ {c} : pc'[d] = pc[d]
          /\ UNCHANGED <<pos, rows, snapshot>>
      BY <2>4, <1>t, Zenon DEF ClaimKey, BeginReplay
    <3>3. \A d \in Calls : pc'[d] # "locking" => pos'[d] = 1
      BY <3>1, <3>2, Zenon DEF LockInv
    <3> QED
      BY <3>2, <3>3 DEF LockInv
  <2>5. CASE CommitReplay(c)
    BY <2>5, <2>2, Zenon DEF CommitReplay, End
  <2>6. CASE Advance(c)
    <3>1. /\ pc[c] = "locking"
          /\ pos' = [pos EXCEPT ![c] = pos[c] + 1]
          /\ UNCHANGED <<pc, rows, snapshot>>
      BY <2>6 DEF Advance
    <3>2. /\ pos'[c] = pos[c] + 1
          /\ \A d \in Calls \ {c} : pos'[d] = pos[d]
      BY <3>1, <1>t
    <3>3. \A d \in Calls \ {c} : \A j \in 1..(pos[d] - 1) : Plan[d][j] # Plan[c][pos[c]]
      <4>1. Plan[c][pos[c]] \in Wants(c)
        BY <2>6 DEF Advance, Wants
      <4>2. \A d \in Calls \ {c} : \A j \in 1..(pos[d] - 1) : Plan[d][j] \in Holds(d)
        BY Zenon DEF Holds
      <4> QED
        BY <2>6, <4>1, <4>2, Zenon DEF Advance, Blocked, WaitsFor
    <3>4. \A r \in Rows :
            Serializable[c] /\ Plan[c][pos[c]] = <<"row", r>> => snapshot[c].rows[r] = rows[r]
      BY <2>6 DEF Advance, Stale
    <3>5. \A i \in 1..(pos'[c] - 1) : i \in 1..(pos[c] - 1) \/ i = pos[c]
      <4>1. pos[c] \in Nat /\ pos[c] >= 1
        BY <1>t
      <4>2. pos'[c] - 1 = pos[c]
        BY <4>1, <3>2
      <4> QED
        BY <4>1, <4>2
    <3>6. \A d \in Calls : pc'[d] # "locking" => pos'[d] = 1
      BY <3>1, <3>2, Zenon DEF LockInv
    <3>7. \A d, e \in Calls : d # e =>
            \A i \in 1..(pos'[d] - 1), j \in 1..(pos'[e] - 1) : Plan[d][i] # Plan[e][j]
      <4>1. \A d \in Calls \ {c} :
              \A i \in 1..(pos'[c] - 1), j \in 1..(pos'[d] - 1) : Plan[c][i] # Plan[d][j]
        BY <3>2, <3>3, <3>5 DEF LockInv
      <4>2. \A d, e \in Calls \ {c} : d # e =>
              \A i \in 1..(pos'[d] - 1), j \in 1..(pos'[e] - 1) : Plan[d][i] # Plan[e][j]
        BY <3>2 DEF LockInv
      <4> QED
        BY <4>1, <4>2
    <3>8. \A d \in Calls : Serializable[d] =>
            \A i \in 1..(pos'[d] - 1), r \in Rows :
                Plan[d][i] = <<"row", r>> => snapshot'[d].rows[r] = rows'[r]
      BY <3>1, <3>2, <3>4, <3>5 DEF LockInv
    <3> QED
      BY <3>6, <3>7, <3>8, Zenon DEF LockInv
  <2>7. CASE Commit(c)
    <3>1. /\ pc[c] = "locking" /\ pos[c] = Len(Plan[c]) + 1
          /\ rows' = [r \in Rows |-> IF r \in Written[c] THEN Seen(c, r) + 1 ELSE rows[r]]
      BY <2>7 DEF Commit
    <3>2. Close(c, "done")
      BY <2>7, Zenon DEF Commit, End
    <3>3. /\ pos'[c] = 1 /\ pc'[c] = "done"
          /\ \A d \in Calls \ {c} :
                pos'[d] = pos[d] /\ pc'[d] = pc[d] /\ snapshot'[d] = snapshot[d]
      BY <3>2, <1>t, Zenon DEF Close
    <3>4. \A d \in Calls \ {c} : \A i \in 1..(pos[d] - 1), r \in Rows :
            Plan[d][i] = <<"row", r>> => rows'[r] = rows[r]
      <4> SUFFICES ASSUME NEW d \in Calls \ {c}, NEW i \in 1..(pos[d] - 1), NEW r \in Rows,
                          Plan[d][i] = <<"row", r>>
                   PROVE  rows'[r] = rows[r]
        BY Zenon
      <4>1. ASSUME r \in Written[c] PROVE FALSE
        <5>1. PICK j \in 1..(pos[c] - 1) : Plan[c][j] = <<"row", r>>
          BY <4>1, <3>1, CommitHoldsItsRows, Zenon
        <5> QED
          BY <5>1 DEF LockInv
      <4> QED
        BY <4>1, <3>1
    <3>5. \A d \in Calls : Serializable[d] =>
            \A i \in 1..(pos'[d] - 1), r \in Rows :
                Plan[d][i] = <<"row", r>> => snapshot'[d].rows[r] = rows'[r]
      BY <3>3, <3>4 DEF LockInv
    <3>6. \A d, e \in Calls : d # e =>
            \A i \in 1..(pos'[d] - 1), j \in 1..(pos'[e] - 1) : Plan[d][i] # Plan[e][j]
      BY <3>3 DEF LockInv
    <3>7. \A d \in Calls : pc'[d] # "locking" => pos'[d] = 1
      BY <3>3, Zenon DEF LockInv
    <3> QED
      BY <3>5, <3>6, <3>7, Zenon DEF LockInv
  <2>8. CASE Running(c) /\ Throw(c)
    BY <2>8, <2>2, Zenon DEF Throw, End
  <2>9. CASE Restart(c)
    BY <2>9, <2>2, Zenon DEF Restart
  <2> QED
    BY <2>1, <2>3, <2>4, <2>5, <2>6, <2>7, <2>8, <2>9, Zenon DEF Move
<1> QED
  BY <1>1, <1>2, Zenon

(* Every step keeps the rows the sum of the committed updates.             *)
LEMMA UpdateStep ==
    TypeOK /\ KeyInv /\ LockInv /\ NoLostUpdate /\ [Next]_vars => NoLostUpdate'
<1> SUFFICES ASSUME TypeOK, KeyInv, LockInv, NoLostUpdate, [Next]_vars PROVE NoLostUpdate'
  BY Zenon
<1>t. effect \in [Calls -> BOOLEAN] /\ rows \in [Rows -> Nat]
  BY Zenon DEF TypeOK
<1>1. ASSUME UNCHANGED <<rows, effect>> PROVE NoLostUpdate'
  BY <1>1, Zenon DEF NoLostUpdate, Applied
<1>2. CASE UNCHANGED vars
  BY <1>1, <1>2 DEF vars
<1>3. CASE Next
  <2>1. PICK c \in Calls : Move(c)
    BY <1>3, NextMoves, Zenon
  <2>2. CASE ~Commit(c)
    <3>1. UNCHANGED <<rows, effect>>
      BY <2>1, <2>2
      DEF Move, Begin, ClaimKey, BeginReplay, CommitReplay, Advance, Throw, Restart
    <3> QED
      BY <3>1, <1>1, SMTT(20)
  <2>3. CASE Commit(c)
    <3>1. /\ pc[c] = "locking" /\ pos[c] = Len(Plan[c]) + 1
          /\ rows' = [r \in Rows |-> IF r \in Written[c] THEN Seen(c, r) + 1 ELSE rows[r]]
          /\ effect' = [effect EXCEPT ![c] = TRUE]
      BY <2>3 DEF Commit
    <3>2. c \notin Applied /\ Applied' = Applied \cup {c}
      BY <3>1, <1>t DEF KeyInv, Applied
    <3>3. SUFFICES ASSUME NEW r \in Rows
                   PROVE  rows'[r] = Cardinality({d \in Applied' : r \in Written[d]})
      BY Zenon DEF NoLostUpdate
    <3> DEFINE W == {d \in Applied : r \in Written[d]}
    <3>4. rows[r] = Cardinality(W)
      BY DEF NoLostUpdate
    <3>5. IsFiniteSet(W)
      <4>1. W \subseteq Calls /\ IsFiniteSet(Calls)
        BY CommandAssumption, Zenon DEF Applied
      <4> QED
        BY <4>1, FS_Subset, Zenon
    <3>6. CASE r \in Written[c]
      <4>1. Seen(c, r) = rows[r]
        BY <3>1, <3>6, CommitHoldsItsRows
      <4>2. {d \in Applied' : r \in Written[d]} = W \cup {c}
        BY <3>2, <3>6, Zenon
      <4>3. c \notin W
        BY <3>2
      <4>4. Cardinality(W \cup {c}) = Cardinality(W) + 1
        BY <3>5, <4>3, FS_AddElement
      <4>5. rows'[r] = rows[r] + 1
        BY <3>1, <3>6, <4>1, Zenon
      <4> HIDE DEF W
      <4> QED
        BY <3>4, <4>2, <4>4, <4>5
    <3>7. CASE r \notin Written[c]
      <4>1. {d \in Applied' : r \in Written[d]} = W
        BY <3>2, <3>7
      <4>2. rows'[r] = rows[r]
        BY <3>1, <3>7, Zenon
      <4> QED
        BY <3>4, <4>1, <4>2
    <3> QED
      BY <3>6, <3>7, Zenon
  <2> QED
    BY <2>2, <2>3
<1> QED
  BY <1>2, <1>3, Zenon

(* No committed write is lost, whichever mix of SERIALIZABLE and READ      *)
(* COMMITTED commands runs: row locks and first-updater-wins are enough.   *)
THEOREM CommandLosesNoUpdate == Spec => []NoLostUpdate
<1>1. Init => TypeOK /\ KeyInv /\ LockInv /\ NoLostUpdate
  BY InitTypeOK, InitKeyInv, InitLockInv
<1>2. TypeOK /\ KeyInv /\ LockInv /\ NoLostUpdate /\ [Next]_vars
        => (TypeOK /\ KeyInv /\ LockInv /\ NoLostUpdate)'
  BY TypeStep, KeyStep, LockStep, UpdateStep, Zenon
<1> QED
  BY <1>1, <1>2, PTL DEF Spec

-----------------------------------------------------------------------------
(***************************************************************************)
(* Deadlocks.  Among the calls of a circle, those that are past their      *)
(* first rows wait for one another.  None of them wants a later row: the   *)
(* holder would have taken every ATP lock it needs, and so would the call  *)
(* that waits, and one of these locks is common to both.  So each wants an *)
(* ATP lock, and since it takes them in ascending order the one it waits   *)
(* for wants a larger one: among finitely many calls that is impossible.   *)
(***************************************************************************)

Below(S, x) == {y \in S : y < x}

(* The rank of a number in a finite set, and how ranks compare.            *)
LEMMA Ranks ==
    ASSUME NEW S, IsFiniteSet(S), S \subseteq Nat
    PROVE  /\ \A x \in S : Cardinality(Below(S, x)) \in 0..(Cardinality(S) - 1)
           /\ \A x, y \in S : x < y => Cardinality(Below(S, x)) < Cardinality(Below(S, y))
<1>1. ASSUME NEW x \in S, NEW T, T \subseteq S, Below(S, x) \subseteq T, x \in T
      PROVE  /\ Cardinality(Below(S, x)) \in Nat /\ Cardinality(T) \in Nat
             /\ Cardinality(Below(S, x)) < Cardinality(T)
  <2>1. IsFiniteSet(T) /\ Cardinality(T) \in Nat
    BY <1>1, FS_Subset, FS_CardinalityType, Zenon
  <2>2. x \notin Below(S, x)
    BY DEF Below
  <2>3. IsFiniteSet(Below(S, x)) /\ Cardinality(Below(S, x)) <= Cardinality(T)
        /\ Cardinality(T) # Cardinality(Below(S, x))
    BY <1>1, <2>1, <2>2, FS_Subset, Zenon
  <2>4. Cardinality(Below(S, x)) \in Nat
    BY <2>3, FS_CardinalityType, Zenon
  <2> QED
    BY <2>1, <2>3, <2>4
<1>2. ASSUME NEW x \in S PROVE Cardinality(Below(S, x)) \in 0..(Cardinality(S) - 1)
  <2>1. Below(S, x) \subseteq S
    BY Zenon DEF Below
  <2>2. /\ Cardinality(Below(S, x)) \in Nat /\ Cardinality(S) \in Nat
        /\ Cardinality(Below(S, x)) < Cardinality(S)
    BY <1>1, <2>1, Zenon
  <2> QED
    BY <2>2
<1>3. ASSUME NEW x \in S, NEW y \in S, x < y
      PROVE  Cardinality(Below(S, x)) < Cardinality(Below(S, y))
  <2>0. ASSUME NEW z \in S, z < x PROVE z < y
    <3>1. x \in Nat /\ y \in Nat /\ z \in Nat
      BY Zenon
    <3> QED
      BY <1>3, <2>0, <3>1
  <2>1. Below(S, y) \subseteq S /\ Below(S, x) \subseteq Below(S, y) /\ x \in Below(S, y)
    BY <1>3, <2>0, Zenon DEF Below
  <2> QED
    BY <1>1, <2>1
<1> QED
  BY <1>2, <1>3

(* IthSmallest enumerates a finite set of numbers in ascending order.      *)
LEMMA SmallestInOrder ==
    ASSUME NEW S, IsFiniteSet(S), S \subseteq Nat
    PROVE  /\ \A i \in 1..Cardinality(S) : IthSmallest(S, i) \in S
           /\ \A i, j \in 1..Cardinality(S) : i < j => IthSmallest(S, i) < IthSmallest(S, j)
           /\ \A x \in S : \E i \in 1..Cardinality(S) : IthSmallest(S, i) = x
<1> DEFINE n == Cardinality(S)
           rank == [x \in S |-> Cardinality(Below(S, x))]
<1>1. n \in Nat
  BY FS_CardinalityType
<1>2. /\ \A x \in S : rank[x] \in 0..(n - 1)
      /\ \A x, y \in S : x < y => rank[x] < rank[y]
  BY Ranks, Zenon
<1>3. \A x \in S : \A i : rank[x] = i - 1 <=> Cardinality({y \in S : y < x}) = i - 1
  BY Zenon DEF Below
<1>4. rank \in [S -> 0..(n - 1)]
  BY <1>2
<1> HIDE DEF rank, n
<1>5. \A x, y \in S : rank[x] = rank[y] => x = y
  BY <1>1, <1>2
<1>6. rank \in Injection(S, 0..(n - 1))
  BY <1>4, <1>5, Zenon DEF Injection, IsInjective
<1>7. IsFiniteSet(0..(n - 1)) /\ Cardinality(0..(n - 1)) = n
  BY <1>1, FS_Interval
<1>8. rank \in Surjection(S, 0..(n - 1))
  BY <1>6, <1>7, FS_Injection, Zenon DEF n
<1>9. \A k \in 0..(n - 1) : \E x \in S : rank[x] = k
  BY <1>8, Zenon DEF Surjection
<1>10. ASSUME NEW i \in 1..n PROVE IthSmallest(S, i) \in S /\ rank[IthSmallest(S, i)] = i - 1
  <2>1. i - 1 \in 0..(n - 1)
    BY <1>1
  <2>2. PICK x \in S : rank[x] = i - 1
    BY <1>9, <2>1
  <2>3. \E z \in S : Cardinality({y \in S : y < z}) = i - 1
    BY <1>3, <2>2, Zenon
  <2>4. IthSmallest(S, i) \in S /\ Cardinality({y \in S : y < IthSmallest(S, i)}) = i - 1
    BY <2>3, Zenon DEF IthSmallest
  <2> QED
    BY <1>3, <2>4, Zenon
<1>11. ASSUME NEW i \in 1..n, NEW j \in 1..n, i < j
       PROVE  IthSmallest(S, i) < IthSmallest(S, j)
  <2> DEFINE x == IthSmallest(S, i)
             y == IthSmallest(S, j)
  <2>1. x \in S /\ y \in S /\ rank[x] = i - 1 /\ rank[y] = j - 1
    BY <1>10
  <2> HIDE DEF x, y
  <2>2. x \in Nat /\ y \in Nat
    BY <2>1
  <2>3. ~(y < x) /\ x # y
    BY <1>1, <1>2, <1>11, <2>1
  <2>4. x < y
    BY <2>2, <2>3
  <2> QED
    BY <2>4, Zenon DEF x, y
<1>12. ASSUME NEW x \in S PROVE \E i \in 1..n : IthSmallest(S, i) = x
  <2>1. rank[x] \in 0..(n - 1) /\ rank[x] + 1 \in 1..n
    BY <1>1, <1>2
  <2>2. IthSmallest(S, rank[x] + 1) \in S
        /\ rank[IthSmallest(S, rank[x] + 1)] = rank[x] + 1 - 1
    BY <1>10, <2>1
  <2>3. rank[x] + 1 - 1 = rank[x]
    BY <2>1
  <2> QED
    BY <1>5, <2>1, <2>2, <2>3, Zenon
<1> QED
  BY <1>10, <1>11, <1>12, Zenon DEF n

(* The ATP locks of a call: its targets, in ascending order.               *)
LEMMA AtpLocksSorted ==
    ASSUME NEW c \in Calls
    PROVE  /\ AtpLocks[c] \in Seq(Nat)
           /\ \A i, j \in 1..Len(AtpLocks[c]) : i < j => AtpLocks[c][i] < AtpLocks[c][j]
           /\ \A x \in Range(AtpTargets[c]) : \E i \in 1..Len(AtpLocks[c]) : AtpLocks[c][i] = x
<1> DEFINE S == Range(AtpTargets[c])
           n == Cardinality(S)
<1>1. AtpTargets[c] \in Seq(Nat)
  BY CommandAssumption
<1>2. IsFiniteSet(S) /\ S \subseteq Nat
  <2>1. AtpTargets[c] \in Surjection(1..Len(AtpTargets[c]), S)
    BY <1>1 DEF Range, Surjection
  <2>2. IsFiniteSet(1..Len(AtpTargets[c]))
    BY <1>1, FS_Interval
  <2>3. S \subseteq Nat
    BY <1>1 DEF Range
  <2> QED
    BY <2>1, <2>2, <2>3, FS_Surjection
<1>3. AtpLocks[c] = [i \in 1..n |-> IthSmallest(S, i)]
  BY DEF AtpLocks
<1> HIDE DEF S
<1>4. n \in Nat
  BY <1>2, FS_CardinalityType, Zenon
<1>5. /\ \A i \in 1..n : IthSmallest(S, i) \in S
      /\ \A i, j \in 1..n : i < j => IthSmallest(S, i) < IthSmallest(S, j)
      /\ \A x \in S : \E i \in 1..n : IthSmallest(S, i) = x
  BY <1>2, SmallestInOrder, Zenon
<1> HIDE DEF n
<1>6. \A i \in 1..n : IthSmallest(S, i) \in Nat
  BY <1>2, <1>5, Zenon
<1>7. AtpLocks[c] \in Seq(Nat) /\ Len(AtpLocks[c]) = n
  BY <1>3, <1>4, <1>6
<1>8. \A i \in 1..n : AtpLocks[c][i] = IthSmallest(S, i)
  BY <1>3, Zenon
<1>9. \A i, j \in 1..n : i < j => AtpLocks[c][i] < AtpLocks[c][j]
  BY <1>5, <1>8, Zenon
<1>10. \A x \in S : \E i \in 1..n : AtpLocks[c][i] = x
  BY <1>5, <1>8, Zenon
<1> QED
  BY <1>7, <1>9, <1>10 DEF S

(* The three parts of a Plan.                                              *)
LEMMA PlanParts ==
    ASSUME NEW c \in Calls
    PROVE  LET f == Len(FirstRows[c])
               a == Len(AtpLocks[c])
               n == Len(LaterRows[c])
           IN  /\ f \in Nat /\ a \in Nat /\ n \in Nat /\ Len(Plan[c]) = f + a + n
               /\ \A i \in 1..f : Plan[c][i] = <<"row", FirstRows[c][i]>>
               /\ \A i \in 1..a : Plan[c][f + i] = <<"atp", AtpLocks[c][i]>>
               /\ \A i \in 1..n : Plan[c][f + a + i] = <<"row", LaterRows[c][i]>>
<1>1. FirstRows[c] \in Seq(Rows) /\ LaterRows[c] \in Seq(Rows) /\ AtpLocks[c] \in Seq(Nat)
  BY CommandAssumption, AtpLocksSorted
<1> DEFINE A == Locks("row", FirstRows[c])
           B == Locks("atp", AtpLocks[c])
           D == Locks("row", LaterRows[c])
           U == ({"row"} \X Rows) \cup ({"atp"} \X Nat)
<1>2. /\ A \in Seq({"row"} \X Rows) /\ Len(A) = Len(FirstRows[c])
      /\ \A i \in 1..Len(FirstRows[c]) : A[i] = <<"row", FirstRows[c][i]>>
  BY <1>1, RowLocksAreSeq, Zenon
<1>3. /\ B \in Seq({"atp"} \X Nat) /\ Len(B) = Len(AtpLocks[c])
      /\ \A i \in 1..Len(AtpLocks[c]) : B[i] = <<"atp", AtpLocks[c][i]>>
  <2> DEFINE t == AtpLocks[c]
  <2>1. t \in Seq(Nat)
    BY <1>1
  <2> HIDE DEF t
  <2>2. /\ Locks("atp", t) \in Seq({"atp"} \X Nat) /\ Len(Locks("atp", t)) = Len(t)
        /\ \A i \in 1..Len(t) : Locks("atp", t)[i] = <<"atp", t[i]>>
    BY <2>1, LocksAreSeq, Zenon
  <2> QED
    BY <2>2 DEF t
<1>4. /\ D \in Seq({"row"} \X Rows) /\ Len(D) = Len(LaterRows[c])
      /\ \A i \in 1..Len(LaterRows[c]) : D[i] = <<"row", LaterRows[c][i]>>
  BY <1>1, RowLocksAreSeq, Zenon
<1>5. Plan[c] = A \o B \o D
  BY DEF Plan
<1> HIDE DEF A, B, D
<1>6. A \in Seq(U) /\ B \in Seq(U) /\ D \in Seq(U)
  BY <1>2, <1>3, <1>4
<1> HIDE DEF U
<1>7. /\ Len(A \o B \o D) = Len(A) + Len(B) + Len(D)
      /\ \A i \in 1..Len(A) : (A \o B \o D)[i] = A[i]
      /\ \A i \in 1..Len(B) : (A \o B \o D)[Len(A) + i] = B[i]
      /\ \A i \in 1..Len(D) : (A \o B \o D)[Len(A) + Len(B) + i] = D[i]
  BY <1>6
<1>8. Len(A) \in Nat /\ Len(B) \in Nat /\ Len(D) \in Nat
  BY <1>6
<1> QED
  BY <1>2, <1>3, <1>4, <1>5, <1>7, <1>8, Zenon

(* A lock of a Plan, by the part it is in.                                 *)
EarlyLock(c, i) ==
    i <= Len(FirstRows[c]) /\ \E r \in Range(FirstRows[c]) : Plan[c][i] = <<"row", r>>

AtpLock(c, i) ==
    \E k \in 1..Len(AtpLocks[c]) :
        i = Len(FirstRows[c]) + k /\ Plan[c][i] = <<"atp", AtpLocks[c][k]>>

LateLock(c, i) ==
    /\ i > Len(FirstRows[c]) + Len(AtpLocks[c])
    /\ \E r \in Range(LaterRows[c]) : Plan[c][i] = <<"row", r>>

(* A lock of a plan is an early row, an ATP key or a later row.            *)
LEMMA PlanKinds ==
    ASSUME NEW c \in Calls, NEW i \in 1..Len(Plan[c])
    PROVE  EarlyLock(c, i) \/ AtpLock(c, i) \/ LateLock(c, i)
<1> DEFINE f == Len(FirstRows[c])
           a == Len(AtpLocks[c])
           n == Len(LaterRows[c])
<1>0. FirstRows[c] \in Seq(Rows) /\ LaterRows[c] \in Seq(Rows)
  BY CommandAssumption, Zenon
<1>1. /\ f \in Nat /\ a \in Nat /\ n \in Nat /\ Len(Plan[c]) = f + a + n
      /\ \A k \in 1..f : Plan[c][k] = <<"row", FirstRows[c][k]>>
      /\ \A k \in 1..a : Plan[c][f + k] = <<"atp", AtpLocks[c][k]>>
      /\ \A k \in 1..n : Plan[c][f + a + k] = <<"row", LaterRows[c][k]>>
  BY PlanParts, Zenon
<1>2. /\ \A k \in 1..f : FirstRows[c][k] \in Range(FirstRows[c])
      /\ \A k \in 1..n : LaterRows[c][k] \in Range(LaterRows[c])
  BY <1>0 DEF Range
<1> HIDE DEF f, a, n
<1>3. CASE i <= f
  <2>1. i \in 1..f
    BY <1>1, <1>3
  <2> QED
    BY <1>1, <1>2, <1>3, <2>1, Zenon DEF EarlyLock, f
<1>4. CASE f < i /\ i <= f + a
  <2>1. i - f \in 1..a /\ i = f + (i - f)
    BY <1>1, <1>4
  <2>2. Plan[c][i] = <<"atp", AtpLocks[c][i - f]>>
    BY <1>1, <2>1, Zenon
  <2> QED
    BY <2>1, <2>2, Zenon DEF AtpLock, f, a
<1>5. CASE i > f + a
  <2>1. i - (f + a) \in 1..n /\ i = f + a + (i - (f + a))
    BY <1>1, <1>5
  <2>2. Plan[c][i] = <<"row", LaterRows[c][i - (f + a)]>>
    BY <1>1, <2>1, Zenon
  <2> QED
    BY <1>2, <1>5, <2>1, <2>2, Zenon DEF LateLock, f, a
<1> QED
  BY <1>1, <1>3, <1>4, <1>5

(* A call past its claim waits for a lock of its Plan, which the other has *)
(* taken in its own.                                                       *)
LEMMA WaitsInPlan ==
    ASSUME TypeOK, NEW c \in Calls, NEW d \in Calls, pc[c] = "locking", WaitsFor(c, d)
    PROVE  /\ pos[c] \in 1..Len(Plan[c])
           /\ Wants(c) = {Plan[c][pos[c]]}
           /\ \E i \in 1..(pos[d] - 1) :
                 i \in 1..Len(Plan[d]) /\ Plan[d][i] = Plan[c][pos[c]] /\ Plan[d][i] \in Holds(d)
<1>1. /\ pos[c] \in Nat \ {0} /\ pos[d] \in Nat \ {0} /\ pos[d] <= Len(Plan[d]) + 1
      /\ Len(Plan[c]) \in Nat /\ Len(Plan[d]) \in Nat
  BY PlanShape, Zenon DEF TypeOK
<1>2. PICK l : l \in Wants(c) /\ l \in Holds(d)
  BY Zenon DEF WaitsFor
<1>3. pos[c] <= Len(Plan[c]) /\ l = Plan[c][pos[c]] /\ Wants(c) = {Plan[c][pos[c]]}
  BY <1>2 DEF Wants
<1>4. pos[c] \in 1..Len(Plan[c])
  BY <1>1, <1>3
<1>5. l # KeyLock(d)
  <2>1. EarlyLock(c, pos[c]) \/ AtpLock(c, pos[c]) \/ LateLock(c, pos[c])
    BY <1>4, PlanKinds, Zenon
  <2>2. \E x : l = <<"row", x>> \/ l = <<"atp", x>>
    BY <1>3, <2>1, Zenon DEF EarlyLock, AtpLock, LateLock
  <2> QED
    BY <2>2 DEF KeyLock
<1>6. PICK i \in 1..(pos[d] - 1) : l = Plan[d][i]
  BY <1>2, <1>5, Zenon DEF Holds
<1>7. i \in 1..Len(Plan[d])
  BY <1>1
<1> QED
  BY <1>2, <1>3, <1>4, <1>6, <1>7, Zenon

(* Past its first rows, and still waiting for a lock.                      *)
Ahead(c) == pc[c] = "locking" /\ pos[c] > Len(FirstRows[c]) /\ pos[c] <= Len(Plan[c])

(* A circle that meets no unguarded row.                                   *)
GuardedCircle(S) ==
    /\ S \subseteq Calls /\ S # {}
    /\ \A c \in S : \E d \in S : WaitsFor(c, d)
    /\ \A c, d \in S : c # d =>
         \A r \in UnguardedRows(c, d) : <<"row", r>> \notin Wants(c) \cap Holds(d)

(* Who is waited for by a call past its claim is ahead: it holds a lock    *)
(* that is not one of its first rows.                                      *)
LEMMA WaitedForIsAhead ==
    ASSUME TypeOK, LockInv, NEW S, GuardedCircle(S), NEW c \in S, NEW d \in S,
           pc[c] = "locking", WaitsFor(c, d)
    PROVE  /\ Ahead(d)
           /\ \E i \in 1..(pos[d] - 1) :
                /\ i \in 1..Len(Plan[d]) /\ Plan[d][i] = Plan[c][pos[c]]
                /\ \/ AtpLock(d, i)
                   \/ LateLock(d, i) /\ Range(AtpTargets[c]) \cap Range(AtpTargets[d]) # {}
<1>0. c \in Calls /\ d \in Calls /\ c # d
  BY Zenon DEF GuardedCircle, WaitsFor
<1>1. /\ Wants(c) = {Plan[c][pos[c]]}
      /\ \E i \in 1..(pos[d] - 1) :
            i \in 1..Len(Plan[d]) /\ Plan[d][i] = Plan[c][pos[c]] /\ Plan[d][i] \in Holds(d)
  BY <1>0, WaitsInPlan
<1>2. PICK i \in 1..(pos[d] - 1) :
         i \in 1..Len(Plan[d]) /\ Plan[d][i] = Plan[c][pos[c]] /\ Plan[d][i] \in Holds(d)
  BY <1>1
<1>3. Plan[d][i] \in Wants(c) \cap Holds(d)
  BY <1>1, <1>2, Zenon
<1>4. \A r \in UnguardedRows(c, d) : Plan[d][i] # <<"row", r>>
  BY <1>0, <1>3, Zenon DEF GuardedCircle
<1>5. EarlyLock(d, i) \/ AtpLock(d, i) \/ LateLock(d, i)
  BY <1>0, <1>2, PlanKinds
<1>6. ~EarlyLock(d, i)
  BY <1>4, Zenon DEF EarlyLock, UnguardedRows
<1>7. LateLock(d, i) => Range(AtpTargets[c]) \cap Range(AtpTargets[d]) # {}
  <2> SUFFICES ASSUME LateLock(d, i), Range(AtpTargets[c]) \cap Range(AtpTargets[d]) = {}
               PROVE  FALSE
    BY Zenon
  <2>1. PICK r \in Range(LaterRows[d]) : Plan[d][i] = <<"row", r>>
    BY Zenon DEF LateLock
  <2>2. r \in UnguardedRows(c, d)
    BY <2>1 DEF UnguardedRows
  <2> QED
    BY <1>4, <2>1, <2>2
<1>8. pos[d] \in Nat /\ pos[d] > i /\ i > Len(FirstRows[d]) /\ Len(FirstRows[d]) \in Nat
      /\ Len(AtpLocks[d]) \in Nat
  <2>0. Len(FirstRows[d]) \in Nat /\ Len(AtpLocks[d]) \in Nat
    BY <1>0, PlanParts, Zenon
  <2>1. pos[d] \in Nat /\ i \in Nat /\ Len(FirstRows[d]) \in Nat /\ Len(AtpLocks[d]) \in Nat
    BY <1>0, <1>2, <2>0 DEF TypeOK
  <2>2. AtpLock(d, i) => i > Len(FirstRows[d])
    BY <2>1 DEF AtpLock
  <2>3. LateLock(d, i) => i > Len(FirstRows[d])
    <3> DEFINE f == Len(FirstRows[d])
               a == Len(AtpLocks[d])
    <3>1. f \in Nat /\ a \in Nat /\ i \in Nat /\ (LateLock(d, i) => i > f + a)
      BY <2>1, Zenon DEF LateLock
    <3> HIDE DEF f, a
    <3>2. LateLock(d, i) => i > f
      BY <3>1
    <3> QED
      BY <3>2, Zenon DEF f
  <2> QED
    BY <1>2, <1>5, <1>6, <2>1, <2>2, <2>3
<1>9. Ahead(d)
  <2>1. pos[d] # 1 /\ pos[d] > Len(FirstRows[d])
    BY <1>2, <1>8
  <2>2. pc[d] = "locking"
    BY <1>0, <2>1, Zenon DEF LockInv
  <2>3. PICK e \in S : WaitsFor(d, e)
    BY DEF GuardedCircle
  <2>4. e \in Calls
    BY DEF GuardedCircle
  <2>5. pos[d] \in 1..Len(Plan[d])
    BY <1>0, <2>2, <2>3, <2>4, WaitsInPlan
  <2> QED
    BY <2>1, <2>2, <2>5 DEF Ahead
<1> QED
  BY <1>2, <1>5, <1>6, <1>7, <1>9

(* The ATP lock that a call ahead waits for.                               *)
Wanted(c) == AtpLocks[c][pos[c] - Len(FirstRows[c])]

InAtpPart(c) == pos[c] - Len(FirstRows[c]) \in 1..Len(AtpLocks[c])

(* A call ahead waits for an ATP lock: a row that it wanted after them     *)
(* would be held by a call that has the ATP locks the two have in common.  *)
LEMMA AheadWantsAtp ==
    ASSUME TypeOK, LockInv, NEW S, GuardedCircle(S), NEW c \in S, Ahead(c)
    PROVE  InAtpPart(c) /\ Plan[c][pos[c]] = <<"atp", Wanted(c)>>
<1>0. c \in Calls /\ pc[c] = "locking"
  BY Zenon DEF GuardedCircle, Ahead
<1>1. PICK d \in S : WaitsFor(c, d)
  BY Zenon DEF GuardedCircle
<1>2. d \in Calls /\ c # d
  BY <1>1 DEF GuardedCircle, WaitsFor
<1>3. PICK i \in 1..(pos[d] - 1) :
        /\ i \in 1..Len(Plan[d]) /\ Plan[d][i] = Plan[c][pos[c]]
        /\ \/ AtpLock(d, i)
           \/ LateLock(d, i) /\ Range(AtpTargets[c]) \cap Range(AtpTargets[d]) # {}
  BY <1>0, <1>1, WaitedForIsAhead
<1>4. /\ pos[c] \in Nat /\ pos[d] \in Nat /\ pos[c] \in 1..Len(Plan[c])
      /\ Len(FirstRows[c]) \in Nat /\ Len(AtpLocks[c]) \in Nat
      /\ Len(FirstRows[d]) \in Nat /\ Len(AtpLocks[d]) \in Nat
      /\ \A k \in 1..Len(AtpLocks[c]) : Plan[c][Len(FirstRows[c]) + k] = <<"atp", AtpLocks[c][k]>>
      /\ \A k \in 1..Len(AtpLocks[d]) : Plan[d][Len(FirstRows[d]) + k] = <<"atp", AtpLocks[d][k]>>
  <2>1. pos[c] \in Nat \ {0} /\ pos[d] \in Nat \ {0} /\ Len(Plan[c]) \in Nat
    BY <1>0, <1>2, PlanShape DEF TypeOK
  <2>2. /\ Len(FirstRows[c]) \in Nat /\ Len(AtpLocks[c]) \in Nat
        /\ \A k \in 1..Len(AtpLocks[c]) :
              Plan[c][Len(FirstRows[c]) + k] = <<"atp", AtpLocks[c][k]>>
    BY <1>0, PlanParts, Zenon
  <2>3. /\ Len(FirstRows[d]) \in Nat /\ Len(AtpLocks[d]) \in Nat
        /\ \A k \in 1..Len(AtpLocks[d]) :
              Plan[d][Len(FirstRows[d]) + k] = <<"atp", AtpLocks[d][k]>>
    BY <1>2, PlanParts, Zenon
  <2>4. pos[c] \in 1..Len(Plan[c])
    BY <2>1 DEF Ahead
  <2> QED
    BY <2>1, <2>2, <2>3, <2>4, Zenon
<1>5. ~LateLock(c, pos[c])
  <2> SUFFICES ASSUME LateLock(c, pos[c]) PROVE FALSE
    BY Zenon
  <2>1. ~AtpLock(d, i)
    BY <1>3 DEF LateLock, AtpLock
  <2>2. LateLock(d, i)
    BY <1>3, <2>1, Zenon
  <2>3. PICK x : x \in Range(AtpTargets[c]) /\ x \in Range(AtpTargets[d])
    BY <1>3, <2>1
  <2>4. PICK j \in 1..Len(AtpLocks[c]) : AtpLocks[c][j] = x
    BY <1>0, <2>3, AtpLocksSorted, Zenon
  <2>5. PICK k \in 1..Len(AtpLocks[d]) : AtpLocks[d][k] = x
    BY <1>2, <2>3, AtpLocksSorted, Zenon
  <2>6. Plan[c][Len(FirstRows[c]) + j] = Plan[d][Len(FirstRows[d]) + k]
    BY <1>4, <2>4, <2>5, Zenon
  <2>7. pos[c] > Len(FirstRows[c]) + Len(AtpLocks[c]) /\ i > Len(FirstRows[d]) + Len(AtpLocks[d])
    BY <2>2, Zenon DEF LateLock
  <2>8. Len(FirstRows[c]) + j \in 1..(pos[c] - 1) /\ Len(FirstRows[d]) + k \in 1..(pos[d] - 1)
    <3> DEFINE f == Len(FirstRows[c])
               a == Len(AtpLocks[c])
               g == Len(FirstRows[d])
               b == Len(AtpLocks[d])
    <3>1. /\ f \in Nat /\ a \in Nat /\ g \in Nat /\ b \in Nat
          /\ pos[c] \in Nat /\ pos[d] \in Nat /\ i \in 1..(pos[d] - 1)
          /\ j \in 1..a /\ k \in 1..b /\ pos[c] > f + a /\ i > g + b
      BY <1>3, <1>4, <2>4, <2>5, <2>7, Zenon
    <3> HIDE DEF f, a, g, b
    <3>2. f + j \in 1..(pos[c] - 1) /\ g + k \in 1..(pos[d] - 1)
      BY <3>1
    <3> QED
      BY <3>2, Zenon DEF f, g
  <2> QED
    BY <1>0, <1>2, <2>6, <2>8 DEF LockInv
<1>6. ~EarlyLock(c, pos[c])
  BY <1>4 DEF EarlyLock, Ahead
<1>7. AtpLock(c, pos[c])
  BY <1>0, <1>4, <1>5, <1>6, PlanKinds, Zenon
<1>8. PICK k \in 1..Len(AtpLocks[c]) :
        pos[c] = Len(FirstRows[c]) + k /\ Plan[c][pos[c]] = <<"atp", AtpLocks[c][k]>>
  BY <1>7 DEF AtpLock
<1>9. pos[c] - Len(FirstRows[c]) = k
  BY <1>4, <1>8
<1> QED
  BY <1>8, <1>9 DEF InAtpPart, Wanted

(* The call it waits for wants a larger one.                               *)
LEMMA WantedGrows ==
    ASSUME TypeOK, LockInv, NEW S, GuardedCircle(S), NEW c \in S, Ahead(c)
    PROVE  \E d \in S : Ahead(d) /\ Wanted(c) < Wanted(d)
<1>0. c \in Calls /\ pc[c] = "locking"
  BY DEF GuardedCircle, Ahead
<1>1. PICK d \in S : WaitsFor(c, d)
  BY DEF GuardedCircle
<1>2. d \in Calls
  BY Zenon DEF GuardedCircle
<1>3. Ahead(d)
  BY <1>0, <1>1, WaitedForIsAhead, Zenon
<1>4. PICK i \in 1..(pos[d] - 1) :
        /\ i \in 1..Len(Plan[d]) /\ Plan[d][i] = Plan[c][pos[c]]
        /\ AtpLock(d, i) \/ LateLock(d, i)
  BY <1>0, <1>1, WaitedForIsAhead, Zenon
<1>5. Plan[c][pos[c]] = <<"atp", Wanted(c)>>
  BY AheadWantsAtp
<1>6. InAtpPart(d)
  BY <1>3, AheadWantsAtp, Zenon
<1>7. AtpLock(d, i)
  BY <1>4, <1>5 DEF LateLock
<1>8. PICK k \in 1..Len(AtpLocks[d]) :
        i = Len(FirstRows[d]) + k /\ Plan[d][i] = <<"atp", AtpLocks[d][k]>>
  BY <1>7 DEF AtpLock
<1>9. AtpLocks[d][k] = Wanted(c)
  BY <1>4, <1>5, <1>8
<1>10. k < pos[d] - Len(FirstRows[d])
  <2>1. pos[d] \in Nat /\ Len(FirstRows[d]) \in Nat /\ Len(AtpLocks[d]) \in Nat
    BY <1>2, PlanParts, Zenon DEF TypeOK
  <2> QED
    BY <1>4, <1>8, <2>1
<1>11. AtpLocks[d][k] < Wanted(d)
  BY <1>2, <1>6, <1>10, AtpLocksSorted DEF InAtpPart, Wanted
<1> QED
  BY <1>3, <1>9, <1>11, Zenon

(* No finite set of calls goes up for ever.                                *)
LEMMA NoEndlessRise ==
    ASSUME NEW T, IsFiniteSet(T), T # {}, NEW w, \A c \in T : w[c] \in Nat
    PROVE  \E c \in T : \A d \in T : ~(w[c] < w[d])
<1> DEFINE Rises(U) == U # {} /\ \A c \in U : \E d \in U : w[c] < w[d]
           B == {U \in SUBSET T : Rises(U)}
<1>1. SUFFICES ASSUME \A c \in T : \E d \in T : w[c] < w[d] PROVE FALSE
  OBVIOUS
<1>2. B \subseteq SUBSET T /\ B # {}
  BY <1>1, Zenon
<1>3. PICK U \in B : \A V \in B : ~(V \subseteq U /\ V # U)
  <2> HIDE DEF B
  <2>1. IsWellFoundedOn(StrictSubsetOrdering(T), SUBSET T)
    BY FS_StrictSubsetOrderingWellFounded, FS_FiniteSubsetsOfFinite, Zenon
  <2>2. \E U \in B : \A V \in B : ~(<<V, U>> \in StrictSubsetOrdering(T))
    BY <1>2, <2>1, WFMin, Zenon
  <2> QED
    BY <1>2, <2>2, Zenon DEF StrictSubsetOrdering
<1>4. PICK c \in U : TRUE
  BY <1>3, Zenon
<1> DEFINE V == {d \in U : w[c] < w[d]}
<1>5. U \subseteq T /\ c \in T /\ V \subseteq U /\ V # {}
  BY <1>3, <1>4, Zenon
<1>6. c \notin V
  BY <1>5
<1>7. ASSUME NEW d \in V PROVE \E e \in V : w[d] < w[e]
  <2>1. PICK e \in U : w[d] < w[e]
    BY <1>3, <1>7, Zenon
  <2>2. w[c] < w[e]
    BY <1>5, <1>7, <2>1
  <2> QED
    BY <2>1, <2>2, Zenon
<1>8. V \in B
  BY <1>5, <1>7, Zenon
<1> QED
  BY <1>3, <1>4, <1>5, <1>6, <1>8, Zenon

(* In a circle of waiting calls, one waits for an unguarded row of         *)
(* another.                                                                *)
LEMMA CirclesBreak == TypeOK /\ LockInv => CyclesNeedUnguardedRow
<1> SUFFICES ASSUME TypeOK, LockInv, NEW S, GuardedCircle(S) PROVE FALSE
  BY DEF CyclesNeedUnguardedRow, GuardedCircle
<1> DEFINE T == {c \in S : Ahead(c)}
<1>1. PICK c \in S : pc[c] = "locking"
  <2>1. PICK b \in S, d \in S : WaitsFor(b, d)
    BY Zenon DEF GuardedCircle
  <2>2. PICK e \in S : WaitsFor(d, e)
    BY DEF GuardedCircle
  <2>3. b \in Calls /\ d \in Calls /\ e \in Calls
    BY Zenon DEF GuardedCircle
  <2>4. pc[d] \in {"claiming", "locking"}
    BY <2>2, Zenon DEF WaitsFor, Wants
  <2>5. pc[d] # "claiming"
    <3> SUFFICES ASSUME pc[d] = "claiming" PROVE FALSE
      BY Zenon
    <3>1. pos[d] = 1
      BY <2>3, Zenon DEF LockInv
    <3>2. Holds(d) = {}
      BY <3>1 DEF Holds
    <3> QED
      BY <2>1, <3>2 DEF WaitsFor
  <2> QED
    BY <2>4, <2>5, Zenon
<1>2. T # {}
  <2>1. PICK d \in S : WaitsFor(c, d)
    BY Zenon DEF GuardedCircle
  <2>2. Ahead(d)
    BY <1>1, <2>1, WaitedForIsAhead
  <2> QED
    BY <2>2, Zenon
<1>3. IsFiniteSet(T)
  BY CommandAssumption, FS_Subset, Zenon DEF GuardedCircle
<1> DEFINE w == [b \in T |-> Wanted(b)]
<1>4. ASSUME NEW b \in T PROVE w[b] \in Nat
  <2>1. b \in Calls /\ InAtpPart(b)
    BY AheadWantsAtp, Zenon DEF GuardedCircle
  <2> QED
    BY <2>1, AtpLocksSorted DEF InAtpPart, Wanted
<1>5. ASSUME NEW b \in T PROVE \E d \in T : w[b] < w[d]
  BY WantedGrows, Zenon
<1> HIDE DEF w, T
<1> QED
  BY <1>2, <1>3, <1>4, <1>5, NoEndlessRise

(* A deadlock between commands needs a row outside the protection of the   *)
(* ATP locks, whatever the calls, their rows and their targets: the sorted *)
(* ATP locks and the rows taken under a common one cannot make a circle.   *)
THEOREM DeadlocksNeedUnguardedRow == Spec => []CyclesNeedUnguardedRow
<1>1. Init => TypeOK /\ KeyInv /\ LockInv
  BY InitTypeOK, InitKeyInv, InitLockInv, Zenon
<1>2. (TypeOK /\ KeyInv /\ LockInv) /\ [Next]_vars => (TypeOK /\ KeyInv /\ LockInv)'
  BY TypeStep, KeyStep, LockStep, Zenon
<1> QED
  BY <1>1, <1>2, CirclesBreak, PTL DEF Spec
=============================================================================
