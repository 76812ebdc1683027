------------------------------ MODULE OnceOnly ------------------------------
(***************************************************************************)
(* What runInventoryCommand promises its callers: a request takes effect   *)
(* at most once however often it is sent, the answer to every copy of it   *)
(* is the answer of the one that took effect, and a call that is refused   *)
(* or fails leaves no trace.  A call whose answer is lost may have taken    *)
(* effect; sending the request again tells.                                *)
(***************************************************************************)
CONSTANTS
    Calls,    \* the calls made
    KeyOf,    \* the idempotency key a call carries, or NoKey
    NoKey,
    HashOf    \* endpoint and request hash of a call

VARIABLES
    applied,  \* the calls that took effect
    answer    \* what each call was told: "none" yet, "error", or the call whose response it got

SameRequest(b, c) ==
    b = c \/ (KeyOf[c] # NoKey /\ KeyOf[b] = KeyOf[c] /\ HashOf[b] = HashOf[c])

Taken(c) == KeyOf[c] # NoKey /\ \E b \in applied : KeyOf[b] = KeyOf[c]

Init ==
    /\ applied = {}
    /\ answer = [c \in Calls |-> "none"]

Apply(c) ==
    /\ answer[c] = "none"
    /\ c \notin applied
    /\ ~Taken(c)
    /\ applied' = applied \cup {c}
    /\ \E a \in {c, "error"} : answer' = [answer EXCEPT ![c] = a]

Replay(c) ==
    /\ answer[c] = "none"
    /\ \E b \in applied : SameRequest(b, c) /\ answer' = [answer EXCEPT ![c] = b]
    /\ UNCHANGED applied

Refuse(c) ==
    /\ answer[c] = "none"
    /\ answer' = [answer EXCEPT ![c] = "error"]
    /\ UNCHANGED applied

Next == \E c \in Calls : Apply(c) \/ Replay(c) \/ Refuse(c)

Spec == Init /\ [][Next]_<<applied, answer>>
=============================================================================
