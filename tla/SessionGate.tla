----------------------------- MODULE SessionGate -----------------------------
(***************************************************************************)
(* What a refresh token promises: its session is a gate that opens once    *)
(* and, once closed by logout, expiry or deletion, never opens again; and  *)
(* a refresh is granted only if the gate was open at some instant between  *)
(* its question and its answer.                                            *)
(***************************************************************************)

CONSTANTS Session, Request, NoSession

VARIABLES
    gate,   \* of each session
    ask,    \* how far each request slot's refresh is
    target  \* the session it asks about

vars == <<gate, ask, target>>

Init ==
    /\ gate = [s \in Session |-> "unborn"]
    /\ ask = [r \in Request |-> "none"]
    /\ target = [r \in Request |-> NoSession]

Open(s) ==
    /\ gate[s] = "unborn"
    /\ gate' = [gate EXCEPT ![s] = "open"]
    /\ UNCHANGED <<ask, target>>

\* Logout closes one gate; logout everywhere, the clock or a deleted user, several.
Close(S) ==
    /\ \A s \in S : gate[s] = "open"
    /\ gate' = [s \in Session |-> IF s \in S THEN "closed" ELSE gate[s]]
    /\ UNCHANGED <<ask, target>>

Ask(r, s) ==
    /\ ask[r] = "none"
    /\ ask' = [ask EXCEPT ![r] = "asked"]
    /\ target' = [target EXCEPT ![r] = s]
    /\ UNCHANGED gate

\* The decision, at an instant the gate is open.
Allow(r) ==
    /\ ask[r] = "asked"
    /\ gate[target[r]] = "open"
    /\ ask' = [ask EXCEPT ![r] = "allowed"]
    /\ UNCHANGED <<gate, target>>

Grant(r) ==
    /\ ask[r] = "allowed"
    /\ ask' = [ask EXCEPT ![r] = "granted"]
    /\ UNCHANGED <<gate, target>>

\* The answer has reached the client, or the request was refused or failed.
Finish(r) ==
    /\ ask[r] # "none"
    /\ ask' = [ask EXCEPT ![r] = "none"]
    /\ target' = [target EXCEPT ![r] = NoSession]
    /\ UNCHANGED gate

Next ==
    \/ \E s \in Session : Open(s)
    \/ \E S \in SUBSET Session : Close(S)
    \/ \E r \in Request : Allow(r) \/ Grant(r) \/ Finish(r) \/ \E s \in Session : Ask(r, s)

Spec == Init /\ [][Next]_vars

=============================================================================
