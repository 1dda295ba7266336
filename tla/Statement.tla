----------------------------- MODULE Statement ------------------------------
(***************************************************************************)
(* What the TCP client promises about one statement, whatever pool,        *)
(* connection, retry or cancellation lies beneath it: how often it may     *)
(* reach a server, and what each outcome says about that.  Module Pool     *)
(* implements it.                                                          *)
(***************************************************************************)
EXTENDS Naturals

CONSTANTS
    Calls,         \* the statements, one call each
    MaxAttempts    \* RetryPolicy::max_attempts

VARIABLES
    kind,          \* kind[c]: the method called, "none" before it is
    status,        \* status[c]: "new", "active" or "done"
    reached,       \* reached[c]: how often a server was sent the statement
    result         \* result[c]: what the caller was told

vars == <<kind, status, reached, result>>

Methods == {"query", "idempotent", "stream", "insert"}

\* Outcomes that leave no doubt: no byte of the statement was written in the
\* attempt they end.
Unsent == {"refused", "connect", "denied", "exhausted"}

\* Only a statement the caller declared idempotent is ever replayed.
Allowed(k) == IF k = "idempotent" THEN MaxAttempts ELSE 1

Init ==
    /\ kind = [c \in Calls |-> "none"]
    /\ status = [c \in Calls |-> "new"]
    /\ reached = [c \in Calls |-> 0]
    /\ result = [c \in Calls |-> "none"]

Submit(c, k) ==
    /\ status[c] = "new"
    /\ kind' = [kind EXCEPT ![c] = k]
    /\ status' = [status EXCEPT ![c] = "active"]
    /\ UNCHANGED <<reached, result>>

Reach(c) ==
    /\ status[c] = "active"
    /\ reached[c] < Allowed(kind[c])
    /\ reached' = [reached EXCEPT ![c] = @ + 1]
    /\ UNCHANGED <<kind, status, result>>

\* The caller learns the outcome: success only of a statement that reached a
\* server, and an unsent outcome of a statement that is never replayed only if
\* it did not, so that the caller may issue it again.
Finish(c, r) ==
    /\ status[c] = "active"
    /\ r = "ok" => reached[c] > 0
    /\ r \in Unsent /\ kind[c] # "idempotent" => reached[c] = 0
    /\ status' = [status EXCEPT ![c] = "done"]
    /\ result' = [result EXCEPT ![c] = r]
    /\ UNCHANGED <<kind, reached>>

\* The caller drops the future; the command it left behind may still be sent.
Abandon(c) ==
    /\ status[c] = "active"
    /\ status' = [status EXCEPT ![c] = "done"]
    /\ result' = [result EXCEPT ![c] = "cancelled"]
    /\ \/ UNCHANGED reached
       \/ /\ reached[c] < Allowed(kind[c])
          /\ reached' = [reached EXCEPT ![c] = @ + 1]
    /\ UNCHANGED kind

Outcomes == {"ok", "rejected", "overloaded", "lost", "broken", "wedged"} \cup Unsent

Next == \E c \in Calls :
    \/ \E k \in Methods : Submit(c, k)
    \/ Reach(c)
    \/ \E r \in Outcomes : Finish(c, r)
    \/ Abandon(c)

Spec == Init /\ [][Next]_vars
=============================================================================
