------------------------------ MODULE Failover ------------------------------
(***************************************************************************)
(* TcpConnectionManager::create: a walk over the pool's endpoints, from a  *)
(* start that concurrent calls share out through an atomic cursor, under a *)
(* time budget that is split among the endpoints left.  Time is in ticks.  *)
(* (Without a create_timeout nothing bounds an attempt and there is        *)
(* nothing to say.)                                                        *)
(***************************************************************************)
EXTENDS Naturals

CONSTANTS
    N,           \* endpoints.len()
    Calls,       \* concurrent calls of create
    MinSlice,    \* MIN_ENDPOINT_SLICE
    Timeouts,    \* the create_timeouts a pool may be built with
    Wrap,        \* usize::MAX + 1
    Delays       \* bound: how long an attempt may take; a silent endpoint's is past every slice

ASSUME FailoverAssumption ==
    /\ N \in Nat \ {0}
    /\ MinSlice \in Nat \ {0}
    /\ Timeouts \subseteq Nat
    /\ Wrap \in Nat \ {0}
    /\ Delays \subseteq Nat

Endpoints == 0..(N - 1)

VARIABLES
    timeout,     \* create_timeout
    delay,       \* delay[e]: when an attempt on endpoint e would be over
    accepts,     \* accepts[e]: ... with a handshaken connection, or an error
    next,        \* the round-robin cursor
    pc,          \* pc[c]: "idle", "walking", "ok" or "err"
    start,       \* start[c]: the first endpoint of call c
    i,           \* i[c]: endpoints tried and failed
    spent        \* spent[c]: began.elapsed()

createVars == <<timeout, delay, accepts, next, pc, start, i, spent>>

\* The shape of the state.
CreateTypeOK ==
    /\ timeout \in Timeouts
    /\ delay \in [Endpoints -> Delays]
    /\ accepts \in [Endpoints -> BOOLEAN]
    /\ next \in 0..(Wrap - 1)
    /\ pc \in [Calls -> {"idle", "walking", "ok", "err"}]
    /\ start \in [Calls -> Endpoints]
    /\ i \in [Calls -> 0..N]
    /\ spent \in [Calls -> Nat]

CreateInit ==
    /\ timeout \in Timeouts
    /\ delay \in [Endpoints -> Delays]
    /\ accepts \in [Endpoints -> BOOLEAN]
    /\ next = 0
    /\ pc = [c \in Calls |-> "idle"]
    /\ start = [c \in Calls |-> 0]
    /\ i = [c \in Calls |-> 0]
    /\ spent = [c \in Calls |-> 0]

-----------------------------------------------------------------------------

AtLeast(a, b) == IF a < b THEN b ELSE a
AtMost(a, b) == IF a < b THEN a ELSE b

\* Defects: the slice is not capped by what remains; it is all that remains.
UncappedSlice(remaining, left) == AtLeast(remaining \div left, MinSlice)
WholeSlice(remaining, left) == remaining

\* The share of the remaining time one attempt may take.
EndpointSlice(remaining, left) == AtMost(AtLeast(remaining \div left, MinSlice), remaining)

\* Defect: the start is not taken modulo the endpoints.
BeginUnreduced(c) ==
    /\ pc[c] = "idle"
    /\ start' = [start EXCEPT ![c] = next]
    /\ next' = (next + 1) % Wrap
    /\ pc' = [pc EXCEPT ![c] = "walking"]
    /\ UNCHANGED <<timeout, delay, accepts, i, spent>>

Begin(c) ==
    /\ pc[c] = "idle"
    /\ start' = [start EXCEPT ![c] = next % N]
    /\ next' = (next + 1) % Wrap
    /\ pc' = [pc EXCEPT ![c] = "walking"]
    /\ UNCHANGED <<timeout, delay, accepts, i, spent>>

Current(c) == (start[c] + i[c]) % N
Remaining(c) == timeout - spent[c]

\* May call c try another endpoint, and for how long?
Trying(c) == pc[c] = "walking" /\ i[c] < N /\ spent[c] < timeout
Slice(c) == EndpointSlice(Remaining(c), N - i[c])

\* The attempt is over within its slice: with a connection, which create
\* returns, or with an error, which it remembers ...
Connected(c) ==
    /\ Trying(c) /\ delay[Current(c)] <= Slice(c) /\ accepts[Current(c)]
    /\ pc' = [pc EXCEPT ![c] = "ok"]
    /\ spent' = [spent EXCEPT ![c] = @ + delay[Current(c)]]
    /\ UNCHANGED <<timeout, delay, accepts, next, start, i>>
Refused(c) ==
    /\ Trying(c) /\ delay[Current(c)] <= Slice(c) /\ ~accepts[Current(c)]
    /\ i' = [i EXCEPT ![c] = @ + 1]
    /\ spent' = [spent EXCEPT ![c] = @ + delay[Current(c)]]
    /\ UNCHANGED <<timeout, delay, accepts, next, pc, start>>

\* ... or is dropped when the slice is over.
SliceOver(c) ==
    /\ Trying(c) /\ delay[Current(c)] > Slice(c)
    /\ i' = [i EXCEPT ![c] = @ + 1]
    /\ spent' = [spent EXCEPT ![c] = @ + Slice(c)]
    /\ UNCHANGED <<timeout, delay, accepts, next, pc, start>>

\* Every endpoint failed, or the budget is spent.
GiveUp(c) ==
    /\ pc[c] = "walking" /\ (i[c] = N \/ spent[c] >= timeout)
    /\ pc' = [pc EXCEPT ![c] = "err"]
    /\ UNCHANGED <<timeout, delay, accepts, next, start, i, spent>>

\* The pool asks again.
Again(c) ==
    /\ pc[c] \in {"ok", "err"}
    /\ pc' = [pc EXCEPT ![c] = "idle"]
    /\ i' = [i EXCEPT ![c] = 0]
    /\ spent' = [spent EXCEPT ![c] = 0]
    /\ UNCHANGED <<timeout, delay, accepts, next, start>>

CreateNext == \E c \in Calls :
    Begin(c) \/ Connected(c) \/ Refused(c) \/ SliceOver(c) \/ GiveUp(c) \/ Again(c)

CreateSpec == CreateInit /\ [][CreateNext]_createVars

-----------------------------------------------------------------------------
(* Properties *)

\* create() takes no longer than create_timeout in total, however the slices
\* are floored and rounded: deadpool's own timeout is off.
WithinBudget == \A c \in Calls : spent[c] <= timeout

\* Does endpoint e accept a connection within the least slice?
Healthy(e) == accepts[e] /\ delay[e] <= MinSlice

\* A budget of MIN_ENDPOINT_SLICE for each endpoint is enough: one healthy
\* endpoint anywhere in the list is found, wherever the walk starts and however
\* slow or silent the others are.
HealthyFound ==
    timeout >= N * MinSlice /\ (\E e \in Endpoints : Healthy(e)) =>
        \A c \in Calls : pc[c] # "err"
=============================================================================
