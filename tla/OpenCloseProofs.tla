-------------------------- MODULE OpenCloseProofs ---------------------------
(***************************************************************************)
(* Proofs about the two ends of a connection's life: Failover, for any list *)
(* of endpoints, any budget and any number of concurrent calls, and        *)
(* Lifecycle, for any set of clones and any capacity.                      *)
(***************************************************************************)
EXTENDS Failover, Lifecycle, TLAPS, Integers

-----------------------------------------------------------------------------
(* TcpConnectionManager::create *)

\* A slice never passes what remains, and with at least MinSlice for each
\* endpoint left it leaves as much for each of the others.
LEMMA SliceCapped ==
    ASSUME NEW r \in Nat, NEW left \in Nat \ {0}
    PROVE  EndpointSlice(r, left) \in 0..r
<1>1. r \div left \in Nat
    BY FailoverAssumption
<1>. QED
    BY <1>1, FailoverAssumption DEF EndpointSlice, AtLeast, AtMost

LEMMA SliceShares ==
    ASSUME NEW r \in Nat, NEW left \in Nat \ {0}, r >= left * MinSlice
    PROVE  /\ EndpointSlice(r, left) >= MinSlice
           /\ r - EndpointSlice(r, left) >= (left - 1) * MinSlice
<1>. DEFINE q == r \div left
<1>1. q \in Nat /\ left * q <= r /\ r < left * (q + 1)
    OBVIOUS
<1>. HIDE DEF q
<1>2. q >= MinSlice
    <2>1. SUFFICES ASSUME q + 1 <= MinSlice PROVE FALSE
        BY <1>1, FailoverAssumption
    <2>2. left * (q + 1) <= left * MinSlice
        BY <1>1, <2>1, FailoverAssumption
    <2>. QED
        BY <1>1, <2>2, FailoverAssumption
<1>3. q <= r
    BY <1>1
<1>4. EndpointSlice(r, left) = q
    BY <1>1, <1>2, <1>3, FailoverAssumption DEF EndpointSlice, AtLeast, AtMost, q
<1>5. (left - 1) * MinSlice <= (left - 1) * q
    BY <1>1, <1>2, FailoverAssumption
<1>6. (left - 1) * q = left * q - q
    BY <1>1
<1>. QED
    BY <1>1, <1>2, <1>4, <1>5, <1>6, FailoverAssumption

\* The walk from s visits every endpoint in N attempts.
LEMMA WalkCovers ==
    ASSUME NEW s \in Endpoints, NEW e \in Endpoints
    PROVE  \E k \in 0..(N - 1) : (s + k) % N = e
<1>1. CASE s <= e
    <2>1. e - s \in 0..(N - 1) /\ (s + (e - s)) = e
        BY <1>1, FailoverAssumption DEF Endpoints
    <2>2. e % N = e
        BY FailoverAssumption DEF Endpoints
    <2>. QED
        BY <2>1, <2>2
<1>2. CASE s > e
    <2>1. (e + N) - s \in 0..(N - 1) /\ s + ((e + N) - s) = e + N
        BY <1>2, FailoverAssumption DEF Endpoints
    <2>2. (e + N) % N = e
        BY FailoverAssumption DEF Endpoints
    <2>. QED
        BY <2>1, <2>2
<1>. QED
    BY <1>1, <1>2, FailoverAssumption DEF Endpoints

-----------------------------------------------------------------------------

\* With MinSlice for each endpoint in the budget, call c has MinSlice left for
\* each endpoint it has not tried, and those it has tried are not healthy.
Walk(c) ==
    /\ timeout - spent[c] >= (N - i[c]) * MinSlice
    /\ \A k \in 0..(i[c] - 1) : ~Healthy((start[c] + k) % N)

FInv ==
    /\ CreateTypeOK
    /\ WithinBudget
    /\ \A c \in Calls : pc[c] = "idle" => i[c] = 0 /\ spent[c] = 0
    /\ timeout >= N * MinSlice => \A c \in Calls : pc[c] \in {"idle", "walking"} => Walk(c)
    /\ HealthyFound

LEMMA FInit == CreateInit => FInv
<1> SUFFICES ASSUME CreateInit PROVE FInv
    OBVIOUS
<1>. USE FailoverAssumption
<1>1. CreateTypeOK
    BY DEF CreateInit, CreateTypeOK, Endpoints
<1>2. timeout \in Nat
    BY DEF CreateInit
<1>3. WithinBudget
    BY <1>2 DEF CreateInit, WithinBudget
<1>4. ASSUME timeout >= N * MinSlice, NEW c \in Calls PROVE Walk(c)
    <2>1. spent[c] = 0 /\ i[c] = 0
        BY DEF CreateInit
    <2>2. (N - 0) * MinSlice = N * MinSlice /\ timeout - 0 = timeout
        BY <1>2
    <2>. QED
        BY <1>4, <2>1, <2>2 DEF Walk
<1>5. HealthyFound
    BY DEF CreateInit, HealthyFound
<1>6. \A c \in Calls : i[c] = 0 /\ spent[c] = 0
    BY DEF CreateInit
<1>. QED
    BY <1>1, <1>3, <1>4, <1>5, <1>6 DEF FInv

\* A call that may try an endpoint tries one of the list, for a slice within
\* what remains.
LEMMA TryingFacts ==
    ASSUME FInv, NEW c \in Calls, Trying(c)
    PROVE  /\ Current(c) \in Endpoints
           /\ timeout \in Nat /\ spent[c] \in Nat /\ i[c] \in Nat /\ i[c] < N
           /\ Remaining(c) \in Nat /\ N - i[c] \in Nat \ {0}
           /\ Slice(c) \in 0..Remaining(c)
           /\ delay[Current(c)] \in Nat
<1>. USE FailoverAssumption
<1>1. /\ timeout \in Nat /\ spent[c] \in Nat /\ i[c] \in Nat /\ i[c] < N
      /\ start[c] \in Nat
    BY DEF FInv, CreateTypeOK, Trying, Endpoints
<1>2. Current(c) \in Endpoints
    BY <1>1 DEF Current, Endpoints
<1>3. Remaining(c) \in Nat /\ N - i[c] \in Nat \ {0}
    BY <1>1 DEF Trying, Remaining
<1>4. Slice(c) \in 0..Remaining(c)
    BY <1>3, SliceCapped DEF Slice
<1>5. delay[Current(c)] \in Nat
    BY <1>2 DEF FInv, CreateTypeOK
<1>. QED
    BY <1>1, <1>2, <1>3, <1>4, <1>5

\* The calls that do not move keep their part of the invariant.
LEMMA Others ==
    ASSUME FInv, NEW c \in Calls, NEW d \in Calls, d # c,
           UNCHANGED <<timeout, delay, accepts>>,
           pc'[d] = pc[d], start'[d] = start[d], i'[d] = i[d], spent'[d] = spent[d],
           timeout >= N * MinSlice, pc[d] \in {"idle", "walking"}
    PROVE  Walk(d)'
<1>1. Walk(d)
    BY DEF FInv
<1>. QED
    BY <1>1 DEF Walk, Healthy

\* An attempt that failed after t ticks keeps the invariant.
LEMMA AttemptFailed ==
    ASSUME FInv, NEW c \in Calls, Trying(c),
           NEW t \in 0..Slice(c), ~Healthy(Current(c)) \/ Slice(c) < MinSlice,
           i' = [i EXCEPT ![c] = @ + 1],
           spent' = [spent EXCEPT ![c] = @ + t],
           UNCHANGED <<timeout, delay, accepts, next, pc, start>>
    PROVE  FInv'
<1>. USE FailoverAssumption
<1>1. /\ \A d \in Calls : i'[d] = IF d = c THEN i[c] + 1 ELSE i[d]
      /\ \A d \in Calls : spent'[d] = IF d = c THEN spent[c] + t ELSE spent[d]
    BY DEF FInv, CreateTypeOK
<1>2. t \in Nat /\ spent[c] + t <= timeout
    BY TryingFacts DEF Remaining
<1>3. CreateTypeOK'
    BY <1>2, TryingFacts DEF FInv, CreateTypeOK
<1>4. WithinBudget'
    BY <1>1, <1>2 DEF FInv, WithinBudget
<1>5. (\A d \in Calls : pc[d] = "idle" => i[d] = 0 /\ spent[d] = 0)'
    BY <1>1 DEF FInv, Trying
<1>6. ASSUME timeout >= N * MinSlice PROVE Walk(c)'
    <2>1. Walk(c)
        BY <1>6 DEF FInv, Trying
    <2>2. Remaining(c) >= (N - i[c]) * MinSlice
        BY <2>1 DEF Walk, Remaining
    <2>3. /\ Slice(c) >= MinSlice
          /\ Remaining(c) - Slice(c) >= (N - i[c] - 1) * MinSlice
        BY <2>2, TryingFacts, SliceShares DEF Slice
    <2>4. timeout - (spent[c] + t) >= (N - (i[c] + 1)) * MinSlice
        <3>1. N - (i[c] + 1) = N - i[c] - 1
            BY TryingFacts
        <3>. DEFINE rest == (N - i[c] - 1) * MinSlice
        <3>2. rest \in Nat
            BY TryingFacts
        <3>3. timeout - (spent[c] + t) >= rest
            <4>. HIDE DEF rest
            <4>. SUFFICES Remaining(c) - Slice(c) >= rest
                BY <3>2, TryingFacts DEF Remaining
            <4>. QED
                BY <2>3 DEF rest
        <3>. QED
            BY <3>1, <3>3
    <2>5. ~Healthy(Current(c))
        BY <2>3, TryingFacts
    <2>6. \A k \in 0..i[c] : ~Healthy((start[c] + k) % N)
        BY <2>1, <2>5, TryingFacts DEF Walk, Current
    <2>7. \A k \in 0..((i[c] + 1) - 1) : ~Healthy((start[c] + k) % N)
        BY <2>6, TryingFacts
    <2>. QED
        BY <1>1, <2>4, <2>7 DEF Walk, Healthy
<1>7. ASSUME timeout >= N * MinSlice, NEW d \in Calls, pc[d] \in {"idle", "walking"}
      PROVE  Walk(d)'
    BY <1>1, <1>6, <1>7, Others
<1>8. HealthyFound'
    BY DEF FInv, HealthyFound, Healthy
<1>. QED
    BY <1>3, <1>4, <1>5, <1>7, <1>8 DEF FInv

LEMMA FNext == FInv /\ [CreateNext]_createVars => FInv'
<1> SUFFICES ASSUME FInv, [CreateNext]_createVars PROVE FInv'
    OBVIOUS
<1>. USE FailoverAssumption
<1>1. ASSUME NEW c \in Calls, Begin(c) PROVE FInv'
    <2>1. CreateTypeOK'
        <3>1. next % N \in Endpoints /\ (next + 1) % Wrap \in 0..(Wrap - 1)
            BY DEF FInv, CreateTypeOK, Endpoints
        <3>. QED
            BY <1>1, <3>1 DEF Begin, FInv, CreateTypeOK
    <2>2. /\ \A d \in Calls : pc'[d] = IF d = c THEN "walking" ELSE pc[d]
          /\ \A d \in Calls : d # c => start'[d] = start[d]
        BY <1>1 DEF Begin, FInv, CreateTypeOK
    <2>3. ASSUME timeout >= N * MinSlice PROVE Walk(c)'
        <3>1. i[c] = 0 /\ Walk(c)
            BY <1>1, <2>3 DEF Begin, FInv
        <3>. QED
            BY <1>1, <3>1 DEF Begin, Walk
    <2>4. ASSUME timeout >= N * MinSlice, NEW d \in Calls, pc'[d] \in {"idle", "walking"}
          PROVE  Walk(d)'
        BY <1>1, <2>2, <2>3, <2>4, Others DEF Begin
    <2>. QED
        BY <1>1, <2>1, <2>2, <2>4 DEF Begin, FInv, WithinBudget, HealthyFound, Healthy
<1>2. ASSUME NEW c \in Calls, Connected(c) PROVE FInv'
    <2>1. spent[c] + delay[Current(c)] \in 0..timeout
        BY <1>2, TryingFacts DEF Connected, Remaining
    <2>2. CreateTypeOK'
        BY <1>2, <2>1 DEF Connected, FInv, CreateTypeOK
    <2>3. /\ \A d \in Calls : pc'[d] = IF d = c THEN "ok" ELSE pc[d]
          /\ \A d \in Calls : spent'[d] = IF d = c THEN spent[c] + delay[Current(c)] ELSE spent[d]
        BY <1>2 DEF Connected, FInv, CreateTypeOK
    <2>4. WithinBudget'
        BY <1>2, <2>1, <2>3 DEF Connected, FInv, WithinBudget
    <2>5. ASSUME timeout >= N * MinSlice, NEW d \in Calls, pc'[d] \in {"idle", "walking"}
          PROVE  Walk(d)'
        BY <1>2, <2>3, <2>5, Others DEF Connected
    <2>. QED
        BY <1>2, <2>2, <2>3, <2>4, <2>5 DEF Connected, FInv, HealthyFound, Healthy
<1>3. ASSUME NEW c \in Calls, Refused(c) PROVE FInv'
    <2>1. delay[Current(c)] \in 0..Slice(c) /\ ~Healthy(Current(c))
        BY <1>3, TryingFacts DEF Refused, Healthy
    <2>. QED
        BY <1>3, <2>1, AttemptFailed DEF Refused
<1>4. ASSUME NEW c \in Calls, SliceOver(c) PROVE FInv'
    <2>1. /\ Slice(c) \in 0..Slice(c)
          /\ ~Healthy(Current(c)) \/ Slice(c) < MinSlice
        BY <1>4, TryingFacts DEF SliceOver, Healthy
    <2>. QED
        BY <1>4, <2>1, AttemptFailed DEF SliceOver
<1>5. ASSUME NEW c \in Calls, GiveUp(c) PROVE FInv'
    <2>1. CreateTypeOK'
        BY <1>5 DEF GiveUp, FInv, CreateTypeOK
    <2>2. \A d \in Calls : pc'[d] = IF d = c THEN "err" ELSE pc[d]
        BY <1>5 DEF GiveUp, FInv, CreateTypeOK
    <2>3. ASSUME timeout >= N * MinSlice, NEW e \in Endpoints, Healthy(e) PROVE FALSE
        <3>1. Walk(c)
            BY <1>5, <2>3 DEF GiveUp, FInv
        <3>2. timeout \in Nat /\ spent[c] \in Nat /\ i[c] \in 0..N /\ start[c] \in Endpoints
            BY DEF FInv, CreateTypeOK
        <3>3. i[c] = N
            <4>. SUFFICES ASSUME i[c] < N, spent[c] >= timeout PROVE FALSE
                BY <1>5, <3>2 DEF GiveUp
            <4>1. (N - i[c]) * MinSlice > 0
                BY <3>2
            <4>. QED
                BY <3>1, <3>2, <4>1 DEF Walk
        <3>4. PICK k \in 0..(N - 1) : (start[c] + k) % N = e
            BY <3>2, WalkCovers
        <3>. QED
            BY <2>3, <3>1, <3>3, <3>4 DEF Walk
    <2>4. HealthyFound'
        BY <1>5, <2>3 DEF GiveUp, HealthyFound, Healthy
    <2>5. ASSUME timeout >= N * MinSlice, NEW d \in Calls, pc'[d] \in {"idle", "walking"}
          PROVE  Walk(d)'
        BY <1>5, <2>2, <2>5, Others DEF GiveUp
    <2>. QED
        BY <1>5, <2>1, <2>2, <2>4, <2>5 DEF GiveUp, FInv, WithinBudget
<1>6. ASSUME NEW c \in Calls, Again(c) PROVE FInv'
    <2>1. CreateTypeOK'
        BY <1>6 DEF Again, FInv, CreateTypeOK
    <2>2. /\ \A d \in Calls : pc'[d] = IF d = c THEN "idle" ELSE pc[d]
          /\ \A d \in Calls : i'[d] = IF d = c THEN 0 ELSE i[d]
          /\ \A d \in Calls : spent'[d] = IF d = c THEN 0 ELSE spent[d]
        BY <1>6 DEF Again, FInv, CreateTypeOK
    <2>3. timeout \in Nat
        BY DEF FInv, CreateTypeOK
    <2>4. WithinBudget'
        BY <1>6, <2>2, <2>3 DEF Again, FInv, WithinBudget
    <2>5. ASSUME timeout >= N * MinSlice PROVE Walk(c)'
        <3>1. (N - 0) * MinSlice = N * MinSlice /\ timeout - 0 = timeout
            BY <2>3
        <3>. QED
            BY <1>6, <2>2, <2>5, <3>1 DEF Again, Walk
    <2>6. ASSUME timeout >= N * MinSlice, NEW d \in Calls, pc'[d] \in {"idle", "walking"}
          PROVE  Walk(d)'
        BY <1>6, <2>2, <2>5, <2>6, Others DEF Again
    <2>. QED
        BY <1>6, <2>1, <2>2, <2>4, <2>6 DEF Again, FInv, HealthyFound, Healthy
<1>7. CASE UNCHANGED createVars
    BY <1>7 DEF createVars, FInv, CreateTypeOK, WithinBudget, Walk, HealthyFound, Healthy
<1>. QED
    BY <1>1, <1>2, <1>3, <1>4, <1>5, <1>6, <1>7 DEF CreateNext

\* create() stays within its budget for every list and every timeout.
THEOREM CreateWithinBudget == CreateSpec => []WithinBudget
<1>1. FInv => WithinBudget
    BY DEF FInv
<1>. QED
    BY FInit, FNext, <1>1, PTL DEF CreateSpec

\* A budget of MinSlice for each endpoint finds a healthy endpoint, for every
\* length of the list, every start and every behaviour of the others.
THEOREM CreateFindsHealthy == CreateSpec => []HealthyFound
<1>1. FInv => HealthyFound
    BY DEF FInv
<1>. QED
    BY FInit, FNext, <1>1, PTL DEF CreateSpec

\* For every list of endpoints: the round-robin counter stays below the value
\* it wraps at, every walk of create() starts inside the list and tries at most
\* as many endpoints as the list has.
THEOREM FailoverTypeCorrect == CreateSpec => []CreateTypeOK
<1>1. FInv => CreateTypeOK
    BY DEF FInv
<1>. QED
    BY FInit, FNext, <1>1, PTL DEF CreateSpec

-----------------------------------------------------------------------------
(* close() and the end of the actor *)

\* Somebody called close(), or no clone is left.
Ending ==
    \/ \E h \in Handles : handle[h] = "joining" \/ result[h] # "none"
    \/ \A h \in Handles : ~Live(h)

\* What makes the two invariants inductive: the shutdown signal, and the loss
\* of the control, have one of the two causes; the close() that holds the
\* control is still waiting; and the actor's Drop has run when the task ended.
LInv ==
    /\ TypeOK
    /\ signal \/ control = "gone" \/ task \in {"stopping", "done"} => Ending
    /\ \A h \in Handles : control = h => handle[h] = "joining"
    /\ TaskEnded => reader # "running"
    /\ FirstCloseWaits

LEMMA LInit == Init => LInv
<1> SUFFICES ASSUME Init PROVE LInv
    OBVIOUS
<1>1. TypeOK
    <2>1. /\ handle \in [Handles -> {"unborn", "held", "joining", "gone"}]
          /\ result \in [Handles -> {"none", "joined", "noop", "panic", "dropped"}]
        BY DEF Init
    <2>2. queued \in 0..MaxQueued
        BY LifecycleAssumption DEF Init
    <2>. QED
        BY <2>1, <2>2 DEF Init, TypeOK, TaskStates
<1>2. \A h \in Handles : control # h
    BY LifecycleAssumption DEF Init
<1>3. FirstCloseWaits
    BY DEF Init, FirstCloseWaits
<1>. QED
    BY <1>1, <1>2, <1>3 DEF Init, LInv, TaskEnded

\* Dropping a clone keeps the type of what it changes, and gives up the control
\* only when that clone is in close() or is the last.
LEMMA ReleaseFacts ==
    ASSUME LInv, NEW h \in Handles, Live(h), Release(h)
    PROVE  /\ handle' \in [Handles -> {"unborn", "held", "joining", "gone"}]
           /\ control' \in {"shared", "gone"} \cup Handles
           /\ signal' \in BOOLEAN
           /\ \A g \in Handles : control' = g => g # h /\ handle[g] = "joining"
           /\ \A g \in Handles : handle'[g] = IF g = h THEN "gone" ELSE handle[g]
           /\ signal' \/ control' = "gone" =>
                signal \/ control = "gone" \/ handle[h] = "joining" \/ \A g \in Handles : ~Live(g)'
<1>1. /\ handle' \in [Handles -> {"unborn", "held", "joining", "gone"}]
      /\ \A g \in Handles : handle'[g] = IF g = h THEN "gone" ELSE handle[g]
    BY DEF LInv, TypeOK, Release
<1>2. control' \in {"shared", "gone"} \cup Handles /\ signal' \in BOOLEAN
    BY DEF LInv, TypeOK, Release
<1>3. \A g \in Handles : control' = g => g # h /\ handle[g] = "joining"
    BY LifecycleAssumption DEF LInv, TypeOK, Release
<1>4. ASSUME \A g \in Handles \ {h} : ~Live(g)
      PROVE  \A g \in Handles : ~Live(g)'
    BY <1>1, <1>4 DEF Live
<1>5. control = h => handle[h] = "joining"
    BY DEF LInv
<1>6. signal' \/ control' = "gone" =>
        signal \/ control = "gone" \/ handle[h] = "joining" \/ \A g \in Handles : ~Live(g)'
    BY <1>4, <1>5 DEF Release
<1>. QED
    BY <1>1, <1>2, <1>3, <1>6

\* A step of a clone that drops it keeps the invariant, when it leaves the task
\* alone and records that a close() is over.
LEMMA ReleaseStep ==
    ASSUME LInv, NEW h \in Handles, Live(h), Release(h),
           NEW r \in {"none", "joined", "noop", "panic", "dropped"},
           result' = [result EXCEPT ![h] = r],
           handle[h] = "joining" => r # "none",
           result[h] # "none" => r # "none",
           r \in {"joined", "panic"} => TaskEnded /\ (r = "panic" <=> task = "panicked"),
           UNCHANGED <<queued, task, reader>>
    PROVE  LInv'
<1>1. TypeOK'
    BY ReleaseFacts DEF LInv, TypeOK
<1>2. ASSUME (signal \/ control = "gone" \/ task \in {"stopping", "done"})'
      PROVE  Ending'
    <2>1. CASE Ending
        <3>1. CASE \E g \in Handles : handle[g] = "joining" \/ result[g] # "none"
            <4>1. PICK g \in Handles : handle[g] = "joining" \/ result[g] # "none"
                BY <3>1
            <4>2. handle'[g] = "joining" \/ result'[g] # "none"
                BY <4>1, ReleaseFacts DEF LInv, TypeOK
            <4>. QED
                BY <4>2 DEF Ending
        <3>2. CASE \A g \in Handles : ~Live(g)
            BY <3>2
        <3>. QED
            BY <2>1, <3>1, <3>2 DEF Ending
    <2>2. CASE ~Ending
        <3>1. signal' \/ control' = "gone"
            BY <1>2, <2>2 DEF LInv
        <3>2. handle[h] # "joining"
            BY <2>2 DEF Ending
        <3>3. ~signal /\ control # "gone"
            BY <2>2 DEF LInv
        <3>4. \A g \in Handles : ~Live(g)'
            BY <3>1, <3>2, <3>3, ReleaseFacts
        <3>. QED
            BY <3>4 DEF Ending
    <2>. QED
        BY <2>1, <2>2
<1>3. (\A g \in Handles : control = g => handle[g] = "joining")'
    BY ReleaseFacts
<1>4. (TaskEnded => reader # "running")'
    BY DEF LInv, TaskEnded
<1>5. FirstCloseWaits'
    <2>1. \A g \in Handles : result'[g] = IF g = h THEN r ELSE result[g]
        BY DEF LInv, TypeOK
    <2>. QED
        BY <2>1 DEF LInv, FirstCloseWaits, TaskEnded
<1>. QED
    BY <1>1, <1>2, <1>3, <1>4, <1>5 DEF LInv

LEMMA LNext == LInv /\ [Next]_vars => LInv'
<1> SUFFICES ASSUME LInv, [Next]_vars PROVE LInv'
    OBVIOUS
<1>. USE LifecycleAssumption
<1>1. ASSUME NEW g \in Handles, NEW h \in Handles, Clone(g, h) PROVE LInv'
    <2>1. /\ \A k \in Handles : handle'[k] = IF k = h THEN "held" ELSE handle[k]
          /\ TypeOK'
        BY <1>1 DEF Clone, LInv, TypeOK
    <2>2. Live(g)
        BY <1>1 DEF Clone, Live
    <2>3. Ending => Ending'
        <3>1. ASSUME NEW k \in Handles, handle[k] = "joining" \/ result[k] # "none"
              PROVE  handle'[k] = "joining" \/ result'[k] # "none"
            BY <1>1, <2>1, <3>1 DEF Clone
        <3>. QED
            BY <2>2, <3>1 DEF Ending
    <2>. QED
        BY <1>1, <2>1, <2>3 DEF Clone, LInv, FirstCloseWaits, TaskEnded
<1>2. ASSUME NEW h \in Handles, DropHandle(h) PROVE LInv'
    <2>1. CASE handle[h] = "joining"
        BY <1>2, <2>1, ReleaseStep DEF DropHandle
    <2>2. CASE handle[h] # "joining"
        <3>1. result' = [result EXCEPT ![h] = result[h]]
            BY <1>2, <2>2 DEF DropHandle, LInv, TypeOK
        <3>2. result[h] \in {"none", "joined", "noop", "panic", "dropped"}
            BY DEF LInv, TypeOK
        <3>3. result[h] \in {"joined", "panic"} =>
                TaskEnded /\ (result[h] = "panic" <=> task = "panicked")
            BY DEF LInv, FirstCloseWaits
        <3>. QED
            BY <1>2, <2>2, <3>1, <3>2, <3>3, ReleaseStep DEF DropHandle
    <2>. QED
        BY <2>1, <2>2
<1>3. ASSUME NEW h \in Handles, Send(h) PROVE LInv'
    BY <1>3 DEF Send, LInv, TypeOK, Ending, Live, FirstCloseWaits, TaskEnded
<1>4. ASSUME NEW h \in Handles, CloseTakes(h) PROVE LInv'
    <2>1. /\ \A k \in Handles : handle'[k] = IF k = h THEN "joining" ELSE handle[k]
          /\ TypeOK'
        BY <1>4 DEF CloseTakes, LInv, TypeOK
    <2>2. Ending'
        BY <2>1 DEF Ending
    <2>. QED
        BY <1>4, <2>1, <2>2 DEF CloseTakes, LInv, FirstCloseWaits, TaskEnded
<1>5. ASSUME NEW h \in Handles, CloseFindsNone(h) PROVE LInv'
    BY <1>5, ReleaseStep DEF CloseFindsNone, Live
<1>6. ASSUME NEW h \in Handles, CloseReturns(h) PROVE LInv'
    <2>1. CASE task = "panicked"
        BY <1>6, <2>1, ReleaseStep DEF CloseReturns, Live
    <2>2. CASE task # "panicked"
        BY <1>6, <2>2, ReleaseStep DEF CloseReturns, Live
    <2>. QED
        BY <2>1, <2>2
<1>7. CASE TakeCommand
    BY <1>7 DEF TakeCommand, LInv, TypeOK, TaskStates, Ending, Live, FirstCloseWaits, TaskEnded
<1>8. CASE CommandEnds
    BY <1>8 DEF CommandEnds, LInv, TypeOK, TaskStates, Ending, Live, FirstCloseWaits, TaskEnded
<1>9. CASE Stop
    <2>1. Ending
        BY <1>9 DEF Stop, ChannelClosed, LInv
    <2>2. Ending'
        BY <1>9, <2>1 DEF Stop, Ending, Live
    <2>. QED
        BY <1>9, <2>2 DEF Stop, LInv, TypeOK, TaskStates, FirstCloseWaits, TaskEnded
<1>10. CASE Exit
    <2>1. Ending => Ending'
        BY <1>10 DEF Exit, DropActor, Ending, Live
    <2>. QED
        BY <1>10, <2>1 DEF Exit, DropActor, LInv, TypeOK, TaskStates, FirstCloseWaits, TaskEnded
<1>11. CASE Panic
    <2>1. Ending => Ending'
        BY <1>11 DEF Panic, DropActor, Ending, Live
    <2>. QED
        BY <1>11, <2>1 DEF Panic, DropActor, LInv, TypeOK, TaskStates, FirstCloseWaits, TaskEnded
<1>12. CASE ReaderEnds \/ ReaderAborted
    BY <1>12 DEF ReaderEnds, ReaderAborted, LInv, TypeOK, Ending, Live, FirstCloseWaits, TaskEnded
<1>13. CASE UNCHANGED vars
    BY <1>13 DEF vars, LInv, TypeOK, Ending, Live, FirstCloseWaits, TaskEnded
<1>. QED
    BY <1>1, <1>2, <1>3, <1>4, <1>5, <1>6, <1>7, <1>8, <1>9, <1>10, <1>11, <1>12, <1>13
    DEF Next, HandleStep, TaskStep, ReaderStep

\* However many clones there are and in whatever order they are cloned, dropped
\* and closed, the worker task stops only after a close() or the last drop.
THEOREM TaskLivesWithLastClone == Spec => []LivesWithLastClone
<1>1. LInv => LivesWithLastClone
    BY DEF LInv, Ending, LivesWithLastClone
<1>. QED
    BY LInit, LNext, <1>1, PTL DEF Spec

\* The close() that took the control returns only after the task ended, and
\* reports a panic exactly when the task panicked.
THEOREM FirstCloseAwaitsTask == Spec => []FirstCloseWaits
<1>1. LInv => FirstCloseWaits
    BY DEF LInv
<1>. QED
    BY LInit, LNext, <1>1, PTL DEF Spec

\* For any set of clones: the WorkerControl is shared, gone or with one of them,
\* and the task, its reader and each close() stay in the states actor.rs gives
\* them.
THEOREM LifecycleTypeCorrect == Spec => []TypeOK
<1>1. LInv => TypeOK
    BY DEF LInv
<1>. QED
    BY LInit, LNext, <1>1, PTL DEF Spec
=============================================================================
