----------------------------- MODULE PoolProofs -----------------------------
(***************************************************************************)
(* Proofs about module Pool, for every number of calls, connections,       *)
(* permits and attempts: its invariant, and that it implements Statement.  *)
(***************************************************************************)
EXTENDS Pool, FiniteSetTheorems, TLAPS

\* Most steps are first-order; the ones with arithmetic, records or sequences
\* name SMT.
USE ZenonT(20) DEF Places

\* A call that holds a permit has one the semaphore lacks.
LEMMA PermitsBelow ==
    ASSUME TypeOK, NoLostSlot, NEW c \in Calls, pc[c] \in Holding
    PROVE  permits < MaxSize
<1>1. IsFiniteSet(Holders)
  BY PoolAssumption, FS_Subset DEF Holders
<1>2. Holders # {}
  BY DEF Holders
<1>3. Cardinality(Holders) \in Nat /\ Cardinality(Holders) # 0
  BY <1>1, <1>2, FS_EmptySet, FS_CardinalityType
<1>. QED
  BY <1>3, PoolAssumption, SMT DEF TypeOK, NoLostSlot

\* Giving a connection back, and the ways a command or an attempt can fail.
LEMMA GiveBackType ==
    ASSUME TypeOK, Loans, NoLostSlot, NEW c \in Calls, pc[c] \in Attached, GiveBack(c)
    PROVE  /\ permits' \in 0..MaxSize
           /\ place' \in [Conns -> Places]
           /\ conn' \in [Calls -> Conns \cup {None}]
<1>1. conn[c] \in Conns /\ permits < MaxSize
  BY PermitsBelow DEF Loans, Holding
<1>2. permits' \in 0..MaxSize
  BY <1>1, PoolAssumption, SMT DEF GiveBack, TypeOK
<1>. QED
  BY <1>1, <1>2 DEF GiveBack, TypeOK

LEMMA AttemptType ==
    ASSUME TypeOK, NEW c \in Calls, NEW e \in Outcomes, AttemptFails(c, e)
    PROVE  /\ pc' \in [Calls -> PCs]
           /\ result' \in [Calls -> Outcomes \cup {"none", "cancelled"}]
<1>1. /\ pc' \in {[pc EXCEPT ![c] = "backoff"], [pc EXCEPT ![c] = "done"]}
      /\ result' \in {result, [result EXCEPT ![c] = e]}
  BY DEF AttemptFails
<1>2. "backoff" \in PCs /\ "done" \in PCs
  BY DEF PCs
<1>. QED
  BY <1>1, <1>2, SMT DEF TypeOK

LEMMA CommandType ==
    ASSUME TypeOK, Loans, NoLostSlot, NEW c \in Calls, pc[c] \in Attached, NEW e \in Outcomes,
           CommandFails(c, e)
    PROVE  /\ pc' \in [Calls -> PCs]
           /\ result' \in [Calls -> Outcomes \cup {"none", "cancelled"}]
           /\ permits' \in 0..MaxSize
           /\ place' \in [Conns -> Places]
           /\ conn' \in [Calls -> Conns \cup {None}]
<1>1. CASE kind[c] = "stream"
  <2>1. "ended" \in PCs
    BY DEF PCs, Holding, Attached
  <2>. QED
    BY <1>1, <2>1 DEF CommandFails, TypeOK
<1>2. CASE kind[c] # "stream"
  <2>1. AttemptFails(c, e) /\ GiveBack(c)
    BY <1>2 DEF CommandFails
  <2>. QED
    BY <2>1, AttemptType, GiveBackType
<1>. QED
  BY <1>1, <1>2

\* Every step keeps the shape of the state.
LEMMA TypeStep ==
    ASSUME TypeOK, Loans, Counts, NoLostSlot, [Next]_vars
    PROVE  TypeOK'
<1>0. /\ {"waiting", "picking", "closing", "queued", "void", "running", "session", "ended", "done"} \subseteq PCs
      /\ {"closing", "queued", "ended", "session", "running", "void"} \subseteq Attached
      /\ {"refused", "wedged", "connect", "denied", "exhausted"} \subseteq Outcomes
      /\ {"ok"} \cup Rejections \cup Losses \subseteq Outcomes
      /\ CreateErrors \subseteq Outcomes
  BY DEF PCs, Holding, Attached, InFlight, Outcomes, Unsent, Rejections, Losses, CreateErrors
<1>1. ASSUME NEW c \in Calls, NEW k \in Kinds, Start(c, k) PROVE TypeOK'
  BY <1>0, <1>1, PoolAssumption, SMT DEF Start, TypeOK, poolVars, connVars
<1>2. ASSUME NEW c \in Calls, Acquire(c) PROVE TypeOK'
  BY <1>0, <1>2, PoolAssumption, SMT DEF Acquire, TypeOK, connVars
<1>3. ASSUME NEW c \in Calls, AcquireTimeout(c) PROVE TypeOK'
  <2>1. /\ pc' \in [Calls -> PCs]
        /\ result' \in [Calls -> Outcomes \cup {"none", "cancelled"}]
    BY <1>0, <1>3, AttemptType DEF AcquireTimeout
  <2>. QED
    BY <1>3, <2>1 DEF AcquireTimeout, TypeOK, poolVars, connVars
<1>4. ASSUME NEW c \in Calls, Backoff(c) PROVE TypeOK'
  <2>1. tries[c] + 1 \in 0..MaxAttempts
    BY <1>4, PoolAssumption, SMT DEF Backoff, Counts, TypeOK
  <2>. QED
    BY <1>0, <1>4, <2>1 DEF Backoff, TypeOK, poolVars, connVars
<1>5. ASSUME NEW c \in Calls, NEW k \in Conns, Pop(c, k) PROVE TypeOK'
  BY <1>0, <1>5, SMT DEF Pop, TypeOK, connVars
<1>6. ASSUME NEW c \in Calls, NEW k \in Conns, Create(c, k) PROVE TypeOK'
  BY <1>0, <1>6 DEF Create, TypeOK, connVars
<1>7. ASSUME NEW c \in Calls, NEW e \in CreateErrors, CreateFails(c, e) PROVE TypeOK'
  <2>1. /\ pc' \in [Calls -> PCs]
        /\ result' \in [Calls -> Outcomes \cup {"none", "cancelled"}]
    BY <1>0, <1>7, AttemptType DEF CreateFails
  <2>2. permits < MaxSize
    BY <1>7, PermitsBelow DEF CreateFails, Holding
  <2>3. permits' \in 0..MaxSize
    BY <1>7, <2>2, PoolAssumption, SMT DEF CreateFails, TypeOK
  <2>. QED
    BY <1>7, <2>1, <2>3 DEF CreateFails, TypeOK, connVars
<1>8. ASSUME NEW c \in Calls, CloseRefused(c) PROVE TypeOK'
  BY <1>0, <1>8 DEF CloseRefused, TypeOK, connVars
<1>9. ASSUME NEW c \in Calls, RecycleTimeout(c) PROVE TypeOK'
  <2>1. hurried' \in 0..MaxHurried
    BY <1>9, PoolAssumption, SMT DEF RecycleTimeout, TypeOK
  <2>2. pc' \in [Calls -> PCs] /\ conn' \in [Calls -> Conns \cup {None}]
    BY <1>0, <1>9 DEF RecycleTimeout, TypeOK
  <2>. QED
    BY <1>9, <2>1, <2>2 DEF RecycleTimeout, TypeOK, connVars
<1>10. ASSUME NEW c \in Calls, Refuse(c) PROVE TypeOK'
  <2>1. CommandFails(c, IF poisoned[conn[c]] THEN "refused" ELSE "wedged") /\ pc[c] \in Attached
    BY <1>0, <1>10 DEF Refuse
  <2>2. (IF poisoned[conn[c]] THEN "refused" ELSE "wedged") \in Outcomes
    BY <1>0
  <2>3. /\ pc' \in [Calls -> PCs]
        /\ result' \in [Calls -> Outcomes \cup {"none", "cancelled"}]
        /\ permits' \in 0..MaxSize
        /\ place' \in [Conns -> Places]
        /\ conn' \in [Calls -> Conns \cup {None}]
    BY <2>1, <2>2, CommandType
  <2>4. poisoned' \in [Conns -> BOOLEAN]
    BY <1>10 DEF Refuse, TypeOK
  <2>. QED
    BY <1>10, <2>3, <2>4 DEF Refuse, TypeOK
<1>11. ASSUME NEW c \in Calls, Send(c) PROVE TypeOK'
  <2>1. reached' \in [Calls -> Nat]
    BY <1>11, SMT DEF Send, TypeOK
  <2>2. pc' \in [Calls -> PCs]
    BY <1>0, <1>11 DEF Send, TypeOK
  <2>. QED
    BY <1>11, <2>1, <2>2 DEF Send, TypeOK, poolVars
<1>12. ASSUME NEW c \in Calls, Succeed(c) PROVE TypeOK'
  <2>1. pc' \in [Calls -> PCs] /\ result' \in [Calls -> Outcomes \cup {"none", "cancelled"}]
    BY <1>0, <1>12, SMT DEF Succeed, TypeOK
  <2>2. actor' \in [Conns -> {"idle", "busy", "insert"}]
    BY <1>12 DEF Succeed, TypeOK
  <2>3. GiveBack(c) \/ UNCHANGED <<conn, permits, place>>
    BY <1>12 DEF Succeed
  <2>4. pc[c] \in Attached
    BY <1>0, <1>12 DEF Succeed
  <2>5. /\ permits' \in 0..MaxSize
        /\ place' \in [Conns -> Places]
        /\ conn' \in [Calls -> Conns \cup {None}]
    BY <2>3, <2>4, GiveBackType DEF TypeOK
  <2>. QED
    BY <1>12, <2>1, <2>2, <2>5 DEF Succeed, TypeOK
<1>13. ASSUME NEW c \in Calls, NEW e \in Rejections, Reject(c, e) PROVE TypeOK'
  <2>1. CommandFails(c, e) /\ pc[c] \in Attached /\ e \in Outcomes
    BY <1>0, <1>13 DEF Reject
  <2>2. /\ pc' \in [Calls -> PCs]
        /\ result' \in [Calls -> Outcomes \cup {"none", "cancelled"}]
        /\ permits' \in 0..MaxSize
        /\ place' \in [Conns -> Places]
        /\ conn' \in [Calls -> Conns \cup {None}]
    BY <2>1, CommandType
  <2>. QED
    BY <1>13, <2>2 DEF Reject, TypeOK
<1>14. ASSUME NEW c \in Calls, NEW e \in Losses, Lose(c, e) PROVE TypeOK'
  <2>1. CommandFails(c, e) /\ pc[c] \in Attached /\ e \in Outcomes
    BY <1>0, <1>14 DEF Lose, InFlight
  <2>2. /\ pc' \in [Calls -> PCs]
        /\ result' \in [Calls -> Outcomes \cup {"none", "cancelled"}]
        /\ permits' \in 0..MaxSize
        /\ place' \in [Conns -> Places]
        /\ conn' \in [Calls -> Conns \cup {None}]
    BY <2>1, CommandType
  <2>. QED
    BY <1>14, <2>2 DEF Lose, TypeOK
<1>15. ASSUME NEW c \in Calls, DropCursor(c) PROVE TypeOK'
  <2>1. GiveBack(c) /\ pc[c] \in Attached
    BY <1>0, <1>15 DEF DropCursor
  <2>2. /\ permits' \in 0..MaxSize
        /\ place' \in [Conns -> Places]
        /\ conn' \in [Calls -> Conns \cup {None}]
    BY <2>1, GiveBackType
  <2>. QED
    BY <1>0, <1>15, <2>2 DEF DropCursor, TypeOK, connVars
<1>16. ASSUME NEW c \in Calls, BlockRejected(c) PROVE TypeOK'
  BY <1>16 DEF BlockRejected, TypeOK, callVars, poolVars
<1>17. ASSUME NEW c \in Calls, BlockFails(c) PROVE TypeOK'
  BY <1>17 DEF BlockFails, TypeOK, callVars, poolVars
<1>18. ASSUME NEW c \in Calls, NEW o \in {"ok"} \cup Rejections \cup Losses, Finish(c, o)
      PROVE TypeOK'
  <2>1. GiveBack(c) /\ pc[c] \in Attached /\ o \in Outcomes
    BY <1>0, <1>18 DEF Finish
  <2>2. /\ permits' \in 0..MaxSize
        /\ place' \in [Conns -> Places]
        /\ conn' \in [Calls -> Conns \cup {None}]
    BY <2>1, GiveBackType
  <2>3. poisoned' \in [Conns -> BOOLEAN] /\ actor' \in [Conns -> {"idle", "busy", "insert"}]
    BY <1>18 DEF Finish, TypeOK
  <2>4. pc' \in [Calls -> PCs] /\ result' \in [Calls -> Outcomes \cup {"none", "cancelled"}]
    BY <1>0, <1>18, <2>1 DEF Finish, TypeOK
  <2>. QED
    BY <1>18, <2>2, <2>3, <2>4 DEF Finish, TypeOK
<1>19. ASSUME NEW c \in Calls, DropSession(c) PROVE TypeOK'
  <2>1. GiveBack(c) /\ pc[c] \in Attached
    BY <1>0, <1>19 DEF DropSession
  <2>2. /\ permits' \in 0..MaxSize
        /\ place' \in [Conns -> Places]
        /\ conn' \in [Calls -> Conns \cup {None}]
    BY <2>1, GiveBackType
  <2>. QED
    BY <1>0, <1>19, <2>2 DEF DropSession, TypeOK
<1>20. ASSUME NEW c \in Calls, CancelAcquire(c) PROVE TypeOK'
  <2>1. pc[c] = "picking" => permits < MaxSize
    BY PermitsBelow DEF Holding
  <2>2. permits' \in 0..MaxSize
    BY <1>20, <2>1, PoolAssumption, SMT DEF CancelAcquire, TypeOK
  <2>. QED
    BY <1>0, <1>20, <2>2 DEF CancelAcquire, TypeOK, connVars
<1>21. ASSUME NEW c \in Calls, CancelClosing(c) PROVE TypeOK'
  <2>1. permits < MaxSize
    BY <1>0, <1>21, PermitsBelow DEF CancelClosing, Holding
  <2>2. permits' \in 0..MaxSize /\ hurried' \in 0..MaxHurried
    BY <1>21, <2>1, PoolAssumption, SMT DEF CancelClosing, TypeOK
  <2>. QED
    BY <1>0, <1>21, <2>2 DEF CancelClosing, TypeOK, connVars
<1>22. ASSUME NEW c \in Calls, CancelCommand(c) PROVE TypeOK'
  <2>1. GiveBack(c) /\ pc[c] \in Attached
    BY <1>0, <1>22 DEF CancelCommand, InFlight
  <2>2. /\ permits' \in 0..MaxSize
        /\ place' \in [Conns -> Places]
        /\ conn' \in [Calls -> Conns \cup {None}]
    BY <2>1, GiveBackType
  <2>3. reached' \in [Calls -> Nat] /\ actor' \in [Conns -> {"idle", "busy", "insert"}]
    BY <1>22, SMT DEF CancelCommand, TypeOK
  <2>4. poisoned' \in [Conns -> BOOLEAN]
    BY <1>22 DEF CancelCommand, TypeOK
  <2>. QED
    BY <1>0, <1>22, <2>2, <2>3, <2>4 DEF CancelCommand, TypeOK
<1>23. ASSUME NEW k \in Conns, DrainEnds(k) PROVE TypeOK'
  BY <1>23 DEF DrainEnds, TypeOK, callVars, poolVars
<1>24. ASSUME NEW k \in Conns, DrainFails(k) PROVE TypeOK'
  BY <1>24 DEF DrainFails, TypeOK, callVars, poolVars
<1>25. ASSUME NEW k \in Conns, ActorEnds(k) PROVE TypeOK'
  BY <1>25 DEF ActorEnds, TypeOK, callVars
<1>26. ASSUME NEW k \in Conns, Cut(k) PROVE TypeOK'
  BY <1>26 DEF Cut, TypeOK, callVars, poolVars
<1>27. ASSUME NEW k \in Conns, Notice(k) PROVE TypeOK'
  BY <1>27 DEF Notice, TypeOK, callVars, poolVars
<1>28. CASE UNCHANGED vars
  BY <1>28 DEF vars, callVars, poolVars, connVars, TypeOK
<1>29. ASSUME NEW k \in Conns, ReaderDropped(k) PROVE TypeOK'
  BY <1>29 DEF ReaderDropped, TypeOK, callVars, connVars
<1>. QED
  BY <1>1, <1>2, <1>3, <1>4, <1>5, <1>6, <1>7, <1>8, <1>9, <1>10, <1>11, <1>12, <1>13, <1>14,
     <1>15, <1>16, <1>17, <1>18, <1>19, <1>20, <1>21, <1>22, <1>23, <1>24, <1>25, <1>26, <1>27,
     <1>28, <1>29
  DEF Next, GetStep, RunStep, HolderStep, CancelStep, ActorStep, LinkStep

\* How a step may move permits: not at all, or one with the call it is for.
Balanced ==
    \/ Holders' = Holders /\ permits' = permits
    \/ \E c \in Holders : Holders' = Holders \ {c} /\ permits' = permits + 1
    \/ \E c \in Calls \ Holders : Holders' = Holders \cup {c} /\ permits' = permits - 1

\* A balanced step loses no slot.
LEMMA BalancedKeepsSlots ==
    ASSUME TypeOK, NoLostSlot, Balanced
    PROVE  NoLostSlot'
<1>1. IsFiniteSet(Holders) /\ Holders \subseteq Calls
  BY PoolAssumption, FS_Subset DEF Holders
<1>2. Cardinality(Holders) \in Nat
  BY <1>1, FS_CardinalityType
<1>3. CASE Holders' = Holders /\ permits' = permits
  BY <1>3 DEF NoLostSlot
<1>4. ASSUME NEW c \in Holders, Holders' = Holders \ {c}, permits' = permits + 1
      PROVE  NoLostSlot'
  <2>1. Cardinality(Holders \ {c}) = Cardinality(Holders) - 1
    BY <1>1, FS_RemoveElement
  <2>. QED
    BY <2>1, <1>2, <1>4, PoolAssumption, SMT DEF NoLostSlot, TypeOK
<1>5. ASSUME NEW c \in Calls \ Holders, Holders' = Holders \cup {c}, permits' = permits - 1
      PROVE  NoLostSlot'
  <2>1. Cardinality(Holders \cup {c}) = Cardinality(Holders) + 1
    BY <1>1, FS_AddElement
  <2>. QED
    BY <2>1, <1>2, <1>5, PoolAssumption, SMT DEF NoLostSlot, TypeOK
<1>. QED
  BY <1>3, <1>4, <1>5 DEF Balanced

\* Every step is balanced.
LEMMA StepIsBalanced ==
    ASSUME TypeOK, Loans, [Next]_vars
    PROVE  Balanced
<1> USE
      DEF TypeOK, Balanced, Holders, callVars, poolVars, connVars, PCs, Holding, Attached,
          InFlight
<1>1. ASSUME NEW c \in Calls, NEW k \in Kinds, Start(c, k) PROVE Balanced
  BY <1>1 DEF Start
<1>2. ASSUME NEW c \in Calls, Acquire(c) PROVE Balanced
  BY <1>2, SMT DEF Acquire
<1>3. ASSUME NEW c \in Calls, AcquireTimeout(c) PROVE Balanced
  BY <1>3, SMT DEF AcquireTimeout, AttemptFails, Replays
<1>4. ASSUME NEW c \in Calls, Backoff(c) PROVE Balanced
  BY <1>4 DEF Backoff
<1>5. ASSUME NEW c \in Calls, NEW k \in Conns, Pop(c, k) PROVE Balanced
  BY <1>5 DEF Pop, RecycleRefusal
<1>6. ASSUME NEW c \in Calls, NEW k \in Conns, Create(c, k) PROVE Balanced
  BY <1>6 DEF Create
<1>7. ASSUME NEW c \in Calls, NEW e \in CreateErrors, CreateFails(c, e) PROVE Balanced
  BY <1>7, SMT DEF CreateFails, AttemptFails, Replays, CreateErrors
<1>8. ASSUME NEW c \in Calls, CloseRefused(c) PROVE Balanced
  BY <1>8 DEF CloseRefused
<1>9. ASSUME NEW c \in Calls, RecycleTimeout(c) PROVE Balanced
  BY <1>9 DEF RecycleTimeout
<1>10. ASSUME NEW c \in Calls, Refuse(c) PROVE Balanced
  BY <1>10, SMT DEF Refuse, CommandFails, AttemptFails, Replays, GiveBack
<1>11. ASSUME NEW c \in Calls, Send(c) PROVE Balanced
  BY <1>11, SMT DEF Send
<1>12. ASSUME NEW c \in Calls, Succeed(c) PROVE Balanced
  BY <1>12, SMT DEF Succeed, GiveBack
<1>13. ASSUME NEW c \in Calls, NEW e \in Rejections, Reject(c, e) PROVE Balanced
  BY <1>13, SMT DEF Reject, CommandFails, AttemptFails, Replays, GiveBack, Rejections
<1>14. ASSUME NEW c \in Calls, NEW e \in Losses, Lose(c, e) PROVE Balanced
  BY <1>14, SMT DEF Lose, CommandFails, AttemptFails, Replays, GiveBack, Losses
<1>15. ASSUME NEW c \in Calls, DropCursor(c) PROVE Balanced
  BY <1>15 DEF DropCursor, GiveBack
<1>16. ASSUME NEW c \in Calls, BlockRejected(c) PROVE Balanced
  BY <1>16 DEF BlockRejected
<1>17. ASSUME NEW c \in Calls, BlockFails(c) PROVE Balanced
  BY <1>17 DEF BlockFails
<1>18. ASSUME NEW c \in Calls, NEW o \in {"ok"} \cup Rejections \cup Losses, Finish(c, o)
      PROVE Balanced
  BY <1>18 DEF Finish, GiveBack, Rejections, Losses
<1>19. ASSUME NEW c \in Calls, DropSession(c) PROVE Balanced
  BY <1>19 DEF DropSession, GiveBack
<1>20. ASSUME NEW c \in Calls, CancelAcquire(c) PROVE Balanced
  BY <1>20 DEF CancelAcquire
<1>21. ASSUME NEW c \in Calls, CancelClosing(c) PROVE Balanced
  BY <1>21 DEF CancelClosing
<1>22. ASSUME NEW c \in Calls, CancelCommand(c) PROVE Balanced
  BY <1>22, SMT DEF CancelCommand, GiveBack
<1>23. ASSUME NEW k \in Conns, DrainEnds(k) PROVE Balanced
  BY <1>23 DEF DrainEnds
<1>24. ASSUME NEW k \in Conns, DrainFails(k) PROVE Balanced
  BY <1>24 DEF DrainFails
<1>25. ASSUME NEW k \in Conns, ActorEnds(k) PROVE Balanced
  BY <1>25 DEF ActorEnds
<1>26. ASSUME NEW k \in Conns, Cut(k) PROVE Balanced
  BY <1>26 DEF Cut
<1>27. ASSUME NEW k \in Conns, Notice(k) PROVE Balanced
  BY <1>27 DEF Notice
<1>28. CASE UNCHANGED vars
  BY <1>28 DEF vars, callVars, poolVars, connVars
<1>29. ASSUME NEW k \in Conns, ReaderDropped(k) PROVE Balanced
  BY <1>29 DEF ReaderDropped
<1>. QED
  BY <1>1, <1>2, <1>3, <1>4, <1>5, <1>6, <1>7, <1>8, <1>9, <1>10, <1>11, <1>12, <1>13, <1>14,
     <1>15, <1>16, <1>17, <1>18, <1>19, <1>20, <1>21, <1>22, <1>23, <1>24, <1>25, <1>26, <1>27,
     <1>28, <1>29
  DEF Next, GetStep, RunStep, HolderStep, CancelStep, ActorStep, LinkStep

\* How a step other than Create may move connections: none joins the pool, and
\* one that is orphaned is counted.
Shrinking ==
    /\ Pooled' \subseteq Pooled
    /\ \/ Orphans' \subseteq Orphans /\ hurried' = hurried
       \/ \E k \in Conns : Orphans' \subseteq Orphans \cup {k} /\ hurried' = hurried + 1

\* An element adds at most one.
LEMMA AtMostOneMore ==
    ASSUME NEW S, NEW x, IsFiniteSet(S)
    PROVE  IsFiniteSet(S \cup {x}) /\ Cardinality(S \cup {x}) <= Cardinality(S) + 1
<1>1. IsFiniteSet(S \cup {x})
  BY FS_AddElement
<1>2. Cardinality(S \cup {x}) = IF x \in S THEN Cardinality(S) ELSE Cardinality(S) + 1
  BY FS_AddElement
<1>3. Cardinality(S) \in Nat
  BY FS_CardinalityType
<1>4. Cardinality(S \cup {x}) <= Cardinality(S) + 1
  BY <1>2, <1>3, SMT
<1>. QED
  BY <1>1, <1>4

\* Such a step keeps the sizes.
LEMMA ShrinkingKeepsSizes ==
    ASSUME TypeOK, Sizes, Shrinking
    PROVE  Sizes'
<1>1. IsFiniteSet(Pooled) /\ IsFiniteSet(Orphans)
  BY PoolAssumption, FS_Subset DEF Pooled, Orphans
<1>2. Cardinality(Pooled) \in Nat /\ Cardinality(Orphans) \in Nat
  BY <1>1, FS_CardinalityType
<1>3. IsFiniteSet(Pooled') /\ Cardinality(Pooled') \in Nat
      /\ Cardinality(Pooled') <= Cardinality(Pooled)
  BY <1>1, FS_Subset, FS_CardinalityType DEF Shrinking
<1>4. Cardinality(Pooled') <= MaxSize
  BY <1>2, <1>3, PoolAssumption, SMT DEF Sizes
<1>5. CASE Orphans' \subseteq Orphans /\ hurried' = hurried
  <2>1. Cardinality(Orphans') \in Nat /\ Cardinality(Orphans') <= Cardinality(Orphans)
    BY <1>1, <1>5, FS_Subset, FS_CardinalityType
  <2>. QED
    BY <2>1, <1>2, <1>4, <1>5, PoolAssumption, SMT DEF Sizes, TypeOK
<1>6. ASSUME NEW k \in Conns, Orphans' \subseteq Orphans \cup {k}, hurried' = hurried + 1
      PROVE  Sizes'
  <2>1. IsFiniteSet(Orphans \cup {k}) /\ Cardinality(Orphans \cup {k}) <= Cardinality(Orphans) + 1
    BY <1>1, AtMostOneMore
  <2>2. Cardinality(Orphans \cup {k}) \in Nat
    BY <2>1, FS_CardinalityType
  <2>3. Cardinality(Orphans') \in Nat /\ Cardinality(Orphans') <= Cardinality(Orphans \cup {k})
    BY <2>1, <1>6, FS_Subset, FS_CardinalityType
  <2>. QED
    BY <2>1, <2>2, <2>3, <1>2, <1>4, <1>6, PoolAssumption, SMT DEF Sizes, TypeOK
<1>. QED
  BY <1>5, <1>6 DEF Shrinking

\* A call about to create a connection leaves room for it: every connection
\* outside the pool is with another holder of a permit, and none is idle.
LEMMA RoomForOne ==
    ASSUME TypeOK, Loans, NoLostSlot, NEW c \in Calls, pc[c] = "picking",
           \A j \in Conns : place[j] # "idle"
    PROVE  IsFiniteSet(Pooled) /\ Cardinality(Pooled) \in Nat /\ Cardinality(Pooled) < MaxSize
<1> DEFINE Others == Holders \ {c}
           Borrowers == {d \in Calls : pc[d] \in Attached}
           lent == [d \in Borrowers |-> conn[d]]
<1>1. Pooled = Borrowed
  BY DEF Pooled, Borrowed, TypeOK
<1>2. IsFiniteSet(Holders) /\ IsFiniteSet(Borrowers) /\ IsFiniteSet(Pooled)
  BY PoolAssumption, FS_Subset DEF Holders, Pooled
<1>3. Borrowers \subseteq Others
  BY DEF Holders, Holding, Attached, InFlight
<1>4. {k \in Conns : \E d \in Borrowers : lent[d] = k} = Pooled
  <2>1. ASSUME NEW d \in Borrowers PROVE lent[d] \in Borrowed
    BY DEF Loans, Borrowed, Taken
  <2>2. ASSUME NEW k \in Borrowed PROVE \E d \in Borrowers : lent[d] = k
    <3>1. PICK d \in Calls : conn[d] = k
      BY DEF Loans
    <3>2. d \in Borrowers
      BY <3>1, PoolAssumption DEF Loans, Borrowed
    <3>. QED
      BY <3>1, <3>2
  <2>. QED
    BY <1>1, <2>1, <2>2 DEF Borrowed
<1>5. lent \in Surjection(Borrowers, Pooled)
  BY <1>4 DEF Surjection, Loans
<1>6. Cardinality(Pooled) <= Cardinality(Borrowers)
  BY <1>2, <1>5, FS_Surjection
<1>7. IsFiniteSet(Others) /\ Cardinality(Others) = Cardinality(Holders) - 1
  BY <1>2, FS_RemoveElement DEF Holders, Holding
<1>8. Cardinality(Borrowers) <= Cardinality(Others)
  BY <1>3, <1>7, FS_Subset
<1>9. /\ Cardinality(Pooled) \in Nat /\ Cardinality(Borrowers) \in Nat
      /\ Cardinality(Holders) \in Nat /\ Cardinality(Others) \in Nat
  BY <1>2, <1>7, FS_CardinalityType
<1>. QED
  BY <1>2, <1>6, <1>7, <1>8, <1>9, PoolAssumption, SMT DEF TypeOK, NoLostSlot

\* Every step keeps the sizes.
LEMMA SizesStep ==
    ASSUME TypeOK, Loans, NoLostSlot, Sizes, [Next]_vars
    PROVE  Sizes'
<1>1. ASSUME NEW c \in Calls, NEW k \in Kinds, Start(c, k) PROVE Sizes'
  BY <1>1, ShrinkingKeepsSizes
  DEF Start, TypeOK, Loans, Shrinking, Pooled, Orphans, Taken, callVars, poolVars, connVars, PCs,
      Holding, Attached, InFlight
<1>2. ASSUME NEW c \in Calls, Acquire(c) PROVE Sizes'
  BY <1>2, ShrinkingKeepsSizes
  DEF Acquire, TypeOK, Loans, Shrinking, Pooled, Orphans, Taken, callVars, poolVars, connVars,
      PCs, Holding, Attached, InFlight
<1>3. ASSUME NEW c \in Calls, AcquireTimeout(c) PROVE Sizes'
  BY <1>3, ShrinkingKeepsSizes
  DEF AcquireTimeout, AttemptFails, Replays, TypeOK, Loans, Shrinking, Pooled, Orphans, Taken,
      callVars, poolVars, connVars, PCs, Holding, Attached, InFlight
<1>4. ASSUME NEW c \in Calls, Backoff(c) PROVE Sizes'
  BY <1>4, ShrinkingKeepsSizes
  DEF Backoff, TypeOK, Loans, Shrinking, Pooled, Orphans, Taken, callVars, poolVars, connVars,
      PCs, Holding, Attached, InFlight
<1>5. ASSUME NEW c \in Calls, NEW k \in Conns, Pop(c, k) PROVE Sizes'
  BY <1>5, ShrinkingKeepsSizes, SMT
  DEF Pop, RecycleRefusal, TypeOK, Loans, Shrinking, Pooled, Orphans, Taken, callVars, poolVars,
      connVars, PCs, Holding, Attached, InFlight
<1>6. ASSUME NEW c \in Calls, NEW k \in Conns, Create(c, k) PROVE Sizes'
  <2>1. IsFiniteSet(Pooled) /\ Cardinality(Pooled) \in Nat /\ Cardinality(Pooled) < MaxSize
    BY <1>6, RoomForOne DEF Create
  <2>2. Pooled' = Pooled \cup {k} /\ k \notin Pooled /\ Orphans' = Orphans /\ hurried' = hurried
    BY <1>6 DEF Create, Pooled, Orphans, Taken, TypeOK
  <2>3. Cardinality(Pooled \cup {k}) = Cardinality(Pooled) + 1
    BY <2>1, <2>2, FS_AddElement
  <2>. QED
    BY <2>1, <2>2, <2>3, PoolAssumption, SMT DEF Sizes
<1>7. ASSUME NEW c \in Calls, NEW e \in CreateErrors, CreateFails(c, e) PROVE Sizes'
  BY <1>7, ShrinkingKeepsSizes
  DEF CreateFails, AttemptFails, Replays, CreateErrors, TypeOK, Loans, Shrinking, Pooled,
      Orphans, Taken, callVars, poolVars, connVars, PCs, Holding, Attached, InFlight
<1>8. ASSUME NEW c \in Calls, CloseRefused(c) PROVE Sizes'
  BY <1>8, ShrinkingKeepsSizes, SMT
  DEF CloseRefused, TypeOK, Loans, Shrinking, Pooled, Orphans, Taken, callVars, poolVars,
      connVars, PCs, Holding, Attached, InFlight
<1>9. ASSUME NEW c \in Calls, RecycleTimeout(c) PROVE Sizes'
  BY <1>9, ShrinkingKeepsSizes, SMT
  DEF RecycleTimeout, TypeOK, Loans, Shrinking, Pooled, Orphans, Taken, callVars, poolVars,
      connVars, PCs, Holding, Attached, InFlight
<1>10. ASSUME NEW c \in Calls, Refuse(c) PROVE Sizes'
  BY <1>10, ShrinkingKeepsSizes, SMT
  DEF Refuse, CommandFails, AttemptFails, Replays, GiveBack, TypeOK, Loans, Shrinking, Pooled,
      Orphans, Taken, callVars, poolVars, connVars, PCs, Holding, Attached, InFlight
<1>11. ASSUME NEW c \in Calls, Send(c) PROVE Sizes'
  BY <1>11, ShrinkingKeepsSizes
  DEF Send, TypeOK, Loans, Shrinking, Pooled, Orphans, Taken, callVars, poolVars, connVars, PCs,
      Holding, Attached, InFlight
<1>12. ASSUME NEW c \in Calls, Succeed(c) PROVE Sizes'
  BY <1>12, ShrinkingKeepsSizes, SMT
  DEF Succeed, GiveBack, TypeOK, Loans, Shrinking, Pooled, Orphans, Taken, callVars, poolVars,
      connVars, PCs, Holding, Attached, InFlight
<1>13. ASSUME NEW c \in Calls, NEW e \in Rejections, Reject(c, e) PROVE Sizes'
  BY <1>13, ShrinkingKeepsSizes, SMT
  DEF Reject, CommandFails, AttemptFails, Replays, GiveBack, Rejections, TypeOK, Loans,
      Shrinking, Pooled, Orphans, Taken, callVars, poolVars, connVars, PCs, Holding, Attached,
          InFlight
<1>14. ASSUME NEW c \in Calls, NEW e \in Losses, Lose(c, e) PROVE Sizes'
  BY <1>14, ShrinkingKeepsSizes, SMT
  DEF Lose, CommandFails, AttemptFails, Replays, GiveBack, Losses, TypeOK, Loans, Shrinking,
      Pooled, Orphans, Taken, callVars, poolVars, connVars, PCs, Holding, Attached, InFlight
<1>15. ASSUME NEW c \in Calls, DropCursor(c) PROVE Sizes'
  BY <1>15, ShrinkingKeepsSizes, SMT
  DEF DropCursor, GiveBack, TypeOK, Loans, Shrinking, Pooled, Orphans, Taken, callVars, poolVars,
      connVars, PCs, Holding, Attached, InFlight
<1>16. ASSUME NEW c \in Calls, BlockRejected(c) PROVE Sizes'
  BY <1>16, ShrinkingKeepsSizes
  DEF BlockRejected, TypeOK, Loans, Shrinking, Pooled, Orphans, Taken, callVars, poolVars,
      connVars, PCs, Holding, Attached, InFlight
<1>17. ASSUME NEW c \in Calls, BlockFails(c) PROVE Sizes'
  BY <1>17, ShrinkingKeepsSizes
  DEF BlockFails, TypeOK, Loans, Shrinking, Pooled, Orphans, Taken, callVars, poolVars, connVars,
      PCs, Holding, Attached, InFlight
<1>18. ASSUME NEW c \in Calls, NEW o \in {"ok"} \cup Rejections \cup Losses, Finish(c, o)
      PROVE Sizes'
  BY <1>18, ShrinkingKeepsSizes, SMT
  DEF Finish, GiveBack, Rejections, Losses, TypeOK, Loans, Shrinking, Pooled, Orphans, Taken,
      callVars, poolVars, connVars, PCs, Holding, Attached, InFlight
<1>19. ASSUME NEW c \in Calls, DropSession(c) PROVE Sizes'
  BY <1>19, ShrinkingKeepsSizes, SMT
  DEF DropSession, GiveBack, TypeOK, Loans, Shrinking, Pooled, Orphans, Taken, callVars, poolVars,
      connVars, PCs, Holding, Attached, InFlight
<1>20. ASSUME NEW c \in Calls, CancelAcquire(c) PROVE Sizes'
  BY <1>20, ShrinkingKeepsSizes
  DEF CancelAcquire, TypeOK, Loans, Shrinking, Pooled, Orphans, Taken, callVars, poolVars,
      connVars, PCs, Holding, Attached, InFlight
<1>21. ASSUME NEW c \in Calls, CancelClosing(c) PROVE Sizes'
  BY <1>21, ShrinkingKeepsSizes, SMTT(30)
  DEF CancelClosing, TypeOK, Loans, Shrinking, Pooled, Orphans, Taken, callVars, poolVars,
      connVars, PCs, Holding, Attached, InFlight
<1>22. ASSUME NEW c \in Calls, CancelCommand(c) PROVE Sizes'
  BY <1>22, ShrinkingKeepsSizes, SMT
  DEF CancelCommand, GiveBack, TypeOK, Loans, Shrinking, Pooled, Orphans, Taken, callVars,
      poolVars,
      connVars, PCs, Holding, Attached, InFlight
<1>23. ASSUME NEW k \in Conns, DrainEnds(k) PROVE Sizes'
  BY <1>23, ShrinkingKeepsSizes
  DEF DrainEnds, TypeOK, Loans, Shrinking, Pooled, Orphans, Taken, callVars, poolVars, connVars,
      PCs, Holding, Attached, InFlight
<1>24. ASSUME NEW k \in Conns, DrainFails(k) PROVE Sizes'
  BY <1>24, ShrinkingKeepsSizes
  DEF DrainFails, TypeOK, Loans, Shrinking, Pooled, Orphans, Taken, callVars, poolVars, connVars,
      PCs, Holding, Attached, InFlight
<1>25. ASSUME NEW k \in Conns, ActorEnds(k) PROVE Sizes'
  BY <1>25, ShrinkingKeepsSizes, SMT
  DEF ActorEnds, TypeOK, Loans, Shrinking, Pooled, Orphans, Taken, callVars, poolVars, connVars,
      PCs, Holding, Attached, InFlight
<1>26. ASSUME NEW k \in Conns, Cut(k) PROVE Sizes'
  BY <1>26, ShrinkingKeepsSizes
  DEF Cut, TypeOK, Loans, Shrinking, Pooled, Orphans, Taken, callVars, poolVars, connVars, PCs,
      Holding, Attached, InFlight
<1>27. ASSUME NEW k \in Conns, Notice(k) PROVE Sizes'
  BY <1>27, ShrinkingKeepsSizes
  DEF Notice, TypeOK, Loans, Shrinking, Pooled, Orphans, Taken, callVars, poolVars, connVars,
      PCs, Holding, Attached, InFlight
<1>28. CASE UNCHANGED vars
  BY <1>28, ShrinkingKeepsSizes
  DEF vars, callVars, poolVars, connVars, TypeOK, Loans, Shrinking, Pooled, Orphans, Taken, PCs,
      Holding, Attached, InFlight
<1>29. ASSUME NEW k \in Conns, ReaderDropped(k) PROVE Sizes'
  BY <1>29, ShrinkingKeepsSizes, SMT
  DEF ReaderDropped, TypeOK, Loans, Shrinking, Pooled, Orphans, Taken, callVars, poolVars, connVars,
      PCs, Holding, Attached, InFlight
<1>. QED
  BY <1>1, <1>2, <1>3, <1>4, <1>5, <1>6, <1>7, <1>8, <1>9, <1>10, <1>11, <1>12, <1>13, <1>14,
     <1>15, <1>16, <1>17, <1>18, <1>19, <1>20, <1>21, <1>22, <1>23, <1>24, <1>25, <1>26, <1>27,
     <1>28, <1>29
  DEF Next, GetStep, RunStep, HolderStep, CancelStep, ActorStep, LinkStep

\* Every step keeps the loans exclusive.
LEMMA LoansStep ==
    ASSUME TypeOK, Loans, [Next]_vars
    PROVE  Loans'
<1> USE
      DEF TypeOK, Loans, Borrowed, Taken, callVars, poolVars, connVars, PCs, Holding, Attached,
          InFlight
<1>1. ASSUME NEW c \in Calls, NEW k \in Kinds, Start(c, k) PROVE Loans'
  BY <1>1, PoolAssumption, SMT DEF Start
<1>2. ASSUME NEW c \in Calls, Acquire(c) PROVE Loans'
  BY <1>2, PoolAssumption, SMT DEF Acquire
<1>3. ASSUME NEW c \in Calls, AcquireTimeout(c) PROVE Loans'
  BY <1>3, PoolAssumption, SMT DEF AcquireTimeout, AttemptFails, Replays
<1>4. ASSUME NEW c \in Calls, Backoff(c) PROVE Loans'
  BY <1>4, PoolAssumption, SMTT(30) DEF Backoff
<1>5. ASSUME NEW c \in Calls, NEW k \in Conns, Pop(c, k) PROVE Loans'
  BY <1>5, PoolAssumption, SMT DEF Pop, RecycleRefusal
<1>6. ASSUME NEW c \in Calls, NEW k \in Conns, Create(c, k) PROVE Loans'
  BY <1>6, PoolAssumption, SMTT(30) DEF Create
<1>7. ASSUME NEW c \in Calls, NEW e \in CreateErrors, CreateFails(c, e) PROVE Loans'
  BY <1>7, PoolAssumption, SMT DEF CreateFails, AttemptFails, Replays, CreateErrors
<1>8. ASSUME NEW c \in Calls, CloseRefused(c) PROVE Loans'
  BY <1>8, PoolAssumption, SMT DEF CloseRefused
<1>9. ASSUME NEW c \in Calls, RecycleTimeout(c) PROVE Loans'
  BY <1>9, PoolAssumption, SMTT(30) DEF RecycleTimeout
<1>10. ASSUME NEW c \in Calls, Refuse(c) PROVE Loans'
  BY <1>10, PoolAssumption, SMTT(30) DEF Refuse, CommandFails, AttemptFails, Replays, GiveBack
<1>11. ASSUME NEW c \in Calls, Send(c) PROVE Loans'
  BY <1>11, PoolAssumption, SMTT(30) DEF Send
<1>12. ASSUME NEW c \in Calls, Succeed(c) PROVE Loans'
  BY <1>12, PoolAssumption, SMTT(30) DEF Succeed, GiveBack
<1>13. ASSUME NEW c \in Calls, NEW e \in Rejections, Reject(c, e) PROVE Loans'
  BY <1>13, PoolAssumption, SMTT(30) DEF Reject, CommandFails, AttemptFails, Replays, GiveBack, Rejections
<1>14. ASSUME NEW c \in Calls, NEW e \in Losses, Lose(c, e) PROVE Loans'
  BY <1>14, PoolAssumption, SMTT(30) DEF Lose, CommandFails, AttemptFails, Replays, GiveBack, Losses
<1>15. ASSUME NEW c \in Calls, DropCursor(c) PROVE Loans'
  BY <1>15, PoolAssumption, SMT DEF DropCursor, GiveBack
<1>16. ASSUME NEW c \in Calls, BlockRejected(c) PROVE Loans'
  BY <1>16, PoolAssumption, SMTT(30) DEF BlockRejected
<1>17. ASSUME NEW c \in Calls, BlockFails(c) PROVE Loans'
  BY <1>17, PoolAssumption, SMTT(30) DEF BlockFails
<1>18. ASSUME NEW c \in Calls, NEW o \in {"ok"} \cup Rejections \cup Losses, Finish(c, o)
      PROVE Loans'
  BY <1>18, PoolAssumption, SMTT(30) DEF Finish, GiveBack, Rejections, Losses
<1>19. ASSUME NEW c \in Calls, DropSession(c) PROVE Loans'
  BY <1>19, PoolAssumption, SMTT(30) DEF DropSession, GiveBack
<1>20. ASSUME NEW c \in Calls, CancelAcquire(c) PROVE Loans'
  BY <1>20, PoolAssumption, SMTT(30) DEF CancelAcquire
<1>21. ASSUME NEW c \in Calls, CancelClosing(c) PROVE Loans'
  BY <1>21, PoolAssumption, SMTT(30) DEF CancelClosing
<1>22. ASSUME NEW c \in Calls, CancelCommand(c) PROVE Loans'
  BY <1>22, PoolAssumption, SMTT(30) DEF CancelCommand, GiveBack
<1>23. ASSUME NEW k \in Conns, DrainEnds(k) PROVE Loans'
  BY <1>23, PoolAssumption, SMTT(30) DEF DrainEnds
<1>24. ASSUME NEW k \in Conns, DrainFails(k) PROVE Loans'
  BY <1>24, PoolAssumption, SMTT(30) DEF DrainFails
<1>25. ASSUME NEW k \in Conns, ActorEnds(k) PROVE Loans'
  BY <1>25, PoolAssumption, SMTT(30) DEF ActorEnds
<1>26. ASSUME NEW k \in Conns, Cut(k) PROVE Loans'
  BY <1>26, PoolAssumption, SMTT(30) DEF Cut
<1>27. ASSUME NEW k \in Conns, Notice(k) PROVE Loans'
  BY <1>27, PoolAssumption DEF Notice
<1>28. CASE UNCHANGED vars
  BY <1>28, PoolAssumption, SMTT(30) DEF vars, callVars, poolVars, connVars
<1>29. ASSUME NEW k \in Conns, ReaderDropped(k) PROVE Loans'
  BY <1>29, PoolAssumption, SMTT(30) DEF ReaderDropped
<1>. QED
  BY <1>1, <1>2, <1>3, <1>4, <1>5, <1>6, <1>7, <1>8, <1>9, <1>10, <1>11, <1>12, <1>13, <1>14,
     <1>15, <1>16, <1>17, <1>18, <1>19, <1>20, <1>21, <1>22, <1>23, <1>24, <1>25, <1>26, <1>27,
     <1>28, <1>29
  DEF Next, GetStep, RunStep, HolderStep, CancelStep, ActorStep, LinkStep

\* Every step keeps an open INSERT with its session, or poisoned.
LEMMA InsertsStep ==
    ASSUME TypeOK, Loans, Inserts, [Next]_vars
    PROVE  Inserts'
<1> USE DEF TypeOK, Loans, Inserts, callVars, poolVars, connVars, PCs, Holding, Attached, InFlight
<1>1. ASSUME NEW c \in Calls, NEW k \in Kinds, Start(c, k) PROVE Inserts'
  BY <1>1, PoolAssumption DEF Start
<1>2. ASSUME NEW c \in Calls, Acquire(c) PROVE Inserts'
  BY <1>2, PoolAssumption DEF Acquire
<1>3. ASSUME NEW c \in Calls, AcquireTimeout(c) PROVE Inserts'
  BY <1>3, PoolAssumption, SMT DEF AcquireTimeout, AttemptFails, Replays
<1>4. ASSUME NEW c \in Calls, Backoff(c) PROVE Inserts'
  BY <1>4, PoolAssumption DEF Backoff
<1>5. ASSUME NEW c \in Calls, NEW k \in Conns, Pop(c, k) PROVE Inserts'
  BY <1>5, PoolAssumption, SMT DEF Pop, RecycleRefusal
<1>6. ASSUME NEW c \in Calls, NEW k \in Conns, Create(c, k) PROVE Inserts'
  BY <1>6, PoolAssumption DEF Create
<1>7. ASSUME NEW c \in Calls, NEW e \in CreateErrors, CreateFails(c, e) PROVE Inserts'
  BY <1>7, PoolAssumption, SMT DEF CreateFails, AttemptFails, Replays, CreateErrors
<1>8. ASSUME NEW c \in Calls, CloseRefused(c) PROVE Inserts'
  BY <1>8, PoolAssumption DEF CloseRefused
<1>9. ASSUME NEW c \in Calls, RecycleTimeout(c) PROVE Inserts'
  BY <1>9, PoolAssumption DEF RecycleTimeout
<1>10. ASSUME NEW c \in Calls, Refuse(c) PROVE Inserts'
  BY <1>10, PoolAssumption, SMTT(30) DEF Refuse, CommandFails, AttemptFails, Replays, GiveBack
<1>11. ASSUME NEW c \in Calls, Send(c) PROVE Inserts'
  BY <1>11, PoolAssumption, SMTT(30) DEF Send
<1>12. ASSUME NEW c \in Calls, Succeed(c) PROVE Inserts'
  BY <1>12, PoolAssumption, SMTT(30) DEF Succeed, GiveBack
<1>13. ASSUME NEW c \in Calls, NEW e \in Rejections, Reject(c, e) PROVE Inserts'
  BY <1>13, PoolAssumption, SMTT(30) DEF Reject, CommandFails, AttemptFails, Replays, GiveBack, Rejections
<1>14. ASSUME NEW c \in Calls, NEW e \in Losses, Lose(c, e) PROVE Inserts'
  BY <1>14, PoolAssumption, SMT DEF Lose, CommandFails, AttemptFails, Replays, GiveBack, Losses
<1>15. ASSUME NEW c \in Calls, DropCursor(c) PROVE Inserts'
  BY <1>15, PoolAssumption DEF DropCursor, GiveBack
<1>16. ASSUME NEW c \in Calls, BlockRejected(c) PROVE Inserts'
  BY <1>16, PoolAssumption, SMT DEF BlockRejected
<1>17. ASSUME NEW c \in Calls, BlockFails(c) PROVE Inserts'
  BY <1>17, PoolAssumption, SMTT(30) DEF BlockFails
<1>18. ASSUME NEW c \in Calls, NEW o \in {"ok"} \cup Rejections \cup Losses, Finish(c, o)
      PROVE Inserts'
  BY <1>18, PoolAssumption, SMTT(30) DEF Finish, GiveBack, Rejections, Losses
<1>19. ASSUME NEW c \in Calls, DropSession(c) PROVE Inserts'
  BY <1>19, PoolAssumption, SMT DEF DropSession, GiveBack
<1>20. ASSUME NEW c \in Calls, CancelAcquire(c) PROVE Inserts'
  BY <1>20, PoolAssumption DEF CancelAcquire
<1>21. ASSUME NEW c \in Calls, CancelClosing(c) PROVE Inserts'
  BY <1>21, PoolAssumption DEF CancelClosing
<1>22. ASSUME NEW c \in Calls, CancelCommand(c) PROVE Inserts'
  BY <1>22, PoolAssumption, SMTT(30) DEF CancelCommand, GiveBack
<1>23. ASSUME NEW k \in Conns, DrainEnds(k) PROVE Inserts'
  BY <1>23, PoolAssumption, SMTT(30) DEF DrainEnds
<1>24. ASSUME NEW k \in Conns, DrainFails(k) PROVE Inserts'
  BY <1>24, PoolAssumption, SMTT(30) DEF DrainFails
<1>25. ASSUME NEW k \in Conns, ActorEnds(k) PROVE Inserts'
  BY <1>25, PoolAssumption, SMT DEF ActorEnds
<1>26. ASSUME NEW k \in Conns, Cut(k) PROVE Inserts'
  BY <1>26, PoolAssumption DEF Cut
<1>27. ASSUME NEW k \in Conns, Notice(k) PROVE Inserts'
  BY <1>27, PoolAssumption, SMT DEF Notice
<1>28. CASE UNCHANGED vars
  BY <1>28, PoolAssumption DEF vars, callVars, poolVars, connVars
<1>29. ASSUME NEW k \in Conns, ReaderDropped(k) PROVE Inserts'
  BY <1>29, PoolAssumption DEF ReaderDropped
<1>. QED
  BY <1>1, <1>2, <1>3, <1>4, <1>5, <1>6, <1>7, <1>8, <1>9, <1>10, <1>11, <1>12, <1>13, <1>14,
     <1>15, <1>16, <1>17, <1>18, <1>19, <1>20, <1>21, <1>22, <1>23, <1>24, <1>25, <1>26, <1>27,
     <1>28, <1>29
  DEF Next, GetStep, RunStep, HolderStep, CancelStep, ActorStep, LinkStep

\* What is counted for one call.
CountsOf(c) ==
    /\ pc[c] = "new" => kind[c] = "none" /\ tries[c] = 0 /\ reached[c] = 0
    /\ pc[c] # "new" => kind[c] \in Kinds /\ tries[c] > 0
    /\ pc[c] = "backoff" => kind[c] \in {"idempotent", "stream"} /\ tries[c] < MaxAttempts
    /\ pc[c] \in Before => reached[c] < tries[c]
    /\ reached[c] <= tries[c]
    /\ kind[c] # "idempotent" =>
        /\ reached[c] <= 1
        /\ pc[c] \in Before \cup {"backoff"} => reached[c] = 0
    /\ pc[c] \in {"running", "session"} => reached[c] > 0
    /\ pc[c] = "session" => kind[c] = "insert"

LEMMA CountsEach == Counts <=> \A c \in Calls : CountsOf(c)
  BY DEF Counts, CountsOf

\* A step of one call, or of none, keeps the counts of the others.
LEMMA CountsOfOthers ==
    ASSUME Counts, NEW c,
           \A d \in Calls : d # c => /\ kind'[d] = kind[d] /\ pc'[d] = pc[d]
                                   /\ tries'[d] = tries[d] /\ reached'[d] = reached[d],
           c \in Calls => CountsOf(c)'
    PROVE  Counts'
<1>1. ASSUME NEW d \in Calls PROVE CountsOf(d)'
  <2>1. CASE d = c
    BY <2>1
  <2>2. CASE d # c
    BY <2>2, CountsEach DEF CountsOf
  <2>. QED
    BY <2>1, <2>2
<1>. QED
  BY <1>1 DEF Counts, CountsOf

\* A call moves on without being sent.
LEMMA CountsMoved ==
    ASSUME TypeOK, Counts, NEW c \in Calls, pc[c] # "new",
           NEW p \in Before \cup {"backoff", "ended", "done"}, pc' = [pc EXCEPT ![c] = p],
           UNCHANGED <<kind, tries, reached>>,
           p \in Before => pc[c] \in Before,
           p = "backoff" => /\ kind[c] \in {"idempotent", "stream"} /\ tries[c] < MaxAttempts
                            /\ kind[c] # "idempotent" => pc[c] \in Before
    PROVE  Counts'
<1>1. pc'[c] = p /\ \A d \in Calls : d # c => pc'[d] = pc[d]
  BY DEF TypeOK
<1>2. CountsOf(c)
  BY CountsEach
<1>3. p \notin {"new", "running", "session"}
  BY DEF Before
<1>4. CountsOf(c)'
  BY <1>1, <1>2, <1>3 DEF CountsOf
<1>. QED
  BY <1>1, <1>4, CountsOfOthers

LEMMA CountsAttempt ==
    ASSUME TypeOK, Counts, NEW c \in Calls, NEW e, AttemptFails(c, e), UNCHANGED <<kind, tries, reached>>,
           pc[c] # "new", kind[c] = "stream" => pc[c] \in Before
    PROVE  Counts'
<1>1. CASE Replays(c, e)
  <2>1. pc' = [pc EXCEPT ![c] = "backoff"] /\ kind[c] \in {"idempotent", "stream"} /\ tries[c] < MaxAttempts
    BY <1>1 DEF AttemptFails, Replays
  <2>. QED
    BY <2>1, CountsMoved DEF Before
<1>2. CASE ~Replays(c, e)
  <2>1. pc' = [pc EXCEPT ![c] = "done"]
    BY <1>2 DEF AttemptFails
  <2>. QED
    BY <2>1, CountsMoved DEF Before
<1>. QED
  BY <1>1, <1>2

LEMMA CountsCommand ==
    ASSUME TypeOK, Counts, NEW c \in Calls, NEW e, CommandFails(c, e), UNCHANGED <<kind, tries, reached>>,
           pc[c] # "new"
    PROVE  Counts'
<1>1. CASE kind[c] = "stream"
  <2>1. pc' = [pc EXCEPT ![c] = "ended"]
    BY <1>1 DEF CommandFails
  <2>. QED
    BY <2>1, CountsMoved DEF Before
<1>2. CASE kind[c] # "stream"
  BY <1>2, CountsAttempt DEF CommandFails
<1>. QED
  BY <1>1, <1>2

\* Every step keeps the counts.
LEMMA CountsStep ==
    ASSUME TypeOK, Counts, [Next]_vars
    PROVE  Counts'
<1>0. ASSUME UNCHANGED <<kind, pc, tries, reached>> PROVE Counts'
  BY <1>0 DEF Counts
<1>1. ASSUME NEW c \in Calls, NEW k \in Kinds, Start(c, k) PROVE Counts'
  <2>1. CountsOf(c) /\ reached[c] \in Nat
    BY CountsEach DEF TypeOK
  <2>2. /\ pc[c] = "new" /\ pc'[c] = "waiting" /\ kind'[c] = k /\ tries'[c] = 1 /\ reached' = reached
        /\ \A d \in Calls : d # c => kind'[d] = kind[d] /\ pc'[d] = pc[d] /\ tries'[d] = tries[d]
    BY <1>1 DEF Start, TypeOK
  <2>3. CountsOf(c)'
    BY <2>1, <2>2, SMT DEF CountsOf
  <2>. QED
    BY <2>2, <2>3, CountsOfOthers
<1>2. ASSUME NEW c \in Calls, Acquire(c) PROVE Counts'
  BY <1>2, CountsMoved DEF Acquire, Before
<1>3. ASSUME NEW c \in Calls, AcquireTimeout(c) PROVE Counts'
  BY <1>3, CountsAttempt DEF AcquireTimeout, Before
<1>4. ASSUME NEW c \in Calls, Backoff(c) PROVE Counts'
  <2>1. CountsOf(c) /\ reached[c] \in Nat /\ tries[c] \in Nat
    BY PoolAssumption, CountsEach, SMT DEF TypeOK
  <2>2. /\ pc[c] = "backoff" /\ pc'[c] = "waiting" /\ tries'[c] = tries[c] + 1
        /\ UNCHANGED <<kind, reached>>
        /\ \A d \in Calls : d # c => pc'[d] = pc[d] /\ tries'[d] = tries[d]
    BY <1>4 DEF Backoff, TypeOK
  <2>3. CountsOf(c)'
    BY <2>1, <2>2, SMT DEF CountsOf, Before
  <2>. QED
    BY <2>2, <2>3, CountsOfOthers
<1>5. ASSUME NEW c \in Calls, NEW k \in Conns, Pop(c, k) PROVE Counts'
  <2>1. PICK aged \in BOOLEAN :
            pc' = [pc EXCEPT ![c] = IF RecycleRefusal(k, aged) THEN "closing" ELSE "queued"]
    BY <1>5 DEF Pop
  <2>2. (IF RecycleRefusal(k, aged) THEN "closing" ELSE "queued") \in Before
    BY DEF Before
  <2>3. pc[c] = "picking" /\ "picking" \in Before /\ UNCHANGED <<kind, tries, reached>>
    BY <1>5 DEF Pop, Before
  <2>. QED
    BY <2>1, <2>2, <2>3, CountsMoved DEF Before
<1>6. ASSUME NEW c \in Calls, NEW k \in Conns, Create(c, k) PROVE Counts'
  BY <1>6, CountsMoved DEF Create, Before
<1>7. ASSUME NEW c \in Calls, NEW e \in CreateErrors, CreateFails(c, e) PROVE Counts'
  BY <1>7, CountsAttempt DEF CreateFails, Before
<1>8. ASSUME NEW c \in Calls, CloseRefused(c) PROVE Counts'
  BY <1>8, CountsMoved DEF CloseRefused, Before
<1>9. ASSUME NEW c \in Calls, RecycleTimeout(c) PROVE Counts'
  BY <1>9, CountsMoved DEF RecycleTimeout, Before
<1>10. ASSUME NEW c \in Calls, Refuse(c) PROVE Counts'
  BY <1>10, CountsCommand DEF Refuse
<1>11. ASSUME NEW c \in Calls, Send(c) PROVE Counts'
  <2>1. CountsOf(c) /\ reached[c] \in Nat /\ tries[c] \in Nat
    BY PoolAssumption, CountsEach, SMTT(30) DEF TypeOK
  <2>2. /\ pc[c] = "queued" /\ pc'[c] \in {"void", "running"} /\ UNCHANGED <<kind, tries>>
        /\ reached'[c] = IF pc'[c] = "void" THEN reached[c] ELSE reached[c] + 1
        /\ \A d \in Calls : d # c => pc'[d] = pc[d] /\ reached'[d] = reached[d]
    BY <1>11 DEF Send, TypeOK
  <2>3. CountsOf(c)'
    BY <2>1, <2>2, SMT DEF CountsOf, Before
  <2>. QED
    BY <2>2, <2>3, CountsOfOthers
<1>12. ASSUME NEW c \in Calls, Succeed(c) PROVE Counts'
  <2>1. pc[c] = "running" /\ UNCHANGED <<kind, tries, reached>>
    BY <1>12 DEF Succeed
  <2>2. CASE kind[c] = "insert"
    <3>1. CountsOf(c)
      BY CountsEach
    <3>2. pc'[c] = "session" /\ \A d \in Calls : d # c => pc'[d] = pc[d]
      BY <1>12, <2>2 DEF Succeed, TypeOK
    <3>3. CountsOf(c)'
      BY <2>1, <2>2, <3>1, <3>2 DEF CountsOf, Before
    <3>. QED
      BY <2>1, <3>2, <3>3, CountsOfOthers
  <2>3. CASE kind[c] # "insert"
    <3>1. \E p \in {"ended", "done"} : pc' = [pc EXCEPT ![c] = p]
      BY <1>12, <2>3 DEF Succeed
    <3>. QED
      BY <2>1, <3>1, CountsMoved DEF Before
  <2>. QED
    BY <2>2, <2>3
<1>13. ASSUME NEW c \in Calls, NEW e \in Rejections, Reject(c, e) PROVE Counts'
  BY <1>13, CountsCommand DEF Reject
<1>14. ASSUME NEW c \in Calls, NEW e \in Losses, Lose(c, e) PROVE Counts'
  BY <1>14, CountsCommand DEF Lose, InFlight
<1>15. ASSUME NEW c \in Calls, DropCursor(c) PROVE Counts'
  BY <1>15, CountsMoved DEF DropCursor, Before
<1>16. ASSUME NEW c \in Calls, BlockRejected(c) \/ BlockFails(c) PROVE Counts'
  BY <1>0, <1>16 DEF BlockRejected, BlockFails, callVars
<1>17. ASSUME NEW c \in Calls, NEW o \in {"ok"} \cup Rejections \cup Losses, Finish(c, o)
      PROVE Counts'
  BY <1>17, CountsMoved DEF Finish, Before
<1>18. ASSUME NEW c \in Calls, DropSession(c) PROVE Counts'
  BY <1>18, CountsMoved DEF DropSession, Before
<1>19. ASSUME NEW c \in Calls, CancelAcquire(c) PROVE Counts'
  BY <1>19, CountsMoved DEF CancelAcquire, Before
<1>20. ASSUME NEW c \in Calls, CancelClosing(c) PROVE Counts'
  BY <1>20, CountsMoved DEF CancelClosing, Before
<1>21. ASSUME NEW c \in Calls, CancelCommand(c) PROVE Counts'
  <2>1. CountsOf(c) /\ reached[c] \in Nat /\ tries[c] \in Nat
    BY PoolAssumption, CountsEach, SMTT(30) DEF TypeOK
  <2>2. /\ pc[c] \in {"queued", "running", "void"} /\ pc'[c] = "done" /\ UNCHANGED <<kind, tries>>
        /\ \A d \in Calls : d # c => pc'[d] = pc[d]
    BY <1>21 DEF CancelCommand, InFlight, TypeOK
  <2>3. /\ reached'[c] = reached[c] \/ (pc[c] = "queued" /\ reached'[c] = reached[c] + 1)
        /\ \A d \in Calls : d # c => reached'[d] = reached[d]
    BY <1>21, SMT DEF CancelCommand, TypeOK
  <2>4. CountsOf(c)'
    BY <2>1, <2>2, <2>3, SMT DEF CountsOf, Before
  <2>. QED
    BY <2>2, <2>3, <2>4, CountsOfOthers
<1>22. ASSUME NEW k \in Conns, ActorStep(k) \/ LinkStep(k) PROVE Counts'
  BY <1>0, <1>22
  DEF ActorStep, LinkStep, DrainEnds, DrainFails, ActorEnds, ReaderDropped, Cut, Notice,
      callVars
<1>23. CASE UNCHANGED vars
  BY <1>0, <1>23 DEF vars, callVars
<1>. QED
  BY <1>1, <1>2, <1>3, <1>4, <1>5, <1>6, <1>7, <1>8, <1>9, <1>10, <1>11, <1>12, <1>13, <1>14,
     <1>15, <1>16, <1>17, <1>18, <1>19, <1>20, <1>21, <1>22, <1>23
  DEF Next, GetStep, RunStep, HolderStep, CancelStep

\* No step tells a caller that it met an open INSERT.
LEMMA WedgeStep ==
    ASSUME TypeOK, Loans, Inserts, NoWedge, [Next]_vars
    PROVE  NoWedge'
<1> USE
      DEF TypeOK, Loans, Inserts, NoWedge, callVars, poolVars, connVars, PCs, Holding, Attached,
          InFlight
<1>1. ASSUME NEW c \in Calls, NEW k \in Kinds, Start(c, k) PROVE NoWedge'
  BY <1>1, PoolAssumption DEF Start
<1>2. ASSUME NEW c \in Calls, Acquire(c) PROVE NoWedge'
  BY <1>2, PoolAssumption DEF Acquire
<1>3. ASSUME NEW c \in Calls, AcquireTimeout(c) PROVE NoWedge'
  BY <1>3, PoolAssumption, SMT DEF AcquireTimeout, AttemptFails, Replays
<1>4. ASSUME NEW c \in Calls, Backoff(c) PROVE NoWedge'
  BY <1>4, PoolAssumption DEF Backoff
<1>5. ASSUME NEW c \in Calls, NEW k \in Conns, Pop(c, k) PROVE NoWedge'
  BY <1>5, PoolAssumption DEF Pop, RecycleRefusal
<1>6. ASSUME NEW c \in Calls, NEW k \in Conns, Create(c, k) PROVE NoWedge'
  BY <1>6, PoolAssumption DEF Create
<1>7. ASSUME NEW c \in Calls, NEW e \in CreateErrors, CreateFails(c, e) PROVE NoWedge'
  BY <1>7, PoolAssumption, SMT DEF CreateFails, AttemptFails, Replays, CreateErrors
<1>8. ASSUME NEW c \in Calls, CloseRefused(c) PROVE NoWedge'
  BY <1>8, PoolAssumption DEF CloseRefused
<1>9. ASSUME NEW c \in Calls, RecycleTimeout(c) PROVE NoWedge'
  BY <1>9, PoolAssumption DEF RecycleTimeout
<1>10. ASSUME NEW c \in Calls, Refuse(c) PROVE NoWedge'
  BY <1>10, PoolAssumption, SMT DEF Refuse, CommandFails, AttemptFails, Replays, GiveBack
<1>11. ASSUME NEW c \in Calls, Send(c) PROVE NoWedge'
  BY <1>11, PoolAssumption DEF Send
<1>12. ASSUME NEW c \in Calls, Succeed(c) PROVE NoWedge'
  BY <1>12, PoolAssumption, SMTT(30) DEF Succeed, GiveBack
<1>13. ASSUME NEW c \in Calls, NEW e \in Rejections, Reject(c, e) PROVE NoWedge'
  BY <1>13, PoolAssumption, SMTT(30) DEF Reject, CommandFails, AttemptFails, Replays, GiveBack, Rejections
<1>14. ASSUME NEW c \in Calls, NEW e \in Losses, Lose(c, e) PROVE NoWedge'
  BY <1>14, PoolAssumption, SMT DEF Lose, CommandFails, AttemptFails, Replays, GiveBack, Losses
<1>15. ASSUME NEW c \in Calls, DropCursor(c) PROVE NoWedge'
  BY <1>15, PoolAssumption DEF DropCursor, GiveBack
<1>16. ASSUME NEW c \in Calls, BlockRejected(c) PROVE NoWedge'
  BY <1>16, PoolAssumption DEF BlockRejected
<1>17. ASSUME NEW c \in Calls, BlockFails(c) PROVE NoWedge'
  BY <1>17, PoolAssumption DEF BlockFails
<1>18. ASSUME NEW c \in Calls, NEW o \in {"ok"} \cup Rejections \cup Losses, Finish(c, o)
      PROVE NoWedge'
  BY <1>18, PoolAssumption, SMTT(30) DEF Finish, GiveBack, Rejections, Losses
<1>19. ASSUME NEW c \in Calls, DropSession(c) PROVE NoWedge'
  BY <1>19, PoolAssumption, SMTT(30) DEF DropSession, GiveBack
<1>20. ASSUME NEW c \in Calls, CancelAcquire(c) PROVE NoWedge'
  BY <1>20, PoolAssumption, SMTT(30) DEF CancelAcquire
<1>21. ASSUME NEW c \in Calls, CancelClosing(c) PROVE NoWedge'
  BY <1>21, PoolAssumption, SMTT(30) DEF CancelClosing
<1>22. ASSUME NEW c \in Calls, CancelCommand(c) PROVE NoWedge'
  BY <1>22, PoolAssumption, SMT DEF CancelCommand, GiveBack
<1>23. ASSUME NEW k \in Conns, DrainEnds(k) PROVE NoWedge'
  BY <1>23, PoolAssumption DEF DrainEnds
<1>24. ASSUME NEW k \in Conns, DrainFails(k) PROVE NoWedge'
  BY <1>24, PoolAssumption DEF DrainFails
<1>25. ASSUME NEW k \in Conns, ActorEnds(k) PROVE NoWedge'
  BY <1>25, PoolAssumption DEF ActorEnds
<1>26. ASSUME NEW k \in Conns, Cut(k) PROVE NoWedge'
  BY <1>26, PoolAssumption DEF Cut
<1>27. ASSUME NEW k \in Conns, Notice(k) PROVE NoWedge'
  BY <1>27, PoolAssumption DEF Notice
<1>28. CASE UNCHANGED vars
  BY <1>28, PoolAssumption DEF vars, callVars, poolVars, connVars
<1>29. ASSUME NEW k \in Conns, ReaderDropped(k) PROVE NoWedge'
  BY <1>29, PoolAssumption DEF ReaderDropped
<1>. QED
  BY <1>1, <1>2, <1>3, <1>4, <1>5, <1>6, <1>7, <1>8, <1>9, <1>10, <1>11, <1>12, <1>13, <1>14,
     <1>15, <1>16, <1>17, <1>18, <1>19, <1>20, <1>21, <1>22, <1>23, <1>24, <1>25, <1>26, <1>27,
     <1>28, <1>29
  DEF Next, GetStep, RunStep, HolderStep, CancelStep, ActorStep, LinkStep

\* The first state has what every step preserves.
LEMMA InitHasIInv ==
    ASSUME Init
    PROVE  IInv
<1>1. TypeOK /\ Loans /\ Inserts /\ NoWedge /\ Counts
  BY PoolAssumption, SMT
  DEF Init, TypeOK, Loans, Inserts, NoWedge, Counts, Before, Borrowed, Taken, PCs, Holding,
      Attached, InFlight, Outcomes
<1>2. Holders = {} /\ Pooled = {} /\ Orphans = {}
  BY DEF Init, Holders, Pooled, Orphans, Taken, Holding, Attached, InFlight
<1>3. NoLostSlot /\ Sizes
  BY <1>2, FS_EmptySet, PoolAssumption, SMT DEF Init, NoLostSlot, Sizes
<1>. QED
  BY <1>1, <1>3 DEF IInv

\* The inductive invariant of the pool.
THEOREM Invariance == Spec => []IInv
<1>1. Init => IInv
  BY InitHasIInv
<1>2. IInv /\ [Next]_vars => IInv'
  BY TypeStep, LoansStep, InsertsStep, WedgeStep, CountsStep, StepIsBalanced,
     BalancedKeepsSlots, SizesStep
  DEF IInv
<1>. QED
  BY <1>1, <1>2, PTL DEF Spec

\* For every size of the pool: the permits stay within max_size, a call within
\* its attempts, and every call and connection in the states pool.rs gives them.
THEOREM PoolTypeCorrect == Spec => []TypeOK
<1>. QED
  BY Invariance, PTL DEF IInv

\* Every slot is accounted for: each permit is in the semaphore or with one call,
\* so no mix of timeouts, errors, drops and cancellations leaks one (deadpool's
\* Object and the crate's use of it).
THEOREM SlotsAccounted == Spec => []NoLostSlot
<1>. QED
  BY Invariance, PTL DEF IInv

\* At most max_size sockets are open, plus one for each closing that was cut
\* short and one for each actor that has ended and whose aborted reader has not
\* let go of the read half (pool.rs, close_refused; connection_actor.rs, drop).
THEOREM PoolIsBounded == Spec => []ConnectionsBounded
<1>1. ASSUME IInv PROVE ConnectionsBounded
  <2>. DEFINE Counted == Sockets \ Lingering
  <2>1. IsFiniteSet(Pooled) /\ IsFiniteSet(Orphans)
    BY PoolAssumption, FS_Subset DEF Pooled, Orphans
  <2>2. Pooled \cap Orphans = {}
    BY DEF Pooled, Orphans, Taken
  <2>3. IsFiniteSet(Pooled \cup Orphans)
        /\ Cardinality(Pooled \cup Orphans) = Cardinality(Pooled) + Cardinality(Orphans)
    BY <2>1, <2>2, FS_Union, FS_EmptySet, FS_CardinalityType, SMTT(30)
  <2>4. Counted \subseteq Pooled \cup Orphans
    BY <1>1 DEF Sockets, Lingering, Pooled, Orphans, Taken, IInv, TypeOK
  <2>5. Cardinality(Counted) <= Cardinality(Pooled \cup Orphans)
        /\ Cardinality(Counted) \in Nat
    BY <2>3, <2>4, FS_Subset, FS_CardinalityType
  <2>6. Cardinality(Pooled) \in Nat /\ Cardinality(Orphans) \in Nat
    BY <2>1, FS_CardinalityType
  <2>. QED
    BY <1>1, <2>3, <2>5, <2>6, PoolAssumption, SMT DEF IInv, Sizes, ConnectionsBounded, TypeOK
<1>. QED
  BY <1>1, Invariance, PTL

\* No borrower is told that it met another's open INSERT (client_ext.rs,
\* TcpInsertSession's Drop and the guard of begin_insert).
THEOREM NeverWedged == Spec => []NoWedge
<1>. QED
  BY Invariance, PTL DEF IInv

-----------------------------------------------------------------------------
(* Pool implements Statement *)

\* Call c, and no other, comes to have status s.
Moves(c, s) == \E p : pc' = [pc EXCEPT ![c] = p] /\ StatusAt(p) = s

\* A step that moves call c moves its status, and no other's.
LEMMA StatusesMove ==
    ASSUME TypeOK, NEW c \in Calls, NEW s, Moves(c, s)
    PROVE  Statuses' = [Statuses EXCEPT ![c] = s]
<1>1. PICK p : pc' = [pc EXCEPT ![c] = p] /\ StatusAt(p) = s
  BY DEF Moves
<1>2. \A d \in Calls : StatusAt(pc'[d]) = IF d = c THEN s ELSE StatusAt(pc[d])
  BY <1>1 DEF TypeOK
<1>3. Statuses' = [d \in Calls |-> IF d = c THEN s ELSE StatusAt(pc[d])]
  BY <1>2 DEF Statuses
<1>. QED
  BY <1>3 DEF Statuses

\* One that moves it to where it was is invisible.
LEMMA StatusesKept ==
    ASSUME TypeOK, NEW c \in Calls, Moves(c, Statuses[c])
    PROVE  Statuses' = Statuses
<1>1. Statuses' = [Statuses EXCEPT ![c] = Statuses[c]]
  BY StatusesMove
<1>. QED
  BY <1>1 DEF Statuses

\* Every step is a step of the promise, or invisible to it.
LEMMA StepKeepsPromise ==
    ASSUME TypeOK, TypeOK', Counts, [Next]_vars
    PROVE  [Promise!Next]_(Promise!vars)
<1>1. ASSUME NEW c \in Calls, NEW k \in Kinds, Start(c, k) PROVE [Promise!Next]_(Promise!vars)
  <2>1. pc' = [pc EXCEPT ![c] = "waiting"] /\ StatusAt("waiting") = "active"
    BY <1>1 DEF Start, StatusAt
  <2>2. Moves(c, "active")
    BY <2>1 DEF Moves
  <2>3. Moves(c, "active") /\ Statuses[c] = "new"
    BY <1>1, <2>2 DEF Start, Statuses, StatusAt
  <2>4. Statuses' = [Statuses EXCEPT ![c] = "active"]
    BY <2>3, StatusesMove
  <2>5. Promise!Submit(c, k)
    BY <1>1, <2>3, <2>4 DEF Start, Promise!Submit
  <2>. QED
    BY <2>5, PoolAssumption DEF Promise!Next, Promise!Methods
<1>2. ASSUME NEW c \in Calls, Acquire(c) PROVE [Promise!Next]_(Promise!vars)
  <2>1. pc' = [pc EXCEPT ![c] = "picking"] /\ StatusAt("picking") = "active"
    BY <1>2 DEF Acquire, StatusAt
  <2>2. Moves(c, "active")
    BY <2>1 DEF Moves
  <2>3. Statuses[c] = "active" /\ Moves(c, "active") /\ UNCHANGED <<kind, reached, result>>
    BY <1>2, <2>2 DEF Acquire, Statuses, StatusAt
  <2>4. Statuses' = Statuses
    BY <2>3, StatusesKept
  <2>. QED
    BY <2>3, <2>4 DEF Promise!vars
<1>3. ASSUME NEW c \in Calls, AcquireTimeout(c) PROVE [Promise!Next]_(Promise!vars)
  <2>1. CASE pc'[c] = "backoff"
    <3>1. Statuses[c] = "active" /\ Moves(c, "active") /\ UNCHANGED <<kind, reached, result>>
      BY <1>3, <2>1, SMT
      DEF AcquireTimeout, AttemptFails, TypeOK, Moves, Statuses, StatusAt, InFlight
    <3>2. Statuses' = Statuses
      BY <3>1, StatusesKept
    <3>. QED
      BY <3>1, <3>2 DEF Promise!vars
  <2>2. CASE pc'[c] # "backoff"
    <3>1. Moves(c, "done") /\ Statuses[c] = "active"
      BY <1>3, <2>2, SMT
      DEF AcquireTimeout, AttemptFails, TypeOK, Moves, Statuses, StatusAt, InFlight
    <3>2. Statuses' = [Statuses EXCEPT ![c] = "done"]
      BY <3>1, StatusesMove
    <3>3. Promise!Finish(c, "exhausted")
      BY <1>3, <2>2, <3>1, <3>2, SMTT(30)
      DEF AcquireTimeout, AttemptFails, Counts, Before, TypeOK, Promise!Finish, Promise!Unsent
    <3>. QED
      BY <3>3 DEF Promise!Next, Promise!Outcomes, Promise!Unsent, CreateErrors, Rejections, Losses
  <2>. QED
    BY <2>1, <2>2
<1>4. ASSUME NEW c \in Calls, Backoff(c) PROVE [Promise!Next]_(Promise!vars)
  <2>1. pc' = [pc EXCEPT ![c] = "waiting"] /\ StatusAt("waiting") = "active"
    BY <1>4 DEF Backoff, StatusAt
  <2>2. Moves(c, "active")
    BY <2>1 DEF Moves
  <2>3. Statuses[c] = "active" /\ Moves(c, "active") /\ UNCHANGED <<kind, reached, result>>
    BY <1>4, <2>2 DEF Backoff, Statuses, StatusAt
  <2>4. Statuses' = Statuses
    BY <2>3, StatusesKept
  <2>. QED
    BY <2>3, <2>4 DEF Promise!vars
<1>5. ASSUME NEW c \in Calls, NEW k \in Conns, Pop(c, k) PROVE [Promise!Next]_(Promise!vars)
  <2>1. \/ pc' = [pc EXCEPT ![c] = "closing"]
        \/ pc' = [pc EXCEPT ![c] = "queued"]
    BY <1>5 DEF Pop
  <2>2. Moves(c, "active")
    BY <2>1 DEF Moves, StatusAt
  <2>3. Statuses[c] = "active" /\ Moves(c, "active") /\ UNCHANGED <<kind, reached, result>>
    BY <1>5, <2>2 DEF Pop, RecycleRefusal, Statuses, StatusAt
  <2>4. Statuses' = Statuses
    BY <2>3, StatusesKept
  <2>. QED
    BY <2>3, <2>4 DEF Promise!vars
<1>6. ASSUME NEW c \in Calls, NEW k \in Conns, Create(c, k) PROVE [Promise!Next]_(Promise!vars)
  <2>1. pc' = [pc EXCEPT ![c] = "queued"] /\ StatusAt("queued") = "active"
    BY <1>6 DEF Create, StatusAt
  <2>2. Moves(c, "active")
    BY <2>1 DEF Moves
  <2>3. Statuses[c] = "active" /\ Moves(c, "active") /\ UNCHANGED <<kind, reached, result>>
    BY <1>6, <2>2 DEF Create, Statuses, StatusAt
  <2>4. Statuses' = Statuses
    BY <2>3, StatusesKept
  <2>. QED
    BY <2>3, <2>4 DEF Promise!vars
<1>7. ASSUME NEW c \in Calls, NEW e \in CreateErrors, CreateFails(c, e)
      PROVE [Promise!Next]_(Promise!vars)
  <2>1. CASE pc'[c] = "backoff"
    <3>1. Statuses[c] = "active" /\ Moves(c, "active") /\ UNCHANGED <<kind, reached, result>>
      BY <1>7, <2>1, SMT
      DEF CreateFails, CreateErrors, AttemptFails, TypeOK, Moves, Statuses, StatusAt, InFlight
    <3>2. Statuses' = Statuses
      BY <3>1, StatusesKept
    <3>. QED
      BY <3>1, <3>2 DEF Promise!vars
  <2>2. CASE pc'[c] # "backoff"
    <3>1. Moves(c, "done") /\ Statuses[c] = "active"
      BY <1>7, <2>2, SMT
      DEF CreateFails, CreateErrors, AttemptFails, TypeOK, Moves, Statuses, StatusAt, InFlight
    <3>2. Statuses' = [Statuses EXCEPT ![c] = "done"]
      BY <3>1, StatusesMove
    <3>3. Promise!Finish(c, e)
      BY <1>7, <2>2, <3>1, <3>2, SMTT(30)
      DEF CreateFails, CreateErrors, AttemptFails, Counts, Before, TypeOK, Promise!Finish,
          Promise!Unsent
    <3>. QED
      BY <3>3 DEF Promise!Next, Promise!Outcomes, Promise!Unsent, CreateErrors, Rejections, Losses
  <2>. QED
    BY <2>1, <2>2
<1>8. ASSUME NEW c \in Calls, CloseRefused(c) PROVE [Promise!Next]_(Promise!vars)
  <2>1. pc' = [pc EXCEPT ![c] = "picking"] /\ StatusAt("picking") = "active"
    BY <1>8 DEF CloseRefused, StatusAt
  <2>2. Moves(c, "active")
    BY <2>1 DEF Moves
  <2>3. Statuses[c] = "active" /\ Moves(c, "active") /\ UNCHANGED <<kind, reached, result>>
    BY <1>8, <2>2 DEF CloseRefused, Statuses, StatusAt
  <2>4. Statuses' = Statuses
    BY <2>3, StatusesKept
  <2>. QED
    BY <2>3, <2>4 DEF Promise!vars
<1>9. ASSUME NEW c \in Calls, RecycleTimeout(c) PROVE [Promise!Next]_(Promise!vars)
  <2>1. pc' = [pc EXCEPT ![c] = "picking"] /\ StatusAt("picking") = "active"
    BY <1>9 DEF RecycleTimeout, StatusAt
  <2>2. Moves(c, "active")
    BY <2>1 DEF Moves
  <2>3. Statuses[c] = "active" /\ Moves(c, "active") /\ UNCHANGED <<kind, reached, result>>
    BY <1>9, <2>2 DEF RecycleTimeout, Statuses, StatusAt
  <2>4. Statuses' = Statuses
    BY <2>3, StatusesKept
  <2>. QED
    BY <2>3, <2>4 DEF Promise!vars
<1>10. ASSUME NEW c \in Calls, Refuse(c) PROVE [Promise!Next]_(Promise!vars)
  <2>1. CASE pc'[c] = "backoff"
    <3>1. Statuses[c] = "active" /\ Moves(c, "active") /\ UNCHANGED <<kind, reached, result>>
      BY <1>10, <2>1, SMT
      DEF Refuse, CommandFails, AttemptFails, GiveBack, TypeOK, Moves, Statuses, StatusAt,
          InFlight
    <3>2. Statuses' = Statuses
      BY <3>1, StatusesKept
    <3>. QED
      BY <3>1, <3>2 DEF Promise!vars
  <2>2. CASE pc'[c] # "backoff"
    <3>1. Moves(c, "done") /\ Statuses[c] = "active"
      BY <1>10, <2>2, SMTT(30)
      DEF Refuse, CommandFails, AttemptFails, GiveBack, TypeOK, Moves, Statuses, StatusAt,
          InFlight
    <3>2. Statuses' = [Statuses EXCEPT ![c] = "done"]
      BY <3>1, StatusesMove
    <3>3. Promise!Finish(c, IF poisoned[conn[c]] THEN "refused" ELSE "wedged")
      BY <1>10, <2>2, <3>1, <3>2, SMTT(30)
      DEF Refuse, CommandFails, AttemptFails, GiveBack, Counts, Before, TypeOK, Promise!Finish,
          Promise!Unsent
    <3>. QED
      BY <3>3 DEF Promise!Next, Promise!Outcomes, Promise!Unsent, CreateErrors, Rejections, Losses
  <2>. QED
    BY <2>1, <2>2
<1>11. ASSUME NEW c \in Calls, Send(c) PROVE [Promise!Next]_(Promise!vars)
  <2>1. pc' = [pc EXCEPT ![c] = "void"] \/ pc' = [pc EXCEPT ![c] = "running"]
    BY <1>11 DEF Send
  <2>2. Moves(c, "active")
    BY <2>1 DEF Moves, StatusAt
  <2>3. Statuses[c] = "active" /\ UNCHANGED <<kind, result>>
    BY <1>11 DEF Send, Statuses, StatusAt
  <2>4. Statuses' = Statuses
    BY <2>2, <2>3, StatusesKept
  <2>5. CASE cut[conn[c]]
    BY <1>11, <2>3, <2>4, <2>5 DEF Send, Promise!vars
  <2>6. CASE ~cut[conn[c]]
    <3>1. Promise!Reach(c)
      BY <1>11, <2>3, <2>4, <2>6, PoolAssumption, SMTT(30)
      DEF Send, Counts, Before, TypeOK, Promise!Reach, Promise!Allowed
    <3>. QED
      BY <3>1 DEF Promise!Next
  <2>. QED
    BY <2>5, <2>6
<1>12. ASSUME NEW c \in Calls, Succeed(c) PROVE [Promise!Next]_(Promise!vars)
  <2>1. CASE kind[c] = "insert"
    <3>1. Statuses[c] = "active" /\ Moves(c, "active") /\ UNCHANGED <<kind, reached, result>>
      BY <1>12, <2>1 DEF Succeed, Moves, Statuses, StatusAt
    <3>2. Statuses' = Statuses
      BY <3>1, StatusesKept
    <3>. QED
      BY <3>1, <3>2 DEF Promise!vars
  <2>2. CASE kind[c] # "insert"
    <3>1. Moves(c, "done") /\ Statuses[c] = "active"
      BY <1>12, <2>2 DEF Succeed, Moves, Statuses, StatusAt
    <3>2. Statuses' = [Statuses EXCEPT ![c] = "done"]
      BY <3>1, StatusesMove
    <3>3. Promise!Finish(c, "ok")
      BY <1>12, <2>2, <3>1, <3>2
      DEF Succeed, Counts, TypeOK, Promise!Finish, Promise!Unsent
    <3>. QED
      BY <3>3 DEF Promise!Next, Promise!Outcomes
  <2>. QED
    BY <2>1, <2>2
<1>13. ASSUME NEW c \in Calls, NEW e \in Rejections, Reject(c, e)
      PROVE [Promise!Next]_(Promise!vars)
  <2>1. CASE pc'[c] = "backoff"
    <3>1. Statuses[c] = "active" /\ Moves(c, "active") /\ UNCHANGED <<kind, reached, result>>
      BY <1>13, <2>1, SMT
      DEF Reject, Rejections, CommandFails, AttemptFails, GiveBack, TypeOK, Moves, Statuses,
          StatusAt, InFlight
    <3>2. Statuses' = Statuses
      BY <3>1, StatusesKept
    <3>. QED
      BY <3>1, <3>2 DEF Promise!vars
  <2>2. CASE pc'[c] # "backoff"
    <3>1. Moves(c, "done") /\ Statuses[c] = "active"
      BY <1>13, <2>2, SMTT(30)
      DEF Reject, Rejections, CommandFails, AttemptFails, GiveBack, TypeOK, Moves, Statuses,
          StatusAt, InFlight
    <3>2. Statuses' = [Statuses EXCEPT ![c] = "done"]
      BY <3>1, StatusesMove
    <3>3. Promise!Finish(c, e)
      BY <1>13, <2>2, <3>1, <3>2, SMTT(30)
      DEF Reject, Rejections, CommandFails, AttemptFails, GiveBack, Counts, Before, TypeOK,
          Promise!Finish, Promise!Unsent
    <3>. QED
      BY <3>3 DEF Promise!Next, Promise!Outcomes, Promise!Unsent, CreateErrors, Rejections, Losses
  <2>. QED
    BY <2>1, <2>2
<1>14. ASSUME NEW c \in Calls, NEW e \in Losses, Lose(c, e) PROVE [Promise!Next]_(Promise!vars)
  <2>1. CASE pc'[c] = "backoff"
    <3>1. Statuses[c] = "active" /\ Moves(c, "active") /\ UNCHANGED <<kind, reached, result>>
      BY <1>14, <2>1, SMT
      DEF Lose, Losses, CommandFails, AttemptFails, GiveBack, TypeOK, Moves, Statuses, StatusAt,
          InFlight
    <3>2. Statuses' = Statuses
      BY <3>1, StatusesKept
    <3>. QED
      BY <3>1, <3>2 DEF Promise!vars
  <2>2. CASE pc'[c] # "backoff"
    <3>1. Moves(c, "done") /\ Statuses[c] = "active"
      BY <1>14, <2>2, SMTT(30)
      DEF Lose, Losses, CommandFails, AttemptFails, GiveBack, TypeOK, Moves, Statuses, StatusAt,
          InFlight
    <3>2. Statuses' = [Statuses EXCEPT ![c] = "done"]
      BY <3>1, StatusesMove
    <3>3. Promise!Finish(c, e)
      BY <1>14, <2>2, <3>1, <3>2, SMTT(30)
      DEF Lose, Losses, CommandFails, AttemptFails, GiveBack, Counts, Before, TypeOK,
          Promise!Finish, Promise!Unsent
    <3>. QED
      BY <3>3 DEF Promise!Next, Promise!Outcomes, Promise!Unsent, CreateErrors, Rejections, Losses
  <2>. QED
    BY <2>1, <2>2
<1>15. ASSUME NEW c \in Calls, DropCursor(c) PROVE [Promise!Next]_(Promise!vars)
  <2>1. pc' = [pc EXCEPT ![c] = "done"] /\ StatusAt("done") = "done"
    BY <1>15 DEF DropCursor, StatusAt
  <2>2. Moves(c, "done")
    BY <2>1 DEF Moves
  <2>3. Statuses[c] = "done" /\ Moves(c, "done") /\ UNCHANGED <<kind, reached, result>>
    BY <1>15, <2>2 DEF DropCursor, GiveBack, Statuses, StatusAt
  <2>4. Statuses' = Statuses
    BY <2>3, StatusesKept
  <2>. QED
    BY <2>3, <2>4 DEF Promise!vars
<1>16. ASSUME NEW c \in Calls, BlockRejected(c) PROVE [Promise!Next]_(Promise!vars)
  <2>1. UNCHANGED <<kind, Statuses, reached, result>>
    BY <1>16 DEF BlockRejected, callVars, Statuses
  <2>. QED
    BY <2>1 DEF Promise!vars
<1>17. ASSUME NEW c \in Calls, BlockFails(c) PROVE [Promise!Next]_(Promise!vars)
  <2>1. UNCHANGED <<kind, Statuses, reached, result>>
    BY <1>17 DEF BlockFails, callVars, Statuses
  <2>. QED
    BY <2>1 DEF Promise!vars
<1>18. ASSUME NEW c \in Calls, NEW o \in {"ok"} \cup Rejections \cup Losses, Finish(c, o)
      PROVE [Promise!Next]_(Promise!vars)
  <2>1. Moves(c, "done") /\ Statuses[c] = "active"
    BY <1>18 DEF Finish, Moves, Statuses, StatusAt
  <2>2. Statuses' = [Statuses EXCEPT ![c] = "done"]
    BY <2>1, StatusesMove
  <2>3. Promise!Finish(c, o)
    BY <1>18, <2>1, <2>2
    DEF Finish, Rejections, Losses, Counts, TypeOK, Promise!Finish, Promise!Unsent
  <2>. QED
    BY <2>3 DEF Promise!Next, Promise!Outcomes, Rejections, Losses
<1>19. ASSUME NEW c \in Calls, DropSession(c) PROVE [Promise!Next]_(Promise!vars)
  <2>1. Moves(c, "done") /\ Statuses[c] = "active"
    BY <1>19 DEF DropSession, Moves, Statuses, StatusAt
  <2>2. Statuses' = [Statuses EXCEPT ![c] = "done"]
    BY <2>1, StatusesMove
  <2>3. Promise!Abandon(c)
    BY <1>19, <2>1, <2>2 DEF DropSession, Promise!Abandon
  <2>. QED
    BY <2>3 DEF Promise!Next
<1>20. ASSUME NEW c \in Calls, CancelAcquire(c) PROVE [Promise!Next]_(Promise!vars)
  <2>1. Moves(c, "done") /\ Statuses[c] = "active"
    BY <1>20 DEF CancelAcquire, Moves, Statuses, StatusAt
  <2>2. Statuses' = [Statuses EXCEPT ![c] = "done"]
    BY <2>1, StatusesMove
  <2>3. Promise!Abandon(c)
    BY <1>20, <2>1, <2>2 DEF CancelAcquire, Promise!Abandon
  <2>. QED
    BY <2>3 DEF Promise!Next
<1>21. ASSUME NEW c \in Calls, CancelClosing(c) PROVE [Promise!Next]_(Promise!vars)
  <2>1. Moves(c, "done") /\ Statuses[c] = "active"
    BY <1>21 DEF CancelClosing, Moves, Statuses, StatusAt
  <2>2. Statuses' = [Statuses EXCEPT ![c] = "done"]
    BY <2>1, StatusesMove
  <2>3. Promise!Abandon(c)
    BY <1>21, <2>1, <2>2 DEF CancelClosing, Promise!Abandon
  <2>. QED
    BY <2>3 DEF Promise!Next
<1>22. ASSUME NEW c \in Calls, CancelCommand(c) PROVE [Promise!Next]_(Promise!vars)
  <2>1. Moves(c, "done") /\ Statuses[c] = "active"
    BY <1>22 DEF CancelCommand, Moves, Statuses, StatusAt, InFlight
  <2>2. Statuses' = [Statuses EXCEPT ![c] = "done"]
    BY <2>1, StatusesMove
  <2>3. \/ UNCHANGED reached
        \/ reached[c] < Promise!Allowed(kind[c]) /\ reached' = [reached EXCEPT ![c] = @ + 1]
    BY <1>22, PoolAssumption, SMT
    DEF CancelCommand, Counts, Before, TypeOK, Promise!Allowed
  <2>4. Promise!Abandon(c)
    BY <1>22, <2>1, <2>2, <2>3 DEF CancelCommand, Promise!Abandon
  <2>. QED
    BY <2>4 DEF Promise!Next
<1>23. ASSUME NEW k \in Conns, DrainEnds(k) PROVE [Promise!Next]_(Promise!vars)
  <2>1. UNCHANGED <<kind, Statuses, reached, result>>
    BY <1>23 DEF DrainEnds, callVars, Statuses
  <2>. QED
    BY <2>1 DEF Promise!vars
<1>24. ASSUME NEW k \in Conns, DrainFails(k) PROVE [Promise!Next]_(Promise!vars)
  <2>1. UNCHANGED <<kind, Statuses, reached, result>>
    BY <1>24 DEF DrainFails, callVars, Statuses
  <2>. QED
    BY <2>1 DEF Promise!vars
<1>25. ASSUME NEW k \in Conns, ActorEnds(k) PROVE [Promise!Next]_(Promise!vars)
  <2>1. UNCHANGED <<kind, Statuses, reached, result>>
    BY <1>25 DEF ActorEnds, callVars, Statuses
  <2>. QED
    BY <2>1 DEF Promise!vars
<1>26. ASSUME NEW k \in Conns, Cut(k) PROVE [Promise!Next]_(Promise!vars)
  <2>1. UNCHANGED <<kind, Statuses, reached, result>>
    BY <1>26 DEF Cut, callVars, Statuses
  <2>. QED
    BY <2>1 DEF Promise!vars
<1>27. ASSUME NEW k \in Conns, Notice(k) PROVE [Promise!Next]_(Promise!vars)
  <2>1. UNCHANGED <<kind, Statuses, reached, result>>
    BY <1>27 DEF Notice, callVars, Statuses
  <2>. QED
    BY <2>1 DEF Promise!vars
<1>28. CASE UNCHANGED vars
  BY <1>28
  DEF vars, callVars, poolVars, connVars, Promise!vars, Statuses
<1>29. ASSUME NEW k \in Conns, ReaderDropped(k) PROVE [Promise!Next]_(Promise!vars)
  <2>1. UNCHANGED <<kind, Statuses, reached, result>>
    BY <1>29 DEF ReaderDropped, callVars, Statuses
  <2>. QED
    BY <2>1 DEF Promise!vars
<1>. QED
  BY <1>1, <1>2, <1>3, <1>4, <1>5, <1>6, <1>7, <1>8, <1>9, <1>10, <1>11, <1>12, <1>13, <1>14,
     <1>15, <1>16, <1>17, <1>18, <1>19, <1>20, <1>21, <1>22, <1>23, <1>24, <1>25, <1>26, <1>27,
     <1>28, <1>29
  DEF Next, GetStep, RunStep, HolderStep, CancelStep, ActorStep, LinkStep

\* The pool implements the promise: however acquires time out, connections die,
\* commands are refused, lost, replayed or cancelled, a statement that is not
\* idempotent reaches a server at most once, success means it did, and an unsent
\* outcome means it did not (retry.rs, run_with_retry; client_ext.rs).
THEOREM PoolKeepsPromise == Spec => KeepsPromise
<1>1. Init => Promise!Init
  BY SMT DEF Init, Promise!Init, Statuses, StatusAt
<1>2. IInv /\ IInv' /\ [Next]_vars => [Promise!Next]_(Promise!vars)
  BY StepKeepsPromise DEF IInv
<1>. QED
  BY <1>1, <1>2, Invariance, PTL DEF Spec, KeepsPromise, Promise!Spec

=============================================================================
