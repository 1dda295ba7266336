-------------------------------- MODULE Pool --------------------------------
(***************************************************************************)
(* The connection pool and the calls that borrow from it: acquire, recycle *)
(* or create, run a statement, hand the connection back, and replay what   *)
(* may be replayed.  The pool itself is deadpool (external: a semaphore of *)
(* max_size permits over the idle objects); its manager, the dispatch      *)
(* helpers, the retry loop and the insert session are the crate's.         *)
(*                                                                         *)
(* What an actor does with one command is in module Connection.  Here it   *)
(* is idle, busy (with the borrower's command, or draining one that was    *)
(* dropped) or in an INSERT, and its connection may be poisoned, or cut     *)
(* without anybody having noticed.                                         *)
(***************************************************************************)
EXTENDS Naturals, FiniteSets

CONSTANTS
    Calls,         \* the calls made on the client, each made at most once
    Conns,         \* bound: connections that exist at the same time
    Kinds,         \* the methods the calls may be (ping is a "query" here)
    MaxSize,       \* PoolConfig::max_size
    MaxAttempts,   \* RetryPolicy::max_attempts
    MaxHurried,    \* bound: closings cut short in a run
    None           \* no connection

ASSUME PoolAssumption ==
    /\ IsFiniteSet(Calls)
    /\ IsFiniteSet(Conns)
    /\ None \notin Conns
    /\ Kinds \subseteq {"query", "idempotent", "stream", "insert"}
    /\ MaxSize \in Nat \ {0}
    /\ MaxAttempts \in Nat \ {0}
    /\ MaxHurried \in Nat

VARIABLES
    \* the calls
    kind,        \* kind[c]: the method called, "none" before it is
    pc,          \* pc[c]: where the call is
    conn,        \* conn[c]: the connection it holds
    tries,       \* tries[c]: attempts begun
    reached,     \* reached[c]: how often a server was sent the statement
    result,      \* result[c]: what the caller was told
    \* the pool
    permits,     \* the semaphore
    place,       \* place[k]: where connection k is
    hurried,     \* closings cut short by recycle_timeout or by cancellation
    \* the connections
    actor,       \* actor[k]: "idle", "busy" or "insert"
    poisoned,    \* poisoned[k]: the flag is_alive reads
    cut          \* cut[k]: is the link gone, noticed or not?

callVars == <<kind, pc, conn, tries, reached, result>>
poolVars == <<permits, place, hurried>>
connVars == <<actor, poisoned, cut>>
vars == <<callVars, poolVars, connVars>>

\* Where a call is.  A call in Holding has a permit; one in Attached also has a
\* connection.
InFlight == {"running", "void"}
Attached == {"closing", "queued", "ended", "session"} \cup InFlight
Holding  == Attached \cup {"picking"}
PCs      == Holding \cup {"new", "waiting", "backoff", "done"}

\* Where a connection is.  "closed": its actor has ended and the call that waits
\* for that has not run yet; "orphan": told to shut down, and nobody waits;
\* "lingering": nothing is left but the read half, with the aborted reader.
Places == {"gone", "idle", "out", "closing", "closed", "orphan", "lingering"}

Unsent     == {"refused", "connect", "denied", "exhausted"}
Outcomes   == {"ok", "rejected", "overloaded", "lost", "broken", "wedged"} \cup Unsent

\* is_retriable_transport: a refusal by a poisoned connection, a failed connect
\* and an acquire timeout are Transient or Connect; a lost link is TimedOut,
\* Network or a transient io kind; an overloaded server answers with one of the
\* codes is_retriable_code lists.  A protocol-state message ("broken",
\* "wedged"), any other server code and a refused login are not.
Retriable  == {"refused", "connect", "exhausted", "lost", "overloaded"}

\* The shape of the state.
TypeOK ==
    /\ kind \in [Calls -> Kinds \cup {"none"}]
    /\ pc \in [Calls -> PCs]
    /\ conn \in [Calls -> Conns \cup {None}]
    /\ tries \in [Calls -> 0..MaxAttempts]
    /\ reached \in [Calls -> Nat]
    /\ result \in [Calls -> Outcomes \cup {"none", "cancelled"}]
    /\ permits \in 0..MaxSize
    /\ place \in [Conns -> Places]
    /\ hurried \in 0..MaxHurried
    /\ actor \in [Conns -> {"idle", "busy", "insert"}]
    /\ poisoned \in [Conns -> BOOLEAN]
    /\ cut \in [Conns -> BOOLEAN]

Init ==
    /\ kind = [c \in Calls |-> "none"]
    /\ pc = [c \in Calls |-> "new"]
    /\ conn = [c \in Calls |-> None]
    /\ tries = [c \in Calls |-> 0]
    /\ reached = [c \in Calls |-> 0]
    /\ result = [c \in Calls |-> "none"]
    /\ permits = MaxSize
    /\ place = [k \in Conns |-> "gone"]
    /\ hurried = 0
    /\ actor = [k \in Conns |-> "idle"]
    /\ poisoned = [k \in Conns |-> FALSE]
    /\ cut = [k \in Conns |-> FALSE]

-----------------------------------------------------------------------------
(* Acquiring: pool.get() *)

\* The call is made, and waits for a permit.
Start(c, k) ==
    /\ pc[c] = "new"
    /\ kind' = [kind EXCEPT ![c] = k]
    /\ pc' = [pc EXCEPT ![c] = "waiting"]
    /\ tries' = [tries EXCEPT ![c] = 1]
    /\ UNCHANGED <<conn, reached, result, poolVars, connVars>>

Acquire(c) ==
    /\ pc[c] = "waiting" /\ permits > 0
    /\ permits' = permits - 1
    /\ pc' = [pc EXCEPT ![c] = "picking"]
    /\ UNCHANGED <<kind, conn, tries, reached, result, place, hurried, connVars>>

\* Defect: every error is replayed, the statement idempotent or not.
ReplaysAny(c, e) == e \in Retriable

\* Defect: the attempts are not counted.
ReplaysForever(c, e) == kind[c] \in {"idempotent", "stream"} /\ e \in Retriable

\* Does the retry loop of call c go round again after error e?  Only the
\* idempotent statement and the opening of a stream are given the policy.
Replays(c, e) ==
    /\ kind[c] \in {"idempotent", "stream"}
    /\ e \in Retriable
    /\ tries[c] < MaxAttempts

\* The attempt of call c ends with error e.
AttemptFails(c, e) ==
    IF Replays(c, e)
    THEN /\ pc' = [pc EXCEPT ![c] = "backoff"]
         /\ UNCHANGED result
    ELSE /\ pc' = [pc EXCEPT ![c] = "done"]
         /\ result' = [result EXCEPT ![c] = e]

\* Defect: the wait for a permit has no limit.
WaitsOn(c) == pc[c] = "waiting" /\ UNCHANGED vars

\* acquire_timeout is over: PoolError::Timeout.
AcquireTimeout(c) ==
    /\ pc[c] = "waiting"
    /\ AttemptFails(c, "exhausted")
    /\ UNCHANGED <<kind, conn, tries, reached, poolVars, connVars>>

Backoff(c) ==
    /\ pc[c] = "backoff"
    /\ tries' = [tries EXCEPT ![c] = @ + 1]
    /\ pc' = [pc EXCEPT ![c] = "waiting"]
    /\ UNCHANGED <<kind, conn, reached, result, poolVars, connVars>>

\* Why a connection is not reused: it is past max_lifetime, or not alive.
RecycleRefusal(k, aged) == aged \/ poisoned[k]

\* An idle connection is taken and recycled: refused, it has to be closed, else
\* the caller has it and its command goes to the actor.  For a stream that is
\* all the retried region covers: the cursor has the slot.
Pop(c, k) ==
    /\ pc[c] = "picking" /\ place[k] = "idle"
    /\ conn' = [conn EXCEPT ![c] = k]
    /\ \E aged \in BOOLEAN :
        LET refused == RecycleRefusal(k, aged) IN
        /\ place' = [place EXCEPT ![k] = IF refused THEN "closing" ELSE "out"]
        /\ pc' = [pc EXCEPT ![c] = IF refused THEN "closing" ELSE "queued"]
    /\ UNCHANGED <<kind, tries, reached, result, permits, hurried, connVars>>

\* When none is idle, a new one is connected and handshaken ...
Create(c, k) ==
    /\ pc[c] = "picking" /\ \A j \in Conns : place[j] # "idle"
    /\ place[k] = "gone"
    /\ place' = [place EXCEPT ![k] = "out"]
    /\ conn' = [conn EXCEPT ![c] = k]
    /\ pc' = [pc EXCEPT ![c] = "queued"]
    /\ UNCHANGED <<kind, tries, reached, result, permits, hurried, connVars>>

\* Defect: a failed connect keeps its permit.
CreateFailsHolding(c, e) ==
    /\ pc[c] = "picking" /\ \A j \in Conns : place[j] # "idle"
    /\ AttemptFails(c, e)
    /\ UNCHANGED <<kind, conn, tries, reached, poolVars, connVars>>

\* ... which fails when every endpoint did: with a Connect error, or with one
\* that no replay can cure (bad credentials, TlsFailClosed).
CreateFails(c, e) ==
    /\ pc[c] = "picking" /\ \A j \in Conns : place[j] # "idle"
    /\ permits' = permits + 1
    /\ AttemptFails(c, e)
    /\ UNCHANGED <<kind, conn, tries, reached, place, hurried, connVars>>

\* Defect: the refused connection's shutdown is not awaited.
CloseRefusedInBackground(c) ==
    /\ pc[c] = "closing"
    /\ pc' = [pc EXCEPT ![c] = "picking"]
    /\ place' = [place EXCEPT ![conn[c]] = IF @ = "closing" THEN "orphan" ELSE "lingering"]
    /\ conn' = [conn EXCEPT ![c] = None]
    /\ UNCHANGED <<kind, tries, reached, result, permits, hurried, connVars>>

\* close_refused returns once the actor task has ended, and the loop looks for
\* another connection.  It does not wait for the reader sub-task.
CloseRefused(c) ==
    /\ pc[c] = "closing" /\ place[conn[c]] = "closed"
    /\ pc' = [pc EXCEPT ![c] = "picking"]
    /\ place' = [place EXCEPT ![conn[c]] = "lingering"]
    /\ conn' = [conn EXCEPT ![c] = None]
    /\ UNCHANGED <<kind, tries, reached, result, permits, hurried, connVars>>

\* recycle_timeout is over first: the closing future is dropped, the shutdown
\* it signalled goes on.
RecycleTimeout(c) ==
    /\ pc[c] = "closing" /\ place[conn[c]] = "closing" /\ hurried < MaxHurried
    /\ pc' = [pc EXCEPT ![c] = "picking"]
    /\ place' = [place EXCEPT ![conn[c]] = "orphan"]
    /\ hurried' = hurried + 1
    /\ conn' = [conn EXCEPT ![c] = None]
    /\ UNCHANGED <<kind, tries, reached, result, permits, connVars>>

-----------------------------------------------------------------------------
(* Running a statement: the dispatch helpers *)

\* The Object is dropped: the connection is idle again, unrecycled, and the
\* permit is back.
GiveBack(c) ==
    /\ permits' = permits + 1
    /\ place' = [place EXCEPT ![conn[c]] = "idle"]
    /\ conn' = [conn EXCEPT ![c] = None]

\* The command of call c ends with error e: a stream's cursor yields it and
\* keeps the slot, any other call gives the connection back.
CommandFails(c, e) ==
    IF kind[c] = "stream"
    THEN /\ pc' = [pc EXCEPT ![c] = "ended"]
         /\ result' = [result EXCEPT ![c] = e]
         /\ UNCHANGED <<conn, permits, place>>
    ELSE AttemptFails(c, e) /\ GiveBack(c)

\* The actor refuses the command unsent (poisoned), or finds itself in an
\* INSERT that is not this borrower's.  Either error poisons the connection in
\* poison_unless_server_rejected; behind a cursor nothing does.
Refuse(c) ==
    LET k == conn[c] IN
    /\ pc[c] = "queued" /\ actor[k] # "busy"
    /\ poisoned[k] \/ actor[k] = "insert"
    /\ CommandFails(c, IF poisoned[k] THEN "refused" ELSE "wedged")
    /\ poisoned' = [poisoned EXCEPT ![k] = @ \/ kind[c] # "stream"]
    /\ UNCHANGED <<kind, tries, reached, hurried, actor, cut>>

\* ... or writes it, to the server or to a link that is gone.
Send(c) ==
    LET k == conn[c] IN
    /\ pc[c] = "queued" /\ actor[k] = "idle" /\ ~poisoned[k]
    /\ actor' = [actor EXCEPT ![k] = "busy"]
    /\ pc' = [pc EXCEPT ![c] = IF cut[k] THEN "void" ELSE "running"]
    /\ reached' = IF cut[k] THEN reached ELSE [reached EXCEPT ![c] = @ + 1]
    /\ UNCHANGED <<kind, conn, tries, result, poolVars, poisoned, cut>>

\* The server answers: EndOfStream (for begin_insert the table's columns) ...
Succeed(c) ==
    LET k == conn[c] IN
    /\ pc[c] = "running"
    /\ actor' = [actor EXCEPT ![k] = IF kind[c] = "insert" THEN "insert" ELSE "idle"]
    /\ IF kind[c] = "insert"
       THEN /\ pc' = [pc EXCEPT ![c] = "session"]
            /\ UNCHANGED <<conn, result, permits, place>>
       ELSE /\ pc' = [pc EXCEPT ![c] = IF kind[c] = "stream" THEN "ended" ELSE "done"]
            /\ result' = [result EXCEPT ![c] = "ok"]
            /\ IF kind[c] = "stream" THEN UNCHANGED <<conn, permits, place>> ELSE GiveBack(c)
    /\ UNCHANGED <<kind, tries, reached, hurried, poisoned, cut>>

\* ... or an Exception, which costs the connection nothing.
Reject(c, e) ==
    /\ pc[c] = "running"
    /\ actor' = [actor EXCEPT ![conn[c]] = "idle"]
    /\ CommandFails(c, e)
    /\ UNCHANGED <<kind, tries, reached, hurried, poisoned, cut>>

\* Or nothing useful comes: a timeout, a closed link, an undecodable packet.
Lose(c, e) ==
    /\ pc[c] \in InFlight
    /\ actor' = [actor EXCEPT ![conn[c]] = "idle"]
    /\ poisoned' = [poisoned EXCEPT ![conn[c]] = TRUE]
    /\ CommandFails(c, e)
    /\ UNCHANGED <<kind, tries, reached, hurried, cut>>

\* The cursor that has yielded its last frame is dropped, and with it the slot.
DropCursor(c) ==
    /\ pc[c] = "ended"
    /\ pc' = [pc EXCEPT ![c] = "done"]
    /\ GiveBack(c)
    /\ UNCHANGED <<kind, tries, reached, result, hurried, connVars>>

-----------------------------------------------------------------------------
(* TcpInsertSession *)

\* send_block: the server rejects the INSERT, or the block is not delivered.  (A
\* block that is accepted changes nothing here.)
BlockRejected(c) ==
    /\ pc[c] = "session" /\ actor[conn[c]] = "insert" /\ ~cut[conn[c]]
    /\ actor' = [actor EXCEPT ![conn[c]] = "idle"]
    /\ UNCHANGED <<callVars, poolVars, poisoned, cut>>
BlockFails(c) ==
    /\ pc[c] = "session"
    /\ poisoned' = [poisoned EXCEPT ![conn[c]] = TRUE]
    /\ UNCHANGED <<callVars, poolVars, actor, cut>>

\* finish settles the session whatever comes of it.  After a rejected block
\* there is no INSERT left to finish.
Finish(c, o) ==
    LET k == conn[c]
        answered == o \in {"ok", "rejected", "overloaded"}
    IN
    /\ pc[c] = "session"
    /\ answered => actor[k] = "insert" /\ ~cut[k]
    /\ actor' = [actor EXCEPT ![k] = "idle"]
    /\ poisoned' = [poisoned EXCEPT ![k] = @ \/ ~answered]
    /\ pc' = [pc EXCEPT ![c] = "done"]
    /\ result' = [result EXCEPT ![c] = o]
    /\ GiveBack(c)
    /\ UNCHANGED <<kind, tries, reached, hurried, cut>>

\* Defect: a session dropped without finish() leaves the connection alive.
DropSessionQuietly(c) ==
    /\ pc[c] = "session"
    /\ pc' = [pc EXCEPT ![c] = "done"]
    /\ result' = [result EXCEPT ![c] = "cancelled"]
    /\ GiveBack(c)
    /\ UNCHANGED <<kind, tries, reached, hurried, connVars>>

\* abort(), or a drop of the session (or of finish()) that settled nothing.
DropSession(c) ==
    /\ pc[c] = "session"
    /\ poisoned' = [poisoned EXCEPT ![conn[c]] = TRUE]
    /\ pc' = [pc EXCEPT ![c] = "done"]
    /\ result' = [result EXCEPT ![c] = "cancelled"]
    /\ GiveBack(c)
    /\ UNCHANGED <<kind, tries, reached, hurried, actor, cut>>

-----------------------------------------------------------------------------
(* Cancellation: the caller drops the future, or a live cursor *)

\* Before there is a connection: the permit, if any, goes back.
CancelAcquire(c) ==
    /\ pc[c] \in {"waiting", "backoff", "picking"}
    /\ pc' = [pc EXCEPT ![c] = "done"]
    /\ result' = [result EXCEPT ![c] = "cancelled"]
    /\ permits' = IF pc[c] = "picking" THEN permits + 1 ELSE permits
    /\ UNCHANGED <<kind, conn, tries, reached, place, hurried, connVars>>

\* While a refused connection is being closed: it is detached, and closes alone.
CancelClosing(c) ==
    /\ pc[c] = "closing" /\ hurried < MaxHurried
    /\ pc' = [pc EXCEPT ![c] = "done"]
    /\ result' = [result EXCEPT ![c] = "cancelled"]
    /\ permits' = permits + 1
    /\ place' = [place EXCEPT ![conn[c]] = IF @ = "closing" THEN "orphan" ELSE "lingering"]
    /\ hurried' = hurried + 1
    /\ conn' = [conn EXCEPT ![c] = None]
    /\ UNCHANGED <<kind, tries, reached, connVars>>

\* With a command on its way: begin_insert's guard poisons the connection.  Any
\* other command is left to the actor, which cancels and drains it; one that is
\* still queued may yet be written.
CancelCommand(c) ==
    LET k == conn[c]
        pending == pc[c] = "queued" /\ kind[c] # "insert" /\ ~poisoned[k] /\ actor[k] # "insert"
    IN
    /\ pc[c] \in {"queued"} \cup InFlight
    /\ pc' = [pc EXCEPT ![c] = "done"]
    /\ result' = [result EXCEPT ![c] = "cancelled"]
    /\ poisoned' = [poisoned EXCEPT ![k] = @ \/ kind[c] = "insert"]
    /\ \/ UNCHANGED <<reached, actor>>
       \/ /\ pending
          /\ actor' = [actor EXCEPT ![k] = "busy"]
          /\ reached' = IF cut[k] THEN reached ELSE [reached EXCEPT ![c] = @ + 1]
    /\ GiveBack(c)
    /\ UNCHANGED <<kind, tries, hurried, cut>>

-----------------------------------------------------------------------------
(* The connections *)

Open(k) == place[k] \in {"idle", "out"}

\* Nobody waits for what the actor of k is doing.
Draining(k) == actor[k] = "busy" /\ \A c \in Calls : conn[c] = k => pc[c] \notin InFlight

DrainEnds(k) ==
    /\ Draining(k) /\ ~cut[k]
    /\ actor' = [actor EXCEPT ![k] = "idle"]
    /\ UNCHANGED <<callVars, poolVars, poisoned, cut>>
DrainFails(k) ==
    /\ Draining(k)
    /\ actor' = [actor EXCEPT ![k] = "idle"]
    /\ poisoned' = [poisoned EXCEPT ![k] = TRUE]
    /\ UNCHANGED <<callVars, poolVars, cut>>

\* The actor of a connection that was told to shut down ends, and its Drop asks
\* for the reader's abort.  (What the actor was is forgotten: the next connection
\* under this name is a new one.)
ActorEnds(k) ==
    /\ place[k] \in {"closing", "orphan"} /\ actor[k] # "busy"
    /\ place' = [place EXCEPT ![k] = IF @ = "closing" THEN "closed" ELSE "lingering"]
    /\ actor' = [actor EXCEPT ![k] = "idle"]
    /\ poisoned' = [poisoned EXCEPT ![k] = FALSE]
    /\ cut' = [cut EXCEPT ![k] = FALSE]
    /\ UNCHANGED <<callVars, permits, hurried>>

\* The runtime drops the aborted reader, and with the read half the socket closes.
ReaderDropped(k) ==
    /\ place[k] = "lingering"
    /\ place' = [place EXCEPT ![k] = "gone"]
    /\ UNCHANGED <<callVars, permits, hurried, connVars>>

\* The link goes, and at some later time, or never, the reader sub-task sees it.
Cut(k) ==
    /\ Open(k) /\ ~cut[k]
    /\ cut' = [cut EXCEPT ![k] = TRUE]
    /\ UNCHANGED <<callVars, poolVars, actor, poisoned>>
Notice(k) ==
    /\ Open(k) /\ cut[k] /\ ~poisoned[k]
    /\ poisoned' = [poisoned EXCEPT ![k] = TRUE]
    /\ UNCHANGED <<callVars, poolVars, actor, cut>>

-----------------------------------------------------------------------------

CreateErrors == {"connect", "denied"}
Rejections   == {"rejected", "overloaded"}
Losses       == {"lost", "broken"}

GetStep(c) ==
    \/ Acquire(c) \/ AcquireTimeout(c) \/ Backoff(c)
    \/ \E k \in Conns : Pop(c, k) \/ Create(c, k)
    \/ \E e \in CreateErrors : CreateFails(c, e)
    \/ CloseRefused(c) \/ RecycleTimeout(c)

RunStep(c) ==
    \/ Refuse(c) \/ Send(c) \/ Succeed(c)
    \/ \E e \in Rejections : Reject(c, e)
    \/ \E e \in Losses : Lose(c, e)

HolderStep(c) ==
    \/ DropCursor(c) \/ BlockRejected(c) \/ BlockFails(c) \/ DropSession(c)
    \/ \E o \in {"ok"} \cup Rejections \cup Losses : Finish(c, o)

CancelStep(c) == CancelAcquire(c) \/ CancelClosing(c) \/ CancelCommand(c)

ActorStep(k) == DrainEnds(k) \/ DrainFails(k) \/ ActorEnds(k) \/ ReaderDropped(k)
LinkStep(k) == Cut(k) \/ Notice(k)

Next ==
    \/ \E c \in Calls :
        \/ \E k \in Kinds : Start(c, k)
        \/ GetStep(c) \/ RunStep(c) \/ HolderStep(c) \/ CancelStep(c)
    \/ \E k \in Conns : ActorStep(k) \/ LinkStep(k)

Spec == Init /\ [][Next]_vars

\* An open cursor: how long it takes is the application's business.
CursorOpen(c) == kind[c] = "stream" /\ pc[c] \in InFlight

\* A call that waits is woken or timed out; with read_timeout set a command is
\* answered or times out; an actor ends its drain (DRAIN_TIMEOUT) and its shutdown
\* (SHUTDOWN_TIMEOUT), and the runtime drops an aborted task.  Nothing obliges the
\* holder of a cursor or of a session to poll it or to let go of it.
Fairness ==
    /\ \A c \in Calls : WF_vars(GetStep(c)) /\ WF_vars(~CursorOpen(c) /\ RunStep(c))
    /\ \A k \in Conns : WF_vars(ActorStep(k))

FairSpec == Spec /\ Fairness

-----------------------------------------------------------------------------
(* Properties *)

Holders == {c \in Calls : pc[c] \in Holding}
Sockets == {k \in Conns : place[k] # "gone"}
Lingering == {k \in Conns : place[k] = "lingering"}

\* Every way an acquire, a statement, a session or a cancellation can end puts
\* its permit back: none is lost, none is returned twice.
NoLostSlot == permits + Cardinality(Holders) = MaxSize

\* A refused connection's actor is gone before its slot refills: beyond max_size
\* the pool has a socket open only for each closing that was cut short, and for
\* each actor that has ended and whose aborted reader still has the read half.
ConnectionsBounded == Cardinality(Sockets \ Lingering) <= MaxSize + hurried

\* A borrower never meets the INSERT an earlier one left open on the connection,
\* however that session was dropped, cancelled or settled.
NoWedge == \A c \in Calls : result[c] # "wedged"

\* The statement's promise, and how a call keeps it.
StatusAt(p) == IF p = "new" THEN "new" ELSE IF p \in {"ended", "done"} THEN "done" ELSE "active"
Statuses == [c \in Calls |-> StatusAt(pc[c])]
Promise == INSTANCE Statement WITH status <- Statuses

\* The pool, the retry loop and every cancellation keep what the client promises:
\* a statement that is not idempotent reaches a server at most once, success
\* means it did, and an unsent outcome means it did not.
KeepsPromise == Promise!Spec

-----------------------------------------------------------------------------
(* The inductive invariant *)

Taken   == {"out", "closing", "closed"}
Borrowed == {k \in Conns : place[k] \in Taken}
Pooled  == {k \in Conns : place[k] \in Taken \cup {"idle"}}
Orphans == {k \in Conns : place[k] = "orphan"}

\* A connection outside the pool is with exactly one call.
Loans ==
    /\ \A c \in Calls : pc[c] \notin Attached => conn[c] = None
    /\ \A c \in Calls : pc[c] \in Attached =>
        /\ conn[c] \in Conns
        /\ place[conn[c]] \in IF pc[c] = "closing" THEN {"closing", "closed"} ELSE {"out"}
    /\ \A c, d \in Calls : pc[c] \in Attached /\ conn[c] = conn[d] => c = d
    /\ \A k \in Borrowed : \E c \in Calls : conn[c] = k

\* An open INSERT is its session's, or the connection is poisoned.
Inserts == \A k \in Conns : actor[k] = "insert" =>
    poisoned[k] \/ \E c \in Calls : pc[c] = "session" /\ conn[c] = k

\* How often a statement was sent, at each point of its call.
Before == {"waiting", "picking", "closing", "queued", "void"}
Counts == \A c \in Calls :
    /\ pc[c] = "new" => kind[c] = "none" /\ tries[c] = 0 /\ reached[c] = 0
    /\ pc[c] # "new" => kind[c] \in Kinds /\ tries[c] > 0
    /\ pc[c] = "backoff" => kind[c] \in {"idempotent", "stream"} /\ tries[c] < MaxAttempts
    /\ pc[c] \in Before => reached[c] < tries[c]
    /\ reached[c] <= tries[c]
    /\ kind[c] # "idempotent" =>
        /\ reached[c] <= 1
        /\ pc[c] \in Before \cup {"backoff"} => reached[c] = 0
    /\ pc[c] \in {"running", "session"} => reached[c] > 0
    /\ pc[c] = "session" => kind[c] = "insert"

\* Pooled connections fit the permits, and each orphan was counted.
Sizes ==
    /\ Cardinality(Pooled) <= MaxSize
    /\ Cardinality(Orphans) <= hurried

\* What every step preserves, and the properties above follow from.
IInv == TypeOK /\ Loans /\ NoLostSlot /\ Inserts /\ NoWedge /\ Counts /\ Sizes

-----------------------------------------------------------------------------
(* Liveness *)

\* With read_timeout set a call never waits for ever, even when every connection is
\* held by a cursor or a session nobody polls or lets go of: it ends, or it holds a
\* cursor or a session itself.
EveryCallSettles ==
    \A c \in Calls :
        pc[c] # "new" ~> (CursorOpen(c) \/ pc[c] \in {"session", "ended", "done"})
=============================================================================
