----------------------------- MODULE Connection -----------------------------
(***************************************************************************)
(* One native-protocol connection: the ConnectionActor that owns the write *)
(* half of the socket, the reader sub-task that owns the read half, the    *)
(* calls made on clones of the ConnectionHandle, and the server at the     *)
(* other end (external: modelled from what the actor expects of it).       *)
(*                                                                         *)
(* A statement is identified by the call that put it on the wire, and      *)
(* every packet the server sends carries that call as its tag.  The real   *)
(* protocol has no such tag: responses are matched to requests by their    *)
(* position in the stream alone, which is why the tag is what the          *)
(* properties look at and what no action looks at.                         *)
(*                                                                         *)
(* pipe holds what the server has sent and the actor has not consumed.     *)
(* Its first `buffered` packets are in the reader -> actor channel, the    *)
(* rest are still in the socket.                                           *)
(***************************************************************************)
EXTENDS Naturals, Sequences, FiniteSets

CONSTANTS
    Calls,           \* the calls made on the handle, each made at most once
    Kinds,           \* the ConnectionCmd kinds those calls may be
    CmdCapacity,     \* DEFAULT_CMD_CHANNEL
    PacketCapacity,  \* PACKET_CHANNEL_CAPACITY
    StreamCapacity,  \* STREAM_CHANNEL_CAPACITY
    UpCapacity,      \* messages the socket holds towards the server
    DownCapacity,    \* packets the socket holds towards the reader
    ReadTimeout,     \* is ActorConfig::read_timeout set?
    MayShutdown,     \* is close() called in this instance?
    MaxWaiting,      \* bound: callers waiting at the same time
    MaxPackets,      \* bound: non-terminal packets the server sends in a run
    None             \* no call

AllKinds == {"ping", "query", "begin", "block", "oversize", "finish", "stream"}

ASSUME ConstantsAssumption ==
    /\ None \notin Calls
    /\ Kinds \subseteq AllKinds
    /\ CmdCapacity \in Nat \ {0}
    /\ PacketCapacity \in Nat \ {0}
    /\ StreamCapacity \in Nat \ {0}
    /\ UpCapacity \in Nat \ {0}
    /\ DownCapacity \in Nat \ {0}
    /\ ReadTimeout \in BOOLEAN
    /\ MayShutdown \in BOOLEAN
    /\ MaxWaiting \in Nat \ {0}
    /\ MaxPackets \in Nat

VARIABLES
    \* the calls
    kind,        \* kind[c]: the command call c sends, None before it is made
    caller,      \* caller[c]: is the caller's future pending, done or dropped
    where,       \* where[c]: how far the command of c has got
    answer,      \* answer[c]: what the oneshot (or the cursor) tells the caller
    \* the actor
    queue,       \* the command channel
    pc,          \* where the actor task is
    cur,         \* the call it is handling
    tag,         \* the statement that is, or was last, on the wire
    state,       \* ActorState: "Idle" or "InsertActive"
    out,         \* the message it is writing
    item,        \* the frame it is forwarding to a cursor
    poisoned,    \* the flag shared by the handle, the actor and the reader
    shutdown,    \* has shutdown been signalled?
    \* the reader sub-task and the socket
    reader,      \* the reader sub-task
    pipe,        \* packets sent and not consumed, oldest first
    buffered,    \* how many of them are in the reader -> actor channel
    up,          \* messages written and not read by the server
    link,        \* is the socket open?
    \* streaming SELECT
    frames,      \* frames[c]: the results channel of stream call c
    delivered,   \* delivered[c]: block numbers the cursor of c returned
    \* the server
    srv,         \* what the server is doing
    srvTag,      \* for which statement
    sent,        \* sent[c]: blocks it has sent for statement c
    stored,      \* stored[c]: calls whose block it received for INSERT c
    verdict,     \* verdict[c]: how it ended statement c
    budget       \* non-terminal packets it may still send

callVars   == <<kind, caller, where, answer>>
actorVars  == <<queue, pc, cur, tag, state, out, item>>
flagVars   == <<poisoned, shutdown>>
readerVars == <<reader, pipe, buffered>>
streamVars == <<frames, delivered>>
serverVars == <<srv, srvTag, sent, stored, verdict, budget>>
vars == <<callVars, actorVars, flagVars, readerVars, up, link, streamVars, serverVars>>

-----------------------------------------------------------------------------
(* Types *)

\* What the client writes, and what the server sends.
UpMessage == [m : {"Query", "Ping", "Cancel", "Data", "Empty"},
              tag : Calls \cup {None}, call : Calls \cup {None}]
Packet    == [t : {"Pong", "EndOfStream", "Exception", "Data", "DataBlock", "Progress", "Log"},
              tag : Calls \cup {None}, n : Nat]

Outcomes  == {"ok", "exception", "bad", "failed", "refused", "dropped", "closed"}
Answer    == [out : Outcomes, tag : Calls \cup {None}]
NoAnswer  == [out |-> "none", tag |-> None]

\* An element of a results channel: Ok(packet), or the terminal frame.
Frame     == [f : Outcomes \cup {"block", "other"}, tag : Calls \cup {None}, n : Nat]
NoFrame   == [f |-> "other", tag |-> None, n |-> 0]

CallTypes ==
    /\ kind \in [Calls -> Kinds \cup {None}]
    /\ caller \in [Calls -> {"new", "waiting", "returned", "dropped"}]
    /\ where \in [Calls -> {"new", "sending", "queued", "actor", "finished"}]
    /\ answer \in [Calls -> Answer \cup {NoAnswer}]
ActorTypes ==
    /\ queue \in Seq(Calls)
    /\ pc \in {"recv", "peek", "write", "read", "drain", "forward", "stopping", "gone"}
    /\ cur \in Calls \cup {None}
    /\ tag \in Calls \cup {None}
    /\ state \in {"Idle", "InsertActive"}
    /\ out \in {"none", "Query", "Ping", "Cancel", "Data", "Empty"}
    /\ item \in Frame
FlagTypes ==
    /\ poisoned \in BOOLEAN
    /\ shutdown \in BOOLEAN
SocketTypes ==
    /\ reader \in {"reading", "failing", "failed", "closed", "aborted"}
    /\ pipe \in Seq(Packet)
    /\ buffered \in Nat /\ buffered <= Len(pipe) /\ buffered <= PacketCapacity
    /\ up \in Seq(UpMessage)
    /\ link \in {"open", "closed"}
StreamTypes ==
    /\ frames \in [Calls -> Seq(Frame)]
    /\ delivered \in [Calls -> Seq(Nat)]
ServerTypes ==
    /\ srv \in {"idle", "ping", "query", "stream", "cancelled", "begin", "insert", "commit"}
    /\ srvTag \in Calls \cup {None}
    /\ sent \in [Calls -> Nat]
    /\ stored \in [Calls -> Seq(Calls)]
    /\ verdict \in [Calls -> {"none", "ended", "rejected"}]
    /\ budget \in 0..MaxPackets

Bounded ==
    /\ Len(queue) <= CmdCapacity
    /\ Len(up) <= UpCapacity
    /\ \A c \in Calls : Len(frames[c]) <= StreamCapacity

\* The shape of the state: every variable holds what the code can store in it,
\* and the channels respect their capacities.
TypeOK ==
    /\ CallTypes /\ ActorTypes /\ FlagTypes /\ SocketTypes /\ StreamTypes /\ ServerTypes
    /\ Bounded

Init ==
    /\ kind = [c \in Calls |-> None]
    /\ caller = [c \in Calls |-> "new"]
    /\ where = [c \in Calls |-> "new"]
    /\ answer = [c \in Calls |-> NoAnswer]
    /\ queue = <<>>
    /\ pc = "recv"
    /\ cur = None
    /\ tag = None
    /\ state = "Idle"
    /\ out = "none"
    /\ item = NoFrame
    /\ poisoned = FALSE
    /\ shutdown = FALSE
    /\ reader = "reading"
    /\ pipe = <<>>
    /\ buffered = 0
    /\ up = <<>>
    /\ link = "open"
    /\ frames = [c \in Calls |-> <<>>]
    /\ delivered = [c \in Calls |-> <<>>]
    /\ srv = "idle"
    /\ srvTag = None
    /\ sent = [c \in Calls |-> 0]
    /\ stored = [c \in Calls |-> <<>>]
    /\ verdict = [c \in Calls |-> "none"]
    /\ budget = MaxPackets

-----------------------------------------------------------------------------
(* The callers: ConnectionHandle's methods *)

InsertContinuation == {"block", "oversize", "finish"}

\* A method is called: the reply channel is made and the command offered to
\* the worker.  begin_insert arms PoisonOnDrop here.
Submit(c, k) ==
    /\ caller[c] = "new"
    /\ Cardinality({d \in Calls : caller[d] = "waiting"}) < MaxWaiting
    /\ kind' = [kind EXCEPT ![c] = k]
    /\ caller' = [caller EXCEPT ![c] = "waiting"]
    /\ where' = [where EXCEPT ![c] = "sending"]
    /\ UNCHANGED <<answer, actorVars, flagVars, readerVars, up, link, streamVars, serverVars>>

\* WorkerHandle::send completes once the command channel has room.
Enqueue(c) ==
    /\ caller[c] = "waiting" /\ where[c] = "sending"
    /\ pc # "gone"
    /\ Len(queue) < CmdCapacity
    /\ queue' = Append(queue, c)
    /\ where' = [where EXCEPT ![c] = "queued"]
    /\ UNCHANGED <<kind, caller, answer, pc, cur, tag, state, out, item,
                   flagVars, readerVars, up, link, streamVars, serverVars>>

\* ... and fails once the actor task is gone ("connection actor closed").
SendClosed(c) ==
    /\ caller[c] = "waiting" /\ where[c] = "sending"
    /\ pc = "gone"
    /\ answer' = [answer EXCEPT ![c] = [out |-> "closed", tag |-> None]]
    /\ where' = [where EXCEPT ![c] = "finished"]
    /\ UNCHANGED <<kind, caller, actorVars, flagVars, readerVars, up, link, streamVars, serverVars>>

\* The guard of begin_insert fires unless a reply was received: the future was
\* dropped, the actor was gone, or it dropped the reply channel.
PoisonOnDrop(c, received) == poisoned' = (poisoned \/ (kind[c] = "begin" /\ ~received))

\* The caller's future is polled and finds its answer.
Return(c) ==
    /\ caller[c] = "waiting"
    /\ answer[c] # NoAnswer
    /\ caller' = [caller EXCEPT ![c] = "returned"]
    /\ PoisonOnDrop(c, answer[c].out \notin {"closed", "dropped"})
    /\ UNCHANGED <<kind, where, answer, actorVars, shutdown, readerVars, up, link,
                   streamVars, serverVars>>

\* The caller's future (for a stream: the cursor) is dropped before that.  A
\* command still waiting for room in the channel is never sent.
Drop(c) ==
    /\ caller[c] = "waiting"
    /\ caller' = [caller EXCEPT ![c] = "dropped"]
    /\ where' = [where EXCEPT ![c] = IF @ = "sending" THEN "finished" ELSE @]
    /\ PoisonOnDrop(c, FALSE)
    /\ UNCHANGED <<kind, answer, actorVars, shutdown, readerVars, up, link, streamVars, serverVars>>

\* TcpRawCursor::next_block takes one frame; the stream ends at the first
\* terminal frame, or with an error when the channel closes without one.
CursorNext(c) ==
    /\ kind[c] = "stream" /\ caller[c] = "waiting" /\ answer[c] = NoAnswer
    /\ \/ /\ frames[c] # <<>>
          /\ frames' = [frames EXCEPT ![c] = Tail(@)]
          /\ LET f == Head(frames[c]) IN
                /\ delivered' = IF f.f = "block"
                                THEN [delivered EXCEPT ![c] = Append(@, f.n)] ELSE delivered
                /\ answer' = IF f.f \in Outcomes
                             THEN [answer EXCEPT ![c] = [out |-> f.f, tag |-> f.tag]] ELSE answer
       \/ /\ frames[c] = <<>> /\ where[c] = "finished"
          /\ answer' = [answer EXCEPT ![c] = [out |-> "dropped", tag |-> None]]
          /\ UNCHANGED streamVars
    /\ UNCHANGED <<kind, caller, where, actorVars, flagVars, readerVars, up, link, serverVars>>

\* ConnectionHandle::close, or the drop of the last clone, signals shutdown.
RequestShutdown ==
    /\ MayShutdown /\ ~shutdown
    /\ shutdown' = TRUE
    /\ UNCHANGED <<callVars, actorVars, poisoned, readerVars, up, link, streamVars, serverVars>>

-----------------------------------------------------------------------------
(* The actor: the worker loop and CommandWorker::handle *)

\* oneshot::Sender::send: an answer nobody waits for is discarded.
Reply(c, o, t) ==
    answer' = IF caller[c] = "waiting"
              THEN [answer EXCEPT ![c] = [out |-> o, tag |-> t]] ELSE answer

\* handle() returns for call c: back to the worker loop.
HandlerReturns(c) ==
    /\ pc' = "recv"
    /\ cur' = None
    /\ where' = [where EXCEPT ![c] = "finished"]

\* The command of call c ends with outcome o, learned from a packet of
\* statement t (None: a local outcome).  A oneshot reply is sent and handle()
\* returns; a stream's outcome is a frame, which waits for room.
Settle(c, o, t) ==
    IF kind[c] = "stream"
    THEN /\ pc' = "forward"
         /\ cur' = c
         /\ item' = [f |-> o, tag |-> t, n |-> 0]
         /\ where' = [where EXCEPT ![c] = "actor"]
         /\ UNCHANGED answer
    ELSE /\ HandlerReturns(c)
         /\ Reply(c, o, t)
         /\ UNCHANGED item

\* Defect: the poison check at the head of handle() is missing.
NoRejectPoisoned(c) == FALSE
\* Defect: the state gate is missing.
NoStateGate(c) == FALSE

\* The conditions under which handle() answers without touching the socket:
\* the poison check first, then the state gate, then the block size cap.
RejectPoisoned(c) == poisoned /\ kind[c] \notin InsertContinuation
StateGate(c) == (state = "InsertActive") # (kind[c] \in InsertContinuation)
Oversize(c) == kind[c] = "oversize"
Refuses(c) == RejectPoisoned(c) \/ StateGate(c) \/ Oversize(c)

\* What handle() writes first for each kind of command.
FirstWrite(k) == CASE k = "ping" -> "Ping"
                   [] k = "finish" -> "Empty"
                   [] OTHER -> "Query"

\* The worker loop takes a command; a pending shutdown is looked at first.
\* A new statement gets its own tag, an INSERT continuation keeps the session's.
Handle(c) ==
    /\ pc = "recv" /\ ~shutdown
    /\ queue # <<>> /\ c = Head(queue)
    /\ queue' = Tail(queue)
    /\ \/ /\ Refuses(c)
          /\ Settle(c, "refused", None)
          /\ UNCHANGED <<tag, out>>
       \/ /\ ~Refuses(c)
          /\ cur' = c
          /\ where' = [where EXCEPT ![c] = "actor"]
          /\ IF kind[c] = "block"
             THEN pc' = "peek" /\ UNCHANGED <<tag, out>>
             ELSE /\ pc' = "write"
                  /\ out' = FirstWrite(kind[c])
                  /\ tag' = IF kind[c] = "finish" THEN tag ELSE c
          /\ UNCHANGED <<answer, item>>
    /\ UNCHANGED <<kind, caller, state, flagVars, readerVars, up, link, streamVars, serverVars>>

\* The loop sees the shutdown signal and runs on_shutdown ...
Stop ==
    /\ pc = "recv" /\ shutdown
    /\ pc' = "stopping"
    /\ UNCHANGED <<callVars, queue, cur, tag, state, out, item, flagVars, readerVars, up, link,
                   streamVars, serverVars>>

\* Defect: the reply channels of queued commands outlive the task.
ExitKeepsReplies ==
    /\ pc = "stopping"
    /\ pc' = "gone"
    /\ queue' = <<>>
    /\ reader' = "aborted"
    /\ link' = "closed"
    /\ UNCHANGED <<callVars, cur, tag, state, out, item, flagVars, pipe, buffered, up,
                   streamVars, serverVars>>

\* ... which closes the socket, or gives up after SHUTDOWN_TIMEOUT; then the
\* task ends.  The commands still queued are dropped with their reply channels
\* and the reader sub-task is aborted.
Exit ==
    /\ pc = "stopping"
    /\ pc' = "gone"
    /\ queue' = <<>>
    /\ where' = [c \in Calls |-> IF where[c] = "queued" THEN "finished" ELSE where[c]]
    /\ answer' = [c \in Calls |->
                    IF where[c] = "queued" /\ caller[c] = "waiting" /\ kind[c] # "stream"
                    THEN [out |-> "dropped", tag |-> None] ELSE answer[c]]
    /\ reader' = "aborted"
    /\ link' = "closed"
    /\ UNCHANGED <<kind, caller, cur, tag, state, out, item, flagVars, pipe, buffered, up,
                   streamVars, serverVars>>

-----------------------------------------------------------------------------
(* The actor: writing *)

Written == [m |-> out, tag |-> tag, call |-> cur]

\* A socket write completes: issue_query, send_ping, send_cancel,
\* send_data_block or send_empty_block.
WriteDone ==
    /\ pc = "write"
    /\ Len(up) < UpCapacity
    /\ up' = Append(up, Written)
    /\ IF out = "Data"
       THEN Settle(cur, "ok", tag)
       ELSE /\ pc' = IF out \in {"Query", "Ping"} THEN "read" ELSE "drain"
            /\ UNCHANGED <<cur, item, where, answer>>
    /\ out' = "none"
    /\ UNCHANGED <<kind, caller, queue, tag, state, flagVars, readerVars, link,
                   streamVars, serverVars>>

\* Defect: an INSERT's writes are awaited without a deadline.
NoBoundedWrite == FALSE

\* Every write of an INSERT's data is bounded by read_timeout (bounded_io).
BoundedWrite == ReadTimeout /\ out \in {"Data", "Empty"}

\* Defect: a failed write is reported as "command not sent".
WriteFailsAsRefused ==
    /\ pc = "write"
    /\ \/ link = "closed" /\ UNCHANGED up
       \/ BoundedWrite /\ UNCHANGED up
       \/ BoundedWrite /\ Len(up) < UpCapacity /\ up' = Append(up, Written)
    /\ poisoned' = TRUE
    /\ state' = IF out \in {"Data", "Empty"} THEN "Idle" ELSE state
    /\ IF out = "Cancel"
       THEN HandlerReturns(cur) /\ UNCHANGED <<answer, item>>
       ELSE Settle(cur, "refused", None)
    /\ out' = "none"
    /\ UNCHANGED <<kind, caller, queue, tag, shutdown, readerVars, link,
                   streamVars, serverVars>>

\* A failed write poisons the connection and ends an INSERT session.  A write
\* that timed out may still reach the server: on_shutdown flushes the buffer.
WriteFails ==
    /\ pc = "write"
    /\ \/ link = "closed" /\ UNCHANGED up
       \/ BoundedWrite /\ UNCHANGED up
       \/ BoundedWrite /\ Len(up) < UpCapacity /\ up' = Append(up, Written)
    /\ poisoned' = TRUE
    /\ state' = IF out \in {"Data", "Empty"} THEN "Idle" ELSE state
    /\ IF out = "Cancel"
       THEN HandlerReturns(cur) /\ UNCHANGED <<answer, item>>
       ELSE Settle(cur, "failed", None)
    /\ out' = "none"
    /\ UNCHANGED <<kind, caller, queue, tag, shutdown, readerVars, link,
                   streamVars, serverVars>>

-----------------------------------------------------------------------------
(* The actor: reading *)

\* pkt_rx yields a packet, or yields the reader's Error and afterwards None.
Consume ==
    /\ buffered > 0
    /\ pipe' = Tail(pipe)
    /\ buffered' = buffered - 1
    /\ UNCHANGED reader
ReaderDead ==
    /\ buffered = 0
    /\ reader \in {"failed", "closed"}
    /\ reader' = "closed"
    /\ UNCHANGED <<pipe, buffered>>

\* Only do_execute_query and do_execute_stream watch their caller.
CallerGone == kind[cur] \in {"query", "stream"} /\ caller[cur] = "dropped"

\* do_send_insert_block first takes what is queued, without waiting: an
\* Exception ends the session, anything else is discarded.
PeekPacket ==
    /\ pc = "peek"
    /\ Consume
    /\ LET p == Head(pipe) IN
          IF p.t = "Exception"
          THEN state' = "Idle" /\ Settle(cur, "exception", p.tag)
          ELSE UNCHANGED <<state, pc, cur, item, where, answer>>
    /\ UNCHANGED <<kind, caller, queue, tag, out, flagVars, up, link, streamVars, serverVars>>

PeekDead ==
    /\ pc = "peek"
    /\ ReaderDead
    /\ poisoned' = TRUE
    /\ state' = "Idle"
    /\ Settle(cur, "failed", None)
    /\ UNCHANGED <<kind, caller, queue, tag, out, shutdown, up, link, streamVars, serverVars>>

PeekEmpty ==
    /\ pc = "peek"
    /\ buffered = 0 /\ reader \in {"reading", "failing"}
    /\ pc' = "write"
    /\ out' = "Data"
    /\ UNCHANGED <<callVars, queue, cur, tag, state, item, flagVars, readerVars, up, link,
                   streamVars, serverVars>>

\* What a packet means to do_ping, do_execute_query, do_begin_insert and
\* do_execute_stream: the outcome that ends the command, a frame for the cursor
\* ("block", "other"), or nothing ("ignore").
PingOutcome(p) ==
    CASE p.t = "Pong"        -> "ok"
      [] p.t = "Exception"   -> "exception"
      [] OTHER               -> "ignore"
QueryOutcome(p) ==
    CASE p.t = "EndOfStream" -> "ok"
      [] p.t = "Exception"   -> "exception"
      [] OTHER               -> "ignore"
BeginOutcome(p) ==
    CASE p.t = "Data"        -> "ok"
      [] p.t = "DataBlock"   -> "failed"
      [] p.t = "EndOfStream" -> "bad"
      [] p.t = "Exception"   -> "exception"
      [] OTHER               -> "ignore"
StreamOutcome(p) ==
    CASE p.t = "EndOfStream"            -> "ok"
      [] p.t = "Exception"              -> "exception"
      [] p.t \in {"Data", "DataBlock"}  -> "block"
      [] p.t = "Progress"               -> "other"
      [] OTHER                          -> "ignore"
ReadOutcome(k, p) ==
    CASE k = "ping"   -> PingOutcome(p)
      [] k = "begin"  -> BeginOutcome(p)
      [] k = "stream" -> StreamOutcome(p)
      [] OTHER        -> QueryOutcome(p)

ReadPacket ==
    /\ pc = "read" /\ ~CallerGone
    /\ Consume
    /\ LET p == Head(pipe)
           o == ReadOutcome(kind[cur], p)
       IN /\ poisoned' = (poisoned \/ o = "failed")
          /\ state' = IF kind[cur] = "begin" /\ o = "ok" THEN "InsertActive" ELSE state
          /\ CASE o = "ignore" -> UNCHANGED <<pc, cur, item, where, answer>>
               [] o \in {"block", "other"} ->
                    /\ pc' = "forward"
                    /\ item' = [f |-> o, tag |-> p.tag, n |-> p.n]
                    /\ UNCHANGED <<cur, where, answer>>
               [] OTHER -> Settle(cur, o, p.tag)
    /\ UNCHANGED <<kind, caller, queue, tag, out, shutdown, up, link, streamVars, serverVars>>

\* Defect: a lost connection is taken for the end of the result set.
ReadDeadAsEnd ==
    /\ pc = "read" /\ ~CallerGone
    /\ ReaderDead
    /\ poisoned' = TRUE
    /\ Settle(cur, "ok", None)
    /\ UNCHANGED <<kind, caller, queue, tag, state, out, shutdown, up, link,
                   streamVars, serverVars>>

ReadDead ==
    /\ pc = "read" /\ ~CallerGone
    /\ ReaderDead
    /\ poisoned' = TRUE
    /\ Settle(cur, "failed", None)
    /\ UNCHANGED <<kind, caller, queue, tag, state, out, shutdown, up, link,
                   streamVars, serverVars>>

\* Defect: a read timeout does not poison the connection.
ReadTimesOutAlive ==
    /\ pc = "read" /\ ~CallerGone
    /\ ReadTimeout
    /\ Settle(cur, "failed", None)
    /\ UNCHANGED <<kind, caller, queue, tag, state, out, flagVars, readerVars, up, link,
                   streamVars, serverVars>>

\* The idle timer fires: a deadline only when read_timeout is set.
ReadTimesOut ==
    /\ pc = "read" /\ ~CallerGone
    /\ ReadTimeout
    /\ poisoned' = TRUE
    /\ Settle(cur, "failed", None)
    /\ UNCHANGED <<kind, caller, queue, tag, state, out, shutdown, readerVars, up, link,
                   streamVars, serverVars>>

\* cancel_and_drain, its first half: write Cancel.
StartCancel ==
    /\ pc' = "write"
    /\ out' = "Cancel"

ReadCancels ==
    /\ pc = "read" /\ CallerGone
    /\ StartCancel
    /\ UNCHANGED <<callVars, queue, cur, tag, state, item, flagVars, readerVars, up, link,
                   streamVars, serverVars>>

\* Defect: a block the cursor's channel has no room for is dropped (try_send).
ForwardDrops ==
    /\ pc = "forward"
    /\ caller[cur] = "waiting"
    /\ frames' = IF Len(frames[cur]) < StreamCapacity
                 THEN [frames EXCEPT ![cur] = Append(@, item)]
                 ELSE frames
    /\ IF item.f \in Outcomes
       THEN HandlerReturns(cur)
       ELSE pc' = "read" /\ UNCHANGED <<cur, where>>
    /\ item' = NoFrame
    /\ UNCHANGED <<kind, caller, answer, queue, tag, state, out, flagVars, readerVars,
                   up, link, delivered, serverVars>>

\* results.send(..).await: waits for room in the cursor's channel, and learns
\* there that the receiver was dropped.
Forward ==
    /\ pc = "forward"
    /\ caller[cur] = "waiting"
    /\ Len(frames[cur]) < StreamCapacity
    /\ frames' = [frames EXCEPT ![cur] = Append(@, item)]
    /\ IF item.f \in Outcomes
       THEN HandlerReturns(cur)
       ELSE pc' = "read" /\ UNCHANGED <<cur, where>>
    /\ item' = NoFrame
    /\ UNCHANGED <<kind, caller, answer, queue, tag, state, out, flagVars, readerVars,
                   up, link, delivered, serverVars>>

\* Defect: a dropped cursor is noticed only when the outcome is forwarded.
ForwardGoneLate ==
    /\ pc = "forward"
    /\ caller[cur] = "dropped"
    /\ item.f \in Outcomes
    /\ HandlerReturns(cur)
    /\ item' = NoFrame
    /\ UNCHANGED <<kind, caller, answer, queue, tag, state, out, flagVars, readerVars,
                   up, link, streamVars, serverVars>>

ForwardGone ==
    /\ pc = "forward"
    /\ caller[cur] = "dropped"
    /\ IF item.f \in Outcomes
       THEN HandlerReturns(cur) /\ UNCHANGED out
       ELSE StartCancel /\ UNCHANGED <<cur, where>>
    /\ item' = NoFrame
    /\ UNCHANGED <<kind, caller, answer, queue, tag, state, flagVars, readerVars,
                   up, link, streamVars, serverVars>>

\* drain_to_end_of_stream has ended, for finish_insert (which returns the actor
\* to Idle and replies) or for a cancelled statement (which tells nobody).
DrainEnds(o, t) ==
    IF kind[cur] = "finish"
    THEN state' = "Idle" /\ Settle(cur, o, t)
    ELSE HandlerReturns(cur) /\ UNCHANGED <<state, answer, item>>

\* Defect: the drain after the terminating empty block ignores an Exception's meaning.
DrainPacketSwallows ==
    /\ pc = "drain"
    /\ Consume
    /\ IF Head(pipe).t \in {"EndOfStream", "Exception"}
       THEN DrainEnds("ok", Head(pipe).tag)
       ELSE UNCHANGED <<pc, cur, state, item, where, answer>>
    /\ UNCHANGED <<kind, caller, queue, tag, out, flagVars, up, link, streamVars, serverVars>>

DrainPacket ==
    /\ pc = "drain"
    /\ Consume
    /\ LET p == Head(pipe) IN
          CASE p.t = "EndOfStream" -> DrainEnds("ok", p.tag)
            [] p.t = "Exception"   -> DrainEnds("exception", p.tag)
            [] OTHER               -> UNCHANGED <<pc, cur, state, item, where, answer>>
    /\ UNCHANGED <<kind, caller, queue, tag, out, flagVars, up, link, streamVars, serverVars>>

DrainDead ==
    /\ pc = "drain"
    /\ ReaderDead
    /\ poisoned' = TRUE
    /\ DrainEnds("failed", None)
    /\ UNCHANGED <<kind, caller, queue, tag, out, shutdown, up, link, streamVars, serverVars>>

\* Defect: a drain that times out does not poison the connection.
DrainTimesOutAlive ==
    /\ pc = "drain"
    /\ DrainEnds("failed", None)
    /\ UNCHANGED <<kind, caller, queue, tag, out, flagVars, readerVars, up, link,
                   streamVars, serverVars>>

\* DRAIN_TIMEOUT applies whether or not read_timeout is set.
DrainTimesOut ==
    /\ pc = "drain"
    /\ poisoned' = TRUE
    /\ DrainEnds("failed", None)
    /\ UNCHANGED <<kind, caller, queue, tag, out, shutdown, readerVars, up, link,
                   streamVars, serverVars>>

-----------------------------------------------------------------------------
(* The reader sub-task *)

\* Defect: the reader -> actor channel has no bound.
ReaderDeliversUnbounded ==
    /\ reader = "reading"
    /\ buffered < Len(pipe)
    /\ buffered' = buffered + 1
    /\ UNCHANGED <<callVars, actorVars, flagVars, reader, pipe, up, link, streamVars, serverVars>>

\* read_packet succeeds and the packet enters the channel.
ReaderDelivers ==
    /\ reader = "reading"
    /\ buffered < Len(pipe) /\ buffered < PacketCapacity
    /\ buffered' = buffered + 1
    /\ UNCHANGED <<callVars, actorVars, flagVars, reader, pipe, up, link, streamVars, serverVars>>

\* read_packet fails: the socket closed, or a packet does not decode.  The
\* flag is set first, then the Error waits for room in the channel.
ReaderFails ==
    /\ reader = "reading"
    /\ link = "closed" \/ buffered < Len(pipe)
    /\ poisoned' = TRUE
    /\ reader' = "failing"
    /\ UNCHANGED <<callVars, actorVars, shutdown, pipe, buffered, up, link, streamVars, serverVars>>

ReaderReports ==
    /\ reader = "failing"
    /\ buffered < PacketCapacity
    /\ reader' = "failed"
    /\ UNCHANGED <<callVars, actorVars, flagVars, pipe, buffered, up, link, streamVars, serverVars>>

\* The task ends without an Error (a panic while decoding): recv yields None.
ReaderPanics ==
    /\ reader = "reading"
    /\ buffered < Len(pipe)
    /\ reader' = "closed"
    /\ UNCHANGED <<callVars, actorVars, flagVars, pipe, buffered, up, link, streamVars, serverVars>>

-----------------------------------------------------------------------------
(* The server (external).  It answers one statement at a time, ends each one *)
(* with exactly one terminal packet (Pong, EndOfStream or Exception), and    *)
(* discards a Cancel or INSERT data that reaches it between statements.  It  *)
(* may stay silent for ever, and the socket may break at any time.           *)

ServerReads ==
    /\ link = "open" /\ up # <<>>
    /\ LET m == Head(up) IN
       \/ /\ srv = "idle" /\ m.m \in {"Query", "Ping"}
          /\ srv' = IF m.m = "Ping" THEN "ping" ELSE kind[m.tag]
          /\ srvTag' = m.tag
          /\ UNCHANGED stored
       \/ /\ srv = "idle" /\ m.m \in {"Cancel", "Data", "Empty"}
          /\ UNCHANGED <<srv, srvTag, stored>>
       \/ /\ srv \in {"query", "stream"} /\ m.m = "Cancel"
          /\ srv' = "cancelled"
          /\ UNCHANGED <<srvTag, stored>>
       \/ /\ srv = "insert" /\ m.m = "Data"
          /\ stored' = [stored EXCEPT ![srvTag] = Append(@, m.call)]
          /\ UNCHANGED <<srv, srvTag>>
       \/ /\ srv = "insert" /\ m.m = "Empty"
          /\ srv' = "commit"
          /\ UNCHANGED <<srvTag, stored>>
    /\ up' = Tail(up)
    /\ UNCHANGED <<callVars, actorVars, flagVars, readerVars, link, streamVars,
                   sent, verdict, budget>>

ServerSends(t, n) ==
    /\ link = "open"
    /\ Len(pipe) - buffered < DownCapacity
    /\ pipe' = Append(pipe, [t |-> t, tag |-> srvTag, n |-> n])
    /\ UNCHANGED <<callVars, actorVars, flagVars, reader, buffered, up, link, streamVars,
                   srvTag, stored>>

\* Progress, Log and the other packets that carry no result.
ServerChatters(t) ==
    /\ srv # "idle" /\ budget > 0
    /\ budget' = budget - 1
    /\ ServerSends(t, 0)
    /\ UNCHANGED <<srv, sent, verdict>>

\* A SELECT's blocks, numbered; the first one is the schema block.
ServerBlock ==
    /\ srv = "stream" /\ budget > 0
    /\ budget' = budget - 1
    /\ sent' = [sent EXCEPT ![srvTag] = @ + 1]
    /\ ServerSends(IF sent[srvTag] = 0 THEN "Data" ELSE "DataBlock", sent[srvTag] + 1)
    /\ UNCHANGED <<srv, verdict>>

\* An INSERT is answered with the schema block, or wrongly with rows.
ServerSchema ==
    /\ srv = "begin"
    /\ srv' = "insert"
    /\ ServerSends("Data", 0)
    /\ UNCHANGED <<sent, verdict, budget>>
ServerRows ==
    /\ srv = "begin" /\ budget > 0
    /\ budget' = budget - 1
    /\ ServerSends("DataBlock", 0)
    /\ UNCHANGED <<srv, sent, verdict>>

\* The terminal packets.
ServerEnds ==
    /\ srv \in {"ping", "query", "stream", "cancelled", "begin", "commit"}
    /\ srv' = "idle"
    /\ verdict' = [verdict EXCEPT ![srvTag] = "ended"]
    /\ ServerSends(IF srv = "ping" THEN "Pong" ELSE "EndOfStream", 0)
    /\ UNCHANGED <<sent, budget>>
ServerRejects ==
    /\ srv # "idle"
    /\ srv' = "idle"
    /\ verdict' = [verdict EXCEPT ![srvTag] = "rejected"]
    /\ ServerSends("Exception", 0)
    /\ UNCHANGED <<sent, budget>>

LinkCloses ==
    /\ link = "open"
    /\ link' = "closed"
    /\ UNCHANGED <<callVars, actorVars, flagVars, readerVars, up, streamVars, serverVars>>

-----------------------------------------------------------------------------
(* The specification *)

CallerStep == \E c \in Calls :
    \/ \E k \in Kinds : Submit(c, k)
    \/ Enqueue(c) \/ SendClosed(c) \/ Return(c) \/ Drop(c) \/ CursorNext(c)

ActorStep ==
    \/ \E c \in Calls : Handle(c)
    \/ Stop \/ Exit
    \/ WriteDone \/ WriteFails
    \/ PeekPacket \/ PeekDead \/ PeekEmpty
    \/ ReadPacket \/ ReadDead \/ ReadTimesOut \/ ReadCancels
    \/ Forward \/ ForwardGone
    \/ DrainPacket \/ DrainDead \/ DrainTimesOut

ReaderStep == ReaderDelivers \/ ReaderFails \/ ReaderReports \/ ReaderPanics

ServerStep ==
    \/ ServerReads
    \/ \E t \in {"Progress", "Log"} : ServerChatters(t)
    \/ ServerBlock \/ ServerSchema \/ ServerRows
    \/ ServerEnds \/ ServerRejects
    \/ LinkCloses

Next == CallerStep \/ RequestShutdown \/ ActorStep \/ ReaderStep \/ ServerStep

Spec == Init /\ [][Next]_vars

\* tokio polls a task that can make progress, so the actor and the reader run,
\* and the reader sees a closed socket; a future that has its answer is polled;
\* an idle server reads its socket.  Nothing is assumed of the server's answers,
\* of the link or of shutdown, and nothing of the application: it need not drop
\* a call, and it need not call next_block() on a cursor it keeps.
Fairness ==
    /\ WF_vars(ActorStep)
    /\ WF_vars(ReaderDelivers \/ ReaderReports \/ (link = "closed" /\ ReaderFails))
    /\ \A c \in Calls : WF_vars(Enqueue(c)) /\ WF_vars(SendClosed(c))
                        /\ WF_vars(Return(c))
    /\ WF_vars(srv = "idle" /\ ServerReads)

FairSpec == Spec /\ Fairness

-----------------------------------------------------------------------------
(* Properties *)

\* No statement's response is outstanding: nothing of it is on the wire, in the
\* socket or in the channel, and the server is not working on it.
Quiet ==
    /\ pipe = <<>>
    /\ srv = "idle"
    /\ \A i \in 1..Len(up) : up[i].m \notin {"Query", "Ping"}

\* The actor waits for the next command (or has stopped) outside an INSERT.
Between == pc \in {"recv", "stopping", "gone"} /\ state = "Idle"

\* A connection the pool may hand out again carries no leftover of an earlier
\* statement: whenever the actor is between commands and is_alive() holds, the
\* response of every earlier statement has been consumed to its last packet.
\* (drain_to_end_of_stream: "so the next caller starts on a clean stream
\* pointer".)
ReusableIsClean == (Between /\ ~poisoned) => Quiet

\* While the actor reads on behalf of a command, every packet it can reach
\* answers the statement of that command and no earlier one, even on a
\* connection poisoned meanwhile.
ReadsOwnResponse ==
    pc \in {"peek", "read", "drain"} =>
        \A i \in 1..Len(pipe) : pipe[i].tag = tag

\* A caller is never told the outcome of somebody else's statement.
OwnAnswer ==
    \A c \in Calls :
        /\ kind[c] \in {"ping", "query", "begin", "stream"} => answer[c].tag \in {c, None}
        /\ kind[c] \in {"block", "finish"} =>
              \/ answer[c].tag = None
              \/ kind[answer[c].tag] = "begin"

\* finish_insert answers Ok only for an INSERT the server ended normally, and
\* then the server holds every block whose send_insert_block answered Ok.
FinishedInsertIsStored ==
    \A f \in Calls : (kind[f] = "finish" /\ answer[f].out = "ok") =>
        LET s == answer[f].tag IN
        /\ verdict[s] = "ended"
        /\ \A b \in Calls : (kind[b] = "block" /\ answer[b] = [out |-> "ok", tag |-> s]) =>
              \E i \in 1..Len(stored[s]) : stored[s][i] = b

\* A cursor returns the server's blocks in order without gaps, and reports the
\* end of the result set only after the last block the server sent.
StreamIsFaithful ==
    \A c \in Calls :
        /\ \A i \in 1..Len(delivered[c]) : delivered[c][i] = i
        /\ (kind[c] = "stream" /\ answer[c].out = "ok") =>
              Len(delivered[c]) = sent[c] /\ verdict[c] = "ended"

\* "command not sent": a command answered by a refusal never reached the wire.
RefusedIsUnsent ==
    \A c \in Calls : answer[c].out \in {"refused", "closed", "dropped"} =>
        /\ \A i \in 1..Len(up) : up[i].call # c
        /\ verdict[c] = "none" /\ sent[c] = 0 /\ srvTag # c
        /\ \A s \in Calls : \A i \in 1..Len(stored[s]) : stored[s][i] # c

\* The cursor of c has something to return that nobody asks it for.
Unpolled(c) ==
    /\ kind[c] = "stream" /\ caller[c] = "waiting" /\ answer[c] = NoAnswer
    /\ frames[c] # <<>> \/ where[c] = "finished"

\* The actor waits in results.send for room in the channel of a live cursor.
\* That wait has no deadline: read_timeout runs in the select above it only.
HeldByCursor ==
    /\ pc = "forward"
    /\ Unpolled(cur) /\ Len(frames[cur]) = StreamCapacity

\* Every call returns to a caller that keeps waiting, once read_timeout is set,
\* whatever the schedule of callers, cancellations, server silence, socket
\* failure or shutdown.  The application can prevent it in one way only, by
\* keeping a cursor it stops polling: that cursor does not end, and when its
\* channel is full it holds the actor, and with it the calls behind it, for as
\* long as it is kept.
EveryCallReturns ==
    \A c \in Calls :
        \/ (caller[c] = "waiting") ~> (caller[c] \in {"returned", "dropped"})
        \/ <>[]Unpolled(c)
        \/ <>[]HeldByCursor

\* A signalled shutdown ends the task: the actor always gets back to its command
\* loop, unless a cursor that is kept and never polled again holds it for good.
ShutdownEnds == (shutdown ~> (pc = "gone")) \/ <>[]HeldByCursor

=============================================================================
