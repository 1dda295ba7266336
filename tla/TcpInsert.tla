------------------------------ MODULE TcpInsert ------------------------------
(***************************************************************************)
(* DynamicInsert over the native protocol: rows are buffered, sent in      *)
(* blocks through a TcpInsertSession and committed by end().  The caller   *)
(* may drop the future of write() or end() at any await and may go on      *)
(* after an error.  The connection is what module Connection shows of it:  *)
(* commands of the session are handled in order, an INSERT session ends    *)
(* with an Exception, a failure or finish_insert, and a continuation out   *)
(* of session is refused.                                                  *)
(*                                                                         *)
(* A row is its number in the order of the write() calls.                  *)
(***************************************************************************)
EXTENDS Naturals, Sequences, FiniteSets

CONSTANTS
    RowCap,       \* DEFAULT_TCP_INSERT_BLOCK_ROWS
    Flavours,     \* the rows the caller writes: see AllFlavours
    CmdCapacity,  \* DEFAULT_CMD_CHANNEL
    MayCancel,    \* may the future of write() be dropped?
    MaxRows       \* bound: rows written

\* small: less than BLOCK_FLUSH_BYTES; big: fills a block by its bytes; huge:
\* past MAX_INSERT_BLOCK_BYTES; ragged: encode_columns cannot transpose it.
AllFlavours == {"small", "big", "huge", "ragged"}

ASSUME TcpInsertAssumption ==
    /\ RowCap \in Nat \ {0}
    /\ Flavours \subseteq AllFlavours
    /\ CmdCapacity \in Nat \ {0}
    /\ MayCancel \in BOOLEAN
    /\ MaxRows \in Nat

VARIABLES
    \* DynamicInsert
    pc,            \* where the caller's future is
    active,        \* is the sink open?
    flavour,       \* flavour[r]: of the rows written so far
    block,         \* RowBlock::rows
    pending,       \* the block handed to send_block and not yet queued
    rows_written,
    acked,         \* the rows whose write() returned Ok
    result,        \* what end() returned
    cancelled,     \* was the future of a write() dropped?
    \* TcpInsertSession and the actor behind it
    released,      \* has the pooled connection been given back?
    poisoned,
    state,         \* ActorState
    queue,         \* the session's commands: SendInsertBlock, FinishInsert
    reply,         \* the outcome of the command the caller waits for
    \* the server
    server,        \* the INSERT: "open", "rejected", "committed"
    received       \* the rows of the blocks it received, in order

insertVars  == <<active, flavour, block, pending, rows_written, acked, result, cancelled>>
sessionVars == <<released, poisoned, state, queue, reply>>
serverVars  == <<server, received>>
vars == <<pc, insertVars, sessionVars, serverVars>>

Row == 1..MaxRows
Command == [op : {"block", "finish"}, rows : Seq(Row), awaited : BOOLEAN]
NoReply == "none"
Replies == {"ok", "exception", "failed"}

\* The shape of the state.
TypeOK ==
    /\ pc \in {"ready", "opening", "sending", "sent", "flushing", "flushed", "ending", "ended", "over"}
    /\ active \in BOOLEAN
    /\ flavour \in Seq(Flavours) /\ Len(flavour) <= MaxRows
    /\ block \in Seq(Row) /\ pending \in Seq(Row)
    /\ rows_written \in 0..MaxRows
    /\ acked \in Seq(Row)
    /\ result \in {"none", "ok", "err"} /\ cancelled \in BOOLEAN
    /\ released \in BOOLEAN /\ poisoned \in BOOLEAN
    /\ state \in {"Idle", "InsertActive"}
    /\ queue \in Seq(Command) /\ Len(queue) <= CmdCapacity
    /\ reply \in Replies \cup {NoReply}
    /\ server \in {"none", "open", "rejected", "committed"}
    /\ received \in Seq(Row)

Init ==
    /\ pc = "ready"
    /\ active = FALSE
    /\ flavour = <<>> /\ block = <<>> /\ pending = <<>>
    /\ rows_written = 0 /\ acked = <<>>
    /\ result = "none" /\ cancelled = FALSE
    /\ released = FALSE /\ poisoned = FALSE
    /\ state = "Idle" /\ queue = <<>> /\ reply = NoReply
    /\ server = "none" /\ received = <<>>

\* Does block b hold a row of flavour f?  (fl: the flavours of the rows.)
Has(fl, b, f) == \E i \in 1..Len(b) : fl[b[i]] = f

-----------------------------------------------------------------------------
(* write() *)

\* ensure_active on the first row: insert_native takes a connection from the
\* pool and begins the INSERT.  Dropped or failed, it leaves nothing behind.
Open ==
    /\ pc = "ready" /\ ~active
    /\ pc' = "opening"
    /\ UNCHANGED <<insertVars, sessionVars, serverVars>>
Opened ==
    /\ pc = "opening"
    /\ pc' = "ready"
    /\ active' = TRUE
    /\ state' = "InsertActive"
    /\ server' = "open"
    /\ UNCHANGED <<cancelled, flavour, block, pending, rows_written, acked, result,
                   released, poisoned, queue, reply, received>>
OpenFails ==
    /\ pc = "opening"
    /\ pc' = "ready"
    /\ UNCHANGED <<insertVars, sessionVars, serverVars>>

IsFull(fl, b) == Len(b) >= RowCap \/ Has(fl, b, "big") \/ Has(fl, b, "huge")

\* write() counts its row and returns Ok.
Count(r) ==
    /\ rows_written' = rows_written + 1
    /\ acked' = Append(acked, r)

\* RowBlock::push, then send_block when the block is full: the rows are
\* transposed, and only then moved out of the block.  (A row that does not
\* encode leaves the block as it was.)
Write(f) ==
    /\ pc = "ready" /\ active
    /\ Len(flavour) < MaxRows
    /\ flavour' = Append(flavour, f)
    /\ LET b == Append(block, Len(flavour'))
       IN \/ /\ ~IsFull(flavour', b)
             /\ block' = b
             /\ Count(Len(flavour'))
             /\ UNCHANGED <<pc, pending>>
          \/ /\ IsFull(flavour', b) /\ Has(flavour', b, "ragged")
             /\ block' = b
             /\ UNCHANGED <<pc, pending, rows_written, acked>>
          \/ /\ IsFull(flavour', b) /\ ~Has(flavour', b, "ragged")
             /\ pc' = "sending"
             /\ block' = <<>>
             /\ pending' = b
             /\ UNCHANGED <<rows_written, acked>>
    /\ UNCHANGED <<cancelled, active, result, sessionVars, serverVars>>

\* Defect: the channel has no capacity.
QueueUnbounded(op, rows) ==
    /\ queue' = Append(queue, [op |-> op, rows |-> rows, awaited |-> TRUE])
    /\ UNCHANGED <<released, poisoned, state, reply>>

\* The command enters the connection's channel.
Queue(op, rows) ==
    /\ Len(queue) < CmdCapacity
    /\ queue' = Append(queue, [op |-> op, rows |-> rows, awaited |-> TRUE])
    /\ UNCHANGED <<released, poisoned, state, reply>>

SendBlock ==
    /\ pc \in {"sending", "flushing"}
    /\ pc' = IF pc = "sending" THEN "sent" ELSE "flushed"
    /\ Queue("block", pending)
    /\ pending' = <<>>
    /\ UNCHANGED <<cancelled, active, flavour, block, rows_written, acked, result, serverVars>>

\* TcpInsertSession::send_block returns, poisoning unless the server rejected.
WriteReturns ==
    /\ pc = "sent" /\ reply # NoReply
    /\ pc' = "ready"
    /\ reply' = NoReply
    /\ poisoned' = (poisoned \/ reply = "failed")
    /\ IF reply = "ok" THEN Count(Len(flavour)) ELSE UNCHANGED <<rows_written, acked>>
    /\ UNCHANGED <<cancelled, active, flavour, block, pending, result, released, state, queue, serverVars>>

\* The caller's future is gone: nobody waits for the replies any more.
Abandoned == [i \in 1..Len(queue) |-> [queue[i] EXCEPT !.awaited = FALSE]]

\* Defect: the rows are kept in the block until the send has returned.
CancelKeepsRows ==
    /\ MayCancel /\ pc \in {"sending", "sent"}
    /\ pc' = "ready"
    /\ block' = IF pc = "sending" THEN pending
                ELSE IF queue # <<>> THEN queue[Len(queue)].rows ELSE block
    /\ pending' = <<>>
    /\ queue' = Abandoned
    /\ reply' = NoReply
    /\ cancelled' = TRUE
    /\ UNCHANGED <<active, flavour, rows_written, acked, result, released, poisoned, state,
                   serverVars>>

\* The future of write() is dropped while its block waits to enter the channel
\* (which also yields when the task's cooperative budget is spent) or for the
\* reply.  The rows have left the block already.
CancelWrite ==
    /\ MayCancel /\ pc \in {"sending", "sent"}
    /\ pc' = "ready"
    /\ pending' = <<>>
    /\ queue' = Abandoned
    /\ reply' = NoReply
    /\ cancelled' = TRUE
    /\ UNCHANGED <<active, flavour, block, rows_written, acked, result, released, poisoned, state,
                   serverVars>>

-----------------------------------------------------------------------------
(* end() and drop *)

\* end() returns r; the session is settled (or was never opened) and the
\* connection goes back to the pool.
EndReturns(r, poison) ==
    /\ pc' = "over"
    /\ result' = r
    /\ released' = active
    /\ poisoned' = (poisoned \/ poison)

\* Defect: end() does not flush the rows still buffered.
EndSkipsFlush ==
    /\ pc = "ready"
    /\ IF active
       THEN pc' = "ending" /\ UNCHANGED <<result, released, poisoned>>
       ELSE EndReturns("ok", FALSE)
    /\ UNCHANGED <<cancelled, active, flavour, block, pending, rows_written, acked, state, queue, reply,
                   serverVars>>

\* end() begins: nothing to do, nothing left to send, or a last block, which
\* may fail to transpose (session.abort()).
End ==
    /\ pc = "ready"
    /\ \/ /\ ~active
          /\ EndReturns("ok", FALSE)
          /\ UNCHANGED <<block, pending>>
       \/ /\ active /\ block = <<>>
          /\ pc' = "ending"
          /\ UNCHANGED <<block, pending, result, released, poisoned>>
       \/ /\ active /\ Has(flavour, block, "ragged")
          /\ EndReturns("err", TRUE)
          /\ UNCHANGED <<block, pending>>
       \/ /\ active /\ block # <<>> /\ ~Has(flavour, block, "ragged")
          /\ pc' = "flushing"
          /\ pending' = block
          /\ block' = <<>>
          /\ UNCHANGED <<result, released, poisoned>>
    /\ UNCHANGED <<cancelled, active, flavour, rows_written, acked, state, queue, reply, serverVars>>

Flushed ==
    /\ pc = "flushed" /\ reply # NoReply
    /\ reply' = NoReply
    /\ IF reply = "ok"
       THEN pc' = "ending" /\ UNCHANGED <<result, released, poisoned>>
       ELSE EndReturns("err", TRUE)
    /\ UNCHANGED <<cancelled, active, flavour, block, pending, rows_written, acked, state, queue, serverVars>>

Finish ==
    /\ pc = "ending"
    /\ pc' = "ended"
    /\ Queue("finish", <<>>)
    /\ UNCHANGED <<insertVars, serverVars>>

Finished ==
    /\ pc = "ended" /\ reply # NoReply
    /\ reply' = NoReply
    /\ EndReturns(IF reply = "ok" THEN "ok" ELSE "err", reply = "failed")
    /\ UNCHANGED <<cancelled, active, flavour, block, pending, rows_written, acked, state, queue, serverVars>>

\* Defect: a session dropped before finish() has returned is not poisoned.
DropLeavesSession ==
    /\ pc # "over"
    /\ pc' = "over"
    /\ released' = active
    /\ queue' = Abandoned
    /\ reply' = NoReply
    /\ UNCHANGED <<insertVars, poisoned, state, serverVars>>

\* The insert, or the future of end(), is dropped: TcpInsertSession::drop
\* poisons a session that is not settled and releases the connection.
DropInsert ==
    /\ pc # "over"
    /\ pc' = "over"
    /\ released' = active
    /\ poisoned' = (poisoned \/ active)
    /\ queue' = Abandoned
    /\ reply' = NoReply
    /\ UNCHANGED <<insertVars, state, serverVars>>

-----------------------------------------------------------------------------
(* The connection actor: one command of the session, and the server *)

Serve(op, o) ==
    /\ queue # <<>> /\ Head(queue).op = op
    /\ queue' = Tail(queue)
    /\ reply' = IF Head(queue).awaited THEN o ELSE reply
    /\ UNCHANGED <<pc, insertVars, released>>

Arrives == received' = IF server = "open" THEN received \o Head(queue).rows ELSE received

\* "no INSERT session active", and the size cap of do_send_insert_block.
RefuseOutOfSession ==
    /\ state = "Idle"
    /\ \E op \in {"block", "finish"} : Serve(op, "failed")
    /\ UNCHANGED <<poisoned, state, serverVars>>
RefuseOversize ==
    /\ state = "InsertActive" /\ queue # <<>> /\ Has(flavour, Head(queue).rows, "huge")
    /\ Serve("block", "failed")
    /\ UNCHANGED <<poisoned, state, serverVars>>

InSession ==
    /\ state = "InsertActive"
    /\ queue # <<>> /\ ~Has(flavour, Head(queue).rows, "huge")

\* The block is written; or the server's rejection was already there; or the
\* connection failed, before or after the block reached the server.
BlockSent ==
    /\ InSession /\ Serve("block", "ok")
    /\ Arrives
    /\ UNCHANGED <<poisoned, state, server>>
BlockRejected ==
    /\ InSession /\ Serve("block", "exception")
    /\ server = "rejected"
    /\ state' = "Idle"
    /\ UNCHANGED <<poisoned, serverVars>>
BlockFails ==
    /\ InSession /\ Serve("block", "failed")
    /\ Arrives \/ UNCHANGED received
    /\ poisoned' = TRUE
    /\ state' = "Idle"
    /\ UNCHANGED server

\* do_finish_insert: the server commits, rejects, or the answer is lost.
FinishCommits ==
    /\ InSession /\ Serve("finish", "ok")
    /\ server = "open"
    /\ server' = "committed"
    /\ state' = "Idle"
    /\ UNCHANGED <<poisoned, received>>
FinishRejected ==
    /\ InSession /\ Serve("finish", "exception")
    /\ server' = "rejected"
    /\ state' = "Idle"
    /\ UNCHANGED <<poisoned, received>>
FinishFails ==
    /\ InSession /\ Serve("finish", "failed")
    /\ server' = server \/ (server = "open" /\ server' = "committed")
    /\ poisoned' = TRUE
    /\ state' = "Idle"
    /\ UNCHANGED received

ServerRejects ==
    /\ server = "open"
    /\ server' = "rejected"
    /\ UNCHANGED <<pc, insertVars, sessionVars, received>>

Next ==
    \/ Open \/ Opened \/ OpenFails
    \/ \E f \in Flavours : Write(f)
    \/ SendBlock \/ WriteReturns \/ CancelWrite
    \/ End \/ Flushed \/ Finish \/ Finished \/ DropInsert
    \/ RefuseOutOfSession \/ RefuseOversize
    \/ BlockSent \/ BlockRejected \/ BlockFails
    \/ FinishCommits \/ FinishRejected \/ FinishFails
    \/ ServerRejects

Spec == Init /\ [][Next]_vars

-----------------------------------------------------------------------------
(* Properties *)

\* When end() returns Ok(n) the table has exactly the rows whose write()
\* returned Ok, in that order, and n is their number -- whatever errors the
\* caller went on after (insert.rs write/end), unless a write() was cancelled or
\* a row passed MAX_INSERT_BLOCK_BYTES.
EndIsExact ==
    result = "ok" /\ ~cancelled /\ (\A i \in 1..Len(flavour) : flavour[i] # "huge") =>
        /\ active => server = "committed"
        /\ received = acked
        /\ rows_written = Len(acked)

\* No row reaches the server twice, and rows arrive in the order they were
\* written, even when write() is cancelled and called again: recycle() empties
\* the block before the send is awaited.
InOrderOnce ==
    \A i, j \in 1..Len(received) : i < j => received[i] < received[j]

\* A connection given back to the pool is out of its INSERT session or is
\* poisoned, so no later borrower meets InsertActive (TcpInsertSession::drop),
\* however the insert was left.
ReturnedIsSettled == released => state = "Idle" \/ poisoned

\* "a DynamicInsert must be finished with `.end().await` to commit the rows":
\* once end() returned Ok, every row whose write() returned Ok is committed.
\* An oversize block leaves the session in InsertActive so that "the caller can
\* re-send a smaller block", but the insert's rows have left its buffer.
AcceptedIsStored ==
    result = "ok" => \A i \in 1..Len(acked) : \E j \in 1..Len(received) : received[j] = acked[i]

-----------------------------------------------------------------------------
(* The inductive invariant behind the three properties above *)

Ascending(s) == \A i, j \in 1..Len(s) : i < j => s[i] < s[j]
Precedes(s, t) == \A i \in 1..Len(s), j \in 1..Len(t) : s[i] < t[j]
Numbered(s) == \A i \in 1..Len(s) : s[i] <= Len(flavour)

\* The rows on their way are in line: those the server has, those of the queued
\* commands, the block handed to send_block, the rows still buffered.
InLine ==
    /\ Ascending(received) /\ Ascending(pending) /\ Ascending(block)
    /\ Numbered(received) /\ Numbered(pending) /\ Numbered(block)
    /\ Precedes(received, pending) /\ Precedes(received, block) /\ Precedes(pending, block)
    /\ \A k \in 1..Len(queue) :
          /\ Ascending(queue[k].rows) /\ Numbered(queue[k].rows)
          /\ Precedes(received, queue[k].rows)
          /\ Precedes(queue[k].rows, pending) /\ Precedes(queue[k].rows, block)
          /\ \A l \in 1..Len(queue) : k < l => Precedes(queue[k].rows, queue[l].rows)

Waiting == pc \in {"sent", "flushed", "ended"}

\* What each point of write() and end() implies of the buffers and the session.
Control ==
    /\ ~active => /\ pc \in {"ready", "opening", "over"}
                  /\ block = <<>> /\ pending = <<>> /\ queue = <<>>
                  /\ acked = <<>> /\ received = <<>>
                  /\ state = "Idle" /\ server = "none"
    /\ pc = "opening" => ~active
    /\ pc \in {"sending", "sent", "flushing", "flushed", "ending", "ended"} => block = <<>>
    /\ pc \notin {"sending", "flushing", "over"} => pending = <<>>
    /\ pc # "over" => result = "none" /\ ~released
    /\ ReturnedIsSettled
    /\ rows_written = Len(acked) /\ Len(acked) <= Len(flavour)
    /\ pc \in {"sending", "sent"} => Len(acked) < Len(flavour)

\* The caller waits for at most one command, the last in the queue; only an
\* answered FinishInsert has taken the actor out of the session for sure.
Awaiting ==
    /\ reply # NoReply => Waiting
    /\ pc = "ended" /\ reply \in {"ok", "exception"} => state = "Idle"
    /\ \A k \in 1..Len(queue) :
          /\ queue[k].op = "finish" => queue[k].rows = <<>>
          /\ queue[k].awaited => /\ k = Len(queue) /\ reply = NoReply /\ Waiting
                                 /\ queue[k].op = "finish" <=> pc = "ended"

NoneHuge == \A i \in 1..Len(flavour) : flavour[i] # "huge"

\* Unless a write() was cancelled, the queue holds only what the caller waits for.
OneAtATime ==
    ~cancelled =>
        /\ Len(queue) <= 1
        /\ queue # <<>> /\ pc # "over" => queue[1].awaited
        /\ Waiting /\ reply = NoReply => queue # <<>>
        /\ result = "ok" => queue = <<>>

\* The rows that are neither with the server nor acknowledged by a reply.
Held == IF queue # <<>> THEN queue[1].rows ELSE IF pending # <<>> THEN pending ELSE block
\* The rows write() has returned Ok for, and the one it is at.
Due == IF pc \in {"sending", "sent"} THEN Append(acked, Len(flavour)) ELSE acked

\* While the session can still commit, the server has every row but those on
\* their way; a commit the caller was told of has them all.
Complete ==
    ~cancelled =>
        /\ pc = "ended" /\ reply = "ok" => server = "committed"
        /\ result = "ok" /\ active => server = "committed"
        /\ NoneHuge =>
              /\ state = "InsertActive" => reply \in {NoReply, "ok"}
              /\ /\ state = "InsertActive" /\ server = "open" /\ pc # "over"
                 /\ ~Has(flavour, block, "ragged")
                 => received \o Held = Due
              /\ pc = "ended" /\ reply = "ok" => received = acked
              /\ result = "ok" => received = acked

\* The inductive invariant of a dynamic INSERT: what the caller, the inserter, the
\* actor and the server hold at any moment are consecutive parts of the rows that
\* insert_dynamic was given, each held once.
IInv == TypeOK /\ InLine /\ Control /\ Awaiting /\ OneAtATime /\ Complete
=============================================================================
