------------------------- MODULE ConnectionDelivery -------------------------
(***************************************************************************)
(* What reaches the server and what reaches the caller: the invariants     *)
(* behind the delivery properties of Connection.  They rest on the layers  *)
(* of ConnectionInvariant and add four more: which commands have touched   *)
(* the wire; the order of the messages on it and how far the server is     *)
(* with each statement; the blocks of an INSERT session; and the blocks of *)
(* a streaming SELECT.  TLC checks them in the runs of MCConnection, the   *)
(* Connection*Proofs modules prove them inductive.                         *)
(***************************************************************************)
EXTENDS ConnectionInvariant

-----------------------------------------------------------------------------
(* Layer 4: commands that have not touched the wire *)

Busy == {"peek", "write", "read", "drain", "forward"}

\* The outcomes that promise "command not sent".
Refusals == {"refused", "closed", "dropped"}

\* Nothing of call c is on its way to the server or has been seen by it.
Unsent(c) ==
    /\ \A i \in 1..Len(up) : up[i].call # c
    /\ verdict[c] = "none" /\ sent[c] = 0 /\ srvTag # c
    /\ \A s \in Calls : \A i \in 1..Len(stored[s]) : stored[s][i] # c

\* Each command is in one place: with its caller, once in the channel, with the
\* actor, or finished.
Places ==
    /\ \A c \in Calls : caller[c] = "new" => where[c] = "new"
    /\ \A i \in 1..Len(queue) : where[queue[i]] = "queued"
    /\ \A i, j \in 1..Len(queue) : queue[i] = queue[j] => i = j
    /\ pc \in Busy => where[cur] = "actor"

\* A request carries the call it is made for as its statement.
OwnRequests == \A i \in 1..Len(up) : IsRequest(up[i]) => up[i].tag = up[i].call

\* The actor has not yet written anything for the command it is handling.
Unwritten == pc = "peek" \/ (pc = "write" /\ out # "Cancel")

\* A stream whose handler has returned, with a cursor still to learn the outcome.
Orphan(c) ==
    /\ kind[c] = "stream" /\ caller[c] = "waiting"
    /\ where[c] = "finished" /\ answer[c] = NoAnswer

\* Who is, or may still be, told that the command was not sent.
NotSent ==
    /\ \A c \in Calls : where[c] \in {"new", "sending", "queued"} => Unsent(c)
    /\ Unwritten => Unsent(cur)
    /\ pc = "forward" /\ item.f \in Refusals => Unsent(cur)
    /\ \A c \in Calls : answer[c].out \in Refusals => Unsent(c) /\ where[c] = "finished"
    /\ \A c \in Calls : \A i \in 1..Len(frames[c]) :
          frames[c][i].f \in Refusals => Unsent(c) /\ where[c] = "finished"
    /\ \A c \in Calls : Orphan(c) =>
          Unsent(c) \/ \E i \in 1..Len(frames[c]) : frames[c][i].f \in Outcomes

\* Only a statement whose caller is gone is cancelled.
Cancelling ==
    (pc = "write" /\ out = "Cancel") \/ (pc = "drain" /\ kind[cur] # "finish") =>
        caller[cur] = "dropped"

Inv4 == Places /\ OwnRequests /\ NotSent /\ Cancelling

-----------------------------------------------------------------------------
(* Layer 5: the order on the wire, and how far the server is *)

\* What follows a request on the wire speaks for the same statement, and while
\* the server works on a statement nothing else is on the wire.
LineUp ==
    /\ srv # "idle" => \A i \in 1..Len(up) : ~IsRequest(up[i]) /\ up[i].tag = srvTag
    /\ \A i, j \in 1..Len(up) : i < j /\ IsRequest(up[i]) =>
          ~IsRequest(up[j]) /\ up[j].tag = up[i].tag

\* The server gives one verdict on a statement, at its end.
Verdicts ==
    /\ \A i \in 1..Len(up) : IsRequest(up[i]) => verdict[up[i].tag] = "none" /\ sent[up[i].tag] = 0
    /\ srv # "idle" => verdict[srvTag] = "none"
    /\ \A i \in 1..Len(pipe) : pipe[i].t = "EndOfStream" =>
          pipe[i].tag \in Calls /\ verdict[pipe[i].tag] = "ended"

\* The server answers a statement according to its kind.
Served ==
    /\ srv = "stream" => kind[srvTag] = "stream"
    /\ srv \in {"begin", "insert", "commit"} => kind[srvTag] = "begin"

Inv5 == LineUp /\ Verdicts /\ Served

-----------------------------------------------------------------------------
(* Layer 6: INSERT sessions *)

\* The server takes the blocks of INSERT s, or has rejected it.
Receiving(s) == verdict[s] = "rejected" \/ (srv = "insert" /\ srvTag = s)

NoEmpty(s) == \A i \in 1..Len(up) : up[i].m = "Empty" => up[i].tag # s

\* From the schema block until the terminating empty block is written, the
\* server takes the blocks of the session.
SessionOpen ==
    /\ state = "InsertActive" /\ pc # "drain" => NoEmpty(tag) /\ Receiving(tag)
    /\ pc = "read" /\ kind[cur] = "begin" =>
          /\ NoEmpty(tag)
          /\ (\E i \in 1..Len(pipe) : pipe[i].t = "Data") => Receiving(tag)

\* Blocks on the wire are ahead of their session's empty block, and reach a
\* server that takes them.
BlocksLive ==
    /\ \A i \in 1..Len(up) : up[i].m = "Data" => up[i].tag \in Calls /\ Receiving(up[i].tag)
    /\ \A i, j \in 1..Len(up) :
          i < j /\ up[i].m = "Empty" /\ up[j].m = "Data" => up[i].tag # up[j].tag
    /\ \A i \in 1..Len(up) : up[i].m = "Empty" =>
          /\ up[i].tag \in Calls
          /\ verdict[up[i].tag] # "none" \/ (srv # "idle" /\ srvTag = up[i].tag)

\* A block whose send_insert_block answered Ok is stored, or still on its way,
\* unless the server has rejected the INSERT.
BlocksKept ==
    \A b, s \in Calls : kind[b] = "block" /\ answer[b] = [out |-> "ok", tag |-> s] =>
        \/ verdict[s] = "rejected"
        \/ \E i \in 1..Len(stored[s]) : stored[s][i] = b
        \/ \E i \in 1..Len(up) : up[i] = [m |-> "Data", tag |-> s, call |-> b]

\* finish_insert answers Ok only for an INSERT the server ended.
FinishEnded ==
    \A f \in Calls : kind[f] = "finish" /\ answer[f].out = "ok" =>
        answer[f].tag \in Calls /\ verdict[answer[f].tag] = "ended"

Inv6 == SessionOpen /\ BlocksLive /\ BlocksKept /\ FinishEnded

-----------------------------------------------------------------------------
(* Layer 7: streaming SELECT *)

\* The blocks in a channel or in the pipe are exactly lo + 1 .. hi, in order; what
\* is not a block has number 0.
Exactly(q, lo, hi) ==
    /\ lo <= hi
    /\ \A i \in 1..Len(q) : q[i].n # 0 => lo < q[i].n /\ q[i].n <= hi
    /\ \A n \in lo + 1 .. hi : \E i \in 1..Len(q) : q[i].n = n
    /\ \A i, j \in 1..Len(q) : i < j /\ q[i].n # 0 /\ q[j].n # 0 => q[i].n < q[j].n

\* The results channel of c continues what its cursor has returned, up to block k.
Channel(c, k) == Exactly(frames[c], Len(delivered[c]), k)

\* What the actor can still read for c continues the channel from block k.
Rest(c, k) == Exactly(pipe, k, sent[c])

\* Only blocks are numbered, and what is in the pipe answers a call.
BlocksNumbered ==
    /\ \A c \in Calls : \A i \in 1..Len(frames[c]) :
          (frames[c][i].f = "block") = (frames[c][i].n # 0)
    /\ pc = "forward" => (item.f = "block") = (item.n # 0)
    /\ \A i \in 1..Len(pipe) :
          /\ pipe[i].tag \in Calls => caller[pipe[i].tag] # "new"
          /\ pipe[i].t \notin {"Data", "DataBlock"} => pipe[i].n = 0
          /\ pipe[i].t \in {"Data", "DataBlock"} /\ pipe[i].tag \in Calls
                /\ kind[pipe[i].tag] = "stream" => pipe[i].n # 0

\* A cursor that has no stream yet has an empty channel.
Untouched(c) == frames[c] = <<>> /\ delivered[c] = <<>>
Unstarted ==
    /\ \A c \in Calls : where[c] \in {"new", "sending", "queued"} => Untouched(c)
    /\ pc \in Busy /\ Unwritten => Untouched(cur)

\* Nothing is lost between the server and the cursor, and the end of the result
\* set comes after the last block.
Flow ==
    /\ \A c \in Calls : \A i \in 1..Len(delivered[c]) : delivered[c][i] = i
    /\ \A c \in Calls : \E k \in 0..sent[c] : Channel(c, k)
    /\ pc = "read" /\ kind[cur] = "stream" =>
          \E k \in 0..sent[cur] : Channel(cur, k) /\ Rest(cur, k)
    /\ pc = "forward" /\ item.f \notin Outcomes =>
          \E k \in 0..sent[cur] :
             /\ Channel(cur, k)
             /\ item.n # 0 => item.n = k + 1
             /\ Rest(cur, IF item.n = 0 THEN k ELSE k + 1)
    /\ pc = "forward" /\ item.f = "ok" => Channel(cur, sent[cur]) /\ verdict[cur] = "ended"

\* An outcome is the last frame of its channel; Ok comes with every block.
LastFrame ==
    \A c \in Calls : \A i \in 1..Len(frames[c]) : frames[c][i].f \in Outcomes =>
        /\ i = Len(frames[c])
        /\ where[c] = "finished"
        /\ frames[c][i].f = "ok" => Channel(c, sent[c]) /\ verdict[c] = "ended"

StreamEnded ==
    \A c \in Calls : kind[c] = "stream" /\ answer[c].out = "ok" =>
        Len(delivered[c]) = sent[c] /\ verdict[c] = "ended"

Inv7 == BlocksNumbered /\ Unstarted /\ Flow /\ LastFrame /\ StreamEnded

\* The four layers: from the channel of commands to the server's tables and back
\* to the cursor, every command, block and packet is where the actor's progress
\* says it is, once and in order.
Delivery == Inv4 /\ Inv5 /\ Inv6 /\ Inv7

=============================================================================
