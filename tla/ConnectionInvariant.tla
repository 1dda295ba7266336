------------------------ MODULE ConnectionInvariant ------------------------
(***************************************************************************)
(* The inductive invariant behind the safety properties of Connection, in  *)
(* three layers: the shape of the state and which command the actor can be *)
(* handling where; the alignment of the byte stream with the statement in  *)
(* progress; and whose statement an outcome belongs to.  TLC checks it in  *)
(* the runs of MCConnection, ConnectionTypeProofs and ConnectionProofs     *)
(* prove it inductive.                                                     *)
(***************************************************************************)
EXTENDS Connection

-----------------------------------------------------------------------------
(* Layer 1: shape *)

\* A call that has reached the queue or the actor has been made, and its kind
\* no longer changes.
Made(c) == c \in Calls /\ caller[c] # "new" /\ kind[c] \in Kinds

IsRequest(m) == m.m \in {"Query", "Ping"}

CallsMade ==
    /\ \A c \in Calls : caller[c] # "new" => kind[c] \in Kinds
    /\ \A i \in 1..Len(queue) : Made(queue[i])
    /\ pc \in {"peek", "write", "read", "drain", "forward"} => Made(cur)
    /\ srv # "idle" => srvTag \in Calls

MessageMade(m) ==
    /\ IsRequest(m) => Made(m.tag)
    /\ m.m = "Query" => kind[m.tag] \in {"query", "begin", "stream"}
    /\ m.m = "Data" => m.call \in Calls
UpMade == \A i \in 1..Len(up) : MessageMade(up[i])

\* Which command the actor can be handling at each point, and in which state.
Control ==
    /\ pc = "peek" => kind[cur] = "block" /\ state = "InsertActive"
    /\ pc = "write" =>
          \/ out = "Ping" /\ kind[cur] = "ping" /\ state = "Idle"
          \/ out = "Query" /\ kind[cur] \in {"query", "begin", "stream"} /\ state = "Idle"
          \/ out = "Cancel" /\ kind[cur] \in {"query", "stream"} /\ state = "Idle"
          \/ out = "Data" /\ kind[cur] = "block" /\ state = "InsertActive"
          \/ out = "Empty" /\ kind[cur] = "finish" /\ state = "InsertActive"
    /\ pc = "read" => kind[cur] \in {"ping", "query", "begin", "stream"} /\ state = "Idle"
    /\ pc = "drain" =>
          \/ kind[cur] \in {"query", "stream"} /\ state = "Idle"
          \/ kind[cur] = "finish" /\ state = "InsertActive"
    /\ pc = "forward" => kind[cur] = "stream" /\ (item.f \in Outcomes \/ state = "Idle")

\* The statement a command speaks for: its own, unless it continues an INSERT.
Statement ==
    (pc \in {"write", "read", "drain"} \/ (pc = "forward" /\ item.f \notin Outcomes)) =>
        (kind[cur] \in InsertContinuation \/ tag = cur)

Inv1 == TypeOK /\ CallsMade /\ UpMade /\ Control /\ Statement

-----------------------------------------------------------------------------
(* Layer 2: alignment *)

IsTerminal(p) == p.t \in {"Pong", "EndOfStream", "Exception"}

\* No statement is in progress: the actor is between commands, or only has the
\* outcome of a finished one to forward.
NoStatement ==
    /\ state = "Idle"
    /\ pc \in {"recv", "stopping", "gone"} \/ (pc = "forward" /\ item.f \in Outcomes)

\* The actor has accepted a statement and not yet put it on the wire.
Fresh == pc = "write" /\ out \in {"Query", "Ping"}

\* Whatever is outstanding belongs to the statement in progress: its request
\* still on its way to an idle server, or the server working on it, or its
\* response with the terminal packet, if it is there, in the last place.
Own ==
    /\ srv # "idle" => srvTag = tag
    /\ \A i \in 1..Len(pipe) :
          /\ pipe[i].tag = tag
          /\ IsTerminal(pipe[i]) =>
                /\ i = Len(pipe)
                /\ srv = "idle"
                /\ \A j \in 1..Len(up) : ~IsRequest(up[j])
    /\ \A i \in 1..Len(up) : IsRequest(up[i]) =>
          /\ up[i].tag = tag
          /\ srv = "idle"
          /\ pipe = <<>>
          /\ \A j \in 1..Len(up) : IsRequest(up[j]) => j = i

Aligned ==
    /\ NoStatement /\ ~poisoned => Quiet
    /\ Fresh => Quiet
    /\ ~NoStatement /\ ~Fresh => Own

-----------------------------------------------------------------------------
(* Layer 3: whose outcome *)

\* The statement t whose outcome call c may be told: its own, or the INSERT
\* that a block or a finish belongs to.
Entitled(c, t) ==
    \/ t = None
    \/ Made(t) /\ IF kind[c] \in InsertContinuation THEN kind[t] = "begin" ELSE t = c

Provenance ==
    /\ state = "InsertActive" => Made(tag) /\ kind[tag] = "begin"
    /\ pc = "forward" => item.tag \in {None, cur}
    /\ \A c \in Calls : \A i \in 1..Len(frames[c]) : frames[c][i].tag \in {None, c}
    /\ \A c \in Calls : caller[c] = "new" => answer[c] = NoAnswer
    /\ \A c \in Calls : Entitled(c, answer[c].tag)

IInv == Inv1 /\ Aligned /\ Provenance

=============================================================================
