---------------------- MODULE ConnectionDeliveryProofs ----------------------
(***************************************************************************)
(* What each step does to the wire, the channels and the cursors, and the  *)
(* first three layers of ConnectionDelivery: where every command is and    *)
(* what its caller may have been told; the order on the wire and how far   *)
(* the server is with each statement; the blocks of an INSERT session.     *)
(***************************************************************************)
EXTENDS ConnectionDelivery, TLAPS

\* Most steps are first-order; the ones with arithmetic, records or sequences
\* name SMT.
USE ZenonT(20)

-----------------------------------------------------------------------------
(* Sequences: what Append and Tail do to the elements *)

LEMMA AppendElements ==
    ASSUME NEW S, NEW s \in Seq(S), NEW e \in S
    PROVE  /\ Append(s, e) \in Seq(S)
           /\ Len(Append(s, e)) = Len(s) + 1
           /\ \A i \in 1..Len(s) : Append(s, e)[i] = s[i]
           /\ Append(s, e)[Len(s) + 1] = e
  BY SMT

LEMMA TailElements ==
    ASSUME NEW S, NEW s \in Seq(S), s # <<>>
    PROVE  /\ Tail(s) \in Seq(S)
           /\ Len(Tail(s)) = Len(s) - 1
           /\ \A i \in 1..Len(Tail(s)) : i + 1 \in 1..Len(s) /\ Tail(s)[i] = s[i + 1]
           /\ Head(s) = s[1] /\ Head(s) \in S /\ Len(s) > 0 /\ Len(s) \in Nat
  BY SMT

LEMMA ConsumeElements ==
    ASSUME SocketTypes, Consume
    PROVE  /\ Head(pipe) \in Packet /\ Head(pipe).tag \in Calls \cup {None}
           /\ Head(pipe).n \in Nat
           /\ pipe' \in Seq(Packet) /\ buffered' \in Nat /\ buffered' <= Len(pipe')
           /\ buffered' <= PacketCapacity /\ reader' = reader
<1>1. /\ pipe \in Seq(Packet) /\ buffered \in Nat /\ buffered <= Len(pipe)
      /\ buffered <= PacketCapacity /\ buffered > 0
      /\ pipe' = Tail(pipe) /\ buffered' = buffered - 1 /\ reader' = reader
  BY DEF SocketTypes, Consume
<1>2. pipe # <<>>
  BY <1>1, SMT
<1>3. /\ Head(pipe) \in Packet /\ Tail(pipe) \in Seq(Packet)
      /\ Len(Tail(pipe)) = Len(pipe) - 1 /\ Len(pipe) \in Nat
  BY <1>1, <1>2, TailElements
<1>4. Head(pipe).tag \in Calls \cup {None} /\ Head(pipe).n \in Nat
  BY <1>3 DEF Packet
<1>5. buffered' \in Nat /\ buffered' <= Len(pipe') /\ buffered' <= PacketCapacity
  BY <1>1, <1>3, ConstantsAssumption, SMT
<1> QED
  BY <1>1, <1>3, <1>4, <1>5

-----------------------------------------------------------------------------
(* What a step does to the wire and to the server *)

WireKept == UNCHANGED <<up, srv, srvTag, sent, stored, verdict>>

WireWritten ==
    /\ pc = "write"
    /\ up' = Append(up, Written)
    /\ UNCHANGED <<srv, srvTag, sent, stored, verdict>>

ServerMoves == ServerReads \/ ServerBlock \/ ServerSchema \/ ServerEnds \/ ServerRejects

\* Only a write of the actor and a step of the server change what is on its way
\* to the server or what the server knows.
LEMMA WireStep == ASSUME [Next]_vars PROVE WireKept \/ WireWritten \/ ServerMoves
<1> USE DEF WireKept, serverVars
<1>1. ASSUME CallerStep PROVE WireKept
  BY <1>1 DEF CallerStep, Submit, Enqueue, SendClosed, Return, Drop, CursorNext
<1>2. ASSUME RequestShutdown \/ ReaderStep PROVE WireKept
  BY <1>2 DEF RequestShutdown, ReaderStep, ReaderDelivers, ReaderFails, ReaderReports, ReaderPanics
<1>3. ASSUME WriteDone \/ WriteFails PROVE WireKept \/ WireWritten
  BY <1>3 DEF WriteDone, WriteFails, WireWritten
<1>4. ASSUME \/ \E c \in Calls : Handle(c)
             \/ Stop \/ Exit \/ PeekPacket \/ PeekDead \/ PeekEmpty
      PROVE  WireKept
  BY <1>4 DEF Handle, Stop, Exit, PeekPacket, PeekDead, PeekEmpty
<1>5. ASSUME \/ ReadPacket \/ ReadDead \/ ReadTimesOut \/ ReadCancels
             \/ Forward \/ ForwardGone \/ DrainPacket \/ DrainDead \/ DrainTimesOut
      PROVE  WireKept
  BY <1>5 DEF ReadPacket, ReadDead, ReadTimesOut, ReadCancels, Forward, ForwardGone, DrainPacket,
              DrainDead, DrainTimesOut
<1>6. ASSUME ServerStep PROVE WireKept \/ ServerMoves
  BY <1>6 DEF ServerStep, ServerChatters, ServerRows, LinkCloses, ServerSends, ServerMoves
<1>7. ASSUME UNCHANGED vars PROVE WireKept
  BY <1>7 DEF vars
<1> QED
  BY <1>1, <1>2, <1>3, <1>4, <1>5, <1>6, <1>7 DEF Next, ActorStep

\* What the server reads is the oldest message; the others keep their order.
LEMMA ReadFacts ==
    ASSUME Inv1, ServerReads
    PROVE  /\ up # <<>> /\ up' = Tail(up) /\ up' \in Seq(UpMessage)
           /\ 1 \in 1..Len(up) /\ Head(up) = up[1] /\ Len(up) \in Nat
           /\ Len(up') = Len(up) - 1
           /\ \A i \in 1..Len(up') : i + 1 \in 1..Len(up) /\ up'[i] = up[i + 1]
<1>1. up # <<>> /\ up' = Tail(up) /\ up \in Seq(UpMessage)
  BY DEF ServerReads, Inv1, TypeOK, SocketTypes
<1> QED
  BY <1>1, TailElements, SMT

\* A write puts the message behind the others.
LEMMA WriteFacts ==
    ASSUME Inv1, WireWritten
    PROVE  /\ Written \in UpMessage /\ cur \in Calls
           /\ Written.m = out /\ Written.tag = tag /\ Written.call = cur
           /\ Len(up) \in Nat /\ Len(up') = Len(up) + 1
           /\ \A i \in 1..Len(up) : up'[i] = up[i]
           /\ up'[Len(up) + 1] = Written
<1>1. /\ pc = "write" /\ up' = Append(up, Written) /\ up \in Seq(UpMessage)
      /\ out \in {"Query", "Ping", "Cancel", "Data", "Empty"}
      /\ tag \in Calls \cup {None} /\ cur \in Calls
  BY DEF Inv1, TypeOK, SocketTypes, ActorTypes, Control, CallsMade, Made, WireWritten
<1>2. Written \in UpMessage
  BY <1>1 DEF Written, UpMessage
<1>3. Written.m = out /\ Written.tag = tag /\ Written.call = cur
  BY DEF Written
<1> QED
  BY <1>1, <1>2, <1>3, AppendElements, SMT

-----------------------------------------------------------------------------
(* Layer 4: commands that have not touched the wire *)

\* A call the server has seen nothing of stays so, unless the actor writes for it.
LEMMA UnsentStep ==
    ASSUME Inv1, OwnRequests, [Next]_vars, NEW c \in Calls, Unsent(c),
           WireWritten => cur # c
    PROVE  Unsent(c)'
<1>1. CASE WireKept
  BY <1>1 DEF WireKept, Unsent
<1>2. CASE WireWritten
  <2>1. \A i \in 1..Len(up') : up'[i].call # c
    BY <1>2, WriteFacts, SMT DEF Unsent
  <2> QED
    BY <1>2, <2>1 DEF WireWritten, Unsent
<1>3. CASE ServerReads
  <2>1. \A i \in 1..Len(up') : up'[i].call # c
    BY <1>3, ReadFacts DEF Unsent
  <2>2. Head(up).call # c
    BY <1>3, ReadFacts DEF Unsent
  <2>3. srvTag' # c
    <3>1. CASE srvTag' = srvTag
      BY <3>1 DEF Unsent
    <3>2. CASE srvTag' # srvTag
      <4>1. IsRequest(Head(up)) /\ srvTag' = Head(up).tag
        BY <1>3, <3>2 DEF ServerReads, IsRequest
      <4> QED
        BY <1>3, <2>2, <4>1, ReadFacts DEF OwnRequests
    <3> QED
      BY <3>1, <3>2
  <2>4. \A s \in Calls : \A i \in 1..Len(stored'[s]) : stored'[s][i] # c
    <3>1. CASE stored' = stored
      BY <3>1 DEF Unsent
    <3>2. CASE stored' # stored
      <4>1. /\ srv = "insert" /\ Head(up).m = "Data"
            /\ stored' = [stored EXCEPT ![srvTag] = Append(stored[srvTag], Head(up).call)]
        BY <1>3, <3>2 DEF ServerReads
      <4>2. /\ stored \in [Calls -> Seq(Calls)] /\ srvTag \in Calls /\ Head(up).call \in Calls
        BY <1>3, <4>1, ReadFacts DEF Inv1, TypeOK, ServerTypes, CallsMade, UpMade, MessageMade
      <4> SUFFICES ASSUME NEW s \in Calls, NEW i \in 1..Len(stored'[s]) PROVE stored'[s][i] # c
        OBVIOUS
      <4>3. CASE s = srvTag
        <5>1. stored'[s] = Append(stored[s], Head(up).call) /\ stored[s] \in Seq(Calls)
          BY <4>1, <4>2, <4>3
        <5> QED
          BY <2>2, <4>2, <5>1, AppendElements, SMT DEF Unsent
      <4>4. CASE s # srvTag
        <5>1. stored'[s] = stored[s]
          BY <4>1, <4>2, <4>4
        <5> QED
          BY <5>1 DEF Unsent
      <4> QED
        BY <4>3, <4>4
    <3> QED
      BY <3>1, <3>2
  <2>5. verdict' = verdict /\ sent' = sent
    BY <1>3 DEF ServerReads
  <2> QED
    BY <2>1, <2>3, <2>4, <2>5 DEF Unsent
<1>4. CASE ServerBlock \/ ServerSchema \/ ServerEnds \/ ServerRejects
  <2>1. srvTag # c /\ UNCHANGED <<up, stored, srvTag>>
    BY <1>4 DEF ServerBlock, ServerSchema, ServerEnds, ServerRejects, ServerSends, Unsent
  <2>2. verdict'[c] = verdict[c] /\ sent'[c] = sent[c]
    BY <1>4, <2>1
       DEF ServerBlock, ServerSchema, ServerEnds, ServerRejects, Inv1, TypeOK, ServerTypes
  <2> QED
    BY <2>1, <2>2 DEF Unsent
<1> QED
  BY <1>1, <1>2, <1>3, <1>4, WireStep DEF ServerMoves

LEMMA OwnRequestsStep ==
    ASSUME Inv1, OwnRequests, [Next]_vars
    PROVE  OwnRequests'
<1>1. CASE up' = up
  BY <1>1 DEF OwnRequests, IsRequest
<1>2. CASE WireWritten
  <2>1. IsRequest(Written) => tag = cur
    BY <1>2, WriteFacts DEF Inv1, Control, Statement, InsertContinuation, IsRequest, WireWritten
  <2> QED
    BY <1>2, <2>1, WriteFacts, SMT DEF OwnRequests, IsRequest
<1>3. CASE ServerReads
  BY <1>3, ReadFacts DEF OwnRequests, IsRequest
<1> QED
  BY <1>1, <1>2, <1>3, WireStep
     DEF WireKept, ServerMoves, ServerBlock, ServerSchema, ServerEnds, ServerRejects, ServerSends

\* A step that writes nothing and leaves the actor where it is: what it must
\* still say of the calls it moves.
LEMMA NotSentStep ==
    ASSUME Inv1, NotSent, \A d \in Calls : Unsent(d) => Unsent(d)',
           UNCHANGED <<pc, cur, item, out>>,
           \A d \in Calls : where'[d] \in {"new", "sending", "queued"} =>
               where[d] \in {"new", "sending", "queued"},
           \A d \in Calls : answer'[d].out \in Refusals => Unsent(d) /\ where'[d] = "finished",
           \A d \in Calls : \A i \in 1..Len(frames'[d]) :
               frames'[d][i].f \in Refusals => Unsent(d) /\ where'[d] = "finished",
           \A d \in Calls : Orphan(d)' =>
               Unsent(d) \/ \E i \in 1..Len(frames'[d]) : frames'[d][i].f \in Outcomes
    PROVE  NotSent'
<1>1. \A d \in Calls : where'[d] \in {"new", "sending", "queued"} => Unsent(d)'
  BY DEF NotSent
<1>2. pc \in Busy => cur \in Calls
  BY DEF Inv1, CallsMade, Made, Busy
<1>3. Unwritten' => Unsent(cur)'
  <2>1. Unwritten' => Unwritten /\ cur' = cur /\ cur \in Calls
    BY <1>2 DEF Unwritten, Busy
  <2>2. Unwritten' => Unsent(cur) /\ cur' = cur /\ cur \in Calls
    BY <2>1 DEF NotSent
  <2> QED
    BY <2>2, SMT DEF Unsent
<1>4. (pc = "forward" /\ item.f \in Refusals)' => Unsent(cur)'
  <2>1. (pc = "forward" /\ item.f \in Refusals)' => Unsent(cur) /\ cur' = cur /\ cur \in Calls
    BY <1>2 DEF NotSent, Busy
  <2> QED
    BY <2>1, SMT DEF Unsent
<1> QED
  BY <1>1, <1>3, <1>4 DEF NotSent

\* The reader, the server and the shutdown signal move no command.
LEMMA BystanderInv4 ==
    ASSUME Inv1, Inv4, [Next]_vars, UNCHANGED <<callVars, actorVars, frames>>, ~WireWritten
    PROVE  Inv4'
<1> USE DEF Inv4
<1>1. UNCHANGED <<kind, caller, where, answer, queue, pc, cur, out, item, frames>>
  BY DEF callVars, actorVars
<1>2. Places' /\ Cancelling'
  BY <1>1 DEF Places, Cancelling
<1>3. \A d \in Calls : Unsent(d) => Unsent(d)'
  BY UnsentStep
<1>4. \A d \in Calls : Orphan(d)' => Orphan(d)
  BY <1>1 DEF Orphan
<1>5. NotSent'
  <2>1. /\ \A d \in Calls : answer'[d].out \in Refusals => Unsent(d) /\ where'[d] = "finished"
        /\ \A d \in Calls : \A i \in 1..Len(frames'[d]) :
              frames'[d][i].f \in Refusals => Unsent(d) /\ where'[d] = "finished"
    BY <1>1 DEF NotSent
  <2>2. \A d \in Calls : Orphan(d)' =>
               Unsent(d) \/ \E i \in 1..Len(frames'[d]) : frames'[d][i].f \in Outcomes
    BY <1>1, <1>4 DEF NotSent
  <2> QED
    BY <1>1, <1>3, <2>1, <2>2, NotSentStep
<1> QED
  BY <1>2, <1>5, OwnRequestsStep

LEMMA SubmitInv4 ==
    ASSUME Inv1, Provenance, Inv4, [Next]_vars, NEW c \in Calls, NEW k \in Kinds, Submit(c, k)
    PROVE  Inv4'
<1> USE DEF Inv4
<1>1. /\ caller[c] = "new" /\ kind' = [kind EXCEPT ![c] = k]
      /\ caller' = [caller EXCEPT ![c] = "waiting"] /\ where' = [where EXCEPT ![c] = "sending"]
      /\ UNCHANGED <<answer, queue, pc, cur, out, item, frames, up>>
  BY DEF Submit, actorVars, streamVars
<1>2. where[c] = "new" /\ answer[c] = NoAnswer
  BY <1>1 DEF Places, Provenance
<1>3. /\ kind \in [Calls -> Kinds \cup {None}] /\ caller \in [Calls -> {"new", "waiting", "returned", "dropped"}]
      /\ where \in [Calls -> {"new", "sending", "queued", "actor", "finished"}]
      /\ queue \in Seq(Calls)
  BY DEF Inv1, TypeOK, CallTypes, ActorTypes
<1>4. (pc \in Busy => cur \in Calls /\ cur # c) /\ \A i \in 1..Len(queue) : queue[i] \in Calls /\ queue[i] # c
  BY <1>2, <1>3 DEF Inv1, CallsMade, Made, Places, Busy
<1>5. Places'
  BY <1>1, <1>3, <1>4, SMT DEF Places
<1>6. Cancelling'
  BY <1>1, <1>3, <1>4 DEF Cancelling, Busy
<1>7. \A d \in Calls : Unsent(d) => Unsent(d)'
  BY <1>1, UnsentStep, SMT DEF WireWritten, Submit, serverVars, Unsent
<1>8. NotSent'
  <2>1. \A d \in Calls : d # c => where'[d] = where[d] /\ (Orphan(d)' => Orphan(d))
    BY <1>1, <1>3 DEF Orphan
  <2>2. where'[c] = "sending" /\ ~Orphan(c)'
    BY <1>1, <1>3 DEF Orphan
  <2>3. /\ \A d \in Calls : answer'[d].out \in Refusals => Unsent(d) /\ where'[d] = "finished"
        /\ \A d \in Calls : \A i \in 1..Len(frames'[d]) :
              frames'[d][i].f \in Refusals => Unsent(d) /\ where'[d] = "finished"
    BY <1>1, <1>2, <2>1 DEF NotSent
  <2>4. \A d \in Calls : Orphan(d)' =>
               Unsent(d) \/ \E i \in 1..Len(frames'[d]) : frames'[d][i].f \in Outcomes
    BY <1>1, <2>1, <2>2 DEF NotSent
  <2> QED
    BY <1>1, <1>2, <1>7, <2>1, <2>2, <2>3, <2>4, NotSentStep
<1> QED
  BY <1>5, <1>6, <1>8, OwnRequestsStep

LEMMA EnqueueInv4 ==
    ASSUME Inv1, Inv4, [Next]_vars, NEW c \in Calls, Enqueue(c)
    PROVE  Inv4'
<1> USE DEF Inv4
<1>1. /\ where[c] = "sending" /\ queue' = Append(queue, c)
      /\ where' = [where EXCEPT ![c] = "queued"]
      /\ UNCHANGED <<kind, caller, answer, pc, cur, out, item, frames, up>>
      /\ UNCHANGED <<srvTag, verdict, sent, stored>>
  BY DEF Enqueue, streamVars, serverVars
<1>2. /\ where \in [Calls -> {"new", "sending", "queued", "actor", "finished"}]
      /\ queue \in Seq(Calls)
  BY DEF Inv1, TypeOK, CallTypes, ActorTypes
<1>3. /\ Len(queue') = Len(queue) + 1 /\ Len(queue) \in Nat
      /\ \A i \in 1..Len(queue) : queue'[i] = queue[i]
      /\ queue'[Len(queue) + 1] = c
  BY <1>1, <1>2, AppendElements, SMT
<1>4. /\ pc \in Busy => cur \in Calls /\ cur # c
      /\ \A i \in 1..Len(queue) : queue[i] \in Calls /\ queue[i] # c
  BY <1>1 DEF Inv1, CallsMade, Made, Places, Busy
<1>5. \A d \in Calls : d # c => where'[d] = where[d]
  BY <1>1, <1>2
<1>6. Places'
  <2>1. \A d \in Calls : caller'[d] = "new" => where'[d] = "new"
    BY <1>1, <1>5 DEF Places
  <2>2. \A i \in 1..Len(queue') : where'[queue'[i]] = "queued"
    BY <1>1, <1>2, <1>3, <1>4, <1>5, SMT DEF Places
  <2>3. \A i, j \in 1..Len(queue') : queue'[i] = queue'[j] => i = j
    BY <1>3, <1>4, SMT DEF Places
  <2>4. pc' \in Busy => where'[cur'] = "actor"
    BY <1>1, <1>4, <1>5 DEF Places
  <2> QED
    BY <2>1, <2>2, <2>3, <2>4 DEF Places
<1>7. Cancelling'
  BY <1>1 DEF Cancelling
<1>8. \A d \in Calls : Unsent(d) => Unsent(d)'
  BY <1>1 DEF Unsent
<1>9. NotSent'
  <2>1. \A d \in Calls : Orphan(d)' => Orphan(d) /\ d # c
    BY <1>1, <1>2 DEF Orphan
  <2>2. /\ \A d \in Calls : answer'[d].out \in Refusals => Unsent(d) /\ where'[d] = "finished"
        /\ \A d \in Calls : \A i \in 1..Len(frames'[d]) :
              frames'[d][i].f \in Refusals => Unsent(d) /\ where'[d] = "finished"
    BY <1>1, <1>5 DEF NotSent
  <2>3. \A d \in Calls : Orphan(d)' =>
               Unsent(d) \/ \E i \in 1..Len(frames'[d]) : frames'[d][i].f \in Outcomes
    BY <1>1, <2>1 DEF NotSent
  <2> QED
    BY <1>1, <1>5, <1>8, <2>2, <2>3, NotSentStep
<1> QED
  BY <1>6, <1>7, <1>9, OwnRequestsStep

LEMMA SendClosedInv4 ==
    ASSUME Inv1, Inv4, [Next]_vars, NEW c \in Calls, SendClosed(c)
    PROVE  Inv4'
<1> USE DEF Inv4
<1>1. /\ where[c] = "sending" /\ answer' = [answer EXCEPT ![c] = [out |-> "closed", tag |-> None]]
      /\ where' = [where EXCEPT ![c] = "finished"]
      /\ UNCHANGED <<kind, caller, queue, pc, cur, out, item, frames, up>>
      /\ UNCHANGED <<srvTag, verdict, sent, stored>>
  BY DEF SendClosed, actorVars, streamVars, serverVars
<1>2. /\ where \in [Calls -> {"new", "sending", "queued", "actor", "finished"}]
      /\ answer \in [Calls -> Answer \cup {NoAnswer}] /\ queue \in Seq(Calls)
  BY DEF Inv1, TypeOK, CallTypes, ActorTypes
<1>3. Unsent(c)
  BY <1>1 DEF NotSent
<1>4. /\ pc \in Busy => cur \in Calls /\ cur # c
      /\ \A i \in 1..Len(queue) : queue[i] \in Calls /\ queue[i] # c
      /\ caller[c] # "new"
  BY <1>1 DEF Inv1, CallsMade, Made, Places, Busy
<1>5. \A d \in Calls : d # c => where'[d] = where[d] /\ answer'[d] = answer[d]
  BY <1>1, <1>2
<1>6. where'[c] = "finished" /\ answer'[c] # NoAnswer
  BY <1>1, <1>2 DEF NoAnswer
<1>7. Places'
  BY <1>1, <1>4, <1>5, SMT DEF Places
<1>8. Cancelling'
  BY <1>1 DEF Cancelling
<1>9. \A d \in Calls : Unsent(d) => Unsent(d)'
  BY <1>1 DEF Unsent
<1>10. NotSent'
  <2>1. \A d \in Calls : Orphan(d)' => Orphan(d) /\ d # c
    BY <1>1, <1>5, <1>6 DEF Orphan
  <2>2. /\ \A d \in Calls : answer'[d].out \in Refusals => Unsent(d) /\ where'[d] = "finished"
        /\ \A d \in Calls : \A i \in 1..Len(frames'[d]) :
              frames'[d][i].f \in Refusals => Unsent(d) /\ where'[d] = "finished"
    BY <1>1, <1>3, <1>5, <1>6 DEF NotSent
  <2>3. \A d \in Calls : Orphan(d)' =>
               Unsent(d) \/ \E i \in 1..Len(frames'[d]) : frames'[d][i].f \in Outcomes
    BY <1>1, <2>1 DEF NotSent
  <2> QED
    BY <1>1, <1>5, <1>6, <1>9, <2>2, <2>3, NotSentStep
<1> QED
  BY <1>7, <1>8, <1>10, OwnRequestsStep

\* The caller is told, or goes away: only its own state and, for a command that
\* was never sent, where that command is.
LEMMA CallerLeavesInv4 ==
    ASSUME Inv1, Inv4, [Next]_vars, NEW c \in Calls, Return(c) \/ Drop(c)
    PROVE  Inv4'
<1> USE DEF Inv4
<1>1. /\ caller[c] = "waiting" /\ \A d \in Calls : d # c => caller'[d] = caller[d]
      /\ caller'[c] \in {"returned", "dropped"}
  BY DEF Return, Drop, Inv1, TypeOK, CallTypes
<1>2. /\ UNCHANGED <<kind, answer, queue, pc, cur, out, item, frames, up>>
      /\ UNCHANGED <<srvTag, verdict, sent, stored>>
  BY DEF Return, Drop, actorVars, streamVars, serverVars
<1>3. /\ \A d \in Calls : where'[d] = where[d] \/ (d = c /\ where[d] = "sending" /\ where'[d] = "finished")
  BY DEF Return, Drop, Inv1, TypeOK, CallTypes
<1>4. /\ pc \in Busy => cur \in Calls
      /\ \A i \in 1..Len(queue) : queue[i] \in Calls
  BY DEF Inv1, CallsMade, Made, Busy
<1>5. Places'
  <2>1. \A d \in Calls : caller'[d] = "new" => where'[d] = "new"
    BY <1>1, <1>3, SMT DEF Places
  <2> QED
    BY <1>2, <1>3, <1>4, <2>1, SMT DEF Places
<1>6. Cancelling'
  <2>1. pc \in Busy /\ caller[cur] = "dropped" => caller'[cur] = "dropped"
    BY <1>1, <1>4
  <2> QED
    BY <1>2, <2>1 DEF Cancelling, Busy
<1>7. \A d \in Calls : Unsent(d) => Unsent(d)'
  BY <1>2 DEF Unsent
<1>8. NotSent'
  <2>1. \A d \in Calls : Orphan(d)' => Orphan(d)
    BY <1>1, <1>2, <1>3 DEF Orphan
  <2>2. /\ \A d \in Calls : answer'[d].out \in Refusals => Unsent(d) /\ where'[d] = "finished"
        /\ \A d \in Calls : \A i \in 1..Len(frames'[d]) :
              frames'[d][i].f \in Refusals => Unsent(d) /\ where'[d] = "finished"
    BY <1>2, <1>3 DEF NotSent
  <2>3. \A d \in Calls : Orphan(d)' =>
               Unsent(d) \/ \E i \in 1..Len(frames'[d]) : frames'[d][i].f \in Outcomes
    BY <1>2, <2>1 DEF NotSent
  <2>4. \A d \in Calls : where'[d] \in {"new", "sending", "queued"} =>
               where[d] \in {"new", "sending", "queued"}
    BY <1>3
  <2> QED
    BY <1>2, <1>7, <2>2, <2>3, <2>4, NotSentStep
<1> QED
  BY <1>5, <1>6, <1>8, OwnRequestsStep

\* next_block leaves everything but its own channel and answer alone.
LEMMA CursorFrame ==
    ASSUME Inv1, NEW c \in Calls, CursorNext(c)
    PROVE  /\ kind[c] = "stream" /\ caller[c] = "waiting" /\ answer[c] = NoAnswer
           /\ UNCHANGED <<kind, caller, where, queue, pc, cur, tag, state, out, item, pipe, up>>
           /\ UNCHANGED <<srv, srvTag, sent, stored, verdict>>
           /\ \A d \in Calls : d # c =>
                 answer'[d] = answer[d] /\ frames'[d] = frames[d] /\ delivered'[d] = delivered[d]
<1>1. /\ answer \in [Calls -> Answer \cup {NoAnswer}]
      /\ frames \in [Calls -> Seq(Frame)] /\ delivered \in [Calls -> Seq(Nat)]
  BY DEF Inv1, TypeOK, CallTypes, StreamTypes
<1>2. /\ kind[c] = "stream" /\ caller[c] = "waiting" /\ answer[c] = NoAnswer
      /\ UNCHANGED <<kind, caller, where, queue, pc, cur, tag, state, out, item, pipe, up>>
      /\ UNCHANGED <<srv, srvTag, sent, stored, verdict>>
  BY DEF CursorNext, actorVars, readerVars, serverVars
<1>3. /\ \/ frames' = frames \/ frames' = [frames EXCEPT ![c] = Tail(frames[c])]
      /\ \/ delivered' = delivered
         \/ delivered' = [delivered EXCEPT ![c] = Append(delivered[c], Head(frames[c]).n)]
  BY DEF CursorNext, streamVars
<1>4. \A d \in Calls : d # c => frames'[d] = frames[d] /\ delivered'[d] = delivered[d]
  BY <1>1, <1>3
<1>5. \A d \in Calls : d # c => answer'[d] = answer[d]
  BY <1>1 DEF CursorNext
<1> QED
  BY <1>2, <1>4, <1>5

\* It takes one frame, which ends the stream when it is an outcome.
LEMMA CursorTakes ==
    ASSUME Inv1, NEW c \in Calls, CursorNext(c), frames[c] # <<>>
    PROVE  /\ frames'[c] = Tail(frames[c])
           /\ answer'[c] = IF Head(frames[c]).f \in Outcomes
                           THEN [out |-> Head(frames[c]).f, tag |-> Head(frames[c]).tag]
                           ELSE NoAnswer
           /\ delivered'[c] = IF Head(frames[c]).f = "block"
                              THEN Append(delivered[c], Head(frames[c]).n) ELSE delivered[c]
<1>1. /\ answer \in [Calls -> Answer \cup {NoAnswer}]
      /\ frames \in [Calls -> Seq(Frame)] /\ delivered \in [Calls -> Seq(Nat)]
  BY DEF Inv1, TypeOK, CallTypes, StreamTypes
<1>2. /\ answer[c] = NoAnswer
      /\ frames' = [frames EXCEPT ![c] = Tail(frames[c])]
      /\ delivered' = IF Head(frames[c]).f = "block"
                      THEN [delivered EXCEPT ![c] = Append(delivered[c], Head(frames[c]).n)]
                      ELSE delivered
      /\ answer' = IF Head(frames[c]).f \in Outcomes
                   THEN [answer EXCEPT ![c] = [out |-> Head(frames[c]).f, tag |-> Head(frames[c]).tag]]
                   ELSE answer
  BY DEF CursorNext
<1>3. frames'[c] = Tail(frames[c])
  BY <1>1, <1>2
<1>4. delivered'[c] = IF Head(frames[c]).f = "block"
                      THEN Append(delivered[c], Head(frames[c]).n) ELSE delivered[c]
  BY <1>1, <1>2
<1>5. answer'[c] = IF Head(frames[c]).f \in Outcomes
                   THEN [out |-> Head(frames[c]).f, tag |-> Head(frames[c]).tag] ELSE NoAnswer
  BY <1>1, <1>2
<1> QED
  BY <1>3, <1>4, <1>5

\* ... or learns that the channel is closed.
LEMMA CursorCloses ==
    ASSUME Inv1, NEW c \in Calls, CursorNext(c), frames[c] = <<>>
    PROVE  /\ where[c] = "finished" /\ frames'[c] = frames[c] /\ delivered'[c] = delivered[c]
           /\ answer'[c] = [out |-> "dropped", tag |-> None] /\ answer'[c] # NoAnswer
<1>1. /\ where[c] = "finished" /\ frames' = frames /\ delivered' = delivered
      /\ answer' = [answer EXCEPT ![c] = [out |-> "dropped", tag |-> None]]
  BY DEF CursorNext, streamVars
<1>2. answer'[c] = [out |-> "dropped", tag |-> None]
  BY <1>1 DEF Inv1, TypeOK, CallTypes
<1>3. [out |-> "dropped", tag |-> None] # NoAnswer
  BY DEF NoAnswer
<1> QED
  BY <1>1, <1>2, <1>3

LEMMA CursorNextInv4 ==
    ASSUME Inv1, Inv4, [Next]_vars, NEW c \in Calls, CursorNext(c)
    PROVE  Inv4'
<1> USE DEF Inv4
<1>1. /\ UNCHANGED <<kind, caller, where, queue, pc, cur, out, item, up>>
      /\ UNCHANGED <<srvTag, verdict, sent, stored>>
      /\ kind[c] = "stream" /\ caller[c] = "waiting" /\ answer[c] = NoAnswer
  BY CursorFrame
<1>2. Places' /\ Cancelling'
  BY <1>1 DEF Places, Cancelling
<1>3. \A d \in Calls : Unsent(d) => Unsent(d)'
  BY <1>1 DEF Unsent
<1>4. \A d \in Calls : d # c => answer'[d] = answer[d] /\ frames'[d] = frames[d]
  BY CursorFrame
<1>5. /\ answer'[c].out \in Refusals => Unsent(c) /\ where[c] = "finished"
      /\ \A i \in 1..Len(frames'[c]) : frames'[c][i].f \in Refusals => Unsent(c) /\ where[c] = "finished"
      /\ Orphan(c)' => Unsent(c) \/ \E i \in 1..Len(frames'[c]) : frames'[c][i].f \in Outcomes
  <2>1. /\ \A i \in 1..Len(frames[c]) : frames[c][i].f \in Refusals => Unsent(c) /\ where[c] = "finished"
        /\ Orphan(c) => Unsent(c) \/ \E i \in 1..Len(frames[c]) : frames[c][i].f \in Outcomes
    BY DEF NotSent
  <2>2. Orphan(c) <=> where[c] = "finished"
    BY <1>1 DEF Orphan
  <2>3. CASE frames[c] # <<>>
    <3>1. /\ frames'[c] = Tail(frames[c])
          /\ answer'[c] = IF Head(frames[c]).f \in Outcomes
                          THEN [out |-> Head(frames[c]).f, tag |-> Head(frames[c]).tag]
                          ELSE NoAnswer
      BY <2>3, CursorTakes
    <3>2. /\ Head(frames[c]) = frames[c][1] /\ 1 \in 1..Len(frames[c]) /\ Len(frames[c]) \in Nat
          /\ Len(frames'[c]) = Len(frames[c]) - 1
          /\ \A i \in 1..Len(frames'[c]) : i + 1 \in 1..Len(frames[c]) /\ frames'[c][i] = frames[c][i + 1]
      BY <2>3, <3>1, TailElements, SMT DEF Inv1, TypeOK, StreamTypes
    <3>3. answer'[c].out \in Refusals => Unsent(c) /\ where[c] = "finished"
      <4>1. answer'[c].out \in Refusals => answer'[c].out = Head(frames[c]).f
        BY <3>1, SMT DEF Refusals, NoAnswer
      <4> QED
        BY <2>1, <3>2, <4>1
    <3>4. Orphan(c)' => Head(frames[c]).f \notin Outcomes /\ where[c] = "finished"
      BY <1>1, <3>1, SMT DEF Orphan, NoAnswer, Outcomes
    <3>5. ASSUME Orphan(c)', ~Unsent(c)
          PROVE  \E i \in 1..Len(frames'[c]) : frames'[c][i].f \in Outcomes
      <4>1. PICK j \in 1..Len(frames[c]) : frames[c][j].f \in Outcomes
        BY <2>1, <2>2, <3>4, <3>5
      <4>2. j # 1
        BY <3>2, <3>4, <3>5, <4>1
      <4>3. j - 1 \in 1..Len(frames'[c]) /\ (j - 1) + 1 = j
        BY <3>2, <4>2, SMT
      <4> QED
        BY <3>2, <4>1, <4>3
    <3> QED
      BY <2>1, <3>2, <3>3, <3>5
  <2>4. CASE frames[c] = <<>>
    <3>1. where[c] = "finished" /\ frames'[c] = frames[c] /\ answer'[c] # NoAnswer
      BY <2>4, CursorCloses
    <3>2. Unsent(c)
      BY <2>1, <2>2, <2>4, <3>1, SMT
    <3> QED
      BY <3>1, <3>2
  <2> QED
    BY <2>3, <2>4
<1>6. NotSent'
  <2>1. \A d \in Calls : d # c => (Orphan(d)' => Orphan(d))
    BY <1>1, <1>4 DEF Orphan
  <2>2. ASSUME NEW d \in Calls
        PROVE  /\ answer'[d].out \in Refusals => Unsent(d) /\ where'[d] = "finished"
               /\ \A i \in 1..Len(frames'[d]) :
                     frames'[d][i].f \in Refusals => Unsent(d) /\ where'[d] = "finished"
               /\ Orphan(d)' =>
                     Unsent(d) \/ \E i \in 1..Len(frames'[d]) : frames'[d][i].f \in Outcomes
    <3>1. CASE d = c
      BY <1>1, <1>5, <3>1
    <3>2. CASE d # c
      BY <1>1, <1>4, <2>1, <3>2 DEF NotSent
    <3> QED
      BY <3>1, <3>2
  <2> QED
    BY <1>1, <1>3, <2>2, NotSentStep
<1> QED
  BY <1>2, <1>6, OwnRequestsStep

LEMMA StopInv4 ==
    ASSUME Inv1, Inv4, [Next]_vars, Stop
    PROVE  Inv4'
<1> USE DEF Inv4
<1>1. /\ UNCHANGED <<kind, caller, where, answer, queue, cur, frames, up>>
      /\ UNCHANGED <<srvTag, verdict, sent, stored>> /\ pc' = "stopping"
  BY DEF Stop, callVars, streamVars, serverVars
<1>2. Places' /\ Cancelling'
  BY <1>1 DEF Places, Cancelling, Busy
<1>3. \A d \in Calls : (Unsent(d)' <=> Unsent(d)) /\ (Orphan(d)' <=> Orphan(d))
  BY <1>1 DEF Unsent, Orphan
<1>4. ~Unwritten'
  BY <1>1 DEF Unwritten
<1>5. NotSent'
  BY <1>1, <1>3, <1>4 DEF NotSent
<1> QED
  BY <1>2, <1>5, OwnRequestsStep

\* The commands still queued when the task ends are dropped unsent.
LEMMA ExitInv4 ==
    ASSUME Inv1, Provenance, Inv4, [Next]_vars, Exit
    PROVE  Inv4'
<1> USE DEF Inv4
<1>1. /\ pc' = "gone" /\ queue' = <<>>
      /\ UNCHANGED <<kind, caller, cur, frames, up>> /\ UNCHANGED <<srvTag, verdict, sent, stored>>
      /\ \A d \in Calls : where'[d] = IF where[d] = "queued" THEN "finished" ELSE where[d]
      /\ \A d \in Calls :
            answer'[d] = IF where[d] = "queued" /\ caller[d] = "waiting" /\ kind[d] # "stream"
                         THEN [out |-> "dropped", tag |-> None] ELSE answer[d]
  BY DEF Exit, streamVars, serverVars
<1>2. Places' /\ Cancelling'
  <2>1. pc' \notin Busy
    BY <1>1 DEF Busy
  <2> QED
    BY <1>1, <2>1, SMT DEF Places, Cancelling, Busy
<1>3. \A d \in Calls : Unsent(d)' <=> Unsent(d)
  BY <1>1 DEF Unsent
<1>4. ~Unwritten' /\ pc' # "forward"
  BY <1>1 DEF Unwritten
<1>5. \A d \in Calls : where[d] = "queued" => Unsent(d)
  BY DEF NotSent
<1>6. ASSUME NEW d \in Calls
      PROVE  /\ where'[d] \in {"new", "sending", "queued"} => Unsent(d)
             /\ answer'[d].out \in Refusals => Unsent(d) /\ where'[d] = "finished"
             /\ \A i \in 1..Len(frames'[d]) :
                   frames'[d][i].f \in Refusals => Unsent(d) /\ where'[d] = "finished"
             /\ Orphan(d)' =>
                   Unsent(d) \/ \E i \in 1..Len(frames'[d]) : frames'[d][i].f \in Outcomes
  <2>1. CASE where[d] = "queued"
    <3>1. where'[d] = "finished" /\ Unsent(d)
      BY <1>1, <1>5, <2>1
    <3> QED
      BY <3>1
  <2>2. CASE where[d] # "queued"
    <3>1. where'[d] = where[d] /\ answer'[d] = answer[d] /\ frames'[d] = frames[d]
      BY <1>1, <2>2
    <3>2. Orphan(d)' => Orphan(d)
      BY <1>1, <3>1 DEF Orphan
    <3> QED
      BY <3>1, <3>2 DEF NotSent
  <2> QED
    BY <2>1, <2>2
<1>7. NotSent'
  BY <1>3, <1>4, <1>6 DEF NotSent
<1> QED
  BY <1>2, <1>7, OwnRequestsStep

\* The actor takes call e, or ends it: where everybody else's command is stays.
LEMMA MovedPlaces ==
    ASSUME Inv1, Places, NEW e \in Calls, where[e] \in {"queued", "actor"}, caller' = caller,
           \A d \in Calls : d # e => where'[d] = where[d],
           \/ queue' = queue /\ where[e] = "actor"
           \/ queue # <<>> /\ e = Head(queue) /\ queue' = Tail(queue),
           pc' \in Busy => cur' = e /\ where'[e] = "actor"
    PROVE  Places'
<1>1. \A d \in Calls : caller'[d] = "new" => where'[d] = "new"
  BY DEF Places
<1>2. CASE queue' = queue /\ where[e] = "actor"
  <2>1. \A i \in 1..Len(queue) : queue[i] \in Calls /\ queue[i] # e
    BY <1>2 DEF Places, Inv1, CallsMade, Made
  <2> QED
    BY <1>1, <1>2, <2>1, SMT DEF Places
<1>3. CASE queue # <<>> /\ e = Head(queue) /\ queue' = Tail(queue)
  <2>1. /\ Head(queue) = queue[1] /\ 1 \in 1..Len(queue) /\ Len(queue) \in Nat
        /\ \A i \in 1..Len(queue') : i + 1 \in 1..Len(queue) /\ queue'[i] = queue[i + 1]
    BY <1>3, TailElements, SMT DEF Inv1, TypeOK, ActorTypes
  <2>2. \A i \in 1..Len(queue) : queue[i] \in Calls
    BY DEF Inv1, CallsMade, Made
  <2>3. ASSUME NEW i \in 1..Len(queue') PROVE queue'[i] \in Calls /\ queue'[i] # e
    <3>1. i + 1 \in 1..Len(queue) /\ queue'[i] = queue[i + 1] /\ i + 1 # 1
      BY <2>1, SMT
    <3>2. queue[i + 1] # queue[1]
      BY <2>1, <3>1 DEF Places
    <3> QED
      BY <1>3, <2>1, <2>2, <3>1, <3>2
  <2>4. \A i \in 1..Len(queue') : where'[queue'[i]] = "queued"
    BY <2>1, <2>3, SMTT(30) DEF Places
  <2>5. \A i, j \in 1..Len(queue') : queue'[i] = queue'[j] => i = j
    <3> SUFFICES ASSUME NEW i \in 1..Len(queue'), NEW j \in 1..Len(queue'), queue'[i] = queue'[j]
                 PROVE  i = j
      OBVIOUS
    <3>1. i + 1 = j + 1
      BY <2>1, SMT DEF Places
    <3> QED
      BY <3>1, SMT
  <2> QED
    BY <1>1, <2>4, <2>5 DEF Places
<1> QED
  BY <1>2, <1>3

LEMMA MovedNotSent ==
    ASSUME NotSent, NEW e \in Calls, where[e] \in {"queued", "actor"},
           UNCHANGED <<kind, caller, frames>>,
           \A d \in Calls : d # e /\ Unsent(d) => Unsent(d)',
           \A d \in Calls : d # e => where'[d] = where[d] /\ answer'[d] = answer[d],
           where'[e] \in {"actor", "finished"},
           where'[e] = "finished" => kind[e] # "stream" \/ caller[e] # "waiting",
           answer'[e].out \in Refusals => Unsent(e)' /\ where'[e] = "finished",
           Unwritten' => Unsent(cur)',
           (pc = "forward" /\ item.f \in Refusals)' => Unsent(cur)'
    PROVE  NotSent'
<1>1. ASSUME NEW d \in Calls
      PROVE  /\ where'[d] \in {"new", "sending", "queued"} => Unsent(d)'
             /\ answer'[d].out \in Refusals => Unsent(d)' /\ where'[d] = "finished"
             /\ \A i \in 1..Len(frames'[d]) :
                   frames'[d][i].f \in Refusals => Unsent(d)' /\ where'[d] = "finished"
             /\ Orphan(d)' =>
                   Unsent(d)' \/ \E i \in 1..Len(frames'[d]) : frames'[d][i].f \in Outcomes
  <2>1. CASE d = e
    <3>1. ~Orphan(d)'
      BY <2>1 DEF Orphan
    <3>2. \A i \in 1..Len(frames'[d]) : frames'[d][i].f \notin Refusals
      BY <2>1 DEF NotSent
    <3> QED
      BY <2>1, <3>1, <3>2
  <2>2. CASE d # e
    <3>1. where'[d] = where[d] /\ answer'[d] = answer[d] /\ (Unsent(d) => Unsent(d)')
      BY <2>2
    <3>2. Orphan(d)' => Orphan(d)
      BY <3>1 DEF Orphan
    <3> QED
      BY <3>1, <3>2 DEF NotSent
  <2> QED
    BY <2>1, <2>2
<1> QED
  BY <1>1 DEF NotSent

LEMMA SettleFacts ==
    ASSUME Inv1, NEW c \in Calls, NEW o, NEW t, Settle(c, o, t)
    PROVE  /\ \A d \in Calls : d # c => where'[d] = where[d] /\ answer'[d] = answer[d]
           /\ \/ /\ kind[c] # "stream" /\ pc' = "recv" /\ cur' = None /\ item' = item
                 /\ where'[c] = "finished"
                 /\ answer'[c] = IF caller[c] = "waiting" THEN [out |-> o, tag |-> t] ELSE answer[c]
              \/ /\ kind[c] = "stream" /\ pc' = "forward" /\ cur' = c
                 /\ item' = [f |-> o, tag |-> t, n |-> 0]
                 /\ where'[c] = "actor" /\ answer'[c] = answer[c]
<1>1. /\ where \in [Calls -> {"new", "sending", "queued", "actor", "finished"}]
      /\ answer \in [Calls -> Answer \cup {NoAnswer}]
  BY DEF Inv1, TypeOK, CallTypes
<1>2. CASE kind[c] = "stream"
  BY <1>1, <1>2 DEF Settle
<1>3. CASE kind[c] # "stream"
  <2>1. /\ pc' = "recv" /\ cur' = None /\ item' = item
        /\ where' = [where EXCEPT ![c] = "finished"]
        /\ answer' = IF caller[c] = "waiting"
                     THEN [answer EXCEPT ![c] = [out |-> o, tag |-> t]] ELSE answer
    BY <1>3 DEF Settle, HandlerReturns, Reply
  <2>2. answer'[c] = IF caller[c] = "waiting" THEN [out |-> o, tag |-> t] ELSE answer[c]
    BY <1>1, <2>1
  <2>3. \A d \in Calls : d # c => where'[d] = where[d] /\ answer'[d] = answer[d]
    BY <1>1, <2>1
  <2>4. where'[c] = "finished"
    BY <1>1, <2>1
  <2> QED
    BY <1>3, <2>1, <2>2, <2>3, <2>4
<1> QED
  BY <1>2, <1>3

LEMMA HandleInv4 ==
    ASSUME Inv1, Inv4, [Next]_vars, NEW c \in Calls, Handle(c)
    PROVE  Inv4'
<1> USE DEF Inv4
<1>1. /\ pc = "recv" /\ queue # <<>> /\ c = Head(queue) /\ queue' = Tail(queue)
      /\ UNCHANGED <<kind, caller, frames, up>> /\ UNCHANGED <<srvTag, verdict, sent, stored>>
  BY DEF Handle, streamVars, serverVars
<1>2. where[c] = "queued" /\ Unsent(c)
  <2>1. c = queue[1] /\ 1 \in 1..Len(queue)
    BY <1>1, TailElements, SMT DEF Inv1, TypeOK, ActorTypes
  <2> QED
    BY <2>1 DEF Places, NotSent
<1>3. \A d \in Calls : Unsent(d) => Unsent(d)'
  BY <1>1 DEF Unsent
<1>4. answer[c].out \notin Refusals
  BY <1>2 DEF NotSent
<1>5. /\ \A d \in Calls : d # c => where'[d] = where[d] /\ answer'[d] = answer[d]
      /\ where'[c] \in {"actor", "finished"}
      /\ where'[c] = "finished" => kind[c] # "stream"
      /\ answer'[c].out \in Refusals => where'[c] = "finished"
      /\ pc' \in Busy => cur' = c /\ where'[c] = "actor"
      /\ pc' # "drain" /\ ~(pc' = "write" /\ out' = "Cancel")
  <2>1. CASE Refuses(c)
    <3>1. Settle(c, "refused", None)
      BY <2>1 DEF Handle
    <3> QED
      BY <1>4, <3>1, SettleFacts DEF Busy
  <2>2. CASE ~Refuses(c)
    <3>1. /\ cur' = c /\ where' = [where EXCEPT ![c] = "actor"] /\ answer' = answer
          /\ pc' \in {"peek", "write"} /\ (pc' = "write" => out' = FirstWrite(kind[c]))
      BY <2>2 DEF Handle
    <3>2. FirstWrite(kind[c]) # "Cancel"
      BY DEF FirstWrite
    <3>3. where'[c] = "actor" /\ \A d \in Calls : d # c => where'[d] = where[d]
      BY <3>1 DEF Inv1, TypeOK, CallTypes
    <3> QED
      BY <1>4, <3>1, <3>2, <3>3 DEF Busy
  <2> QED
    BY <2>1, <2>2
<1>6. Places'
  BY <1>1, <1>2, <1>5, MovedPlaces
<1>7. pc' \in Busy => Unsent(cur)'
  <2>1. Unsent(c)'
    BY <1>2, <1>3
  <2> QED
    BY <1>5, <2>1 DEF Unsent
<1>8. NotSent'
  <2>1. Unwritten' => Unsent(cur)'
    BY <1>7 DEF Unwritten, Busy
  <2>2. (pc = "forward" /\ item.f \in Refusals)' => Unsent(cur)'
    BY <1>7 DEF Busy
  <2> QED
    BY <1>1, <1>2, <1>3, <1>5, <2>1, <2>2, MovedNotSent
<1>9. Cancelling'
  BY <1>5 DEF Cancelling
<1> QED
  BY <1>6, <1>8, <1>9, OwnRequestsStep

\* What a step of a handler can be, forwarding apart: it ends the command with an
\* outcome that is no refusal, it returns without telling a caller that is gone,
\* or it goes on with the command.
Ends == \E o \in Outcomes \ Refusals : \E t \in Calls \cup {None} : Settle(cur, o, t)
Abandons == HandlerReturns(cur) /\ answer' = answer /\ caller[cur] = "dropped"
GoesOn ==
    /\ UNCHANGED <<cur, where, answer>>
    /\ pc' \in Busy
    /\ Unwritten' => Unwritten /\ ~WireWritten
    /\ pc' = "forward" => item'.f \notin Refusals
    /\ pc' = "write" /\ out' = "Cancel" => caller[cur] = "dropped"
    /\ pc' = "drain" /\ kind[cur] # "finish" => caller[cur] = "dropped"

HandlerStep ==
    /\ pc \in Busy
    /\ UNCHANGED <<kind, caller, queue, frames, delivered>>
    /\ Ends \/ Abandons \/ GoesOn

LEMMA HandlerInv4 ==
    ASSUME Inv1, Inv4, [Next]_vars, HandlerStep
    PROVE  Inv4'
<1> USE DEF Inv4
<1>1. /\ pc \in Busy /\ UNCHANGED <<kind, caller, queue, frames>>
      /\ cur \in Calls /\ where[cur] = "actor"
  BY DEF HandlerStep, Inv1, CallsMade, Made, Busy, Places
<1>2. \A d \in Calls : d # cur /\ Unsent(d) => Unsent(d)'
  BY UnsentStep
<1>3. answer[cur].out \notin Refusals
  BY <1>1 DEF NotSent
<1>4. CASE Ends
  <2>1. PICK o \in Outcomes \ Refusals, t \in Calls \cup {None} : Settle(cur, o, t)
    BY <1>4 DEF Ends
  <2>2. /\ \A d \in Calls : d # cur => where'[d] = where[d] /\ answer'[d] = answer[d]
        /\ where'[cur] \in {"actor", "finished"}
        /\ where'[cur] = "finished" => kind[cur] # "stream"
        /\ answer'[cur].out \notin Refusals
        /\ pc' \in {"recv", "forward"}
        /\ pc' = "forward" => cur' = cur /\ where'[cur] = "actor" /\ item'.f \notin Refusals
    <3>1. /\ \A d \in Calls : d # cur => where'[d] = where[d] /\ answer'[d] = answer[d]
          /\ \/ /\ kind[cur] # "stream" /\ pc' = "recv" /\ where'[cur] = "finished"
                /\ answer'[cur] = IF caller[cur] = "waiting" THEN [out |-> o, tag |-> t] ELSE answer[cur]
             \/ /\ kind[cur] = "stream" /\ pc' = "forward" /\ cur' = cur
                /\ item' = [f |-> o, tag |-> t, n |-> 0]
                /\ where'[cur] = "actor" /\ answer'[cur] = answer[cur]
      BY <1>1, <2>1, SettleFacts
    <3>2. answer'[cur].out \notin Refusals
      BY <1>3, <2>1, <3>1, SMT
    <3>3. pc' = "forward" => item'.f \notin Refusals
      BY <2>1, <3>1, SMT
    <3> QED
      BY <3>1, <3>2, <3>3
  <2>3. Places'
    BY <1>1, <2>2, MovedPlaces DEF Busy
  <2>4. NotSent'
    BY <1>1, <1>2, <2>2, MovedNotSent DEF Unwritten
  <2>5. Cancelling'
    BY <2>2 DEF Cancelling
  <2> QED
    BY <2>3, <2>4, <2>5, OwnRequestsStep
<1>5. CASE Abandons
  <2>1. /\ pc' = "recv" /\ where' = [where EXCEPT ![cur] = "finished"] /\ answer' = answer
        /\ caller[cur] = "dropped"
    BY <1>5 DEF Abandons, HandlerReturns
  <2>2. /\ \A d \in Calls : d # cur => where'[d] = where[d] /\ answer'[d] = answer[d]
        /\ where'[cur] = "finished"
    BY <1>1, <2>1 DEF Inv1, TypeOK, CallTypes
  <2>3. Places'
    BY <1>1, <2>1, <2>2, MovedPlaces DEF Busy
  <2>4. NotSent'
    BY <1>1, <1>2, <1>3, <2>1, <2>2, MovedNotSent DEF Unwritten
  <2>5. Cancelling'
    BY <2>1 DEF Cancelling
  <2> QED
    BY <2>3, <2>4, <2>5, OwnRequestsStep
<1>6. CASE GoesOn
  <2>1. /\ cur' = cur /\ where' = where /\ answer' = answer
        /\ pc' = "forward" => item'.f \notin Refusals
    BY <1>6 DEF GoesOn
  <2>2. Places'
    BY <1>1, <2>1, MovedPlaces
  <2>3. Unwritten' => Unsent(cur)'
    <3>1. Unwritten' => Unwritten /\ ~WireWritten /\ cur' = cur
      BY <1>6 DEF GoesOn
    <3>2. Unwritten' => Unsent(cur) /\ ~WireWritten
      BY <3>1 DEF NotSent
    <3> QED
      BY <1>1, <2>1, <3>2, UnsentStep DEF Unsent
  <2>4. NotSent'
    BY <1>1, <1>2, <1>3, <2>1, <2>3, MovedNotSent
  <2>5. Cancelling'
    BY <1>1, <1>6, <2>1 DEF Cancelling, GoesOn
  <2> QED
    BY <2>2, <2>4, <2>5, OwnRequestsStep
<1> QED
  BY <1>4, <1>5, <1>6 DEF HandlerStep

LEMMA WriteHandler ==
    ASSUME Inv1, Cancelling, WriteDone \/ WriteFails
    PROVE  HandlerStep
<1>1. /\ pc = "write" /\ cur \in Calls /\ tag \in Calls \cup {None}
      /\ UNCHANGED <<kind, caller, queue, frames, delivered>>
  BY DEF WriteDone, WriteFails, Inv1, CallsMade, Made, TypeOK, ActorTypes, streamVars
<1>2. out = "Cancel" => caller[cur] = "dropped"
  BY <1>1 DEF Cancelling
<1>3. {"ok", "failed"} \subseteq Outcomes \ Refusals /\ None \in Calls \cup {None}
  BY DEF Outcomes, Refusals
<1>4. Ends \/ Abandons \/ GoesOn
  <2>1. CASE WriteDone /\ out = "Data"
    BY <1>1, <1>3, <2>1 DEF WriteDone, Ends
  <2>2. CASE WriteDone /\ out # "Data"
    <3>1. /\ pc' = IF out \in {"Query", "Ping"} THEN "read" ELSE "drain"
          /\ UNCHANGED <<cur, where, answer>>
      BY <2>2 DEF WriteDone
    <3>2. pc' = "drain" => out = "Cancel" \/ kind[cur] = "finish"
      BY <1>1, <2>2, <3>1 DEF Inv1, Control
    <3> QED
      BY <1>2, <3>1, <3>2 DEF GoesOn, Busy, Unwritten
  <2>3. CASE WriteFails /\ out = "Cancel"
    BY <1>2, <2>3 DEF WriteFails, Abandons
  <2>4. CASE WriteFails /\ out # "Cancel"
    BY <1>3, <2>4 DEF WriteFails, Ends
  <2> QED
    BY <2>1, <2>2, <2>3, <2>4
<1> QED
  BY <1>1, <1>4 DEF HandlerStep, Busy

LEMMA PeekHandler ==
    ASSUME Inv1, PeekPacket \/ PeekDead \/ PeekEmpty
    PROVE  HandlerStep
<1>1. pc = "peek" /\ UNCHANGED <<kind, caller, queue, frames, delivered, up>>
  BY DEF PeekPacket, PeekDead, PeekEmpty, streamVars, callVars
<1>2. {"exception", "failed"} \subseteq Outcomes \ Refusals /\ None \in Calls \cup {None}
  BY DEF Outcomes, Refusals
<1>3. ~WireWritten
  BY <1>1 DEF WireWritten
<1>4. Ends \/ GoesOn
  <2>1. CASE PeekPacket
    <3>1. Head(pipe).tag \in Calls \cup {None}
      BY <2>1, ConsumeElements DEF PeekPacket, Inv1, TypeOK
    <3>2. CASE Head(pipe).t = "Exception"
      BY <1>2, <2>1, <3>1, <3>2 DEF PeekPacket, Ends
    <3>3. CASE Head(pipe).t # "Exception"
      <4>1. UNCHANGED <<pc, cur, item, where, answer>>
        BY <2>1, <3>3 DEF PeekPacket
      <4> QED
        BY <1>1, <1>3, <4>1 DEF GoesOn, Busy, Unwritten
    <3> QED
      BY <3>2, <3>3
  <2>2. CASE PeekDead
    BY <1>2, <2>2 DEF PeekDead, Ends
  <2>3. CASE PeekEmpty
    <3>1. pc' = "write" /\ out' = "Data" /\ UNCHANGED <<cur, item, where, answer>>
      BY <2>3 DEF PeekEmpty, callVars
    <3> QED
      BY <1>1, <1>3, <3>1 DEF GoesOn, Busy, Unwritten
  <2> QED
    BY <2>1, <2>2, <2>3
<1> QED
  BY <1>1, <1>4 DEF HandlerStep, Busy

\* What do_ping, do_execute_query, do_begin_insert and do_execute_stream make of
\* a packet.
LEMMA ReadOutcomes ==
    ASSUME NEW k, NEW p
    PROVE  ReadOutcome(k, p) \in {"ok", "exception", "bad", "failed", "block", "other", "ignore"}
  BY DEF ReadOutcome, PingOutcome, QueryOutcome, BeginOutcome, StreamOutcome

LEMMA ReadHandler ==
    ASSUME Inv1, ReadPacket \/ ReadDead \/ ReadTimesOut \/ ReadCancels
    PROVE  HandlerStep
<1>1. pc = "read" /\ UNCHANGED <<kind, caller, queue, frames, delivered>>
  BY DEF ReadPacket, ReadDead, ReadTimesOut, ReadCancels, streamVars, callVars
<1>2. /\ {"ok", "exception", "bad", "failed"} \subseteq Outcomes \ Refusals
      /\ None \in Calls \cup {None}
  BY DEF Outcomes, Refusals
<1>3. Ends \/ GoesOn
  <2>1. CASE ReadPacket
    <3> DEFINE o == ReadOutcome(kind[cur], Head(pipe))
    <3>1. Head(pipe).tag \in Calls \cup {None}
      BY <2>1, ConsumeElements DEF ReadPacket, Inv1, TypeOK
    <3>2. o \in {"ok", "exception", "bad", "failed", "block", "other", "ignore"}
      BY ReadOutcomes
    <3>3. CASE o = "ignore"
      <4>1. UNCHANGED <<pc, cur, item, where, answer>>
        BY <2>1, <3>3 DEF ReadPacket
      <4> QED
        BY <1>1, <4>1 DEF GoesOn, Busy, Unwritten
    <3>4. CASE o \in {"block", "other"}
      <4>1. /\ pc' = "forward" /\ item' = [f |-> o, tag |-> Head(pipe).tag, n |-> Head(pipe).n]
            /\ UNCHANGED <<cur, where, answer>>
        BY <2>1, <3>4 DEF ReadPacket
      <4>2. item'.f \notin Refusals
        BY <3>4, <4>1 DEF Refusals
      <4> QED
        BY <1>1, <4>1, <4>2 DEF GoesOn, Busy, Unwritten
    <3>5. CASE o \notin {"ignore", "block", "other"}
      <4>1. Settle(cur, o, Head(pipe).tag)
        BY <2>1, <3>5 DEF ReadPacket
      <4>2. o \in Outcomes \ Refusals
        BY <1>2, <3>2, <3>5
      <4> QED
        BY <3>1, <4>1, <4>2 DEF Ends
    <3> QED
      BY <3>3, <3>4, <3>5
  <2>2. CASE ReadDead \/ ReadTimesOut
    BY <1>2, <2>2 DEF ReadDead, ReadTimesOut, Ends
  <2>3. CASE ReadCancels
    <3>1. pc' = "write" /\ out' = "Cancel" /\ UNCHANGED <<cur, where, answer>> /\ caller[cur] = "dropped"
      BY <2>3 DEF ReadCancels, StartCancel, callVars, CallerGone
    <3> QED
      BY <1>1, <3>1 DEF GoesOn, Busy, Unwritten
  <2> QED
    BY <2>1, <2>2, <2>3
<1> QED
  BY <1>1, <1>3 DEF HandlerStep, Busy

LEMMA ForwardGoneHandler ==
    ASSUME Inv1, ForwardGone
    PROVE  HandlerStep
<1>1. /\ pc = "forward" /\ UNCHANGED <<kind, caller, queue, frames, delivered, answer>>
      /\ caller[cur] = "dropped"
  BY DEF ForwardGone, streamVars
<1>2. CASE item.f \in Outcomes
  BY <1>1, <1>2 DEF ForwardGone, HandlerStep, Abandons, Busy
<1>3. CASE item.f \notin Outcomes
  <2>1. pc' = "write" /\ out' = "Cancel" /\ UNCHANGED <<cur, where>>
    BY <1>3 DEF ForwardGone, StartCancel
  <2> QED
    BY <1>1, <2>1 DEF HandlerStep, GoesOn, Busy, Unwritten
<1> QED
  BY <1>2, <1>3

LEMMA DrainHandler ==
    ASSUME Inv1, Cancelling, DrainPacket \/ DrainDead \/ DrainTimesOut
    PROVE  HandlerStep
<1>1. pc = "drain" /\ UNCHANGED <<kind, caller, queue, frames, delivered>>
  BY DEF DrainPacket, DrainDead, DrainTimesOut, streamVars
<1>2. /\ {"ok", "exception", "failed"} \subseteq Outcomes \ Refusals
      /\ None \in Calls \cup {None}
  BY DEF Outcomes, Refusals
<1>3. ASSUME NEW o \in {"ok", "exception", "failed"}, NEW t \in Calls \cup {None}, DrainEnds(o, t)
      PROVE  Ends \/ Abandons
  <2>1. CASE kind[cur] = "finish"
    BY <1>2, <1>3, <2>1 DEF DrainEnds, Ends
  <2>2. CASE kind[cur] # "finish"
    BY <1>1, <1>3, <2>2 DEF DrainEnds, Abandons, Cancelling
  <2> QED
    BY <2>1, <2>2
<1>4. Ends \/ Abandons \/ GoesOn
  <2>1. CASE DrainPacket
    <3>1. Head(pipe).tag \in Calls \cup {None}
      BY <2>1, ConsumeElements DEF DrainPacket, Inv1, TypeOK
    <3>2. CASE Head(pipe).t \in {"EndOfStream", "Exception"}
      <4>1. DrainEnds("ok", Head(pipe).tag) \/ DrainEnds("exception", Head(pipe).tag)
        BY <2>1, <3>2 DEF DrainPacket
      <4> QED
        BY <1>3, <3>1, <4>1
    <3>3. CASE Head(pipe).t \notin {"EndOfStream", "Exception"}
      <4>1. UNCHANGED <<pc, cur, item, where, answer>>
        BY <2>1, <3>3 DEF DrainPacket
      <4> QED
        BY <1>1, <4>1 DEF GoesOn, Busy, Unwritten, Cancelling
    <3> QED
      BY <3>2, <3>3
  <2>2. CASE DrainDead \/ DrainTimesOut
    <3>1. DrainEnds("failed", None)
      BY <2>2 DEF DrainDead, DrainTimesOut
    <3> QED
      BY <1>2, <1>3, <3>1
  <2> QED
    BY <2>1, <2>2
<1> QED
  BY <1>1, <1>4 DEF HandlerStep, Busy

LEMMA ForwardFacts ==
    ASSUME Inv1, Forward
    PROVE  /\ pc = "forward" /\ caller[cur] = "waiting" /\ cur \in Calls
           /\ UNCHANGED <<kind, caller, answer, queue, tag, state, out, delivered, pipe, up>>
           /\ UNCHANGED <<srv, srvTag, sent, stored, verdict>>
           /\ frames'[cur] = Append(frames[cur], item)
           /\ \A d \in Calls : d # cur => frames'[d] = frames[d] /\ where'[d] = where[d]
           /\ \/ item.f \in Outcomes /\ pc' = "recv" /\ where'[cur] = "finished"
              \/ item.f \notin Outcomes /\ pc' = "read" /\ cur' = cur /\ where'[cur] = where[cur]
<1>1. pc = "forward" /\ caller[cur] = "waiting" /\ cur \in Calls
  BY DEF Forward, Inv1, CallsMade, Made
<1>2. /\ UNCHANGED <<kind, caller, answer, queue, tag, state, out, delivered, pipe, up>>
      /\ UNCHANGED <<srv, srvTag, sent, stored, verdict>>
      /\ frames' = [frames EXCEPT ![cur] = Append(frames[cur], item)]
  BY DEF Forward, readerVars, serverVars
<1>3. \/ item.f \in Outcomes /\ pc' = "recv" /\ where' = [where EXCEPT ![cur] = "finished"]
      \/ item.f \notin Outcomes /\ pc' = "read" /\ cur' = cur /\ where' = where
  BY DEF Forward, HandlerReturns
<1>4. frames'[cur] = Append(frames[cur], item) /\ \A d \in Calls : d # cur => frames'[d] = frames[d]
  BY <1>1, <1>2 DEF Inv1, TypeOK, StreamTypes
<1>5. /\ \A d \in Calls : d # cur => where'[d] = where[d]
      /\ \/ item.f \in Outcomes /\ pc' = "recv" /\ where'[cur] = "finished"
         \/ item.f \notin Outcomes /\ pc' = "read" /\ cur' = cur /\ where'[cur] = where[cur]
  BY <1>1, <1>3 DEF Inv1, TypeOK, CallTypes
<1> QED
  BY <1>1, <1>2, <1>4, <1>5

\* The frame goes behind the others.
LEMMA ForwardFrames ==
    ASSUME Inv1, Forward
    PROVE  /\ Len(frames[cur]) \in Nat /\ Len(frames'[cur]) = Len(frames[cur]) + 1
           /\ \A i \in 1..Len(frames[cur]) : frames'[cur][i] = frames[cur][i]
           /\ frames'[cur][Len(frames[cur]) + 1] = item
<1>1. frames'[cur] = Append(frames[cur], item) /\ cur \in Calls
  BY ForwardFacts
<1>2. frames[cur] \in Seq(Frame) /\ item \in Frame
  BY <1>1 DEF Inv1, TypeOK, StreamTypes, ActorTypes
<1> QED
  BY <1>1, <1>2, AppendElements, SMT

LEMMA ForwardInv4 ==
    ASSUME Inv1, Inv4, [Next]_vars, Forward
    PROVE  Inv4'
<1> USE DEF Inv4
<1>1. /\ pc = "forward" /\ cur \in Calls /\ UNCHANGED <<kind, caller, answer, queue, up>>
      /\ UNCHANGED <<srvTag, sent, stored, verdict>>
      /\ \A d \in Calls : d # cur => frames'[d] = frames[d] /\ where'[d] = where[d]
      /\ \/ item.f \in Outcomes /\ pc' = "recv" /\ where'[cur] = "finished"
         \/ item.f \notin Outcomes /\ pc' = "read" /\ cur' = cur /\ where'[cur] = where[cur]
  BY ForwardFacts
<1>2. where[cur] = "actor" /\ (item.f \in Refusals => Unsent(cur))
  BY <1>1 DEF Places, NotSent, Busy
<1>3. \A d \in Calls : Unsent(d) <=> Unsent(d)'
  BY <1>1 DEF Unsent
<1>4. Places'
  <2>1. pc' \in Busy => cur' = cur /\ where'[cur] = "actor"
    BY <1>1, <1>2 DEF Busy
  <2> QED
    BY <1>1, <1>2, <2>1, MovedPlaces
<1>5. ~Unwritten' /\ pc' # "forward" /\ Cancelling'
  BY <1>1 DEF Unwritten, Cancelling
<1>6. Refusals \subseteq Outcomes
  BY DEF Refusals, Outcomes
<1>7. ASSUME NEW d \in Calls
      PROVE  /\ where'[d] \in {"new", "sending", "queued"} => Unsent(d)
             /\ answer'[d].out \in Refusals => Unsent(d) /\ where'[d] = "finished"
             /\ \A i \in 1..Len(frames'[d]) :
                   frames'[d][i].f \in Refusals => Unsent(d) /\ where'[d] = "finished"
             /\ Orphan(d)' =>
                   Unsent(d) \/ \E i \in 1..Len(frames'[d]) : frames'[d][i].f \in Outcomes
  <2>1. CASE d = cur
    <3>1. answer'[d].out \notin Refusals /\ \A i \in 1..Len(frames[d]) : frames[d][i].f \notin Refusals
      BY <1>1, <1>2, <2>1 DEF NotSent
    <3>2. where'[d] \notin {"new", "sending", "queued"}
      BY <1>1, <1>2, <2>1
    <3>3. \A i \in 1..Len(frames'[d]) : frames'[d][i].f \in Refusals => frames'[d][i] = item
      BY <2>1, <3>1, ForwardFrames, SMT
    <3>4. item.f \in Refusals => Unsent(d) /\ where'[d] = "finished"
      BY <1>1, <1>2, <1>6, <2>1
    <3>5. Orphan(d)' => item.f \in Outcomes
      BY <1>1, <1>2, <2>1 DEF Orphan
    <3>6. Len(frames[d]) + 1 \in 1..Len(frames'[d]) /\ frames'[d][Len(frames[d]) + 1] = item
      BY <2>1, ForwardFrames, SMT
    <3> QED
      BY <3>1, <3>2, <3>3, <3>4, <3>5, <3>6
  <2>2. CASE d # cur
    <3>1. where'[d] = where[d] /\ answer'[d] = answer[d] /\ frames'[d] = frames[d]
      BY <1>1, <2>2
    <3>2. Orphan(d)' => Orphan(d)
      BY <1>1, <3>1 DEF Orphan
    <3> QED
      BY <3>1, <3>2 DEF NotSent
  <2> QED
    BY <2>1, <2>2
<1>8. NotSent'
  BY <1>3, <1>5, <1>7 DEF NotSent
<1> QED
  BY <1>4, <1>5, <1>8, OwnRequestsStep

\* The steps of the actor.
LEMMA ActorSteps ==
    ASSUME Inv1, Cancelling, ActorStep
    PROVE  HandlerStep \/ Forward \/ Stop \/ Exit \/ \E c \in Calls : Handle(c)
  BY WriteHandler, PeekHandler, ReadHandler, ForwardGoneHandler, DrainHandler DEF ActorStep

\* The reader and the server leave the calls, the actor and the cursors alone.
LEMMA BystanderFrame ==
    ASSUME RequestShutdown \/ ReaderStep \/ ServerStep \/ UNCHANGED vars
    PROVE  UNCHANGED <<callVars, actorVars, frames, delivered>>
<1>1. ASSUME RequestShutdown \/ ReaderStep \/ UNCHANGED vars
      PROVE  UNCHANGED <<callVars, actorVars, streamVars>>
  BY <1>1 DEF RequestShutdown, ReaderStep, ReaderDelivers, ReaderFails, ReaderReports,
                     ReaderPanics, vars
<1>2. ASSUME ServerStep PROVE UNCHANGED <<callVars, actorVars, streamVars>>
  BY <1>2 DEF ServerStep, ServerReads, ServerChatters, ServerBlock, ServerSchema, ServerRows,
                     ServerEnds, ServerRejects, ServerSends, LinkCloses
<1> QED
  BY <1>1, <1>2 DEF streamVars

\* Only the actor writes.
LEMMA BystanderWire ==
    ASSUME Inv1, CallerStep \/ RequestShutdown \/ ReaderStep \/ ServerStep \/ UNCHANGED vars
    PROVE  ~WireWritten
<1>1. ASSUME CallerStep PROVE up' = up
  BY <1>1 DEF CallerStep, Submit, Enqueue, SendClosed, Return, Drop, CursorNext
<1>2. ASSUME RequestShutdown \/ ReaderStep \/ UNCHANGED vars PROVE up' = up
  BY <1>2 DEF RequestShutdown, ReaderStep, ReaderDelivers, ReaderFails, ReaderReports, ReaderPanics,
              vars
<1>3. ASSUME ServerStep, ~ServerReads PROVE up' = up
  BY <1>3 DEF ServerStep, ServerChatters, ServerBlock, ServerSchema, ServerRows, ServerEnds,
              ServerRejects, ServerSends, LinkCloses
<1>4. up' = up => ~WireWritten
  BY WriteFacts, SMT
<1>5. ServerReads => ~WireWritten
  BY ReadFacts, WriteFacts, SMT
<1> QED
  BY <1>1, <1>2, <1>3, <1>4, <1>5

LEMMA NextInv4 == Inv1 /\ Provenance /\ Inv4 /\ [Next]_vars => Inv4'
<1> SUFFICES ASSUME Inv1, Provenance, Inv4, [Next]_vars PROVE Inv4'
  OBVIOUS
<1>1. CASE CallerStep
  BY <1>1, SubmitInv4, EnqueueInv4, SendClosedInv4, CallerLeavesInv4, CursorNextInv4 DEF CallerStep
<1>2. CASE ActorStep
  BY <1>2, ActorSteps, HandlerInv4, ForwardInv4, StopInv4, ExitInv4, HandleInv4 DEF Inv4
<1>3. CASE RequestShutdown \/ ReaderStep \/ ServerStep \/ UNCHANGED vars
  <2>1. UNCHANGED <<callVars, actorVars, frames>>
    BY <1>3, BystanderFrame
  <2>2. ~WireWritten
    BY <1>3, BystanderWire
  <2> QED
    BY <2>1, <2>2, BystanderInv4
<1> QED
  BY <1>1, <1>2, <1>3 DEF Next

LEMMA InitInv4 == Init => Inv4
<1> SUFFICES ASSUME Init PROVE Inv4
  OBVIOUS
<1>1. Places /\ OwnRequests /\ Cancelling
  BY SMT DEF Init, Places, OwnRequests, Cancelling, Busy
<1>2. \A c \in Calls : Unsent(c)
  BY ConstantsAssumption, SMT DEF Init, Unsent
<1>3. \A c \in Calls : answer[c].out \notin Refusals /\ ~Orphan(c) /\ Len(frames[c]) = 0
  BY DEF Init, NoAnswer, Refusals, Orphan
<1>4. ~Unwritten /\ pc # "forward"
  BY DEF Init, Unwritten
<1> QED
  BY <1>1, <1>2, <1>3, <1>4, SMT DEF Inv4, NotSent

-----------------------------------------------------------------------------
(* What a step does to the pipe, to the verdicts and to what the actor reads *)

ServerSpeaks ==
    \/ \E t \in {"Progress", "Log"} : ServerChatters(t)
    \/ ServerBlock \/ ServerSchema \/ ServerRows \/ ServerEnds \/ ServerRejects

\* The pipe changes when the actor takes a packet and when the server sends one.
LEMMA PacketStep ==
    ASSUME [Next]_vars
    PROVE  \/ UNCHANGED <<pipe, sent, verdict>>
           \/ PeekPacket \/ ReadPacket \/ DrainPacket
           \/ ServerSpeaks
<1> USE DEF readerVars, serverVars
<1>1. ASSUME CallerStep PROVE UNCHANGED <<pipe, sent, verdict>>
  BY <1>1 DEF CallerStep, Submit, Enqueue, SendClosed, Return, Drop, CursorNext
<1>2. ASSUME RequestShutdown \/ ReaderStep PROVE UNCHANGED <<pipe, sent, verdict>>
  BY <1>2 DEF RequestShutdown, ReaderStep, ReaderDelivers, ReaderFails, ReaderReports, ReaderPanics
<1>3. ASSUME \/ \E c \in Calls : Handle(c)
             \/ Stop \/ Exit \/ WriteDone \/ WriteFails \/ PeekEmpty \/ ReadTimesOut \/ ReadCancels
      PROVE  UNCHANGED <<pipe, sent, verdict>>
  BY <1>3 DEF Handle, Stop, Exit, WriteDone, WriteFails, PeekEmpty, ReadTimesOut, ReadCancels
<1>4. ASSUME PeekDead \/ ReadDead \/ Forward \/ ForwardGone \/ DrainDead \/ DrainTimesOut
      PROVE  UNCHANGED <<pipe, sent, verdict>>
  BY <1>4 DEF PeekDead, ReadDead, ReaderDead, Forward, ForwardGone, DrainDead, DrainTimesOut
<1>5. ASSUME ServerReads \/ LinkCloses \/ UNCHANGED vars PROVE UNCHANGED <<pipe, sent, verdict>>
  BY <1>5 DEF ServerReads, LinkCloses, vars
<1> QED
  BY <1>1, <1>2, <1>3, <1>4, <1>5 DEF Next, ActorStep, ServerStep, ServerSpeaks

LEMMA TakesPacket ==
    ASSUME PeekPacket \/ ReadPacket \/ DrainPacket
    PROVE  Consume /\ WireKept
  BY DEF PeekPacket, ReadPacket, DrainPacket, WireKept, serverVars

LEMMA PipeStep ==
    ASSUME [Next]_vars
    PROVE  \/ UNCHANGED <<pipe, sent, verdict>>
           \/ Consume /\ WireKept
           \/ ServerSpeaks
  BY PacketStep, TakesPacket

LEMMA SpeakFacts ==
    ASSUME Inv1, ServerSpeaks
    PROVE  /\ srv # "idle" /\ srvTag \in Calls
           /\ UNCHANGED <<callVars, actorVars, frames, delivered, up, srvTag, stored>>
           /\ Len(pipe) \in Nat /\ Len(pipe') = Len(pipe) + 1
           /\ \A i \in 1..Len(pipe) : pipe'[i] = pipe[i]
           /\ pipe'[Len(pipe) + 1].tag = srvTag
           /\ pipe'[Len(pipe) + 1].t = "EndOfStream" => verdict'[srvTag] = "ended"
           /\ \A d \in Calls : d # srvTag => verdict'[d] = verdict[d] /\ sent'[d] = sent[d]
<1>1. /\ srv # "idle"
      /\ UNCHANGED <<callVars, actorVars, frames, delivered, up, srvTag, stored>>
  BY DEF ServerSpeaks, ServerChatters, ServerBlock, ServerSchema, ServerRows, ServerEnds,
         ServerRejects, ServerSends, streamVars
<1>2. srvTag \in Calls /\ verdict \in [Calls -> {"none", "ended", "rejected"}]
      /\ sent \in [Calls -> Nat] /\ pipe \in Seq(Packet)
  BY <1>1 DEF Inv1, CallsMade, TypeOK, ServerTypes, SocketTypes
<1>3. \A d \in Calls : d # srvTag => verdict'[d] = verdict[d] /\ sent'[d] = sent[d]
  BY <1>2 DEF ServerSpeaks, ServerChatters, ServerBlock, ServerSchema, ServerRows, ServerEnds,
              ServerRejects
<1>4. \E p \in Packet : /\ pipe' = Append(pipe, p) /\ p.tag = srvTag
                        /\ p.t = "EndOfStream" => verdict'[srvTag] = "ended"
  <2>1. ASSUME NEW t \in {"Pong", "EndOfStream", "Exception", "Data", "DataBlock", "Progress", "Log"},
               NEW n \in Nat, ServerSends(t, n), t = "EndOfStream" => verdict'[srvTag] = "ended"
        PROVE  \E p \in Packet : /\ pipe' = Append(pipe, p) /\ p.tag = srvTag
                                 /\ p.t = "EndOfStream" => verdict'[srvTag] = "ended"
    <3>1. [t |-> t, tag |-> srvTag, n |-> n] \in Packet
      BY <1>2 DEF Packet
    <3> QED
      BY <2>1, <3>1 DEF ServerSends
  <2>2. CASE \E t \in {"Progress", "Log"} : ServerChatters(t)
    BY <2>1, <2>2 DEF ServerChatters
  <2>3. CASE ServerBlock
    <3>1. sent[srvTag] + 1 \in Nat
      BY <1>2, SMT
    <3> QED
      BY <2>1, <2>3, <3>1 DEF ServerBlock
  <2>4. CASE ServerSchema \/ ServerRows \/ ServerRejects
    BY <2>1, <2>4 DEF ServerSchema, ServerRows, ServerRejects
  <2>5. CASE ServerEnds
    <3>1. verdict'[srvTag] = "ended"
      BY <1>2, <2>5 DEF ServerEnds
    <3> QED
      BY <2>1, <2>5, <3>1 DEF ServerEnds
  <2> QED
    BY <2>2, <2>3, <2>4, <2>5 DEF ServerSpeaks
<1>5. PICK p \in Packet : /\ pipe' = Append(pipe, p) /\ p.tag = srvTag
                          /\ p.t = "EndOfStream" => verdict'[srvTag] = "ended"
  BY <1>4
<1>6. /\ Len(pipe) \in Nat /\ Len(pipe') = Len(pipe) + 1
      /\ \A i \in 1..Len(pipe) : pipe'[i] = pipe[i]
      /\ pipe'[Len(pipe) + 1] = p
  BY <1>2, <1>5, AppendElements, SMT
<1> QED
  BY <1>1, <1>2, <1>3, <1>5, <1>6

\* What the actor takes is the oldest packet; the others keep their order.
LEMMA ConsumePipe ==
    ASSUME Inv1, Consume
    PROVE  /\ pipe # <<>> /\ pipe' = Tail(pipe)
           /\ 1 \in 1..Len(pipe) /\ Head(pipe) = pipe[1] /\ Len(pipe) \in Nat
           /\ Len(pipe') = Len(pipe) - 1
           /\ \A i \in 1..Len(pipe') : i + 1 \in 1..Len(pipe) /\ pipe'[i] = pipe[i + 1]
<1>1. pipe # <<>> /\ pipe' = Tail(pipe) /\ pipe \in Seq(Packet)
  BY SMT DEF Consume, Inv1, TypeOK, SocketTypes
<1> QED
  BY <1>1, TailElements, SMT

LEMMA KindStep ==
    ASSUME [Next]_vars
    PROVE  kind' = kind \/ \E c \in Calls, k \in Kinds : Submit(c, k)
<1> USE DEF callVars
<1>1. ASSUME NEW c \in Calls, \/ Enqueue(c) \/ SendClosed(c) \/ Return(c) \/ Drop(c)
                              \/ CursorNext(c) \/ Handle(c)
      PROVE  kind' = kind
  BY <1>1 DEF Enqueue, SendClosed, Return, Drop, CursorNext, Handle
<1>2. ASSUME Stop \/ Exit \/ WriteDone \/ WriteFails \/ PeekPacket \/ PeekDead \/ PeekEmpty
      PROVE  kind' = kind
  BY <1>2 DEF Stop, Exit, WriteDone, WriteFails, PeekPacket, PeekDead, PeekEmpty
<1>3. ASSUME ReadPacket \/ ReadDead \/ ReadTimesOut \/ ReadCancels \/ Forward \/ ForwardGone
      PROVE  kind' = kind
  BY <1>3 DEF ReadPacket, ReadDead, ReadTimesOut, ReadCancels, Forward, ForwardGone
<1>4. ASSUME DrainPacket \/ DrainDead \/ DrainTimesOut \/ RequestShutdown \/ ReaderStep
      PROVE  kind' = kind
  BY <1>4 DEF DrainPacket, DrainDead, DrainTimesOut, RequestShutdown, ReaderStep, ReaderDelivers,
              ReaderFails, ReaderReports, ReaderPanics
<1>5. ASSUME ServerStep \/ UNCHANGED vars PROVE kind' = kind
  BY <1>5 DEF ServerStep, ServerReads, ServerChatters, ServerBlock, ServerSchema, ServerRows,
              ServerEnds, ServerRejects, ServerSends, LinkCloses, vars
<1> QED
  BY <1>1, <1>2, <1>3, <1>4, <1>5 DEF Next, CallerStep, ActorStep

\* A call that has been made keeps its kind, and the server knows only such calls.
LEMMA KindKept ==
    ASSUME Inv1, Places, NotSent, [Next]_vars
    PROVE  /\ \A d \in Calls : caller[d] # "new" => kind'[d] = kind[d]
           /\ srvTag \in Calls => kind'[srvTag] = kind[srvTag]
<1>1. CASE kind' = kind
  BY <1>1
<1>2. ASSUME NEW c \in Calls, NEW k \in Kinds, Submit(c, k)
      PROVE  /\ \A d \in Calls : caller[d] # "new" => kind'[d] = kind[d]
             /\ srvTag \in Calls => kind'[srvTag] = kind[srvTag]
  <2>1. caller[c] = "new" /\ kind' = [kind EXCEPT ![c] = k]
    BY <1>2 DEF Submit
  <2>2. \A d \in Calls : d # c => kind'[d] = kind[d]
    BY <2>1 DEF Inv1, TypeOK, CallTypes
  <2>3. srvTag # c
    BY <2>1 DEF Places, NotSent, Unsent
  <2> QED
    BY <2>1, <2>2, <2>3
<1> QED
  BY <1>1, <1>2, KindStep

\* A verdict is final.
LEMMA VerdictKept ==
    ASSUME Inv1, Verdicts, [Next]_vars, NEW d \in Calls, verdict[d] # "none"
    PROVE  verdict'[d] = verdict[d]
<1>1. CASE ServerSpeaks
  <2>1. srv # "idle" /\ \A e \in Calls : e # srvTag => verdict'[e] = verdict[e]
    BY <1>1, SpeakFacts
  <2> QED
    BY <2>1 DEF Verdicts
<1>2. CASE UNCHANGED <<pipe, sent, verdict>> \/ WireKept
  BY <1>2 DEF WireKept
<1> QED
  BY <1>1, <1>2, PipeStep

\* Only the actor moves the actor.
LEMMA BystanderActor ==
    ASSUME CallerStep \/ RequestShutdown \/ ReaderStep \/ ServerStep \/ UNCHANGED vars
    PROVE  UNCHANGED <<pc, cur, tag, state, out, item>>
<1>1. ASSUME CallerStep PROVE UNCHANGED <<pc, cur, tag, state, out, item>>
  BY <1>1 DEF CallerStep, Submit, Enqueue, SendClosed, Return, Drop, CursorNext, actorVars
<1>2. ASSUME RequestShutdown \/ ReaderStep \/ ServerStep \/ UNCHANGED vars
      PROVE  UNCHANGED actorVars
  BY <1>2, BystanderFrame
<1> QED
  BY <1>1, <1>2 DEF actorVars

\* How the actor comes to wait for a packet of its statement.
LEMMA ReadingStep ==
    ASSUME Inv1, [Next]_vars, pc' = "read"
    PROVE  /\ cur' = cur /\ tag' = tag
           /\ \/ pc = "read" /\ ~WireWritten
              \/ WireWritten /\ out \in {"Query", "Ping"} /\ UNCHANGED <<frames, delivered, readerVars>>
              \/ Forward /\ item.f \notin Outcomes
<1>1. CASE CallerStep \/ RequestShutdown \/ ReaderStep \/ ServerStep \/ UNCHANGED vars
  BY <1>1, BystanderActor, BystanderWire
<1>2. ASSUME \E c \in Calls : Handle(c) PROVE FALSE
  BY <1>2 DEF Handle, Settle, HandlerReturns
<1>3. ASSUME Stop \/ Exit \/ PeekPacket \/ PeekDead \/ PeekEmpty PROVE FALSE
  BY <1>3 DEF Stop, Exit, PeekPacket, PeekDead, PeekEmpty, Settle, HandlerReturns
<1>4. ASSUME WriteFails \/ ReadDead \/ ReadTimesOut \/ ReadCancels \/ ForwardGone PROVE FALSE
  BY <1>4 DEF WriteFails, ReadDead, ReadTimesOut, ReadCancels, ForwardGone, StartCancel, Settle,
              HandlerReturns
<1>5. ASSUME DrainPacket \/ DrainDead \/ DrainTimesOut PROVE FALSE
  BY <1>5 DEF DrainPacket, DrainDead, DrainTimesOut, DrainEnds, Settle, HandlerReturns
<1>6. CASE WriteDone
  <2>1. WireWritten /\ UNCHANGED <<tag, frames, delivered, readerVars>>
    BY <1>6 DEF WriteDone, WireWritten, streamVars, serverVars
  <2>2. out # "Data"
    BY <1>6 DEF WriteDone, Settle, HandlerReturns
  <2>3. cur' = cur /\ out \in {"Query", "Ping"}
    BY <1>6, <2>2 DEF WriteDone
  <2> QED
    BY <2>1, <2>3
<1>7. CASE ReadPacket
  <2>1. pc = "read" /\ tag' = tag
    BY <1>7 DEF ReadPacket
  <2>2. cur' = cur
    BY <1>7 DEF ReadPacket, Settle, HandlerReturns
  <2> QED
    BY <2>1, <2>2 DEF WireWritten
<1>8. CASE Forward
  BY <1>8 DEF Forward, HandlerReturns
<1> QED
  BY <1>1, <1>2, <1>3, <1>4, <1>5, <1>6, <1>7, <1>8 DEF Next, ActorStep

\* The kind of a call with an answer is settled.
LEMMA AnsweredKind ==
    ASSUME Inv1, Provenance, Places, NotSent, [Next]_vars, NEW b \in Calls, answer'[b].out = "ok"
    PROVE  kind'[b] = kind[b]
<1>1. CASE \E c \in Calls, k \in Kinds : Submit(c, k)
  <2>1. answer' = answer
    BY <1>1 DEF Submit
  <2>2. answer[b] # NoAnswer
    BY <2>1, SMT DEF NoAnswer
  <2> QED
    BY <2>2, KindKept DEF Provenance
<1> QED
  BY <1>1, KindStep

-----------------------------------------------------------------------------
(* Layer 5: the order on the wire, and how far the server is *)

\* A request is written to a quiet connection, everything else while the
\* statement it belongs to is in progress.
LEMMA WriteAligned ==
    ASSUME Inv1, Aligned, WireWritten
    PROVE  IF IsRequest(Written) THEN Quiet /\ tag = cur ELSE Own
<1>1. pc = "write" /\ Written.m = out
  BY WriteFacts DEF WireWritten
<1>2. CASE IsRequest(Written)
  <2>1. Fresh
    BY <1>1, <1>2 DEF Fresh, IsRequest
  <2>2. tag = cur
    BY <1>1, <1>2 DEF Inv1, Control, Statement, InsertContinuation, IsRequest
  <2> QED
    BY <1>2, <2>1, <2>2 DEF Aligned
<1>3. CASE ~IsRequest(Written)
  <2>1. ~NoStatement /\ ~Fresh
    BY <1>1, <1>3 DEF Fresh, NoStatement, IsRequest
  <2> QED
    BY <1>3, <2>1 DEF Aligned
<1> QED
  BY <1>2, <1>3

LEMMA LineUpStep ==
    ASSUME Inv1, Aligned, LineUp, [Next]_vars
    PROVE  LineUp'
<1>1. CASE WireKept
  BY <1>1 DEF WireKept, LineUp, IsRequest
<1>2. CASE WireWritten
  <2>1. /\ Len(up) \in Nat /\ Len(up') = Len(up) + 1
        /\ \A i \in 1..Len(up) : up'[i] = up[i]
        /\ up'[Len(up) + 1] = Written /\ Written.tag = tag
        /\ srv' = srv /\ srvTag' = srvTag
    BY <1>2, WriteFacts DEF WireWritten
  <2>2. CASE IsRequest(Written)
    <3>1. srv = "idle" /\ \A i \in 1..Len(up) : ~IsRequest(up[i])
      BY <1>2, <2>2, WriteAligned DEF Quiet, IsRequest
    <3>2. \A i, j \in 1..Len(up') : i < j => ~IsRequest(up'[i])
      BY <2>1, <3>1, SMT
    <3> QED
      BY <2>1, <3>1, <3>2 DEF LineUp, IsRequest
  <2>3. CASE ~IsRequest(Written)
    <3>1. /\ srv # "idle" => srvTag = tag
          /\ \A i \in 1..Len(up) : IsRequest(up[i]) => up[i].tag = tag
      BY <1>2, <2>3, WriteAligned DEF Own
    <3>2. srv' # "idle" => \A i \in 1..Len(up') : ~IsRequest(up'[i]) /\ up'[i].tag = srvTag'
      BY <2>1, <2>3, <3>1, SMT DEF LineUp
    <3>3. ASSUME NEW i \in 1..Len(up'), NEW j \in 1..Len(up'), i < j, IsRequest(up'[i])
          PROVE  ~IsRequest(up'[j]) /\ up'[j].tag = up'[i].tag
      <4>1. i \in 1..Len(up) /\ up'[i] = up[i] /\ IsRequest(up[i])
        BY <2>1, <3>3, SMT
      <4>2. CASE j \in 1..Len(up)
        BY <2>1, <3>3, <4>1, <4>2 DEF LineUp
      <4>3. CASE j = Len(up) + 1
        BY <2>1, <2>3, <3>1, <4>1, <4>3
      <4> QED
        BY <2>1, <4>2, <4>3, SMT
    <3> QED
      BY <3>2, <3>3 DEF LineUp, IsRequest
  <2> QED
    BY <2>2, <2>3
<1>3. CASE ServerReads
  <2>1. /\ 1 \in 1..Len(up) /\ Head(up) = up[1] /\ Len(up) \in Nat
        /\ \A i \in 1..Len(up') : i + 1 \in 1..Len(up) /\ 1 < i + 1 /\ up'[i] = up[i + 1]
    BY <1>3, ReadFacts, SMT
  <2>2. \A i, j \in 1..Len(up') : i < j /\ IsRequest(up'[i]) =>
           ~IsRequest(up'[j]) /\ up'[j].tag = up'[i].tag
    BY <2>1, SMTT(30) DEF LineUp
  <2>3. CASE srv = "idle"
    <3>1. srv' # "idle" => IsRequest(up[1]) /\ srvTag' = up[1].tag
      BY <1>3, <2>1, <2>3 DEF ServerReads, IsRequest
    <3>2. srv' # "idle" => \A i \in 1..Len(up') : ~IsRequest(up'[i]) /\ up'[i].tag = srvTag'
      BY <2>1, <3>1 DEF LineUp
    <3> QED
      BY <2>2, <3>2 DEF LineUp, IsRequest
  <2>4. CASE srv # "idle"
    <3>1. srvTag' = srvTag
      BY <1>3, <2>4 DEF ServerReads
    <3>2. \A i \in 1..Len(up') : ~IsRequest(up'[i]) /\ up'[i].tag = srvTag'
      BY <2>1, <2>4, <3>1, SMT DEF LineUp
    <3> QED
      BY <2>2, <3>2 DEF LineUp, IsRequest
  <2> QED
    BY <2>3, <2>4
<1>4. CASE ServerBlock \/ ServerSchema \/ ServerEnds \/ ServerRejects
  <2>1. srv # "idle" /\ up' = up /\ srvTag' = srvTag
    BY <1>4 DEF ServerBlock, ServerSchema, ServerEnds, ServerRejects, ServerSends
  <2> QED
    BY <2>1 DEF LineUp, IsRequest
<1> QED
  BY <1>1, <1>2, <1>3, <1>4, WireStep DEF ServerMoves

LEMMA VerdictsStep ==
    ASSUME Inv1, Aligned, NotSent, LineUp, Verdicts, [Next]_vars
    PROVE  Verdicts'
<1>1. \A i \in 1..Len(up') : IsRequest(up'[i]) => verdict'[up'[i].tag] = "none" /\ sent'[up'[i].tag] = 0
  <2>1. CASE WireKept
    BY <2>1 DEF WireKept, Verdicts
  <2>2. CASE WireWritten
    <3>1. IsRequest(Written) => Unsent(cur) /\ tag = cur
      <4>1. IsRequest(Written) => Unwritten /\ tag = cur
        BY <2>2, WriteAligned, WriteFacts DEF WireWritten, Unwritten, IsRequest
      <4> QED
        BY <4>1 DEF NotSent
    <3>2. IsRequest(Written) => verdict[Written.tag] = "none" /\ sent[Written.tag] = 0
      BY <2>2, <3>1, WriteFacts DEF Unsent
    <3> QED
      BY <2>2, <3>2, WriteFacts, SMT DEF WireWritten, Verdicts
  <2>3. CASE ServerReads
    <3>1. verdict' = verdict /\ sent' = sent
      BY <2>3 DEF ServerReads
    <3> QED
      BY <2>3, <3>1, ReadFacts, SMT DEF Verdicts
  <2>4. CASE ServerBlock \/ ServerSchema \/ ServerEnds \/ ServerRejects
    <3>1. srv # "idle" /\ up' = up
      BY <2>4 DEF ServerBlock, ServerSchema, ServerEnds, ServerRejects, ServerSends
    <3> QED
      BY <3>1 DEF LineUp
  <2> QED
    BY <2>1, <2>2, <2>3, <2>4, WireStep DEF ServerMoves
<1>2. srv' # "idle" => verdict'[srvTag'] = "none"
  <2>1. CASE WireKept \/ WireWritten
    BY <2>1 DEF WireKept, WireWritten, Verdicts
  <2>2. CASE ServerReads
    <3>1. /\ verdict' = verdict
          /\ \/ srvTag' = srvTag /\ srv # "idle"
             \/ srv' = "idle"
             \/ IsRequest(Head(up)) /\ srvTag' = Head(up).tag
      BY <2>2 DEF ServerReads, IsRequest
    <3>2. Head(up) = up[1] /\ 1 \in 1..Len(up)
      BY <2>2, ReadFacts
    <3> QED
      BY <3>1, <3>2 DEF Verdicts
  <2>3. CASE ServerBlock \/ ServerSchema
    <3>1. srv # "idle" /\ srvTag' = srvTag /\ verdict' = verdict
      BY <2>3 DEF ServerBlock, ServerSchema, ServerSends
    <3> QED
      BY <3>1 DEF Verdicts
  <2>4. CASE ServerEnds \/ ServerRejects
    BY <2>4 DEF ServerEnds, ServerRejects
  <2> QED
    BY <2>1, <2>2, <2>3, <2>4, WireStep DEF ServerMoves
<1>3. \A i \in 1..Len(pipe') : pipe'[i].t = "EndOfStream" =>
          pipe'[i].tag \in Calls /\ verdict'[pipe'[i].tag] = "ended"
  <2>1. CASE UNCHANGED <<pipe, sent, verdict>>
    BY <2>1 DEF Verdicts
  <2>2. CASE Consume /\ WireKept
    BY <2>2, ConsumePipe DEF WireKept, Verdicts
  <2>3. CASE ServerSpeaks
    <3> SUFFICES ASSUME NEW i \in 1..Len(pipe'), pipe'[i].t = "EndOfStream"
                 PROVE  pipe'[i].tag \in Calls /\ verdict'[pipe'[i].tag] = "ended"
      OBVIOUS
    <3>1. /\ srv # "idle" /\ srvTag \in Calls
          /\ Len(pipe) \in Nat /\ Len(pipe') = Len(pipe) + 1
          /\ \A j \in 1..Len(pipe) : pipe'[j] = pipe[j]
          /\ pipe'[Len(pipe) + 1].tag = srvTag
          /\ pipe'[Len(pipe) + 1].t = "EndOfStream" => verdict'[srvTag] = "ended"
          /\ \A d \in Calls : d # srvTag => verdict'[d] = verdict[d]
      BY <2>3, SpeakFacts
    <3>2. CASE i \in 1..Len(pipe)
      <4>1. pipe'[i] = pipe[i] /\ pipe[i].tag \in Calls /\ verdict[pipe[i].tag] = "ended"
        BY <3>1, <3>2 DEF Verdicts
      <4>2. pipe[i].tag # srvTag
        BY <3>1, <4>1 DEF Verdicts
      <4> QED
        BY <3>1, <4>1, <4>2
    <3>3. CASE i = Len(pipe) + 1
      BY <3>1, <3>3
    <3> QED
      BY <3>1, <3>2, <3>3, SMT
  <2> QED
    BY <2>1, <2>2, <2>3, PipeStep
<1> QED
  BY <1>1, <1>2, <1>3 DEF Verdicts, IsRequest

LEMMA ServedStep ==
    ASSUME Inv1, Places, NotSent, Served, [Next]_vars
    PROVE  Served'
<1>1. srvTag \in Calls => kind'[srvTag] = kind[srvTag]
  BY KindKept
<1>2. srv # "idle" => srvTag \in Calls
  BY DEF Inv1, CallsMade
<1>3. CASE WireKept \/ WireWritten
  BY <1>1, <1>2, <1>3 DEF WireKept, WireWritten, Served
<1>4. CASE ServerReads
  <2>1. kind' = kind
    BY <1>4 DEF ServerReads, callVars
  <2>2. Head(up) = up[1] /\ 1 \in 1..Len(up)
    BY <1>4, ReadFacts
  <2>3. CASE srv' = srv /\ srvTag' = srvTag
    BY <2>1, <2>3 DEF Served
  <2>4. CASE srv = "idle" /\ Head(up).m = "Ping"
    <3>1. srv' = "ping"
      BY <1>4, <2>4 DEF ServerReads
    <3> QED
      BY <3>1 DEF Served
  <2>5. CASE srv = "idle" /\ Head(up).m = "Query"
    <3>1. srv' = kind[Head(up).tag] /\ srvTag' = Head(up).tag
      BY <1>4, <2>5 DEF ServerReads
    <3>2. kind[Head(up).tag] \in {"query", "begin", "stream"}
      BY <2>2, <2>5 DEF Inv1, UpMade, MessageMade
    <3> QED
      BY <2>1, <3>1, <3>2 DEF Served
  <2>6. CASE srv # "idle"
    <3>1. srvTag' = srvTag /\ (srv' = srv \/ srv' = "cancelled" \/ (srv = "insert" /\ srv' = "commit"))
      BY <1>4, <2>6 DEF ServerReads
    <3> QED
      BY <2>1, <3>1 DEF Served
  <2> QED
    BY <1>4, <2>3, <2>4, <2>5, <2>6 DEF ServerReads
<1>5. CASE ServerBlock \/ ServerSchema \/ ServerEnds \/ ServerRejects
  <2>1. kind' = kind /\ srvTag' = srvTag
    BY <1>5 DEF ServerBlock, ServerSchema, ServerEnds, ServerRejects, ServerSends, callVars
  <2>2. srv' = srv \/ srv' = "idle" \/ (srv = "begin" /\ srv' = "insert")
    BY <1>5 DEF ServerBlock, ServerSchema, ServerEnds, ServerRejects
  <2> QED
    BY <2>1, <2>2 DEF Served
<1> QED
  BY <1>3, <1>4, <1>5, WireStep DEF ServerMoves

LEMMA NextInv5 == Inv1 /\ Aligned /\ Inv4 /\ Inv5 /\ [Next]_vars => Inv5'
  BY LineUpStep, VerdictsStep, ServedStep DEF Inv4, Inv5

LEMMA InitInv5 == Init => Inv5
  BY SMT DEF Init, Inv5, LineUp, Verdicts, Served

-----------------------------------------------------------------------------
(* Layer 6: INSERT sessions *)

\* The server goes on taking the blocks of an INSERT until its empty block.
LEMMA ReceivingStep ==
    ASSUME Inv1, LineUp, Verdicts, [Next]_vars, NEW s \in Calls, Receiving(s),
           ~(ServerReads /\ Head(up).m = "Empty" /\ Head(up).tag = s)
    PROVE  Receiving(s)'
<1>1. CASE verdict[s] = "rejected"
  <2>1. verdict'[s] = "rejected"
    BY <1>1, VerdictKept
  <2> QED
    BY <2>1 DEF Receiving
<1>2. CASE srv = "insert" /\ srvTag = s
  <2>1. CASE WireKept \/ WireWritten
    BY <1>2, <2>1 DEF WireKept, WireWritten, Receiving
  <2>2. CASE ServerReads
    <3>1. Head(up) = up[1] /\ 1 \in 1..Len(up)
      BY <2>2, ReadFacts
    <3>2. Head(up).tag = s
      BY <1>2, <3>1 DEF LineUp
    <3>3. srv' = srv /\ srvTag' = srvTag
      BY <1>2, <2>2, <3>2 DEF ServerReads
    <3> QED
      BY <1>2, <3>3 DEF Receiving
  <2>3. CASE ServerRejects
    <3>1. verdict'[s] = "rejected"
      BY <1>2, <2>3 DEF ServerRejects, Inv1, TypeOK, ServerTypes
    <3> QED
      BY <3>1 DEF Receiving
  <2>4. ~ServerBlock /\ ~ServerSchema /\ ~ServerEnds
    BY <1>2 DEF ServerBlock, ServerSchema, ServerEnds
  <2> QED
    BY <2>1, <2>2, <2>3, <2>4, WireStep DEF ServerMoves
<1> QED
  BY <1>1, <1>2 DEF Receiving

LEMMA NoEmptyStep ==
    ASSUME Inv1, [Next]_vars, NEW s, NoEmpty(s), WireWritten => out # "Empty" \/ tag # s
    PROVE  NoEmpty(s)'
<1>1. CASE up' = up
  BY <1>1 DEF NoEmpty
<1>2. CASE WireWritten
  BY <1>2, WriteFacts, SMT DEF NoEmpty
<1>3. CASE ServerReads
  BY <1>3, ReadFacts DEF NoEmpty
<1> QED
  BY <1>1, <1>2, <1>3, WireStep
     DEF WireKept, ServerMoves, ServerBlock, ServerSchema, ServerEnds, ServerRejects, ServerSends

\* How the actor comes to hold an open session: it had it, or it has just read
\* the schema block.
LEMMA SessionStep ==
    ASSUME Inv1, [Next]_vars, state' = "InsertActive", pc' # "drain"
    PROVE  /\ tag' = tag
           /\ WireWritten => out # "Empty"
           /\ \/ state = "InsertActive" /\ pc # "drain"
              \/ /\ pc = "read" /\ kind[cur] = "begin" /\ Consume /\ Head(pipe).t = "Data"
                 /\ WireKept
<1> USE DEF Inv1, Control, WireWritten, serverVars
<1>2. ASSUME NEW c \in Calls, Handle(c)
      PROVE  tag' = tag /\ state = "InsertActive" /\ pc = "recv"
  <2>1. pc = "recv" /\ state' = state
    BY <1>2 DEF Handle
  <2>2. CASE Refuses(c)
    BY <1>2, <2>1, <2>2 DEF Handle
  <2>3. CASE ~Refuses(c)
    <3>1. kind[c] \in {"block", "finish"}
      BY <2>1, <2>3 DEF Refuses, StateGate, Oversize, InsertContinuation
    <3> QED
      BY <1>2, <2>1, <2>3, <3>1 DEF Handle
  <2> QED
    BY <2>2, <2>3
<1>3. ASSUME Stop \/ Exit \/ PeekPacket \/ PeekDead \/ PeekEmpty
      PROVE  tag' = tag /\ state = "InsertActive" /\ pc \in {"recv", "stopping", "peek"}
  BY <1>3 DEF Stop, Exit, PeekPacket, PeekDead, PeekEmpty
<1>4. ASSUME WriteDone \/ WriteFails
      PROVE  tag' = tag /\ state = "InsertActive" /\ pc = "write" /\ out # "Empty"
  BY <1>4 DEF WriteDone, WriteFails
<1>5. ASSUME ReadPacket
      PROVE  tag' = tag /\ pc = "read" /\ kind[cur] = "begin" /\ Consume /\ Head(pipe).t = "Data" /\ WireKept
  <2>1. pc = "read" /\ tag' = tag /\ Consume /\ WireKept /\ state = "Idle"
    BY <1>5 DEF ReadPacket, WireKept
  <2>2. kind[cur] = "begin" /\ ReadOutcome(kind[cur], Head(pipe)) = "ok"
    BY <1>5, <2>1 DEF ReadPacket
  <2>3. Head(pipe).t = "Data"
    BY <2>2 DEF ReadOutcome, BeginOutcome
  <2> QED
    BY <2>1, <2>2, <2>3
<1>6. ASSUME ReadDead \/ ReadTimesOut \/ ReadCancels \/ Forward \/ ForwardGone
      PROVE  tag' = tag /\ state = "InsertActive" /\ pc \in {"read", "forward"}
  BY <1>6 DEF ReadDead, ReadTimesOut, ReadCancels, Forward, ForwardGone
<1>7. ~DrainPacket /\ ~DrainDead /\ ~DrainTimesOut
  <2>1. ASSUME DrainPacket \/ DrainDead \/ DrainTimesOut PROVE FALSE
    <3>1. pc = "drain"
      BY <2>1 DEF DrainPacket, DrainDead, DrainTimesOut
    <3>2. CASE kind[cur] = "finish"
      <4>1. pc' = "drain" \/ state' = "Idle"
        BY <2>1, <3>1, <3>2 DEF DrainPacket, DrainDead, DrainTimesOut, DrainEnds
      <4> QED
        BY <4>1
    <3>3. CASE kind[cur] # "finish"
      <4>1. state = "Idle" /\ state' = state
        BY <2>1, <3>1, <3>3 DEF DrainPacket, DrainDead, DrainTimesOut, DrainEnds
      <4> QED
        BY <4>1
    <3> QED
      BY <3>2, <3>3
  <2> QED
    BY <2>1
<1>8. CASE CallerStep \/ RequestShutdown \/ ReaderStep \/ ServerStep \/ UNCHANGED vars
  <2>1. state = "InsertActive" /\ pc # "drain" /\ tag' = tag /\ out' = out
    BY <1>8, BystanderActor
  <2>2. ~WireWritten
    BY <1>8, BystanderWire
  <2> QED
    BY <2>1, <2>2
<1>9. CASE ActorStep
  BY <1>2, <1>3, <1>4, <1>5, <1>6, <1>7, <1>9 DEF ActorStep
<1> QED
  BY <1>8, <1>9 DEF Next

\* Whoever writes the blocks of a session writes them to a server that takes them.
LEMMA WriteInSession ==
    ASSUME Inv1, Provenance, SessionOpen, WireWritten, out \in {"Data", "Empty"}
    PROVE  tag \in Calls /\ NoEmpty(tag) /\ Receiving(tag) /\ state = "InsertActive"
<1>1. state = "InsertActive" /\ pc = "write"
  BY DEF WireWritten, Inv1, Control
<1>2. tag \in Calls
  BY <1>1 DEF Provenance, Made
<1> QED
  BY <1>1, <1>2 DEF SessionOpen

LEMMA BlocksLiveStep ==
    ASSUME Inv1, Provenance, LineUp, Verdicts, SessionOpen, BlocksLive, [Next]_vars
    PROVE  BlocksLive'
<1>1. CASE WireWritten
  <2>1. /\ Len(up) \in Nat /\ Len(up') = Len(up) + 1
        /\ \A i \in 1..Len(up) : up'[i] = up[i]
        /\ up'[Len(up) + 1].m = out /\ up'[Len(up) + 1].tag = tag
    BY <1>1, WriteFacts
  <2>2. UNCHANGED <<srv, srvTag, verdict>>
    BY <1>1 DEF WireWritten
  <2>3. out \in {"Data", "Empty"} => tag \in Calls /\ NoEmpty(tag) /\ Receiving(tag)
    BY <1>1, WriteInSession
  <2>4. \A i \in 1..Len(up') : up'[i].m = "Data" => up'[i].tag \in Calls /\ Receiving(up'[i].tag)
    BY <2>1, <2>3, SMT DEF BlocksLive
  <2>5. \A i, j \in 1..Len(up') :
          i < j /\ up'[i].m = "Empty" /\ up'[j].m = "Data" => up'[i].tag # up'[j].tag
    BY <2>1, <2>3, SMTT(30) DEF BlocksLive, NoEmpty
  <2>6. \A i \in 1..Len(up') : up'[i].m = "Empty" =>
          /\ up'[i].tag \in Calls
          /\ verdict[up'[i].tag] # "none" \/ (srv # "idle" /\ srvTag = up'[i].tag)
    BY <2>1, <2>3, SMT DEF BlocksLive, Receiving
  <2> QED
    BY <2>2, <2>4, <2>5, <2>6 DEF BlocksLive, Receiving
<1>2. CASE ~WireWritten
  <2>1. PICK d \in {0, 1} :
          /\ Len(up) \in Nat /\ Len(up') = Len(up) - d
          /\ \A i \in 1..Len(up') : i + d \in 1..Len(up) /\ up'[i] = up[i + d]
          /\ ServerReads => d = 1 /\ Head(up) = up[1] /\ 1 \in 1..Len(up)
    <3>1. CASE ServerReads
      BY <3>1, ReadFacts
    <3>2. CASE ~ServerReads
      <4>1. up' = up
        BY <1>2, <3>2, WireStep
           DEF WireKept, ServerMoves, ServerBlock, ServerSchema, ServerEnds, ServerRejects, ServerSends
      <4>2. Len(up) \in Nat
        BY SMT DEF Inv1, TypeOK, SocketTypes
      <4> QED
        BY <3>2, <4>1, <4>2, SMT
    <3> QED
      BY <3>1, <3>2
  <2>2. ASSUME NEW i \in 1..Len(up'), up'[i].m = "Data"
        PROVE  /\ up'[i].tag \in Calls
               /\ verdict'[up'[i].tag] = "rejected" \/ (srv' = "insert" /\ srvTag' = up'[i].tag)
    <3>1. up'[i] = up[i + d] /\ i + d \in 1..Len(up) /\ i < i + 1
      BY <2>1, SMT
    <3>2. up'[i].tag \in Calls /\ Receiving(up'[i].tag)
      BY <2>2, <3>1 DEF BlocksLive
    <3>3. ~(ServerReads /\ Head(up).m = "Empty" /\ Head(up).tag = up'[i].tag)
      BY <2>1, <2>2, <3>1, SMT DEF BlocksLive
    <3>4. ASSUME NEW s \in Calls, s = up'[i].tag
          PROVE  verdict'[s] = "rejected" \/ (srv' = "insert" /\ srvTag' = s)
      <4>1. Receiving(s) /\ ~(ServerReads /\ Head(up).m = "Empty" /\ Head(up).tag = s)
        BY <3>2, <3>3, <3>4
      <4>2. Receiving(s)'
        BY <4>1, ReceivingStep
      <4> QED
        BY <4>2 DEF Receiving
    <3> QED
      BY <3>2, <3>4
  <2>3. ASSUME NEW i \in 1..Len(up'), NEW j \in 1..Len(up'),
               i < j, up'[i].m = "Empty", up'[j].m = "Data"
        PROVE  up'[i].tag # up'[j].tag
    <3>1. up'[i] = up[i + d] /\ up'[j] = up[j + d] /\ i + d \in 1..Len(up) /\ j + d \in 1..Len(up)
      BY <2>1
    <3>2. i + d < j + d
      BY <2>1, <2>3, SMT
    <3>3. \A k, l \in 1..Len(up) :
            k < l /\ up[k].m = "Empty" /\ up[l].m = "Data" => up[k].tag # up[l].tag
      BY DEF BlocksLive
    <3> QED
      BY <2>3, <3>1, <3>2, <3>3
  <2>4. ASSUME NEW s \in Calls, verdict[s] # "none" \/ (srv # "idle" /\ srvTag = s)
        PROVE  verdict'[s] # "none" \/ (srv' # "idle" /\ srvTag' = s)
    <3>1. CASE verdict[s] # "none"
      BY <3>1, VerdictKept
    <3>2. CASE srv # "idle" /\ srvTag = s
      <4>1. CASE WireKept \/ ServerReads \/ ServerBlock \/ ServerSchema
        BY <3>2, <4>1 DEF WireKept, ServerReads, ServerBlock, ServerSchema, ServerSends
      <4>2. CASE ServerEnds \/ ServerRejects
        <5>1. verdict'[srvTag] # "none"
          BY <3>2, <4>2 DEF ServerEnds, ServerRejects, Inv1, TypeOK, ServerTypes
        <5> QED
          BY <3>2, <5>1
      <4> QED
        BY <1>2, <4>1, <4>2, WireStep DEF ServerMoves
    <3> QED
      BY <2>4, <3>1, <3>2
  <2>5. ASSUME NEW i \in 1..Len(up'), up'[i].m = "Empty"
        PROVE  /\ up'[i].tag \in Calls
               /\ verdict'[up'[i].tag] # "none" \/ (srv' # "idle" /\ srvTag' = up'[i].tag)
    <3>1. up'[i] = up[i + d] /\ i + d \in 1..Len(up)
      BY <2>1
    <3> QED
      BY <2>4, <2>5, <3>1 DEF BlocksLive
  <2>6. \A i \in 1..Len(up') : up'[i].m = "Data" =>
          up'[i].tag \in Calls /\ (verdict'[up'[i].tag] = "rejected" \/ (srv' = "insert" /\ srvTag' = up'[i].tag))
    BY <2>2
  <2>7. \A i \in 1..Len(up') : up'[i].m = "Empty" =>
          up'[i].tag \in Calls /\ (verdict'[up'[i].tag] # "none" \/ (srv' # "idle" /\ srvTag' = up'[i].tag))
    BY <2>5
  <2> QED
    BY <2>3, <2>6, <2>7 DEF BlocksLive, Receiving
<1> QED
  BY <1>1, <1>2

\* The only packet that looks like a schema block is the answer to an INSERT,
\* or the first block of a SELECT.
LEMMA SchemaStep ==
    ASSUME Inv1, ServerSpeaks, pipe'[Len(pipe) + 1].t = "Data"
    PROVE  ServerBlock \/ ServerSchema
<1>1. pipe \in Seq(Packet) /\ Len(pipe) \in Nat
  BY SMT DEF Inv1, TypeOK, SocketTypes
<1>2. ASSUME NEW t, NEW n, ServerSends(t, n) PROVE pipe'[Len(pipe) + 1].t = t
  BY <1>1, <1>2, SMT DEF ServerSends
<1>3. ~ServerRows /\ ~ServerRejects /\ ~\E t \in {"Progress", "Log"} : ServerChatters(t)
  BY <1>2 DEF ServerRows, ServerRejects, ServerChatters
<1>4. ~ServerEnds
  BY <1>2 DEF ServerEnds
<1> QED
  BY <1>3, <1>4 DEF ServerSpeaks

LEMMA OpenStep ==
    ASSUME Inv1, LineUp, Verdicts, [Next]_vars, NEW s \in Calls, NoEmpty(s), Receiving(s)
    PROVE  Receiving(s)'
<1>1. ~(ServerReads /\ Head(up).m = "Empty" /\ Head(up).tag = s)
  BY ReadFacts DEF NoEmpty
<1> QED
  BY <1>1, ReceivingStep

\* A schema block in the pipe of an INSERT being opened comes from a server that
\* takes its blocks.
LEMMA SchemaSeen ==
    ASSUME Inv1, Aligned, LineUp, Verdicts, Served, [Next]_vars, NEW s \in Calls,
           pc = "read", kind[cur] = "begin", tag = s, NoEmpty(s),
           (\E i \in 1..Len(pipe) : pipe[i].t = "Data") => Receiving(s),
           \E i \in 1..Len(pipe') : pipe'[i].t = "Data"
    PROVE  Receiving(s)'
<1>1. CASE \E i \in 1..Len(pipe) : pipe[i].t = "Data"
  BY <1>1, OpenStep
<1>2. CASE ~\E i \in 1..Len(pipe) : pipe[i].t = "Data"
  <2>1. CASE UNCHANGED <<pipe, sent, verdict>>
    BY <1>2, <2>1
  <2>2. CASE Consume
    BY <1>2, <2>2, ConsumePipe
  <2>3. CASE ServerSpeaks
    <3>1. pipe'[Len(pipe) + 1].t = "Data"
      BY <1>2, <2>3, SpeakFacts, SMT
    <3>2. ServerBlock \/ ServerSchema
      BY <2>3, <3>1, SchemaStep
    <3>3. srv # "idle" /\ srvTag' = srvTag
      BY <2>3, SpeakFacts
    <3>4. srvTag = s /\ cur = s
      <4>1. ~NoStatement /\ ~Fresh
        BY DEF NoStatement, Fresh
      <4>2. cur = tag
        BY DEF Inv1, Statement, InsertContinuation
      <4> QED
        BY <3>3, <4>1, <4>2 DEF Aligned, Own
    <3>5. ServerSchema
      BY <3>2, <3>4 DEF ServerBlock, Served
    <3> QED
      BY <3>3, <3>4, <3>5 DEF ServerSchema, Receiving
  <2> QED
    BY <2>1, <2>2, <2>3, PipeStep
<1> QED
  BY <1>1, <1>2

LEMMA SessionOpenStep ==
    ASSUME Inv1, Aligned, Provenance, Places, NotSent, LineUp, Verdicts, Served, SessionOpen,
           BlocksLive, [Next]_vars
    PROVE  SessionOpen'
<1>1. ASSUME state' = "InsertActive", pc' # "drain"
      PROVE  NoEmpty(tag)' /\ Receiving(tag)'
  <2>1. /\ tag' = tag /\ (WireWritten => out # "Empty")
        /\ \/ state = "InsertActive" /\ pc # "drain"
           \/ /\ pc = "read" /\ kind[cur] = "begin" /\ Consume /\ Head(pipe).t = "Data"
              /\ WireKept
    BY <1>1, SessionStep
  <2>2. tag \in Calls /\ NoEmpty(tag) /\ Receiving(tag)
    <3>1. CASE state = "InsertActive" /\ pc # "drain"
      BY <3>1 DEF SessionOpen, Provenance, Made
    <3>2. CASE pc = "read" /\ kind[cur] = "begin" /\ Consume /\ Head(pipe).t = "Data"
      <4>1. tag = cur /\ cur \in Calls
        BY <3>2 DEF Inv1, Statement, InsertContinuation, CallsMade, Made
      <4>2. 1 \in 1..Len(pipe) /\ pipe[1].t = "Data"
        BY <3>2, ConsumePipe
      <4> QED
        BY <3>2, <4>1, <4>2 DEF SessionOpen
    <3> QED
      BY <2>1, <3>1, <3>2
  <2>3. PICK s \in Calls : s = tag
    BY <2>2
  <2>4. NoEmpty(s)'
    BY <2>1, <2>2, <2>3, NoEmptyStep
  <2>5. Receiving(s)'
    BY <2>2, <2>3, OpenStep
  <2> QED
    BY <2>1, <2>3, <2>4, <2>5 DEF NoEmpty, Receiving
<1>2. ASSUME pc' = "read", kind'[cur'] = "begin"
      PROVE  /\ NoEmpty(tag)'
             /\ (\E i \in 1..Len(pipe') : pipe'[i].t = "Data") => Receiving(tag)'
  <2>1. /\ cur' = cur /\ tag' = tag
        /\ \/ pc = "read" /\ ~WireWritten
           \/ WireWritten /\ out \in {"Query", "Ping"} /\ UNCHANGED readerVars
           \/ Forward
    BY <1>2, ReadingStep
  <2>2. cur \in Calls /\ caller[cur] # "new"
    BY <2>1, ForwardFacts DEF Inv1, CallsMade, Made, WireWritten
  <2>3. kind[cur] = "begin" /\ ~Forward
    <3>1. kind[cur] = "begin"
      BY <1>2, <2>1, <2>2, KindKept
    <3> QED
      BY <3>1 DEF Forward, Inv1, Control
  <2>4. tag = cur
    BY <2>1, <2>3 DEF Inv1, Statement, InsertContinuation, WireWritten
  <2>5. PICK s \in Calls : s = tag
    BY <2>2, <2>4
  <2>6. CASE pc = "read" /\ ~WireWritten
    <3>1. NoEmpty(s) /\ ((\E i \in 1..Len(pipe) : pipe[i].t = "Data") => Receiving(s))
      BY <2>3, <2>5, <2>6 DEF SessionOpen
    <3>2. NoEmpty(s)'
      BY <2>6, <3>1, NoEmptyStep
    <3>3. (\E i \in 1..Len(pipe') : pipe'[i].t = "Data") => Receiving(s)'
      BY <2>3, <2>5, <2>6, <3>1, SchemaSeen
    <3> QED
      BY <2>1, <2>5, <3>2, <3>3 DEF NoEmpty, Receiving
  <2>7. CASE WireWritten /\ out \in {"Query", "Ping"} /\ UNCHANGED readerVars
    <3>1. Quiet /\ Unsent(s)
      <4>1. Fresh /\ Unwritten
        BY <2>7 DEF Fresh, Unwritten, WireWritten
      <4> QED
        BY <2>4, <2>5, <4>1 DEF Aligned, NotSent
    <3>2. NoEmpty(s)
      BY <3>1 DEF Quiet, Unsent, BlocksLive, NoEmpty
    <3>3. NoEmpty(s)'
      BY <2>7, <3>2, NoEmptyStep
    <3>4. pipe' = <<>>
      BY <2>7, <3>1 DEF Quiet, readerVars
    <3> QED
      BY <2>1, <2>5, <3>3, <3>4, SMTT(30) DEF NoEmpty
  <2> QED
    BY <2>1, <2>3, <2>6, <2>7
<1> QED
  BY <1>1, <1>2 DEF SessionOpen

\* Where the answer of a call that is not a stream comes from: a command that
\* settles tells its own caller and nobody else.
LEMMA SettleAnswer ==
    ASSUME Inv1, NEW c \in Calls, NEW o, NEW t, Settle(c, o, t)
    PROVE  \A b \in Calls : \/ answer'[b] = answer[b]
                            \/ b = c /\ answer'[b] = [out |-> o, tag |-> t]
<1>1. \A b \in Calls : b # c => answer'[b] = answer[b]
  BY SettleFacts
<1>2. answer'[c] = answer[c] \/ answer'[c] = [out |-> o, tag |-> t]
  BY SettleFacts
<1> QED
  BY <1>1, <1>2

\* A block is answered Ok when it has been written, a finish when the server's
\* EndOfStream has been read.
LEMMA OkReply ==
    ASSUME Inv1, [Next]_vars, NEW b \in Calls, kind[b] \in {"block", "finish"},
           answer'[b] # answer[b], answer'[b].out = "ok"
    PROVE  \/ /\ b = cur /\ WireWritten /\ out = "Data"
              /\ answer'[b] = [out |-> "ok", tag |-> tag]
           \/ /\ b = cur /\ kind[b] = "finish" /\ Consume /\ WireKept
              /\ Head(pipe).t = "EndOfStream"
              /\ answer'[b] = [out |-> "ok", tag |-> Head(pipe).tag]
<1> DEFINE Kept == answer'[b] = answer[b]
           Told(o) == \E t : answer'[b] = [out |-> o, tag |-> t]
<1>1. ASSUME NEW o, Told(o) PROVE o = "ok"
  <2>1. PICK t : answer'[b] = [out |-> o, tag |-> t]
    BY <1>1
  <2>2. answer'[b].out = o
    BY <2>1, SMT
  <2> QED
    BY <2>2
<1>2. ASSUME NEW c \in Calls, NEW o, NEW t, Settle(c, o, t) PROVE b = c /\ Told(o)
  <2>1. b = c /\ answer'[b] = [out |-> o, tag |-> t]
    BY <1>2, SettleAnswer, SMT
  <2> QED
    BY <2>1
<1>3. ASSUME CallerStep PROVE Kept \/ Told("closed")
  <2>1. ASSUME NEW c \in Calls, (\E k \in Kinds : Submit(c, k)) \/ Enqueue(c) \/ Return(c) \/ Drop(c)
        PROVE  Kept
    BY <2>1 DEF Submit, Enqueue, Return, Drop
  <2>2. ASSUME NEW c \in Calls, SendClosed(c) PROVE Kept \/ Told("closed")
    <3>1. answer' = [answer EXCEPT ![c] = [out |-> "closed", tag |-> None]]
      BY <2>2 DEF SendClosed
    <3> QED
      BY <3>1 DEF Inv1, TypeOK, CallTypes
  <2>3. ASSUME NEW c \in Calls, CursorNext(c) PROVE Kept
    BY <2>3, CursorFrame
  <2> QED
    BY <1>3, <2>1, <2>2, <2>3 DEF CallerStep
<1>4. ASSUME RequestShutdown \/ ReaderStep \/ ServerStep \/ UNCHANGED vars PROVE Kept
  <2>1. UNCHANGED callVars
    BY <1>4, BystanderFrame
  <2> QED
    BY <2>1 DEF callVars
<1>5. ASSUME NEW c \in Calls, Handle(c) PROVE Kept \/ Told("refused")
  <2>1. Settle(c, "refused", None) \/ answer' = answer
    BY <1>5 DEF Handle
  <2> QED
    BY <1>2, <2>1
<1>6. ASSUME Exit PROVE Kept \/ Told("dropped")
  BY <1>6 DEF Exit
<1>7. ASSUME Stop \/ PeekEmpty \/ ReadCancels \/ Forward \/ ForwardGone PROVE Kept
  BY <1>7 DEF Stop, PeekEmpty, ReadCancels, Forward, ForwardGone, callVars
<1>8. ASSUME WriteFails \/ PeekPacket \/ PeekDead \/ ReadDead \/ ReadTimesOut \/ DrainDead
             \/ DrainTimesOut
      PROVE  Kept \/ Told("failed") \/ Told("exception")
  <2>1. cur \in Calls
    BY <1>8 DEF WriteFails, PeekPacket, PeekDead, ReadDead, ReadTimesOut, DrainDead, DrainTimesOut,
                Inv1, CallsMade, Made
  <2>2. \/ answer' = answer \/ Settle(cur, "failed", None)
        \/ Settle(cur, "exception", Head(pipe).tag)
    BY <1>8 DEF WriteFails, PeekPacket, PeekDead, ReadDead, ReadTimesOut, DrainDead, DrainTimesOut,
                DrainEnds
  <2> QED
    BY <1>2, <2>1, <2>2
<1>9. ASSUME ReadPacket PROVE Kept
  <2>1. pc = "read" /\ (answer' = answer \/ \E o : Settle(cur, o, Head(pipe).tag))
    BY <1>9 DEF ReadPacket
  <2>2. cur \in Calls /\ kind[cur] \notin {"block", "finish"}
    BY <2>1 DEF Inv1, Control, CallsMade, Made
  <2> QED
    BY <1>2, <2>1, <2>2
<1>10. CASE WriteDone
  <2>1. WireWritten /\ (answer' = answer \/ (out = "Data" /\ Settle(cur, "ok", tag)))
    BY <1>10 DEF WriteDone, WireWritten, serverVars
  <2>2. cur \in Calls
    BY <2>1 DEF WireWritten, Inv1, CallsMade, Made
  <2>3. b = cur /\ out = "Data" /\ answer'[b] = [out |-> "ok", tag |-> tag]
    BY <2>1, <2>2, SettleAnswer, SMT
  <2> QED
    BY <2>1, <2>3
<1>11. CASE DrainPacket
  <2>1. pc = "drain" /\ Consume /\ WireKept
    BY <1>11 DEF DrainPacket, WireKept, serverVars
  <2>2. cur \in Calls
    BY <2>1 DEF Inv1, CallsMade, Made
  <2>3. \/ answer' = answer \/ Settle(cur, "exception", Head(pipe).tag)
        \/ /\ kind[cur] = "finish" /\ Head(pipe).t = "EndOfStream"
           /\ Settle(cur, "ok", Head(pipe).tag)
    <3>1. CASE Head(pipe).t = "EndOfStream"
      <4>1. DrainEnds("ok", Head(pipe).tag)
        BY <1>11, <3>1 DEF DrainPacket
      <4> QED
        BY <3>1, <4>1 DEF DrainEnds
    <3>2. CASE Head(pipe).t = "Exception"
      <4>1. DrainEnds("exception", Head(pipe).tag)
        BY <1>11, <3>2 DEF DrainPacket
      <4> QED
        BY <4>1 DEF DrainEnds
    <3>3. CASE Head(pipe).t \notin {"EndOfStream", "Exception"}
      BY <1>11, <3>3 DEF DrainPacket
    <3> QED
      BY <3>1, <3>2, <3>3
  <2>4. ~Settle(cur, "exception", Head(pipe).tag)
    BY <1>1, <1>2, <2>2
  <2>5. Settle(cur, "ok", Head(pipe).tag) => b = cur /\ answer'[b] = [out |-> "ok", tag |-> Head(pipe).tag]
    BY <2>2, SettleAnswer, SMT
  <2> QED
    BY <2>1, <2>3, <2>4, <2>5
<1>12. ~Kept /\ ~Told("closed") /\ ~Told("refused") /\ ~Told("dropped") /\ ~Told("failed")
       /\ ~Told("exception")
  BY <1>1
<1> HIDE DEF Kept, Told
<1> QED
  BY <1>3, <1>4, <1>5, <1>6, <1>7, <1>8, <1>9, <1>10, <1>11, <1>12 DEF Next, ActorStep

LEMMA BlocksKeptStep ==
    ASSUME Inv1, Provenance, Places, NotSent, LineUp, Verdicts, BlocksLive, BlocksKept, [Next]_vars
    PROVE  BlocksKept'
<1> SUFFICES ASSUME NEW b \in Calls, NEW s \in Calls,
                    kind'[b] = "block", answer'[b] = [out |-> "ok", tag |-> s]
             PROVE  \/ verdict'[s] = "rejected"
                    \/ \E i \in 1..Len(stored'[s]) : stored'[s][i] = b
                    \/ \E i \in 1..Len(up') : up'[i] = [m |-> "Data", tag |-> s, call |-> b]
  BY DEF BlocksKept
<1>1. kind[b] = "block"
  BY AnsweredKind, SMT
<1>2. CASE answer'[b] # answer[b]
  <2>1. WireWritten /\ answer'[b] = [out |-> "ok", tag |-> tag] /\ b = cur /\ out = "Data"
    BY <1>1, <1>2, OkReply, SMT
  <2>2. s = tag
    <3>1. answer'[b].tag = s /\ answer'[b].tag = tag
      BY <2>1, SMT
    <3> QED
      BY <3>1
  <2>3. Len(up) + 1 \in 1..Len(up') /\ up'[Len(up) + 1] = Written
    BY <2>1, WriteFacts, SMT
  <2> QED
    BY <2>1, <2>2, <2>3 DEF Written
<1>3. CASE answer'[b] = answer[b]
  <2>1. CASE verdict[s] = "rejected"
    BY <2>1, VerdictKept
  <2>2. CASE \E i \in 1..Len(stored[s]) : stored[s][i] = b
    <3>1. CASE stored' = stored
      BY <2>2, <3>1
    <3>2. CASE ServerReads /\ stored' # stored
      <4>1. stored' = [stored EXCEPT ![srvTag] = Append(@, Head(up).call)] /\ srv # "idle"
            /\ Head(up).m = "Data"
        BY <3>2 DEF ServerReads
      <4>2. stored \in [Calls -> Seq(Calls)] /\ srvTag \in Calls /\ Head(up).call \in Calls
        BY <3>2, <4>1, ReadFacts DEF Inv1, TypeOK, ServerTypes, CallsMade, UpMade, MessageMade
      <4>3. CASE s = srvTag
        <5>1. stored'[s] = Append(stored[s], Head(up).call)
          BY <4>1, <4>2, <4>3
        <5>2. /\ Len(stored[s]) \in Nat /\ Len(stored'[s]) = Len(stored[s]) + 1
              /\ \A i \in 1..Len(stored[s]) : stored'[s][i] = stored[s][i]
          BY <4>2, <5>1, AppendElements, SMT
        <5> QED
          BY <2>2, <5>2, SMT
      <4>4. CASE s # srvTag
        BY <2>2, <4>1, <4>2, <4>4
      <4> QED
        BY <4>3, <4>4
    <3> QED
      BY <3>1, <3>2, WireStep
         DEF WireKept, WireWritten, ServerMoves, ServerBlock, ServerSchema, ServerEnds, ServerRejects,
             ServerSends
  <2>3. ASSUME NEW i \in 1..Len(up), up[i] = [m |-> "Data", tag |-> s, call |-> b]
        PROVE  \/ verdict'[s] = "rejected"
               \/ \E j \in 1..Len(stored'[s]) : stored'[s][j] = b
               \/ \E j \in 1..Len(up') : up'[j] = [m |-> "Data", tag |-> s, call |-> b]
    <3>1. CASE WireWritten
      BY <2>3, <3>1, WriteFacts, SMT
    <3>2. CASE ServerReads /\ i # 1
      <4>1. i - 1 \in 1..Len(up') /\ up'[i - 1] = up[i]
        BY <2>3, <3>2, ReadFacts, SMTT(30)
      <4> QED
        BY <2>3, <4>1
    <3>3. CASE ServerReads /\ i = 1
      <4>1. Head(up) = [m |-> "Data", tag |-> s, call |-> b] /\ Head(up) = up[1]
        BY <2>3, <3>3, ReadFacts
      <4>2. Head(up).m = "Data" /\ Head(up).tag = s /\ Head(up).call = b
        BY <4>1, SMT
      <4>3. CASE verdict[s] = "rejected"
        BY <4>3, VerdictKept
      <4>4. CASE verdict[s] # "rejected"
        <5>1. srv = "insert" /\ srvTag = s
          BY <2>3, <3>3, <4>1, <4>2, <4>4 DEF BlocksLive, Receiving
        <5>2. stored' = [stored EXCEPT ![s] = Append(@, b)]
          BY <3>3, <4>2, <5>1 DEF ServerReads
        <5>3. stored \in [Calls -> Seq(Calls)]
          BY DEF Inv1, TypeOK, ServerTypes
        <5>4. stored'[s] = Append(stored[s], b)
          BY <5>2, <5>3
        <5>5. Len(stored[s]) + 1 \in 1..Len(stored'[s]) /\ stored'[s][Len(stored[s]) + 1] = b
          BY <5>3, <5>4, AppendElements, SMT
        <5> QED
          BY <5>5
      <4> QED
        BY <4>3, <4>4
    <3>4. CASE up' = up
      BY <2>3, <3>4
    <3> QED
      BY <3>1, <3>2, <3>3, <3>4, WireStep
         DEF WireKept, ServerMoves, ServerBlock, ServerSchema, ServerEnds, ServerRejects, ServerSends
  <2> QED
    BY <1>1, <1>3, <2>1, <2>2, <2>3, SMT DEF BlocksKept
<1> QED
  BY <1>2, <1>3

LEMMA FinishEndedStep ==
    ASSUME Inv1, Provenance, Places, NotSent, Verdicts, FinishEnded, [Next]_vars
    PROVE  FinishEnded'
<1> SUFFICES ASSUME NEW f \in Calls, kind'[f] = "finish", answer'[f].out = "ok"
             PROVE  answer'[f].tag \in Calls /\ verdict'[answer'[f].tag] = "ended"
  BY DEF FinishEnded
<1>1. kind[f] = "finish"
  BY AnsweredKind
<1>2. CASE answer'[f] = answer[f]
  <2>1. answer'[f].tag \in Calls /\ verdict[answer'[f].tag] = "ended"
    BY <1>1, <1>2 DEF FinishEnded
  <2> QED
    BY <2>1, VerdictKept
<1>3. CASE answer'[f] # answer[f]
  <2>1. \/ f = cur /\ WireWritten /\ out = "Data"
        \/ /\ Consume /\ WireKept /\ Head(pipe).t = "EndOfStream"
           /\ answer'[f] = [out |-> "ok", tag |-> Head(pipe).tag]
    BY <1>1, <1>3, OkReply
  <2>2. ~(f = cur /\ WireWritten /\ out = "Data")
    BY <1>1 DEF WireWritten, Inv1, Control
  <2>3. answer'[f].tag = Head(pipe).tag
    BY <2>1, <2>2, SMT
  <2>4. Head(pipe).tag \in Calls /\ verdict[Head(pipe).tag] = "ended"
    BY <2>1, <2>2, ConsumePipe DEF Verdicts
  <2> QED
    BY <2>1, <2>2, <2>3, <2>4 DEF WireKept
<1> QED
  BY <1>2, <1>3

LEMMA NextInv6 == Inv1 /\ Aligned /\ Provenance /\ Inv4 /\ Inv5 /\ Inv6 /\ [Next]_vars => Inv6'
  BY SessionOpenStep, BlocksLiveStep, BlocksKeptStep, FinishEndedStep DEF Inv4, Inv5, Inv6

LEMMA InitInv6 == Init => Inv6
<1> SUFFICES ASSUME Init PROVE Inv6
  OBVIOUS
<1>1. SessionOpen /\ BlocksLive
  BY SMT DEF Init, SessionOpen, BlocksLive
<1>2. \A c \in Calls : answer[c] = NoAnswer
  BY DEF Init
<1>3. \A c \in Calls : answer[c].out # "ok"
  BY <1>2, SMT DEF NoAnswer
<1>4. BlocksKept /\ FinishEnded
  BY <1>3, SMT DEF BlocksKept, FinishEnded
<1> QED
  BY <1>1, <1>4 DEF Inv6
=============================================================================
