------------------------ MODULE ConnectionTypeProofs ------------------------
(***************************************************************************)
(* The first layer of the inductive invariant of Connection: the shape of  *)
(* the state, and which command the actor can be handling at each point.   *)
(***************************************************************************)
EXTENDS ConnectionInvariant, TLAPS

\* Most steps are first-order; the ones with arithmetic, records or sequences
\* name SMT.
USE ZenonT(20)

-----------------------------------------------------------------------------
(* A group of types survives a step that leaves its variables alone *)

socketVars == <<readerVars, up, link>>
boundVars  == <<queue, up, frames>>

LEMMA CallFrame == ASSUME CallTypes, UNCHANGED callVars PROVE CallTypes'
  BY DEF CallTypes, callVars

LEMMA ActorFrame == ASSUME ActorTypes, UNCHANGED actorVars PROVE ActorTypes'
  BY DEF ActorTypes, actorVars

LEMMA FlagFrame == ASSUME FlagTypes, UNCHANGED flagVars PROVE FlagTypes'
  BY DEF FlagTypes, flagVars

LEMMA SocketFrame == ASSUME SocketTypes, UNCHANGED socketVars PROVE SocketTypes'
  BY DEF SocketTypes, socketVars, readerVars

LEMMA StreamFrame == ASSUME StreamTypes, UNCHANGED streamVars PROVE StreamTypes'
  BY DEF StreamTypes, streamVars

LEMMA ServerFrame == ASSUME ServerTypes, UNCHANGED serverVars PROVE ServerTypes'
  BY DEF ServerTypes, serverVars

LEMMA BoundFrame == ASSUME Bounded, UNCHANGED boundVars PROVE Bounded'
  BY DEF Bounded, boundVars

-----------------------------------------------------------------------------
(* Sequences: what Append and Tail do to the elements *)

LEMMA AppendFacts ==
    ASSUME NEW S, NEW s \in Seq(S), NEW e \in S
    PROVE  /\ Append(s, e) \in Seq(S)
           /\ Len(Append(s, e)) = Len(s) + 1
           /\ \A i \in 1..Len(s) : Append(s, e)[i] = s[i]
           /\ Append(s, e)[Len(s) + 1] = e
  BY SMT

LEMMA TailFacts ==
    ASSUME NEW S, NEW s \in Seq(S), s # <<>>
    PROVE  /\ Tail(s) \in Seq(S)
           /\ Len(Tail(s)) = Len(s) - 1
           /\ \A i \in 1..Len(Tail(s)) : i + 1 \in 1..Len(s) /\ Tail(s)[i] = s[i + 1]
           /\ Head(s) = s[1] /\ Head(s) \in S /\ Len(s) > 0 /\ Len(s) \in Nat
  BY SMT

-----------------------------------------------------------------------------
(* Ending a command *)

\* A handler has returned, or a stream's handler has its outcome to forward.
Ended(c) ==
    /\ where' \in [Calls -> {"new", "sending", "queued", "actor", "finished"}]
    /\ answer' \in [Calls -> Answer \cup {NoAnswer}]
    /\ item' \in Frame
    /\ \/ pc' = "recv" /\ cur' = None
       \/ pc' = "forward" /\ cur' = c /\ kind[c] = "stream" /\ item'.f \in Outcomes

LEMMA ReturnsEnded ==
    ASSUME CallTypes, ActorTypes, NEW c \in Calls, HandlerReturns(c),
           UNCHANGED answer, item' \in Frame
    PROVE  Ended(c)
  BY DEF CallTypes, HandlerReturns, Ended

LEMMA SettleEnded ==
    ASSUME CallTypes, ActorTypes, NEW c \in Calls, NEW o \in Outcomes,
           NEW t \in Calls \cup {None}, Settle(c, o, t)
    PROVE  Ended(c)
<1>1. CASE kind[c] = "stream"
  BY <1>1, SMT DEF CallTypes, ActorTypes, Settle, Ended, Frame
<1>2. CASE kind[c] # "stream"
  <2>1. [out |-> o, tag |-> t] \in Answer
    BY DEF Answer
  <2> QED
    BY <1>2, <2>1 DEF CallTypes, ActorTypes, Settle, HandlerReturns, Reply, Ended
<1> QED
  BY <1>1, <1>2

LEMMA NoFrameType == NoFrame \in Frame
  BY DEF NoFrame, Frame, Outcomes

-----------------------------------------------------------------------------
(* Layer 1 *)

LEMMA UpMadeAppend ==
    ASSUME SocketTypes, UpMade, NEW w \in UpMessage, MessageMade(w),
           up' = Append(up, w), UNCHANGED <<kind, caller>>
    PROVE  UpMade'
<1>1. /\ Len(up') = Len(up) + 1 /\ Len(up) \in Nat
      /\ \A i \in 1..Len(up) : up'[i] = up[i]
      /\ up'[Len(up) + 1] = w
  BY AppendFacts, SMT DEF SocketTypes
<1> SUFFICES ASSUME NEW i \in 1..Len(up') PROVE MessageMade(up[i])'
  BY DEF UpMade
<1>2. CASE i \in 1..Len(up)
  BY <1>1, <1>2 DEF UpMade, MessageMade, IsRequest, Made
<1>3. CASE i = Len(up) + 1
  BY <1>1, <1>3 DEF MessageMade, IsRequest, Made
<1> QED
  BY <1>1, <1>2, <1>3, SMT

LEMMA UpMadeTail ==
    ASSUME SocketTypes, UpMade, up # <<>>, up' = Tail(up), UNCHANGED <<kind, caller>>
    PROVE  UpMade'
<1>1. \A i \in 1..Len(up') : i + 1 \in 1..Len(up) /\ up'[i] = up[i + 1]
  BY TailFacts DEF SocketTypes
<1> QED
  BY <1>1, SMT DEF UpMade, MessageMade, IsRequest, Made

LEMMA UpMadeFrame ==
    ASSUME CallTypes, UpMade, UNCHANGED <<up, kind>>,
           \A d \in Calls : caller[d] # "new" => caller'[d] # "new"
    PROVE  UpMade'
  BY DEF UpMade, MessageMade, IsRequest, Made

LEMMA InitInv1 == Init => Inv1
<1> SUFFICES ASSUME Init PROVE Inv1
  OBVIOUS
<1>1. CallTypes /\ StreamTypes
  BY SMT DEF Init, CallTypes, StreamTypes
<1>2. ActorTypes
  BY NoFrameType, SMT DEF Init, ActorTypes
<1>3. FlagTypes
  BY DEF Init, FlagTypes
<1>4. SocketTypes /\ ServerTypes /\ Bounded
  BY ConstantsAssumption, SMT DEF Init, SocketTypes, ServerTypes, Bounded
<1>5. CallsMade /\ UpMade /\ Control /\ Statement
  BY SMT DEF Init, CallsMade, UpMade, Control, Statement
<1> QED
  BY <1>1, <1>2, <1>3, <1>4, <1>5 DEF Inv1, TypeOK

\* The facts of Layer 1 that are not types mention only the calls, the actor, the
\* messages on their way to the server and the statement the server works on.
LEMMA RestFrame ==
    ASSUME CallsMade, UpMade, Control, Statement, UNCHANGED <<callVars, actorVars, up>>,
           srv' # "idle" => srvTag' \in Calls
    PROVE  CallsMade' /\ UpMade' /\ Control' /\ Statement'
<1>1. CallsMade'
  BY DEF CallsMade, Made, callVars, actorVars
<1>2. UpMade'
  BY DEF UpMade, MessageMade, IsRequest, Made, callVars
<1>3. Control'
  BY DEF Control, callVars, actorVars
<1>4. Statement'
  BY DEF Statement, callVars, actorVars
<1> QED
  BY <1>1, <1>2, <1>3, <1>4

\* pkt_rx.recv: what the actor takes is a packet, and the channel keeps its bound.
LEMMA ConsumeFacts ==
    ASSUME SocketTypes, Consume
    PROVE  /\ Head(pipe) \in Packet /\ Head(pipe).tag \in Calls \cup {None}
           /\ Head(pipe).n \in Nat
           /\ pipe' \in Seq(Packet) /\ buffered' \in Nat /\ buffered' <= Len(pipe')
           /\ buffered' <= PacketCapacity /\ reader' = reader
<1>1. /\ pipe \in Seq(Packet) /\ buffered \in Nat /\ buffered <= Len(pipe)
      /\ buffered <= PacketCapacity /\ buffered > 0
      /\ pipe' = Tail(pipe) /\ buffered' = buffered - 1 /\ reader' = reader
  BY DEF SocketTypes, Consume
<1>2. pipe # <<>>
  BY <1>1, SMT
<1>3. /\ Head(pipe) \in Packet /\ Tail(pipe) \in Seq(Packet)
      /\ Len(Tail(pipe)) = Len(pipe) - 1 /\ Len(pipe) \in Nat
  BY <1>1, <1>2, TailFacts
<1>4. Head(pipe).tag \in Calls \cup {None} /\ Head(pipe).n \in Nat
  BY <1>3 DEF Packet
<1>5. buffered' \in Nat /\ buffered' <= Len(pipe') /\ buffered' <= PacketCapacity
  BY <1>1, <1>3, ConstantsAssumption, SMT
<1> QED
  BY <1>1, <1>3, <1>4, <1>5

LEMMA SubmitInv1 ==
    ASSUME Inv1, NEW c \in Calls, NEW k \in Kinds, Submit(c, k)
    PROVE  Inv1'
<1> USE ConstantsAssumption DEF Inv1, TypeOK
<1>1. CallTypes'
  BY DEF CallTypes, Submit
<1>2. ActorTypes' /\ FlagTypes' /\ SocketTypes' /\ StreamTypes' /\ ServerTypes'
  BY ActorFrame, FlagFrame, SocketFrame, StreamFrame, ServerFrame DEF Submit, socketVars
<1>3. Bounded'
  BY BoundFrame DEF Submit, boundVars, actorVars, streamVars
<1>4. CallsMade'
  BY DEF Submit, CallTypes, ActorTypes, SocketTypes, CallsMade, Made, callVars, actorVars,
         readerVars, streamVars, serverVars
<1>5. UpMade'
  BY DEF Submit, CallTypes, ActorTypes, SocketTypes, UpMade, MessageMade, CallsMade, Made,
         IsRequest, callVars, actorVars, readerVars, streamVars, serverVars
<1>6. Control'
  BY DEF Submit, CallTypes, ActorTypes, SocketTypes, CallsMade, Made, Control, callVars,
         actorVars, readerVars, streamVars, serverVars
<1>7. Statement'
  BY DEF Submit, CallTypes, ActorTypes, SocketTypes, CallsMade, Made, Control, Statement,
         callVars, actorVars, readerVars, streamVars, serverVars
<1> QED
  BY <1>1, <1>2, <1>3, <1>4, <1>5, <1>6, <1>7

LEMMA EnqueueInv1 ==
    ASSUME Inv1, NEW c \in Calls, Enqueue(c)
    PROVE  Inv1'
<1> USE ConstantsAssumption DEF Inv1, TypeOK
<1>1. /\ Len(queue') = Len(queue) + 1
      /\ \A i \in 1..Len(queue) : queue'[i] = queue[i]
      /\ queue'[Len(queue) + 1] = c
  BY AppendFacts, SMT DEF Enqueue, ActorTypes
<1>2. Made(c)
  BY DEF Enqueue, Made, CallTypes, CallsMade
<1>3. CallTypes'
  BY DEF CallTypes, Enqueue
<1>4. ActorTypes'
  BY SMT DEF ActorTypes, Enqueue
<1>5. Bounded'
  BY SMT DEF ActorTypes, Bounded, Enqueue, streamVars
<1>6. FlagTypes' /\ SocketTypes' /\ StreamTypes' /\ ServerTypes'
  BY FlagFrame, SocketFrame, StreamFrame, ServerFrame DEF Enqueue, socketVars
<1>7. CallsMade'
  BY <1>1, <1>2, SMT
     DEF Enqueue, CallTypes, ActorTypes, SocketTypes, CallsMade, Made, callVars, actorVars,
         readerVars, streamVars, serverVars
<1>8. UpMade'
  BY <1>1, <1>2
     DEF Enqueue, CallTypes, ActorTypes, SocketTypes, UpMade, MessageMade, CallsMade, Made,
         IsRequest, callVars, actorVars, readerVars, streamVars, serverVars
<1>9. Control'
  BY <1>1, <1>2
     DEF Enqueue, CallTypes, ActorTypes, SocketTypes, CallsMade, Made, Control, callVars,
         actorVars, readerVars, streamVars, serverVars
<1>10. Statement'
  BY <1>1, <1>2
     DEF Enqueue, CallTypes, ActorTypes, SocketTypes, CallsMade, Made, Control, Statement,
         callVars, actorVars, readerVars, streamVars, serverVars
<1> QED
  BY <1>3, <1>4, <1>5, <1>6, <1>7, <1>8, <1>9, <1>10

LEMMA SendClosedInv1 ==
    ASSUME Inv1, NEW c \in Calls, SendClosed(c)
    PROVE  Inv1'
<1> USE ConstantsAssumption DEF Inv1, TypeOK
<1>1. [out |-> "closed", tag |-> None] \in Answer
  BY DEF Answer, Outcomes
<1>2. CallTypes'
  BY <1>1 DEF CallTypes, SendClosed
<1>3. ActorTypes' /\ FlagTypes' /\ SocketTypes' /\ StreamTypes' /\ ServerTypes'
  BY ActorFrame, FlagFrame, SocketFrame, StreamFrame, ServerFrame
     DEF SendClosed, socketVars
<1>4. Bounded'
  BY BoundFrame DEF SendClosed, boundVars, actorVars, streamVars
<1>5. CallsMade'
  BY DEF SendClosed, CallTypes, ActorTypes, SocketTypes, CallsMade, Made, callVars, actorVars,
         readerVars, streamVars, serverVars
<1>6. UpMade'
  BY DEF SendClosed, CallTypes, ActorTypes, SocketTypes, UpMade, MessageMade, CallsMade, Made,
         IsRequest, callVars, actorVars, readerVars, streamVars, serverVars
<1>7. Control'
  BY DEF SendClosed, CallTypes, ActorTypes, SocketTypes, CallsMade, Made, Control, callVars,
         actorVars, readerVars, streamVars, serverVars
<1>8. Statement'
  BY DEF SendClosed, CallTypes, ActorTypes, SocketTypes, CallsMade, Made, Control, Statement,
         callVars, actorVars, readerVars, streamVars, serverVars
<1> QED
  BY <1>2, <1>3, <1>4, <1>5, <1>6, <1>7, <1>8

LEMMA ReturnInv1 ==
    ASSUME Inv1, NEW c \in Calls, Return(c)
    PROVE  Inv1'
<1> USE ConstantsAssumption DEF Inv1, TypeOK
<1>1. kind' = kind /\ \A d \in Calls : caller[d] # "new" => caller'[d] # "new"
  BY DEF Return, CallTypes
<1>2. CallTypes'
  BY DEF CallTypes, Return
<1>3. FlagTypes'
  BY DEF FlagTypes, Return, PoisonOnDrop
<1>4. ActorTypes' /\ SocketTypes' /\ StreamTypes' /\ ServerTypes'
  BY ActorFrame, SocketFrame, StreamFrame, ServerFrame
     DEF Return, PoisonOnDrop, socketVars
<1>5. Bounded'
  BY BoundFrame DEF Return, PoisonOnDrop, boundVars, actorVars, streamVars
<1>6. CallsMade'
  BY <1>1
     DEF Return, CallTypes, CallsMade, Made, callVars, actorVars, readerVars, streamVars,
         serverVars
<1>7. UpMade'
  BY <1>1
     DEF Return, CallTypes, UpMade, MessageMade, CallsMade, Made, IsRequest, callVars,
         actorVars, readerVars, streamVars, serverVars
<1>8. Control'
  BY <1>1
     DEF Return, CallTypes, CallsMade, Made, Control, callVars, actorVars, readerVars,
         streamVars, serverVars
<1>9. Statement'
  BY <1>1
     DEF Return, CallTypes, CallsMade, Made, Control, Statement, callVars, actorVars,
         readerVars, streamVars, serverVars
<1> QED
  BY <1>2, <1>3, <1>4, <1>5, <1>6, <1>7, <1>8, <1>9

LEMMA DropInv1 ==
    ASSUME Inv1, NEW c \in Calls, Drop(c)
    PROVE  Inv1'
<1> USE ConstantsAssumption DEF Inv1, TypeOK
<1>1. kind' = kind /\ \A d \in Calls : caller[d] # "new" => caller'[d] # "new"
  BY DEF Drop, CallTypes
<1>2. CallTypes'
  BY DEF CallTypes, Drop
<1>3. FlagTypes'
  BY DEF FlagTypes, Drop, PoisonOnDrop
<1>4. ActorTypes' /\ SocketTypes' /\ StreamTypes' /\ ServerTypes'
  BY ActorFrame, SocketFrame, StreamFrame, ServerFrame DEF Drop, PoisonOnDrop, socketVars
<1>5. Bounded'
  BY BoundFrame DEF Drop, PoisonOnDrop, boundVars, actorVars, streamVars
<1>6. CallsMade'
  BY <1>1
     DEF Drop, CallTypes, CallsMade, Made, callVars, actorVars, readerVars, streamVars,
         serverVars
<1>7. UpMade'
  BY <1>1
     DEF Drop, CallTypes, UpMade, MessageMade, CallsMade, Made, IsRequest, callVars,
         actorVars, readerVars, streamVars, serverVars
<1>8. Control'
  BY <1>1
     DEF Drop, CallTypes, CallsMade, Made, Control, callVars, actorVars, readerVars,
         streamVars, serverVars
<1>9. Statement'
  BY <1>1
     DEF Drop, CallTypes, CallsMade, Made, Control, Statement, callVars, actorVars,
         readerVars, streamVars, serverVars
<1> QED
  BY <1>2, <1>3, <1>4, <1>5, <1>6, <1>7, <1>8, <1>9

LEMMA CursorNextInv1 ==
    ASSUME Inv1, NEW c \in Calls, CursorNext(c)
    PROVE  Inv1'
<1> USE ConstantsAssumption DEF Inv1, TypeOK
<1>1. frames[c] # <<>> => /\ Head(frames[c]) \in Frame
                            /\ Tail(frames[c]) \in Seq(Frame)
                            /\ Len(Tail(frames[c])) = Len(frames[c]) - 1
  BY TailFacts DEF StreamTypes
<1>2. /\ [out |-> "dropped", tag |-> None] \in Answer
      /\ \A f \in Frame : f.n \in Nat /\ (f.f \in Outcomes => [out |-> f.f, tag |-> f.tag] \in Answer)
  BY DEF Answer, Frame, Outcomes
<1>3. \/ frames' = frames /\ delivered' = delivered
      \/ /\ frames[c] # <<>> /\ frames' = [frames EXCEPT ![c] = Tail(frames[c])]
         /\ \/ delivered' = delivered
            \/ delivered' = [delivered EXCEPT ![c] = Append(delivered[c], Head(frames[c]).n)]
  BY DEF CursorNext, streamVars
<1>4. frames[c] # <<>> => Append(delivered[c], Head(frames[c]).n) \in Seq(Nat)
  BY <1>1, <1>2, AppendFacts DEF StreamTypes
<1>5. \A d \in Calls : Len(frames'[d]) <= StreamCapacity
  <2> SUFFICES ASSUME NEW d \in Calls PROVE Len(frames'[d]) <= StreamCapacity
    OBVIOUS
  <2>1. Len(frames[d]) \in Nat /\ Len(frames[d]) <= StreamCapacity
    BY SMT DEF Bounded, StreamTypes
  <2>2. CASE frames'[d] = frames[d]
    BY <2>1, <2>2
  <2>3. CASE frames'[d] # frames[d]
    <3>1. d = c /\ frames[c] # <<>> /\ frames'[d] = Tail(frames[c])
      BY <1>3, <2>3 DEF StreamTypes
    <3> QED
      BY <2>1, <3>1, <1>1, SMT
  <2> QED
    BY <2>2, <2>3
<1>6. CallTypes'
  BY <1>1, <1>2, SMT DEF CallTypes, CursorNext
<1>7. StreamTypes'
  BY <1>1, <1>3, <1>4 DEF StreamTypes
<1>8. Bounded'
  BY <1>5 DEF Bounded, CursorNext, actorVars
<1>9. ActorTypes' /\ FlagTypes' /\ SocketTypes' /\ ServerTypes'
  BY ActorFrame, FlagFrame, SocketFrame, ServerFrame DEF CursorNext, socketVars
<1>10. CallsMade'
  BY DEF CursorNext, CallTypes, ActorTypes, SocketTypes, CallsMade, Made, callVars, actorVars,
         readerVars, streamVars, serverVars
<1>11. UpMade'
  BY DEF CursorNext, CallTypes, ActorTypes, SocketTypes, UpMade, MessageMade, CallsMade, Made,
         IsRequest, callVars, actorVars, readerVars, streamVars, serverVars
<1>12. Control'
  BY DEF CursorNext, CallTypes, ActorTypes, SocketTypes, CallsMade, Made, Control, callVars,
         actorVars, readerVars, streamVars, serverVars
<1>13. Statement'
  BY DEF CursorNext, CallTypes, ActorTypes, SocketTypes, CallsMade, Made, Control, Statement,
         callVars, actorVars, readerVars, streamVars, serverVars
<1> QED
  BY <1>6, <1>7, <1>8, <1>9, <1>10, <1>11, <1>12, <1>13

LEMMA RequestShutdownInv1 ==
    ASSUME Inv1, RequestShutdown
    PROVE  Inv1'
<1> USE ConstantsAssumption DEF Inv1, TypeOK
<1>1. FlagTypes'
  BY DEF FlagTypes, RequestShutdown
<1>2. CallTypes' /\ ActorTypes' /\ SocketTypes' /\ StreamTypes' /\ ServerTypes'
  BY CallFrame, ActorFrame, SocketFrame, StreamFrame, ServerFrame
     DEF RequestShutdown, socketVars
<1>3. Bounded'
  BY BoundFrame DEF RequestShutdown, boundVars, actorVars, streamVars
<1>4. CallsMade'
  BY DEF RequestShutdown, CallTypes, ActorTypes, SocketTypes, CallsMade, Made, callVars,
         actorVars, readerVars, streamVars, serverVars
<1>5. UpMade'
  BY DEF RequestShutdown, CallTypes, ActorTypes, SocketTypes, UpMade, MessageMade, CallsMade,
         Made, IsRequest, callVars, actorVars, readerVars, streamVars, serverVars
<1>6. Control'
  BY DEF RequestShutdown, CallTypes, ActorTypes, SocketTypes, CallsMade, Made, Control,
         callVars, actorVars, readerVars, streamVars, serverVars
<1>7. Statement'
  BY DEF RequestShutdown, CallTypes, ActorTypes, SocketTypes, CallsMade, Made, Control,
         Statement, callVars, actorVars, readerVars, streamVars, serverVars
<1> QED
  BY <1>1, <1>2, <1>3, <1>4, <1>5, <1>6, <1>7

LEMMA HandleInv1 ==
    ASSUME Inv1, NEW c \in Calls, Handle(c)
    PROVE  Inv1'
<1> USE ConstantsAssumption DEF Inv1, TypeOK
<1>1. /\ queue' \in Seq(Calls) /\ Len(queue') = Len(queue) - 1
      /\ \A i \in 1..Len(queue') : i + 1 \in 1..Len(queue) /\ queue'[i] = queue[i + 1]
      /\ c = queue[1] /\ Len(queue) \in Nat /\ Len(queue) > 0
  BY TailFacts DEF Handle, ActorTypes
<1>2. Made(c)
  BY <1>1, SMT DEF CallsMade
<1>3. Ended(c) \/ ~Refuses(c)
  BY SettleEnded DEF Handle, Outcomes
<1>4. ~Refuses(c) =>
        /\ cur' = c /\ answer' = answer /\ item' = item
        /\ where' \in [Calls -> {"new", "sending", "queued", "actor", "finished"}]
        /\ \/ kind[c] = "block" /\ pc' = "peek" /\ state = "InsertActive" /\ tag' = tag /\ out' = out
           \/ kind[c] = "finish" /\ pc' = "write" /\ state = "InsertActive" /\ tag' = tag /\ out' = "Empty"
           \/ kind[c] = "ping" /\ pc' = "write" /\ state = "Idle" /\ tag' = c /\ out' = "Ping"
           \/ /\ kind[c] \in {"query", "begin", "stream"} /\ pc' = "write" /\ state = "Idle"
              /\ tag' = c /\ out' = "Query"
  BY <1>2
     DEF Handle, Refuses, StateGate, Oversize, InsertContinuation, FirstWrite, Made,
         CallTypes, ActorTypes, AllKinds
<1>5. /\ kind' = kind /\ caller' = caller /\ state' = state /\ (Refuses(c) => tag' = tag /\ out' = out)
  BY DEF Handle
<1>6. CallTypes'
  BY <1>3, <1>4, <1>5 DEF CallTypes, Ended
<1>7. ActorTypes'
  BY <1>1, <1>3, <1>4, <1>5 DEF ActorTypes, Ended
<1>8. Bounded'
  BY <1>1, SMT DEF Bounded, Handle, ActorTypes, streamVars
<1>9. FlagTypes' /\ SocketTypes' /\ StreamTypes' /\ ServerTypes'
  BY FlagFrame, SocketFrame, StreamFrame, ServerFrame DEF Handle, socketVars
<1>10. CallsMade'
  BY <1>1, <1>2, <1>3, <1>4, <1>5, SMT DEF CallsMade, Made, Ended, Handle, serverVars
<1>11. UpMade'
  BY UpMadeFrame DEF Handle
<1>12. Control'
  BY <1>2, <1>3, <1>4, <1>5 DEF Control, Ended, Made
<1>13. Statement'
  BY <1>2, <1>3, <1>4, <1>5 DEF Statement, Ended, Made, InsertContinuation
<1> QED
  BY <1>6, <1>7, <1>8, <1>9, <1>10, <1>11, <1>12, <1>13

LEMMA StopInv1 ==
    ASSUME Inv1, Stop
    PROVE  Inv1'
<1> USE ConstantsAssumption DEF Inv1, TypeOK
<1>1. ActorTypes'
  BY DEF ActorTypes, Stop
<1>2. CallTypes' /\ FlagTypes' /\ SocketTypes' /\ StreamTypes' /\ ServerTypes'
  BY CallFrame, FlagFrame, SocketFrame, StreamFrame, ServerFrame DEF Stop, socketVars
<1>3. Bounded'
  BY BoundFrame DEF Stop, boundVars, streamVars
<1>4. CallsMade'
  BY DEF Stop, CallTypes, ActorTypes, SocketTypes, CallsMade, Made, callVars, actorVars,
         readerVars, streamVars, serverVars
<1>5. UpMade'
  BY DEF Stop, CallTypes, ActorTypes, SocketTypes, UpMade, MessageMade, CallsMade, Made,
         IsRequest, callVars, actorVars, readerVars, streamVars, serverVars
<1>6. Control'
  BY DEF Stop, CallTypes, ActorTypes, SocketTypes, CallsMade, Made, Control, callVars,
         actorVars, readerVars, streamVars, serverVars
<1>7. Statement'
  BY DEF Stop, CallTypes, ActorTypes, SocketTypes, CallsMade, Made, Control, Statement,
         callVars, actorVars, readerVars, streamVars, serverVars
<1> QED
  BY <1>1, <1>2, <1>3, <1>4, <1>5, <1>6, <1>7

LEMMA ExitInv1 ==
    ASSUME Inv1, Exit
    PROVE  Inv1'
<1> USE ConstantsAssumption DEF Inv1, TypeOK
<1>1. [out |-> "dropped", tag |-> None] \in Answer
  BY DEF Answer, Outcomes
<1>2. CallTypes'
  BY <1>1 DEF CallTypes, Exit
<1>3. ActorTypes'
  BY SMT DEF ActorTypes, Exit
<1>4. SocketTypes'
  BY DEF SocketTypes, Exit
<1>5. Bounded'
  BY SMT DEF Bounded, Exit, streamVars
<1>6. FlagTypes' /\ StreamTypes' /\ ServerTypes'
  BY FlagFrame, StreamFrame, ServerFrame DEF Exit
<1>7. CallsMade'
  BY SMT DEF Exit, CallTypes, CallsMade, Made, callVars, actorVars, readerVars, streamVars,
         serverVars
<1>8. UpMade'
  BY DEF Exit, CallTypes, UpMade, MessageMade, CallsMade, Made, IsRequest, callVars,
         actorVars, readerVars, streamVars, serverVars
<1>9. Control'
  BY DEF Exit, CallTypes, CallsMade, Made, Control, callVars, actorVars, readerVars,
         streamVars, serverVars
<1>10. Statement'
  BY DEF Exit, CallTypes, CallsMade, Made, Control, Statement, callVars, actorVars,
         readerVars, streamVars, serverVars
<1> QED
  BY <1>2, <1>3, <1>4, <1>5, <1>6, <1>7, <1>8, <1>9, <1>10

LEMMA WriteDoneInv1 ==
    ASSUME Inv1, WriteDone
    PROVE  Inv1'
<1> USE ConstantsAssumption DEF Inv1, TypeOK
<1>1. cur \in Calls /\ Made(cur)
  BY DEF WriteDone, CallsMade, Made
<1>2. Written \in UpMessage
  BY <1>1 DEF Written, UpMessage, WriteDone, ActorTypes, Control
<1>3. /\ Append(up, Written) \in Seq(UpMessage) /\ Len(Append(up, Written)) = Len(up) + 1 /\ Len(up) \in Nat
      /\ \A i \in 1..Len(up) : Append(up, Written)[i] = up[i]
      /\ Append(up, Written)[Len(up) + 1] = Written
  BY <1>2, AppendFacts, SMT DEF SocketTypes
<1>4. Written.m = out /\ Written.tag = tag /\ Written.call = cur
  BY DEF Written
<1>5. MessageMade(Written)
  BY <1>1, <1>4
     DEF WriteDone, MessageMade, IsRequest, Control, Statement, InsertContinuation
<1>6. out = "Data" => Ended(cur)
  BY <1>1, SettleEnded DEF WriteDone, Outcomes, ActorTypes
<1>7. out # "Data" => /\ pc' = IF out \in {"Query", "Ping"} THEN "read" ELSE "drain"
                     /\ cur' = cur /\ item' = item /\ where' = where /\ answer' = answer
  BY DEF WriteDone
<1>8. /\ kind' = kind /\ caller' = caller /\ tag' = tag /\ state' = state /\ queue' = queue /\ out' = "none"
      /\ up' = Append(up, Written)
  BY DEF WriteDone
<1>9. CallTypes'
  BY <1>6, <1>7, <1>8 DEF CallTypes, Ended
<1>10. ActorTypes'
  BY <1>6, <1>7, <1>8 DEF ActorTypes, Ended
<1>11. SocketTypes'
  BY <1>3 DEF SocketTypes, WriteDone, readerVars
<1>12. Bounded'
  BY <1>3, SMT DEF Bounded, WriteDone, streamVars
<1>13. FlagTypes' /\ StreamTypes' /\ ServerTypes'
  BY FlagFrame, StreamFrame, ServerFrame DEF WriteDone
<1>14. CallsMade'
  BY <1>1, <1>6, <1>7, <1>8 DEF CallsMade, Made, Ended, WriteDone, serverVars
<1>15. UpMade'
  BY <1>2, <1>5, <1>8, UpMadeAppend
<1>16. Control'
  BY <1>6, <1>7, <1>8 DEF Control, Ended, WriteDone
<1>17. Statement'
  BY <1>6, <1>7, <1>8 DEF Statement, Ended, WriteDone
<1> QED
  BY <1>9, <1>10, <1>11, <1>12, <1>13, <1>14, <1>15, <1>16, <1>17

LEMMA WriteFailsInv1 ==
    ASSUME Inv1, WriteFails
    PROVE  Inv1'
<1> USE ConstantsAssumption DEF Inv1, TypeOK
<1>1. cur \in Calls /\ Made(cur)
  BY DEF WriteFails, CallsMade, Made
<1>2. Written \in UpMessage
  BY <1>1 DEF Written, UpMessage, WriteFails, ActorTypes, Control
<1>3. /\ Append(up, Written) \in Seq(UpMessage) /\ Len(Append(up, Written)) = Len(up) + 1 /\ Len(up) \in Nat
      /\ \A i \in 1..Len(up) : Append(up, Written)[i] = up[i]
      /\ Append(up, Written)[Len(up) + 1] = Written
  BY <1>2, AppendFacts, SMT DEF SocketTypes
<1>4. Written.m = out /\ Written.tag = tag /\ Written.call = cur
  BY DEF Written
<1>5. MessageMade(Written)
  BY <1>1, <1>4
     DEF WriteFails, MessageMade, IsRequest, Control, Statement, InsertContinuation
<1>6. Ended(cur)
  BY <1>1, SettleEnded, ReturnsEnded DEF WriteFails, Outcomes, ActorTypes
<1>7. /\ kind' = kind /\ caller' = caller /\ tag' = tag /\ queue' = queue /\ out' = "none"
      /\ state' \in {"Idle", "InsertActive"}
      /\ up' = up \/ (up' = Append(up, Written) /\ Len(up) < UpCapacity)
  BY DEF WriteFails, ActorTypes
<1>8. CallTypes'
  BY <1>6, <1>7 DEF CallTypes, Ended
<1>9. ActorTypes'
  BY <1>6, <1>7 DEF ActorTypes, Ended
<1>10. FlagTypes'
  BY DEF FlagTypes, WriteFails
<1>11. SocketTypes'
  BY <1>3, <1>7 DEF SocketTypes, WriteFails, readerVars
<1>12. Bounded'
  BY <1>3, <1>7, SMT DEF Bounded, WriteFails, streamVars
<1>13. StreamTypes' /\ ServerTypes'
  BY StreamFrame, ServerFrame DEF WriteFails
<1>14. CallsMade'
  BY <1>1, <1>6, <1>7 DEF CallsMade, Made, Ended, WriteFails, serverVars
<1>15. UpMade'
  BY <1>2, <1>5, <1>7, UpMadeAppend, UpMadeFrame
<1>16. Control'
  BY <1>6, <1>7 DEF Control, Ended
<1>17. Statement'
  BY <1>6, <1>7 DEF Statement, Ended
<1> QED
  BY <1>8, <1>9, <1>10, <1>11, <1>12, <1>13, <1>14, <1>15, <1>16, <1>17

LEMMA PeekPacketInv1 ==
    ASSUME Inv1, PeekPacket
    PROVE  Inv1'
<1> USE ConstantsAssumption DEF Inv1, TypeOK
<1>1. cur \in Calls /\ Made(cur)
  BY DEF PeekPacket, CallsMade, Made
<1>2. /\ Head(pipe) \in Packet /\ Head(pipe).tag \in Calls \cup {None} /\ Head(pipe).n \in Nat
      /\ pipe' \in Seq(Packet) /\ buffered' \in Nat /\ buffered' <= Len(pipe') /\ buffered' <= PacketCapacity
      /\ reader' = reader
  BY ConsumeFacts DEF PeekPacket
<1>3. Ended(cur) \/ UNCHANGED <<pc, cur, item, where, answer, state>>
  BY <1>1, <1>2, SettleEnded DEF PeekPacket, Outcomes
<1>4. /\ kind' = kind /\ caller' = caller /\ tag' = tag /\ queue' = queue /\ out' = out /\ state' \in {"Idle", "InsertActive"}
      /\ srv' = srv /\ srvTag' = srvTag
  BY DEF PeekPacket, ActorTypes, serverVars
<1>5. CallTypes'
  BY <1>1, <1>3, <1>4 DEF CallTypes, Ended
<1>6. ActorTypes'
  BY <1>1, <1>3, <1>4 DEF ActorTypes, Ended
<1>7. SocketTypes'
  BY <1>2 DEF PeekPacket, SocketTypes
<1>8. FlagTypes' /\ StreamTypes' /\ ServerTypes'
  BY FlagFrame, StreamFrame, ServerFrame DEF PeekPacket
<1>9. Bounded'
  BY BoundFrame DEF PeekPacket, boundVars, streamVars
<1>10. CallsMade'
  BY <1>1, <1>1, <1>3, <1>4 DEF CallsMade, Made, Ended
<1>11. UpMade'
  BY UpMadeFrame DEF PeekPacket
<1>12. Control'
  BY <1>1, <1>3, <1>4 DEF Control, Ended
<1>13. Statement'
  BY <1>1, <1>3, <1>4 DEF Statement, Ended
<1> QED
  BY <1>5, <1>6, <1>7, <1>8, <1>9, <1>10, <1>11, <1>12, <1>13

LEMMA PeekDeadInv1 ==
    ASSUME Inv1, PeekDead
    PROVE  Inv1'
<1> USE ConstantsAssumption DEF Inv1, TypeOK
<1>1. cur \in Calls /\ Made(cur)
  BY DEF PeekDead, CallsMade, Made
<1>2. Ended(cur)
  BY <1>1, SettleEnded DEF PeekDead, Outcomes
<1>3. /\ kind' = kind /\ caller' = caller /\ tag' = tag /\ queue' = queue /\ out' = out /\ state' \in {"Idle", "InsertActive"}
      /\ srv' = srv /\ srvTag' = srvTag
  BY DEF PeekDead, ActorTypes, serverVars
<1>4. CallTypes'
  BY <1>1, <1>2, <1>3 DEF CallTypes, Ended
<1>5. ActorTypes'
  BY <1>1, <1>2, <1>3 DEF ActorTypes, Ended
<1>6. FlagTypes'
  BY DEF FlagTypes, PeekDead
<1>7. SocketTypes'
  BY DEF SocketTypes, PeekDead, ReaderDead
<1>8. StreamTypes' /\ ServerTypes'
  BY StreamFrame, ServerFrame DEF PeekDead
<1>9. Bounded'
  BY BoundFrame DEF PeekDead, boundVars, streamVars
<1>10. CallsMade'
  BY <1>1, <1>1, <1>2, <1>3 DEF CallsMade, Made, Ended
<1>11. UpMade'
  BY UpMadeFrame DEF PeekDead
<1>12. Control'
  BY <1>1, <1>2, <1>3 DEF Control, Ended
<1>13. Statement'
  BY <1>1, <1>2, <1>3 DEF Statement, Ended
<1> QED
  BY <1>4, <1>5, <1>6, <1>7, <1>8, <1>9, <1>10, <1>11, <1>12, <1>13

LEMMA PeekEmptyInv1 ==
    ASSUME Inv1, PeekEmpty
    PROVE  Inv1'
<1> USE ConstantsAssumption DEF Inv1, TypeOK
<1>1. ActorTypes'
  BY DEF ActorTypes, PeekEmpty
<1>2. CallTypes' /\ FlagTypes' /\ SocketTypes' /\ StreamTypes' /\ ServerTypes'
  BY CallFrame, FlagFrame, SocketFrame, StreamFrame, ServerFrame
     DEF PeekEmpty, socketVars
<1>3. Bounded'
  BY BoundFrame DEF PeekEmpty, boundVars, streamVars
<1>4. CallsMade'
  BY DEF PeekEmpty, InsertContinuation, CallTypes, ActorTypes, SocketTypes, CallsMade, Made,
         callVars, actorVars, readerVars, streamVars, serverVars
<1>5. UpMade'
  BY DEF PeekEmpty, InsertContinuation, CallTypes, ActorTypes, SocketTypes, UpMade,
         MessageMade, CallsMade, Made, IsRequest, callVars, actorVars, readerVars, streamVars,
         serverVars
<1>6. Control'
  BY DEF PeekEmpty, InsertContinuation, CallTypes, ActorTypes, SocketTypes, CallsMade, Made,
         Control, callVars, actorVars, readerVars, streamVars, serverVars
<1>7. Statement'
  BY DEF PeekEmpty, InsertContinuation, CallTypes, ActorTypes, SocketTypes, CallsMade, Made,
         Control, Statement, callVars, actorVars, readerVars, streamVars, serverVars
<1> QED
  BY <1>1, <1>2, <1>3, <1>4, <1>5, <1>6, <1>7

LEMMA ReadPacketInv1 ==
    ASSUME Inv1, ReadPacket
    PROVE  Inv1'
<1> USE ConstantsAssumption DEF Inv1, TypeOK
<1>1. cur \in Calls /\ Made(cur)
  BY DEF ReadPacket, CallsMade, Made
<1>2. /\ Head(pipe) \in Packet /\ Head(pipe).tag \in Calls \cup {None} /\ Head(pipe).n \in Nat
      /\ pipe' \in Seq(Packet) /\ buffered' \in Nat /\ buffered' <= Len(pipe') /\ buffered' <= PacketCapacity
      /\ reader' = reader
  BY ConsumeFacts DEF ReadPacket
<1>3. \/ Ended(cur)
      \/ UNCHANGED <<pc, cur, item, where, answer, state>>
      \/ /\ pc' = "forward" /\ cur' = cur /\ where' = where /\ answer' = answer /\ state' = state
         /\ item' \in Frame /\ item'.f \notin Outcomes /\ kind[cur] = "stream" /\ state = "Idle" /\ pc = "read"
  <2> DEFINE o == ReadOutcome(kind[cur], Head(pipe))
  <2>1. CASE o = "ignore"
    BY <2>1 DEF ReadPacket
  <2>2. CASE o \in {"block", "other"}
    <3>1. kind[cur] = "stream" /\ state = "Idle"
      BY <2>2 DEF ReadPacket, ReadOutcome, PingOutcome, QueryOutcome,
         BeginOutcome, StreamOutcome, Control
    <3>2. /\ pc' = "forward" /\ cur' = cur /\ where' = where /\ answer' = answer
          /\ item' = [f |-> o, tag |-> Head(pipe).tag, n |-> Head(pipe).n]
      BY <2>2 DEF ReadPacket
    <3>3. state' = state
      BY <3>1 DEF ReadPacket
    <3> HIDE DEF o
    <3>4. item' \in Frame /\ item'.f \notin Outcomes
      BY <2>2, <3>2, <1>2 DEF Frame, Outcomes
    <3> QED
      BY <3>1, <3>2, <3>3, <3>4 DEF ReadPacket
  <2>3. CASE o \in {"exception", "ok", "bad", "failed"}
    <3>1. Settle(cur, o, Head(pipe).tag)
      BY <2>3 DEF ReadPacket
    <3> HIDE DEF o
    <3> QED
      BY <2>3, <3>1, <1>1, <1>2, SettleEnded DEF Outcomes
  <2> QED
    BY <2>1, <2>2, <2>3 DEF ReadOutcome, PingOutcome, QueryOutcome, BeginOutcome, StreamOutcome
<1>4. /\ kind' = kind /\ caller' = caller /\ tag' = tag /\ queue' = queue /\ out' = out /\ state' \in {"Idle", "InsertActive"}
      /\ srv' = srv /\ srvTag' = srvTag
  BY DEF ReadPacket, ActorTypes, serverVars
<1>5. CallTypes'
  BY <1>1, <1>3, <1>4 DEF CallTypes, Ended
<1>6. ActorTypes'
  BY <1>1, <1>3, <1>4 DEF ActorTypes, Ended
<1>7. FlagTypes'
  BY DEF ReadPacket, FlagTypes
<1>8. SocketTypes'
  BY <1>2 DEF ReadPacket, SocketTypes
<1>9. StreamTypes' /\ ServerTypes'
  BY StreamFrame, ServerFrame DEF ReadPacket
<1>10. Bounded'
  BY BoundFrame DEF ReadPacket, boundVars, streamVars
<1>11. CallsMade'
  BY <1>1, <1>1, <1>3, <1>4 DEF CallsMade, Made, Ended
<1>12. UpMade'
  BY UpMadeFrame DEF ReadPacket
<1>13. Control'
  BY <1>1, <1>3, <1>4 DEF Control, Ended
<1>14. Statement'
  BY <1>1, <1>3, <1>4 DEF Statement, Ended
<1> QED
  BY <1>5, <1>6, <1>7, <1>8, <1>9, <1>10, <1>11, <1>12, <1>13, <1>14

LEMMA ReadDeadInv1 ==
    ASSUME Inv1, ReadDead
    PROVE  Inv1'
<1> USE ConstantsAssumption DEF Inv1, TypeOK
<1>1. cur \in Calls /\ Made(cur)
  BY DEF ReadDead, CallsMade, Made
<1>2. Ended(cur)
  BY <1>1, SettleEnded DEF ReadDead, Outcomes
<1>3. /\ kind' = kind /\ caller' = caller /\ tag' = tag /\ queue' = queue /\ out' = out /\ state' \in {"Idle", "InsertActive"}
      /\ srv' = srv /\ srvTag' = srvTag
  BY DEF ReadDead, ActorTypes, serverVars
<1>4. CallTypes'
  BY <1>1, <1>2, <1>3 DEF CallTypes, Ended
<1>5. ActorTypes'
  BY <1>1, <1>2, <1>3 DEF ActorTypes, Ended
<1>6. FlagTypes'
  BY DEF FlagTypes, ReadDead
<1>7. SocketTypes'
  BY DEF SocketTypes, ReadDead, ReaderDead
<1>8. StreamTypes' /\ ServerTypes'
  BY StreamFrame, ServerFrame DEF ReadDead
<1>9. Bounded'
  BY BoundFrame DEF ReadDead, boundVars, streamVars
<1>10. CallsMade'
  BY <1>1, <1>1, <1>2, <1>3 DEF CallsMade, Made, Ended
<1>11. UpMade'
  BY UpMadeFrame DEF ReadDead
<1>12. Control'
  BY <1>1, <1>2, <1>3 DEF Control, Ended
<1>13. Statement'
  BY <1>1, <1>2, <1>3 DEF Statement, Ended
<1> QED
  BY <1>4, <1>5, <1>6, <1>7, <1>8, <1>9, <1>10, <1>11, <1>12, <1>13

LEMMA ReadTimesOutInv1 ==
    ASSUME Inv1, ReadTimesOut
    PROVE  Inv1'
<1> USE ConstantsAssumption DEF Inv1, TypeOK
<1>1. cur \in Calls /\ Made(cur)
  BY DEF ReadTimesOut, CallsMade, Made
<1>2. Ended(cur)
  BY <1>1, SettleEnded DEF ReadTimesOut, Outcomes
<1>3. /\ kind' = kind /\ caller' = caller /\ tag' = tag /\ queue' = queue /\ out' = out /\ state' \in {"Idle", "InsertActive"}
      /\ srv' = srv /\ srvTag' = srvTag
  BY DEF ReadTimesOut, ActorTypes, serverVars
<1>4. CallTypes'
  BY <1>1, <1>2, <1>3 DEF CallTypes, Ended
<1>5. ActorTypes'
  BY <1>1, <1>2, <1>3 DEF ActorTypes, Ended
<1>6. FlagTypes'
  BY DEF FlagTypes, ReadTimesOut
<1>7. SocketTypes' /\ StreamTypes' /\ ServerTypes'
  BY SocketFrame, StreamFrame, ServerFrame DEF ReadTimesOut, socketVars
<1>8. Bounded'
  BY BoundFrame DEF ReadTimesOut, boundVars, streamVars
<1>9. CallsMade'
  BY <1>1, <1>1, <1>2, <1>3 DEF CallsMade, Made, Ended
<1>10. UpMade'
  BY UpMadeFrame DEF ReadTimesOut
<1>11. Control'
  BY <1>1, <1>2, <1>3 DEF Control, Ended
<1>12. Statement'
  BY <1>1, <1>2, <1>3 DEF Statement, Ended
<1> QED
  BY <1>4, <1>5, <1>6, <1>7, <1>8, <1>9, <1>10, <1>11, <1>12

LEMMA ReadCancelsInv1 ==
    ASSUME Inv1, ReadCancels
    PROVE  Inv1'
<1> USE ConstantsAssumption DEF Inv1, TypeOK
<1>1. ActorTypes'
  BY DEF ActorTypes, ReadCancels, StartCancel
<1>2. CallTypes' /\ FlagTypes' /\ SocketTypes' /\ StreamTypes' /\ ServerTypes'
  BY CallFrame, FlagFrame, SocketFrame, StreamFrame, ServerFrame
     DEF ReadCancels, socketVars
<1>3. Bounded'
  BY BoundFrame DEF ReadCancels, boundVars, streamVars
<1>4. CallsMade'
  BY DEF ReadCancels, CallerGone, StartCancel, CallTypes, ActorTypes, SocketTypes, CallsMade,
         Made, callVars, actorVars, readerVars, streamVars, serverVars
<1>5. UpMade'
  BY DEF ReadCancels, CallerGone, StartCancel, CallTypes, ActorTypes, SocketTypes, UpMade,
         MessageMade, CallsMade, Made, IsRequest, callVars, actorVars, readerVars, streamVars,
         serverVars
<1>6. Control'
  BY DEF ReadCancels, CallerGone, StartCancel, CallTypes, ActorTypes, SocketTypes, CallsMade,
         Made, Control, callVars, actorVars, readerVars, streamVars, serverVars
<1>7. Statement'
  BY DEF ReadCancels, CallerGone, StartCancel, CallTypes, ActorTypes, SocketTypes, CallsMade,
         Made, Control, Statement, callVars, actorVars, readerVars, streamVars, serverVars
<1> QED
  BY <1>1, <1>2, <1>3, <1>4, <1>5, <1>6, <1>7

LEMMA ForwardInv1 ==
    ASSUME Inv1, Forward
    PROVE  Inv1'
<1> USE ConstantsAssumption DEF Inv1, TypeOK
<1>1. cur \in Calls /\ Made(cur)
  BY DEF Forward, CallsMade, Made
<1>2. Ended(cur) \/ (/\ pc' = "read" /\ cur' = cur /\ where' = where /\ answer' = answer /\ item' \in Frame
                    /\ item.f \notin Outcomes)
  BY <1>1, ReturnsEnded, NoFrameType DEF Forward
<1>3. /\ kind' = kind /\ caller' = caller /\ tag' = tag /\ queue' = queue /\ out' = out /\ state' = state
      /\ srv' = srv /\ srvTag' = srvTag
  BY DEF Forward, serverVars
<1>4. /\ Append(frames[cur], item) \in Seq(Frame)
      /\ Len(Append(frames[cur], item)) = Len(frames[cur]) + 1 /\ Len(frames[cur]) \in Nat
  BY <1>1, AppendFacts, SMT DEF StreamTypes, ActorTypes
<1>5. CallTypes'
  BY <1>1, <1>2, <1>3 DEF CallTypes, Ended
<1>6. ActorTypes'
  BY <1>1, <1>2, <1>3 DEF ActorTypes, Ended
<1>7. StreamTypes'
  BY <1>1, <1>4 DEF StreamTypes, Forward
<1>8. Bounded'
  <2>1. ASSUME NEW d \in Calls PROVE Len(frames'[d]) <= StreamCapacity
    <3>1. CASE d = cur
      BY <1>1, <1>4, <3>1, SMT DEF Forward, StreamTypes
    <3>2. CASE d # cur
      BY <1>1, <3>2 DEF Forward, StreamTypes, Bounded
    <3> QED
      BY <3>1, <3>2
  <2> QED
    BY <2>1 DEF Forward, Bounded
<1>9. FlagTypes' /\ SocketTypes' /\ ServerTypes'
  BY FlagFrame, SocketFrame, ServerFrame DEF Forward, socketVars
<1>10. CallsMade'
  BY <1>1, <1>2, <1>3 DEF CallsMade, Made, Ended
<1>11. UpMade'
  BY UpMadeFrame DEF Forward
<1>12. Control'
  BY <1>2, <1>3 DEF Forward, Control, Ended
<1>13. Statement'
  BY <1>2, <1>3 DEF Forward, Statement, Control, Ended
<1> QED
  BY <1>5, <1>6, <1>7, <1>8, <1>9, <1>10, <1>11, <1>12, <1>13

LEMMA ForwardGoneInv1 ==
    ASSUME Inv1, ForwardGone
    PROVE  Inv1'
<1> USE ConstantsAssumption DEF Inv1, TypeOK
<1>1. cur \in Calls /\ Made(cur)
  BY DEF ForwardGone, CallsMade, Made
<1>2. \/ Ended(cur) /\ out' = out
      \/ /\ pc' = "write" /\ out' = "Cancel" /\ cur' = cur /\ where' = where /\ answer' = answer /\ item' \in Frame
         /\ item.f \notin Outcomes
  BY <1>1, ReturnsEnded, NoFrameType DEF ForwardGone, StartCancel
<1>3. /\ kind' = kind /\ caller' = caller /\ tag' = tag /\ queue' = queue /\ state' = state
      /\ srv' = srv /\ srvTag' = srvTag
  BY DEF ForwardGone, serverVars
<1>4. CallTypes'
  BY <1>1, <1>2, <1>3 DEF CallTypes, Ended
<1>5. ActorTypes'
  BY <1>1, <1>2, <1>3 DEF ActorTypes, Ended
<1>6. FlagTypes' /\ SocketTypes' /\ StreamTypes' /\ ServerTypes'
  BY FlagFrame, SocketFrame, StreamFrame, ServerFrame DEF ForwardGone, socketVars
<1>7. Bounded'
  BY BoundFrame DEF ForwardGone, boundVars, streamVars
<1>8. CallsMade'
  BY <1>1, <1>2, <1>3 DEF CallsMade, Made, Ended
<1>9. UpMade'
  BY UpMadeFrame DEF ForwardGone
<1>10. Control'
  BY <1>2, <1>3 DEF ForwardGone, Control, Ended
<1>11. Statement'
  BY <1>2, <1>3 DEF ForwardGone, Statement, Control, Ended
<1> QED
  BY <1>4, <1>5, <1>6, <1>7, <1>8, <1>9, <1>10, <1>11

LEMMA DrainPacketInv1 ==
    ASSUME Inv1, DrainPacket
    PROVE  Inv1'
<1> USE ConstantsAssumption DEF Inv1, TypeOK
<1>1. cur \in Calls /\ Made(cur)
  BY DEF DrainPacket, CallsMade, Made
<1>2. /\ Head(pipe) \in Packet /\ Head(pipe).tag \in Calls \cup {None} /\ Head(pipe).n \in Nat
      /\ pipe' \in Seq(Packet) /\ buffered' \in Nat /\ buffered' <= Len(pipe') /\ buffered' <= PacketCapacity
      /\ reader' = reader
  BY ConsumeFacts DEF DrainPacket
<1>3. Ended(cur) \/ UNCHANGED <<pc, cur, item, where, answer, state>>
  BY <1>1, <1>2, SettleEnded, ReturnsEnded
     DEF DrainPacket, DrainEnds, Outcomes, ActorTypes
<1>4. /\ kind' = kind /\ caller' = caller /\ tag' = tag /\ queue' = queue /\ out' = out /\ state' \in {"Idle", "InsertActive"}
      /\ srv' = srv /\ srvTag' = srvTag
  BY DEF DrainPacket, ActorTypes, serverVars, DrainEnds
<1>5. CallTypes'
  BY <1>1, <1>3, <1>4 DEF CallTypes, Ended
<1>6. ActorTypes'
  BY <1>1, <1>3, <1>4 DEF ActorTypes, Ended
<1>7. SocketTypes'
  BY <1>2 DEF DrainPacket, SocketTypes
<1>8. FlagTypes' /\ StreamTypes' /\ ServerTypes'
  BY FlagFrame, StreamFrame, ServerFrame DEF DrainPacket
<1>9. Bounded'
  BY BoundFrame DEF DrainPacket, boundVars, streamVars
<1>10. CallsMade'
  BY <1>1, <1>1, <1>3, <1>4 DEF CallsMade, Made, Ended
<1>11. UpMade'
  BY UpMadeFrame DEF DrainPacket
<1>12. Control'
  BY <1>1, <1>3, <1>4 DEF Control, Ended
<1>13. Statement'
  BY <1>1, <1>3, <1>4 DEF Statement, Ended
<1> QED
  BY <1>5, <1>6, <1>7, <1>8, <1>9, <1>10, <1>11, <1>12, <1>13

LEMMA DrainDeadInv1 ==
    ASSUME Inv1, DrainDead
    PROVE  Inv1'
<1> USE ConstantsAssumption DEF Inv1, TypeOK
<1>1. cur \in Calls /\ Made(cur)
  BY DEF DrainDead, CallsMade, Made
<1>2. Ended(cur)
  BY <1>1, SettleEnded, ReturnsEnded DEF DrainDead, DrainEnds, Outcomes, ActorTypes
<1>3. /\ kind' = kind /\ caller' = caller /\ tag' = tag /\ queue' = queue /\ out' = out /\ state' \in {"Idle", "InsertActive"}
      /\ srv' = srv /\ srvTag' = srvTag
  BY DEF DrainDead, ActorTypes, serverVars, DrainEnds
<1>4. CallTypes'
  BY <1>1, <1>2, <1>3 DEF CallTypes, Ended
<1>5. ActorTypes'
  BY <1>1, <1>2, <1>3 DEF ActorTypes, Ended
<1>6. FlagTypes'
  BY DEF FlagTypes, DrainDead
<1>7. SocketTypes'
  BY DEF SocketTypes, DrainDead, ReaderDead
<1>8. StreamTypes' /\ ServerTypes'
  BY StreamFrame, ServerFrame DEF DrainDead
<1>9. Bounded'
  BY BoundFrame DEF DrainDead, boundVars, streamVars
<1>10. CallsMade'
  BY <1>1, <1>1, <1>2, <1>3 DEF CallsMade, Made, Ended
<1>11. UpMade'
  BY UpMadeFrame DEF DrainDead
<1>12. Control'
  BY <1>1, <1>2, <1>3 DEF Control, Ended
<1>13. Statement'
  BY <1>1, <1>2, <1>3 DEF Statement, Ended
<1> QED
  BY <1>4, <1>5, <1>6, <1>7, <1>8, <1>9, <1>10, <1>11, <1>12, <1>13

LEMMA DrainTimesOutInv1 ==
    ASSUME Inv1, DrainTimesOut
    PROVE  Inv1'
<1> USE ConstantsAssumption DEF Inv1, TypeOK
<1>1. cur \in Calls /\ Made(cur)
  BY DEF DrainTimesOut, CallsMade, Made
<1>2. Ended(cur)
  BY <1>1, SettleEnded, ReturnsEnded DEF DrainTimesOut, DrainEnds, Outcomes, ActorTypes
<1>3. /\ kind' = kind /\ caller' = caller /\ tag' = tag /\ queue' = queue /\ out' = out /\ state' \in {"Idle", "InsertActive"}
      /\ srv' = srv /\ srvTag' = srvTag
  BY DEF DrainTimesOut, ActorTypes, serverVars, DrainEnds
<1>4. CallTypes'
  BY <1>1, <1>2, <1>3 DEF CallTypes, Ended
<1>5. ActorTypes'
  BY <1>1, <1>2, <1>3 DEF ActorTypes, Ended
<1>6. FlagTypes'
  BY DEF FlagTypes, DrainTimesOut
<1>7. SocketTypes' /\ StreamTypes' /\ ServerTypes'
  BY SocketFrame, StreamFrame, ServerFrame DEF DrainTimesOut, socketVars
<1>8. Bounded'
  BY BoundFrame DEF DrainTimesOut, boundVars, streamVars
<1>9. CallsMade'
  BY <1>1, <1>1, <1>2, <1>3 DEF CallsMade, Made, Ended
<1>10. UpMade'
  BY UpMadeFrame DEF DrainTimesOut
<1>11. Control'
  BY <1>1, <1>2, <1>3 DEF Control, Ended
<1>12. Statement'
  BY <1>1, <1>2, <1>3 DEF Statement, Ended
<1> QED
  BY <1>4, <1>5, <1>6, <1>7, <1>8, <1>9, <1>10, <1>11, <1>12

LEMMA ReaderDeliversInv1 ==
    ASSUME Inv1, ReaderDelivers
    PROVE  Inv1'
<1> USE ConstantsAssumption DEF Inv1, TypeOK
<1>1. SocketTypes'
  BY SMT DEF SocketTypes, ReaderDelivers
<1>2. CallTypes' /\ ActorTypes' /\ FlagTypes' /\ StreamTypes' /\ ServerTypes'
  BY CallFrame, ActorFrame, FlagFrame, StreamFrame, ServerFrame DEF ReaderDelivers
<1>3. Bounded'
  BY BoundFrame DEF ReaderDelivers, boundVars, actorVars, streamVars
<1>4. CallsMade' /\ UpMade' /\ Control' /\ Statement'
  BY RestFrame DEF ReaderDelivers, CallsMade, readerVars, serverVars
<1> QED
  BY <1>1, <1>2, <1>3, <1>4

LEMMA ReaderFailsInv1 ==
    ASSUME Inv1, ReaderFails
    PROVE  Inv1'
<1> USE ConstantsAssumption DEF Inv1, TypeOK
<1>1. FlagTypes'
  BY DEF FlagTypes, ReaderFails
<1>2. SocketTypes'
  BY DEF SocketTypes, ReaderFails
<1>3. CallTypes' /\ ActorTypes' /\ StreamTypes' /\ ServerTypes'
  BY CallFrame, ActorFrame, StreamFrame, ServerFrame DEF ReaderFails
<1>4. Bounded'
  BY BoundFrame DEF ReaderFails, boundVars, actorVars, streamVars
<1>5. CallsMade' /\ UpMade' /\ Control' /\ Statement'
  BY RestFrame DEF ReaderFails, CallsMade, readerVars, serverVars
<1> QED
  BY <1>1, <1>2, <1>3, <1>4, <1>5

LEMMA ReaderReportsInv1 ==
    ASSUME Inv1, ReaderReports
    PROVE  Inv1'
<1> USE ConstantsAssumption DEF Inv1, TypeOK
<1>1. SocketTypes'
  BY DEF SocketTypes, ReaderReports
<1>2. CallTypes' /\ ActorTypes' /\ FlagTypes' /\ StreamTypes' /\ ServerTypes'
  BY CallFrame, ActorFrame, FlagFrame, StreamFrame, ServerFrame DEF ReaderReports
<1>3. Bounded'
  BY BoundFrame DEF ReaderReports, boundVars, actorVars, streamVars
<1>4. CallsMade' /\ UpMade' /\ Control' /\ Statement'
  BY RestFrame DEF ReaderReports, CallsMade, readerVars, serverVars
<1> QED
  BY <1>1, <1>2, <1>3, <1>4

LEMMA ReaderPanicsInv1 ==
    ASSUME Inv1, ReaderPanics
    PROVE  Inv1'
<1> USE ConstantsAssumption DEF Inv1, TypeOK
<1>1. SocketTypes'
  BY DEF SocketTypes, ReaderPanics
<1>2. CallTypes' /\ ActorTypes' /\ FlagTypes' /\ StreamTypes' /\ ServerTypes'
  BY CallFrame, ActorFrame, FlagFrame, StreamFrame, ServerFrame DEF ReaderPanics
<1>3. Bounded'
  BY BoundFrame DEF ReaderPanics, boundVars, actorVars, streamVars
<1>4. CallsMade' /\ UpMade' /\ Control' /\ Statement'
  BY RestFrame DEF ReaderPanics, CallsMade, readerVars, serverVars
<1> QED
  BY <1>1, <1>2, <1>3, <1>4

LEMMA ServerReadsInv1 ==
    ASSUME Inv1, ServerReads
    PROVE  Inv1'
<1> USE DEF Inv1, TypeOK
<1>1. up # <<>> /\ up' = Tail(up) /\ up \in Seq(UpMessage)
  BY DEF ServerReads, SocketTypes
<1>2. /\ Head(up) = up[1] /\ 1 \in 1..Len(up)
      /\ Tail(up) \in Seq(UpMessage) /\ Len(Tail(up)) = Len(up) - 1 /\ Len(up) \in Nat
  BY <1>1, TailFacts, SMT
<1>3. MessageMade(Head(up))
  BY <1>2 DEF UpMade
<1>4. /\ srv' \in {"idle", "ping", "query", "stream", "cancelled", "begin", "insert", "commit"}
      /\ srvTag' \in Calls \cup {None}
      /\ srv' # "idle" => srvTag' \in Calls
      /\ stored' \in [Calls -> Seq(Calls)]
  <2> DEFINE m == Head(up)
  <2>1. CASE srv = "idle" /\ m.m \in {"Query", "Ping"}
    <3>1. m.tag \in Calls /\ (m.m = "Query" => kind[m.tag] \in {"query", "begin", "stream"})
      BY <2>1, <1>3 DEF MessageMade, IsRequest, Made
    <3>2. /\ srv' = IF m.m = "Ping" THEN "ping" ELSE kind[m.tag]
          /\ srvTag' = m.tag /\ stored' = stored
      BY <2>1 DEF ServerReads
    <3> QED
      BY <2>1, <3>1, <3>2 DEF ServerTypes
  <2>2. CASE srv = "insert" /\ m.m = "Data"
    <3>1. srvTag \in Calls /\ m.call \in Calls
      BY <2>2, <1>3 DEF MessageMade, CallsMade
    <3>2. srv' = srv /\ srvTag' = srvTag
      BY <2>2 DEF ServerReads
    <3>3. stored' = [stored EXCEPT ![srvTag] = Append(stored[srvTag], m.call)]
      BY <2>2 DEF ServerReads
    <3>4. Append(stored[srvTag], m.call) \in Seq(Calls)
      BY <3>1, AppendFacts DEF ServerTypes
    <3> QED
      BY <2>2, <3>1, <3>2, <3>3, <3>4 DEF ServerTypes
  <2>3. CASE ~(srv = "idle" /\ m.m \in {"Query", "Ping"}) /\ ~(srv = "insert" /\ m.m = "Data")
    <3>1. srvTag' = srvTag /\ stored' = stored
      BY <2>3 DEF ServerReads
    <3>2. srv' = srv \/ (srv # "idle" /\ srv' \in {"cancelled", "commit"})
      BY <2>3 DEF ServerReads
    <3> QED
      BY <3>1, <3>2 DEF ServerTypes, CallsMade
  <2> QED
    BY <2>1, <2>2, <2>3
<1>5. SocketTypes'
  BY <1>1, <1>2 DEF SocketTypes, ServerReads, readerVars
<1>6. ServerTypes'
  <2>1. sent' = sent /\ verdict' = verdict /\ budget' = budget
    BY DEF ServerReads
  <2> QED
    BY <1>4, <2>1 DEF ServerTypes
<1>7. Bounded'
  <2>1. queue' = queue /\ frames' = frames
    BY DEF ServerReads, actorVars, streamVars
  <2> QED
    BY <1>1, <1>2, <2>1, ConstantsAssumption, SMT DEF Bounded
<1>8. CallTypes' /\ ActorTypes' /\ FlagTypes' /\ StreamTypes'
  BY CallFrame, ActorFrame, FlagFrame, StreamFrame DEF ServerReads
<1>9. callVars' = callVars /\ actorVars' = actorVars
  BY DEF ServerReads
<1>10. CallsMade'
  BY <1>4, <1>9 DEF CallsMade, Made, callVars, actorVars
<1>11. UpMade'
  BY <1>1, <1>9, UpMadeTail DEF callVars
<1>12. Control' /\ Statement'
  BY <1>9 DEF Control, Statement, callVars, actorVars
<1> QED
  BY <1>5, <1>6, <1>7, <1>8, <1>10, <1>11, <1>12

\* A packet of the server leaves everything but the socket and the server alone.
LEMMA ServerSendsInv1 ==
    ASSUME Inv1, srv # "idle", ServerTypes', NEW n \in Nat,
           NEW t \in {"Pong", "EndOfStream", "Exception", "Data", "DataBlock", "Progress", "Log"},
           ServerSends(t, n)
    PROVE  Inv1'
<1> USE DEF Inv1, TypeOK
<1>1. [t |-> t, tag |-> srvTag, n |-> n] \in Packet
  BY DEF Packet, ServerTypes
<1>2. pipe' = Append(pipe, [t |-> t, tag |-> srvTag, n |-> n]) /\ pipe \in Seq(Packet)
  BY DEF SocketTypes, ServerSends
<1>3. pipe' \in Seq(Packet) /\ Len(pipe') = Len(pipe) + 1 /\ Len(pipe) \in Nat
  BY <1>1, <1>2, AppendFacts, SMT
<1>4. SocketTypes'
  <2>1. buffered' = buffered /\ reader' = reader /\ up' = up /\ link' = link
    BY DEF ServerSends
  <2> QED
    BY <1>3, <2>1, SMT DEF SocketTypes
<1>5. CallTypes' /\ ActorTypes' /\ FlagTypes' /\ StreamTypes'
  BY CallFrame, ActorFrame, FlagFrame, StreamFrame DEF ServerSends
<1>6. Bounded'
  BY BoundFrame DEF ServerSends, boundVars, actorVars, streamVars
<1>7. CallsMade' /\ UpMade' /\ Control' /\ Statement'
  BY RestFrame DEF ServerSends, CallsMade
<1> QED
  BY <1>4, <1>5, <1>6, <1>7

\* Each packet the server may send leaves its own state well-typed.
LEMMA ServerRepliesInv1 ==
    ASSUME Inv1, \/ \E t \in {"Progress", "Log"} : ServerChatters(t)
                 \/ ServerBlock \/ ServerSchema \/ ServerRows \/ ServerEnds \/ ServerRejects
    PROVE  Inv1'
<1> USE DEF Inv1, TypeOK
<1>1. srv # "idle" /\ srvTag' = srvTag /\ stored' = stored
  BY DEF ServerChatters, ServerBlock, ServerSchema, ServerRows, ServerEnds, ServerRejects,
         ServerSends
<1>2. srvTag \in Calls /\ sent[srvTag] \in Nat
  BY <1>1 DEF CallsMade, ServerTypes
<1>3. budget > 0 /\ budget' = budget - 1 => budget' \in 0..MaxPackets
  BY ConstantsAssumption, SMT DEF ServerTypes
<1>4. ASSUME NEW t \in {"Progress", "Log"}, ServerChatters(t) PROVE Inv1'
  <2>1. ServerTypes'
    BY <1>1, <1>3, <1>4 DEF ServerTypes, ServerChatters
  <2> QED
    BY <1>1, <1>2, <1>4, <2>1, ServerSendsInv1 DEF ServerChatters
<1>5. CASE ServerBlock
  <2>1. ServerTypes'
    BY <1>1, <1>2, <1>3, <1>5, SMT DEF ServerTypes, ServerBlock
  <2> QED
    BY <1>1, <1>2, <1>5, <2>1, ServerSendsInv1, SMT DEF ServerBlock
<1>6. CASE ServerSchema
  <2>1. ServerTypes'
    BY <1>1, <1>3, <1>6 DEF ServerTypes, ServerSchema
  <2> QED
    BY <1>1, <1>2, <1>6, <2>1, ServerSendsInv1 DEF ServerSchema
<1>7. CASE ServerRows
  <2>1. ServerTypes'
    BY <1>1, <1>3, <1>7 DEF ServerTypes, ServerRows
  <2> QED
    BY <1>1, <1>2, <1>7, <2>1, ServerSendsInv1 DEF ServerRows
<1>8. CASE ServerEnds
  <2>1. ServerTypes'
    BY <1>1, <1>2, <1>3, <1>8 DEF ServerTypes, ServerEnds
  <2> QED
    BY <1>1, <1>2, <1>8, <2>1, ServerSendsInv1 DEF ServerEnds
<1>9. CASE ServerRejects
  <2>1. ServerTypes'
    BY <1>1, <1>2, <1>3, <1>9 DEF ServerTypes, ServerRejects
  <2> QED
    BY <1>1, <1>2, <1>9, <2>1, ServerSendsInv1 DEF ServerRejects
<1> QED
  BY <1>4, <1>5, <1>6, <1>7, <1>8, <1>9

LEMMA LinkClosesInv1 ==
    ASSUME Inv1, LinkCloses
    PROVE  Inv1'
<1> USE ConstantsAssumption DEF Inv1, TypeOK
<1>1. SocketTypes'
  BY DEF SocketTypes, LinkCloses, readerVars
<1>2. CallTypes' /\ ActorTypes' /\ FlagTypes' /\ StreamTypes' /\ ServerTypes'
  BY CallFrame, ActorFrame, FlagFrame, StreamFrame, ServerFrame DEF LinkCloses
<1>3. Bounded'
  BY BoundFrame DEF LinkCloses, boundVars, actorVars, streamVars
<1>4. CallsMade' /\ UpMade' /\ Control' /\ Statement'
  BY RestFrame DEF LinkCloses, CallsMade, readerVars, serverVars
<1> QED
  BY <1>1, <1>2, <1>3, <1>4

LEMMA StutterInv1 ==
    ASSUME Inv1, UNCHANGED vars
    PROVE  Inv1'
<1> USE ConstantsAssumption DEF Inv1, TypeOK
<1>1. CallTypes' /\ ActorTypes' /\ FlagTypes' /\ SocketTypes' /\ StreamTypes' /\ ServerTypes'
  BY CallFrame, ActorFrame, FlagFrame, SocketFrame, StreamFrame, ServerFrame
     DEF vars, socketVars
<1>2. Bounded'
  BY BoundFrame DEF vars, actorVars, streamVars, boundVars
<1>3. CallsMade' /\ UpMade' /\ Control' /\ Statement'
  BY RestFrame DEF vars, CallsMade, readerVars, serverVars
<1> QED
  BY <1>1, <1>2, <1>3

LEMMA NextInv1 == Inv1 /\ [Next]_vars => Inv1'
  BY SubmitInv1, EnqueueInv1, SendClosedInv1, ReturnInv1, DropInv1, CursorNextInv1,
     RequestShutdownInv1, HandleInv1, StopInv1, ExitInv1, WriteDoneInv1, WriteFailsInv1,
     PeekPacketInv1, PeekDeadInv1, PeekEmptyInv1, ReadPacketInv1, ReadDeadInv1,
     ReadTimesOutInv1, ReadCancelsInv1, ForwardInv1, ForwardGoneInv1, DrainPacketInv1,
     DrainDeadInv1, DrainTimesOutInv1, ReaderDeliversInv1, ReaderFailsInv1,
     ReaderReportsInv1, ReaderPanicsInv1, ServerReadsInv1, ServerRepliesInv1,
     LinkClosesInv1, StutterInv1
     DEF Next, CallerStep, ActorStep, ReaderStep, ServerStep


\* Every variable holds what the code can store in it and every channel respects
\* its capacity (CMD_CHANNEL, PACKET_CHANNEL_CAPACITY, STREAM_CHANNEL_CAPACITY),
\* for any number of calls.
THEOREM TypeCorrect == Spec => []TypeOK
<1>1. Inv1 => TypeOK
  BY DEF Inv1
<1> QED
  BY InitInv1, NextInv1, <1>1, PTL DEF Spec

=============================================================================
