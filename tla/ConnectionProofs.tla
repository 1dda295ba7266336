-------------------------- MODULE ConnectionProofs --------------------------
(***************************************************************************)
(* The second and third layers of the inductive invariant of Connection,   *)
(* and the theorems that follow from its three layers, for every set of    *)
(* calls and every capacity.                                               *)
(***************************************************************************)
EXTENDS ConnectionTypeProofs

\* Most steps are first-order; the ones with arithmetic, records or sequences
\* name SMT.
USE ZenonT(20)

-----------------------------------------------------------------------------
(* What one kind of change does to the alignment *)

InStatement == ~NoStatement /\ ~Fresh

\* The actor moves, the wire does not change.
LEMMA MoveAligned ==
    ASSUME Aligned, UNCHANGED <<pipe, srv, srvTag, up>>,
           NoStatement' /\ ~poisoned' => (NoStatement /\ ~poisoned) \/ Fresh,
           Fresh' => (NoStatement /\ ~poisoned) \/ Fresh,
           InStatement' => InStatement /\ tag' = tag
    PROVE  Aligned'
<1>1. Quiet => Quiet'
  BY DEF Quiet
<1>2. Own /\ tag' = tag => Own'
  BY DEF Own, IsTerminal, IsRequest
<1> QED
  BY <1>1, <1>2 DEF Aligned, InStatement

\* A step of a caller or of the reader: at most the flag is raised.
LEMMA BystanderAligned ==
    ASSUME Aligned, UNCHANGED <<pipe, srv, srvTag, up, pc, out, state, item, tag>>,
           poisoned => poisoned'
    PROVE  Aligned'
<1>1. (NoStatement' <=> NoStatement) /\ (Fresh' <=> Fresh)
  BY DEF NoStatement, Fresh
<1> QED
  BY <1>1, MoveAligned DEF InStatement

\* A packet is consumed: what is left is still of the statement, and after the
\* terminal packet nothing is left.
LEMMA ConsumeOwn ==
    ASSUME SocketTypes, Own, Consume, UNCHANGED <<srv, srvTag, up, tag>>
    PROVE  Own' /\ (IsTerminal(Head(pipe)) => Quiet') /\ Head(pipe).tag = tag
<1>1. pipe # <<>> /\ pipe' = Tail(pipe)
  BY SMT DEF Consume, SocketTypes
<1>2. /\ pipe' \in Seq(Packet) /\ Len(pipe') = Len(pipe) - 1
      /\ \A i \in 1..Len(pipe') : i + 1 \in 1..Len(pipe) /\ pipe'[i] = pipe[i + 1]
      /\ Head(pipe) = pipe[1] /\ 1 \in 1..Len(pipe) /\ Len(pipe) \in Nat
  BY <1>1, TailFacts, SMT DEF SocketTypes
<1>3. \A i \in 1..Len(up) : ~IsRequest(up[i])
  BY <1>1 DEF Own
<1>4. Own'
  <2>1. \A i \in 1..Len(pipe) :
            pipe[i].tag = tag /\ (IsTerminal(pipe[i]) => i = Len(pipe) /\ srv = "idle")
    BY DEF Own
  <2>2. \A i \in 1..Len(pipe') :
            pipe'[i].tag = tag /\ (IsTerminal(pipe'[i]) => i = Len(pipe') /\ srv = "idle")
    BY <1>2, <2>1, SMT
  <2> QED
    BY <1>3, <2>2 DEF Own, IsTerminal, IsRequest
<1>5. ASSUME IsTerminal(Head(pipe)) PROVE Quiet'
  <2>1. Len(pipe) = 1 /\ srv = "idle"
    BY <1>2, <1>5 DEF Own
  <2>2. pipe' = <<>>
    BY <1>2, <2>1, SMT
  <2> QED
    BY <1>3, <2>1, <2>2 DEF Quiet, IsRequest
<1> QED
  BY <1>2, <1>4, <1>5 DEF Own

\* A message that starts no statement is written.
LEMMA WriteMessage ==
    ASSUME SocketTypes, NEW w \in UpMessage, ~IsRequest(w), up' = Append(up, w),
           UNCHANGED <<pipe, srv, srvTag, tag>>
    PROVE  (Quiet => Quiet') /\ (Own => Own')
<1>1. /\ Len(up') = Len(up) + 1 /\ Len(up) \in Nat
      /\ \A i \in 1..Len(up) : up'[i] = up[i]
      /\ up'[Len(up) + 1] = w
  BY AppendFacts, SMT DEF SocketTypes
<1>2. \A i \in 1..Len(up') : IsRequest(up'[i]) => i \in 1..Len(up) /\ up'[i] = up[i]
  BY <1>1, SMT
<1>3. Quiet => Quiet'
  BY <1>2 DEF Quiet, IsRequest
<1>4. ASSUME Own PROVE Own'
  <2>1. \A i \in 1..Len(pipe') : IsTerminal(pipe'[i]) => \A j \in 1..Len(up') : ~IsRequest(up'[j])
    BY <1>2, <1>4 DEF Own
  <2>2. \A i \in 1..Len(up') : IsRequest(up'[i]) =>
          /\ up'[i].tag = tag
          /\ srv = "idle"
          /\ pipe = <<>>
          /\ \A j \in 1..Len(up') : IsRequest(up'[j]) => j = i
    BY <1>2, <1>4 DEF Own
  <2> QED
    BY <1>4, <2>1, <2>2 DEF Own, IsTerminal, IsRequest
<1> QED
  BY <1>3, <1>4

\* The request of a fresh statement is written on a quiet connection.
LEMMA WriteRequest ==
    ASSUME SocketTypes, Quiet, NEW w \in UpMessage, IsRequest(w), w.tag = tag,
           up' = Append(up, w), UNCHANGED <<pipe, srv, srvTag, tag>>
    PROVE  Own'
<1>1. /\ Len(up') = Len(up) + 1 /\ Len(up) \in Nat
      /\ \A i \in 1..Len(up) : up'[i] = up[i]
      /\ up'[Len(up) + 1] = w
  BY AppendFacts, SMT DEF SocketTypes
<1>2. \A i \in 1..Len(up') : IsRequest(up'[i]) => i = Len(up) + 1
  BY <1>1, SMT DEF Quiet, IsRequest
<1>3. pipe' = <<>> /\ srv' = "idle" /\ Len(pipe') = 0
  BY DEF Quiet
<1> QED
  BY <1>1, <1>2, <1>3, SMT DEF Own, IsRequest

\* The server takes a message that starts no statement.
LEMMA ReadMessage ==
    ASSUME SocketTypes, up # <<>>, up' = Tail(up), ~IsRequest(Head(up)),
           srv' = "idle" <=> srv = "idle",
           UNCHANGED <<pipe, srvTag, tag>>
    PROVE  (Quiet => Quiet') /\ (Own => Own')
<1>1. /\ Len(up') = Len(up) - 1 /\ Len(up) \in Nat
      /\ \A i \in 1..Len(up') : i + 1 \in 1..Len(up) /\ up'[i] = up[i + 1]
  BY TailFacts DEF SocketTypes
<1>2. Quiet => Quiet'
  BY <1>1 DEF Quiet
<1>3. ASSUME Own PROVE Own'
  <2>1. \A i \in 1..Len(pipe') : IsTerminal(pipe'[i]) => \A j \in 1..Len(up') : ~IsRequest(up'[j])
    BY <1>1, <1>3 DEF Own
  <2>2. \A i \in 1..Len(up') : IsRequest(up'[i]) =>
          /\ up'[i].tag = tag
          /\ srv = "idle"
          /\ pipe = <<>>
          /\ \A j \in 1..Len(up') : IsRequest(up'[j]) => j = i
    BY <1>1, <1>3, SMT DEF Own
  <2> QED
    BY <1>3, <2>1, <2>2 DEF Own, IsTerminal, IsRequest
<1> QED
  BY <1>2, <1>3

\* The server takes the request of the statement in progress.
LEMMA ReadRequest ==
    ASSUME SocketTypes, Own, up # <<>>, up' = Tail(up), IsRequest(Head(up)),
           srvTag' = Head(up).tag, UNCHANGED <<pipe, tag>>
    PROVE  Own'
<1>1. /\ Len(up') = Len(up) - 1 /\ Len(up) \in Nat /\ 1 \in 1..Len(up) /\ Head(up) = up[1]
      /\ \A i \in 1..Len(up') : i + 1 \in 1..Len(up) /\ up'[i] = up[i + 1]
  BY TailFacts, SMT DEF SocketTypes
<1>2. \A i \in 1..Len(up') : ~IsRequest(up'[i])
  BY <1>1, SMT DEF Own
<1>3. srvTag' = tag' /\ pipe' = <<>> /\ Len(pipe') = 0
  BY <1>1, SMT DEF Own
<1> QED
  BY <1>2, <1>3, SMT DEF Own, IsRequest

\* The server sends a packet of the statement it works on.
LEMMA SendPacket ==
    ASSUME SocketTypes, Own, srv # "idle", NEW p \in Packet, p.tag = srvTag,
           pipe' = Append(pipe, p), IsTerminal(p) => srv' = "idle",
           UNCHANGED <<srvTag, up, tag>>
    PROVE  Own'
<1>1. /\ Len(pipe') = Len(pipe) + 1 /\ Len(pipe) \in Nat
      /\ \A i \in 1..Len(pipe) : pipe'[i] = pipe[i]
      /\ pipe'[Len(pipe) + 1] = p
  BY AppendFacts, SMT DEF SocketTypes
<1>2. \A i \in 1..Len(up) : ~IsRequest(up[i])
  BY DEF Own
<1>3. \A i \in 1..Len(pipe) : ~IsTerminal(pipe[i]) /\ pipe[i].tag = tag
  BY DEF Own
<1>4. \A i \in 1..Len(pipe') :
          /\ pipe'[i].tag = tag
          /\ IsTerminal(pipe'[i]) => i = Len(pipe') /\ srv' = "idle"
  <2> SUFFICES ASSUME NEW i \in 1..Len(pipe')
               PROVE  /\ pipe'[i].tag = tag
                      /\ IsTerminal(pipe'[i]) => i = Len(pipe') /\ srv' = "idle"
    OBVIOUS
  <2>1. CASE i \in 1..Len(pipe)
    BY <1>1, <1>3, <2>1
  <2>2. CASE i = Len(pipe) + 1
    BY <1>1, <2>2 DEF Own
  <2> QED
    BY <1>1, <2>1, <2>2, SMT
<1> QED
  BY <1>2, <1>4 DEF Own, IsTerminal, IsRequest

-----------------------------------------------------------------------------
(* Layer 2 *)

LEMMA InitAligned == Init => Aligned
  BY SMT DEF Init, Aligned, NoStatement, Fresh, Quiet

\* A command has ended: nothing is on the wire, or the connection is poisoned,
\* or the INSERT session it belongs to goes on.
LEMMA EndedAligned ==
    ASSUME NEW c, Ended(c),
           state' = "Idle" => poisoned' \/ Quiet',
           state' = "InsertActive" => Own',
           state' \in {"Idle", "InsertActive"}
    PROVE  Aligned'
<1>1. NoStatement' <=> state' = "Idle"
  BY DEF Ended, NoStatement
<1>2. ~Fresh'
  BY DEF Ended, Fresh
<1> QED
  BY <1>1, <1>2 DEF Aligned

LEMMA NextAligned == Inv1 /\ Aligned /\ Inv1' /\ [Next]_vars => Aligned'
<1> SUFFICES ASSUME Inv1, Aligned, Inv1', [Next]_vars PROVE Aligned'
  OBVIOUS
<1> USE DEF Inv1, TypeOK
<1>1. ASSUME NEW c \in Calls, NEW k \in Kinds, Submit(c, k) PROVE Aligned'
  BY <1>1, BystanderAligned DEF Submit, actorVars, flagVars, readerVars, serverVars
<1>2. ASSUME NEW c \in Calls, Enqueue(c) PROVE Aligned'
  BY <1>2, BystanderAligned DEF Enqueue, flagVars, readerVars, serverVars
<1>3. ASSUME NEW c \in Calls, SendClosed(c) PROVE Aligned'
  BY <1>3, BystanderAligned DEF SendClosed, actorVars, flagVars, readerVars, serverVars
<1>4. ASSUME NEW c \in Calls, Return(c) PROVE Aligned'
  BY <1>4, BystanderAligned DEF Return, PoisonOnDrop, actorVars, readerVars, serverVars
<1>5. ASSUME NEW c \in Calls, Drop(c) PROVE Aligned'
  BY <1>5, BystanderAligned DEF Drop, PoisonOnDrop, actorVars, readerVars, serverVars
<1>6. ASSUME NEW c \in Calls, CursorNext(c) PROVE Aligned'
  BY <1>6, BystanderAligned DEF CursorNext, actorVars, flagVars, readerVars, serverVars
<1>7. ASSUME RequestShutdown PROVE Aligned'
  BY <1>7, BystanderAligned DEF RequestShutdown, actorVars, readerVars, serverVars
<1>8. ASSUME ReaderDelivers \/ ReaderReports \/ ReaderPanics \/ LinkCloses PROVE Aligned'
  BY <1>8, BystanderAligned, SMT
     DEF ReaderDelivers, ReaderReports, ReaderPanics, LinkCloses, actorVars, flagVars, readerVars,
         serverVars
<1>9. ASSUME ReaderFails PROVE Aligned'
  BY <1>9, BystanderAligned DEF ReaderFails, actorVars, serverVars
<1>10. ASSUME NEW c \in Calls, Handle(c) PROVE Aligned'
  <2>1. UNCHANGED <<pipe, srv, srvTag, up, state, poisoned>> /\ pc = "recv"
    BY <1>10 DEF Handle, readerVars, serverVars, flagVars
  <2>2. CASE Refuses(c)
    <3>1. Ended(c) /\ tag' = tag
      BY <1>10, <2>2, SettleEnded DEF Handle, Outcomes
    <3>2. ~Fresh' /\ (NoStatement' <=> NoStatement) /\ ~Fresh
      BY <2>1, <3>1 DEF Ended, Fresh, NoStatement
    <3> QED
      BY <2>1, <3>1, <3>2, MoveAligned DEF InStatement
  <2>3. CASE ~Refuses(c) /\ kind[c] \in InsertContinuation
    <3>1. state = "InsertActive" /\ tag' = tag /\ pc' \in {"peek", "write"}
          /\ (pc' = "write" => out' = "Empty")
      BY <1>10, <2>3 DEF Handle, Refuses, StateGate, Oversize, InsertContinuation, FirstWrite,
                         ActorTypes
    <3>2. ~Fresh' /\ ~NoStatement' /\ InStatement
      BY <2>1, <3>1 DEF Fresh, NoStatement, InStatement
    <3> QED
      BY <2>1, <3>1, <3>2, MoveAligned DEF InStatement
  <2>4. CASE ~Refuses(c) /\ kind[c] \notin InsertContinuation
    <3>1. ~poisoned /\ state = "Idle" /\ pc' = "write" /\ out' \in {"Query", "Ping"}
      BY <1>10, <2>4 DEF Handle, Refuses, RejectPoisoned, StateGate, InsertContinuation,
                         FirstWrite, ActorTypes
    <3>2. Fresh' /\ ~NoStatement' /\ NoStatement
      BY <2>1, <3>1 DEF Fresh, NoStatement
    <3> QED
      BY <2>1, <3>1, <3>2, MoveAligned DEF InStatement
  <2> QED
    BY <2>2, <2>3, <2>4
<1>11. ASSUME Stop \/ Exit PROVE Aligned'
  <2>1. /\ UNCHANGED <<pipe, srv, srvTag, up, state, poisoned, tag>>
        /\ pc \in {"recv", "stopping"} /\ pc' \in {"stopping", "gone"}
    BY <1>11 DEF Stop, Exit, readerVars, serverVars, flagVars
  <2>2. (NoStatement' <=> NoStatement) /\ ~Fresh /\ ~Fresh'
    BY <2>1 DEF NoStatement, Fresh
  <2> QED
    BY <2>1, <2>2, MoveAligned DEF InStatement
<1>12. ASSUME WriteDone PROVE Aligned'
  <2>1. UNCHANGED <<pipe, srv, srvTag, state, poisoned, tag>> /\ up' = Append(up, Written)
    BY <1>12 DEF WriteDone, readerVars, serverVars, flagVars
  <2>2. Written \in UpMessage /\ Written.m = out /\ Written.tag = tag
    BY <1>12 DEF WriteDone, Written, UpMessage, ActorTypes, Control
  <2>3. CASE out \in {"Query", "Ping"}
    <3>1. Own'
      BY <1>12, <2>1, <2>2, <2>3, WriteRequest DEF WriteDone, Aligned, Fresh, IsRequest
    <3>2. pc' = "read"
      BY <1>12, <2>3 DEF WriteDone
    <3> QED
      BY <3>1, <3>2 DEF Aligned, NoStatement, Fresh
  <2>4. CASE out \in {"Cancel", "Empty"}
    <3>1. ~NoStatement /\ ~Fresh /\ pc' = "drain"
      BY <1>12, <2>4 DEF WriteDone, NoStatement, Fresh
    <3>2. Own'
      BY <2>1, <2>2, <2>4, <3>1, WriteMessage DEF Aligned, IsRequest
    <3> QED
      BY <3>1, <3>2 DEF Aligned, NoStatement, Fresh
  <2>5. CASE out = "Data"
    <3>1. ~NoStatement /\ ~Fresh /\ state = "InsertActive" /\ cur \in Calls
      BY <1>12, <2>5 DEF WriteDone, NoStatement, Fresh, Control, CallsMade, Made
    <3>2. Own'
      BY <2>1, <2>2, <2>5, <3>1, WriteMessage DEF Aligned, IsRequest
    <3>3. Ended(cur)
      BY <1>12, <2>5, <3>1, SettleEnded DEF WriteDone, Outcomes, ActorTypes
    <3> QED
      BY <2>1, <3>1, <3>2, <3>3, EndedAligned
  <2> QED
    BY <1>12, <2>3, <2>4, <2>5 DEF WriteDone, Control
<1>13. ASSUME WriteFails PROVE Aligned'
  <2>1. cur \in Calls /\ poisoned' /\ state' = "Idle"
    BY <1>13 DEF WriteFails, CallsMade, Made, Control
  <2>2. Ended(cur)
    BY <1>13, <2>1, SettleEnded, ReturnsEnded DEF WriteFails, Outcomes, ActorTypes
  <2> QED
    BY <2>1, <2>2, EndedAligned
<1>14. ASSUME PeekPacket PROVE Aligned'
  <2>1. /\ Own /\ Consume /\ UNCHANGED <<srv, srvTag, up, tag>>
        /\ cur \in Calls /\ pc = "peek" /\ state = "InsertActive"
    BY <1>14 DEF PeekPacket, Aligned, NoStatement, Fresh, Control, CallsMade, Made, serverVars
  <2>2. Own' /\ (IsTerminal(Head(pipe)) => Quiet') /\ Head(pipe).tag = tag
    BY <2>1, ConsumeOwn
  <2>3. CASE Head(pipe).t = "Exception"
    <3>1. Ended(cur) /\ state' = "Idle"
      BY <1>14, <2>1, <2>2, <2>3, SettleEnded DEF PeekPacket, Outcomes, ActorTypes
    <3> QED
      BY <2>2, <2>3, <3>1, EndedAligned DEF IsTerminal
  <2>4. CASE Head(pipe).t # "Exception"
    <3>1. pc' = "peek"
      BY <1>14, <2>4 DEF PeekPacket
    <3> QED
      BY <2>2, <3>1 DEF Aligned, NoStatement, Fresh
  <2> QED
    BY <2>3, <2>4
<1>15. ASSUME PeekDead PROVE Aligned'
  <2>1. cur \in Calls /\ poisoned' /\ state' = "Idle"
    BY <1>15 DEF PeekDead, CallsMade, Made
  <2>2. Ended(cur)
    BY <1>15, <2>1, SettleEnded DEF PeekDead, Outcomes
  <2> QED
    BY <2>1, <2>2, EndedAligned
<1>16. ASSUME PeekEmpty PROVE Aligned'
  <2>1. /\ UNCHANGED <<pipe, srv, srvTag, up, poisoned, tag>>
        /\ pc = "peek" /\ pc' = "write" /\ out' = "Data"
    BY <1>16 DEF PeekEmpty, readerVars, serverVars, flagVars
  <2>2. ~NoStatement /\ ~Fresh /\ ~NoStatement' /\ ~Fresh'
    BY <2>1 DEF NoStatement, Fresh
  <2> QED
    BY <2>1, <2>2, MoveAligned DEF InStatement
<1>17. ASSUME ReadPacket PROVE Aligned'
  <2> DEFINE o == ReadOutcome(kind[cur], Head(pipe))
  <2>1. /\ Own /\ Consume /\ UNCHANGED <<srv, srvTag, up, tag>>
        /\ cur \in Calls /\ pc = "read" /\ state = "Idle"
    BY <1>17 DEF ReadPacket, Aligned, NoStatement, Fresh, Control, CallsMade, Made, serverVars
  <2>2. Own' /\ (IsTerminal(Head(pipe)) => Quiet') /\ Head(pipe).tag = tag
    BY <2>1, ConsumeOwn
  <2>3. CASE o = "ignore"
    <3>1. pc' = "read"
      BY <1>17, <2>3 DEF ReadPacket
    <3> QED
      BY <2>2, <3>1 DEF Aligned, NoStatement, Fresh
  <2>4. CASE o \in {"block", "other"}
    <3>1. pc' = "forward" /\ item'.f = o
      BY <1>17, <2>4, SMT DEF ReadPacket
    <3> HIDE DEF o
    <3> QED
      BY <2>2, <2>4, <3>1 DEF Aligned, NoStatement, Fresh, Outcomes
  <2>5. CASE o \in {"exception", "ok", "bad", "failed"}
    <3>1. Settle(cur, o, Head(pipe).tag)
      BY <1>17, <2>5 DEF ReadPacket
    <3>2. o = "failed" => poisoned'
      BY <1>17 DEF ReadPacket
    <3>3. state' = IF kind[cur] = "begin" /\ o = "ok" THEN "InsertActive" ELSE "Idle"
      BY <1>17, <2>1 DEF ReadPacket
    <3>4. o \in {"exception", "ok", "bad"} /\ ~(kind[cur] = "begin" /\ o = "ok") => IsTerminal(Head(pipe))
      BY <2>5 DEF ReadOutcome, PingOutcome, QueryOutcome, BeginOutcome, StreamOutcome, IsTerminal
    <3> HIDE DEF o
    <3>5. Ended(cur)
      BY <2>1, <2>2, <2>5, <3>1, SettleEnded DEF Outcomes, ActorTypes
    <3> QED
      BY <2>2, <2>5, <3>2, <3>3, <3>4, <3>5, EndedAligned
  <2> QED
    BY <2>3, <2>4, <2>5 DEF ReadOutcome, PingOutcome, QueryOutcome, BeginOutcome, StreamOutcome
<1>18. ASSUME ReadDead \/ ReadTimesOut PROVE Aligned'
  <2>1. cur \in Calls /\ poisoned' /\ state' = "Idle"
    BY <1>18 DEF ReadDead, ReadTimesOut, CallsMade, Made, Control
  <2>2. Ended(cur)
    BY <1>18, <2>1, SettleEnded DEF ReadDead, ReadTimesOut, Outcomes
  <2> QED
    BY <2>1, <2>2, EndedAligned
<1>19. ASSUME ReadCancels PROVE Aligned'
  <2>1. /\ UNCHANGED <<pipe, srv, srvTag, up, poisoned, tag>>
        /\ pc = "read" /\ pc' = "write" /\ out' = "Cancel"
    BY <1>19 DEF ReadCancels, StartCancel, readerVars, serverVars, flagVars
  <2>2. ~NoStatement /\ ~Fresh /\ ~NoStatement' /\ ~Fresh'
    BY <2>1 DEF NoStatement, Fresh
  <2> QED
    BY <2>1, <2>2, MoveAligned DEF InStatement
<1>20. ASSUME Forward \/ ForwardGone PROVE Aligned'
  <2>1. UNCHANGED <<pipe, srv, srvTag, up, poisoned, tag, state>> /\ pc = "forward"
    BY <1>20 DEF Forward, ForwardGone, readerVars, serverVars, flagVars
  <2>2. CASE item.f \in Outcomes
    <3>1. pc' = "recv"
      BY <1>20, <2>2 DEF Forward, ForwardGone, HandlerReturns
    <3>2. (NoStatement' <=> NoStatement) /\ ~Fresh /\ ~Fresh'
      BY <2>1, <2>2, <3>1 DEF NoStatement, Fresh
    <3> QED
      BY <2>1, <3>2, MoveAligned DEF InStatement
  <2>3. CASE item.f \notin Outcomes
    <3>1. pc' = "read" \/ (pc' = "write" /\ out' = "Cancel")
      BY <1>20, <2>3 DEF Forward, ForwardGone, StartCancel
    <3>2. ~NoStatement /\ ~Fresh /\ ~NoStatement' /\ ~Fresh'
      BY <2>1, <2>3, <3>1 DEF NoStatement, Fresh
    <3> QED
      BY <2>1, <3>2, MoveAligned DEF InStatement
  <2> QED
    BY <2>2, <2>3
<1>21. ASSUME DrainPacket PROVE Aligned'
  <2>1. /\ Own /\ Consume /\ UNCHANGED <<srv, srvTag, up, tag>>
        /\ cur \in Calls /\ pc = "drain"
    BY <1>21 DEF DrainPacket, Aligned, NoStatement, Fresh, CallsMade, Made, serverVars
  <2>2. Own' /\ (IsTerminal(Head(pipe)) => Quiet') /\ Head(pipe).tag = tag
    BY <2>1, ConsumeOwn
  <2>3. CASE Head(pipe).t \in {"EndOfStream", "Exception"}
    <3>1. Ended(cur) /\ state' = "Idle"
      BY <1>21, <2>1, <2>2, <2>3, SettleEnded, ReturnsEnded
         DEF DrainPacket, DrainEnds, Control, Outcomes, ActorTypes
    <3> QED
      BY <2>2, <2>3, <3>1, EndedAligned DEF IsTerminal
  <2>4. CASE Head(pipe).t \notin {"EndOfStream", "Exception"}
    <3>1. pc' = "drain"
      BY <1>21, <2>1, <2>4 DEF DrainPacket
    <3> QED
      BY <2>2, <3>1 DEF Aligned, NoStatement, Fresh
  <2> QED
    BY <2>3, <2>4
<1>22. ASSUME DrainDead \/ DrainTimesOut PROVE Aligned'
  <2>1. cur \in Calls /\ poisoned' /\ state' = "Idle"
    BY <1>22 DEF DrainDead, DrainTimesOut, DrainEnds, CallsMade, Made, Control
  <2>2. Ended(cur)
    BY <1>22, <2>1, SettleEnded, ReturnsEnded
       DEF DrainDead, DrainTimesOut, DrainEnds, Outcomes, ActorTypes
  <2> QED
    BY <2>1, <2>2, EndedAligned
<1>23. ASSUME ServerReads PROVE Aligned'
  <2>1. /\ UNCHANGED <<pipe, pc, out, state, item, poisoned, tag>>
        /\ up # <<>> /\ up' = Tail(up)
    BY <1>23 DEF ServerReads, actorVars, flagVars, readerVars
  <2>2. (NoStatement' <=> NoStatement) /\ (Fresh' <=> Fresh)
    BY <2>1 DEF NoStatement, Fresh
  <2>3. CASE IsRequest(Head(up))
    <3>1. ~Quiet
      BY <2>1, <2>3, TailFacts, SMT DEF Quiet, IsRequest, SocketTypes
    <3>2. srvTag' = Head(up).tag
      BY <1>23, <2>3 DEF ServerReads, IsRequest
    <3>3. Own => Own'
      BY <2>1, <2>3, <3>2, ReadRequest
    <3> QED
      BY <2>1, <2>2, <3>1, <3>3 DEF Aligned
  <2>4. CASE ~IsRequest(Head(up))
    <3>1. (srv' = "idle" <=> srv = "idle") /\ srvTag' = srvTag
      BY <1>23, <2>4 DEF ServerReads, IsRequest
    <3>2. (Quiet => Quiet') /\ (Own => Own')
      BY <2>1, <2>4, <3>1, ReadMessage
    <3> QED
      BY <2>1, <2>2, <3>2 DEF Aligned
  <2> QED
    BY <2>3, <2>4
<1>24. ASSUME NEW t, NEW n \in Nat, ServerSends(t, n), srv # "idle", UNCHANGED poisoned,
              t \in {"Pong", "EndOfStream", "Exception", "Data", "DataBlock", "Progress", "Log"},
              t \in {"Pong", "EndOfStream", "Exception"} => srv' = "idle"
       PROVE  Aligned'
  <2>1. UNCHANGED <<pc, out, state, item, srvTag, up, tag>>
    BY <1>24 DEF ServerSends, actorVars
  <2>2. (NoStatement' <=> NoStatement) /\ (Fresh' <=> Fresh) /\ ~Quiet
    BY <1>24, <2>1 DEF NoStatement, Fresh, Quiet
  <2> DEFINE p == [t |-> t, tag |-> srvTag, n |-> n]
  <2>3. p \in Packet /\ p.tag = srvTag /\ p.t = t
    BY <1>24 DEF Packet, ServerTypes
  <2>4. pipe' = Append(pipe, p)
    BY <1>24 DEF ServerSends
  <2> HIDE DEF p
  <2>5. Own => Own'
    BY <1>24, <2>1, <2>3, <2>4, SendPacket DEF IsTerminal
  <2> QED
    BY <1>24, <2>2, <2>5 DEF Aligned
<1>25. ASSUME NEW t \in {"Progress", "Log"}, ServerChatters(t) PROVE Aligned'
  BY <1>24, <1>25 DEF ServerChatters, ServerSends, flagVars
<1>26. ASSUME ServerBlock PROVE Aligned'
  <2>1. sent[srvTag] + 1 \in Nat
    BY <1>26 DEF ServerBlock, CallsMade, ServerTypes
  <2> QED
    BY <1>24, <1>26, <2>1, SMT DEF ServerBlock, ServerSends, flagVars
<1>27. ASSUME ServerSchema \/ ServerRows PROVE Aligned'
  BY <1>24, <1>27, SMT DEF ServerSchema, ServerRows, ServerSends, flagVars
<1>28. ASSUME ServerEnds \/ ServerRejects PROVE Aligned'
  BY <1>24, <1>28 DEF ServerEnds, ServerRejects, ServerSends, flagVars
<1>29. CASE UNCHANGED vars
  BY <1>29, BystanderAligned DEF vars, actorVars, flagVars, readerVars, serverVars
<1> QED
  BY <1>1, <1>2, <1>3, <1>4, <1>5, <1>6, <1>7, <1>8, <1>9, <1>10, <1>11, <1>12, <1>13, <1>14,
     <1>15, <1>16, <1>17, <1>18, <1>19, <1>20, <1>21, <1>22, <1>23, <1>25, <1>26, <1>27, <1>28,
     <1>29
     DEF Next, CallerStep, ActorStep, ReaderStep, ServerStep

-----------------------------------------------------------------------------
(* Layer 3 *)

LEMMA InitProvenance == Init => Provenance
  BY SMT DEF Init, Provenance, Entitled, NoAnswer

\* What every step but Submit has to show.
LEMMA StepProvenance ==
    ASSUME CallTypes, Provenance, kind' = kind,
           \A d \in Calls : caller'[d] = "new" <=> caller[d] = "new",
           state' = "InsertActive" => Made(tag') /\ kind[tag'] = "begin",
           pc' = "forward" => item'.tag \in {None, cur'},
           \A d \in Calls : \A i \in 1..Len(frames'[d]) : frames'[d][i].tag \in {None, d},
           \A d \in Calls : answer'[d] = answer[d] \/ (caller[d] # "new" /\ Entitled(d, answer'[d].tag))
    PROVE  Provenance'
<1>1. \A t : Made(t) => Made(t)'
  BY DEF Made
<1>2. \A d \in Calls : Entitled(d, answer'[d].tag)
  BY DEF Provenance
<1>3. \A d \in Calls : Entitled(d, answer[d].tag)'
  BY <1>1, <1>2 DEF Entitled
<1>4. (state = "InsertActive" => Made(tag) /\ kind[tag] = "begin")'
  BY <1>1
<1>5. \A d \in Calls : caller'[d] = "new" => answer'[d] = NoAnswer
  BY DEF Provenance
<1> QED
  BY <1>3, <1>4, <1>5 DEF Provenance

LEMMA SettleProvenance ==
    ASSUME CallTypes, NEW c \in Calls, NEW o, NEW t, Settle(c, o, t), Made(c), Entitled(c, t)
    PROVE  /\ \A d \in Calls : answer'[d] = answer[d] \/ (caller[d] # "new" /\ Entitled(d, answer'[d].tag))
           /\ pc' = "forward" => item'.tag \in {None, cur'}
<1>1. CASE kind[c] = "stream"
  <2>1. answer' = answer /\ cur' = c /\ item'.tag = t
    BY <1>1, SMT DEF Settle
  <2>2. t \in {None, c}
    BY <1>1 DEF Entitled, InsertContinuation
  <2> QED
    BY <2>1, <2>2
<1>2. CASE kind[c] # "stream"
  BY <1>2, SMT DEF Settle, HandlerReturns, Reply, CallTypes, Made
<1> QED
  BY <1>1, <1>2

\* The statement in progress is one whose outcome the current command may report.
LEMMA CurEntitled ==
    ASSUME Inv1, Provenance, pc \in {"peek", "write", "read", "drain"}
    PROVE  cur \in Calls /\ Made(cur) /\ Entitled(cur, tag)
<1>1. Made(cur) /\ cur \in Calls
  BY DEF Inv1, CallsMade, Made
<1>2. CASE kind[cur] \in InsertContinuation
  <2>1. state = "InsertActive"
    BY <1>2 DEF Inv1, Control, InsertContinuation
  <2> QED
    BY <1>1, <1>2, <2>1 DEF Provenance, Entitled
<1>3. CASE kind[cur] \notin InsertContinuation
  <2>1. tag = cur
    BY <1>3 DEF Inv1, Statement, Control, InsertContinuation
  <2> QED
    BY <1>1, <1>3, <2>1 DEF Entitled
<1> QED
  BY <1>1, <1>2, <1>3

\* A step of a caller, of the reader or of the server that tells nobody anything.
LEMMA BystanderProvenance ==
    ASSUME CallTypes, Provenance, UNCHANGED <<kind, answer, frames, state, tag, pc, item, cur>>,
           \A d \in Calls : caller'[d] = "new" <=> caller[d] = "new"
    PROVE  Provenance'
<1>1. \A d \in Calls : \A i \in 1..Len(frames'[d]) : frames'[d][i].tag \in {None, d}
  BY DEF Provenance
<1>2. /\ state' = "InsertActive" => Made(tag') /\ kind[tag'] = "begin"
      /\ pc' = "forward" => item'.tag \in {None, cur'}
  BY DEF Provenance
<1> QED
  BY <1>1, <1>2, StepProvenance

\* A step of the actor that forwards nothing and starts no INSERT.
LEMMA ActorProvenance ==
    ASSUME CallTypes, Provenance, UNCHANGED <<kind, caller, frames>>,
           state' = "InsertActive" => state = "InsertActive" /\ tag' = tag,
           pc' = "forward" => item'.tag \in {None, cur'},
           \A d \in Calls : answer'[d] = answer[d] \/ (caller[d] # "new" /\ Entitled(d, answer'[d].tag))
    PROVE  Provenance'
<1>1. \A d \in Calls : \A i \in 1..Len(frames'[d]) : frames'[d][i].tag \in {None, d}
  BY DEF Provenance
<1>2. state' = "InsertActive" => Made(tag') /\ kind[tag'] = "begin"
  BY DEF Provenance
<1> QED
  BY <1>1, <1>2, StepProvenance

LEMMA NextProvenance == Inv1 /\ Aligned /\ Provenance /\ [Next]_vars => Provenance'
<1> SUFFICES ASSUME Inv1, Aligned, Provenance, [Next]_vars PROVE Provenance'
  OBVIOUS
<1> USE DEF Inv1, TypeOK
<1>1. ASSUME NEW c \in Calls, NEW k \in Kinds, Submit(c, k) PROVE Provenance'
  <2>1. /\ UNCHANGED <<answer, frames, state, tag, pc, item, cur>> /\ caller[c] = "new"
        /\ kind' = [kind EXCEPT ![c] = k] /\ caller' = [caller EXCEPT ![c] = "waiting"]
    BY <1>1 DEF Submit, actorVars, streamVars
  <2>2. \A t : Made(t) => Made(t)' /\ kind'[t] = kind[t]
    BY <2>1 DEF Made, CallTypes
  <2>3. ASSUME NEW d \in Calls PROVE Entitled(d, answer[d].tag)'
    <3>1. CASE d = c
      <4>1. answer'[d] = NoAnswer
        BY <2>1, <3>1 DEF Provenance
      <4>2. answer'[d].tag = None
        BY <4>1, SMT DEF NoAnswer
      <4> QED
        BY <4>2 DEF Entitled
    <3>2. CASE d # c
      <4>1. Entitled(d, answer[d].tag) /\ kind'[d] = kind[d] /\ answer'[d] = answer[d]
        BY <2>1, <3>2 DEF Provenance, CallTypes
      <4> QED
        BY <2>2, <4>1 DEF Entitled
    <3> QED
      BY <3>1, <3>2
  <2>4. \A d \in Calls : caller'[d] = "new" => answer'[d] = NoAnswer
    BY <2>1 DEF Provenance, CallTypes
  <2>5. /\ (state = "InsertActive" => Made(tag) /\ kind[tag] = "begin")'
        /\ (pc = "forward" => item.tag \in {None, cur})'
        /\ (\A d \in Calls : \A i \in 1..Len(frames[d]) : frames[d][i].tag \in {None, d})'
    BY <2>1, <2>2 DEF Provenance
  <2> QED
    BY <2>3, <2>4, <2>5 DEF Provenance
<1>2. ASSUME NEW c \in Calls, Enqueue(c) PROVE Provenance'
  BY <1>2, BystanderProvenance DEF Enqueue, streamVars
<1>3. ASSUME NEW c \in Calls, SendClosed(c) PROVE Provenance'
  <2>1. \A d \in Calls : answer'[d] = answer[d] \/ (caller[d] # "new" /\ Entitled(d, answer'[d].tag))
    BY <1>3 DEF SendClosed, CallTypes, Entitled
  <2>2. pc' = "forward" => item'.tag \in {None, cur'}
    BY <1>3 DEF SendClosed, actorVars
  <2> QED
    BY <1>3, <2>1, <2>2, ActorProvenance DEF SendClosed, actorVars, streamVars
<1>4. ASSUME NEW c \in Calls, Return(c) \/ Drop(c) PROVE Provenance'
  <2>1. \A d \in Calls : caller'[d] = "new" <=> caller[d] = "new"
    BY <1>4 DEF Return, Drop, CallTypes
  <2> QED
    BY <1>4, <2>1, BystanderProvenance DEF Return, Drop, actorVars, streamVars
<1>5. ASSUME NEW c \in Calls, CursorNext(c) PROVE Provenance'
  <2>1. /\ UNCHANGED <<kind, caller, state, tag, pc, item, cur>>
        /\ caller[c] = "waiting" /\ kind[c] = "stream"
        /\ frames' = frames \/ (frames[c] # <<>> /\ frames' = [frames EXCEPT ![c] = Tail(frames[c])])
    BY <1>5 DEF CursorNext, actorVars, streamVars
  <2>2. Made(c)
    BY <2>1 DEF Made, CallsMade
  <2>3. frames[c] # <<>> => Head(frames[c]).tag \in {None, c}
    BY TailFacts, SMT DEF Provenance, StreamTypes
  <2>4. \A d \in Calls : answer'[d] = answer[d] \/ (caller[d] # "new" /\ Entitled(d, answer'[d].tag))
    <3>1. \/ answer' = answer
          \/ answer' = [answer EXCEPT ![c] = [out |-> "dropped", tag |-> None]]
          \/ /\ frames[c] # <<>>
             /\ answer' = [answer EXCEPT ![c] = [out |-> Head(frames[c]).f, tag |-> Head(frames[c]).tag]]
      BY <1>5 DEF CursorNext
    <3>2. Entitled(c, None) /\ Entitled(c, c)
      BY <2>1, <2>2 DEF Entitled, InsertContinuation
    <3>3. \A d \in Calls : d # c => answer'[d] = answer[d]
      BY <3>1 DEF CallTypes
    <3>4. \/ answer'[c] = answer[c]
          \/ answer'[c].tag = None
          \/ frames[c] # <<>> /\ answer'[c].tag = Head(frames[c]).tag
      BY <3>1, SMT DEF CallTypes
    <3>5. answer'[c] = answer[c] \/ Entitled(c, answer'[c].tag)
      BY <2>3, <3>2, <3>4
    <3> QED
      BY <2>1, <3>3, <3>5
  <2>5. ASSUME NEW d \in Calls, NEW i \in 1..Len(frames'[d])
        PROVE  frames'[d][i].tag \in {None, d}
    <3>1. CASE frames'[d] = frames[d]
      BY <3>1 DEF Provenance
    <3>2. CASE frames'[d] # frames[d]
      <4>1. d = c /\ frames[c] # <<>> /\ frames'[d] = Tail(frames[c])
        BY <2>1, <3>2 DEF StreamTypes
      <4>2. i + 1 \in 1..Len(frames[c]) /\ frames'[d][i] = frames[c][i + 1]
        BY <4>1, TailFacts, SMT DEF StreamTypes
      <4> QED
        BY <4>1, <4>2 DEF Provenance
    <3> QED
      BY <3>1, <3>2
  <2>6. /\ state' = "InsertActive" => Made(tag') /\ kind[tag'] = "begin"
        /\ pc' = "forward" => item'.tag \in {None, cur'}
    BY <2>1 DEF Provenance
  <2> QED
    BY <2>1, <2>4, <2>5, <2>6, StepProvenance
<1>6. ASSUME RequestShutdown \/ ReaderStep \/ LinkCloses PROVE Provenance'
  BY <1>6, BystanderProvenance
     DEF RequestShutdown, ReaderStep, ReaderDelivers, ReaderFails, ReaderReports, ReaderPanics,
         LinkCloses, callVars, actorVars, streamVars
<1>7. ASSUME NEW c \in Calls, Handle(c) PROVE Provenance'
  <2>1. /\ UNCHANGED <<kind, caller, frames, state>> /\ pc = "recv"
    BY <1>7 DEF Handle, streamVars
  <2>2. Made(c)
    <3>1. c = queue[1] /\ 1 \in 1..Len(queue)
      BY <1>7, TailFacts, SMT DEF Handle, ActorTypes
    <3> QED
      BY <3>1 DEF CallsMade
  <2>3. CASE Refuses(c)
    <3>1. Settle(c, "refused", None) /\ tag' = tag
      BY <1>7, <2>3 DEF Handle
    <3>2. Entitled(c, None)
      BY DEF Entitled
    <3> QED
      BY <2>1, <2>2, <3>1, <3>2, SettleProvenance, ActorProvenance
  <2>4. CASE ~Refuses(c)
    <3>1. answer' = answer /\ pc' # "forward"
      BY <1>7, <2>4 DEF Handle
    <3>2. state = "InsertActive" => tag' = tag
      BY <1>7, <2>2, <2>4 DEF Handle, Refuses, StateGate, Oversize, InsertContinuation, Made
    <3> QED
      BY <2>1, <3>1, <3>2, ActorProvenance
  <2> QED
    BY <2>3, <2>4
<1>8. ASSUME Stop \/ Exit PROVE Provenance'
  <2>1. UNCHANGED <<kind, caller, frames, state, tag>> /\ pc' # "forward"
    BY <1>8 DEF Stop, Exit, callVars, streamVars
  <2>2. \A d \in Calls : answer'[d] = answer[d] \/ (caller[d] # "new" /\ Entitled(d, answer'[d].tag))
    BY <1>8, SMT DEF Stop, Exit, callVars, CallTypes, Entitled
  <2> QED
    BY <2>1, <2>2, ActorProvenance
<1>9. ASSUME WriteDone \/ WriteFails PROVE Provenance'
  <2>1. /\ UNCHANGED <<kind, caller, frames, tag>> /\ pc = "write"
        /\ state' = "InsertActive" => state = "InsertActive"
    BY <1>9 DEF WriteDone, WriteFails, streamVars
  <2>2. cur \in Calls /\ Made(cur) /\ Entitled(cur, tag) /\ Entitled(cur, None)
    BY <2>1, CurEntitled DEF Entitled
  <2>3. \/ Settle(cur, "ok", tag)
        \/ Settle(cur, "failed", None)
        \/ answer' = answer /\ pc' # "forward"
    BY <1>9 DEF WriteDone, WriteFails, HandlerReturns
  <2> QED
    BY <2>1, <2>2, <2>3, SettleProvenance, ActorProvenance
<1>10. ASSUME PeekPacket \/ PeekDead \/ PeekEmpty PROVE Provenance'
  <2>1. /\ UNCHANGED <<kind, caller, frames, tag>> /\ pc = "peek"
        /\ state' = "InsertActive" => state = "InsertActive"
    BY <1>10 DEF PeekPacket, PeekDead, PeekEmpty, callVars, streamVars
  <2>2. cur \in Calls /\ Made(cur) /\ Entitled(cur, tag) /\ Entitled(cur, None)
    BY <2>1, CurEntitled DEF Entitled
  <2>3. PeekPacket => Head(pipe).tag = tag
    BY <2>1, ConsumeOwn DEF PeekPacket, Aligned, NoStatement, Fresh, serverVars
  <2>4. \/ Settle(cur, "exception", tag)
        \/ Settle(cur, "failed", None)
        \/ answer' = answer /\ pc' # "forward"
    BY <1>10, <2>1, <2>3 DEF PeekPacket, PeekDead, PeekEmpty, callVars
  <2> QED
    BY <2>1, <2>2, <2>4, SettleProvenance, ActorProvenance
<1>11. ASSUME ReadPacket PROVE Provenance'
  <2> DEFINE o == ReadOutcome(kind[cur], Head(pipe))
  <2>1. /\ UNCHANGED <<kind, caller, frames, tag>> /\ pc = "read" /\ state = "Idle"
        /\ kind[cur] \notin InsertContinuation
    BY <1>11 DEF ReadPacket, Control, InsertContinuation, streamVars
  <2>2. cur \in Calls /\ Made(cur) /\ Entitled(cur, tag)
    BY <2>1, CurEntitled
  <2>3. tag = cur
    BY <2>1 DEF Statement
  <2>4. Head(pipe).tag = tag
    BY <1>11, <2>1, ConsumeOwn DEF ReadPacket, Aligned, NoStatement, Fresh, serverVars
  <2>5. state' = "InsertActive" => Made(tag') /\ kind[tag'] = "begin"
    BY <1>11, <2>1, <2>2, <2>3 DEF ReadPacket
  <2>6. \/ Settle(cur, o, tag)
        \/ answer' = answer /\ (pc' = "forward" => item'.tag = tag /\ cur' = cur)
    <3>1. CASE o = "ignore"
      BY <1>11, <2>1, <3>1 DEF ReadPacket
    <3>2. CASE o \in {"block", "other"}
      BY <1>11, <2>4, <3>2, SMT DEF ReadPacket
    <3>3. CASE o \notin {"ignore", "block", "other"}
      BY <1>11, <2>4, <3>3 DEF ReadPacket
    <3> QED
      BY <3>1, <3>2, <3>3
  <2> HIDE DEF o
  <2>7. \A d \in Calls : \A i \in 1..Len(frames'[d]) : frames'[d][i].tag \in {None, d}
    BY <2>1 DEF Provenance
  <2> QED
    BY <2>1, <2>2, <2>3, <2>5, <2>6, <2>7, SettleProvenance, StepProvenance
<1>12. ASSUME ReadDead \/ ReadTimesOut \/ ReadCancels PROVE Provenance'
  <2>1. UNCHANGED <<kind, caller, frames, tag, state>> /\ pc = "read"
    BY <1>12 DEF ReadDead, ReadTimesOut, ReadCancels, callVars, streamVars
  <2>2. cur \in Calls /\ Made(cur) /\ Entitled(cur, None)
    BY <2>1, CurEntitled DEF Entitled
  <2>3. Settle(cur, "failed", None) \/ (answer' = answer /\ pc' # "forward")
    BY <1>12 DEF ReadDead, ReadTimesOut, ReadCancels, StartCancel, callVars
  <2> QED
    BY <2>1, <2>2, <2>3, SettleProvenance, ActorProvenance
<1>13. ASSUME Forward PROVE Provenance'
  <2>1. /\ UNCHANGED <<kind, caller, answer, tag, state>> /\ pc' # "forward" /\ pc = "forward"
        /\ frames' = [frames EXCEPT ![cur] = Append(frames[cur], item)]
    BY <1>13 DEF Forward, HandlerReturns
  <2>2. cur \in Calls /\ item.tag \in {None, cur} /\ item \in Frame
    BY <2>1 DEF CallsMade, Made, Provenance, ActorTypes
  <2>3. ASSUME NEW d \in Calls, NEW i \in 1..Len(frames'[d])
        PROVE  frames'[d][i].tag \in {None, d}
    <3>1. CASE d = cur
      <4>1. frames'[d] = Append(frames[d], item) /\ frames[d] \in Seq(Frame)
        BY <2>1, <3>1 DEF StreamTypes
      <4>2. frames'[d][i] = item \/ (i \in 1..Len(frames[d]) /\ frames'[d][i] = frames[d][i])
        BY <2>2, <4>1, AppendFacts, SMT
      <4> QED
        BY <2>2, <3>1, <4>2 DEF Provenance
    <3>2. CASE d # cur
      <4>1. frames'[d] = frames[d]
        BY <2>1, <3>2 DEF StreamTypes
      <4> QED
        BY <4>1 DEF Provenance
    <3> QED
      BY <3>1, <3>2
  <2>4. state' = "InsertActive" => Made(tag') /\ kind[tag'] = "begin"
    BY <2>1 DEF Provenance
  <2> QED
    BY <2>1, <2>3, <2>4, StepProvenance
<1>14. ASSUME ForwardGone PROVE Provenance'
  <2>1. UNCHANGED <<kind, caller, frames, tag, state, answer>> /\ pc' # "forward"
    BY <1>14 DEF ForwardGone, HandlerReturns, StartCancel, streamVars
  <2> QED
    BY <2>1, ActorProvenance
<1>15. ASSUME DrainPacket \/ DrainDead \/ DrainTimesOut PROVE Provenance'
  <2>1. /\ UNCHANGED <<kind, caller, frames, tag>> /\ pc = "drain"
        /\ state' = "InsertActive" => state = "InsertActive"
    BY <1>15 DEF DrainPacket, DrainDead, DrainTimesOut, DrainEnds, streamVars
  <2>2. cur \in Calls /\ Made(cur) /\ Entitled(cur, tag) /\ Entitled(cur, None)
    BY <2>1, CurEntitled DEF Entitled
  <2>3. DrainPacket => Head(pipe).tag = tag
    BY <2>1, ConsumeOwn DEF DrainPacket, Aligned, NoStatement, Fresh, serverVars
  <2>4. \/ Settle(cur, "ok", tag)
        \/ Settle(cur, "exception", tag)
        \/ Settle(cur, "failed", None)
        \/ answer' = answer /\ pc' # "forward"
    BY <1>15, <2>1, <2>3 DEF DrainPacket, DrainDead, DrainTimesOut, DrainEnds, HandlerReturns
  <2> QED
    BY <2>1, <2>2, <2>4, SettleProvenance, ActorProvenance
<1>16. ASSUME ServerReads PROVE Provenance'
  BY <1>16, BystanderProvenance DEF ServerReads, callVars, actorVars, streamVars
<1>17. ASSUME NEW t, NEW n, ServerSends(t, n) PROVE Provenance'
  BY <1>17, BystanderProvenance DEF ServerSends, callVars, actorVars, streamVars
<1>18. ASSUME \E t \in {"Progress", "Log"} : ServerChatters(t) PROVE Provenance'
  BY <1>17, <1>18 DEF ServerChatters
<1>19. ASSUME ServerBlock \/ ServerSchema \/ ServerRows PROVE Provenance'
  BY <1>17, <1>19 DEF ServerBlock, ServerSchema, ServerRows
<1>20. ASSUME ServerEnds \/ ServerRejects PROVE Provenance'
  BY <1>17, <1>20 DEF ServerEnds, ServerRejects
<1>21. CASE UNCHANGED vars
  BY <1>21, BystanderProvenance DEF vars, callVars, actorVars, streamVars
<1> QED
  BY <1>1, <1>2, <1>3, <1>4, <1>5, <1>6, <1>7, <1>8, <1>9, <1>10, <1>11, <1>12, <1>13, <1>14,
     <1>15, <1>16, <1>18, <1>19, <1>20, <1>21
     DEF Next, CallerStep, ActorStep, ServerStep

-----------------------------------------------------------------------------
(* The theorems *)

\* The byte stream stays aligned with the actor: which command can be handled
\* where, what is outstanding belongs to the statement in progress, and every
\* outcome belongs to the call it is given to (handle() and its handlers).
THEOREM Invariance == Spec => []IInv
<1>1. Init => IInv
  BY InitInv1, InitAligned, InitProvenance DEF IInv
<1>2. IInv /\ [Next]_vars => IInv'
  BY NextInv1, NextAligned, NextProvenance DEF IInv
<1> QED
  BY <1>1, <1>2, PTL DEF Spec

\* However calls, cancellations, timeouts, socket failures and shutdown
\* interleave, a connection whose actor is between commands and which is_alive()
\* reports usable has nothing of an earlier statement outstanding.
THEOREM ReusableConnection == Spec => []ReusableIsClean
<1>1. IInv => ReusableIsClean
  BY DEF IInv, Aligned, ReusableIsClean, Between, NoStatement
<1> QED
  BY <1>1, Invariance, PTL

\* Every packet that do_send_insert_block, the read loops or
\* drain_to_end_of_stream can take from pkt_rx answers the statement of the
\* command they run for.
THEOREM ReadsAreOwn == Spec => []ReadsOwnResponse
<1>1. IInv => ReadsOwnResponse
  BY DEF IInv, Aligned, ReadsOwnResponse, NoStatement, Fresh, Own
<1> QED
  BY <1>1, Invariance, PTL

\* No reply, and no frame a cursor returns as its outcome, comes from a
\* statement of another caller.
THEOREM AnswersAreOwn == Spec => []OwnAnswer
<1>1. IInv => OwnAnswer
  BY DEF IInv, Provenance, Entitled, OwnAnswer, InsertContinuation
<1> QED
  BY <1>1, Invariance, PTL

=============================================================================
