----------------------- MODULE ConnectionStreamProofs -----------------------
(***************************************************************************)
(* The seventh layer of the invariant of ConnectionDelivery: the blocks of a *)
(* streaming SELECT, from the server through both channels to the cursor;  *)
(* and the theorems that follow from all the layers, for every set of      *)
(* calls and every capacity.                                               *)
(***************************************************************************)
EXTENDS ConnectionDeliveryProofs, ConnectionProofs

\* Most steps are first-order; the ones with arithmetic, records or sequences
\* name SMT.
USE ZenonT(20)

-----------------------------------------------------------------------------
(* Layer 7: streaming SELECT *)

\* Numbered items in order.
Numbered(q) == Len(q) \in Nat /\ \A i \in 1..Len(q) : q[i].n \in Nat

LEMMA ExactlyEmpty ==
    ASSUME NEW q, q = <<>>, NEW k \in Nat
    PROVE  Exactly(q, k, k)
  BY SMT DEF Exactly

LEMMA ExactlyAppend ==
    ASSUME NEW q, NEW r, Numbered(q), NEW lo \in Nat, NEW hi \in Nat, Exactly(q, lo, hi),
           Len(r) = Len(q) + 1, \A i \in 1..Len(q) : r[i] = q[i], r[Len(q) + 1].n \in Nat
    PROVE  /\ r[Len(q) + 1].n = 0 => Exactly(r, lo, hi)
           /\ r[Len(q) + 1].n = hi + 1 => Exactly(r, lo, hi + 1)
<1> DEFINE l == Len(q) + 1
           e == r[l].n
<1>1. /\ Len(q) \in Nat /\ l \in Nat /\ Len(r) = l /\ 1..Len(r) = (1..Len(q)) \cup {l}
      /\ \A i \in 1..Len(q) : r[i] = q[i] /\ q[i].n \in Nat /\ i < l
  BY SMT DEF Numbered
<1>2. /\ lo <= hi
      /\ \A i \in 1..Len(q) : q[i].n # 0 => lo < q[i].n /\ q[i].n <= hi
      /\ \A n \in lo + 1 .. hi : \E i \in 1..Len(q) : q[i].n = n
      /\ \A i, j \in 1..Len(q) : i < j /\ q[i].n # 0 /\ q[j].n # 0 => q[i].n < q[j].n
  BY DEF Exactly
<1> HIDE DEF l
<1>3. ASSUME e = 0 PROVE Exactly(r, lo, hi)
  <2>1. \A i \in 1..Len(r) : r[i].n # 0 => lo < r[i].n /\ r[i].n <= hi
    BY <1>1, <1>2, <1>3, SMT
  <2>2. \A n \in lo + 1 .. hi : \E i \in 1..Len(r) : r[i].n = n
    BY <1>1, <1>2
  <2>3. \A i, j \in 1..Len(r) : i < j /\ r[i].n # 0 /\ r[j].n # 0 => r[i].n < r[j].n
    BY <1>1, <1>2, <1>3, SMTT(30)
  <2> QED
    BY <1>2, <2>1, <2>2, <2>3 DEF Exactly
<1>4. ASSUME e = hi + 1 PROVE Exactly(r, lo, hi + 1)
  <2>1. \A i \in 1..Len(r) : r[i].n # 0 => lo < r[i].n /\ r[i].n <= hi + 1
    BY <1>1, <1>2, <1>4, SMT
  <2>2. ASSUME NEW n \in lo + 1 .. hi + 1 PROVE \E i \in 1..Len(r) : r[i].n = n
    <3>1. CASE n = hi + 1
      BY <1>1, <1>4, <3>1
    <3>2. CASE n # hi + 1
      <4>1. n \in lo + 1 .. hi
        BY <3>2, SMT
      <4>2. PICK i \in 1..Len(q) : q[i].n = n
        BY <1>2, <4>1
      <4> QED
        BY <1>1, <4>2
    <3> QED
      BY <3>1, <3>2
  <2>3. ASSUME NEW i \in 1..Len(r), NEW j \in 1..Len(r), i < j, r[i].n # 0, r[j].n # 0
        PROVE  r[i].n < r[j].n
    <3>1. i \in 1..Len(q) /\ r[i].n = q[i].n /\ q[i].n <= hi
      BY <1>1, <1>2, <2>3, SMT
    <3>2. CASE j \in 1..Len(q)
      BY <1>1, <1>2, <2>3, <3>1, <3>2
    <3>3. CASE j = l
      BY <1>1, <1>4, <3>1, <3>3, SMT
    <3> QED
      BY <1>1, <3>2, <3>3
  <2>4. lo <= hi + 1
    BY <1>2, SMT
  <2> QED
    BY <2>1, <2>2, <2>3, <2>4 DEF Exactly
<1> QED
  BY <1>3, <1>4 DEF l

LEMMA ExactlyTail ==
    ASSUME NEW q, NEW r, Numbered(q), NEW lo \in Nat, NEW hi \in Nat, Exactly(q, lo, hi),
           1 \in 1..Len(q), Len(r) = Len(q) - 1,
           \A i \in 1..Len(r) : i + 1 \in 1..Len(q) /\ r[i] = q[i + 1]
    PROVE  /\ q[1].n = 0 => Exactly(r, lo, hi)
           /\ q[1].n # 0 => q[1].n = lo + 1 /\ lo + 1 <= hi /\ Exactly(r, lo + 1, hi)
<1>1. /\ Len(q) \in Nat /\ Len(r) \in Nat
      /\ \A i \in 1..Len(q) : q[i].n \in Nat /\ (i # 1 => i - 1 \in 1..Len(r) /\ r[i - 1] = q[i])
      /\ \A i \in 1..Len(r) : i + 1 \in 1..Len(q) /\ r[i] = q[i + 1] /\ 1 < i + 1
  BY SMT DEF Numbered
<1>2. /\ lo <= hi
      /\ \A i \in 1..Len(q) : q[i].n # 0 => lo < q[i].n /\ q[i].n <= hi
      /\ \A n \in lo + 1 .. hi : \E i \in 1..Len(q) : q[i].n = n
      /\ \A i, j \in 1..Len(q) : i < j /\ q[i].n # 0 /\ q[j].n # 0 => q[i].n < q[j].n
  BY DEF Exactly
<1>3. ASSUME NEW i \in 1..Len(r), NEW j \in 1..Len(r), i < j, r[i].n # 0, r[j].n # 0
      PROVE  r[i].n < r[j].n
  <2>1. i + 1 \in 1..Len(q) /\ j + 1 \in 1..Len(q) /\ r[i] = q[i + 1] /\ r[j] = q[j + 1]
    BY <1>1
  <2>2. i + 1 < j + 1
    BY <1>1, <1>3, SMT
  <2> QED
    BY <1>2, <1>3, <2>1, <2>2, SMTT(30)
<1>4. ASSUME q[1].n = 0 PROVE Exactly(r, lo, hi)
  <2>1. ASSUME NEW i \in 1..Len(r), r[i].n # 0 PROVE lo < r[i].n /\ r[i].n <= hi
    <3>1. i + 1 \in 1..Len(q) /\ r[i] = q[i + 1]
      BY <1>1
    <3> QED
      BY <1>2, <2>1, <3>1
  <2>2. ASSUME NEW n \in lo + 1 .. hi PROVE \E i \in 1..Len(r) : r[i].n = n
    <3>1. PICK i \in 1..Len(q) : q[i].n = n
      BY <1>2
    <3>2. i # 1
      BY <1>4, <3>1, SMT
    <3> QED
      BY <1>1, <3>1, <3>2
  <2> QED
    BY <1>2, <1>3, <2>1, <2>2 DEF Exactly
<1>5. ASSUME q[1].n # 0
      PROVE  q[1].n = lo + 1 /\ lo + 1 <= hi /\ Exactly(r, lo + 1, hi)
  <2>1. lo < q[1].n /\ q[1].n <= hi /\ q[1].n \in Nat
    BY <1>1, <1>2, <1>5
  <2>2. lo + 1 \in lo + 1 .. hi
    BY <2>1, SMT
  <2>3. PICK k \in 1..Len(q) : q[k].n = lo + 1
    BY <1>2, <2>2
  <2>4. q[1].n = lo + 1
    <3>1. k # 1 => 1 < k
      BY <1>1, SMT
    <3>2. k # 1 => q[1].n < lo + 1
      BY <1>2, <1>5, <2>3, <3>1, SMT
    <3> QED
      BY <2>1, <2>3, <3>2, SMT
  <2>5. ASSUME NEW i \in 1..Len(r), r[i].n # 0 PROVE lo + 1 < r[i].n /\ r[i].n <= hi
    <3>1. i + 1 \in 1..Len(q) /\ r[i].n = q[i + 1].n /\ 1 < i + 1
      BY <1>1
    <3> QED
      BY <1>2, <1>5, <2>4, <2>5, <3>1
  <2>6. ASSUME NEW n \in (lo + 1) + 1 .. hi PROVE \E i \in 1..Len(r) : r[i].n = n
    <3>1. n \in lo + 1 .. hi /\ n # lo + 1
      BY SMT
    <3>2. PICK i \in 1..Len(q) : q[i].n = n
      BY <1>2, <3>1
    <3>3. i # 1
      BY <2>4, <3>1, <3>2
    <3>4. i - 1 \in 1..Len(r) /\ r[i - 1] = q[i]
      BY <1>1, <3>3
    <3> QED
      BY <3>2, <3>4
  <2>7. lo + 1 <= hi
    BY <2>1, <2>4
  <2>8. Exactly(r, lo + 1, hi)
    BY <1>3, <2>5, <2>6, <2>7 DEF Exactly
  <2> QED
    BY <2>4, <2>7, <2>8
<1> QED
  BY <1>4, <1>5

LEMMA ExactlyNone ==
    ASSUME NEW q, NEW lo \in Nat, NEW hi \in Nat, Exactly(q, lo, hi), \A i \in 1..Len(q) : q[i].n = 0
    PROVE  lo = hi
<1>1. lo # hi => lo + 1 \in lo + 1 .. hi
  BY SMT DEF Exactly
<1>2. lo # hi => \E i \in 1..Len(q) : q[i].n = lo + 1
  BY <1>1 DEF Exactly
<1> QED
  BY <1>2, SMT

\* Whoever moves the frames of a cursor.
LEMMA StreamStep ==
    ASSUME [Next]_vars
    PROVE  UNCHANGED <<frames, delivered>> \/ Forward \/ \E c \in Calls : CursorNext(c)
<1> USE DEF streamVars
<1>1. ASSUME NEW c \in Calls,
             \/ \E k \in Kinds : Submit(c, k)
             \/ Enqueue(c) \/ SendClosed(c) \/ Return(c) \/ Drop(c) \/ Handle(c)
      PROVE  UNCHANGED <<frames, delivered>>
  BY <1>1 DEF Submit, Enqueue, SendClosed, Return, Drop, Handle
<1>2. ASSUME Stop \/ Exit \/ WriteDone \/ WriteFails \/ PeekPacket \/ PeekDead \/ PeekEmpty
      PROVE  UNCHANGED <<frames, delivered>>
  BY <1>2 DEF Stop, Exit, WriteDone, WriteFails, PeekPacket, PeekDead, PeekEmpty
<1>3. ASSUME \/ ReadPacket \/ ReadDead \/ ReadTimesOut \/ ReadCancels \/ ForwardGone
             \/ DrainPacket \/ DrainDead \/ DrainTimesOut
      PROVE  UNCHANGED <<frames, delivered>>
  BY <1>3 DEF ReadPacket, ReadDead, ReadTimesOut, ReadCancels, ForwardGone, DrainPacket, DrainDead,
              DrainTimesOut
<1>4. ASSUME RequestShutdown \/ ReaderStep \/ ServerStep \/ UNCHANGED vars
      PROVE  UNCHANGED <<frames, delivered>>
  BY <1>4, BystanderFrame
<1> QED
  BY <1>1, <1>2, <1>3, <1>4 DEF Next, CallerStep, ActorStep

\* The caller of a stream gets its outcome from its cursor.
LEMMA StreamAnswer ==
    ASSUME Inv1, [Next]_vars, NEW c \in Calls, kind[c] = "stream"
    PROVE  answer'[c] = answer[c] \/ CursorNext(c) \/ SendClosed(c)
<1>1. ASSUME NEW d \in Calls, NEW o, NEW t, Settle(d, o, t) PROVE answer'[c] = answer[c]
  BY <1>1, SettleFacts
<1>2. ASSUME NEW d \in Calls,
             \/ \E k \in Kinds : Submit(d, k)
             \/ Enqueue(d) \/ SendClosed(d) \/ Return(d) \/ Drop(d) \/ CursorNext(d)
      PROVE  answer'[c] = answer[c] \/ CursorNext(c) \/ SendClosed(c)
  <2>1. CASE (\E k \in Kinds : Submit(d, k)) \/ Enqueue(d) \/ Return(d) \/ Drop(d)
    BY <2>1 DEF Submit, Enqueue, Return, Drop
  <2>2. CASE SendClosed(d)
    <3>1. answer' = [answer EXCEPT ![d] = [out |-> "closed", tag |-> None]]
      BY <2>2 DEF SendClosed
    <3>2. d # c => answer'[c] = answer[c]
      BY <3>1 DEF Inv1, TypeOK, CallTypes
    <3> QED
      BY <2>2, <3>2
  <2>3. CASE CursorNext(d)
    <3>1. d # c => answer'[c] = answer[c]
      BY <2>3, CursorFrame
    <3> QED
      BY <2>3, <3>1
  <2> QED
    BY <1>2, <2>1, <2>2, <2>3
<1>3. ASSUME RequestShutdown \/ ReaderStep \/ ServerStep \/ UNCHANGED vars
      PROVE  answer'[c] = answer[c]
  <2>1. UNCHANGED callVars
    BY <1>3, BystanderFrame
  <2> QED
    BY <2>1 DEF callVars
<1>4. ASSUME NEW d \in Calls, Handle(d) PROVE answer'[c] = answer[c]
  <2>1. Settle(d, "refused", None) \/ answer' = answer
    BY <1>4 DEF Handle
  <2> QED
    BY <1>1, <2>1
<1>5. ASSUME Exit PROVE answer'[c] = answer[c]
  BY <1>5 DEF Exit
<1>6. ASSUME Stop \/ PeekEmpty \/ ReadCancels \/ Forward \/ ForwardGone PROVE answer'[c] = answer[c]
  BY <1>6 DEF Stop, PeekEmpty, ReadCancels, Forward, ForwardGone, callVars
<1>7. ASSUME WriteDone \/ WriteFails \/ PeekPacket \/ PeekDead PROVE answer'[c] = answer[c]
  <2>1. cur \in Calls
    BY <1>7 DEF WriteDone, WriteFails, PeekPacket, PeekDead, Inv1, CallsMade, Made
  <2>2. answer' = answer \/ \E o, t : Settle(cur, o, t)
    BY <1>7 DEF WriteDone, WriteFails, PeekPacket, PeekDead
  <2> QED
    BY <1>1, <2>1, <2>2
<1>8. ASSUME ReadPacket \/ ReadDead \/ ReadTimesOut PROVE answer'[c] = answer[c]
  <2>1. cur \in Calls
    BY <1>8 DEF ReadPacket, ReadDead, ReadTimesOut, Inv1, CallsMade, Made
  <2>2. answer' = answer \/ \E o, t : Settle(cur, o, t)
    BY <1>8 DEF ReadPacket, ReadDead, ReadTimesOut
  <2> QED
    BY <1>1, <2>1, <2>2
<1>9. ASSUME DrainPacket \/ DrainDead \/ DrainTimesOut PROVE answer'[c] = answer[c]
  <2>1. cur \in Calls
    BY <1>9 DEF DrainPacket, DrainDead, DrainTimesOut, Inv1, CallsMade, Made
  <2>2. answer' = answer \/ \E o, t : Settle(cur, o, t)
    BY <1>9 DEF DrainPacket, DrainDead, DrainTimesOut, DrainEnds
  <2> QED
    BY <1>1, <2>1, <2>2
<1> QED
  BY <1>2, <1>3, <1>4, <1>5, <1>6, <1>7, <1>8, <1>9 DEF Next, CallerStep, ActorStep

\* The packets the server sends: a SELECT's next block, or one without a number.
LEMMA SpeakNumber ==
    ASSUME Inv1, ServerSpeaks
    PROVE  LET p == pipe'[Len(pipe) + 1] IN
           \/ /\ srv = "stream" /\ p.t \in {"Data", "DataBlock"} /\ p.n = sent[srvTag] + 1
              /\ sent'[srvTag] = sent[srvTag] + 1
           \/ p.n = 0 /\ sent' = sent /\ (p.t \in {"Data", "DataBlock"} => srv = "begin")
<1> DEFINE p == pipe'[Len(pipe) + 1]
<1>1. pipe \in Seq(Packet) /\ Len(pipe) \in Nat /\ sent \in [Calls -> Nat] /\ srvTag \in Calls
  BY SpeakFacts DEF Inv1, TypeOK, SocketTypes, ServerTypes
<1>2. ASSUME NEW t, NEW n, ServerSends(t, n) PROVE p.t = t /\ p.n = n
  <2>1. p = [t |-> t, tag |-> srvTag, n |-> n]
    BY <1>1, <1>2, SMT DEF ServerSends
  <2> QED
    BY <2>1, SMT
<1> HIDE DEF p
<1>3. CASE \E t \in {"Progress", "Log"} : ServerChatters(t)
  <2>1. PICK t \in {"Progress", "Log"} : ServerChatters(t)
    BY <1>3
  <2>2. p.t = t /\ p.n = 0 /\ sent' = sent
    BY <1>2, <2>1 DEF ServerChatters
  <2> QED
    BY <2>2 DEF p
<1>4. CASE ServerBlock
  <2>1. srv = "stream" /\ p.t \in {"Data", "DataBlock"} /\ p.n = sent[srvTag] + 1
    BY <1>2, <1>4 DEF ServerBlock
  <2>2. sent'[srvTag] = sent[srvTag] + 1
    BY <1>1, <1>4 DEF ServerBlock
  <2> QED
    BY <2>1, <2>2 DEF p
<1>5. CASE ServerSchema \/ ServerRows
  <2>1. srv = "begin" /\ p.n = 0 /\ sent' = sent
    BY <1>2, <1>5 DEF ServerSchema, ServerRows
  <2> QED
    BY <2>1 DEF p
<1>6. CASE ServerEnds \/ ServerRejects
  <2>1. p.t \in {"Pong", "EndOfStream", "Exception"} /\ p.n = 0 /\ sent' = sent
    BY <1>2, <1>6 DEF ServerEnds, ServerRejects
  <2> QED
    BY <2>1 DEF p
<1> QED
  BY <1>3, <1>4, <1>5, <1>6 DEF ServerSpeaks

\* Types of the numbered sequences.
LEMMA NumberedState ==
    ASSUME Inv1
    PROVE  /\ Numbered(pipe)
           /\ \A c \in Calls : /\ Numbered(frames[c]) /\ frames[c] \in Seq(Frame)
                               /\ Len(delivered[c]) \in Nat /\ delivered[c] \in Seq(Nat)
                               /\ sent[c] \in Nat
<1>1. /\ pipe \in Seq(Packet) /\ frames \in [Calls -> Seq(Frame)] /\ delivered \in [Calls -> Seq(Nat)]
      /\ sent \in [Calls -> Nat]
  BY DEF Inv1, TypeOK, SocketTypes, StreamTypes, ServerTypes
<1>2. /\ \A p \in Packet : p.n \in Nat
      /\ \A p \in Frame : p.n \in Nat
  BY DEF Packet, Frame
<1>3. ASSUME NEW S, NEW q \in Seq(S), \A e \in S : e.n \in Nat PROVE Numbered(q)
  BY <1>3, SMT DEF Numbered
<1>4. Numbered(pipe)
  BY <1>1, <1>2, <1>3
<1>5. ASSUME NEW c \in Calls
      PROVE  /\ Numbered(frames[c]) /\ frames[c] \in Seq(Frame)
             /\ Len(delivered[c]) \in Nat /\ delivered[c] \in Seq(Nat) /\ sent[c] \in Nat
  <2>1. frames[c] \in Seq(Frame) /\ delivered[c] \in Seq(Nat) /\ sent[c] \in Nat
    BY <1>1
  <2>2. Numbered(frames[c])
    BY <1>2, <1>3, <2>1
  <2> QED
    BY <2>1, <2>2, SMT
<1> QED
  BY <1>4, <1>5

\* What the server sends continues what is in the pipe ...
LEMMA RestSpeak ==
    ASSUME Inv1, ServerSpeaks, NEW c \in Calls, srvTag = c, NEW k \in Nat, Rest(c, k)
    PROVE  Rest(c, k)'
<1>1. /\ Len(pipe) \in Nat /\ Len(pipe') = Len(pipe) + 1
      /\ \A i \in 1..Len(pipe) : pipe'[i] = pipe[i]
  BY SpeakFacts
<1>2. Numbered(pipe) /\ sent[c] \in Nat /\ Exactly(pipe, k, sent[c])
  BY NumberedState DEF Rest
<1>3. CASE pipe'[Len(pipe) + 1].n = sent[c] + 1 /\ sent'[c] = sent[c] + 1
  <2>1. pipe'[Len(pipe) + 1].n \in Nat
    BY <1>2, <1>3, SMT
  <2>2. Exactly(pipe', k, sent[c] + 1)
    BY <1>1, <1>2, <1>3, <2>1, ExactlyAppend
  <2> QED
    BY <1>3, <2>2 DEF Rest, Exactly
<1>4. CASE pipe'[Len(pipe) + 1].n = 0 /\ sent' = sent
  <2>1. Exactly(pipe', k, sent[c])
    BY <1>1, <1>2, <1>4, ExactlyAppend, SMT
  <2> QED
    BY <1>4, <2>1 DEF Rest, Exactly
<1> QED
  BY <1>3, <1>4, SpeakNumber

\* ... and what the actor takes is the next block, or no block at all.
LEMMA RestTake ==
    ASSUME Inv1, Consume, WireKept, NEW c \in Calls, NEW k \in Nat, Rest(c, k)
    PROVE  /\ Head(pipe).n = 0 => Rest(c, k)'
           /\ Head(pipe).n # 0 => Head(pipe).n = k + 1 /\ k + 1 <= sent[c] /\ Rest(c, k + 1)'
<1>1. /\ 1 \in 1..Len(pipe) /\ Head(pipe) = pipe[1] /\ Len(pipe') = Len(pipe) - 1
      /\ \A i \in 1..Len(pipe') : i + 1 \in 1..Len(pipe) /\ pipe'[i] = pipe[i + 1]
  BY ConsumePipe
<1>2. Numbered(pipe) /\ sent[c] \in Nat /\ Exactly(pipe, k, sent[c])
  BY NumberedState DEF Rest
<1>3. /\ pipe[1].n = 0 => Exactly(pipe', k, sent[c])
      /\ pipe[1].n # 0 =>
            pipe[1].n = k + 1 /\ k + 1 <= sent[c] /\ Exactly(pipe', k + 1, sent[c])
  BY <1>1, <1>2, ExactlyTail
<1>4. sent' = sent
  BY DEF WireKept
<1>5. (Exactly(pipe', k, sent[c]) => Rest(c, k)') /\ (Exactly(pipe', k + 1, sent[c]) => Rest(c, k + 1)')
  BY <1>4 DEF Rest, Exactly
<1> QED
  BY <1>1, <1>3, <1>5

\* The cursor takes the next block, or a frame that is no block.
LEMMA ChannelTakes ==
    ASSUME Inv1, BlocksNumbered, NEW c \in Calls, CursorNext(c), frames[c] # <<>>, NEW k \in Nat,
           Channel(c, k)
    PROVE  /\ Channel(c, k)'
           /\ Head(frames[c]).f = "block" => Head(frames[c]).n = Len(delivered[c]) + 1
<1>1. /\ frames'[c] = Tail(frames[c])
      /\ delivered'[c] = IF Head(frames[c]).f = "block"
                         THEN Append(delivered[c], Head(frames[c]).n) ELSE delivered[c]
  BY CursorTakes
<1>2. /\ Numbered(frames[c]) /\ frames[c] \in Seq(Frame) /\ Len(delivered[c]) \in Nat
      /\ delivered[c] \in Seq(Nat)
  BY NumberedState
<1>3. /\ Len(frames'[c]) = Len(frames[c]) - 1 /\ Head(frames[c]) = frames[c][1]
      /\ 1 \in 1..Len(frames[c])
      /\ \A i \in 1..Len(frames'[c]) :
            i + 1 \in 1..Len(frames[c]) /\ frames'[c][i] = frames[c][i + 1]
  BY <1>1, <1>2, TailElements, SMT
<1>4. Exactly(frames[c], Len(delivered[c]), k)
  BY DEF Channel
<1>5. /\ frames[c][1].n = 0 => Exactly(frames'[c], Len(delivered[c]), k)
      /\ frames[c][1].n # 0 => /\ frames[c][1].n = Len(delivered[c]) + 1
                               /\ Exactly(frames'[c], Len(delivered[c]) + 1, k)
  <2>1. PICK q : q = frames[c]
    OBVIOUS
  <2>2. PICK r : r = frames'[c]
    OBVIOUS
  <2>3. PICK lo \in Nat : lo = Len(delivered[c])
    BY <1>2
  <2>4. /\ Numbered(q) /\ Exactly(q, lo, k) /\ 1 \in 1..Len(q) /\ Len(r) = Len(q) - 1
        /\ \A i \in 1..Len(r) : i + 1 \in 1..Len(q) /\ r[i] = q[i + 1]
    BY <1>2, <1>3, <1>4, <2>1, <2>2, <2>3
  <2>5. /\ q[1].n = 0 => Exactly(r, lo, k)
        /\ q[1].n # 0 => q[1].n = lo + 1 /\ lo + 1 <= k /\ Exactly(r, lo + 1, k)
    BY <2>4, ExactlyTail
  <2> QED
    BY <2>1, <2>2, <2>3, <2>5
<1>6. (frames[c][1].f = "block") = (frames[c][1].n # 0)
  BY <1>3 DEF BlocksNumbered
<1>7. CASE Head(frames[c]).f = "block"
  <2>1. Head(frames[c]).n = Len(delivered[c]) + 1
    BY <1>3, <1>5, <1>6, <1>7
  <2>2. Len(delivered'[c]) = Len(delivered[c]) + 1
    BY <1>1, <1>2, <1>7, <2>1, SMT
  <2>3. Exactly(frames'[c], Len(delivered'[c]), k)
    BY <1>3, <1>5, <1>6, <1>7, <2>2
  <2> QED
    BY <2>1, <2>3 DEF Channel, Exactly
<1>8. CASE Head(frames[c]).f # "block"
  <2>1. Exactly(frames'[c], Len(delivered'[c]), k)
    BY <1>1, <1>3, <1>5, <1>6, <1>8
  <2> QED
    BY <1>8, <2>1 DEF Channel, Exactly
<1> QED
  BY <1>7, <1>8

\* A channel changes only when the actor forwards an item to it.
LEMMA ChannelKept ==
    ASSUME Inv1, BlocksNumbered, [Next]_vars, NEW c \in Calls, NEW k \in Nat, Channel(c, k),
           Forward => c # cur
    PROVE  Channel(c, k)'
<1>1. CASE UNCHANGED <<frames, delivered>>
  BY <1>1 DEF Channel, Exactly
<1>2. CASE frames'[c] = frames[c] /\ delivered'[c] = delivered[c]
  BY <1>2 DEF Channel, Exactly
<1>3. CASE Forward
  <2>1. frames'[c] = frames[c] /\ delivered' = delivered
    BY <1>3, ForwardFacts
  <2> QED
    BY <1>2, <2>1
<1>4. CASE \E d \in Calls : CursorNext(d)
  <2>1. PICK d \in Calls : CursorNext(d)
    BY <1>4
  <2>2. CASE d # c
    BY <1>2, <2>1, <2>2, CursorFrame
  <2>3. CASE d = c /\ frames[c] # <<>>
    BY <2>1, <2>3, ChannelTakes
  <2>4. CASE d = c /\ frames[c] = <<>>
    BY <1>2, <2>1, <2>4, CursorCloses
  <2> QED
    BY <2>2, <2>3, <2>4
<1> QED
  BY <1>1, <1>3, <1>4, StreamStep

LEMMA ForwardChannel ==
    ASSUME Inv1, Forward, NEW k \in Nat, Channel(cur, k), item.n \in Nat, NEW c \in Calls, c = cur
    PROVE  /\ item.n = 0 => Channel(c, k)'
           /\ item.n = k + 1 => Channel(c, k + 1)'
<1>1. /\ Len(frames'[c]) = Len(frames[c]) + 1 /\ frames'[c][Len(frames[c]) + 1] = item
      /\ \A i \in 1..Len(frames[c]) : frames'[c][i] = frames[c][i]
  BY ForwardFrames
<1>2. delivered' = delivered
  BY ForwardFacts
<1>3. Numbered(frames[c]) /\ Len(delivered[c]) \in Nat /\ Exactly(frames[c], Len(delivered[c]), k)
  BY NumberedState DEF Channel
<1>4. PICK q : q = frames[c]
  OBVIOUS
<1>5. PICK r : r = frames'[c]
  OBVIOUS
<1>6. PICK lo \in Nat : lo = Len(delivered[c])
  BY <1>3
<1>7. /\ Numbered(q) /\ Exactly(q, lo, k) /\ Len(r) = Len(q) + 1
      /\ \A i \in 1..Len(q) : r[i] = q[i]
      /\ r[Len(q) + 1] = item /\ r[Len(q) + 1].n \in Nat
  BY <1>1, <1>3, <1>4, <1>5, <1>6
<1>8. /\ item.n = 0 => Exactly(r, lo, k)
      /\ item.n = k + 1 => Exactly(r, lo, k + 1)
  BY <1>7, ExactlyAppend
<1> QED
  BY <1>2, <1>5, <1>6, <1>8 DEF Channel, Exactly

\* What the server has sent for a statement only grows, and is final once the
\* statement has ended.
LEMMA SentStep ==
    ASSUME Inv1, Verdicts, [Next]_vars, NEW c \in Calls
    PROVE  /\ sent[c] \in Nat /\ sent'[c] \in Nat /\ sent[c] <= sent'[c]
           /\ verdict[c] = "ended" => sent'[c] = sent[c] /\ verdict'[c] = "ended"
<1>1. sent[c] \in Nat
  BY NumberedState
<1>2. CASE UNCHANGED sent
  BY <1>1, <1>2, VerdictKept, SMT
<1>3. CASE ServerSpeaks
  <2>1. CASE c = srvTag
    <3>1. sent'[c] = sent[c] \/ sent'[c] = sent[c] + 1
      BY <1>3, <2>1, SpeakNumber
    <3>2. verdict[c] = "none"
      BY <1>3, <2>1, SpeakFacts DEF Verdicts
    <3> QED
      BY <1>1, <3>1, <3>2, SMT
  <2>2. CASE c # srvTag
    <3>1. sent'[c] = sent[c]
      BY <1>3, <2>2, SpeakFacts
    <3> QED
      BY <1>1, <3>1, VerdictKept, SMT
  <2> QED
    BY <2>1, <2>2
<1> QED
  BY <1>2, <1>3, PipeStep DEF WireKept

\* How the actor comes to hold an item for a cursor.
LEMMA ForwardingStep ==
    ASSUME Inv1, [Next]_vars, pc' = "forward"
    PROVE  \/ pc = "forward" /\ UNCHANGED <<cur, item>>
           \/ /\ ReadPacket /\ kind[cur] = "stream" /\ cur' = cur
              /\ item'.f = StreamOutcome(Head(pipe))
              /\ item'.n = IF item'.f \in {"block", "other"} THEN Head(pipe).n ELSE 0
           \/ item'.f \in Outcomes \ {"ok"} /\ item'.n = 0
<1>1. ASSUME NEW c \in Calls, NEW o, NEW t, Settle(c, o, t)
      PROVE  kind[c] = "stream" /\ cur' = c /\ item'.f = o /\ item'.n = 0
  <2>1. kind[c] = "stream" /\ cur' = c /\ item' = [f |-> o, tag |-> t, n |-> 0]
    BY <1>1 DEF Settle, HandlerReturns
  <2> QED
    BY <2>1
<1>2. CASE CallerStep \/ RequestShutdown \/ ReaderStep \/ ServerStep \/ UNCHANGED vars
  BY <1>2, BystanderActor
<1>3. CASE \E c \in Calls : Handle(c)
  <2>1. PICK c \in Calls : Handle(c)
    BY <1>3
  <2>2. Settle(c, "refused", None)
    BY <2>1 DEF Handle
  <2>3. item'.f = "refused" /\ item'.n = 0
    BY <1>1, <2>2
  <2> QED
    BY <2>3 DEF Outcomes
<1>4. CASE Stop \/ Exit \/ PeekEmpty \/ ReadCancels \/ Forward \/ ForwardGone
  BY <1>4 DEF Stop, Exit, PeekEmpty, ReadCancels, Forward, ForwardGone, StartCancel, HandlerReturns
<1>5. CASE \/ WriteDone \/ WriteFails \/ PeekPacket \/ PeekDead \/ ReadDead \/ ReadTimesOut
           \/ DrainPacket \/ DrainDead \/ DrainTimesOut
  <2>1. cur \in Calls
    BY <1>5 DEF WriteDone, WriteFails, PeekPacket, PeekDead, ReadDead, ReadTimesOut, DrainPacket,
                DrainDead, DrainTimesOut, Inv1, CallsMade, Made
  <2>2. CASE WriteDone
    <3>1. out = "Data" /\ Settle(cur, "ok", tag) /\ pc = "write"
      BY <2>2 DEF WriteDone
    <3> QED
      BY <1>1, <2>1, <3>1 DEF Inv1, Control
  <2>3. CASE WriteFails \/ PeekPacket \/ PeekDead \/ ReadDead \/ ReadTimesOut
    <3>1. Settle(cur, "failed", None) \/ Settle(cur, "exception", Head(pipe).tag)
      BY <2>3 DEF WriteFails, PeekPacket, PeekDead, ReadDead, ReadTimesOut, HandlerReturns
    <3>2. item'.f \in {"failed", "exception"} /\ item'.n = 0
      BY <1>1, <2>1, <3>1
    <3> QED
      BY <3>2 DEF Outcomes
  <2>4. CASE DrainPacket \/ DrainDead \/ DrainTimesOut
    <3>1. kind[cur] = "finish" /\ \E o, t : Settle(cur, o, t)
      BY <2>4 DEF DrainPacket, DrainDead, DrainTimesOut, DrainEnds, HandlerReturns
    <3> QED
      BY <1>1, <2>1, <3>1
  <2> QED
    BY <1>5, <2>2, <2>3, <2>4
<1>6. CASE ReadPacket
  <2> DEFINE o == ReadOutcome(kind[cur], Head(pipe))
  <2>1. pc = "read" /\ cur \in Calls
    BY <1>6 DEF ReadPacket, Inv1, CallsMade, Made
  <2>2. \/ o \in {"block", "other"} /\ cur' = cur /\ item' = [f |-> o, tag |-> Head(pipe).tag, n |-> Head(pipe).n]
        \/ o \notin {"block", "other"} /\ Settle(cur, o, Head(pipe).tag)
    BY <1>6, <2>1 DEF ReadPacket
  <2>3. /\ cur' = cur /\ item'.f = o
        /\ item'.n = IF o \in {"block", "other"} THEN Head(pipe).n ELSE 0
    BY <1>1, <2>1, <2>2, SMT
  <2>4. kind[cur] = "stream"
    <3>1. o \in {"block", "other"} => kind[cur] = "stream"
      BY DEF ReadOutcome, PingOutcome, QueryOutcome, BeginOutcome
    <3> QED
      BY <1>1, <2>1, <2>2, <3>1
  <2>5. o = StreamOutcome(Head(pipe))
    BY <2>4 DEF ReadOutcome
  <2> HIDE DEF o
  <2> QED
    BY <1>6, <2>3, <2>4, <2>5
<1> QED
  BY <1>2, <1>3, <1>4, <1>5, <1>6 DEF Next, ActorStep

\* A command moves from its caller to the channel to the actor to its end, and
\* not back.
LEMMA WhereStep ==
    ASSUME Inv1, Places, Cancelling, [Next]_vars, NEW c \in Calls
    PROVE  /\ where'[c] \in {"new", "sending", "queued"} => where[c] \in {"new", "sending", "queued"}
           /\ where[c] = "finished" => where'[c] = "finished"
<1>1. where \in [Calls -> {"new", "sending", "queued", "actor", "finished"}]
  BY DEF Inv1, TypeOK, CallTypes
<1>2. ASSUME NEW d \in Calls, \E k \in Kinds : Submit(d, k)
      PROVE  where[d] = "new" /\ where' = [where EXCEPT ![d] = "sending"]
  BY <1>2 DEF Submit, Places
<1>3. ASSUME NEW d \in Calls, Enqueue(d) \/ SendClosed(d)
      PROVE  where[d] = "sending" /\ \E w : where' = [where EXCEPT ![d] = w]
  BY <1>3 DEF Enqueue, SendClosed
<1>4. ASSUME NEW d \in Calls, Return(d) \/ Drop(d) \/ CursorNext(d)
      PROVE  where' = where \/ where' = [where EXCEPT ![d] = IF @ = "sending" THEN "finished" ELSE @]
  BY <1>4 DEF Return, Drop, CursorNext
<1>5. CASE CallerStep
  BY <1>1, <1>2, <1>3, <1>4, <1>5 DEF CallerStep
<1>6. CASE RequestShutdown \/ ReaderStep \/ ServerStep \/ UNCHANGED vars
  BY <1>6, BystanderFrame DEF callVars
<1>7. CASE Stop \/ Exit
  BY <1>1, <1>7 DEF Stop, Exit, callVars
<1>8. CASE HandlerStep
  <2>1. cur \in Calls /\ where[cur] = "actor"
    BY <1>8 DEF HandlerStep, Places, Busy, Inv1, CallsMade, Made
  <2>2. \A d \in Calls : d # cur => where'[d] = where[d]
    BY <1>1, <1>8, <2>1, SettleFacts DEF HandlerStep, Ends, Abandons, GoesOn, HandlerReturns
  <2>3. where'[cur] \in {"actor", "finished"}
    BY <1>1, <1>8, <2>1, SettleFacts DEF HandlerStep, Ends, Abandons, GoesOn, HandlerReturns
  <2> QED
    BY <1>1, <2>1, <2>2, <2>3
<1>9. CASE Forward
  <2>1. where[cur] = "actor"
    BY <1>9 DEF Forward, Places, Busy
  <2> QED
    BY <1>9, <2>1, ForwardFacts
<1>10. ASSUME NEW d \in Calls, Handle(d)
       PROVE  /\ where'[c] \in {"new", "sending", "queued"} => where[c] \in {"new", "sending", "queued"}
              /\ where[c] = "finished" => where'[c] = "finished"
  <2>1. where[d] = "queued"
    <3>1. d = queue[1] /\ 1 \in 1..Len(queue)
      BY <1>10, SMT DEF Handle, Inv1, TypeOK, ActorTypes
    <3> QED
      BY <3>1 DEF Places
  <2>2. Settle(d, "refused", None) \/ where' = [where EXCEPT ![d] = "actor"]
    BY <1>10 DEF Handle
  <2>3. \A e \in Calls : e # d => where'[e] = where[e]
    BY <1>1, <2>2, SettleFacts
  <2> QED
    BY <2>1, <2>3
<1> QED
  BY <1>5, <1>6, <1>7, <1>8, <1>9, <1>10, ActorSteps DEF Next

LEMMA UnstartedStep ==
    ASSUME Inv1, Places, Cancelling, Unstarted, [Next]_vars
    PROVE  Unstarted'
<1>1. ASSUME NEW c \in Calls, Untouched(c), where[c] # "finished", Forward => c # cur
      PROVE  Untouched(c)'
  <2>1. CASE UNCHANGED <<frames, delivered>>
    BY <1>1, <2>1 DEF Untouched
  <2>2. CASE Forward
    <3>1. frames'[c] = frames[c] /\ delivered' = delivered
      BY <1>1, <2>2, ForwardFacts
    <3> QED
      BY <1>1, <3>1 DEF Untouched
  <2>3. ASSUME NEW d \in Calls, CursorNext(d) PROVE Untouched(c)'
    <3>1. d # c
      BY <1>1, <2>3, CursorCloses DEF Untouched
    <3>2. frames'[c] = frames[c] /\ delivered'[c] = delivered[c]
      BY <2>3, <3>1, CursorFrame
    <3> QED
      BY <1>1, <3>2 DEF Untouched
  <2> QED
    BY <2>1, <2>2, <2>3, StreamStep
<1>2. ASSUME NEW c \in Calls, where'[c] \in {"new", "sending", "queued"} PROVE Untouched(c)'
  <2>1. where[c] \in {"new", "sending", "queued"}
    BY <1>2, WhereStep
  <2>2. Forward => c # cur
    BY <2>1 DEF Forward, Places, Busy
  <2> QED
    BY <1>1, <2>1, <2>2 DEF Unstarted
<1>3. ASSUME Unwritten' PROVE Untouched(cur)'
  <2>1. CASE pc \in Busy /\ Unwritten /\ cur' = cur /\ ~Forward
    <3>1. PICK c \in Calls : c = cur
      BY <2>1 DEF Inv1, CallsMade, Made, Busy
    <3>2. Untouched(c) /\ where[c] # "finished"
      BY <2>1, <3>1 DEF Unstarted, Places
    <3>3. Untouched(c)'
      BY <1>1, <2>1, <3>2
    <3> QED
      BY <2>1, <3>1, <3>3 DEF Untouched
  <2>2. CASE CallerStep \/ RequestShutdown \/ ReaderStep \/ ServerStep \/ UNCHANGED vars
    <3>1. UNCHANGED <<pc, cur, out>>
      BY <2>2, BystanderActor
    <3>2. Unwritten /\ pc \in Busy
      BY <1>3, <3>1 DEF Unwritten, Busy
    <3>3. ~Forward
      BY <3>2 DEF Forward, Unwritten
    <3> QED
      BY <2>1, <3>1, <3>2, <3>3
  <2>3. CASE HandlerStep
    <3>1. GoesOn
      BY <1>3, <2>3 DEF HandlerStep, Ends, Abandons, Settle, HandlerReturns, Unwritten
    <3>2. Unwritten /\ pc \in Busy /\ cur' = cur
      BY <1>3, <2>3, <3>1 DEF GoesOn, HandlerStep
    <3>3. ~Forward
      BY <3>2 DEF Forward, Unwritten
    <3> QED
      BY <2>1, <3>2, <3>3
  <2>4. CASE Forward \/ Stop \/ Exit
    BY <1>3, <2>4 DEF Forward, HandlerReturns, Stop, Exit, Unwritten
  <2>5. ASSUME NEW c \in Calls, Handle(c) PROVE Untouched(cur)'
    <3>1. c = queue[1] /\ 1 \in 1..Len(queue)
      BY <2>5, SMT DEF Handle, Inv1, TypeOK, ActorTypes
    <3>2. Untouched(c)
      BY <3>1 DEF Places, Unstarted
    <3>3. cur' = c
      BY <1>3, <2>5 DEF Handle, Settle, HandlerReturns, Unwritten
    <3>4. UNCHANGED <<frames, delivered>>
      BY <2>5 DEF Handle, streamVars
    <3> QED
      BY <3>2, <3>3, <3>4 DEF Untouched
  <2> QED
    BY <2>2, <2>3, <2>4, <2>5, ActorSteps DEF Next
<1> QED
  BY <1>2, <1>3 DEF Unstarted

\* While a SELECT is being read, what is in the pipe and what the server works on
\* are its own.
LEMMA ReadingOwn ==
    ASSUME Inv1, Aligned, kind[cur] = "stream",
           pc = "read" \/ (pc = "forward" /\ item.f \notin Outcomes)
    PROVE  Own /\ tag = cur /\ cur \in Calls
<1>1. tag = cur /\ cur \in Calls
  BY DEF Inv1, Statement, InsertContinuation, CallsMade, Made
<1>2. ~NoStatement /\ ~Fresh
  BY DEF NoStatement, Fresh
<1> QED
  BY <1>1, <1>2 DEF Aligned

\* The item the actor makes of a packet is numbered when the packet is a block.
LEMMA ReadItem ==
    ASSUME Inv1, Aligned, BlocksNumbered, ReadPacket, kind[cur] = "stream"
    PROVE  /\ StreamOutcome(Head(pipe)) = "block" => Head(pipe).n # 0
           /\ StreamOutcome(Head(pipe)) # "block" => Head(pipe).n = 0
           /\ StreamOutcome(Head(pipe)) = "ok" => Head(pipe).t = "EndOfStream"
<1>1. Own /\ tag = cur /\ cur \in Calls
  BY ReadingOwn DEF ReadPacket
<1>2. 1 \in 1..Len(pipe) /\ Head(pipe) = pipe[1]
  BY ConsumePipe DEF ReadPacket
<1>3. Head(pipe).tag = cur
  BY <1>1, <1>2 DEF Own
<1>4. /\ Head(pipe).t \notin {"Data", "DataBlock"} => Head(pipe).n = 0
      /\ Head(pipe).t \in {"Data", "DataBlock"} => Head(pipe).n # 0
  BY <1>1, <1>2, <1>3 DEF BlocksNumbered
<1> QED
  BY <1>4 DEF StreamOutcome

LEMMA CallerKept ==
    ASSUME Inv1, [Next]_vars, NEW c \in Calls, caller[c] # "new"
    PROVE  caller'[c] # "new"
<1>1. caller \in [Calls -> {"new", "waiting", "returned", "dropped"}]
  BY DEF Inv1, TypeOK, CallTypes
<1>2. ASSUME NEW d \in Calls,
             (\E k \in Kinds : Submit(d, k)) \/ Return(d) \/ Drop(d)
      PROVE  \E w \in {"waiting", "returned", "dropped"} : caller' = [caller EXCEPT ![d] = w]
  BY <1>2 DEF Submit, Return, Drop
<1>3. ASSUME NEW d \in Calls, Enqueue(d) \/ SendClosed(d) \/ CursorNext(d) \/ Handle(d)
      PROVE  caller' = caller
  BY <1>3 DEF Enqueue, SendClosed, CursorNext, Handle
<1>4. ASSUME RequestShutdown \/ ReaderStep \/ ServerStep \/ UNCHANGED vars PROVE caller' = caller
  BY <1>4, BystanderFrame DEF callVars
<1>5. ASSUME \/ Stop \/ Exit \/ WriteDone \/ WriteFails \/ PeekPacket \/ PeekDead \/ PeekEmpty
             \/ Forward \/ ForwardGone
      PROVE  caller' = caller
  BY <1>5 DEF Stop, Exit, WriteDone, WriteFails, PeekPacket, PeekDead, PeekEmpty, Forward,
              ForwardGone, callVars
<1>6. ASSUME \/ ReadPacket \/ ReadDead \/ ReadTimesOut \/ ReadCancels
             \/ DrainPacket \/ DrainDead \/ DrainTimesOut
      PROVE  caller' = caller
  BY <1>6 DEF ReadPacket, ReadDead, ReadTimesOut, ReadCancels, DrainPacket, DrainDead, DrainTimesOut,
              callVars
<1>7. caller' = caller \/ \E d \in Calls : \E w \in {"waiting", "returned", "dropped"} :
                             caller' = [caller EXCEPT ![d] = w]
  BY <1>2, <1>3, <1>4, <1>5, <1>6 DEF Next, CallerStep, ActorStep
<1> QED
  BY <1>1, <1>7

\* A cursor's channel gains an item from the actor, and loses one to the cursor.
LEMMA FramesStep ==
    ASSUME Inv1, [Next]_vars, NEW c \in Calls
    PROVE  \/ frames'[c] = frames[c] /\ ~(Forward /\ c = cur)
           \/ Forward /\ c = cur
           \/ CursorNext(c) /\ frames[c] # <<>>
<1>1. CASE UNCHANGED <<frames, delivered>>
  BY <1>1
<1>2. CASE Forward
  BY <1>2, ForwardFacts
<1>3. ASSUME NEW d \in Calls, CursorNext(d)
      PROVE  frames'[c] = frames[c] \/ (CursorNext(c) /\ frames[c] # <<>>)
  BY <1>3, CursorFrame, CursorCloses
<1> QED
  BY <1>1, <1>2, <1>3, StreamStep

LEMMA BlocksNumberedStep ==
    ASSUME Inv1, Aligned, Places, NotSent, Served, BlocksNumbered, [Next]_vars
    PROVE  BlocksNumbered'
<1>1. ASSUME NEW c \in Calls, NEW i \in 1..Len(frames'[c])
      PROVE  (frames'[c][i].f = "block") = (frames'[c][i].n # 0)
  <2>1. CASE frames'[c] = frames[c]
    BY <2>1, SMT DEF BlocksNumbered
  <2>2. CASE Forward /\ c = cur
    <3>1. /\ Len(frames[c]) \in Nat /\ Len(frames'[c]) = Len(frames[c]) + 1
          /\ \A j \in 1..Len(frames[c]) : frames'[c][j] = frames[c][j]
          /\ frames'[c][Len(frames[c]) + 1] = item
      BY <2>2, ForwardFrames
    <3>2. (item.f = "block") = (item.n # 0)
      BY <2>2 DEF Forward, BlocksNumbered
    <3>3. i \in 1..Len(frames[c]) \/ i = Len(frames[c]) + 1
      BY <3>1, SMT
    <3> QED
      BY <3>1, <3>2, <3>3 DEF BlocksNumbered
  <2>3. CASE CursorNext(c) /\ frames[c] # <<>>
    <3>1. frames[c] \in Seq(Frame) /\ frames'[c] = Tail(frames[c])
      BY <2>3, CursorTakes, NumberedState
    <3>2. i + 1 \in 1..Len(frames[c]) /\ frames'[c][i] = frames[c][i + 1]
      BY <2>3, <3>1, TailElements, SMT
    <3> QED
      BY <3>2 DEF BlocksNumbered
  <2>4. frames'[c] = frames[c] \/ (Forward /\ c = cur) \/ (CursorNext(c) /\ frames[c] # <<>>)
    BY FramesStep
  <2> QED
    BY <2>1, <2>2, <2>3, <2>4
<1>2. ASSUME pc' = "forward" PROVE (item'.f = "block") = (item'.n # 0)
  <2>1. CASE pc = "forward" /\ UNCHANGED <<cur, item>>
    BY <2>1 DEF BlocksNumbered
  <2>2. CASE /\ ReadPacket /\ kind[cur] = "stream"
             /\ item'.f = StreamOutcome(Head(pipe))
             /\ item'.n = IF item'.f \in {"block", "other"} THEN Head(pipe).n ELSE 0
    BY <2>2, ReadItem
  <2>3. CASE item'.f \in Outcomes \ {"ok"} /\ item'.n = 0
    BY <2>3 DEF Outcomes
  <2> QED
    BY <1>2, <2>1, <2>2, <2>3, ForwardingStep
<1>3. ASSUME NEW p, p.tag \in Calls => caller[p.tag] # "new",
             p.t \in {"Data", "DataBlock"} /\ p.tag \in Calls /\ kind[p.tag] = "stream" => p.n # 0
      PROVE  /\ p.tag \in Calls => caller'[p.tag] # "new"
             /\ p.t \in {"Data", "DataBlock"} /\ p.tag \in Calls /\ kind'[p.tag] = "stream" => p.n # 0
  BY <1>3, CallerKept, KindKept
<1>4. ASSUME NEW i \in 1..Len(pipe')
      PROVE  /\ pipe'[i].tag \in Calls => caller[pipe'[i].tag] # "new"
             /\ pipe'[i].t \notin {"Data", "DataBlock"} => pipe'[i].n = 0
             /\ pipe'[i].t \in {"Data", "DataBlock"} /\ pipe'[i].tag \in Calls
                   /\ kind[pipe'[i].tag] = "stream" => pipe'[i].n # 0
  <2>1. CASE \E j \in 1..Len(pipe) : pipe'[i] = pipe[j]
    BY <2>1 DEF BlocksNumbered
  <2>2. CASE ServerSpeaks /\ i = Len(pipe) + 1
    <3>1. pipe'[i].tag = srvTag /\ srvTag \in Calls
      BY <2>2, SpeakFacts
    <3>2. caller[srvTag] # "new"
      BY <3>1 DEF Places, NotSent, Unsent
    <3>3. \/ pipe'[i].t \in {"Data", "DataBlock"} /\ pipe'[i].n = sent[srvTag] + 1
          \/ pipe'[i].n = 0 /\ (pipe'[i].t \in {"Data", "DataBlock"} => srv = "begin")
      BY <2>2, SpeakNumber
    <3>4. sent[srvTag] \in Nat
      BY <3>1, NumberedState
    <3> QED
      BY <3>1, <3>2, <3>3, <3>4, SMT DEF Served
  <2>3. (\E j \in 1..Len(pipe) : pipe'[i] = pipe[j]) \/ (ServerSpeaks /\ i = Len(pipe) + 1)
    BY PipeStep, ConsumePipe, SpeakFacts, SMT
  <2> QED
    BY <2>1, <2>2, <2>3
<1>5. \A i \in 1..Len(pipe') :
          /\ pipe'[i].tag \in Calls => caller'[pipe'[i].tag] # "new"
          /\ pipe'[i].t \notin {"Data", "DataBlock"} => pipe'[i].n = 0
          /\ pipe'[i].t \in {"Data", "DataBlock"} /\ pipe'[i].tag \in Calls
                /\ kind'[pipe'[i].tag] = "stream" => pipe'[i].n # 0
  BY <1>3, <1>4
<1> QED
  BY <1>1, <1>2, <1>5 DEF BlocksNumbered

LEMMA DeliveredStep ==
    ASSUME Inv1, BlocksNumbered, Flow, [Next]_vars, NEW c \in Calls, NEW i \in 1..Len(delivered'[c])
    PROVE  delivered'[c][i] = i
<1>1. CASE delivered'[c] = delivered[c]
  BY <1>1 DEF Flow
<1>2. CASE CursorNext(c) /\ frames[c] # <<>> /\ Head(frames[c]).f = "block"
  <2>1. sent[c] \in Nat /\ delivered[c] \in Seq(Nat)
    BY NumberedState
  <2>2. PICK k \in 0..sent[c] : Channel(c, k)
    BY DEF Flow
  <2>3. k \in Nat
    BY <2>1, SMT
  <2>4. Head(frames[c]).n = Len(delivered[c]) + 1
    BY <1>2, <2>2, <2>3, ChannelTakes
  <2>5. delivered'[c] = Append(delivered[c], Head(frames[c]).n)
    BY <1>2, CursorTakes
  <2>6. Len(delivered[c]) \in Nat /\ Head(frames[c]).n \in Nat
    BY <2>1, <2>4, SMT
  <2>7. /\ Len(delivered'[c]) = Len(delivered[c]) + 1
        /\ \A j \in 1..Len(delivered[c]) : delivered'[c][j] = delivered[c][j]
        /\ delivered'[c][Len(delivered[c]) + 1] = Head(frames[c]).n
    BY <2>1, <2>5, <2>6, AppendElements, SMTT(30)
  <2>8. i \in 1..Len(delivered[c]) \/ i = Len(delivered[c]) + 1
    BY <2>6, <2>7, SMT
  <2> QED
    BY <2>4, <2>7, <2>8 DEF Flow
<1>3. \/ delivered'[c] = delivered[c]
      \/ CursorNext(c) /\ frames[c] # <<>> /\ Head(frames[c]).f = "block"
  <2>1. CASE UNCHANGED <<frames, delivered>>
    BY <2>1
  <2>2. CASE Forward
    BY <2>2, ForwardFacts
  <2>3. ASSUME NEW d \in Calls, CursorNext(d)
        PROVE  \/ delivered'[c] = delivered[c]
               \/ CursorNext(c) /\ frames[c] # <<>> /\ Head(frames[c]).f = "block"
    BY <2>3, CursorFrame, CursorTakes, CursorCloses
  <2> QED
    BY <2>1, <2>2, <2>3, StreamStep
<1> QED
  BY <1>1, <1>2, <1>3

\* Forwarding an item extends the channel by it.
LEMMA ForwardExtends ==
    ASSUME Inv1, BlocksNumbered, Flow, Forward, item.f \notin Outcomes, NEW c \in Calls, c = cur
    PROVE  \E k \in 0..sent[c] : Channel(c, k)' /\ Rest(c, k)
<1>1. pc = "forward" /\ item.n \in Nat /\ sent[c] \in Nat
  BY NumberedState DEF Forward, Inv1, TypeOK, ActorTypes, Frame
<1>2. PICK k \in 0..sent[cur] :
         /\ Channel(cur, k)
         /\ item.n # 0 => item.n = k + 1
         /\ Rest(cur, IF item.n = 0 THEN k ELSE k + 1)
  BY <1>1 DEF Flow
<1>3. k \in Nat /\ k \in 0..sent[c]
  BY <1>1, SMT
<1>4. CASE item.n = 0
  <2>1. Channel(c, k)'
    BY <1>1, <1>2, <1>3, <1>4, ForwardChannel
  <2>2. Rest(c, k)
    BY <1>2, <1>4
  <2> QED
    BY <1>3, <2>1, <2>2
<1>5. CASE item.n # 0
  <2>1. Channel(c, k + 1)'
    BY <1>1, <1>2, <1>3, <1>5, ForwardChannel
  <2>2. Rest(c, k + 1)
    BY <1>2, <1>5
  <2>3. k + 1 \in 0..sent[c]
    BY <1>1, <1>3, <2>2, SMT DEF Rest, Exactly
  <2> QED
    BY <2>1, <2>2, <2>3
<1> QED
  BY <1>4, <1>5

\* ... or leaves its blocks alone, when it is an outcome.
LEMMA ForwardOutcome ==
    ASSUME Inv1, BlocksNumbered, Forward, item.f \in Outcomes, NEW c \in Calls, c = cur,
           NEW k \in Nat, Channel(c, k)
    PROVE  Channel(c, k)'
<1>1. item.n = 0
  BY DEF Forward, BlocksNumbered, Outcomes
<1> QED
  BY <1>1, ForwardChannel, SMT

LEMMA ChannelExists ==
    ASSUME Inv1, Verdicts, BlocksNumbered, Flow, [Next]_vars, NEW c \in Calls
    PROVE  \E k \in 0..sent'[c] : Channel(c, k)'
<1>1. sent[c] \in Nat /\ sent'[c] \in Nat /\ sent[c] <= sent'[c]
  BY SentStep
<1>2. PICK k \in 0..sent[c] : Channel(c, k)
  BY DEF Flow
<1>3. k \in Nat /\ \A j \in 0..sent[c] : j \in 0..sent'[c]
  BY <1>1, SMT
<1>4. CASE Forward => c # cur
  BY <1>2, <1>3, <1>4, ChannelKept
<1>5. CASE Forward /\ c = cur /\ item.f \in Outcomes
  BY <1>2, <1>3, <1>5, ForwardOutcome
<1>6. CASE Forward /\ c = cur /\ item.f \notin Outcomes
  BY <1>3, <1>6, ForwardExtends
<1> QED
  BY <1>4, <1>5, <1>6

\* Until the actor takes a packet, what it can still read keeps continuing the
\* channel.
LEMMA RestKept ==
    ASSUME Inv1, Aligned, kind[cur] = "stream",
           pc = "read" \/ (pc = "forward" /\ item.f \notin Outcomes),
           UNCHANGED <<pipe, sent>> \/ ServerSpeaks, NEW c \in Calls, c = cur, NEW k \in Nat, Rest(c, k)
    PROVE  Rest(c, k)'
<1>1. CASE UNCHANGED <<pipe, sent>>
  BY <1>1 DEF Rest, Exactly
<1>2. CASE ServerSpeaks
  <2>1. srvTag = c
    BY <1>2, SpeakFacts, ReadingOwn DEF Own
  <2> QED
    BY <1>2, <2>1, RestSpeak
<1> QED
  BY <1>1, <1>2

LEMMA FlowReading ==
    ASSUME Inv1, Aligned, Places, NotSent, Verdicts, BlocksNumbered, Unstarted, Flow, [Next]_vars,
           pc' = "read", NEW c \in Calls, c = cur', kind'[c] = "stream"
    PROVE  \E k \in 0..sent'[c] : Channel(c, k)' /\ Rest(c, k)'
<1>1. /\ c = cur /\ tag' = tag
      /\ \/ pc = "read" /\ ~WireWritten
         \/ WireWritten /\ out \in {"Query", "Ping"} /\ UNCHANGED <<frames, delivered, readerVars>>
         \/ Forward /\ item.f \notin Outcomes
  BY ReadingStep
<1>2. kind[c] = "stream"
  <2>1. caller[c] # "new"
    BY <1>1 DEF Inv1, CallsMade, Made, WireWritten, Forward
  <2> QED
    BY <2>1, KindKept
<1>3. sent[c] \in Nat /\ sent'[c] \in Nat /\ \A j \in 0..sent[c] : j \in 0..sent'[c] /\ j \in Nat
  BY SentStep, SMT
<1>4. CASE pc = "read"
  <2>1. PICK k \in 0..sent[c] : Channel(c, k) /\ Rest(c, k)
    BY <1>1, <1>2, <1>4 DEF Flow
  <2>2. Channel(c, k)'
    BY <1>3, <1>4, <2>1, ChannelKept DEF Forward
  <2>3. CASE ReadPacket
    <3>1. StreamOutcome(Head(pipe)) # "block"
      BY <1>1, <1>2, <2>3 DEF ReadPacket, ReadOutcome
    <3>2. Head(pipe).n = 0
      BY <1>1, <1>2, <2>3, <3>1, ReadItem
    <3>3. Rest(c, k)'
      BY <1>3, <2>1, <2>3, <3>2, TakesPacket, RestTake
    <3> QED
      BY <1>3, <2>2, <3>3
  <2>4. CASE ~ReadPacket
    <3>1. UNCHANGED <<pipe, sent>> \/ ServerSpeaks
      BY <1>4, <2>4, PacketStep DEF PeekPacket, DrainPacket
    <3>2. Rest(c, k)'
      BY <1>1, <1>2, <1>3, <1>4, <2>1, <3>1, RestKept
    <3> QED
      BY <1>3, <2>2, <3>2
  <2> QED
    BY <2>3, <2>4
<1>5. CASE WireWritten /\ out \in {"Query", "Ping"} /\ UNCHANGED <<frames, delivered, readerVars>>
  <2>1. Fresh /\ Unwritten /\ pc \in Busy
    BY <1>5 DEF Fresh, Unwritten, Busy, WireWritten
  <2>2. Untouched(c) /\ Unsent(c) /\ Quiet
    BY <1>1, <2>1 DEF Unstarted, NotSent, Aligned
  <2>3. frames'[c] = <<>> /\ delivered'[c] = <<>> /\ pipe' = <<>> /\ sent'[c] = 0
    BY <1>5, <2>2 DEF Untouched, Unsent, Quiet, readerVars, WireWritten
  <2>4. Exactly(frames'[c], 0, 0) /\ Exactly(pipe', 0, 0)
    BY <2>3, ExactlyEmpty, SMT
  <2>5. Channel(c, 0)' /\ Rest(c, 0)'
    BY <2>3, <2>4, SMT DEF Channel, Rest, Exactly
  <2> QED
    BY <2>3, <2>5, SMT
<1>6. CASE Forward /\ item.f \notin Outcomes
  <2>1. PICK k \in 0..sent[c] : Channel(c, k)' /\ Rest(c, k)
    BY <1>1, <1>6, ForwardExtends
  <2>2. UNCHANGED <<pipe, sent>>
    BY <1>6, ForwardFacts
  <2>3. Rest(c, k)'
    BY <2>1, <2>2 DEF Rest, Exactly
  <2> QED
    BY <1>3, <2>1, <2>3
<1> QED
  BY <1>1, <1>4, <1>5, <1>6

LEMMA FlowForwarding ==
    ASSUME Inv1, Aligned, Places, NotSent, Verdicts, BlocksNumbered, Flow, [Next]_vars,
           pc' = "forward", item'.f \notin Outcomes, NEW c \in Calls, c = cur'
    PROVE  \E k \in 0..sent'[c] :
             /\ Channel(c, k)'
             /\ item'.n # 0 => item'.n = k + 1
             /\ item'.n = 0 => Rest(c, k)'
             /\ item'.n # 0 => Rest(c, k + 1)'
<1>1. sent[c] \in Nat /\ sent'[c] \in Nat /\ \A j \in 0..sent[c] : j \in 0..sent'[c] /\ j \in Nat
  BY SentStep, SMT
<1>2. ~Forward
  BY ForwardFacts
<1>3. CASE pc = "forward" /\ UNCHANGED <<cur, item>>
  <2>1. c = cur /\ kind[cur] = "stream"
    BY <1>3 DEF Inv1, Control
  <2>2. PICK k \in 0..sent[c] :
           /\ Channel(c, k)
           /\ item.n # 0 => item.n = k + 1
           /\ Rest(c, IF item.n = 0 THEN k ELSE k + 1)
    BY <1>3, <2>1 DEF Flow
  <2>3. Channel(c, k)'
    BY <1>1, <1>2, <2>2, ChannelKept
  <2>4. UNCHANGED <<pipe, sent>> \/ ServerSpeaks
    BY <1>3, PacketStep DEF PeekPacket, ReadPacket, DrainPacket
  <2>5. ASSUME NEW j \in Nat, Rest(c, j) PROVE Rest(c, j)'
    BY <1>3, <2>1, <2>4, <2>5, RestKept
  <2>6. k \in Nat /\ k + 1 \in Nat
    BY <1>1, SMT
  <2>7. (item.n = 0 => Rest(c, k)') /\ (item.n # 0 => Rest(c, k + 1)')
    BY <2>2, <2>5, <2>6
  <2> QED
    BY <1>1, <1>3, <2>2, <2>3, <2>7
<1>4. CASE /\ ReadPacket /\ kind[cur] = "stream" /\ cur' = cur
           /\ item'.f = StreamOutcome(Head(pipe))
           /\ item'.n = IF item'.f \in {"block", "other"} THEN Head(pipe).n ELSE 0
  <2>1. pc = "read" /\ c = cur /\ Consume /\ WireKept
    BY <1>4, TakesPacket DEF ReadPacket
  <2>2. PICK k \in 0..sent[c] : Channel(c, k) /\ Rest(c, k)
    BY <1>4, <2>1 DEF Flow
  <2>3. Channel(c, k)'
    BY <1>1, <1>2, <2>2, ChannelKept
  <2>4. item'.n = Head(pipe).n
    BY <1>4, ReadItem
  <2>5. /\ Head(pipe).n = 0 => Rest(c, k)'
        /\ Head(pipe).n # 0 => Head(pipe).n = k + 1 /\ Rest(c, k + 1)'
    BY <1>1, <2>1, <2>2, RestTake
  <2> QED
    BY <1>1, <2>2, <2>3, <2>4, <2>5
<1> QED
  BY <1>3, <1>4, ForwardingStep

\* A complete channel of an ended statement stays complete, whatever is taken
\* from it.
LEMMA CompleteKept ==
    ASSUME Inv1, Verdicts, BlocksNumbered, [Next]_vars, NEW c \in Calls,
           Channel(c, sent[c]), verdict[c] = "ended",
           Forward /\ c = cur => item.f \in Outcomes
    PROVE  Channel(c, sent[c])' /\ verdict'[c] = "ended"
<1>1. sent[c] \in Nat /\ sent'[c] = sent[c] /\ verdict'[c] = "ended"
  BY SentStep
<1>2. PICK k \in Nat : k = sent[c]
  BY <1>1
<1>3. Channel(c, k)
  BY <1>2
<1>4. Channel(c, k)'
  BY <1>3, ChannelKept, ForwardOutcome
<1> QED
  BY <1>1, <1>2, <1>4 DEF Channel

LEMMA FlowOk ==
    ASSUME Inv1, Aligned, Verdicts, BlocksNumbered, Flow, [Next]_vars,
           pc' = "forward", item'.f = "ok", NEW c \in Calls, c = cur'
    PROVE  Channel(c, sent[c])' /\ verdict'[c] = "ended"
<1>1. ~Forward
  BY ForwardFacts
<1>2. CASE pc = "forward" /\ UNCHANGED <<cur, item>>
  <2>1. Channel(c, sent[c]) /\ verdict[c] = "ended"
    BY <1>2 DEF Flow
  <2> QED
    BY <1>1, <2>1, CompleteKept
<1>3. CASE ReadPacket /\ kind[cur] = "stream" /\ cur' = cur /\ item'.f = StreamOutcome(Head(pipe))
  <2>1. pc = "read" /\ c = cur /\ Consume
    BY <1>3, TakesPacket DEF ReadPacket
  <2>2. Head(pipe).t = "EndOfStream" /\ Head(pipe).n = 0
    BY <1>3, ReadItem
  <2>3. 1 \in 1..Len(pipe) /\ Head(pipe) = pipe[1] /\ Len(pipe) \in Nat
    BY <2>1, ConsumePipe
  <2>4. Len(pipe) = 1 /\ pipe[1].tag = c
    BY <1>3, <2>1, <2>2, <2>3, ReadingOwn DEF Own, IsTerminal
  <2>5. verdict[c] = "ended"
    BY <2>2, <2>3, <2>4 DEF Verdicts
  <2>6. PICK k \in 0..sent[c] : Channel(c, k) /\ Rest(c, k)
    BY <1>3, <2>1 DEF Flow
  <2>7. sent[c] \in Nat /\ k \in Nat
    BY NumberedState, SMT
  <2>8. k = sent[c]
    <3>1. \A i \in 1..Len(pipe) : pipe[i].n = 0
      BY <2>2, <2>3, <2>4, SMT
    <3>2. Exactly(pipe, k, sent[c])
      BY <2>6 DEF Rest
    <3> QED
      BY <2>7, <3>1, <3>2, ExactlyNone
  <2> QED
    BY <1>1, <2>5, <2>6, <2>8, CompleteKept
<1>4. item'.f \notin Outcomes \ {"ok"}
  OBVIOUS
<1> QED
  BY <1>2, <1>3, <1>4, ForwardingStep

LEMMA FlowStep ==
    ASSUME Inv1, Aligned, Places, NotSent, Verdicts, BlocksNumbered, Unstarted, Flow, [Next]_vars, Inv1'
    PROVE  Flow'
<1>1. ASSUME NEW c \in Calls
      PROVE  /\ \A i \in 1..Len(delivered'[c]) : delivered'[c][i] = i
             /\ \E k \in 0..sent'[c] : Channel(c, k)'
  BY DeliveredStep, ChannelExists
<1>2. ASSUME pc' = "read", kind'[cur'] = "stream"
      PROVE  (\E k \in 0..sent[cur] : Channel(cur, k) /\ Rest(cur, k))'
  <2>1. PICK c \in Calls : c = cur'
    BY <1>2 DEF Inv1, CallsMade, Made
  <2>2. PICK k \in 0..sent'[c] : Channel(c, k)' /\ Rest(c, k)'
    BY <1>2, <2>1, FlowReading
  <2> QED
    BY <2>1, <2>2 DEF Channel, Rest
<1>3. ASSUME pc' = "forward", item'.f \notin Outcomes
      PROVE  (\E k \in 0..sent[cur] :
                /\ Channel(cur, k)
                /\ item.n # 0 => item.n = k + 1
                /\ Rest(cur, IF item.n = 0 THEN k ELSE k + 1))'
  <2>1. PICK c \in Calls : c = cur'
    BY <1>3 DEF Inv1, CallsMade, Made
  <2>2. PICK k \in 0..sent'[c] :
             /\ Channel(c, k)'
             /\ item'.n # 0 => item'.n = k + 1
             /\ item'.n = 0 => Rest(c, k)'
             /\ item'.n # 0 => Rest(c, k + 1)'
    BY <1>3, <2>1, FlowForwarding
  <2>3. (Rest(c, IF item.n = 0 THEN k ELSE k + 1))'
    BY <2>2 DEF Rest
  <2> QED
    BY <2>1, <2>2, <2>3 DEF Channel, Rest
<1>4. ASSUME pc' = "forward", item'.f = "ok"
      PROVE  (Channel(cur, sent[cur]) /\ verdict[cur] = "ended")'
  <2>1. PICK c \in Calls : c = cur'
    BY <1>4 DEF Inv1, CallsMade, Made
  <2>2. Channel(c, sent[c])' /\ verdict'[c] = "ended"
    BY <1>4, <2>1, FlowOk
  <2> QED
    BY <2>1, <2>2 DEF Channel
<1>5. (\A c \in Calls : \A i \in 1..Len(delivered[c]) : delivered[c][i] = i)'
      /\ (\A c \in Calls : \E k \in 0..sent[c] : Channel(c, k))'
  BY <1>1
<1> QED
  BY <1>2, <1>3, <1>4, <1>5 DEF Flow

LEMMA LastFrameStep ==
    ASSUME Inv1, Places, Cancelling, Verdicts, BlocksNumbered, Flow, LastFrame, [Next]_vars
    PROVE  LastFrame'
<1> SUFFICES ASSUME NEW c \in Calls, NEW i \in 1..Len(frames'[c]), frames'[c][i].f \in Outcomes
             PROVE  /\ i = Len(frames'[c])
                    /\ where'[c] = "finished"
                    /\ frames'[c][i].f = "ok" => Channel(c, sent[c])' /\ verdict'[c] = "ended"
  BY DEF LastFrame
<1>1. CASE frames'[c] = frames[c] /\ ~(Forward /\ c = cur)
  <2>1. /\ i = Len(frames[c]) /\ where[c] = "finished"
        /\ frames[c][i].f = "ok" => Channel(c, sent[c]) /\ verdict[c] = "ended"
    BY <1>1 DEF LastFrame
  <2> QED
    BY <1>1, <2>1, WhereStep, CompleteKept
<1>2. CASE Forward /\ c = cur
  <2>1. /\ Len(frames[c]) \in Nat /\ Len(frames'[c]) = Len(frames[c]) + 1
        /\ \A j \in 1..Len(frames[c]) : frames'[c][j] = frames[c][j]
        /\ frames'[c][Len(frames[c]) + 1] = item
    BY <1>2, ForwardFrames
  <2>2. where[c] = "actor"
    BY <1>2 DEF Forward, Places, Busy
  <2>3. i \notin 1..Len(frames[c])
    BY <2>1, <2>2 DEF LastFrame
  <2>4. i = Len(frames[c]) + 1 /\ item.f \in Outcomes
    BY <2>1, <2>3, SMT
  <2>5. where'[c] = "finished" /\ pc = "forward"
    BY <1>2, <2>4, ForwardFacts
  <2>6. item.f = "ok" => Channel(c, sent[c]) /\ verdict[c] = "ended"
    BY <1>2, <2>5 DEF Flow
  <2>7. item.f = "ok" => Channel(c, sent[c])' /\ verdict'[c] = "ended"
    BY <2>4, <2>6, CompleteKept
  <2> QED
    BY <2>1, <2>4, <2>5, <2>7
<1>3. CASE CursorNext(c) /\ frames[c] # <<>>
  <2>1. frames[c] \in Seq(Frame) /\ frames'[c] = Tail(frames[c]) /\ where' = where
    BY <1>3, CursorTakes, CursorFrame, NumberedState
  <2>2. /\ Len(frames'[c]) = Len(frames[c]) - 1 /\ Len(frames[c]) \in Nat
        /\ i + 1 \in 1..Len(frames[c]) /\ frames'[c][i] = frames[c][i + 1]
    BY <1>3, <2>1, TailElements, SMT
  <2>3. /\ i + 1 = Len(frames[c]) /\ where[c] = "finished"
        /\ frames[c][i + 1].f = "ok" => Channel(c, sent[c]) /\ verdict[c] = "ended"
    BY <2>2 DEF LastFrame
  <2>4. ~Forward \/ c # cur
    BY <2>3 DEF Forward, Places, Busy
  <2>5. frames'[c][i].f = "ok" => Channel(c, sent[c])' /\ verdict'[c] = "ended"
    BY <2>2, <2>3, <2>4, CompleteKept
  <2> QED
    BY <2>1, <2>2, <2>3, <2>5, SMT
<1> QED
  BY <1>1, <1>2, <1>3, FramesStep

LEMMA StreamEndedStep ==
    ASSUME Inv1, Provenance, Places, NotSent, Verdicts, BlocksNumbered, LastFrame, StreamEnded,
           [Next]_vars
    PROVE  StreamEnded'
<1> SUFFICES ASSUME NEW c \in Calls, kind'[c] = "stream", answer'[c].out = "ok"
             PROVE  Len(delivered'[c]) = sent'[c] /\ verdict'[c] = "ended"
  BY DEF StreamEnded
<1>1. kind[c] = "stream"
  BY AnsweredKind
<1>2. ~SendClosed(c)
  <2>1. SendClosed(c) => answer'[c] = [out |-> "closed", tag |-> None]
    BY DEF SendClosed, Inv1, TypeOK, CallTypes
  <2>2. SendClosed(c) => answer'[c].out = "closed"
    BY <2>1, SMT
  <2> QED
    BY <2>2
<1>3. CASE answer'[c] = answer[c] /\ ~CursorNext(c)
  <2>1. Len(delivered[c]) = sent[c] /\ verdict[c] = "ended"
    BY <1>1, <1>3 DEF StreamEnded
  <2>2. delivered'[c] = delivered[c]
    <3>1. ASSUME NEW d \in Calls, CursorNext(d) PROVE delivered'[c] = delivered[c]
      BY <1>3, <3>1, CursorFrame
    <3> QED
      BY <3>1, StreamStep, ForwardFacts
  <2> QED
    BY <2>1, <2>2, SentStep
<1>4. CASE CursorNext(c)
  <2>1. frames[c] # <<>>
    <3>1. frames[c] = <<>> => answer'[c].out = "dropped"
      <4>1. frames[c] = <<>> => answer'[c] = [out |-> "dropped", tag |-> None]
        BY <1>4, CursorCloses
      <4> QED
        BY <4>1, SMT
    <3> QED
      BY <3>1
  <2>2. Head(frames[c]).f = "ok"
    <3>1. CASE Head(frames[c]).f \in Outcomes
      <4>1. answer'[c] = [out |-> Head(frames[c]).f, tag |-> Head(frames[c]).tag]
        BY <1>4, <2>1, <3>1, CursorTakes
      <4>2. answer'[c].out = Head(frames[c]).f
        BY <4>1, SMT
      <4> QED
        BY <4>2
    <3>2. CASE Head(frames[c]).f \notin Outcomes
      <4>1. answer'[c] = NoAnswer
        BY <1>4, <2>1, <3>2, CursorTakes
      <4> QED
        BY <4>1, SMT DEF NoAnswer
    <3> QED
      BY <3>1, <3>2
  <2>3. Head(frames[c]) = frames[c][1] /\ 1 \in 1..Len(frames[c]) /\ Len(frames[c]) \in Nat
    BY <2>1, NumberedState, TailElements, SMT
  <2>4. 1 = Len(frames[c]) /\ Channel(c, sent[c]) /\ verdict[c] = "ended"
    BY <2>2, <2>3 DEF LastFrame, Outcomes
  <2>5. \A i \in 1..Len(frames[c]) : frames[c][i].n = 0
    BY <2>2, <2>3, <2>4, SMT DEF BlocksNumbered
  <2>6. Len(delivered[c]) = sent[c]
    <3>1. Len(delivered[c]) \in Nat /\ sent[c] \in Nat
      BY NumberedState
    <3>2. Exactly(frames[c], Len(delivered[c]), sent[c])
      BY <2>4 DEF Channel
    <3> QED
      BY <2>5, <3>1, <3>2, ExactlyNone
  <2>7. delivered'[c] = delivered[c]
    BY <1>4, <2>1, <2>2, CursorTakes
  <2> QED
    BY <2>4, <2>6, <2>7, SentStep
<1> QED
  BY <1>1, <1>2, <1>3, <1>4, StreamAnswer

LEMMA NextInv7 ==
    Inv1 /\ Aligned /\ Provenance /\ Inv4 /\ Inv5 /\ Inv7 /\ [Next]_vars /\ Inv1' => Inv7'
  BY BlocksNumberedStep, UnstartedStep, FlowStep, LastFrameStep, StreamEndedStep DEF Inv4, Inv5, Inv7

LEMMA InitInv7 == Init => Inv7
<1> SUFFICES ASSUME Init PROVE Inv7
  OBVIOUS
<1>1. \A c \in Calls : frames[c] = <<>> /\ delivered[c] = <<>> /\ sent[c] = 0 /\ answer[c] = NoAnswer
  BY DEF Init
<1>2. pc = "recv" /\ pipe = <<>>
  BY DEF Init
<1>3. BlocksNumbered /\ Unstarted
  BY <1>1, <1>2, SMT DEF BlocksNumbered, Unstarted, Untouched, Busy
<1>4. \A c \in Calls : Channel(c, 0) /\ 0 \in 0..sent[c]
  BY <1>1, ExactlyEmpty, SMT DEF Channel
<1>5. Flow
  BY <1>1, <1>2, <1>4, SMTT(30) DEF Flow
<1>6. LastFrame
  BY <1>1, SMT DEF LastFrame
<1>7. \A c \in Calls : answer[c].out # "ok"
  BY <1>1, SMT DEF NoAnswer
<1> QED
  BY <1>3, <1>5, <1>6, <1>7 DEF Inv7, StreamEnded

-----------------------------------------------------------------------------
(* What a connection delivers *)

LEMMA InitDelivery == Init => Delivery
  BY InitInv4, InitInv5, InitInv6, InitInv7 DEF Delivery

LEMMA NextDelivery == IInv /\ Delivery /\ [Next]_vars /\ IInv' => Delivery'
  BY NextInv4, NextInv5, NextInv6, NextInv7 DEF IInv, Delivery

\* Every command, block and packet is where the actor's progress says it is, for
\* any number of calls and every capacity of the command, packet and results
\* channels of actor.rs.
THEOREM DeliveryInvariant == Spec => []Delivery
<1> QED
  BY InitDelivery, NextDelivery, Invariance, PTL DEF Spec

\* A caller that is told "command not sent" (the poison check and the state gate
\* of handle(), a send to a stopped actor, a reply channel dropped unanswered)
\* can repeat the command: nothing of it reached the wire or the server.
THEOREM RefusalsAreUnsent == Spec => []RefusedIsUnsent
<1>1. Delivery => RefusedIsUnsent
  BY DEF Delivery, Inv4, NotSent, Refusals, Unsent, RefusedIsUnsent
<1> QED
  BY <1>1, DeliveryInvariant, PTL

\* finish_insert answers Ok only for an INSERT that the server ended, with every
\* block whose send_insert_block answered Ok in it.
THEOREM FinishedInserts == Spec => []FinishedInsertIsStored
<1>1. ASSUME Delivery, NEW f \in Calls, kind[f] = "finish", answer[f].out = "ok"
      PROVE  LET s == answer[f].tag IN
             /\ verdict[s] = "ended"
             /\ \A b \in Calls : (kind[b] = "block" /\ answer[b] = [out |-> "ok", tag |-> s]) =>
                   \E i \in 1..Len(stored[s]) : stored[s][i] = b
  <2>1. PICK s \in Calls : s = answer[f].tag
    BY <1>1 DEF Delivery, Inv6, FinishEnded
  <2>2. verdict[s] = "ended"
    BY <1>1, <2>1 DEF Delivery, Inv6, FinishEnded
  <2>3. ASSUME NEW i \in 1..Len(up), up[i].m = "Data" PROVE up[i].tag # s
    <3>1. ASSUME up[i].tag = s PROVE FALSE
      <4>1. srv = "insert" /\ srvTag = s
        BY <1>1, <2>2, <2>3, <3>1 DEF Delivery, Inv6, BlocksLive, Receiving
      <4>2. verdict[s] = "none"
        BY <1>1, <4>1 DEF Delivery, Inv5, Verdicts
      <4> QED
        BY <2>2, <4>2
    <3> QED
      BY <3>1
  <2>4. ASSUME NEW b \in Calls, kind[b] = "block", answer[b] = [out |-> "ok", tag |-> s]
        PROVE  \E i \in 1..Len(stored[s]) : stored[s][i] = b
    <3>1. ~\E i \in 1..Len(up) : up[i] = [m |-> "Data", tag |-> s, call |-> b]
      BY <2>3, SMT
    <3> QED
      BY <1>1, <2>2, <2>4, <3>1 DEF Delivery, Inv6, BlocksKept
  <2> QED
    BY <2>1, <2>2, <2>4
<1>2. Delivery => FinishedInsertIsStored
  BY <1>1 DEF FinishedInsertIsStored
<1> QED
  BY <1>2, DeliveryInvariant, PTL

\* A cursor returns the blocks of its SELECT in order and without gaps, and the
\* end of the result set only after the last block the server sent: no timeout,
\* cancellation, full channel or lost socket shortens a result that looks whole.
THEOREM StreamsAreFaithful == Spec => []StreamIsFaithful
<1>1. Delivery => StreamIsFaithful
  BY DEF Delivery, Inv7, Flow, StreamEnded, StreamIsFaithful
<1> QED
  BY <1>1, DeliveryInvariant, PTL

=============================================================================
