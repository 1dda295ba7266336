-------------------------- MODULE TcpInsertProofs ---------------------------
(***************************************************************************)
(* Proofs about module TcpInsert, for every block size, channel capacity   *)
(* and number of rows: its inductive invariant, and from it that end() is  *)
(* exact, that rows arrive once and in order, and that a returned          *)
(* connection is settled.                                                  *)
(***************************************************************************)
EXTENDS TcpInsert, SequenceTheorems, TLAPS

\* Most steps are first-order; the ones with arithmetic, records or sequences
\* name SMT.
USE ZenonT(20)

-----------------------------------------------------------------------------
(* Sequences *)

LEMMA AppendFacts ==
    ASSUME NEW S, NEW s \in Seq(S), NEW e \in S
    PROVE  /\ Append(s, e) \in Seq(S)
           /\ Len(Append(s, e)) = Len(s) + 1 /\ Len(s) \in Nat
           /\ \A i \in 1..Len(s) : Append(s, e)[i] = s[i]
           /\ Append(s, e)[Len(s) + 1] = e
  BY AppendProperties, SMT

LEMMA TailFacts ==
    ASSUME NEW S, NEW s \in Seq(S), s # <<>>
    PROVE  /\ Tail(s) \in Seq(S)
           /\ Len(Tail(s)) = Len(s) - 1
           /\ \A i \in 1..Len(Tail(s)) : i + 1 \in 1..Len(s) /\ Tail(s)[i] = s[i + 1]
           /\ Head(s) = s[1] /\ Head(s) \in S /\ 1 \in 1..Len(s) /\ Len(s) \in Nat
  BY HeadTailProperties, SMT

LEMMA AppendConcat ==
    ASSUME NEW S, NEW s \in Seq(S), NEW t \in Seq(S), NEW e \in S
    PROVE  s \o Append(t, e) = Append(s \o t, e)
<1>1. <<e>> \in Seq(S) /\ s \o t \in Seq(S)
  BY ConcatProperties, SMT
<1>2. Append(t, e) = t \o <<e>> /\ Append(s \o t, e) = (s \o t) \o <<e>>
  BY <1>1, AppendIsConcat
<1>3. (s \o t) \o <<e>> = s \o (t \o <<e>>)
  BY <1>1, ConcatAssociative, SMT
<1> QED
  BY <1>2, <1>3

\* What an ascending sequence gains by a concatenation with a later one.
LEMMA AscendingConcat ==
    ASSUME NEW s \in Seq(Nat), NEW t \in Seq(Nat), Ascending(s), Ascending(t), Precedes(s, t)
    PROVE  /\ Ascending(s \o t)
           /\ \A u \in Seq(Nat) : Precedes(s, u) /\ Precedes(t, u) => Precedes(s \o t, u)
           /\ Numbered(s) /\ Numbered(t) => Numbered(s \o t)
<1>1. /\ s \o t \in Seq(Nat) /\ Len(s \o t) = Len(s) + Len(t)
      /\ \A i \in 1..(Len(s) + Len(t)) : (s \o t)[i] = IF i <= Len(s) THEN s[i] ELSE t[i - Len(s)]
  BY ConcatProperties
<1>2. Len(s) \in Nat /\ Len(t) \in Nat
  BY SMT
<1>3. \A i \in 1..Len(s \o t) :
        \/ i \in 1..Len(s) /\ (s \o t)[i] = s[i]
        \/ i > Len(s) /\ i - Len(s) \in 1..Len(t) /\ (s \o t)[i] = t[i - Len(s)]
  BY <1>1, <1>2, SMT
<1> HIDE DEF Ascending, Precedes
<1>4. Ascending(s \o t)
  <2> SUFFICES ASSUME NEW i \in 1..Len(s \o t), NEW j \in 1..Len(s \o t), i < j
               PROVE  (s \o t)[i] < (s \o t)[j]
    BY DEF Ascending
  <2>1. CASE j \in 1..Len(s)
    <3>1. i \in 1..Len(s)
      BY <1>2, <2>1, SMT
    <3> QED
      BY <1>1, <1>2, <2>1, <3>1, SMT DEF Ascending
  <2>2. CASE i \in 1..Len(s) /\ j > Len(s)
    BY <1>2, <1>3, <2>2, SMT DEF Precedes
  <2>3. CASE i > Len(s)
    <3>1. i - Len(s) \in 1..Len(t) /\ j - Len(s) \in 1..Len(t) /\ i - Len(s) < j - Len(s)
      BY <1>1, <1>2, <2>3, SMT
    <3>2. (s \o t)[i] = t[i - Len(s)] /\ (s \o t)[j] = t[j - Len(s)]
      BY <1>1, <1>2, <2>3, SMT
    <3> QED
      BY <3>1, <3>2 DEF Ascending
  <2> QED
    BY <1>2, <2>1, <2>2, <2>3, SMTT(30)
<1>5. ASSUME NEW u \in Seq(Nat), Precedes(s, u), Precedes(t, u) PROVE Precedes(s \o t, u)
  BY <1>3, <1>5 DEF Precedes
<1>6. Numbered(s) /\ Numbered(t) => Numbered(s \o t)
  BY <1>3 DEF Numbered
<1> QED
  BY <1>4, <1>5, <1>6

-----------------------------------------------------------------------------
(* Steps that many actions share *)

\* The caller's future is gone: the commands stay, nobody waits for them.
LEMMA AbandonedFacts ==
    ASSUME TypeOK
    PROVE  /\ Abandoned \in Seq(Command) /\ Len(Abandoned) = Len(queue)
           /\ \A k \in 1..Len(queue) : /\ Abandoned[k].op = queue[k].op
                                       /\ Abandoned[k].rows = queue[k].rows
                                       /\ Abandoned[k].awaited = FALSE
<1>1. queue \in Seq(Command) /\ Len(queue) \in Nat
  BY SMT DEF TypeOK
<1>2. ASSUME NEW k \in 1..Len(queue)
      PROVE  /\ Abandoned[k] \in Command /\ Abandoned[k].op = queue[k].op
             /\ Abandoned[k].rows = queue[k].rows /\ Abandoned[k].awaited = FALSE
  <2>1. queue[k] \in Command /\ Abandoned[k] = [queue[k] EXCEPT !.awaited = FALSE]
    BY <1>1, SMT DEF Abandoned
  <2> QED
    BY <2>1 DEF Command
<1>3. Abandoned \in [1..Len(queue) -> Command]
  BY <1>2 DEF Abandoned
<1>4. Abandoned \in Seq(Command) /\ Len(Abandoned) = Len(queue)
  BY <1>1, <1>3, SMT
<1> QED
  BY <1>2, <1>4

\* A command enters the channel behind the others.
LEMMA QueueFacts ==
    ASSUME TypeOK, NEW op \in {"block", "finish"}, NEW r \in Seq(Row), Queue(op, r)
    PROVE  /\ queue' \in Seq(Command) /\ Len(queue') = Len(queue) + 1 /\ Len(queue') <= CmdCapacity
           /\ Len(queue) \in Nat
           /\ \A k \in 1..Len(queue) : queue'[k] = queue[k]
           /\ queue'[Len(queue) + 1] = [op |-> op, rows |-> r, awaited |-> TRUE]
<1>1. [op |-> op, rows |-> r, awaited |-> TRUE] \in Command
  BY DEF Command
<1>2. queue \in Seq(Command) /\ CmdCapacity \in Nat /\ Len(queue) < CmdCapacity
  BY TcpInsertAssumption DEF TypeOK, Queue
<1> QED
  BY <1>1, <1>2, AppendFacts, SMT DEF Queue

\* The actor takes the oldest command.
LEMMA ServeFacts ==
    ASSUME TypeOK, NEW op, NEW o \in Replies, Serve(op, o)
    PROVE  /\ queue # <<>> /\ Head(queue) = queue[1] /\ queue[1] \in Command /\ queue[1].op = op
           /\ 1 \in 1..Len(queue) /\ Len(queue) \in Nat
           /\ queue' \in Seq(Command) /\ Len(queue') = Len(queue) - 1
           /\ \A k \in 1..Len(queue') : k + 1 \in 1..Len(queue) /\ queue'[k] = queue[k + 1]
           /\ reply' = IF queue[1].awaited THEN o ELSE reply
           /\ reply' \in Replies \cup {NoReply}
<1>1. queue # <<>> /\ queue \in Seq(Command) /\ queue' = Tail(queue)
  BY DEF Serve, TypeOK
<1>2. reply' = IF Head(queue).awaited THEN o ELSE reply
  BY DEF Serve
<1>3. Head(queue).op = op
  BY DEF Serve
<1> QED
  BY <1>1, <1>2, <1>3, TailFacts DEF TypeOK

\* The steps of the actor behind the session.
ActorStep ==
    \/ RefuseOutOfSession \/ RefuseOversize
    \/ BlockSent \/ BlockRejected \/ BlockFails
    \/ FinishCommits \/ FinishRejected \/ FinishFails

\* What they have in common: the oldest command is answered, and each answer
\* says what became of the session and of the command's rows.
Answers(op, o) ==
    /\ Serve(op, o)
    /\ poisoned' \in BOOLEAN /\ (poisoned => poisoned')
    /\ state' \in {state, "Idle"}
    /\ server' = "open" => server = "open"
    /\ server' = server \/ (state = "InsertActive" /\ server' \in {"committed", "rejected"})
    /\ received' = received \/ (received' = received \o queue[1].rows /\ state = "InsertActive")
    /\ op = "finish" /\ o # "failed" => state' = "Idle"
    /\ op = "finish" /\ o = "ok" => /\ state = "InsertActive" /\ server = "open"
                                  /\ server' = "committed" /\ received' = received
    /\ op = "block" /\ o = "ok" /\ server = "open" => received' = received \o queue[1].rows
    /\ o # "ok" => state' = "Idle" \/ Has(flavour, queue[1].rows, "huge")

LEMMA ActorAnswers ==
    ASSUME TypeOK, ActorStep
    PROVE  \E op \in {"block", "finish"}, o \in Replies : Answers(op, o)
<1> USE DEF Replies
<1>0. ASSUME NEW op \in {"block", "finish"}, NEW o \in Replies, Serve(op, o)
      PROVE  Head(queue) = queue[1]
  BY <1>0, ServeFacts
<1>1. CASE RefuseOutOfSession
  <2> PICK op \in {"block", "finish"} : Serve(op, "failed")
    BY <1>1 DEF RefuseOutOfSession
  <2> QED
    BY <1>1 DEF RefuseOutOfSession, Answers, TypeOK, serverVars
<1>2. CASE RefuseOversize
  <2>1. Serve("block", "failed") /\ Head(queue) = queue[1]
    BY <1>0, <1>2 DEF RefuseOversize
  <2> QED
    BY <1>2, <2>1 DEF RefuseOversize, Answers, TypeOK, serverVars
<1>3. CASE BlockSent
  <2>1. Serve("block", "ok") /\ Head(queue) = queue[1]
    BY <1>0, <1>3 DEF BlockSent
  <2> QED
    BY <1>3, <2>1 DEF BlockSent, InSession, Arrives, Answers, TypeOK
<1>4. CASE BlockRejected
  <2>1. Serve("block", "exception")
    BY <1>4 DEF BlockRejected
  <2> QED
    BY <1>4, <2>1 DEF BlockRejected, InSession, Answers, TypeOK, serverVars
<1>5. CASE BlockFails
  <2>1. Serve("block", "failed") /\ Head(queue) = queue[1]
    BY <1>0, <1>5 DEF BlockFails
  <2> QED
    BY <1>5, <2>1 DEF BlockFails, InSession, Arrives, Answers, TypeOK
<1>6. CASE FinishCommits
  <2>1. Serve("finish", "ok")
    BY <1>6 DEF FinishCommits
  <2> QED
    BY <1>6, <2>1 DEF FinishCommits, InSession, Answers, TypeOK
<1>7. CASE FinishRejected
  <2>1. Serve("finish", "exception")
    BY <1>7 DEF FinishRejected
  <2> QED
    BY <1>7, <2>1 DEF FinishRejected, InSession, Answers, TypeOK
<1>8. CASE FinishFails
  <2>1. Serve("finish", "failed")
    BY <1>8 DEF FinishFails
  <2> QED
    BY <1>8, <2>1 DEF FinishFails, InSession, Answers, TypeOK
<1> QED
  BY <1>1, <1>2, <1>3, <1>4, <1>5, <1>6, <1>7, <1>8 DEF ActorStep

-----------------------------------------------------------------------------
(* The shape of the state *)

LEMMA EndType ==
    ASSUME TypeOK, NEW r \in {"ok", "err"}, NEW poison \in BOOLEAN, EndReturns(r, poison)
    PROVE  pc' = "over" /\ result' \in {"ok", "err"} /\ released' \in BOOLEAN /\ poisoned' \in BOOLEAN
<1>1. active \in BOOLEAN
  BY DEF TypeOK
<1>2. pc' = "over" /\ result' = r /\ released' = active /\ poisoned' = (poisoned \/ poison)
  BY DEF EndReturns
<1>3. poisoned' \in BOOLEAN
  BY <1>2
<1> QED
  BY <1>1, <1>2, <1>3

LEMMA CountType ==
    ASSUME TypeOK, Control, Len(acked) < MaxRows, NEW r \in Row, Count(r)
    PROVE  rows_written' \in 0..MaxRows /\ acked' \in Seq(Row)
<1>1. rows_written = Len(acked) /\ acked \in Seq(Row) /\ rows_written \in 0..MaxRows
  BY DEF Control, TypeOK
<1> QED
  BY <1>1, TcpInsertAssumption, AppendFacts, SMT DEF Count

LEMMA TypeStep ==
    ASSUME IInv, [Next]_vars
    PROVE  TypeOK'
<1> USE DEF insertVars, sessionVars, serverVars
<1>0. TypeOK /\ Control /\ MaxRows \in Nat
  BY TcpInsertAssumption DEF IInv
<1>1. CASE Open \/ OpenFails \/ ServerRejects \/ UNCHANGED vars
  BY <1>0, <1>1, SMT DEF Open, OpenFails, ServerRejects, vars, TypeOK
<1>2. CASE Opened
  BY <1>0, <1>2 DEF Opened, TypeOK
<1>3. ASSUME NEW f \in Flavours, Write(f) PROVE TypeOK'
  <2>1. /\ flavour' \in Seq(Flavours) /\ Len(flavour') <= MaxRows
        /\ Len(flavour') = Len(flavour) + 1 /\ Len(flavour') \in Row
    BY <1>0, <1>3, AppendFacts, SMT DEF Write, TypeOK, Row
  <2>2. block \in Seq(Row) /\ Append(block, Len(flavour')) \in Seq(Row) /\ <<>> \in Seq(Row)
    BY <1>0, <2>1, AppendFacts, SMT DEF TypeOK
  <2>3. Len(acked) < MaxRows
    BY <1>0, <1>3, SMT DEF Control, Write, TypeOK
  <2>4. Count(Len(flavour')) => rows_written' \in 0..MaxRows /\ acked' \in Seq(Row)
    BY <1>0, <2>1, <2>3, CountType
  <2>5. rows_written' \in 0..MaxRows /\ acked' \in Seq(Row)
    BY <1>0, <1>3, <2>4 DEF Write, TypeOK
  <2>6. /\ block' \in Seq(Row) /\ pending' \in Seq(Row)
        /\ pc' \in {pc, "sending"}
    BY <1>0, <1>3, <2>2 DEF Write, TypeOK
  <2> QED
    BY <1>0, <1>3, <2>1, <2>5, <2>6, SMT DEF Write, TypeOK
<1>4. CASE SendBlock
  <2>1. queue' \in Seq(Command) /\ Len(queue') <= CmdCapacity
    BY <1>0, <1>4, QueueFacts DEF SendBlock, TypeOK
  <2> QED
    BY <1>0, <1>4, <2>1, SMT DEF SendBlock, Queue, TypeOK
<1>5. CASE WriteReturns
  <2>1. Len(acked) < MaxRows /\ Len(flavour) \in Row
    BY <1>0, <1>5, SMT DEF WriteReturns, Control, TypeOK, Row
  <2>2. rows_written' \in 0..MaxRows /\ acked' \in Seq(Row)
    BY <1>0, <1>5, <2>1, CountType DEF WriteReturns, TypeOK
  <2>3. poisoned' \in BOOLEAN
    BY <1>5 DEF WriteReturns
  <2> QED
    BY <1>0, <1>5, <2>2, <2>3 DEF WriteReturns, TypeOK
<1>6. CASE CancelWrite
  <2>1. queue' \in Seq(Command) /\ Len(queue') <= CmdCapacity
    BY <1>0, <1>6, AbandonedFacts DEF CancelWrite, TypeOK
  <2> QED
    BY <1>0, <1>6, <2>1, SMT DEF CancelWrite, TypeOK
<1>7. CASE End
  <2>1. \/ EndReturns("ok", FALSE) \/ EndReturns("err", TRUE)
        \/ pc' \in {"ending", "flushing"} /\ UNCHANGED <<result, released, poisoned>>
    BY <1>7 DEF End
  <2>2. /\ pc' \in {"over", "ending", "flushing"} /\ result' \in {"none", "ok", "err"}
        /\ released' \in BOOLEAN /\ poisoned' \in BOOLEAN
    BY <1>0, <2>1, EndType DEF TypeOK
  <2>3. block' \in Seq(Row) /\ pending' \in Seq(Row)
    <3>1. block \in Seq(Row) /\ pending \in Seq(Row) /\ <<>> \in Seq(Row)
      BY <1>0, SMT DEF TypeOK
    <3>2. block' \in {block, <<>>} /\ pending' \in {block, pending}
      BY <1>7 DEF End
    <3> QED
      BY <3>1, <3>2
  <2>4. UNCHANGED <<cancelled, active, flavour, rows_written, acked, state, queue, reply, serverVars>>
    BY <1>7 DEF End
  <2> QED
    BY <1>0, <2>2, <2>3, <2>4 DEF TypeOK
<1>8. CASE Flushed
  <2>1. /\ pc' \in {"over", "ending"} /\ result' \in {"none", "ok", "err"}
        /\ released' \in BOOLEAN /\ poisoned' \in BOOLEAN
    BY <1>0, <1>8, EndType DEF Flushed, TypeOK
  <2>2. /\ reply' = NoReply
        /\ UNCHANGED <<cancelled, active, flavour, block, pending, rows_written, acked, state, queue, serverVars>>
    BY <1>8 DEF Flushed
  <2> QED
    BY <1>0, <2>1, <2>2 DEF TypeOK
<1>9. CASE Finish
  <2>1. <<>> \in Seq(Row)
    BY SMT
  <2>2. queue' \in Seq(Command) /\ Len(queue') <= CmdCapacity
    BY <1>0, <1>9, <2>1, QueueFacts DEF Finish
  <2> QED
    BY <1>0, <1>9, <2>2 DEF Finish, Queue, TypeOK
<1>10. CASE Finished
  <2>1. (IF reply = "ok" THEN "ok" ELSE "err") \in {"ok", "err"} /\ (reply = "failed") \in BOOLEAN
    OBVIOUS
  <2>2. /\ pc' = "over" /\ result' \in {"ok", "err"}
        /\ released' \in BOOLEAN /\ poisoned' \in BOOLEAN
    BY <1>0, <1>10, <2>1, EndType DEF Finished
  <2>3. /\ reply' = NoReply
        /\ UNCHANGED <<cancelled, active, flavour, block, pending, rows_written, acked, state, queue, serverVars>>
    BY <1>10 DEF Finished
  <2> QED
    BY <1>0, <2>2, <2>3 DEF TypeOK
<1>11. CASE DropInsert
  <2>1. queue' \in Seq(Command) /\ Len(queue') <= CmdCapacity
    BY <1>0, <1>11, AbandonedFacts DEF DropInsert, TypeOK
  <2>2. poisoned' \in BOOLEAN
    BY <1>11 DEF DropInsert
  <2> QED
    BY <1>0, <1>11, <2>1, <2>2 DEF DropInsert, TypeOK
<1>12. CASE ActorStep
  <2> PICK op \in {"block", "finish"}, o \in Replies : Answers(op, o)
    BY <1>0, <1>12, ActorAnswers
  <2>1. /\ queue' \in Seq(Command) /\ Len(queue') <= CmdCapacity
        /\ reply' \in Replies \cup {NoReply}
        /\ queue[1] \in Command
    <3>1. Serve(op, o)
      BY DEF Answers
    <3>2. Len(queue) <= CmdCapacity /\ CmdCapacity \in Nat
      BY <1>0, TcpInsertAssumption DEF TypeOK
    <3> QED
      BY <1>0, <3>1, <3>2, ServeFacts, SMT
  <2>2. received' \in Seq(Row)
    <3>1. received \in Seq(Row) /\ queue[1].rows \in Seq(Row)
      BY <1>0, <2>1 DEF TypeOK, Command
    <3>2. received \o queue[1].rows \in Seq(Row)
      BY <3>1, ConcatProperties
    <3> QED
      BY <3>1, <3>2 DEF Answers
  <2>3. /\ poisoned' \in BOOLEAN /\ state' \in {"Idle", "InsertActive"}
        /\ server' \in {"none", "open", "rejected", "committed"}
    BY <1>0 DEF Answers, TypeOK
  <2>4. UNCHANGED <<pc, insertVars, released>>
    BY DEF Answers, Serve
  <2> QED
    BY <1>0, <2>1, <2>2, <2>3, <2>4 DEF TypeOK
<1> QED
  BY <1>1, <1>2, <1>3, <1>4, <1>5, <1>6, <1>7, <1>8, <1>9, <1>10, <1>11, <1>12
  DEF Next, ActorStep

-----------------------------------------------------------------------------
(* The rows are in line *)

\* Steps that write no row and deliver none: the rows handed over or buffered
\* stay or are dropped, the queue stays or loses its head.
LEMMA LineKept ==
    ASSUME TypeOK, InLine, flavour' = flavour, received' = received,
           block' = block, pending' \in {pending, <<>>},
           NEW d \in {0, 1},
           \A k \in 1..Len(queue') : k + d \in 1..Len(queue) /\ queue'[k].rows = queue[k + d].rows
    PROVE  InLine'
<1>1. Ascending(pending') /\ Numbered(pending') /\ Precedes(received, pending') /\ Precedes(pending', block)
  <2>1. CASE pending' = pending
    BY <2>1 DEF InLine
  <2>2. CASE pending' = <<>>
    BY <2>2, SMT DEF Ascending, Numbered, Precedes
  <2> QED
    BY <2>1, <2>2
<1>2. \A s : Precedes(s, pending) => Precedes(s, pending')
  BY SMT DEF Precedes
<1>3. \A s : Numbered(s) <=> Numbered(s)'
  BY DEF Numbered
<1>4. ASSUME NEW k \in 1..Len(queue')
      PROVE  /\ Ascending(queue'[k].rows) /\ Numbered(queue'[k].rows)
             /\ Precedes(received, queue'[k].rows)
             /\ Precedes(queue'[k].rows, pending') /\ Precedes(queue'[k].rows, block)
             /\ \A l \in 1..Len(queue') : k < l => Precedes(queue'[k].rows, queue'[l].rows)
  <2>1. k + d \in 1..Len(queue) /\ queue'[k].rows = queue[k + d].rows
    OBVIOUS
  <2>2. ASSUME NEW l \in 1..Len(queue'), k < l
        PROVE  Precedes(queue'[k].rows, queue'[l].rows)
    <3>1. l + d \in 1..Len(queue) /\ queue'[l].rows = queue[l + d].rows /\ k + d < l + d
      BY <2>2, SMT
    <3> QED
      BY <2>1, <3>1 DEF InLine
  <2> QED
    BY <1>2, <2>1, <2>2 DEF InLine
<1> QED
  BY <1>1, <1>3, <1>4 DEF InLine

\* The empty sequence is before, after and within anything.
LEMMA EmptyLine ==
    /\ Ascending(<<>>) /\ Numbered(<<>>)
    /\ \A s \in Seq(Nat) : Precedes(s, <<>>) /\ Precedes(<<>>, s)
  BY SMT DEF Ascending, Numbered, Precedes

LEMMA RowsAreNaturals ==
    ASSUME TypeOK
    PROVE  /\ Seq(Row) \subseteq Seq(Nat)
           /\ received \in Seq(Nat) /\ pending \in Seq(Nat) /\ block \in Seq(Nat)
           /\ \A k \in 1..Len(queue) : queue[k].rows \in Seq(Nat)
<1>1. Row \subseteq Nat
  BY TcpInsertAssumption, SMT DEF Row
<1>2. Seq(Row) \subseteq Seq(Nat)
  <2> SUFFICES ASSUME NEW s \in Seq(Row) PROVE s \in Seq(Nat)
    OBVIOUS
  <2>1. s \in [1..Len(s) -> Row] /\ Len(s) \in Nat
    BY LenProperties
  <2>2. s \in [1..Len(s) -> Nat]
    BY <1>1, <2>1
  <2> QED
    BY <2>1, <2>2, SeqDef, SMT
<1>3. received \in Seq(Row) /\ pending \in Seq(Row) /\ block \in Seq(Row) /\ queue \in Seq(Command)
  BY DEF TypeOK
<1>4. ASSUME NEW k \in 1..Len(queue) PROVE queue[k].rows \in Seq(Row)
  <2>1. queue[k] \in Command
    BY <1>3, <1>4, SMT
  <2> QED
    BY <2>1 DEF Command
<1> QED
  BY <1>2, <1>3, <1>4

\* A new row goes behind every row written before it.
LEMMA NewRow ==
    ASSUME TypeOK, InLine, NEW f \in Flavours, flavour' = Append(flavour, f)
    PROVE  LET b == Append(block, Len(flavour'))
           IN /\ Ascending(b) /\ \A i \in 1..Len(b) : b[i] <= Len(flavour')
              /\ \A s \in Seq(Nat) : Numbered(s) => (Numbered(s))'
              /\ \A s \in Seq(Nat) : Numbered(s) /\ Precedes(s, block) => Precedes(s, b)
<1> DEFINE n == Len(flavour')
<1>1. n = Len(flavour) + 1 /\ Len(flavour) \in Nat /\ n \in Nat
  BY AppendFacts DEF TypeOK
<1>2. /\ Len(Append(block, n)) = Len(block) + 1 /\ Len(block) \in Nat
      /\ \A i \in 1..Len(block) : Append(block, n)[i] = block[i]
      /\ Append(block, n)[Len(block) + 1] = n
  BY <1>1, RowsAreNaturals, AppendFacts, SMT
<1>3. Ascending(block) /\ Numbered(block) /\ block \in Seq(Nat)
  BY RowsAreNaturals DEF InLine
<1>4. \A s \in Seq(Nat) : Numbered(s) => (Numbered(s))'
  BY <1>1, SMT DEF Numbered
<1> HIDE DEF n
<1>5. Ascending(Append(block, n))
  <2> SUFFICES ASSUME NEW i \in 1..Len(Append(block, n)), NEW j \in 1..Len(Append(block, n)), i < j
               PROVE  Append(block, n)[i] < Append(block, n)[j]
    BY DEF Ascending
  <2>1. i \in 1..Len(block) /\ Append(block, n)[i] = block[i]
    BY <1>2, SMT
  <2>2. CASE j \in 1..Len(block)
    BY <1>2, <1>3, <2>1, <2>2 DEF Ascending
  <2>3. CASE j = Len(block) + 1
    <3>1. block[i] \in Nat /\ block[i] <= Len(flavour)
      BY <1>3, <2>1, SMT DEF Numbered
    <3> QED
      BY <1>1, <1>2, <2>1, <2>3, <3>1, SMT
  <2> QED
    BY <1>2, <2>2, <2>3, SMT
<1>6. ASSUME NEW i \in 1..Len(Append(block, n)) PROVE Append(block, n)[i] <= n
  <2>1. CASE i \in 1..Len(block)
    <3>1. block[i] \in Nat /\ block[i] <= Len(flavour)
      BY <1>3, <2>1, SMT DEF Numbered
    <3> QED
      BY <1>1, <1>2, <2>1, <3>1, SMT
  <2> QED
    BY <1>1, <1>2, <2>1, SMT
<1>7. ASSUME NEW s \in Seq(Nat), Numbered(s), Precedes(s, block)
      PROVE  Precedes(s, Append(block, n))
  <2> SUFFICES ASSUME NEW i \in 1..Len(s), NEW j \in 1..Len(Append(block, n))
               PROVE  s[i] < Append(block, n)[j]
    BY DEF Precedes
  <2>1. CASE j \in 1..Len(block)
    BY <1>2, <1>7, <2>1 DEF Precedes
  <2>2. CASE j = Len(block) + 1
    <3>1. s[i] \in Nat /\ s[i] <= Len(flavour)
      BY <1>7, SMT DEF Numbered
    <3> QED
      BY <1>1, <1>2, <2>2, <3>1, SMT
  <2> QED
    BY <1>2, <2>1, <2>2, SMT
<1> QED
  BY <1>4, <1>5, <1>6, <1>7 DEF n

\* A command enters the queue with the rows handed over.
LEMMA RowQueued ==
    ASSUME TypeOK, InLine, UNCHANGED <<flavour, received, block>>, pending' = <<>>,
           Len(queue') = Len(queue) + 1, \A k \in 1..Len(queue) : queue'[k] = queue[k],
           queue'[Len(queue) + 1].rows = pending
    PROVE  InLine'
<1>1. Ascending(pending)' /\ Numbered(pending)' /\ Precedes(received, pending)' /\ Precedes(pending, block)'
  BY SMT DEF Ascending, Numbered, Precedes
<1>2. \A s : Precedes(s, <<>>)
  BY SMT DEF Precedes
<1>3. \A s : Numbered(s) <=> Numbered(s)'
  BY DEF Numbered
<1>4. Len(queue) \in Nat
  BY SMT DEF TypeOK
<1>5. ASSUME NEW k \in 1..Len(queue')
      PROVE  /\ Ascending(queue'[k].rows) /\ Numbered(queue'[k].rows)
             /\ Precedes(received, queue'[k].rows) /\ Precedes(queue'[k].rows, block)
             /\ \A l \in 1..Len(queue') : k < l => Precedes(queue'[k].rows, queue'[l].rows)
  <2>1. CASE k = Len(queue) + 1
    BY <1>4, <2>1, SMT DEF InLine
  <2>2. CASE k \in 1..Len(queue)
    <3>1. ASSUME NEW l \in 1..Len(queue'), k < l
          PROVE  Precedes(queue'[k].rows, queue'[l].rows)
      <4>1. CASE l = Len(queue) + 1
        BY <2>2, <4>1 DEF InLine
      <4>2. CASE l \in 1..Len(queue)
        BY <2>2, <3>1, <4>2 DEF InLine
      <4> QED
        BY <1>4, <4>1, <4>2, SMT
    <3> QED
      BY <2>2, <3>1 DEF InLine
  <2> QED
    BY <1>4, <2>1, <2>2, SMT
<1> QED
  BY <1>1, <1>2, <1>3, <1>5 DEF InLine

\* The rows of the oldest command reach the server.
LEMMA RowsArrive ==
    ASSUME TypeOK, InLine, UNCHANGED <<flavour, block, pending>>,
           1 \in 1..Len(queue), Len(queue') = Len(queue) - 1,
           \A k \in 1..Len(queue') : k + 1 \in 1..Len(queue) /\ queue'[k] = queue[k + 1],
           received' = received \o queue[1].rows
    PROVE  InLine'
<1> DEFINE r == queue[1].rows
<1>1. /\ received \in Seq(Nat) /\ r \in Seq(Nat) /\ pending \in Seq(Nat) /\ block \in Seq(Nat)
      /\ \A k \in 1..Len(queue) : queue[k].rows \in Seq(Nat)
  BY RowsAreNaturals
<1>2. /\ Ascending(received) /\ Ascending(r) /\ Precedes(received, r)
      /\ Numbered(received) /\ Numbered(r)
      /\ Precedes(received, pending) /\ Precedes(received, block)
      /\ Precedes(r, pending) /\ Precedes(r, block)
      /\ \A k \in 1..Len(queue) : 1 < k => Precedes(received, queue[k].rows) /\ Precedes(r, queue[k].rows)
  BY DEF InLine
<1> HIDE DEF r
<1>3. /\ Ascending(received \o r) /\ Numbered(received \o r)
      /\ \A u \in Seq(Nat) : Precedes(received, u) /\ Precedes(r, u) => Precedes(received \o r, u)
  BY <1>1, <1>2, AscendingConcat
<1>4. \A s : Numbered(s) <=> Numbered(s)'
  BY DEF Numbered
<1>5. received' = received \o r
  BY DEF r
<1>6. /\ Ascending(received') /\ Numbered(received)'
      /\ Precedes(received', pending) /\ Precedes(received', block)
  BY <1>1, <1>2, <1>3, <1>4, <1>5
<1>7. ASSUME NEW k \in 1..Len(queue')
      PROVE  /\ Ascending(queue'[k].rows) /\ Numbered(queue'[k].rows)
             /\ Precedes(received', queue'[k].rows)
             /\ Precedes(queue'[k].rows, pending) /\ Precedes(queue'[k].rows, block)
             /\ \A l \in 1..Len(queue') : k < l => Precedes(queue'[k].rows, queue'[l].rows)
  <2>1. k + 1 \in 1..Len(queue) /\ queue'[k] = queue[k + 1] /\ 1 < k + 1
    BY SMT
  <2>2. Precedes(received', queue'[k].rows)
    BY <1>1, <1>2, <1>3, <1>5, <2>1
  <2>3. ASSUME NEW l \in 1..Len(queue'), k < l
        PROVE  Precedes(queue'[k].rows, queue'[l].rows)
    <3>1. l + 1 \in 1..Len(queue) /\ queue'[l] = queue[l + 1] /\ k + 1 < l + 1
      BY <2>3, SMT
    <3> QED
      BY <2>1, <3>1 DEF InLine
  <2> QED
    BY <2>1, <2>2, <2>3 DEF InLine
<1> QED
  BY <1>2, <1>4, <1>6, <1>7 DEF InLine

LEMMA LineStep ==
    ASSUME IInv, [Next]_vars
    PROVE  InLine'
<1> USE DEF insertVars, sessionVars, serverVars
<1>0. /\ TypeOK /\ InLine /\ queue \in Seq(Command) /\ Len(queue) \in Nat
      /\ pending \in Seq(Row) /\ block \in Seq(Row) /\ <<>> \in Seq(Row)
  BY SMT DEF IInv, TypeOK
<1>1. ASSUME UNCHANGED <<flavour, received, block, pending, queue>> PROVE InLine'
  <2>1. \A k \in 1..Len(queue') : k + 0 \in 1..Len(queue) /\ queue'[k].rows = queue[k + 0].rows
    BY <1>0, <1>1, SMT
  <2> QED
    BY <1>0, <1>1, <2>1, LineKept
<1>2. CASE Open \/ OpenFails \/ Opened \/ WriteReturns \/ Flushed \/ Finished \/ ServerRejects \/ UNCHANGED vars
  BY <1>1, <1>2 DEF Open, OpenFails, Opened, WriteReturns, Flushed, Finished, ServerRejects, vars
<1>3. ASSUME NEW f \in Flavours, Write(f) PROVE InLine'
  <2> DEFINE b == Append(block, Len(flavour'))
  <2>1. /\ Ascending(b) /\ \A i \in 1..Len(b) : b[i] <= Len(flavour')
        /\ \A s \in Seq(Nat) : Numbered(s) => (Numbered(s))'
        /\ \A s \in Seq(Nat) : Numbered(s) /\ Precedes(s, block) => Precedes(s, b)
    BY <1>0, <1>3, NewRow DEF Write
  <2>2. \/ block' = b /\ pending' = pending
        \/ block' = <<>> /\ pending' = b
    BY <1>3 DEF Write
  <2>3. UNCHANGED <<received, queue>>
    BY <1>3 DEF Write
  <2>4. pending = <<>>
    BY <1>3 DEF IInv, Control, Write
  <2> HIDE DEF b
  <2>5. CASE block' = b /\ pending' = pending
    <3>1. (Numbered(block))'
      BY <2>1, <2>5 DEF Numbered
    <3>2. Numbered(received)' /\ Numbered(pending)'
      BY <1>0, <2>1, <2>3, <2>5, RowsAreNaturals DEF InLine
    <3>3. Precedes(received, b) /\ Precedes(pending, b)
      BY <1>0, <2>1, RowsAreNaturals DEF InLine
    <3>4. ASSUME NEW k \in 1..Len(queue)
          PROVE  (Numbered(queue[k].rows))' /\ Precedes(queue[k].rows, b)
      <4>1. queue[k].rows \in Seq(Nat) /\ Numbered(queue[k].rows) /\ Precedes(queue[k].rows, block)
        BY <1>0, RowsAreNaturals DEF InLine
      <4> QED
        BY <2>1, <2>3, <4>1
    <3> QED
      BY <1>0, <2>1, <2>3, <2>5, <3>1, <3>2, <3>3, <3>4 DEF InLine
  <2>6. CASE block' = <<>> /\ pending' = b
    <3>1. (Numbered(pending))'
      BY <2>1, <2>6 DEF Numbered
    <3>2. Numbered(received)'
      BY <1>0, <2>1, <2>3, RowsAreNaturals DEF InLine
    <3>3. Precedes(received, b)
      BY <1>0, <2>1, RowsAreNaturals DEF InLine
    <3>4. ASSUME NEW k \in 1..Len(queue)
          PROVE  (Numbered(queue[k].rows))' /\ Precedes(queue[k].rows, b) /\ Precedes(queue[k].rows, <<>>)
      <4>1. queue[k].rows \in Seq(Nat) /\ Numbered(queue[k].rows) /\ Precedes(queue[k].rows, block)
        BY <1>0, RowsAreNaturals DEF InLine
      <4> QED
        BY <2>1, <2>3, <4>1, EmptyLine
    <3>5. (Ascending(block) /\ Numbered(block) /\ Precedes(received, block) /\ Precedes(pending, block))'
      BY <2>6, SMT DEF Ascending, Numbered, Precedes
    <3> QED
      BY <1>0, <2>1, <2>3, <2>6, <3>1, <3>2, <3>3, <3>4, <3>5 DEF InLine
  <2> QED
    BY <2>2, <2>5, <2>6
<1>4. CASE SendBlock
  <2>1. /\ Len(queue') = Len(queue) + 1 /\ \A k \in 1..Len(queue) : queue'[k] = queue[k]
        /\ queue'[Len(queue) + 1].rows = pending
    <3>1. Queue("block", pending) /\ "block" \in {"block", "finish"}
      BY <1>4 DEF SendBlock
    <3>2. /\ Len(queue') = Len(queue) + 1 /\ \A k \in 1..Len(queue) : queue'[k] = queue[k]
          /\ queue'[Len(queue) + 1] = [op |-> "block", rows |-> pending, awaited |-> TRUE]
      BY <1>0, <3>1, QueueFacts
    <3> QED
      BY <3>2, SMT
  <2>2. pending' = <<>> /\ UNCHANGED <<flavour, received, block>>
    BY <1>4 DEF SendBlock
  <2> QED
    BY <1>0, <2>1, <2>2, RowQueued
<1>5. CASE Finish
  <2>1. /\ Len(queue') = Len(queue) + 1 /\ \A k \in 1..Len(queue) : queue'[k] = queue[k]
        /\ queue'[Len(queue) + 1].rows = <<>>
    <3>1. Queue("finish", <<>>) /\ "finish" \in {"block", "finish"}
      BY <1>5 DEF Finish
    <3>2. /\ Len(queue') = Len(queue) + 1 /\ \A k \in 1..Len(queue) : queue'[k] = queue[k]
          /\ queue'[Len(queue) + 1] = [op |-> "finish", rows |-> <<>>, awaited |-> TRUE]
      BY <1>0, <3>1, QueueFacts
    <3> QED
      BY <3>2, SMT
  <2>2. pending = <<>> /\ UNCHANGED <<flavour, received, block, pending>>
    BY <1>5 DEF Finish, IInv, Control
  <2> QED
    BY <1>0, <2>1, <2>2, RowQueued
<1>6. CASE CancelWrite \/ DropInsert
  <2>1. queue' = Abandoned /\ pending' \in {pending, <<>>} /\ UNCHANGED <<flavour, received, block>>
    BY <1>6 DEF CancelWrite, DropInsert
  <2>2. \A k \in 1..Len(queue') : k + 0 \in 1..Len(queue) /\ queue'[k].rows = queue[k + 0].rows
    <3>1. Len(queue') = Len(queue) /\ \A k \in 1..Len(queue) : queue'[k].rows = queue[k].rows
      BY <1>0, <2>1, AbandonedFacts
    <3> QED
      BY <1>0, <3>1, SMT
  <2> QED
    BY <1>0, <2>1, <2>2, LineKept
<1>7. CASE End
  <2>1. UNCHANGED <<flavour, received, queue>>
    BY <1>7 DEF End
  <2>2. UNCHANGED <<block, pending>> \/ (pending' = block /\ block' = <<>> /\ pc = "ready")
    BY <1>7 DEF End
  <2>3. CASE pending' = block /\ block' = <<>> /\ pc = "ready"
    <3>1. (Ascending(block) /\ Numbered(block) /\ Precedes(received, block) /\ Precedes(pending, block))'
      BY <2>3, SMT DEF Ascending, Numbered, Precedes
    <3>2. \A s : Precedes(s, <<>>)
      BY SMT DEF Precedes
    <3>3. \A s : Numbered(s) <=> Numbered(s)'
      BY <2>1 DEF Numbered
    <3> QED
      BY <1>0, <2>1, <2>3, <3>1, <3>2, <3>3 DEF InLine
  <2> QED
    BY <1>1, <2>1, <2>2, <2>3
<1>8. CASE ActorStep
  <2> PICK op \in {"block", "finish"}, o \in Replies : Answers(op, o)
    BY <1>0, <1>8, ActorAnswers
  <2>1. Serve(op, o) /\ UNCHANGED <<flavour, block, pending>>
    BY DEF Answers, Serve
  <2>2. /\ 1 \in 1..Len(queue) /\ Len(queue') = Len(queue) - 1
        /\ \A k \in 1..Len(queue') : k + 1 \in 1..Len(queue) /\ queue'[k] = queue[k + 1]
    BY <1>0, <2>1, ServeFacts
  <2>3. CASE received' = received
    <3>1. \A k \in 1..Len(queue') : k + 1 \in 1..Len(queue) /\ queue'[k].rows = queue[k + 1].rows
      BY <2>2
    <3> QED
      BY <1>0, <2>1, <2>3, <3>1, LineKept
  <2>4. CASE received' = received \o queue[1].rows
    BY <1>0, <2>1, <2>2, <2>4, RowsArrive
  <2> QED
    BY <2>3, <2>4 DEF Answers
<1> QED
  BY <1>2, <1>3, <1>4, <1>5, <1>6, <1>7, <1>8 DEF Next, ActorStep

-----------------------------------------------------------------------------
(* The points of write() and end() *)

\* Nothing is queued or outstanding once the caller has its reply, or waits for
\* none, unless a write() was cancelled.
LEMMA QueueEmpty ==
    ASSUME TypeOK, Awaiting, OneAtATime, ~cancelled, pc # "over", reply # NoReply \/ ~Waiting
    PROVE  queue = <<>>
<1>1. SUFFICES ASSUME queue # <<>> PROVE FALSE
  OBVIOUS
<1>2. queue[1].awaited /\ 1 \in 1..Len(queue)
  BY <1>1, SMT DEF OneAtATime, TypeOK
<1> QED
  BY <1>2 DEF Awaiting

LEMMA ControlStep ==
    ASSUME IInv, [Next]_vars
    PROVE  Control'
<1> USE DEF insertVars, sessionVars, serverVars, ReturnedIsSettled
<1>0. /\ TypeOK /\ Control /\ Awaiting /\ Len(acked) \in Nat /\ Len(flavour) \in Nat
      /\ acked \in Seq(Row) /\ active \in BOOLEAN
  BY SMT DEF IInv, TypeOK
<1>1. CASE Open \/ OpenFails \/ ServerRejects \/ UNCHANGED vars
  BY <1>0, <1>1, SMT DEF Open, OpenFails, ServerRejects, vars, Control
<1>2. CASE Opened
  BY <1>0, <1>2 DEF Opened, Control
<1>3. ASSUME NEW f \in Flavours, Write(f) PROVE Control'
  <2>1. Len(flavour') = Len(flavour) + 1
    BY <1>0, <1>3, AppendFacts DEF Write, TypeOK
  <2>2. rows_written = Len(acked) /\ Len(acked) <= Len(flavour)
    BY <1>0 DEF Control
  <2>3. Count(Len(flavour')) => rows_written' = Len(acked') /\ Len(acked') = Len(acked) + 1
    <3> SUFFICES ASSUME Count(Len(flavour'))
                 PROVE  rows_written' = Len(acked') /\ Len(acked') = Len(acked) + 1
      OBVIOUS
    <3>1. Len(flavour') \in Row /\ acked' = Append(acked, Len(flavour')) /\ rows_written' = rows_written + 1
      BY <1>0, <1>3, <2>1, TcpInsertAssumption, SMT DEF Count, Write, Row
    <3> QED
      BY <1>0, <2>2, <3>1, AppendFacts
  <2>4. /\ rows_written' = Len(acked') /\ Len(acked') <= Len(flavour')
        /\ pc' \in {"sending", "sent"} => Len(acked') < Len(flavour')
    BY <1>0, <1>3, <2>1, <2>2, <2>3, SMT DEF Write
  <2>5. /\ pc' \in {"sending", "sent", "flushing", "flushed", "ending", "ended"} => block' = <<>>
        /\ pc' \notin {"sending", "flushing", "over"} => pending' = <<>>
        /\ pc' \in {"ready", "sending"}
    BY <1>0, <1>3 DEF Write, Control
  <2>6. active /\ UNCHANGED <<active, result, released, poisoned, state>> /\ pc = "ready"
    BY <1>3 DEF Write
  <2> QED
    BY <1>0, <2>4, <2>5, <2>6 DEF Control
<1>4. CASE SendBlock
  BY <1>0, <1>4 DEF SendBlock, Queue, Control
<1>5. CASE WriteReturns
  <2>1. Len(flavour) \in Row /\ Len(acked) < Len(flavour) /\ rows_written = Len(acked)
    BY <1>0, <1>5, SMT DEF WriteReturns, Control, TypeOK, Row
  <2>2. rows_written' = Len(acked') /\ Len(acked') <= Len(flavour)
    BY <1>0, <1>5, <2>1, AppendFacts, SMT DEF WriteReturns, Count
  <2>3. /\ active /\ pc' = "ready" /\ ~released /\ result = "none"
        /\ UNCHANGED <<active, flavour, block, pending, result, released>>
        /\ pc = "sent"
    BY <1>0, <1>5 DEF WriteReturns, Control
  <2> QED
    BY <1>0, <2>2, <2>3 DEF Control
<1>6. CASE CancelWrite
  BY <1>0, <1>6 DEF CancelWrite, Control
<1>7. CASE End
  BY <1>0, <1>7, SMT DEF End, EndReturns, Control
<1>8. CASE Flushed
  BY <1>0, <1>8 DEF Flushed, EndReturns, Control
<1>9. CASE Finish
  BY <1>0, <1>9 DEF Finish, Queue, Control
<1>10. CASE Finished
  BY <1>0, <1>10 DEF Finished, EndReturns, Control, Awaiting, TypeOK, Replies
<1>11. CASE DropInsert
  BY <1>0, <1>11, AbandonedFacts, SMT DEF DropInsert, Control
<1>12. CASE ActorStep
  <2> PICK op \in {"block", "finish"}, o \in Replies : Answers(op, o)
    BY <1>0, <1>12, ActorAnswers
  <2>1. Serve(op, o)
    BY DEF Answers
  <2>2. queue # <<>> /\ UNCHANGED <<pc, insertVars, released>>
    BY <2>1 DEF Serve
  <2>3. (poisoned => poisoned') /\ (state = "Idle" => state' = "Idle")
    BY DEF Answers
  <2>4. active
    BY <1>0, <2>2 DEF Control
  <2> QED
    BY <1>0, <2>2, <2>3, <2>4 DEF Control
<1> QED
  BY <1>1, <1>2, <1>3, <1>4, <1>5, <1>6, <1>7, <1>8, <1>9, <1>10, <1>11, <1>12
  DEF Next, ActorStep

-----------------------------------------------------------------------------
(* Who waits for what *)

LEMMA AwaitingStep ==
    ASSUME IInv, [Next]_vars
    PROVE  Awaiting'
<1> USE DEF insertVars, sessionVars, serverVars, Waiting
<1>0. TypeOK /\ Control /\ Awaiting /\ queue \in Seq(Command) /\ Len(queue) \in Nat
  BY SMT DEF IInv, TypeOK
<1>1. CASE UNCHANGED vars \/ Open \/ OpenFails \/ ServerRejects
  BY <1>0, <1>1 DEF Open, OpenFails, ServerRejects, vars, Awaiting
<1>2. CASE Opened
  BY <1>0, <1>2 DEF Opened, Awaiting, Control
<1>3. ASSUME NEW f \in Flavours, Write(f) PROVE Awaiting'
  <2>1. pc = "ready" /\ pc' \in {"ready", "sending"} /\ UNCHANGED <<queue, reply, state>>
    BY <1>3 DEF Write
  <2> QED
    BY <1>0, <2>1 DEF Awaiting
<1>4. ASSUME NEW op \in {"block", "finish"}, NEW r \in Seq(Row), Queue(op, r),
             op = "finish" => r = <<>>, ~Waiting,
             pc' \in {"sent", "flushed", "ended"}, op = "finish" <=> pc' = "ended"
      PROVE  Awaiting'
  <2>1. /\ Len(queue') = Len(queue) + 1 /\ \A k \in 1..Len(queue) : queue'[k] = queue[k]
        /\ queue'[Len(queue) + 1] = [op |-> op, rows |-> r, awaited |-> TRUE]
    BY <1>0, <1>4, QueueFacts
  <2>2. reply = NoReply /\ UNCHANGED <<reply, state>>
    BY <1>0, <1>4 DEF Awaiting, Queue
  <2>3. ASSUME NEW k \in 1..Len(queue')
        PROVE  /\ queue'[k].op = "finish" => queue'[k].rows = <<>>
               /\ queue'[k].awaited => k = Len(queue') /\ (queue'[k].op = "finish" <=> pc' = "ended")
    <3>1. CASE k \in 1..Len(queue)
      BY <1>0, <1>4, <2>1, <3>1 DEF Awaiting
    <3>2. CASE k = Len(queue) + 1
      BY <1>4, <2>1, <3>2, SMT
    <3> QED
      BY <1>0, <2>1, <3>1, <3>2, SMT
  <2> QED
    BY <1>4, <2>2, <2>3 DEF Awaiting, NoReply
<1>5. CASE SendBlock
  <2>1. pending \in Seq(Row) /\ Queue("block", pending) /\ ~Waiting /\ pc' \in {"sent", "flushed"}
    BY <1>0, <1>5 DEF SendBlock, TypeOK
  <2> QED
    BY <1>4, <2>1
<1>6. CASE Finish
  <2>1. <<>> \in Seq(Row) /\ Queue("finish", <<>>) /\ ~Waiting /\ pc' = "ended"
    BY <1>6, SMT DEF Finish
  <2> QED
    BY <1>4, <2>1
<1>7. ASSUME reply # NoReply, reply' = NoReply, UNCHANGED queue PROVE Awaiting'
  BY <1>0, <1>7 DEF Awaiting, NoReply
<1>8. CASE WriteReturns \/ Flushed \/ Finished
  BY <1>7, <1>8 DEF WriteReturns, Flushed, Finished
<1>9. CASE CancelWrite \/ DropInsert
  <2>1. queue' = Abandoned /\ reply' = NoReply
    BY <1>9 DEF CancelWrite, DropInsert
  <2>2. /\ Len(queue') = Len(queue)
        /\ \A k \in 1..Len(queue) : /\ queue'[k].op = queue[k].op
                                    /\ queue'[k].rows = queue[k].rows
                                    /\ queue'[k].awaited = FALSE
    BY <1>0, <2>1, AbandonedFacts
  <2> QED
    BY <1>0, <2>1, <2>2 DEF Awaiting, NoReply
<1>10. CASE End
  <2>1. pc = "ready" /\ UNCHANGED <<queue, reply, state>>
    BY <1>10 DEF End
  <2>2. pc' \in {"over", "ending", "flushing"}
    BY <1>10 DEF End, EndReturns
  <2> QED
    BY <1>0, <2>1, <2>2 DEF Awaiting
<1>11. CASE ActorStep
  <2> PICK op \in {"block", "finish"}, o \in Replies : Answers(op, o)
    BY <1>0, <1>11, ActorAnswers
  <2>1. Serve(op, o) /\ UNCHANGED pc
    BY DEF Answers, Serve
  <2>2. /\ 1 \in 1..Len(queue) /\ Len(queue') = Len(queue) - 1 /\ queue[1].op = op
        /\ \A k \in 1..Len(queue') : k + 1 \in 1..Len(queue) /\ queue'[k] = queue[k + 1]
        /\ reply' = IF queue[1].awaited THEN o ELSE reply
    BY <1>0, <2>1, ServeFacts
  <2>3. /\ op = "finish" /\ o # "failed" => state' = "Idle"
        /\ state = "Idle" => state' = "Idle"
    BY DEF Answers
  <2>4. CASE queue[1].awaited
    <3>1. Len(queue) = 1 /\ Waiting /\ (op = "finish" <=> pc = "ended")
      BY <1>0, <2>2, <2>4 DEF Awaiting
    <3>2. \A k \in 1..Len(queue') : FALSE
      BY <2>2, <3>1, SMT
    <3>3. pc' = "ended" /\ reply' \in {"ok", "exception"} => state' = "Idle"
      BY <2>1, <2>2, <2>3, <2>4, <3>1
    <3> QED
      BY <2>1, <3>1, <3>2, <3>3 DEF Awaiting
  <2>5. CASE ~queue[1].awaited
    <3>1. reply' = reply
      BY <2>2, <2>5
    <3>2. ASSUME NEW k \in 1..Len(queue')
          PROVE  /\ queue'[k].op = "finish" => queue'[k].rows = <<>>
                 /\ queue'[k].awaited => /\ k = Len(queue') /\ reply' = NoReply /\ Waiting
                                         /\ queue'[k].op = "finish" <=> pc = "ended"
      BY <1>0, <2>2, <3>1, SMT DEF Awaiting
    <3> QED
      BY <1>0, <2>1, <2>3, <3>1, <3>2 DEF Awaiting
  <2> QED
    BY <2>4, <2>5
<1> QED
  BY <1>1, <1>2, <1>3, <1>5, <1>6, <1>8, <1>9, <1>10, <1>11 DEF Next, ActorStep

LEMMA OneAtATimeStep ==
    ASSUME IInv, [Next]_vars
    PROVE  OneAtATime'
<1> USE DEF insertVars, sessionVars, serverVars, Waiting
<1>0. /\ TypeOK /\ Control /\ Awaiting /\ OneAtATime /\ queue \in Seq(Command) /\ Len(queue) \in Nat
      /\ cancelled \in BOOLEAN
  BY SMT DEF IInv, TypeOK
<1>1. CASE UNCHANGED vars \/ Open \/ OpenFails \/ ServerRejects
  BY <1>0, <1>1 DEF Open, OpenFails, ServerRejects, vars, OneAtATime
<1>2. CASE Opened
  BY <1>0, <1>2 DEF Opened, OneAtATime
<1>3. ASSUME NEW f \in Flavours, Write(f) PROVE OneAtATime'
  <2>1. pc = "ready" /\ pc' \in {"ready", "sending"} /\ UNCHANGED <<queue, reply, cancelled, result>>
    BY <1>3 DEF Write
  <2> QED
    BY <1>0, <2>1 DEF OneAtATime
<1>4. ASSUME NEW op \in {"block", "finish"}, NEW r \in Seq(Row), Queue(op, r),
             pc \in {"sending", "flushing", "ending"}, UNCHANGED <<cancelled, result>>
      PROVE  OneAtATime'
  <2> SUFFICES ASSUME ~cancelled PROVE OneAtATime'
    BY <1>4 DEF OneAtATime
  <2>1. queue = <<>> /\ result = "none"
    BY <1>0, <1>4, QueueEmpty DEF Control
  <2>2. /\ Len(queue') = Len(queue) + 1
        /\ queue'[Len(queue) + 1] = [op |-> op, rows |-> r, awaited |-> TRUE]
    BY <1>0, <1>4, QueueFacts
  <2>3. Len(queue') = 1 /\ queue'[1].awaited /\ queue' # <<>>
    BY <2>1, <2>2, SMT
  <2> QED
    BY <1>4, <2>1, <2>3, SMT DEF OneAtATime
<1>5. CASE SendBlock
  <2>1. pending \in Seq(Row) /\ Queue("block", pending) /\ pc \in {"sending", "flushing"}
    BY <1>0, <1>5 DEF SendBlock, TypeOK
  <2> QED
    BY <1>4, <1>5, <2>1 DEF SendBlock
<1>6. CASE Finish
  <2>1. <<>> \in Seq(Row) /\ Queue("finish", <<>>) /\ pc = "ending"
    BY <1>6, SMT DEF Finish
  <2> QED
    BY <1>4, <1>6, <2>1 DEF Finish
<1>7. CASE WriteReturns \/ Flushed \/ Finished
  <2>1. UNCHANGED <<queue, cancelled>> /\ reply # NoReply /\ pc # "over"
    BY <1>7 DEF WriteReturns, Flushed, Finished
  <2>2. pc' \in {"ready", "ending", "over"}
    BY <1>7 DEF WriteReturns, Flushed, Finished, EndReturns
  <2>3. ~cancelled => queue = <<>>
    BY <1>0, <2>1, QueueEmpty
  <2> QED
    BY <2>1, <2>2, <2>3, SMT DEF OneAtATime
<1>8. CASE CancelWrite
  BY <1>8 DEF CancelWrite, OneAtATime
<1>9. CASE DropInsert
  <2>1. queue' = Abandoned /\ pc' = "over" /\ result = "none" /\ UNCHANGED <<cancelled, result>>
    BY <1>0, <1>9 DEF DropInsert, Control
  <2>2. Len(queue') = Len(queue)
    BY <1>0, <2>1, AbandonedFacts
  <2> QED
    BY <1>0, <2>1, <2>2 DEF OneAtATime
<1>10. CASE End
  <2>1. pc = "ready" /\ UNCHANGED <<queue, cancelled>>
    BY <1>10 DEF End
  <2>2. pc' \in {"over", "ending", "flushing"}
    BY <1>10 DEF End, EndReturns
  <2>3. ~cancelled => queue = <<>>
    BY <1>0, <2>1, QueueEmpty
  <2> QED
    BY <2>1, <2>2, <2>3, SMT DEF OneAtATime
<1>11. CASE ActorStep
  <2> PICK op \in {"block", "finish"}, o \in Replies : Answers(op, o)
    BY <1>0, <1>11, ActorAnswers
  <2>1. Serve(op, o) /\ UNCHANGED <<pc, cancelled, result>>
    BY DEF Answers, Serve
  <2>2. /\ 1 \in 1..Len(queue) /\ Len(queue') = Len(queue) - 1
        /\ queue' \in Seq(Command) /\ queue # <<>>
        /\ reply' = IF queue[1].awaited THEN o ELSE reply
    BY <1>0, <2>1, ServeFacts
  <2>3. SUFFICES ASSUME ~cancelled PROVE OneAtATime'
    BY <2>1 DEF OneAtATime
  <2>4. Len(queue) = 1 /\ queue' = <<>> /\ result # "ok"
    BY <1>0, <2>2, <2>3, SMT DEF OneAtATime
  <2>5. pc # "over" => reply' # NoReply
    BY <1>0, <2>2, <2>3 DEF OneAtATime, Replies, NoReply
  <2> QED
    BY <2>1, <2>4, <2>5, SMT DEF OneAtATime
<1> QED
  BY <1>1, <1>2, <1>3, <1>5, <1>6, <1>7, <1>8, <1>9, <1>10, <1>11 DEF Next, ActorStep

-----------------------------------------------------------------------------
(* Every row is accounted for *)

\* The session can still commit, and nothing in it will be refused.
Sound ==
    /\ state = "InsertActive" /\ server = "open" /\ pc # "over"
    /\ ~Has(flavour, block, "ragged")

\* What the buffers hold at each point of an undisturbed insert.
LEMMA HeldFacts ==
    ASSUME TypeOK, Control, Awaiting, OneAtATime, ~cancelled, pc # "over"
    PROVE  /\ received \in Seq(Row) /\ acked \in Seq(Row) /\ block \in Seq(Row) /\ pending \in Seq(Row)
           /\ reply # NoReply \/ ~Waiting => queue = <<>>
           /\ pc = "ready" => Held = block
           /\ pc \in {"sending", "flushing"} => Held = pending
           /\ pc = "ending" => Held = <<>>
           /\ Waiting => Held = IF queue = <<>> THEN <<>> ELSE queue[1].rows
<1>1. received \in Seq(Row) /\ acked \in Seq(Row) /\ block \in Seq(Row) /\ pending \in Seq(Row)
  BY DEF TypeOK
<1>2. reply # NoReply \/ ~Waiting => queue = <<>>
  BY QueueEmpty
<1>3. pc \in {"ready", "ending"} \/ Waiting => pending = <<>>
  BY DEF Control, Waiting
<1>4. pc \in {"sending", "flushing", "ending"} \/ Waiting => block = <<>>
  BY DEF Control, Waiting
<1> QED
  BY <1>1, <1>2, <1>3, <1>4 DEF Held, Waiting

LEMMA CompleteStep ==
    ASSUME IInv, [Next]_vars
    PROVE  Complete'
<1> USE DEF insertVars, sessionVars, serverVars
<1>0. /\ TypeOK /\ InLine /\ Control /\ Awaiting /\ OneAtATime /\ Complete
      /\ queue \in Seq(Command) /\ Len(queue) \in Nat /\ <<>> \in Seq(Row)
  BY SMT DEF IInv, TypeOK
<1> SUFFICES ASSUME ~cancelled' PROVE Complete'
  BY DEF Complete
<1>1. ~cancelled
  <2>1. CASE \E f \in Flavours : Write(f)
    BY <2>1, SMT DEF Write
  <2>2. CASE ActorStep
    BY <1>0, <2>2, ActorAnswers DEF Answers, Serve
  <2>3. CASE Open \/ Opened \/ OpenFails \/ SendBlock \/ WriteReturns \/ CancelWrite \/ UNCHANGED vars
    BY <2>3 DEF Open, Opened, OpenFails, SendBlock, WriteReturns, CancelWrite, vars
  <2>4. CASE End \/ Flushed \/ Finish \/ Finished \/ DropInsert \/ ServerRejects
    BY <2>4 DEF End, Flushed, Finish, Finished, DropInsert, ServerRejects
  <2> QED
    BY <2>1, <2>2, <2>3, <2>4 DEF Next, ActorStep
<1>2. /\ pc = "ended" /\ reply = "ok" => server = "committed"
      /\ result = "ok" /\ active => server = "committed"
      /\ NoneHuge => /\ state = "InsertActive" => reply \in {NoReply, "ok"}
                     /\ Sound => received \o Held = Due
                     /\ pc = "ended" /\ reply = "ok" => received = acked
                     /\ result = "ok" => received = acked
  BY <1>0, <1>1 DEF Complete, Sound
<1>3. ASSUME UNCHANGED <<flavour, block, pending, queue, acked, active, result, reply, received>>,
             pc' = pc \/ (pc \in {"ready", "opening"} /\ pc' \in {"ready", "opening"}),
             state' = state, server' = server \/ (server = "open" /\ server' = "rejected")
      PROVE  Complete'
  BY <1>1, <1>2, <1>3 DEF Complete, Sound, NoneHuge, Has, Held, Due
<1>4. CASE UNCHANGED vars \/ Open \/ OpenFails \/ ServerRejects
  <2>1. /\ UNCHANGED <<flavour, block, pending, queue, acked, active, result, reply, received>>
        /\ pc' = pc \/ (pc \in {"ready", "opening"} /\ pc' \in {"ready", "opening"})
        /\ state' = state /\ (server' = server \/ (server = "open" /\ server' = "rejected"))
    BY <1>4 DEF Open, OpenFails, ServerRejects, vars
  <2> QED
    BY <1>3, <2>1
<1>5. CASE Opened
  <2>1. /\ queue = <<>> /\ pending = <<>> /\ block = <<>> /\ received = <<>> /\ acked = <<>>
        /\ pc' = "ready" /\ result = "none" /\ reply = NoReply
    BY <1>0, <1>5 DEF Opened, Control, Awaiting, Waiting
  <2>2. UNCHANGED <<flavour, block, pending, acked, result, queue, reply, received>>
    BY <1>5 DEF Opened
  <2>3. received' \o Held' = Due'
    BY <2>1, <2>2, SMT DEF Held, Due
  <2> QED
    BY <2>1, <2>2, <2>3 DEF Complete, NoReply
<1>6. ASSUME NEW f \in Flavours, Write(f) PROVE Complete'
  <2> DEFINE n == Len(flavour')
             b == Append(block, n)
  <2>1. /\ pc = "ready" /\ queue = <<>> /\ pending = <<>> /\ Held = block /\ Due = acked
        /\ reply = NoReply /\ result = "none"
    BY <1>0, <1>1, <1>6, HeldFacts DEF Write, Control, Awaiting, Waiting, Due
  <2>2. UNCHANGED <<queue, reply, result, received, state, server, active>>
    BY <1>6 DEF Write
  <2>3. Len(flavour') = Len(flavour) + 1 /\ \A i \in 1..Len(flavour) : flavour'[i] = flavour[i]
    BY <1>0, <1>6, AppendFacts, SMT DEF Write, TypeOK
  <2>4. n \in Row /\ Len(flavour) \in Nat
    BY <1>0, <1>6, <2>3, TcpInsertAssumption, SMT DEF Write, Row, TypeOK
  <2>5. /\ Len(b) = Len(block) + 1 /\ Len(block) \in Nat /\ block \in Seq(Row)
        /\ \A i \in 1..Len(block) : b[i] = block[i]
    BY <1>0, <2>4, AppendFacts, SMT DEF TypeOK
  <2>6. NoneHuge' => NoneHuge
    BY <2>3, <2>4, SMT DEF NoneHuge
  <2>7. ~Has(flavour', b, "ragged") => ~Has(flavour, block, "ragged")
    <3> SUFFICES ASSUME NEW i \in 1..Len(block), flavour[block[i]] = "ragged"
                 PROVE  i \in 1..Len(b) /\ flavour'[b[i]] = "ragged"
      BY DEF Has
    <3>1. block[i] \in 1..Len(flavour)
      BY <1>0, <2>4, <2>5, TcpInsertAssumption, SMT DEF InLine, Numbered, Row
    <3> QED
      BY <2>3, <2>5, <3>1, SMT
  <2>8. received \o b = Append(received \o block, n)
    <3>1. received \in Seq(Row)
      BY <1>0 DEF TypeOK
    <3> QED
      BY <2>4, <2>5, <3>1, AppendConcat, SMT
  <2> HIDE DEF n, b
  <2>9. CASE block' = b /\ pending' = pending /\ pc' = pc /\ acked' = Append(acked, n)
    <3>1. Held' = b /\ Due' = Append(acked, n)
      BY <2>1, <2>2, <2>9 DEF Held, Due
    <3>2. NoneHuge' /\ Sound' => received' \o Held' = Due'
      BY <1>2, <2>1, <2>2, <2>6, <2>7, <2>8, <2>9, <3>1 DEF Sound
    <3> QED
      BY <2>1, <2>2, <2>9, <3>2 DEF Complete, Sound
  <2>10. CASE block' = b /\ Has(flavour', b, "ragged") /\ pc' = pc
    BY <2>1, <2>2, <2>10 DEF Complete
  <2>11. CASE /\ block' = <<>> /\ pending' = b /\ ~Has(flavour', b, "ragged")
              /\ pc' = "sending" /\ acked' = acked
    <3>1. b # <<>>
      BY <2>5, SMT
    <3>2. Held' = b /\ Due' = Append(acked, n)
      BY <2>1, <2>2, <2>11, <3>1 DEF Held, Due, n
    <3>3. NoneHuge' /\ Sound' => received' \o Held' = Due'
      BY <1>2, <2>1, <2>2, <2>6, <2>7, <2>8, <2>11, <3>2 DEF Sound
    <3> QED
      BY <2>1, <2>2, <2>11, <3>3 DEF Complete, Sound
  <2> QED
    <3>1. \/ block' = b /\ pending' = pending /\ pc' = pc /\ acked' = Append(acked, n)
          \/ block' = b /\ Has(flavour', b, "ragged") /\ pc' = pc
          \/ /\ block' = <<>> /\ pending' = b /\ ~Has(flavour', b, "ragged")
             /\ pc' = "sending" /\ acked' = acked
      BY <1>6 DEF Write, Count, n, b
    <3> QED
      BY <2>9, <2>10, <2>11, <3>1
<1>7. ASSUME NEW op \in {"block", "finish"}, NEW r \in Seq(Row), Queue(op, r),
             pc \in {"sending", "flushing", "ending"}, r = Held, block = <<>>,
             pc' = "sent" <=> pc = "sending", pc' \in {"sent", "flushed", "ended"},
             UNCHANGED <<flavour, block, acked, active, result, received, server>>
      PROVE  Complete'
  <2>1. queue = <<>> /\ reply = NoReply /\ result = "none"
    BY <1>0, <1>1, <1>7, HeldFacts DEF Control, Awaiting, Waiting
  <2>2. /\ Len(queue') = Len(queue) + 1
        /\ queue'[Len(queue) + 1] = [op |-> op, rows |-> r, awaited |-> TRUE]
    BY <1>0, <1>7, QueueFacts
  <2>3. queue' # <<>> /\ queue'[1].rows = Held
    <3>1. Len(queue) = 0
      BY <2>1
    <3>2. Len(queue') = 1 /\ queue'[1].rows = r
      BY <2>2, <3>1, SMT
    <3> QED
      BY <1>7, <3>2, SMTT(30)
  <2>4. Held' = Held /\ UNCHANGED <<reply, state>>
    <3>1. Held' = queue'[1].rows
      BY <2>3 DEF Held
    <3> QED
      BY <1>7, <2>3, <3>1 DEF Queue
  <2>5. Due' = Due
    BY <1>7 DEF Due
  <2>6. NoneHuge' => NoneHuge
    BY <1>7 DEF NoneHuge
  <2>7. Sound' => Sound
    BY <1>7, <2>4 DEF Sound
  <2>8. NoneHuge' /\ Sound' => received' \o Held' = Due'
    BY <1>2, <1>7, <2>4, <2>5, <2>6, <2>7
  <2> QED
    BY <1>7, <2>1, <2>4, <2>8 DEF Complete, Sound, NoReply
<1>8. CASE SendBlock
  <2>1. /\ pending \in Seq(Row) /\ Queue("block", pending) /\ pc \in {"sending", "flushing"}
        /\ pending = Held /\ block = <<>>
        /\ pc' = "sent" <=> pc = "sending"
        /\ pc' \in {"sent", "flushed"}
    BY <1>0, <1>1, <1>8, HeldFacts DEF SendBlock, Control
  <2> QED
    BY <1>7, <1>8, <2>1 DEF SendBlock
<1>9. CASE Finish
  <2>1. /\ <<>> \in Seq(Row) /\ Queue("finish", <<>>) /\ pc = "ending"
        /\ <<>> = Held /\ block = <<>> /\ pc' = "ended"
    BY <1>0, <1>1, <1>9, HeldFacts DEF Finish, Control
  <2> QED
    BY <1>7, <1>9, <2>1 DEF Finish
<1>10. CASE WriteReturns
  <2>1. /\ pc = "sent" /\ queue = <<>> /\ pending = <<>> /\ block = <<>> /\ Held = <<>>
        /\ result = "none" /\ Due = Append(acked, Len(flavour))
    BY <1>0, <1>1, <1>10, HeldFacts DEF WriteReturns, Control, Waiting, Due
  <2>2. /\ pc' = "ready" /\ reply' = NoReply /\ reply # NoReply
        /\ reply = "ok" => acked' = Append(acked, Len(flavour))
        /\ UNCHANGED <<flavour, block, pending, result, queue, state, server, received>>
    BY <1>10 DEF WriteReturns, Count
  <2>3. Held' = Held /\ Due' = acked'
    BY <2>2 DEF Held, Due
  <2>4. (NoneHuge' => NoneHuge) /\ (Sound' => Sound)
    BY <2>1, <2>2 DEF NoneHuge, Sound
  <2>5. NoneHuge' /\ Sound' => received' \o Held' = Due'
    BY <1>2, <2>1, <2>2, <2>3, <2>4 DEF Sound
  <2> QED
    BY <2>1, <2>2, <2>5 DEF Complete, Sound, NoReply
<1>11. CASE DropInsert
  <2>1. pc' = "over" /\ reply' = NoReply /\ result = "none" /\ UNCHANGED result
    BY <1>0, <1>11 DEF DropInsert, Control
  <2> QED
    BY <2>1 DEF Complete, NoReply
<1>12. CASE Flushed
  <2>1. /\ pc = "flushed" /\ queue = <<>> /\ pending = <<>> /\ block = <<>>
        /\ result = "none" /\ reply # NoReply
    BY <1>0, <1>1, <1>12, HeldFacts DEF Flushed, Control, Waiting
  <2>2. /\ reply' = NoReply
        /\ UNCHANGED <<flavour, block, pending, acked, active, state, queue, server, received>>
    BY <1>12 DEF Flushed
  <2>3. CASE pc' = "ending" /\ result' = result
    <3>1. Held' = Held /\ Due' = Due
      BY <2>1, <2>2, <2>3 DEF Held, Due
    <3>2. (NoneHuge' => NoneHuge) /\ (Sound' => Sound)
      BY <2>1, <2>2 DEF NoneHuge, Sound
    <3>3. NoneHuge' /\ Sound' => received' \o Held' = Due'
      BY <1>2, <2>2, <3>1, <3>2
    <3> QED
      BY <2>1, <2>2, <2>3, <3>3 DEF Complete, Sound, NoReply
  <2>4. CASE pc' = "over" /\ result' = "err"
    BY <2>2, <2>4 DEF Complete, NoReply
  <2> QED
    BY <1>12, <2>3, <2>4 DEF Flushed, EndReturns
<1>13. CASE Finished
  <2>1. /\ pc' = "over" /\ reply' = NoReply /\ result' = (IF reply = "ok" THEN "ok" ELSE "err") /\ pc = "ended"
        /\ UNCHANGED <<flavour, acked, server, received>>
    BY <1>13 DEF Finished, EndReturns
  <2>2. NoneHuge' => NoneHuge
    BY <2>1 DEF NoneHuge
  <2> QED
    BY <1>2, <2>1, <2>2 DEF Complete, NoReply
<1>14. CASE End
  <2>1. /\ pc = "ready" /\ queue = <<>> /\ pending = <<>> /\ Held = block /\ Due = acked
        /\ reply = NoReply /\ result = "none"
    BY <1>0, <1>1, <1>14, HeldFacts DEF End, Control, Awaiting, Waiting, Due
  <2>2. UNCHANGED <<flavour, acked, active, state, queue, reply, server, received>>
    BY <1>14 DEF End
  <2>3. CASE ~active /\ pc' = "over"
    BY <1>0, <2>1, <2>2, <2>3 DEF Control, Complete
  <2>4. CASE pc' = "over" /\ result' = "err"
    BY <2>1, <2>2, <2>4 DEF Complete
  <2>5. CASE /\ pc' \in {"ending", "flushing"} /\ UNCHANGED result
             /\ \/ block = <<>> /\ UNCHANGED <<block, pending>>
                \/ block # <<>> /\ pending' = block /\ block' = <<>> /\ ~Has(flavour, block, "ragged")
    <3>1. Held' = block /\ Due' = acked
      BY <2>1, <2>2, <2>5 DEF Held, Due
    <3>2. (NoneHuge' => NoneHuge) /\ (Sound' => Sound)
      BY <2>1, <2>2, <2>5 DEF NoneHuge, Sound, Has
    <3>3. NoneHuge' /\ Sound' => received' \o Held' = Due'
      BY <1>2, <2>1, <2>2, <3>1, <3>2
    <3> QED
      BY <2>1, <2>2, <2>5, <3>3 DEF Complete, Sound
  <2> QED
    BY <1>14, <2>3, <2>4, <2>5 DEF End, EndReturns
<1>15. CASE ActorStep
  <2> PICK op \in {"block", "finish"}, o \in Replies : Answers(op, o)
    BY <1>0, <1>15, ActorAnswers
  <2>1. Serve(op, o) /\ UNCHANGED <<pc, flavour, block, pending, acked, active, result>>
    BY DEF Answers, Serve
  <2>2. /\ 1 \in 1..Len(queue) /\ Len(queue') = Len(queue) - 1 /\ queue' \in Seq(Command)
        /\ queue # <<>> /\ queue[1].op = op /\ queue[1] \in Command
        /\ reply' = IF queue[1].awaited THEN o ELSE reply
    BY <1>0, <2>1, ServeFacts
  <2>3. queue' = <<>> /\ result # "ok" /\ (pc # "over" => queue[1].awaited)
    BY <1>0, <1>1, <2>2, SMT DEF OneAtATime
  <2>4. queue[1].awaited => Waiting /\ (op = "finish" <=> pc = "ended")
    BY <1>0, <2>2 DEF Awaiting
  <2>5. op = "finish" => queue[1].rows = <<>>
    BY <1>0, <2>2 DEF Awaiting
  <2>6. NoneHuge' => NoneHuge
    BY <2>1 DEF NoneHuge
  <2>7. CASE pc = "over"
    <3>1. reply = NoReply /\ ~queue[1].awaited
      BY <1>0, <2>4, <2>7 DEF Awaiting, Waiting
    <3> QED
      BY <2>1, <2>2, <2>3, <2>7, <3>1 DEF Complete, NoReply
  <2>8. CASE pc # "over"
    <3>1. reply' = o /\ Waiting /\ (op = "finish" <=> pc = "ended") /\ pending = <<>> /\ block = <<>>
      BY <1>0, <2>2, <2>3, <2>4, <2>8 DEF Waiting, Control
    <3>2. NoneHuge' /\ state' = "InsertActive" => o = "ok"
      <4>1. ASSUME NoneHuge PROVE ~Has(flavour, queue[1].rows, "huge")
        <5>1. Numbered(queue[1].rows) /\ queue[1].rows \in Seq(Row) /\ Len(flavour) \in Nat
          BY <1>0, <2>2, SMT DEF InLine, Command, TypeOK
        <5> QED
          BY <4>1, <5>1, TcpInsertAssumption, SMT DEF NoneHuge, Has, Numbered, Row
      <4> QED
        BY <2>6, <4>1 DEF Answers
    <3>3. Held = queue[1].rows /\ Held' = <<>> /\ Due' = Due
      BY <2>1, <2>2, <2>3, <3>1 DEF Held, Due
    <3>4. /\ state' = "InsertActive" => state = "InsertActive"
          /\ server' = "open" => server = "open"
          /\ op = "finish" /\ o # "failed" => state' = "Idle"
          /\ op = "finish" /\ o = "ok" => /\ state = "InsertActive" /\ server = "open"
                                        /\ server' = "committed" /\ received' = received
          /\ op = "block" /\ o = "ok" /\ server = "open" => received' = received \o queue[1].rows
      BY <1>0 DEF Answers, TypeOK
    <3>5. Sound' => Sound
      BY <2>1, <3>4 DEF Sound
    <3>6. received \in Seq(Row) /\ received' \in Seq(Row) /\ received \o <<>> = received /\ received' \o <<>> = received'
      <4>1. received \in Seq(Row) /\ received' \in Seq(Row)
        BY TypeStep, <1>0 DEF TypeOK
      <4> QED
        BY <4>1, ConcatEmptySeq
    <3>7. NoneHuge' /\ Sound' => received' \o Held' = Due'
      <4> SUFFICES ASSUME NoneHuge', Sound' PROVE received' \o Held' = Due'
        OBVIOUS
      <4>1. o = "ok" /\ op = "block" /\ server = "open"
        BY <3>2, <3>4 DEF Sound
      <4> QED
        BY <1>2, <2>6, <3>3, <3>4, <3>5, <3>6, <4>1
    <3>8. pc' = "ended" /\ reply' = "ok" /\ NoneHuge' => received' = acked'
      <4> SUFFICES ASSUME pc' = "ended", reply' = "ok", NoneHuge' PROVE received' = acked'
        OBVIOUS
      <4>1. op = "finish" /\ o = "ok" /\ Sound
        BY <2>1, <2>8, <3>1, <3>4, SMT DEF Sound, Has
      <4> QED
        BY <1>2, <2>1, <2>5, <2>6, <3>3, <3>4, <3>6, <4>1 DEF Due
    <3> QED
      BY <2>1, <2>3, <3>1, <3>2, <3>4, <3>7, <3>8 DEF Complete, Sound
  <2> QED
    BY <2>7, <2>8
<1>16. CASE CancelWrite
  BY <1>16 DEF CancelWrite
<1> QED
  BY <1>4, <1>5, <1>6, <1>8, <1>9, <1>10, <1>11, <1>12, <1>13, <1>14, <1>15, <1>16
  DEF Next, ActorStep

-----------------------------------------------------------------------------
(* The theorems *)

LEMMA InitIInv ==
    ASSUME Init PROVE IInv
<1>1. TypeOK
  <2>1. /\ <<>> \in Seq(Row) /\ <<>> \in Seq(Command) /\ <<>> \in Seq(Flavours)
        /\ Len(flavour) <= MaxRows /\ Len(queue) <= CmdCapacity /\ rows_written \in 0..MaxRows
    BY TcpInsertAssumption, SMT DEF Init
  <2> QED
    BY <2>1 DEF Init, TypeOK
<1>2. InLine
  BY SMT DEF Init, InLine, Ascending, Numbered, Precedes
<1>3. Control
  BY SMT DEF Init, Control, ReturnedIsSettled
<1>4. Awaiting /\ OneAtATime
  <2>1. queue = <<>> /\ pc = "ready" /\ reply = NoReply /\ result = "none"
    BY DEF Init
  <2>2. Len(queue) = 0
    BY <2>1
  <2> QED
    BY <2>1, <2>2, SMT DEF Awaiting, OneAtATime, Waiting, NoReply
<1>5. Complete
  <2>1. state = "Idle" /\ result = "none" /\ pc = "ready"
    BY DEF Init
  <2> QED
    BY <2>1 DEF Complete
<1> QED
  BY <1>1, <1>2, <1>3, <1>4, <1>5 DEF IInv

\* The invariant holds at every point of an insert, for every block size and
\* channel capacity and any number of rows: write(), send_block, end() and drop
\* of insert.rs and TcpInsertSession, with the actor behind them.
THEOREM InsertInvariant == Spec => []IInv
<1>1. Init => IInv
  BY InitIInv
<1>2. IInv /\ [Next]_vars => IInv'
  BY TypeStep, LineStep, ControlStep, AwaitingStep, OneAtATimeStep, CompleteStep DEF IInv
<1> QED
  BY <1>1, <1>2, PTL DEF Spec

\* The state keeps its shape; the command channel never exceeds its capacity.
THEOREM InsertTypeCorrect == Spec => []TypeOK
<1>1. IInv => TypeOK
  BY DEF IInv
<1> QED
  BY <1>1, InsertInvariant, PTL

\* end() that returns Ok(n) has committed exactly the rows whose write()
\* returned Ok, in order, and n counts them (DynamicInsert::write and end).
THEOREM InsertEndIsExact == Spec => []EndIsExact
<1>1. IInv => EndIsExact
  BY DEF IInv, Control, Complete, NoneHuge, EndIsExact
<1> QED
  BY <1>1, InsertInvariant, PTL

\* No row reaches the server twice or out of order, cancelled writes included.
THEOREM InsertInOrderOnce == Spec => []InOrderOnce
<1>1. IInv => InOrderOnce
  BY DEF IInv, InLine, Ascending, InOrderOnce
<1> QED
  BY <1>1, InsertInvariant, PTL

\* A connection is given back outside its INSERT session, or poisoned
\* (TcpInsertSession::drop, finish, abort).
THEOREM InsertReturnsSettled == Spec => []ReturnedIsSettled
<1>1. IInv => ReturnedIsSettled
  BY DEF IInv, Control
<1> QED
  BY <1>1, InsertInvariant, PTL
=============================================================================
