--------------------------- MODULE ServerPackets ---------------------------
(***************************************************************************)
(* The server's side of the packets, outside this crate: what it writes,   *)
(* which read_hello and read_packet meet, and how it takes apart what the  *)
(* client's writers send.  It takes part in a protocol of the lower of its *)
(* own revision and the one the client's Hello named, and its fields are   *)
(* tables of <<first revision, width, value>> in its own order.            *)
(***************************************************************************)
EXTENDS Packets, NativeWriter
LOCAL INSTANCE SequencesExt

Since(table, revision) == SelectSeq(table, LAMBDA f : f[1] <= Effective(revision))
Written(table, revision) ==
    LET fields == Since(table, revision) IN [i \in DOMAIN fields |-> Tail(fields[i])]

ServerId(packet) == <<<<VarUInt, ServerPacketId[packet]>>>>

-----------------------------------------------------------------------------
(* Writing.  A packet is a record of the fields this crate keeps.          *)

HelloFields(m, revision) ==
    <<<<0, String, m.name>>, <<0, VarUInt, m.version[1]>>, <<0, VarUInt, m.version[2]>>,
      <<0, VarUInt, revision>>, <<54471, VarUInt, 4>>, <<54058, String, <<"UTC">>>>,
      <<54372, String, <<"display">>>>, <<54401, VarUInt, m.version[3]>>,
      <<54470, String, NotChunked>>, <<54470, String, NotChunked>>,
      <<54461, VarUInt, Len(m.rules)>>>>
    \o FlattenSeq([i \in DOMAIN m.rules |->
           <<<<54461, String, m.rules[i]>>, <<54461, String, <<"why">>>>>>])
    \o <<<<54462, 8, 7>>>>

PacketFields(m) ==
    CASE m.packet = "Exception" ->
             <<<<0, 4, m.code>>, <<0, String, m.name>>, <<0, String, m.message>>,
               <<0, String, m.stack>>, <<0, 1, 0>>>>
      [] m.packet = "Progress" ->
             <<<<0, VarUInt, m.rows>>, <<0, VarUInt, m.bytes>>, <<51554, VarUInt, m.total>>,
               <<54463, VarUInt, 8>>, <<54420, VarUInt, m.written[1]>>,
               <<54420, VarUInt, m.written[2]>>, <<54460, VarUInt, 9>>>>
      [] m.packet = "ProfileInfo" ->
             <<<<0, VarUInt, m.rows>>, <<0, VarUInt, m.blocks>>, <<0, VarUInt, m.bytes>>,
               <<0, 1, IF m.applied THEN 1 ELSE 0>>, <<0, VarUInt, m.before>>, <<0, 1, 1>>,
               <<54469, 1, 1>>, <<54469, VarUInt, 8>>>>
      [] m.packet = "TableColumns" -> <<<<0, String, m.table>>, <<0, String, m.columns>>>>
      [] m.packet = "TimezoneUpdate" -> <<<<0, String, m.timezone>>>>
      [] OTHER -> <<>>

\* What the reader should make of a packet of a revision: zero or nothing for a field
\* the revision does not have.
PacketAt(m, revision) ==
    IF m.packet # "Progress" THEN m
    ELSE [m EXCEPT !.total = IF Effective(revision) < 51554 THEN 0 ELSE @,
                   !.written = IF Effective(revision) < 54420 THEN <<0, 0>> ELSE @]

HelloAt(m, revision) ==
    LET Has(gate, v) == IF Effective(revision) >= gate THEN <<v>> ELSE <<>>
    IN  [packet |-> "Hello", name |-> m.name, revision |-> revision,
         version |-> <<m.version[1], m.version[2],
                       IF Effective(revision) >= 54401 THEN m.version[3] ELSE 0>>,
         timezone |-> Has(54058, <<"UTC">>), display |-> Has(54372, <<"display">>)]

ServerHello(m, revision) == ServerId("Hello") \o Written(HelloFields(m, revision), revision)
ServerPacket(m, revision) == ServerId(m.packet) \o Written(PacketFields(m), revision)

\* A block and its header; in the HTTP body it has no table name.
ServerColumns(headers, columns, f, revision) ==
    FlattenSeq([i \in DOMAIN headers |-> NativeColumn(headers[i], columns[i], f, revision)])
ServerCounts(headers, rows) == <<<<VarUInt, Len(headers)>>, <<VarUInt, rows>>>>
ServerBlock(packet, headers, columns, rows, f, revision) ==
    ServerId(packet)
      \o Written(<<<<50264, String, EmptyString>>, <<51903, VarUInt, 1>>, <<51903, 1, 0>>,
                   <<51903, VarUInt, 2>>, <<51903, 4, -1>>, <<51903, VarUInt, 0>>>>, revision)
      \o ServerCounts(headers, rows) \o ServerColumns(headers, columns, f, revision)
BodyBlock(headers, columns, rows, f) ==
    BlockInfo \o ServerCounts(headers, rows)
      \o ServerColumns(headers, columns, f, DBMS_TCP_PROTOCOL_VERSION)

-----------------------------------------------------------------------------
(* Reading.  The server knows only the fields of the common revision.      *)

\* The values of the fields of a table of <<first revision, width>>.
Take(s, p, table, revision) ==
    Then(Each(Since(table, revision), p, LAMBDA f, q : Read(s, q, f[2])), LAMBDA vs, q :
        Ok([i \in DOMAIN vs |-> vs[i]], q))

\* Names, flags and values up to an empty name.
RECURSIVE TakeTriples(_, _)
TakeTriples(s, p) ==
    Then(Read(s, p, String), LAMBDA name, q :
        IF name = EmptyString THEN Ok(<<>>, q)
        ELSE Then(ReadFields(s, q, <<VarUInt, String>>), LAMBDA v, at :
             Then(TakeTriples(s, at), LAMBDA rest, after :
                 Ok(<<<<name, v[1], v[2]>>>> \o rest, after))))

ClientInfoTable ==
    <<<<54032, 1>>, <<54032, String>>, <<54032, String>>, <<54032, String>>, <<54449, 8>>,
      <<54032, 1>>, <<54032, String>>, <<54032, String>>, <<54032, String>>, <<54032, VarUInt>>,
      <<54032, VarUInt>>, <<54032, VarUInt>>, <<54060, String>>, <<54448, VarUInt>>,
      <<54401, VarUInt>>, <<54442, 1>>, <<54453, VarUInt>>, <<54453, VarUInt>>,
      <<54453, VarUInt>>>>

BlockInfoTable ==
    <<<<50264, String>>, <<51903, VarUInt>>, <<51903, 1>>, <<51903, VarUInt>>, <<51903, 4>>,
      <<51903, VarUInt>>, <<0, VarUInt>>, <<0, VarUInt>>>>

\* A Data packet: the counts and, when there are rows, the columns.
TakeCounts(s, p, revision) ==
    Then(Expect(s, p, VarUInt, {ClientPacketId.Data}), LAMBDA id, q :
    Then(Take(s, q, BlockInfoTable, revision), LAMBDA h, at :
        Ok([columns |-> h[Len(h) - 1], rows |-> h[Len(h)]], at)))
TakeData(s, p, revision) ==
    Then(TakeCounts(s, p, revision), LAMBDA h, at :
        IF h.rows = 0 THEN Ok(<<>>, at)
        ELSE decode_block(s, at, h.columns, h.rows, Effective(revision)))

\* A Query packet, up to and with the empty block behind it.
TakeQuery(s, p, revision) ==
    Then(Expect(s, p, VarUInt, {ClientPacketId.Query}), LAMBDA i, q0 :
    Then(Read(s, q0, String), LAMBDA id, q1 :
    Then(Take(s, q1, ClientInfoTable, revision), LAMBDA info, q2 :
    Then(TakeTriples(s, q2), LAMBDA settings, q3 :
    Then(Take(s, q3, <<<<54472, String>>, <<54441, String>>, <<0, VarUInt>>, <<0, VarUInt>>,
                       <<0, String>>>>, revision), LAMBDA tail, q4 :
    Then(IF Effective(revision) >= 54459 THEN TakeTriples(s, q4) ELSE Ok(<<>>, q4),
         LAMBDA params, q5 :
    Then(TakeCounts(s, q5, revision), LAMBDA block, after :
        Check(block = [columns |-> 0, rows |-> 0],
        Ok([id |-> id, initial |-> IF info = <<>> THEN id ELSE info[3], text |-> tail[Len(tail)],
            settings |-> settings, params |-> params], after)))))))))

TakeHello(s, p) ==
    ReadFields(s, p, <<VarUInt, String, VarUInt, VarUInt, VarUInt, String, String, String>>)

TakeAddendum(s, p, revision) ==
    Take(s, p, <<<<54458, String>>, <<54470, String>>, <<54470, String>>, <<54471, VarUInt>>>>,
         revision)
=============================================================================
