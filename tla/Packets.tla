------------------------------ MODULE Packets ------------------------------
(***************************************************************************)
(* The packets of the native protocol as this crate writes them            *)
(* (tcp/writer.rs, tcp/client_info.rs) and reads them (tcp/reader.rs), at  *)
(* the revision the server announced.  A field that a revision gates is    *)
(* written or read from its gate on.                                       *)
(***************************************************************************)
EXTENDS BlockCodec
LOCAL INSTANCE SequencesExt

CONSTANTS MaxHeaderColumns,   \* MAX_BLOCK_COLUMNS of tcp/reader.rs
          MaxRules            \* MAX_PASSWORD_COMPLEXITY_RULES

ASSUME PacketsAssumption == {MaxHeaderColumns, MaxRules} \subseteq Nat \ {0}

DBMS_TCP_PROTOCOL_VERSION == 54473

\* The revision both sides know.
Effective(revision) ==
    IF revision < DBMS_TCP_PROTOCOL_VERSION THEN revision ELSE DBMS_TCP_PROTOCOL_VERSION

EmptyString == <<>>

-----------------------------------------------------------------------------
(* Reading.                                                                *)

ServerPacketId ==
    [Hello |-> 0, Data |-> 1, Exception |-> 2, Progress |-> 3, Pong |-> 4, EndOfStream |-> 5,
     ProfileInfo |-> 6, Totals |-> 7, Extremes |-> 8, Log |-> 10, TableColumns |-> 11,
     ProfileEvents |-> 14, TimezoneUpdate |-> 17]

\* The packet an id names.
from_u64(s, p) ==
    LET Named(i) == {n \in DOMAIN ServerPacketId : ServerPacketId[n] = i}
    IN  Then(Read(s, p, VarUInt), LAMBDA i, q :
            IF Named(i) = {} THEN Fail("err") ELSE Ok(CHOOSE n \in Named(i) : TRUE, q))

\* Fields in a row, each a width: their values.
ReadFields(s, p, widths) == Each(widths, p, LAMBDA w, q : Read(s, q, w))

\* Fields that are there from a revision on, nothing before.
ReadFrom(gate, revision, s, p, widths) ==
    IF revision >= gate THEN ReadFields(s, p, widths) ELSE Ok(<<>>, p)

\* An omitted number reads as zero, an omitted string as None.
FieldOr(values, default) == IF values = <<>> THEN default ELSE values[1]

read_exception(s, p) ==
    Then(ReadFields(s, p, <<4, String, String, String, 1>>), LAMBDA v, q :
        Ok([packet |-> "Exception", code |-> v[1], name |-> v[2], message |-> v[3],
            stack |-> v[4]], q))

read_rules(s, p, revision) ==
    IF revision < 54461 THEN Ok(<<>>, p)
    ELSE Then(ReadCapped(s, p, MaxRules), LAMBDA n, q :
             Repeat(n, q, LAMBDA at : ReadFields(s, at, <<String, String>>)))

\* What follows the revision of a server Hello, in the server's order.
read_hello_fields(s, p, head) ==
    LET effective == Effective(head[4])
    IN  Then(ReadFrom(54471, effective, s, p, <<VarUInt>>), LAMBDA replicas, q0 :
        Then(ReadFrom(54058, effective, s, q0, <<String>>), LAMBDA zone, q1 :
        Then(ReadFrom(54372, effective, s, q1, <<String>>), LAMBDA display, q2 :
        Then(ReadFrom(54401, effective, s, q2, <<VarUInt>>), LAMBDA patch, q3 :
        Then(ReadFrom(54470, effective, s, q3, <<String, String>>), LAMBDA chunked, q4 :
        Then(read_rules(s, q4, effective), LAMBDA rules, q5 :
        Then(ReadFrom(54462, effective, s, q5, <<8>>), LAMBDA nonce, after :
            Ok([packet |-> "Hello", name |-> head[1],
                version |-> <<head[2], head[3], FieldOr(patch, 0)>>, revision |-> head[4],
                timezone |-> zone, display |-> display], after))))))))

\* The answer to the client's Hello: a Hello, or an Exception in its place, which the
\* code returns as an error.
read_hello(s, p) ==
    Then(from_u64(s, p), LAMBDA id, q :
        CASE id = "Hello" ->
                 Then(ReadFields(s, q, <<String, VarUInt, VarUInt, VarUInt>>), LAMBDA head, at :
                     read_hello_fields(s, at, head))
          [] id = "Exception" -> read_exception(s, q)
          [] OTHER -> Fail("err"))

read_progress(s, p, revision) ==
    LET effective == Effective(revision)
    IN  Then(ReadFields(s, p, <<VarUInt, VarUInt>>), LAMBDA done, q0 :
        Then(ReadFrom(51554, effective, s, q0, <<VarUInt>>), LAMBDA rows, q1 :
        Then(ReadFrom(54463, effective, s, q1, <<VarUInt>>), LAMBDA bytes, q2 :
        Then(ReadFrom(54420, effective, s, q2, <<VarUInt, VarUInt>>), LAMBDA written, q3 :
        Then(ReadFrom(54460, effective, s, q3, <<VarUInt>>), LAMBDA elapsed, after :
            Ok([packet |-> "Progress", rows |-> done[1], bytes |-> done[2],
                total |-> FieldOr(rows, 0),
                written |-> IF written = <<>> THEN <<0, 0>> ELSE written], after))))))

read_profile_info(s, p, revision) ==
    Then(ReadFields(s, p, <<VarUInt, VarUInt, VarUInt, 1, VarUInt, 1>>), LAMBDA v, q :
    Then(ReadFrom(54469, Effective(revision), s, q, <<1, VarUInt>>), LAMBDA more, after :
        Ok([packet |-> "ProfileInfo", rows |-> v[1], blocks |-> v[2], bytes |-> v[3],
            applied |-> v[4] # 0, before |-> v[5]], after)))

read_table_columns(s, p) ==
    Then(ReadFields(s, p, <<String, String>>), LAMBDA v, q :
        Ok([packet |-> "TableColumns", table |-> v[1], columns |-> v[2]], q))

\* Two numbered fields and the terminator, each number the expected one.
read_block_info(s, p) ==
    Then(Expect(s, p, VarUInt, {1}), LAMBDA f1, q0 :
    Then(Read(s, q0, 1), LAMBDA overflows, q1 :
    Then(Expect(s, q1, VarUInt, {2}), LAMBDA f2, q2 :
    Then(Read(s, q2, 4), LAMBDA bucket, q3 : Expect(s, q3, VarUInt, {0})))))

read_data_block_header(s, p, revision) ==
    Then(ReadFrom(50264, revision, s, p, <<String>>), LAMBDA table, q0 :
    Then(IF revision >= 51903 THEN read_block_info(s, q0) ELSE Ok(0, q0), LAMBDA info, q1 :
    Then(ReadCapped(s, q1, MaxHeaderColumns), LAMBDA columns, q2 :
    Then(Read(s, q2, VarUInt), LAMBDA rows, after :
        Ok([table |-> table, columns |-> columns, rows |-> rows], after)))))

\* Defect: the flag of each column is forgotten.
read_schema_unflagged(s, p, columns, revision) ==
    Repeat(columns, p, LAMBDA q : ReadFields(s, q, <<String, String>>))

\* The columns of a block without rows: names and types, no column sparse.
read_empty_data_block_schema(s, p, columns, revision) ==
    Repeat(columns, p, LAMBDA q :
        Then(ReadFields(s, q, <<String, String>>), LAMBDA column, at :
        Then(IF revision >= CustomSerialization THEN Expect(s, at, 1, {0}) ELSE Ok(0, at),
             LAMBDA flag, after : Ok(column, after))))

\* A block: its schema when it has no rows, its decoded columns otherwise.
read_block(s, p, revision) ==
    Then(read_data_block_header(s, p, revision), LAMBDA h, q :
        IF h.rows = 0
        THEN Then(read_empty_data_block_schema(s, q, h.columns, revision), LAMBDA schema, after :
                 Ok([packet |-> "Data", table |-> h.table, columns |-> schema], after))
        ELSE Then(decode_block(s, q, h.columns, h.rows, revision), LAMBDA columns, after :
                 Ok([packet |-> "DataBlock", columns |-> columns, rows |-> h.rows], after)))

\* A block of logs or events: read to keep the stream aligned, and dropped.
consume_telemetry_block(id, block) == Then(block, LAMBDA b, q : Ok([packet |-> id], q))

BlockPacket(id, block) ==
    IF id \in {"Log", "ProfileEvents"} THEN consume_telemetry_block(id, block) ELSE block

read_packet(s, p, revision) ==
    Then(from_u64(s, p), LAMBDA id, q :
        CASE id \in {"Data", "Totals", "Extremes", "Log", "ProfileEvents"} ->
                 BlockPacket(id, read_block(s, q, revision))
          [] id = "Exception" -> read_exception(s, q)
          [] id = "Progress" -> read_progress(s, q, revision)
          [] id = "ProfileInfo" -> read_profile_info(s, q, revision)
          [] id \in {"Pong", "EndOfStream"} -> Ok([packet |-> id], q)
          [] id = "TableColumns" -> read_table_columns(s, q)
          [] id = "TimezoneUpdate" ->
                 Then(Read(s, q, String), LAMBDA zone, after :
                     Ok([packet |-> id, timezone |-> zone], after))
          [] id = "Hello" -> Fail("err"))

\* The body of an HTTP response in the Native format: blocks to the end of the stream,
\* which is a block info that does not begin.
RECURSIVE decode_native_stream(_, _)
decode_native_stream(s, p) ==
    IF p > Len(s) THEN Ok(<<>>, p)
    ELSE Then(read_block_info(s, p), LAMBDA info, q0 :
         Then(Read(s, q0, VarUInt), LAMBDA columns, q1 :
         Then(Read(s, q1, VarUInt), LAMBDA rows, q2 :
         Then(decode_block(s, q2, columns, rows, DBMS_TCP_PROTOCOL_VERSION), LAMBDA block, q3 :
         Then(decode_native_stream(s, q3), LAMBDA rest, after :
             Ok(<<block>> \o rest, after))))))

-----------------------------------------------------------------------------
(* Writing.                                                                *)

ClientPacketId == [Hello |-> 0, Query |-> 1, Data |-> 2, Cancel |-> 3, Ping |-> 4]

Id(name)   == <<<<VarUInt, ClientPacketId[name]>>>>
Text(s)    == <<<<String, s>>>>
Number(n)  == <<<<VarUInt, n>>>>
From(gate, revision, items) == IF revision >= gate THEN items ELSE <<>>

CLIENT_NAME == <<"client">>
NotChunked  == <<"notchunked">>

send_hello(cfg) ==
    Id("Hello") \o Text(CLIENT_NAME) \o Number(0) \o Number(1)
      \o Number(DBMS_TCP_PROTOCOL_VERSION) \o Text(cfg.database) \o Text(cfg.user)
      \o Text(cfg.password)

send_addendum(revision, quota) ==
    LET effective == Effective(revision)
    IN  From(54458, effective, Text(quota))
          \o From(54470, effective, Text(NotChunked) \o Text(NotChunked))
          \o From(54471, effective, Number(0))

\* client_info_for, ClientInfo::for_initial_query and write_to: the revision it claims is
\* the server's own.
write_client_info(revision, query) ==
    <<<<1, 1>>>> \o Text(EmptyString) \o Text(query.id) \o Text(<<"address">>)
      \o From(54449, revision, <<<<8, 0>>>>)
      \o <<<<1, 1>>>> \o Text(EmptyString) \o Text(EmptyString) \o Text(CLIENT_NAME)
      \o Number(0) \o Number(1) \o Number(revision)
      \o From(54060, revision, Text(query.quota))
      \o From(54448, revision, Number(0))
      \o From(54401, revision, Number(0))
      \o From(54442, revision, <<<<1, 0>>>>)
      \o From(54453, revision, Number(0) \o Number(0) \o Number(0))

\* Defect: no flags, as before settings were written as strings.
NoFlags(pairs, flags) ==
    FlattenSeq([i \in DOMAIN pairs |-> Text(pairs[i][1]) \o Text(pairs[i][2])])

\* Settings or parameters: name, flags and value of each, and an empty name.
Triples(pairs, flags) ==
    FlattenSeq([i \in DOMAIN pairs |-> Text(pairs[i][1]) \o Number(flags) \o Text(pairs[i][2])])

SETTING_FLAG_CUSTOM == 2
Complete == 2

\* Settings or parameters the server has no field for are an error; what was written
\* until then is on a connection that its caller poisons.
send_query(revision, query) ==
    Check(/\ revision >= 54429 \/ query.settings = <<>>
          /\ revision >= 54459 \/ query.params = <<>>,
          Ok(Id("Query") \o Text(query.id)
               \o From(54032, revision, write_client_info(revision, query))
               \o Triples(query.settings, 0) \o Text(EmptyString)
               \o From(54472, Effective(revision), Text(EmptyString))
               \o From(54441, revision, Text(EmptyString))
               \o Number(Complete) \o Number(0) \o Text(query.text)
               \o From(54459, revision,
                       Triples(query.params, SETTING_FLAG_CUSTOM) \o Text(EmptyString)), 0))

\* Bucket number -1, the value of every client's block.
BlockInfo == Number(1) \o <<<<1, 0>>>> \o Number(2) \o <<<<4, -1>>>> \o Number(0)

send_data_block(revision, table, bytes, columns, rows) ==
    Id("Data") \o From(50264, revision, Text(table)) \o From(51903, revision, BlockInfo)
      \o Number(columns) \o Number(rows) \o bytes

send_empty_block(revision) == send_data_block(revision, EmptyString, <<>>, 0, 0)

\* The Query packet and the empty block that ends what goes before the query's data.
issue_query(revision, query) ==
    Then(send_query(revision, query), LAMBDA packet, z :
        Ok(packet \o send_empty_block(revision), z))

send_cancel == Id("Cancel")
send_ping   == Id("Ping")
=============================================================================
