------------------------------ MODULE Exchange ------------------------------
(***************************************************************************)
(* One message on its way between this crate and a server: it is written   *)
(* by one side at the server's revision, may be cut short or damaged, and  *)
(* is read by the other.  What a message is depends on its kind:           *)
(*                                                                         *)
(*   "block"         a block of rows of an INSERT                          *)
(*   "result"        a block of the server, with the format it writes in   *)
(*   "body"          an HTTP response of several such blocks               *)
(*   "packet"        any other packet of the server                        *)
(*   "table"         rows of JSON values inserted through DynamicRow       *)
(*   "query"         a query with its settings and parameters              *)
(*   "request"       a Ping or a Cancel                                    *)
(*   "client hello", "server hello", "addendum"                            *)
(*                   the handshake, one after the other                    *)
(***************************************************************************)
EXTENDS ServerPackets, JsonSense
LOCAL INSTANCE SequencesExt

CONSTANTS Messages,   \* kind |-> the messages it begins with
          Revisions,  \* kind |-> the revisions of the server
          Damages,    \* what a damaged integer may become
          MaxItems    \* how far into a message it is cut or damaged

VARIABLES kind,       \* what is exchanged
          message,    \* its content
          revision,   \* the revision the server announces
          stage,      \* "ready", "refused", "sent" or "read"
          writer,     \* "none", "client" or "server"
          fate,       \* "intact", "cut" or "damaged"
          wire,       \* the items on the wire
          got         \* what the reader made of them

vars == <<kind, message, revision, stage, writer, fate, wire, got>>

\* The columns of a block or a table are named x and y.
Named(types)   == [i \in DOMAIN types |-> <<<<<<"x">>, <<"y">>>>[i], types[i]>>]
TypesOf(b)     == [i \in DOMAIN b.types |-> parse(b.types[i])]
ColumnsOf(b)   == [i \in DOMAIN b.types |-> [r \in DOMAIN b.rows |-> b.rows[r][i]]]

Init ==
    /\ kind \in DOMAIN Messages
    /\ message \in Messages[kind]
    /\ revision \in Revisions[kind]
    /\ stage = "ready" /\ writer = "none" /\ fate = "intact" /\ wire = <<>> /\ got = Fail("none")

-----------------------------------------------------------------------------
\* A block of an INSERT from its rows' RowBinary.
InsertBlock(types, rows) ==
    Then(from_headers(Named(types)), LAMBDA columns, z :
    Then(encode_columns(rows, columns, revision), LAMBDA bytes, y :
        Ok(send_data_block(revision, EmptyString, bytes, Len(columns), Len(rows)), y)))

RowBinaryOf(b, r) ==
    FlattenSeq([i \in DOMAIN b.types |-> RowBinary(b.rows[r][i], TypesOf(b)[i])])

\* The rows of a table, each encoded by the announced types.
TableRows(t) == Each(t.rows, 0, LAMBDA row, z : encode_into(row, Named(t.types), t.raw))

ClientWire ==
    CASE kind = "block" ->
             InsertBlock(message.types,
                         [r \in DOMAIN message.rows |-> RowBinaryOf(message, r)])
      [] kind = "table" -> Then(TableRows(message), LAMBDA rows, z :
                                InsertBlock(message.types, rows))
      [] kind = "query" -> issue_query(revision, message)
      [] kind = "request" -> Ok(IF message = "Ping" THEN send_ping ELSE send_cancel, 0)
      [] kind = "client hello" -> Ok(send_hello(message), 0)

Sent(r) == stage' = (IF IsOk(r) THEN "sent" ELSE "refused") /\ wire' = r.v

\* The client writes, or returns the error.
ClientSends ==
    /\ stage = "ready"
    /\ kind \in {"block", "table", "query", "request", "client hello"}
    /\ Sent(ClientWire)
    /\ writer' = "client"
    /\ UNCHANGED <<kind, message, revision, fate, got>>

\* The server writes.
ServerSends ==
    /\ stage = "ready"
    /\ kind \in {"result", "body", "packet", "server hello"}
    /\ wire' = CASE kind = "result" ->
                        ServerBlock(message.packet, Named(message.types), ColumnsOf(message),
                                    Len(message.rows), message.format, revision)
                 [] kind = "body" ->
                        FlattenSeq([b \in DOMAIN message |->
                            BodyBlock(Named(message[b].types), ColumnsOf(message[b]),
                                      Len(message[b].rows), message[b].format)])
                 [] kind = "packet" -> ServerPacket(message, revision)
                 [] kind = "server hello" -> ServerHello(message, revision)
    /\ stage' = "sent" /\ writer' = "server"
    /\ UNCHANGED <<kind, message, revision, fate, got>>

\* The stream ends after k items.
Cut(k) ==
    /\ stage = "sent" /\ fate = "intact" /\ k < Len(wire)
    /\ fate' = "cut" /\ wire' = SubSeq(wire, 1, k)
    /\ UNCHANGED <<kind, message, revision, stage, writer, got>>

\* Item k of what the server wrote arrives as another integer.
Damage(k, x) ==
    /\ stage = "sent" /\ fate = "intact" /\ writer = "server"
    /\ k <= Len(wire) /\ wire[k][1] # String /\ wire[k][2] # x
    /\ fate' = "damaged" /\ wire' = [wire EXCEPT ![k][2] = x]
    /\ UNCHANGED <<kind, message, revision, stage, writer, got>>

\* The other side reads what it takes for a message of these kinds.
Reads(from, kinds, r) ==
    /\ stage = "sent" /\ writer = from /\ kind \in kinds
    /\ stage' = "read" /\ got' = r
    /\ UNCHANGED <<kind, message, revision, writer, fate, wire>>

ServerTakesBlock    == Reads("client", {"block", "table"}, TakeData(wire, 1, revision))
ServerTakesQuery    == Reads("client", {"query"}, TakeQuery(wire, 1, revision))
ServerTakesRequest  == Reads("client", {"request"}, Read(wire, 1, VarUInt))
ServerTakesHello    == Reads("client", {"client hello"}, TakeHello(wire, 1))
ServerTakesAddendum == Reads("client", {"addendum"}, TakeAddendum(wire, 1, revision))
ClientReadsPacket   == Reads("server", {"result", "packet"},
                             read_packet(wire, 1, revision))
ClientReadsBody     == Reads("server", {"body"}, decode_native_stream(wire, 1))
ClientReadsHello    == Reads("server", {"server hello"}, read_hello(wire, 1))

\* handshake: the server answers the Hello, and the client its answer with the addendum.
Handshake ==
    /\ stage = "read" /\ IsOk(got)
    /\ got' = Fail("none")
    /\ \/ /\ kind = "client hello"
          /\ kind' = "server hello" /\ stage' = "ready" /\ writer' = "none" /\ wire' = <<>>
       \/ /\ kind = "server hello" /\ got.v.packet = "Hello"
          /\ kind' = "addendum" /\ stage' = "sent" /\ writer' = "client"
          /\ wire' = send_addendum(got.v.revision, message.quota)
    /\ UNCHANGED <<message, revision, fate>>

Next == \/ ClientSends
        \/ ServerSends
        \/ \E k \in 0..MaxItems : Cut(k)
        \/ \E k \in 1..MaxItems, x \in Damages : Damage(k, x)
        \/ ServerTakesBlock \/ ServerTakesQuery \/ ServerTakesRequest
        \/ ServerTakesHello \/ ServerTakesAddendum
        \/ ClientReadsPacket \/ ClientReadsBody \/ ClientReadsHello
        \/ Handshake

Spec == Init /\ [][Next]_vars

-----------------------------------------------------------------------------
\* The value a DecodedColumn holds at a row.
RECURSIVE ValueAt(_, _)
ValueAt(col, i) ==
    LET first == Begin(col[2], i)
        Span(F(_)) == <<"seq", [j \in 1..(col[2][i] - first) |-> F(first + j)]>>
    IN  CASE col[1] = "Values" -> <<"v", col[3][i]>>
          [] col[1] = "Json" -> <<"v", col[2][i]>>
          [] col[1] = "Nullable" -> IF col[2][i] # 0 THEN Null ELSE ValueAt(col[3], i)
          [] col[1] = "Array" -> Span(LAMBDA j : ValueAt(col[3], j))
          [] col[1] = "Map" ->
                 Span(LAMBDA j : <<"seq", <<ValueAt(col[3], j), ValueAt(col[4], j)>>>>)
          [] col[1] = "Tuple" -> <<"seq", [f \in DOMAIN col[2] |-> ValueAt(col[2][f], i)]>>
          [] col[1] = "LowCardinality" ->
                 IF col[4] /\ col[3][i] = 0 THEN Null ELSE ValueAt(col[2], col[3][i] + 1)

\* What a value says: a document for Variant, Dynamic and JSON.
RECURSIVE Meaning(_, _)
Meaning(v, t) ==
    LET Parts(T(_)) == <<"seq", [i \in DOMAIN v[2] |-> Meaning(v[2][i], T(i))]>>
    IN  CASE t[1] \in {"Variant", "Dynamic", "NewJson"} -> <<"v", Document(v, t)>>
          [] t[1] = "Array" -> Parts(LAMBDA i : t[2])
          [] t[1] = "Map" -> Parts(LAMBDA i : <<"Tuple", Tail(t)>>)
          [] t[1] = "Tuple" -> Parts(LAMBDA i : t[2][i])
          [] t[1] \in {"Nullable", "LowCardinality", "SimpleAggregateFunction"} ->
                 IF v = Null THEN Null ELSE Meaning(v, t[2])
          [] OTHER -> v

\* A value without what its format keeps in shared data, whose bytes are not decoded
\* (columns.rs, SHARED_VARIANT and the shared data of an object).
RECURSIVE Unshared(_, _)
Unshared(v, f) ==
    CASE v[1] = "spilt" -> Null
      [] v[1] = "seq" -> <<"seq", [i \in DOMAIN v[2] |-> Unshared(v[2][i], f)]>>
      [] v[1] = "paths" /\ f.json = 2 ->
             <<"paths", [k \in DOMAIN v[2] |-> IF k > MaxDynamicPaths THEN Null
                                               ELSE Unshared(v[2][k], f)]>>
      [] OTHER -> v

\* Decoded columns that hold rows: every row of every column with a decoded form.
Holds(columns, types, rows) ==
    /\ Len(columns) = Len(types)
    /\ \A i \in DOMAIN columns :
         LET col == columns[i].col
         IN  \/ col[1] = "Unsupported"
             \/ /\ row_count(col) = Len(rows)
                /\ \A r \in DOMAIN rows : ValueAt(col, r) = Meaning(rows[r][i], parse(types[i]))

\* Decoded columns that hold a block of the server.
Cell(b, r, i)          == Unshared(b.rows[r][i], b.format)
HoldsBlock(columns, b) ==
    Holds(columns, b.types, [r \in DOMAIN b.rows |-> [i \in DOMAIN b.types |-> Cell(b, r, i)]])

\* The columns of a column's tree with their values, and their types.
RECURSIVE Tree(_, _)
Tree(t, vs)  == {<<t, vs>>} \cup UNION {Tree(c[1], c[2]) : c \in Range(Children(t, vs))}
TypesIn(t)   == {c[1] : c \in Tree(t, <<>>)}
HasJson(t)   == <<"NewJson">> \in TypesIn(t)
HasPrefix(t) == \E u \in TypesIn(t) : u[1] \in {"LowCardinality", "Variant", "Dynamic", "NewJson"}

\* The decoder takes the prefix of a JSON column where the column is, which is where the
\* server writes it only when nothing of the tree goes before it (decode.rs:884-893).
RECURSIVE InPlace(_)
InPlace(t) ==
    \/ ~HasJson(t) \/ t = <<"NewJson">>
    \/ t[1] = "Tuple" /\ InPlace(t[2][1]) /\ \A i \in 2..Len(t[2]) : ~HasPrefix(t[2][i])

\* It takes no prefix of the types a Dynamic column or a path of a JSON column declares.
ValuesOf(c)      == CASE c[1] = <<"Dynamic">> -> Range(c[2])
                      [] c[1] = <<"NewJson">> -> UNION {Range(v[2]) : v \in Range(c[2])}
                      [] OTHER -> {}
PlainArms(t, vs) == \A c \in Tree(t, vs) :
                        \A v \in ValuesOf(c) \ {Null} : ~HasPrefix(parse(v[2]))

\* A block with every prefix where the decoder takes it, and a block in a serialisation
\* that it does not handle: a flattened Dynamic, an object of version 0 or 4.
Placed(b)    == \A i \in DOMAIN b.types :
                    InPlace(TypesOf(b)[i]) /\ PlainArms(TypesOf(b)[i], ColumnsOf(b)[i])
Unhandled(b) == /\ b.rows # <<>>
                /\ \E i \in DOMAIN b.types :
                     \/ <<"Dynamic">> \in TypesIn(TypesOf(b)[i]) /\ b.format.dynamic = 3
                     \/ HasJson(TypesOf(b)[i]) /\ b.format.json \in {0, 4}

\* An INSERT declares JSON as the String it is written as only where it is the column
\* itself (encode.rs:126-132).
DeclaredAsWritten(b) ==
    \A i \in DOMAIN b.types : HasJson(TypesOf(b)[i]) => TypesOf(b)[i] = <<"NewJson">>

\* The blocks of what the server sends, and a message whose reader can find its way.
Blocks == CASE kind = "result" -> {message} [] kind = "body" -> Range(message) [] OTHER -> {}
Sound  == IF kind \in {"block", "table"} THEN DeclaredAsWritten(message)
          ELSE \A b \in Blocks : Placed(b)

ReadWith(who, how) == stage = "read" /\ writer = who /\ fate = how
ReadWhole          == IsOk(got) /\ got.p = Len(wire) + 1

\* A block this crate encodes for an INSERT decodes to the rows it was made of
\* (encode.rs, encode_columns; writer.rs, send_data_block), unless it has JSON inside
\* another type.
RoundTrip ==
    ReadWith("client", "intact") /\ kind = "block" /\ Sound =>
        ReadWhole /\ Holds(got.v, message.types, message.rows)

\* A row that reads as NULL was given as NULL: the slot of a dictionary that stands for
\* NULL is reserved for it (encode.rs, write_col_values on LowCardinality(Nullable)).
OnlyNullReadsAsNull ==
    ReadWith("client", "intact") /\ kind = "block" /\ IsOk(got) =>
        \A i \in DOMAIN message.types, r \in DOMAIN message.rows :
            ValueAt(got.v[i].col, r) = Null => message.rows[r][i] = Null

\* What the reader hands on for a block: nothing of logs and events, the schema of a
\* block without rows, the rows of any other.
BlockIsRead(p) ==
    IF message.packet \in {"Log", "ProfileEvents"} THEN p = [packet |-> message.packet]
    ELSE IF message.rows = <<>>
    THEN p = [packet |-> "Data", table |-> <<EmptyString>>, columns |-> Named(message.types)]
    ELSE p.packet = "DataBlock" /\ p.rows = Len(message.rows) /\ HoldsBlock(p.columns, message)

\* A packet the server writes at any revision is consumed to its last byte and read as
\* what it says (reader.rs, read_hello and read_packet; decode.rs, decode_block).  A
\* block is dense or sparse, JSON as text or in paths; what is kept in shared data is
\* left out of its documents, a serialisation the decoder does not handle is refused, and
\* nothing is said of a block with a prefix where the decoder does not take it.
ServerPacketIsRead ==
    ReadWith("server", "intact") /\ Sound =>
        IF \E b \in Blocks : Unhandled(b) THEN got.st = "err"
        ELSE /\ ReadWhole
             /\ CASE kind = "result" -> BlockIsRead(got.v)
                  [] kind = "body" -> /\ Len(got.v) = Len(message)
                                      /\ \A b \in DOMAIN message :
                                           HoldsBlock(got.v[b], message[b])
                  [] kind = "packet" -> got.v = PacketAt(message, revision)
                  [] kind = "server hello" -> got.v = HelloAt(message, revision)

Flagged(pairs, flag) == [i \in DOMAIN pairs |-> <<pairs[i][1], flag, pairs[i][2]>>]

\* A packet of the client is taken whole by a server of any revision, with the query's
\* own id and text and every setting and parameter (writer.rs; client_info.rs, write_to;
\* handshake.rs, handshake).
ClientPacketIsUnderstood ==
    ReadWith("client", "intact") =>
        CASE kind = "query" ->
                 ReadWhole /\ got.v = [id |-> message.id, initial |-> message.id,
                                   text |-> message.text,
                                   settings |-> Flagged(message.settings, 0),
                                   params |-> Flagged(message.params, 2)]
          [] kind = "addendum" -> ReadWhole /\ (got.v = <<>> \/ got.v[1] = message.quota)
          [] kind = "client hello" ->
                 ReadWhole /\ SubSeq(got.v, 5, 8) = <<DBMS_TCP_PROTOCOL_VERSION, message.database,
                                                  message.user, message.password>>
          [] OTHER -> TRUE

\* A message that was cut short is never read as a message, and no read goes astray
\* before the end of a message whose prefixes and declarations its reader can follow.
\* Only an HTTP body, which has no end of its own, may end early: then
\* with whole blocks.
CutIsNoticed ==
    stage = "read" /\ fate = "cut" /\ Sound =>
        \/ got.st \in {"eof", "err"}
        \/ /\ kind = "body" /\ ReadWhole
           /\ Len(got.v) < Len(message)
           /\ \A b \in DOMAIN got.v : HoldsBlock(got.v[b], message[b])

\* Every part of a column has as many elements as the part around it counts.
RECURSIVE Consistent(_, _)
Consistent(col, n) ==
    CASE col[1] = "Unsupported" -> TRUE
      [] col[1] \in {"Values", "Json"} -> row_count(col) = n
      [] col[1] = "Nullable" -> row_count(col) = n /\ Consistent(col[3], n)
      [] col[1] = "Tuple" -> \A f \in DOMAIN col[2] : Consistent(col[2][f], n)
      [] col[1] = "LowCardinality" -> row_count(col) = n
      [] OTHER -> /\ row_count(col) = n
                  /\ \A i \in 1..n : Begin(col[2], i) <= col[2][i]
                  /\ \A k \in 3..Len(col) : Consistent(col[k], LastOr0(col[2]))

\* Whatever an integer of a block became, and wherever its prefixes are, a block that is
\* read has as many values in
\* every column as the rows it declares, and no offset outside its elements
\* (decode.rs, decode_column).
DamagedIsConsistent ==
    stage = "read" /\ kind = "result" /\ IsOk(got) =>
        got.v.packet # "DataBlock" \/
            \A i \in DOMAIN got.v.columns : Consistent(got.v.columns[i].col, got.v.rows)

\* The Rust types a column may be read as.
RustTypes ==
    LET plain == {<<n>> : n \in DOMAIN Backing \cup {"String", "bool"}}
    IN  plain \cup {<<"Option", T>> : T \in plain}

\* A typed read of a column gives one value per row, each row's own, None where the row
\* is NULL; a scalar column or a Nullable one has such a read (decode.rs, column_as).
TypedReadIsExact ==
    ReadWith("server", "intact") /\ kind = "result" /\ Sound /\ IsOk(got) =>
        (got.v.packet # "DataBlock" \/
            \A i \in DOMAIN message.types :
                LET Read1(T) == column_as(got.v.columns, Named(message.types)[i][1], T)
                    t        == TypesOf(message)[i]
                    Says1(r) == Meaning(Cell(message, r, i), t)
                IN  /\ \A T \in RustTypes :
                         IsOk(Read1(T)) => Read1(T).v = [r \in DOMAIN message.rows |-> Says1(r)]
                    /\ HasScalarForm(IF t[1] = "Nullable" THEN t[2] ELSE t)
                         => t[1] = "FixedString" \/ \E T \in RustTypes : IsOk(Read1(T)))

\* The cells that the reader of columns.rs makes of a column are the RowBinary that the
\* encoder takes for the same rows (columns.rs, read_column_at; encode.rs, rb_advance).
CellsAreRowBinary ==
    stage = "sent" /\ writer = "server" /\ fate = "intact" /\ kind = "result" =>
        LET t     == TypesOf(message)[1]
            start == read_data_block_header(wire, 2, revision).p + 2
            first == IF revision >= CustomSerialization THEN start + 1 ELSE start
            dense == first = start \/ wire[start] = <<1, 0>>
            cells == Then(decode_prefixes(wire, first, t, 0), LAMBDA headers, q :
                         read_column_data(wire, q, t, Len(message.rows)))
        IN  dense /\ message.rows # <<>>
              /\ {"Dynamic", "JSON"} \cap Range(message.types[1]) = {} =>
                IsOk(cells) /\ cells.v = [r \in DOMAIN message.rows |->
                                              RowBinary(message.rows[r][1], t)]

-----------------------------------------------------------------------------
\* The value a row gives a column, NULL when it has no member of that name.
Given(r, i) ==
    LET mine == {k \in DOMAIN message.rows[r] : message.rows[r][k][1] = Named(message.types)[i][1]}
    IN  IF mine = {} THEN JsonDocNull ELSE message.rows[r][CHOOSE k \in mine : TRUE][2]

\* What the column should hold: what that value says, or the raw text.
GivenTo(r, i) ==
    IF message.raw # <<>> /\ message.raw[1] = Named(message.types)[i][1]
    THEN {<<"v", message.raw[2]>>} ELSE Says(Held(Given(r, i)), message.senses[i])

\* A row of JSON values that is accepted reaches the server as exactly the values it
\* says: nothing wraps, saturates, truncates or shifts to a neighbouring column
\* (dynamic/encode.rs, encode_value).  A float column has the nearest float, a decimal
\* in exponent form is as near as its scaling in an f64 allows, and an epoch number
\* before 1970 with a part of a second may be the day after.
JsonRowsAreExact ==
    ReadWith("client", "intact") /\ kind = "table" =>
        /\ ReadWhole
        /\ \A i \in DOMAIN message.types, r \in DOMAIN message.rows :
             LET x == ValueAt(got.v[i].col, r)
             IN  \/ x \in GivenTo(r, i)
                 \/ IsLate(Given(r, i), message.senses[i]) /\ <<"v", x[2] - 1>> \in GivenTo(r, i)

\* A row whose values the columns can hold, each plainly written, is never refused
\* (dynamic/encode.rs, narrow and the coercions), but for integers past 64 bits and for
\* the first and the last label of an Enum inside Nullable.
FittingRowsAreTaken ==
    kind = "table" /\ stage = "refused" =>
        \E i \in DOMAIN message.types, r \in DOMAIN message.rows :
            \/ GivenTo(r, i) = {}
            \/ ~Plain(Given(r, i), message.senses[i])
            \/ IsMissed(Given(r, i), message.senses[i])
=============================================================================
