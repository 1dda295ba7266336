----------------------------- MODULE BlockCodec -----------------------------
(***************************************************************************)
(* The block encoder of native/encode.rs, from RowBinary rows to native    *)
(* columns, and the block decoder of native/decode.rs, from native columns *)
(* to DecodedColumns, with the sparse offsets of native/sparse.rs.         *)
(*                                                                         *)
(* A decoded column is <<"Values", type, values>>, <<"Json", documents>>,  *)
(* <<"Nullable", mask, child>>, <<"Array", offsets, child>>,               *)
(* <<"Map", offsets, keys, values>>, <<"Tuple", children>>,                *)
(* <<"LowCardinality", dict, indices, nullable>> or <<"Unsupported">>.     *)
(***************************************************************************)
EXTENDS ColumnReader
LOCAL INSTANCE SequencesExt

CONSTANTS MaxRows,          \* MAX_BLOCK_ROWS
          MaxColumns,       \* MAX_BLOCK_COLUMNS
          EndOfGranule      \* END_OF_GRANULE_FLAG, a bit above every row count

ASSUME BlockAssumption == {MaxRows, MaxColumns, EndOfGranule} \subseteq Nat \ {0}

CustomSerialization == 54454

Strings == {"String", "Json", "NewJson"}

-----------------------------------------------------------------------------
(* Encoding.  A column is its name, its type name and its parsed type.     *)

RECURSIVE rb_advance(_, _, _)
rb_advance(row, p, t) ==
    CASE HasFixedSize(t) -> Read(row, p, fixed_size(t))
      [] t[1] \in Strings -> Read(row, p, String)
      [] t[1] = "Nullable" ->
             Then(Read(row, p, 1), LAMBDA flag, q :
                 IF flag = 0 THEN rb_advance(row, q, t[2]) ELSE Ok(<<>>, q))
      [] t[1] = "LowCardinality" -> rb_advance(row, p, t[2])
      [] t[1] = "Array" ->
             Then(Read(row, p, VarUInt), LAMBDA n, q :
                 Repeat(n, q, LAMBDA at : rb_advance(row, at, t[2])))
      [] t[1] = "Tuple" -> Each(t[2], p, LAMBDA field, q : rb_advance(row, q, field))
      [] t[1] = "Map" ->
             Then(Read(row, p, VarUInt), LAMBDA n, q :
                 Repeat(n, q, LAMBDA at :
                     Each(<<t[2], t[3]>>, at, LAMBDA part, b : rb_advance(row, b, part))))
      [] OTHER -> Fail("err")

\* The slice of the row that holds the next value of type t.
Slice(row, p, t) == Then(rb_advance(row, p, t), LAMBDA v, q : Ok(SubSeq(row, p, q - 1), q))

RECURSIVE rb_write_default(_)
rb_write_default(t) ==
    CASE HasFixedSize(t) -> <<<<fixed_size(t), 0>>>>
      [] t[1] \in Strings -> <<<<String, <<>>>>>>
      [] t[1] = "LowCardinality" -> rb_write_default(t[2])
      [] OTHER -> <<<<VarUInt, 0>>>>

\* Every prefix of the column's tree, ahead of all of its data.
RECURSIVE write_col_prefixes(_)
write_col_prefixes(t) ==
    CASE t[1] = "LowCardinality" -> <<<<8, 1>>>>
      [] t[1] \in {"Nullable", "Array", "SimpleAggregateFunction"} -> write_col_prefixes(t[2])
      [] t[1] = "Tuple" -> FlattenSeq([i \in DOMAIN t[2] |-> write_col_prefixes(t[2][i])])
      [] t[1] = "Map" -> write_col_prefixes(t[2]) \o write_col_prefixes(t[3])
      [] OTHER -> <<>>

\* The distinct keys in the order they first appear and each row's index.
AddKey(d, key) ==
    LET at == {i \in DOMAIN d.dict : d.dict[i] = key}
    IN  IF at # {} THEN [d EXCEPT !.ixs = Append(@, (CHOOSE i \in at : TRUE) - 1)]
        ELSE [dict |-> Append(d.dict, key), ixs |-> Append(d.ixs, Len(d.dict))]

\* The dictionary of LowCardinality(Nullable(T)) starts with the default that stands for NULL.
Dictionary(values, inner) ==
    IF inner[1] # "Nullable" THEN FoldLeft(AddKey, [dict |-> <<>>, ixs |-> <<>>], values)
    ELSE FoldLeft(LAMBDA d, v : IF v[1] = <<1, 1>> THEN [d EXCEPT !.ixs = Append(@, 0)]
                                ELSE AddKey(d, Tail(v)),
                  [dict |-> <<rb_write_default(inner[2])>>, ixs |-> <<>>], values)

\* Each row's elements, a row being a count and that many tuples of the types.
Entries(values, types) ==
    Each(values, 0, LAMBDA v, z :
        Then(Read(v, 1, VarUInt), LAMBDA n, q :
        Then(Repeat(n, q, LAMBDA at : Each(types, at, LAMBDA t, b : Slice(v, b, t))),
             LAMBDA es, after : Ok(es, z))))

\* Defect: every row's own count.
Lengths(rows) == [i \in DOMAIN rows |-> <<8, Len(rows[i])>>]

Offsets(rows) == [i \in DOMAIN rows |-> <<8, SumOf([j \in 1..i |-> Len(rows[j])])>>]

\* The f-th part of every element, in order.
Part(entries, f) == [i \in DOMAIN entries |-> entries[i][f]]

RECURSIVE write_col_values(_, _)

\* One sub-column per type after what comes before it.
WriteParts(before, parts, types) ==
    Then(Each([f \in DOMAIN types |-> f], 0, LAMBDA f, z : write_col_values(parts[f], types[f])),
         LAMBDA outs, z : Ok(before \o FlattenSeq(outs), z))

WriteEntries(values, types) ==
    Then(Entries(values, types), LAMBDA rows, z :
        LET all == FlattenSeq(rows)
        IN  WriteParts(Offsets(rows), [f \in DOMAIN types |-> Part(all, f)], types))

write_low_cardinality(values, inner) ==
    LET dictType == IF inner[1] = "Nullable" THEN inner[2] ELSE inner
        d        == Dictionary(values, inner)
        code     == IF Len(d.dict) <= 256 THEN 0 ELSE IF Len(d.dict) <= 65536 THEN 1 ELSE 2
    IN  Then(write_col_values(d.dict, dictType), LAMBDA keys, z :
            Ok(<<<<8, AdditionalKeys + code>>, <<8, Len(d.dict)>>>> \o keys
                 \o <<<<8, Len(d.ixs)>>>> \o Items(IndexBytes(code), d.ixs), z))

write_col_values(values, t) ==
    CASE HasFixedSize(t) \/ t[1] \in Strings -> Ok(FlattenSeq(values), 0)
      [] t[1] = "Nullable" ->
             WriteParts([i \in DOMAIN values |-> values[i][1]],
                        <<[i \in DOMAIN values |-> IF values[i][1] = <<1, 0>> THEN Tail(values[i])
                                                   ELSE rb_write_default(t[2])]>>,
                        <<t[2]>>)
      [] t[1] = "LowCardinality" -> write_low_cardinality(values, t[2])
      [] t[1] = "Array" -> WriteEntries(values, <<t[2]>>)
      [] t[1] = "Map" -> WriteEntries(values, <<t[2], t[3]>>)
      [] t[1] = "Tuple" ->
             Then(Each(values, 0, LAMBDA v, z :
                      Then(Each(t[2], 1, LAMBDA field, q : Slice(v, q, field)),
                           LAMBDA cells, q : Ok(cells, z))), LAMBDA rows, z :
                 WriteParts(<<>>, [f \in DOMAIN t[2] |-> Part(rows, f)], t[2]))
      [] OTHER -> Fail("err")

\* ColumnSchema::from_headers: every announced type must parse.
from_headers(headers) ==
    LET types == [i \in DOMAIN headers |-> parse(headers[i][2])]
    IN  Check(\A i \in DOMAIN headers : types[i] # NoType,
              Ok([i \in DOMAIN headers |-> Append(headers[i], types[i])], 0))

\* A JSON column is declared as the String the server casts it from.
DeclaredType(col) == IF col[3][1] \in {"Json", "NewJson"} THEN <<"String">> ELSE col[2]

encode_columns(rows, columns, revision) ==
    LET flag  == IF revision >= CustomSerialization THEN <<<<1, 0>>>> ELSE <<>>
        Cells(row) == Then(Each(columns, 1, LAMBDA c, q : Slice(row, q, c[3])), LAMBDA cells, q :
                          Check(q = Len(row) + 1, Ok(cells, 0)))
        Column(i, cells) ==
            LET c == columns[i]
            IN  Then(write_col_values(Part(cells, i), c[3]), LAMBDA data, z :
                    Ok(<<<<String, c[1]>>, <<String, DeclaredType(c)>>>> \o flag
                         \o write_col_prefixes(c[3]) \o data, z))
    IN  IF columns = <<>> \/ rows = <<>> THEN Ok(<<>>, 0)
        ELSE Then(Each(rows, 0, LAMBDA row, z : Cells(row)), LAMBDA cells, z :
             Then(Each([i \in DOMAIN columns |-> i], 0, LAMBDA i, y : Column(i, cells)),
                  LAMBDA outs, y : Ok(FlattenSeq(outs), y)))

-----------------------------------------------------------------------------
(* Decoding.  A cursor is the position and the Dynamic headers still to be *)
(* used, in the order the prefixes brought them.                           *)

At(cur, r) == Then(r, LAMBDA v, q : Ok(v, [cur EXCEPT !.at = q]))

ScalarOf(t) == CASE t[1] = "Enum8" -> <<"Int8">> [] t[1] = "Enum16" -> <<"Int16">> [] OTHER -> t

\* The types with no decoded form: their bytes are consumed.
Undecoded == {"BFloat16", "Time", "Time64", "Point"}

HasScalarForm(t) == (HasFixedSize(t) \/ t[1] = "String") /\ t[1] \notin Undecoded

RECURSIVE row_count(_)
row_count(col) ==
    CASE col[1] = "Values" -> Len(col[3])
      [] col[1] \in {"Json", "Nullable", "Array", "Map"} -> Len(col[2])
      [] col[1] = "LowCardinality" -> Len(col[3])
      [] col[1] = "Tuple" -> row_count(col[2][1])
      [] col[1] = "Unsupported" -> 0

RECURSIVE empty_column(_)
empty_column(t) ==
    CASE HasScalarForm(t) -> <<"Values", ScalarOf(t), <<>>>>
      [] t[1] \in {"Json", "NewJson", "Variant", "Dynamic"} -> <<"Json", <<>>>>
      [] t[1] = "Nullable" -> <<"Nullable", <<>>, empty_column(t[2])>>
      [] t[1] = "Array" -> <<"Array", <<>>, empty_column(t[2])>>
      [] t[1] = "Map" -> <<"Map", <<>>, empty_column(t[2]), empty_column(t[3])>>
      [] t[1] = "Tuple" -> <<"Tuple", [i \in DOMAIN t[2] |-> empty_column(t[2][i])]>>
      [] t[1] = "LowCardinality" ->
             IF t[2][1] = "Nullable" THEN <<"LowCardinality", empty_column(t[2][2]), <<>>, TRUE>>
             ELSE <<"LowCardinality", empty_column(t[2]), <<>>, FALSE>>
      [] t[1] = "SimpleAggregateFunction" -> empty_column(t[2])
      [] t[1] \in Undecoded -> <<"Unsupported">>

read_serialization_kind(s, p) ==
    Then(Expect(s, p, 1, {0, 1}), LAMBDA flag, q :
        IF flag = 0 THEN Ok(FALSE, q)
        ELSE Then(Expect(s, q, 1, {0, 1}), LAMBDA kind, after : Ok(kind = 1, after)))

\* The Dynamic headers of the column's tree, the other prefixes consumed.
RECURSIVE decode_prefixes(_, _, _, _)
decode_prefixes(s, p, t, depth) ==
    LET Under(types, q) ==
            Then(Each(types, q, LAMBDA u, at : decode_prefixes(s, at, u, depth + 1)),
                 LAMBDA hs, after : Ok(FlattenSeq(hs), after))
    IN  IF depth > MaxDepth THEN Fail("err")
        ELSE CASE t[1] = "LowCardinality" -> Then(Read(s, p, 8), LAMBDA v, q : Ok(<<>>, q))
               [] t[1] = "Variant" -> Then(read_variant_mode(s, p), LAMBDA m, q : Under(t[2], q))
               [] t[1] \in {"Nullable", "Array", "SimpleAggregateFunction"} -> Under(<<t[2]>>, p)
               [] t[1] = "Tuple" -> Under(t[2], p)
               [] t[1] = "Map" -> Under(<<t[2], t[3]>>, p)
               [] t[1] = "Dynamic" ->
                      Then(Expect(s, p, 8, {1, 2}), LAMBDA version, q :
                      Then(read_dynamic_v1v2_prefix(s, q, version = 1), LAMBDA names, after :
                          Ok(<<names>>, after)))
               [] OTHER -> Ok(<<>>, p)

\* Defect: offsets as they come.
ReadAnyOffsets(s, cur, n) == At(cur, read_offsets(s, cur.at, n))

\* Cumulative offsets that never go down.
ReadMonotone(s, cur, n) ==
    Then(At(cur, read_offsets(s, cur.at, n)), LAMBDA offsets, next :
        Check(\A i \in 1..n : Begin(offsets, i) <= offsets[i], Ok(offsets, next)))

unwrap_json_cells(cells) == <<"Json", [i \in DOMAIN cells |-> cells[i][1][2]]>>
AsJson(r) == Then(r, LAMBDA cells, next : Ok(unwrap_json_cells(cells), next))

RECURSIVE decode_column(_, _, _, _, _)

\* The depth is that of the dictionary.
decode_low_cardinality(s, cur, inner, n, depth) ==
    LET nullable == inner[1] = "Nullable"
        dictType == IF nullable THEN inner[2] ELSE inner
    IN  Then(At(cur, Read(s, cur.at, 8)), LAMBDA flags, c1 :
        IF HasBit(flags, GlobalDictionary) \/ ~HasBit(flags, AdditionalKeys) THEN Fail("err") ELSE
        Then(At(c1, Read(s, c1.at, 8)), LAMBDA size, c2 :
        Then(decode_column(s, c2, dictType, size, depth), LAMBDA dict, c3 :
        Then(At(c3, Expect(s, c3.at, 8, {n})), LAMBDA count, c4 :
        Then(At(c4, ReadColumn(s, c4.at, n, IndexBytes(flags))), LAMBDA ixs, c5 :
            Ok(<<"LowCardinality", dict, ixs, nullable>>, c5))))))

\* NewJson reads its version where it stands.
decode_json(s, cur, n) ==
    AsJson(At(cur, Then(Read(s, cur.at, 8), LAMBDA version, q :
                       read_json_body_at(s, q, n, version, 0))))

\* The header at the front of the queue is this column's.
decode_dynamic(s, cur, n, depth) ==
    IF cur.headers = <<>> THEN Fail("err")
    ELSE AsJson(At([cur EXCEPT !.headers = Tail(@)],
                   read_dynamic_v1v2_body(s, cur.at, n, Head(cur.headers), depth + 1)))

decode_column(s, cur, t, n, depth) ==
    IF depth > MaxDepth THEN Fail("err")
    ELSE IF depth = 0 /\ n = 0 THEN Ok(empty_column(t), cur)
    ELSE CASE HasScalarForm(t) ->
                  Then(At(cur, ReadColumn(s, cur.at, n, IF t[1] = "String" THEN String
                                                        ELSE fixed_size(t))),
                       LAMBDA vs, next : Ok(<<"Values", ScalarOf(t), vs>>, next))
           [] t[1] = "Json" -> AsJson(At(cur, read_string_column(s, cur.at, n)))
           [] t[1] = "Nullable" ->
                  Then(At(cur, ReadColumn(s, cur.at, n, 1)), LAMBDA mask, c1 :
                  Then(decode_column(s, c1, t[2], n, depth + 1), LAMBDA child, c2 :
                      Ok(<<"Nullable", mask, child>>, c2)))
           [] t[1] = "Array" ->
                  Then(ReadMonotone(s, cur, n), LAMBDA offsets, c1 :
                  Then(decode_column(s, c1, t[2], LastOr0(offsets), depth + 1), LAMBDA child, c2 :
                      Ok(<<"Array", offsets, child>>, c2)))
           [] t[1] = "Tuple" ->
                  Then(Each(t[2], cur, LAMBDA field, c : decode_column(s, c, field, n, depth + 1)),
                       LAMBDA fields, next : Ok(<<"Tuple", fields>>, next))
           [] t[1] = "Map" ->
                  Then(ReadMonotone(s, cur, n), LAMBDA offsets, c1 :
                  Then(Each(<<t[2], t[3]>>, c1, LAMBDA u, c :
                           decode_column(s, c, u, LastOr0(offsets), depth + 1)),
                       LAMBDA kv, c2 : Ok(<<"Map", offsets, kv[1], kv[2]>>, c2)))
           [] t[1] = "LowCardinality" -> decode_low_cardinality(s, cur, t[2], n, depth + 1)
           [] t[1] = "SimpleAggregateFunction" -> decode_column(s, cur, t[2], n, depth + 1)
           [] t[1] = "NewJson" -> decode_json(s, cur, n)
           [] t[1] = "Dynamic" -> decode_dynamic(s, cur, n, depth)
           [] OTHER -> Then(At(cur, read_column_data(s, cur.at, t, n)), LAMBDA cells, next :
                           Ok(IF t[1] = "Variant" THEN unwrap_json_cells(cells)
                              ELSE <<"Unsupported">>, next))

\* Group sizes up to the one with the end flag; a value past the rows is not placed.
RECURSIVE read_groups(_, _, _, _, _)
read_groups(s, p, n, at, placed) ==
    Then(Read(s, p, VarUInt), LAMBDA group, q :
        LET now == at + (group % EndOfGranule)
        IN  IF HasBit(group, EndOfGranule) THEN Ok(placed, q)
            ELSE IF now < n THEN read_groups(s, q, n, now + 1, Append(placed, now))
            ELSE read_groups(s, q, n, now, placed))

read_sparse_offsets(s, p, n) == read_groups(s, p, n, 0, <<>>)

\* Scatter the values to their rows, the type's default elsewhere.
DefaultOf(col) == IF col[1] = "Json" \/ col[2] = <<"String">> THEN <<>> ELSE 0
Scattered(vs, positions, n, default) ==
    [i \in 1..n |-> IF \E j \in DOMAIN vs : positions[j] + 1 = i
                    THEN vs[CHOOSE j \in DOMAIN vs : positions[j] + 1 = i] ELSE default]

expand_sparse(col, positions, n) ==
    IF \/ row_count(col) # Len(positions)
       \/ \E j \in DOMAIN positions : positions[j] >= n
       \/ col[1] \notin {"Values", "Json"}
    THEN Fail("err")
    ELSE LET at == Len(col)
         IN  Ok([col EXCEPT ![at] = Scattered(@, positions, n, DefaultOf(col))], 0)

\* The data of a column of type t; a sparse one has its offsets in front and is read
\* for as many values as they place.
decode_payload(s, p, t, n, sparse) ==
    IF t = NoType THEN Fail("err") ELSE
    Then(IF n > 0 THEN decode_prefixes(s, p, t, 0) ELSE Ok(<<>>, p), LAMBDA headers, q :
    Then(IF sparse THEN read_sparse_offsets(s, q, n) ELSE Ok(<<>>, q), LAMBDA positions, at :
    Then(decode_column(s, [at |-> at, headers |-> headers], t,
                       IF sparse THEN Len(positions) ELSE n, 0), LAMBDA dense, next :
    Then(IF sparse THEN expand_sparse(dense, positions, n) ELSE Ok(dense, 0), LAMBDA col, z :
        Ok(col, next.at)))))

decode_block(s, p, columns, n, revision) ==
    IF columns > MaxColumns \/ n > MaxRows THEN Fail("err")
    ELSE Repeat(columns, p, LAMBDA at :
             Then(Read(s, at, String), LAMBDA name, q0 :
             Then(Read(s, q0, String), LAMBDA type, q1 :
             Then(IF revision >= CustomSerialization THEN read_serialization_kind(s, q1)
                  ELSE Ok(FALSE, q1), LAMBDA sparse, q2 :
             Then(decode_payload(s, q2, parse(type), n, sparse /\ n > 0), LAMBDA col, after :
                 Ok([name |-> name, type |-> type, col |-> col], after))))))

-----------------------------------------------------------------------------
(* Typed reads.  A Rust type is <<"Option", type>> or <<name>>.            *)

\* The columns that have the backing of a Rust type.
Backing ==
    [u8 |-> {"UInt8"}, u16 |-> {"UInt16", "Date"}, u32 |-> {"UInt32", "DateTime", "IPv4"},
     u64 |-> {"UInt64"}, u128 |-> {"UInt128"}, i8 |-> {"Int8"}, i16 |-> {"Int16"},
     i32 |-> {"Int32", "Date32", "Decimal32"}, i64 |-> {"Int64", "DateTime64", "Decimal64"},
     i128 |-> {"Int128", "Decimal128"}, f32 |-> {"Float32"}, f64 |-> {"Float64"},
     bytes32 |-> {"Int256", "UInt256", "Decimal256"}, bytes16 |-> {"Uuid", "IPv6"}]

\* One value <<"v", x>> per element of a column with the backing of T.
from_backing(col, T) ==
    LET Some(vs) == Ok([i \in DOMAIN vs |-> <<"v", vs[i]>>], 0)
    IN  CASE T[1] = "String" /\ col[1] = "Json" -> Some(col[2])
          [] T[1] = "String" /\ col[1] = "Values" /\ col[2] = <<"String">> -> Some(col[3])
          [] T[1] = "bool" /\ col[1] = "Values" /\ col[2] = <<"UInt8">> ->
                 Some([i \in DOMAIN col[3] |-> IF col[3][i] # 0 THEN 1 ELSE 0])
          [] T[1] \in DOMAIN Backing /\ col[1] = "Values" /\ col[2][1] \in Backing[T[1]] ->
                 Some(col[3])
          [] OTHER -> Fail("err")

\* Defect: the value under a NULL is read as a value.
from_column_unmasked(col, T) ==
    IF T[1] = "Option" /\ col[1] = "Nullable" THEN from_backing(col[3], T[2])
    ELSE from_backing(col, T)

\* FromColumn: only a Nullable column is read as Option, <<"null">> for its None.
from_column(col, T) ==
    IF T[1] # "Option" THEN from_backing(col, T)
    ELSE IF col[1] # "Nullable" THEN Fail("err")
    ELSE Then(from_backing(col[3], T[2]), LAMBDA vs, z :
             Ok([i \in {j \in DOMAIN vs : j <= Len(col[2])} |->
                    IF col[2][i] = 0 THEN vs[i] ELSE <<"null">>], z))

\* DecodedBlock::column_as: the first column of that name.  A block that declares
\* nothing has no values of any column.
column_as(columns, name, T) ==
    LET named == {i \in DOMAIN columns : columns[i].name = name}
    IN  IF columns = <<>> THEN Ok(<<>>, 0)
        ELSE IF named = {} THEN Fail("err")
        ELSE from_column(columns[CHOOSE i \in named : \A j \in named : i <= j].col, T)
=============================================================================
