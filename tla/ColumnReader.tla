---------------------------- MODULE ColumnReader ----------------------------
(***************************************************************************)
(* The column readers of native/columns.rs: from the native columnar wire  *)
(* to one RowBinary cell per row, and from a cell to a JSON document.      *)
(*                                                                         *)
(* A cell is a sequence of wire items.  A JSON document is <<"null">>,     *)
(* <<"num", v>>, <<"str", s>>, <<"arr", docs>> or <<"obj", members>>, each *)
(* member a name and a document.                                           *)
(***************************************************************************)
EXTENDS ColumnTypes
LOCAL INSTANCE SequencesExt

MAX_VARIANT_TYPES  == 255
MAX_WIRE_TYPES     == 254
MAX_JSON_PATHS     == 65536
NULL_DISCRIMINATOR == 255
SHARED_VARIANT     == <<"SharedVariant">>
DYNAMIC_FLATTENED  == 3
JSON_SERIALIZATION_STRING == 1

JsonNull == <<"null">>

\* The flags word of a LowCardinality column: its bits as a set, its index width.
GlobalDictionary == 256
AdditionalKeys   == 512
HasBit(flags, bit) == (flags \div bit) % 2 = 1
IndexBytes(flags)  == <<1, 2, 4, 8>>[(flags % 4) + 1]

\* Vec<String>::sort on type names: the model's names differ in their first word.
Alphabet == <<"Array", "Bool", "Dynamic", "Int8", "JSON", "LowCardinality", "Map", "Nullable",
              "SharedVariant", "String", "Tuple", "UInt16", "UInt8", "Variant">>
Before(a, b) == \E i, j \in DOMAIN Alphabet : Alphabet[i] = a[1] /\ Alphabet[j] = b[1] /\ i < j

-----------------------------------------------------------------------------
(* Cells to JSON: rowbinary_to_json_inner, best effort.                    *)

RECURSIVE CellToJson(_, _, _)

\* One element of an array, one field of a tuple, one entry of a map after another.
JsonParts(cell, p, types) == Each(types, p, LAMBDA t, q : CellToJson(cell, q, t))

CellToJson(cell, p, t) ==
    CASE HasFixedSize(t) ->
             Then(Read(cell, p, fixed_size(t)), LAMBDA v, q :
                 Ok(IF t[1] \in {"FixedString", "Uuid", "IPv4", "IPv6", "Int256", "UInt256",
                                 "Decimal256"}
                    THEN <<"str", v>> ELSE <<"num", v>>, q))
      [] t[1] = "Point" ->
             Then(JsonParts(cell, p, <<<<"Float64">>, <<"Float64">>>>), LAMBDA vs, q :
                 Ok(<<"arr", vs>>, q))
      [] t[1] \in {"String", "Json"} ->
             Then(Read(cell, p, String), LAMBDA v, q : Ok(<<"str", v>>, q))
      [] t[1] = "Nullable" ->
             Then(Read(cell, p, 1), LAMBDA flag, q :
                 IF flag # 0 THEN Ok(JsonNull, q) ELSE CellToJson(cell, q, t[2]))
      [] t[1] \in {"LowCardinality", "SimpleAggregateFunction"} -> CellToJson(cell, p, t[2])
      [] t[1] = "Array" ->
             Then(Read(cell, p, VarUInt), LAMBDA n, q :
                 Then(JsonParts(cell, q, [i \in 1..n |-> t[2]]), LAMBDA vs, after :
                     Ok(<<"arr", vs>>, after)))
      [] t[1] = "Tuple" ->
             Then(JsonParts(cell, p, t[2]), LAMBDA vs, q : Ok(<<"arr", vs>>, q))
      [] t[1] = "Map" ->
             Then(Read(cell, p, VarUInt), LAMBDA n, q :
                 Then(Repeat(n, q, LAMBDA at : JsonParts(cell, at, <<t[2], t[3]>>)),
                      LAMBDA vs, after : Ok(<<"obj", vs>>, after)))
      [] OTHER -> Read(cell, p, String)     \* Dynamic, NewJson, Variant: already JSON

rowbinary_to_json(cell, t) == ValueOr(CellToJson(cell, 1, t), JsonNull)

-----------------------------------------------------------------------------
(* Native columns to cells.                                                *)

rowbinary_string(s) == <<<<String, s>>>>

\* The values of a fixed-width or string column as cells.
AsCells(r, w) == Then(r, LAMBDA vs, q : Ok([i \in DOMAIN vs |-> <<<<w, vs[i]>>>>], q))
read_fixed_column(s, p, n, w) == AsCells(ReadColumn(s, p, n, w), w)
read_string_column(s, p, n)   == read_fixed_column(s, p, n, String)

read_offsets(s, p, n) == ReadColumn(s, p, n, 8)
LastOr0(offsets)      == IF offsets = <<>> THEN 0 ELSE offsets[Len(offsets)]
Begin(offsets, i)     == IF i = 1 THEN 0 ELSE offsets[i - 1]

\* checked_span on every offset: none below its predecessor or past the elements.
SpansChecked(offsets, available) ==
    \A i \in DOMAIN offsets : offsets[i] \in Begin(offsets, i)..available

\* Defect: the offset for the count.
RowOfOffset(offsets, elements, i) ==
    <<<<VarUInt, offsets[i]>>>>
        \o FlattenSeq(SubSeq(elements, Begin(offsets, i) + 1, offsets[i]))

\* The cells of row i: a count and the elements between two offsets.
RowOf(offsets, elements, i) ==
    <<<<VarUInt, offsets[i] - Begin(offsets, i)>>>>
        \o FlattenSeq(SubSeq(elements, Begin(offsets, i) + 1, offsets[i]))
Rows(offsets, elements) == [i \in DOMAIN offsets |-> RowOf(offsets, elements, i)]

RECURSIVE read_column_at(_, _, _, _, _)

read_nullable_column(s, p, n, inner, depth) ==
    Then(ReadColumn(s, p, n, 1), LAMBDA flags, q :
        Then(read_column_at(s, q, inner, n, depth + 1), LAMBDA values, after :
            Ok([i \in 1..n |-> IF flags[i] # 0 THEN <<<<1, 1>>>>
                               ELSE <<<<1, 0>>>> \o values[i]], after)))

read_low_cardinality_column(s, p, n, inner, depth) ==
    LET nullable == inner[1] = "Nullable"
        dictType == IF nullable THEN inner[2] ELSE inner
        Cell(dict, idx) == IF ~nullable THEN dict[idx + 1]
                           ELSE IF idx = 0 THEN <<<<1, 1>>>> ELSE <<<<1, 0>>>> \o dict[idx + 1]
    IN  Then(Read(s, p, 8), LAMBDA flags, q0 :
        IF HasBit(flags, GlobalDictionary) \/ ~HasBit(flags, AdditionalKeys) THEN Fail("err") ELSE
        Then(Read(s, q0, 8), LAMBDA size, q1 :
        Then(read_column_at(s, q1, dictType, size, depth + 1), LAMBDA dict, q2 :
        Then(Expect(s, q2, 8, {n}), LAMBDA count, q3 :
        Then(ReadColumn(s, q3, n, IndexBytes(flags)), LAMBDA ixs, q4 :
            Check(\A i \in 1..n : ixs[i] < Len(dict) \/ (nullable /\ ixs[i] = 0),
                  Ok([i \in 1..n |-> Cell(dict, ixs[i])], q4)))))))

read_array_column(s, p, n, inner, depth) ==
    Then(read_offsets(s, p, n), LAMBDA offsets, q :
    Then(read_column_at(s, q, inner, LastOr0(offsets), depth + 1), LAMBDA elements, after :
        Check(SpansChecked(offsets, Len(elements)), Ok(Rows(offsets, elements), after))))

read_tuple_column(s, p, n, fields, depth) ==
    Then(Each(fields, p, LAMBDA t, q : read_column_at(s, q, t, n, depth + 1)),
         LAMBDA cols, after :
             Ok([i \in 1..n |-> FlattenSeq([f \in DOMAIN cols |-> cols[f][i]])], after))

read_map_column(s, p, n, key, val, depth) ==
    Then(read_offsets(s, p, n), LAMBDA offsets, q :
    Then(read_column_at(s, q, key, LastOr0(offsets), depth + 1), LAMBDA keys, q1 :
    Then(read_column_at(s, q1, val, LastOr0(offsets), depth + 1), LAMBDA vals, after :
        Check(SpansChecked(offsets, Len(keys)),
              Ok(Rows(offsets, [i \in DOMAIN keys |-> keys[i] \o vals[i]]), after)))))

\* Discriminators of w bytes for n rows, then one column per type holding the rows
\* that chose it (read_discriminators and the loops that follow it).
read_tagged(s, p, n, types, w, depth) ==
    Then(ReadColumn(s, p, n, w), LAMBDA discs, q :
    Then(Each([t \in DOMAIN types |-> t], q, LAMBDA t, at :
             read_column_at(s, at, types[t],
                            Cardinality({i \in 1..n : discs[i] = t - 1}), depth + 1)),
         LAMBDA cols, after : Ok([discs |-> discs, cols |-> cols, types |-> types], after)))

\* A row with no value: the NULL discriminator, or one past the types.
Absent(g, i) == g.discs[i] >= Len(g.types)

\* The document of row i, the cursor being the rows before it with its discriminator.
DocumentOf(g, i) ==
    LET d      == g.discs[i]
        cursor == Cardinality({j \in 1..i : g.discs[j] = d})
    IN  rowbinary_to_json(g.cols[d + 1][cursor], g.types[d + 1])

DocumentOrNull(g, i) == IF Absent(g, i) THEN JsonNull ELSE DocumentOf(g, i)
DocumentCells(g)     == [i \in DOMAIN g.discs |-> rowbinary_string(DocumentOrNull(g, i))]

read_variant_column(s, p, n, types, depth) ==
    IF Len(types) > MAX_VARIANT_TYPES THEN Fail("err")
    ELSE Then(read_tagged(s, p, n, types, 1, depth), LAMBDA g, q : Ok(DocumentCells(g), q))

read_variant_mode(s, p) == Expect(s, p, 8, {0})

ReadNames(s, p, n) == ReadColumn(s, p, n, String)

\* Every name must be a type this crate reads; spilled values ride as strings.
wire_type(name)   == IF name = SHARED_VARIANT THEN <<"String">> ELSE parse(name)
WireTypes(names)  == [i \in DOMAIN names |-> wire_type(names[i])]
Readable(types, p) == Check(\A i \in DOMAIN types : types[i] # NoType, Ok(types, p))

\* The type list of a v1 or v2 Dynamic: sorted with SharedVariant among the names.
read_dynamic_v1v2_prefix(s, p, hasMaxTypes) ==
    Then(IF hasMaxTypes THEN Read(s, p, VarUInt) ELSE Ok(0, p), LAMBDA max, q0 :
    Then(ReadCapped(s, q0, MAX_WIRE_TYPES), LAMBDA count, q1 :
    Then(ReadNames(s, q1, count), LAMBDA names, q2 :
    Then(read_variant_mode(s, q2), LAMBDA mode, after :
        Ok(SortSeq(Append(names, SHARED_VARIANT), Before), after)))))

\* Rows whose value was spilled, which has no JSON form here.
Spilled(g, names, i) == ~Absent(g, i) /\ names[g.discs[i] + 1] = SHARED_VARIANT

read_dynamic_v1v2_body(s, p, n, names, depth) ==
    Then(Readable(WireTypes(names), p), LAMBDA types, at :
    Then(read_tagged(s, at, n, types, 1, depth), LAMBDA g, q :
        Ok([i \in 1..n |-> rowbinary_string(IF Spilled(g, names, i) THEN JsonNull
                                            ELSE DocumentOrNull(g, i))], q)))

read_dynamic_v1v2_column(s, p, n, hasMaxTypes, depth) ==
    Then(read_dynamic_v1v2_prefix(s, p, hasMaxTypes), LAMBDA names, q :
        read_dynamic_v1v2_body(s, q, n, names, depth))

index_width(slots) == IF slots <= 255 THEN 1 ELSE IF slots <= 65535 THEN 2 ELSE 4

read_flat_wire_types(s, p) ==
    Then(ReadCapped(s, p, MAX_VARIANT_TYPES), LAMBDA count, q :
    Then(ReadNames(s, q, count), LAMBDA names, after : Readable(WireTypes(names), after)))

read_dynamic_flattened_column(s, p, n, depth) ==
    Then(read_flat_wire_types(s, p), LAMBDA types, q :
    Then(read_tagged(s, q, n, types, index_width(Len(types)), depth), LAMBDA g, after :
        Ok(DocumentCells(g), after)))

read_dynamic_column(s, p, n, depth) ==
    Then(Expect(s, p, 8, {1, 2, 3}), LAMBDA version, q :
        IF version = 3 THEN read_dynamic_flattened_column(s, q, n, depth)
        ELSE read_dynamic_v1v2_column(s, q, n, version = 1, depth))

\* One object per row from the paths' tagged columns, a path without a value left out.
Members(paths, gs, i, Has(_, _)) ==
    FoldLeft(LAMBDA ms, k : IF Has(k, i) THEN Append(ms, <<paths[k], DocumentOf(gs[k], i)>>)
                            ELSE ms,
             <<>>, [k \in DOMAIN paths |-> k])
Objects(paths, gs, n, Has(_, _)) ==
    [i \in 1..n |-> rowbinary_string(<<"obj", Members(paths, gs, i, Has)>>)]

ReadPaths(s, p) ==
    Then(ReadCapped(s, p, MAX_JSON_PATHS), LAMBDA count, q : ReadNames(s, q, count))

\* The header of one path of a v2 object: its Dynamic prefix, whose types must be readable.
read_path_types(s, p) ==
    Then(Expect(s, p, 8, {1, 2}), LAMBDA version, q :
    Then(read_dynamic_v1v2_prefix(s, q, version = 1), LAMBDA names, at :
    Then(Readable(WireTypes(names), at), LAMBDA types, after :
        Ok([names |-> names, types |-> types], after))))

\* The paths and the values of the shared data: read_column_at on two String columns.
read_shared(s, p, n, depth) ==
    Check(depth < MaxDepth, Repeat(2, p, LAMBDA q : read_string_column(s, q, n)))

read_json_object_v2_column(s, p, n, depth) ==
    Then(ReadPaths(s, p), LAMBDA paths, q0 :
    Then(Repeat(Len(paths), q0, LAMBDA q : read_path_types(s, q)), LAMBDA heads, q1 :
    Then(Each(heads, q1, LAMBDA h, q : read_tagged(s, q, n, h.types, 1, depth)),
         LAMBDA gs, q2 :
    Then(read_offsets(s, q2, n), LAMBDA spilled, q3 :
    Then(read_shared(s, q3, LastOr0(spilled), depth), LAMBDA shared, after :
        Ok(Objects(paths, gs, n, LAMBDA k, i :
               ~Absent(gs[k], i) /\ ~Spilled(gs[k], heads[k].names, i)), after))))))

read_json_object_flattened_column(s, p, n, depth) ==
    Then(ReadPaths(s, p), LAMBDA paths, q0 :
    Then(Repeat(Len(paths), q0, LAMBDA q :
             Then(Expect(s, q, 8, {DYNAMIC_FLATTENED}), LAMBDA v, at :
                 read_flat_wire_types(s, at))), LAMBDA types, q1 :
    Then(Each(types, q1, LAMBDA ts, q : read_tagged(s, q, n, ts, index_width(Len(ts)), depth)),
         LAMBDA gs, after :
        Ok(Objects(paths, gs, n, LAMBDA k, i : ~Absent(gs[k], i)), after))))

read_json_body_at(s, p, n, version, depth) ==
    CASE version = JSON_SERIALIZATION_STRING -> read_string_column(s, p, n)
      [] version = 2 -> read_json_object_v2_column(s, p, n, depth)
      [] version = 3 -> read_json_object_flattened_column(s, p, n, depth)
      [] OTHER -> Fail("err")

read_json_column(s, p, n, depth) ==
    Then(Read(s, p, 8), LAMBDA version, q : read_json_body_at(s, q, n, version, depth))

read_column_at(s, p, t, n, depth) ==
    IF depth > MaxDepth THEN Fail("err")
    ELSE IF depth = 0 /\ n = 0 THEN Ok(<<>>, p)
    ELSE CASE HasFixedSize(t) -> read_fixed_column(s, p, n, fixed_size(t))
           [] t[1] = "Point" ->
                  Then(read_fixed_column(s, p, n, 8), LAMBDA x, q :
                  Then(read_fixed_column(s, q, n, 8), LAMBDA y, after :
                      Ok([i \in 1..n |-> x[i] \o y[i]], after)))
           [] t[1] \in {"String", "Json"} -> read_string_column(s, p, n)
           [] t[1] = "Nullable" -> read_nullable_column(s, p, n, t[2], depth)
           [] t[1] = "LowCardinality" -> read_low_cardinality_column(s, p, n, t[2], depth)
           [] t[1] = "SimpleAggregateFunction" -> read_column_at(s, p, t[2], n, depth + 1)
           [] t[1] = "Array" -> read_array_column(s, p, n, t[2], depth)
           [] t[1] = "Tuple" -> read_tuple_column(s, p, n, t[2], depth)
           [] t[1] = "Map" -> read_map_column(s, p, n, t[2], t[3], depth)
           [] t[1] = "Variant" -> read_variant_column(s, p, n, t[2], depth)
           [] t[1] = "NewJson" -> read_json_column(s, p, n, depth)
           [] t[1] = "Dynamic" -> read_dynamic_column(s, p, n, depth)

\* read_column_data: a whole column whose prefixes are already off the wire.
read_column_data(s, p, t, n) == read_column_at(s, p, t, n, 0)
=============================================================================
