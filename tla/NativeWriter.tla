---------------------------- MODULE NativeWriter ----------------------------
(***************************************************************************)
(* The parties outside this crate that the codec meets: the RowBinary      *)
(* serialiser of the clickhouse crate, whose rows encode_columns takes, and *)
(* the native writer of the server, whose blocks decode_block reads.       *)
(*                                                                         *)
(* A value is <<"v", x>> for a scalar or string, <<"null">>, <<"seq", vs>> *)
(* for the elements of an array or the fields of a tuple (the entries of a *)
(* map are pairs), and <<"arm", type name, value>> in a Variant or Dynamic *)
(* column, <<"spilt", type name, value>> past a Dynamic column's limit of  *)
(* types.  A JSON value is <<"paths", vs>>, one Dynamic value or null per  *)
(* path of JsonPaths, of which the first MaxDynamicPaths are within the    *)
(* column's limit of paths.                                                *)
(***************************************************************************)
EXTENDS BlockCodec
LOCAL INSTANCE SequencesExt

JsonPaths       == <<<<"a">>, <<"b">>, <<"z">>>>
MaxDynamicPaths == 2
Null            == <<"null">>

\* The alternatives of the model's Variant columns.
VariantNames ==
    <<<<"Int8">>, <<"Array", "(", "LowCardinality", "(", "String", ")", ")">>, <<"String">>>>

(* The clickhouse crate's RowBinary serialiser, as encode_columns meets it. *)

\* The JSON document of a value.
RECURSIVE Document(_, _)
Document(v, t) ==
    LET Each1(T(_)) == [i \in DOMAIN v[2] |-> Document(v[2][i], T(i))]
    IN  IF v = Null THEN JsonNull
        ELSE CASE t[1] \in {"Uuid", "IPv4", "IPv6", "FixedString", "String"} -> <<"str", v[2]>>
               [] HasFixedSize(t) /\ t[1] \notin {"Uuid", "IPv4", "IPv6", "FixedString"} ->
                      <<"num", v[2]>>
               [] t[1] \in {"Nullable", "LowCardinality"} -> Document(v, t[2])
               [] t[1] = "Array" -> <<"arr", Each1(LAMBDA i : t[2])>>
               [] t[1] = "Tuple" -> <<"arr", Each1(LAMBDA i : t[2][i])>>
               [] t[1] = "Map" ->
                      <<"obj", [i \in DOMAIN v[2] |-> Document(v[2][i], <<"Tuple", Tail(t)>>)[2]]>>
               [] t[1] \in {"Variant", "Dynamic"} -> Document(v[3], parse(v[2]))
               [] t[1] = "NewJson" ->
                      LET has == SelectSeq([k \in DOMAIN JsonPaths |-> k],
                                           LAMBDA k : v[2][k] # Null)
                      IN  <<"obj", [m \in DOMAIN has |->
                              <<JsonPaths[has[m]], Document(v[2][has[m]], <<"Dynamic">>)>>]>>

RECURSIVE RowBinary(_, _)
RowBinary(v, t) ==
    LET All(T(_)) == FlattenSeq([i \in DOMAIN v[2] |-> RowBinary(v[2][i], T(i))])
    IN  CASE HasFixedSize(t) -> <<<<fixed_size(t), v[2]>>>>
          [] t[1] \in {"String", "Json"} -> <<<<String, v[2]>>>>
          [] t[1] \in {"NewJson", "Variant", "Dynamic"} -> <<<<String, Document(v, t)>>>>
          [] t[1] = "Point" -> <<<<8, v[2]>>, <<8, v[2]>>>>
          [] t[1] = "Nullable" ->
                 IF v = Null THEN <<<<1, 1>>>> ELSE <<<<1, 0>>>> \o RowBinary(v, t[2])
          [] t[1] \in {"LowCardinality", "SimpleAggregateFunction"} -> RowBinary(v, t[2])
          [] t[1] = "Tuple" -> All(LAMBDA i : t[2][i])
          [] t[1] = "Array" -> <<<<VarUInt, Len(v[2])>>>> \o All(LAMBDA i : t[2])
          [] t[1] = "Map" -> <<<<VarUInt, Len(v[2])>>>> \o All(LAMBDA i : <<"Tuple", Tail(t)>>)

-----------------------------------------------------------------------------
(* The server's native writer, as decode_block meets it.  A format says    *)
(* whether a scalar column is sparse, which JSON and Dynamic serialisation *)
(* it uses and the width of dictionary indices.                            *)

DefaultValue(t) == IF t[1] = "String" THEN <<"v", <<>>>>
                   ELSE IF t[1] = "Nullable" THEN Null ELSE <<"v", 0>>

Count(vs)        == [i \in DOMAIN vs |-> <<8, SumOf([j \in 1..i |-> Len(vs[j][2])])>>]
Flat(vs)         == FlattenSeq([i \in DOMAIN vs |-> vs[i][2]])
Distinct(vs)     == FoldLeft(LAMBDA a, v : IF \E i \in DOMAIN a : a[i] = v THEN a ELSE Append(a, v),
                             <<>>, vs)
IndexIn(v, seq)  == CHOOSE i \in DOMAIN seq : seq[i] = v

\* The values of a Dynamic column as a serialisation carries them: before the flattened
\* one, a value past the limit of types is opaque bytes in the shared sub-column.
Carried(vs, version) ==
    [i \in DOMAIN vs |-> IF vs[i][1] # "spilt" THEN vs[i]
                         ELSE IF version = DYNAMIC_FLATTENED THEN <<"arm", vs[i][2], vs[i][3]>>
                         ELSE <<"arm", SHARED_VARIANT, <<"v", <<"bytes">>>>>>]

\* The type names a Dynamic column declares, and its sub-columns in their order.
Present(vs)    == SelectSeq(vs, LAMBDA v : v # Null)
Declared(vs)   == SelectSeq(Distinct([i \in DOMAIN Present(vs) |-> Present(vs)[i][2]]),
                            LAMBDA name : name # SHARED_VARIANT)
SubColumns(vs, version) ==
    IF version = DYNAMIC_FLATTENED THEN Declared(vs)
    ELSE SortSeq(Append(Declared(vs), SHARED_VARIANT), Before)

\* Discriminators and, per name, the values that chose it.
Discs(vs, names, w, null) ==
    [i \in DOMAIN vs |-> <<w, IF vs[i] = Null THEN null ELSE IndexIn(vs[i][2], names) - 1>>]
Arms(vs, names) ==
    [k \in DOMAIN names |->
        LET mine == SelectSeq(vs, LAMBDA v : v # Null /\ v[2] = names[k])
        IN  <<wire_type(names[k]), [i \in DOMAIN mine |-> mine[i][3]]>>]

\* The sub-columns of a column of type t and their values.
Children(t, vs) ==
    CASE t[1] = "Nullable" ->
             <<<<t[2], [i \in DOMAIN vs |-> IF vs[i] = Null THEN DefaultValue(t[2]) ELSE vs[i]]>>>>
      [] t[1] = "SimpleAggregateFunction" -> <<<<t[2], vs>>>>
      [] t[1] = "Array" -> <<<<t[2], Flat(vs)>>>>
      [] t[1] = "Tuple" -> [f \in DOMAIN t[2] |-> <<t[2][f], [i \in DOMAIN vs |-> vs[i][2][f]]>>]
      [] t[1] = "Map" ->
             [f \in 1..2 |-> <<t[f + 1], [i \in DOMAIN Flat(vs) |-> Flat(vs)[i][2][f]]>>]
      [] t[1] = "Variant" -> Arms(vs, VariantNames)
      [] OTHER -> <<>>

\* Path k of the rows of a JSON column; the paths of a serialisation that have a
\* sub-column of their own, and the serialisation of those.
Path(vs, k)    == [i \in DOMAIN vs |-> vs[i][2][k]]
PathColumns(f) == [k \in 1..(IF f.json = 3 THEN Len(JsonPaths) ELSE MaxDynamicPaths) |-> k]
PathVersion(f) == IF f.json = 3 THEN DYNAMIC_FLATTENED ELSE f.dynamic

RECURSIVE Prefix(_, _, _)
PrefixAll(parts, f) ==
    FlattenSeq([k \in DOMAIN parts |-> Prefix(parts[k][1], parts[k][2], f)])

\* The version, the types and, before the flattened serialisation, the Variant's mode;
\* then the prefixes of the sub-columns.
DynamicPrefix(given, version, f) ==
    LET vs == Carried(given, version)
    IN  <<<<8, version>>>> \o (IF version = 1 THEN <<<<VarUInt, 32>>>> ELSE <<>>)
          \o <<<<VarUInt, Len(Declared(vs))>>>> \o Items(String, Declared(vs))
          \o (IF version = DYNAMIC_FLATTENED THEN <<>> ELSE <<<<8, 0>>>>)
          \o PrefixAll(Arms(vs, SubColumns(vs, version)), f)

\* The version and, unless the rows ride as text, the paths and the prefix of each.
JsonPrefix(vs, f) ==
    <<<<8, f.json>>>> \o
      IF f.json = JSON_SERIALIZATION_STRING THEN <<>>
      ELSE <<<<VarUInt, Len(PathColumns(f))>>>>
             \o Items(String, [k \in DOMAIN PathColumns(f) |-> JsonPaths[k]])
             \o FlattenSeq([k \in DOMAIN PathColumns(f) |->
                    DynamicPrefix(Path(vs, k), PathVersion(f), f)])

\* The prefixes of a column's whole tree, which the server writes ahead of all its data.
Prefix(t, vs, f) ==
    CASE t[1] = "LowCardinality" -> <<<<8, 1>>>>
      [] t[1] = "Dynamic" -> DynamicPrefix(vs, f.dynamic, f)
      [] t[1] = "NewJson" -> JsonPrefix(vs, f)
      [] OTHER -> (IF t[1] = "Variant" THEN <<<<8, 0>>>> ELSE <<>>) \o PrefixAll(Children(t, vs), f)

RECURSIVE Native(_, _, _)

NativeAll(parts, f) ==
    FlattenSeq([k \in DOMAIN parts |-> Native(parts[k][1], parts[k][2], f)])

NativeDictionary(inner, vs, f) ==
    LET nullable == inner[1] = "Nullable"
        t    == IF nullable THEN inner[2] ELSE inner
        keys == Distinct(SelectSeq(vs, LAMBDA v : v # Null))
        dict == IF nullable THEN <<DefaultValue(t)>> \o keys ELSE keys
        Ix(v) == IF v = Null THEN 0 ELSE IF nullable THEN IndexIn(v, keys) ELSE IndexIn(v, keys) - 1
    IN  <<<<8, AdditionalKeys + f.index>>, <<8, Len(dict)>>>> \o Native(t, dict, f)
          \o <<<<8, Len(vs)>>>> \o Items(IndexBytes(f.index), [i \in DOMAIN vs |-> Ix(vs[i])])

\* The discriminators and the sub-columns; NULL is one past the types when flattened.
NativeDynamic(given, version, f) ==
    LET vs    == Carried(given, version)
        names == SubColumns(vs, version)
    IN  Discs(vs, names, 1, IF version = DYNAMIC_FLATTENED THEN Len(names) ELSE NULL_DISCRIMINATOR)
          \o NativeAll(Arms(vs, names), f)

\* The names of a row's paths without a sub-column, the values beside them opaque.
Overflow(v) ==
    SelectSeq([k \in 1..(Len(JsonPaths) - MaxDynamicPaths) |-> k + MaxDynamicPaths],
              LAMBDA k : v[2][k] # Null)
NativeShared(vs) ==
    LET rows == [i \in DOMAIN vs |-> <<"seq", Overflow(vs[i])>>]
    IN  Count(rows) \o Items(String, [i \in DOMAIN Flat(rows) |-> JsonPaths[Flat(rows)[i]]])
          \o Items(String, [i \in DOMAIN Flat(rows) |-> <<"bytes">>])

\* Versions 0 and 4, which no reader here gets past, are written as version 2 is.
NativeJson(vs, f) ==
    IF f.json = JSON_SERIALIZATION_STRING
    THEN [i \in DOMAIN vs |-> <<String, Document(vs[i], <<"NewJson">>)>>]
    ELSE FlattenSeq([k \in DOMAIN PathColumns(f) |->
                        NativeDynamic(Path(vs, k), PathVersion(f), f)])
           \o (IF f.json = 3 THEN <<>> ELSE NativeShared(vs))

Native(t, vs, f) ==
    CASE HasFixedSize(t) -> Items(fixed_size(t), [i \in DOMAIN vs |-> vs[i][2]])
      [] t[1] \in {"String", "Json"} -> Items(String, [i \in DOMAIN vs |-> vs[i][2]])
      [] t[1] = "Point" -> [i \in 1..(2 * Len(vs)) |-> <<8, vs[((i - 1) % Len(vs)) + 1][2]>>]
      [] t[1] = "LowCardinality" -> NativeDictionary(t[2], vs, f)
      [] t[1] = "NewJson" -> NativeJson(vs, f)
      [] t[1] = "Dynamic" -> NativeDynamic(vs, f.dynamic, f)
      [] OTHER ->
             (CASE t[1] = "Nullable" -> [i \in DOMAIN vs |-> <<1, IF vs[i] = Null THEN 1 ELSE 0>>]
                [] t[1] \in {"Array", "Map"} -> Count(vs)
                [] t[1] = "Variant" -> Discs(vs, VariantNames, 1, NULL_DISCRIMINATOR)
                [] OTHER -> <<>>) \o NativeAll(Children(t, vs), f)

\* A sparse column: the defaults before each other value, then those values.
IsSparse(t, f) == f.sparse /\ HasScalarForm(t)
NativeSparse(t, vs, f) ==
    LET at == SelectSeq([i \in DOMAIN vs |-> i], LAMBDA i : vs[i] # DefaultValue(t))
        From(j) == IF j = 1 THEN 0 ELSE at[j - 1]
    IN  [j \in DOMAIN at |-> <<VarUInt, at[j] - From(j) - 1>>]
          \o <<<<VarUInt, EndOfGranule + Len(vs) - From(Len(at) + 1)>>>>
          \o Native(t, [j \in DOMAIN at |-> vs[at[j]]], f)

\* One column of a block of a revision: its header, the prefixes of its tree, its data.
NativeColumn(header, vs, f, revision) ==
    LET t      == parse(header[2])
        custom == revision >= CustomSerialization
        sparse == custom /\ vs # <<>> /\ IsSparse(t, f)
    IN  Items(String, header)
          \o (IF ~custom THEN <<>> ELSE IF sparse THEN <<<<1, 1>>, <<1, 1>>>> ELSE <<<<1, 0>>>>)
          \o (IF vs = <<>> THEN <<>>   \* a column without rows is never sparse
              ELSE IF sparse THEN NativeSparse(t, vs, f) ELSE Prefix(t, vs, f) \o Native(t, vs, f))
=============================================================================
