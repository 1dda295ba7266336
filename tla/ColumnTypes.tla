---------------------------- MODULE ColumnTypes ----------------------------
(***************************************************************************)
(* The type-name parser of native/columns.rs.  A type name is the sequence *)
(* of its tokens: words, numbers and the characters the parser looks for.  *)
(* A column type is a tuple headed by the variant's name; NoType is None.  *)
(***************************************************************************)
EXTENDS Wire, TLC
LOCAL INSTANCE SequencesExt

CONSTANT MaxDepth   \* MAX_TYPE_PARSE_DEPTH, MAX_READ_DEPTH and MAX_DECODE_DEPTH

ASSUME MaxDepthAssumption == MaxDepth \in Nat \ {0}

NoType == <<>>

Numeral == "0" :> 0 @@ "1" :> 1 @@ "2" :> 2 @@ "3" :> 3 @@ "4" :> 4 @@ "6" :> 6
             @@ "9" :> 9 @@ "10" :> 10 @@ "18" :> 18 @@ "38" :> 38 @@ "40" :> 40 @@ "76" :> 76

\* One argument that is a number, str::parse on its text.
IsNumber(s)   == Len(s) = 1 /\ s[1] \in DOMAIN Numeral
NumberOr(s, d) == IF IsNumber(s) THEN Numeral[s[1]] ELSE d

\* starts_with("Name(") and strip_outer(type_str, "Name").
Opens(s, name) == Len(s) > 1 /\ s[1] = name /\ s[2] = "("
Wraps(s, name) == Opens(s, name) /\ Len(s) > 2 /\ s[Len(s)] = ")"
Inner(s)       == SubSeq(s, 3, Len(s) - 1)

\* The nesting after one more character.
Nest(depth, c) == CASE c = "(" -> depth + 1
                    [] c = ")" -> IF depth = 0 THEN 0 ELSE depth - 1
                    [] OTHER   -> depth

max_paren_depth(s) ==
    FoldLeft(LAMBDA d, c : LET now == Nest(d.now, c)
                           IN  [now |-> now, max |-> IF now > d.max THEN now ELSE d.max],
             [now |-> 0, max |-> 0], s).max

\* The arguments between the commas outside any parenthesis; an empty last one
\* is left out.
SplitArg(a, c) == IF c = "," /\ a.depth = 0
                  THEN [a EXCEPT !.done = Append(@, a.arg), !.arg = <<>>]
                  ELSE [a EXCEPT !.arg = Append(@, c), !.depth = Nest(@, c)]
AllArgs(a) == IF a.arg = <<>> THEN a.done ELSE Append(a.done, a.arg)
split_type_args(s) ==
    AllArgs(FoldLeft(SplitArg, [done |-> <<>>, arg |-> <<>>, depth |-> 0], s))

\* The position of the first comma outside any parenthesis, 0 when there is none.
find_first_comma_at_depth0(s) ==
    FoldLeft(LAMBDA a, i : IF a.at # 0 THEN a
                           ELSE IF s[i] = "," /\ a.depth = 0 THEN [a EXCEPT !.at = i]
                           ELSE [a EXCEPT !.depth = Nest(@, s[i])],
             [at |-> 0, depth |-> 0], [i \in DOMAIN s |-> i]).at

\* The words that are a type by themselves, with the variant each one names.
PlainTypes ==
    LET same == {"UInt8", "UInt16", "UInt32", "UInt64", "Int8", "Int16", "Int32", "Int64",
                 "Int128", "UInt128", "Int256", "UInt256", "Float32", "Float64", "BFloat16",
                 "String", "IPv4", "IPv6", "Date", "Date32", "DateTime", "Time", "Dynamic",
                 "Point"}
    IN  [n \in same |-> n] @@ "Bool" :> "UInt8" @@ "UUID" :> "Uuid" @@ "JSON" :> "NewJson"
          @@ "Object('json')" :> "Json"

SizedDecimals == "Decimal32" :> 9 @@ "Decimal64" :> 18 @@ "Decimal128" :> 38
                   @@ "Decimal256" :> 76

DecimalFor(precision) == CASE precision <= 9 -> "Decimal32"
                           [] precision > 9 /\ precision <= 18 -> "Decimal64"
                           [] precision > 18 /\ precision <= 38 -> "Decimal128"
                           [] OTHER -> "Decimal256"

\* Option::map on the parsed inner type.
Around(variant, t) == IF t = NoType THEN NoType ELSE <<variant, t>>

RECURSIVE parse(_)

\* A list of fields that must all parse and not be empty.
ParseEach(args) == [i \in DOMAIN args |-> parse(args[i])]
AllOf(variant, fields) ==
    IF fields = <<>> \/ \E i \in DOMAIN fields : fields[i] = NoType
    THEN NoType ELSE <<variant, fields>>

MapOf(k, v) == IF NoType \in {k, v} THEN NoType ELSE <<"Map", k, v>>

\* Decimal(p, s), backed by the narrowest integer that holds p digits.
DecimalType(p, scale) == <<DecimalFor(p), p, scale>>

\* name(in), args being the arguments of in.
parse_wrapped(name, in, args) ==
    CASE name \in {"Nullable", "LowCardinality", "Array"} -> Around(name, parse(in))
      [] name = "FixedString" ->
             IF IsNumber(in) THEN <<"FixedString", Numeral[in[1]]>> ELSE NoType
      [] name = "DateTime64" ->
             <<"DateTime64", IF args = <<>> THEN 0 ELSE NumberOr(args[1], 0)>>
      [] name \in DOMAIN SizedDecimals -> <<name, SizedDecimals[name], NumberOr(in, 0)>>
      [] name = "Decimal" ->
             IF Len(args) = 2 /\ IsNumber(args[1]) /\ IsNumber(args[2])
             THEN DecimalType(Numeral[args[1][1]], Numeral[args[2][1]]) ELSE NoType
      [] name \in {"Tuple", "Variant"} -> AllOf(name, ParseEach(args))
      [] name = "Map" ->
             IF Len(args) # 2 THEN NoType ELSE MapOf(parse(args[1]), parse(args[2]))
      [] OTHER -> NoType

\* SimpleAggregateFunction(func, T): what follows the first comma, without the last ")".
AfterComma(rest, at) == IF at = 0 THEN <<>> ELSE SubSeq(rest, at + 1, Len(rest))
parse_argument(tail) ==
    IF tail = <<>> THEN NoType
    ELSE Around("SimpleAggregateFunction",
                parse(IF tail[Len(tail)] = ")" THEN Front(tail) ELSE tail))
parse_simple_aggregate(rest) ==
    parse_argument(AfterComma(rest, find_first_comma_at_depth0(rest)))

\* ColumnType::parse.
parse(s) ==
    IF s = <<>> \/ max_paren_depth(s) > MaxDepth THEN NoType
    ELSE IF Len(s) = 1
    THEN IF s[1] \in DOMAIN PlainTypes THEN <<PlainTypes[s[1]]>> ELSE NoType
    ELSE IF s[2] = "(" /\ s[1] \in {"DateTime", "Time64", "Enum8", "Enum16", "Dynamic"}
    THEN <<s[1]>>
    ELSE IF Opens(s, "SimpleAggregateFunction") THEN parse_simple_aggregate(SubSeq(s, 3, Len(s)))
    ELSE IF Wraps(s, s[1]) THEN parse_wrapped(s[1], Inner(s), split_type_args(Inner(s)))
    ELSE NoType

WidthOf ==
    [n \in {"UInt8", "Int8", "Enum8"} |-> 1]
      @@ [n \in {"BFloat16", "UInt16", "Int16", "Date", "Enum16"} |-> 2]
      @@ [n \in {"UInt32", "Int32", "Float32", "DateTime", "Date32", "Decimal32", "IPv4",
                 "Time"} |-> 4]
      @@ [n \in {"UInt64", "Int64", "Float64", "DateTime64", "Decimal64", "Time64"} |-> 8]
      @@ [n \in {"Int128", "UInt128", "Uuid", "IPv6", "Decimal128"} |-> 16]
      @@ [n \in {"Int256", "UInt256", "Decimal256"} |-> 32]

HasFixedSize(t) == t[1] \in DOMAIN WidthOf \/ t[1] = "FixedString"
fixed_size(t)   == IF t[1] = "FixedString" THEN t[2] ELSE WidthOf[t[1]]
=============================================================================
