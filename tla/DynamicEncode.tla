--------------------------- MODULE DynamicEncode ---------------------------
(***************************************************************************)
(* DynamicRow: JSON values to RowBinary by the table's types               *)
(* (dynamic/parsed_type.rs, dynamic/encode.rs).                            *)
(*                                                                         *)
(* A JSON value is <<"null">>, <<"bool", b>>, <<"int", n>>, <<"half", k>>  *)
(* (the float k/2), <<"str", text>>, <<"arr", values>> or                  *)
(* <<"obj", members>>.  A text is what the coercions make of it:           *)
(*                                                                         *)
(*   <<"word", name, bytes>>            none of the forms below            *)
(*   <<"digits", n>>                    an integer                         *)
(*   <<"decimal", negative, int, frac>> a decimal, frac its digits         *)
(*   <<"exp", k>>                       an exponent form of k/2            *)
(*   <<"date", y, m, d>>                YYYY-MM-DD                         *)
(*   <<"datetime", day, clock, frac, zone>>                                *)
(*   <<"hex", count, v>>, <<"ipv4", n>>, <<"ipv6", v>>                     *)
(*                                                                         *)
(* Numbers are scaled: an integer of w bytes has Bits[w] bits, a float of  *)
(* w bytes Mantissa[w] significant ones, and a thousand, in the detection  *)
(* of milli-, micro- and nanoseconds, is Kilo.  A float is its halves.     *)
(***************************************************************************)
EXTENDS ColumnTypes
LOCAL INSTANCE SequencesExt
LOCAL INSTANCE FiniteSetsExt

CONSTANTS Bits,       \* the bits of an integer of w bytes
          Kilo,       \* the factor between units of epoch time, 1000
          Mantissa,   \* the significant bits of a float of w bytes
          MaxFloat32  \* the largest finite f32

ASSUME DynamicEncodeAssumption ==
    /\ Bits \in [{1, 2, 4, 8, 16} -> Nat \ {0}]
    /\ Mantissa \in [{4, 8} -> Nat \ {0}]
    /\ Kilo \in Nat \ {0, 1}
    /\ MaxFloat32 \in Nat

JsonDocNull == <<"null">>
EmptyObject == <<"obj", <<>>>>

Fits(n, w)  == n \in 0..(2^Bits[w] - 1)
FitsI(n, w) == n \in (-(2^(Bits[w] - 1)))..(2^(Bits[w] - 1) - 1)
MaxI(w)     == 2^(Bits[w] - 1) - 1

Abs(n)          == IF n < 0 THEN -n ELSE n
TruncDiv(a, b)  == IF a < 0 THEN -((-a) \div b) ELSE a \div b

\* The distance between floats of w bytes at k halves, and the float that k / d halves
\* round to: the nearest, the even one of two.
Ulp(k, w) == 2^Min({e \in 0..30 : Abs(k) \div 2^e < 2^Mantissa[w]})
RoundTo(k, d, w) ==
    LET u    == d * Ulp(TruncDiv(k, d), w)
        down == Abs(k) \div u
        rest == 2 * (Abs(k) % u)
        n    == (IF rest > u \/ (rest = u /\ down % 2 = 1) THEN down + 1 ELSE down) * (u \div d)
    IN  IF k < 0 THEN -n ELSE n
Float(k, w) == RoundTo(k, 1, w)

-----------------------------------------------------------------------------
(* ParsedType.                                                             *)

\* The base types with a tag of their own and their size, 0 when it varies.
ByteSize ==
    [n \in {"UInt8", "Int8", "Bool", "Enum8"} |-> 1]
      @@ [n \in {"UInt16", "Int16", "Enum16", "Date"} |-> 2]
      @@ [n \in {"UInt32", "Int32", "Date32", "DateTime", "Float32", "Decimal32", "IPv4"} |-> 4]
      @@ [n \in {"UInt64", "Int64", "Float64", "Decimal64", "DateTime64"} |-> 8]
      @@ [n \in {"Int128", "UInt128", "Decimal128", "UUID", "IPv6"} |-> 16]
      @@ [n \in {"Int256", "UInt256", "Decimal256"} |-> 32]

Varying == {"String", "Array", "Map", "JSON"}

\* The wrappers around a type: without them, and whether one was Nullable.
RECURSIVE Unwrap(_)
Unwrap(s) ==
    IF Wraps(s, "Nullable") THEN [type |-> Unwrap(Inner(s)).type, nullable |-> TRUE]
    ELSE IF Wraps(s, "LowCardinality") THEN Unwrap(Inner(s))
    ELSE [type |-> s, nullable |-> FALSE]

\* decimal_tag_for_precision on a bare Decimal, 38 when there is no precision.
decimal_tag(s) ==
    LET args == split_type_args(Inner(s))
    IN  IF s[1] # "Decimal" THEN s[1]
        ELSE DecimalFor(IF Len(args) = 2 THEN NumberOr(args[1], 38) ELSE 38)

DecimalScale(s) ==
    LET args == split_type_args(Inner(s))
    IN  IF args = <<>> THEN 0 ELSE NumberOr(args[Len(args)], 0)

Parsed(base, arg, raw) == [base |-> base, arg |-> arg, raw |-> raw, nullable |-> FALSE]

\* The base, with what its arguments say: the element, the key and value types, the
\* precision, the scale or the size.
RECURSIVE parse_type(_)
parse_base(s, raw) ==
    LET args == split_type_args(Inner(s))
        comma == find_first_comma_at_depth0(Inner(s))
    IN  CASE Wraps(s, "Array") -> Parsed("Array", parse_type(Inner(s)), raw)
          [] Wraps(s, "Map") /\ comma # 0 ->
                 Parsed("Map", <<parse_type(SubSeq(Inner(s), 1, comma - 1)),
                                 parse_type(SubSeq(Inner(s), comma + 1, Len(Inner(s))))>>, raw)
          [] s[1] = "DateTime64" ->
                 Parsed("DateTime64",
                        IF Wraps(s, "DateTime64") /\ args # <<>> THEN NumberOr(args[1], 3) ELSE 3,
                        raw)
          [] Wraps(s, "DateTime") -> Parsed("DateTime", 0, raw)
          [] Wraps(s, "FixedString") -> Parsed("FixedString", NumberOr(Inner(s), 1), raw)
          [] s[1] \in {"Decimal"} \cup DOMAIN SizedDecimals ->
                 Parsed(decimal_tag(s), DecimalScale(s), raw)
          [] s[1] \in {"Enum8", "Enum16"} -> Parsed(s[1], 0, raw)
          [] Len(s) = 1 /\ s[1] \in (DOMAIN ByteSize \cup Varying) -> Parsed(s[1], 0, raw)
          [] OTHER -> Parsed("Unknown", 0, raw)   \* Point, Variant, Dynamic and Unknown

parse_type(s) ==
    LET u == Unwrap(s) IN [parse_base(u.type, s) EXCEPT !.nullable = u.nullable]

-----------------------------------------------------------------------------
(* Coercions.  The value, or an error that fails the row.                  *)

Value(v)   == Ok(v, 0)
Refused    == Fail("err")
Only(ok, v) == IF ok THEN Value(v) ELSE Refused

\* A JSON integer past an i64 and a u64, and the number serde_json holds for a literal:
\* an f64 for such an integer.
IsWide(v) == v[1] = "int" /\ ~Fits(v[2], 8) /\ ~FitsI(v[2], 8)
Held(v)   == IF IsWide(v) THEN <<"half", Float(2 * v[2], 8)>> ELSE v

\* A number or its text that is whole, and its value.
IsNumeric(v) == v[1] \in {"int", "half"}
IsWhole(v)   == v[1] = "int" \/ (v[1] = "half" /\ v[2] % 2 = 0)
Whole(v)     == IF v[1] = "int" THEN v[2] ELSE v[2] \div 2
IsDigits(v)  == v[1] = "str" /\ v[2][1] = "digits"

\* as_u64, as_i64, as_u128, as_i128: a number in the range In, a float only where Floats.
\* A number that is no float has 64 bits (Held); only a text can say a wider one.
as_integer(v, In(_), Floats) ==
    CASE IsNumeric(v) -> Only(IsWhole(v) /\ (v[1] = "int" \/ Floats) /\ In(Whole(v)), Whole(v))
      [] v[1] = "bool" -> Value(IF v[2] THEN 1 ELSE 0)
      [] IsDigits(v) -> Only(In(v[2][2]), v[2][2])
      [] OTHER -> Refused

as_u64(v)  == as_integer(v, LAMBDA n : Fits(n, 8), TRUE)
as_i64(v)  == as_integer(v, LAMBDA n : FitsI(n, 8), TRUE)
as_u128(v) == as_integer(v, LAMBDA n : Fits(n, 16), FALSE)
as_i128(v) == as_integer(v, LAMBDA n : FitsI(n, 16), FALSE)

\* narrow: a wide integer in the column's width.
narrow(r, In(_)) == Then(r, LAMBDA n, z : Only(In(n), n))

Truths == {"true", "yes"}
Lies   == {"false", "no", ""}

as_bool(v) ==
    CASE v[1] = "bool" -> Value(IF v[2] THEN 1 ELSE 0)
      [] IsNumeric(v) -> Only(IsWhole(v) /\ FitsI(Whole(v), 8), IF Whole(v) # 0 THEN 1 ELSE 0)
      [] v[1] = "str" -> Only(v[2][1] \in {"word", "digits"}
                                /\ v[2][2] \in (IF v[2][1] = "word" THEN Truths \cup Lies
                                                ELSE {0, 1}),
                              IF v[2][2] \in (IF v[2][1] = "word" THEN Truths ELSE {1})
                              THEN 1 ELSE 0)
      [] OTHER -> Refused

\* The number a decimal's digits are, in units of the last.
Unscaled(t) == LET n == FoldLeft(LAMBDA acc, d : 10 * acc + d, t[3], t[4])
               IN  IF t[2] THEN -n ELSE n

\* The nearest f64.
as_f64(v) ==
    CASE v[1] = "int" -> Value(Float(2 * v[2], 8))
      [] v[1] = "half" -> Value(v[2])
      [] IsDigits(v) -> Value(Float(2 * v[2][2], 8))
      [] v[1] = "str" /\ v[2][1] = "exp" -> Value(Float(v[2][2], 8))
      [] v[1] = "str" /\ v[2][1] = "decimal" ->
             Value(RoundTo(2 * Unscaled(v[2]), 10^Len(v[2][4]), 8))
      [] OTHER -> Refused

\* as f32, which rounds; an overflow to infinity is refused.
as_f32(v) ==
    Then(as_f64(v), LAMBDA wide, z :
        Only(Abs(Float(wide, 4)) <= 2 * MaxFloat32, Float(wide, 4)))

\* value_to_str: the text of a scalar, a float with more digits than an f64 has in
\* exponent form.
value_to_str(v) ==
    CASE v[1] = "str" -> v[2]
      [] v[1] = "int" -> <<"digits", v[2]>>
      [] v[1] = "half" ->
             IF Abs(v[2]) >= 2^(Mantissa[8] + 1) THEN <<"exp", v[2]>>
             ELSE <<"decimal", v[2] < 0, Abs(v[2]) \div 2, <<5 * (Abs(v[2]) % 2)>>>>
      [] v[1] = "bool" -> IF v[2] THEN <<"word", "true", 4>> ELSE <<"word", "false", 5>>
      [] v[1] = "null" -> <<"word", "", 0>>
      [] OTHER -> <<"json", v>>

Payload(text) == IF text = <<"word", "", 0>> THEN <<>> ELSE text

-----------------------------------------------------------------------------
(* Decimals.                                                               *)

\* checked_mul(10) and checked_add(digit) on an i128; -1 is None.
Shift(acc, digit) ==
    IF acc < 0 \/ acc > MaxI(16) \div 10 \/ acc * 10 > MaxI(16) - digit THEN -1
    ELSE acc * 10 + digit

Digit(frac, i) == IF i <= Len(frac) THEN frac[i] ELSE 0

\* The digits of int and frac at a scale, the first dropped one rounded half up.
decimal_from_text(int, frac, scale) ==
    LET scaled == FoldLeft(LAMBDA acc, i : Shift(acc, Digit(frac, i)),
                           IF int > MaxI(16) THEN -1 ELSE int, [i \in 1..scale |-> i])
    IN  IF scaled >= 0 /\ Digit(frac, scale + 1) >= 5
        THEN IF scaled = MaxI(16) THEN -1 ELSE scaled + 1
        ELSE scaled

\* An exponent form is scaled as an f64, whose result is rounded too, and then rounded half
\* away from zero; a product past i128 is refused.
decimal_from_float(k, scale) ==
    LET bound  == 2 * (MaxI(16) + 1)
        scaled == IF Abs(k) > bound \div 10^scale + 1 THEN bound
                  ELSE Float(Float(k, 8) * 10^scale, 8)
    IN  Only(scaled < bound /\ scaled >= -bound,
             IF scaled < 0 THEN -((1 - scaled) \div 2) ELSE (scaled + 1) \div 2)

decimal_backing_i128(v, scale) ==
    LET t == IF v[1] = "bool" THEN <<"digits", IF v[2] THEN 1 ELSE 0>> ELSE value_to_str(v)
        Signed(negative, n) == Only(n >= 0, IF negative THEN -n ELSE n)
    IN  CASE v[1] \notin {"int", "half", "str", "bool"} -> Refused
          [] t[1] = "digits" -> Signed(t[2] < 0, decimal_from_text(Abs(t[2]), <<>>, scale))
          [] t[1] = "decimal" -> Signed(t[2], decimal_from_text(t[3], t[4], scale))
          [] t[1] = "exp" -> decimal_from_float(t[2], scale)
          [] OTHER -> Refused

-----------------------------------------------------------------------------
(* Dates and times.                                                        *)

epoch_to_seconds(ts) ==
    CASE Abs(ts) > Kilo^6 -> TruncDiv(ts, Kilo^3)
      [] Abs(ts) > Kilo^5 /\ Abs(ts) <= Kilo^6 -> TruncDiv(ts, Kilo^2)
      [] Abs(ts) > Kilo^4 /\ Abs(ts) <= Kilo^5 -> TruncDiv(ts, Kilo)
      [] OTHER -> ts

\* Defect: no century is a leap year.
days_in_plain_month(year, month) ==
    CASE month \in {1, 3, 5, 7, 8, 10, 12} -> 31
      [] month \in {4, 6, 9, 11} -> 30
      [] month = 2 -> IF year % 4 = 0 /\ year % 100 # 0 THEN 29 ELSE 28
      [] OTHER -> 0

days_in_month(year, month) ==
    CASE month \in {1, 3, 5, 7, 8, 10, 12} -> 31
      [] month \in {4, 6, 9, 11} -> 30
      [] month = 2 -> IF year % 4 = 0 /\ (year % 100 # 0 \/ year % 400 = 0) THEN 29 ELSE 28
      [] OTHER -> 0

\* Defect: every month has 31 days.
check_day_of_month(d) == d[2] \in 1..12 /\ d[3] \in 1..31

check_calendar_day(d) == d[2] \in 1..12 /\ d[3] \in 1..days_in_month(d[1], d[2])

civil_days_from_epoch(d) ==
    LET y   == IF d[2] <= 2 THEN d[1] - 1 ELSE d[1]
        m   == IF d[2] <= 2 THEN d[2] + 9 ELSE d[2] - 3
        yoe == y % 400
        doy == (153 * m + 2) \div 5 + d[3] - 1
        doe == yoe * 365 + yoe \div 4 - yoe \div 100 + doy
    IN  (y \div 400) * 146097 + doe - 719468

\* Nine digits of the fraction.
Nanos(frac) == FoldLeft(LAMBDA n, i : 10 * n + Digit(frac, i), 0, [i \in 1..9 |-> i])

\* Seconds and nanoseconds; a zone other than UTC is an error.
parse_datetime_str(t) ==
    LET c == t[3]
    IN  Only(/\ t[5] \in {"", "Z", "+00:00"}
             /\ check_calendar_day(t[2])
             /\ c[1] <= 23 /\ c[2] <= 59 /\ c[3] <= 59,
             <<civil_days_from_epoch(t[2]) * 86400 + c[1] * 3600 + c[2] * 60 + c[3],
               Nanos(t[4])>>)

\* The epoch number a value is: floats only whole.
EpochNumber(v) == (IsWhole(v) /\ FitsI(Whole(v), 8)) \/ (IsDigits(v) /\ FitsI(v[2][2], 8))
EpochOf(v)     == IF IsDigits(v) THEN v[2][2] ELSE Whole(v)
IsDateTime(v)  == v[1] = "str" /\ v[2][1] = "datetime"

to_epoch_seconds(v) ==
    CASE EpochNumber(v) -> Value(epoch_to_seconds(EpochOf(v)))
      [] IsDateTime(v) -> Then(parse_datetime_str(v[2]), LAMBDA r, z : Value(r[1]))
      [] OTHER -> Refused

\* Whole days, towards the past, in an i32.
to_epoch_days(v) ==
    Then(IF v[1] = "str" /\ v[2][1] = "date"
         THEN Only(check_calendar_day(Tail(v[2])), civil_days_from_epoch(Tail(v[2])))
         ELSE Then(to_epoch_seconds(v), LAMBDA secs, z : Value(secs \div 86400)),
         LAMBDA days, z : Only(FitsI(days, 4), days))

\* Checked multiplication and addition in i64.
datetime64_to_ticks(v, precision) ==
    CASE EpochNumber(v) -> Value(EpochOf(v))
      [] IsDateTime(v) ->
             Then(parse_datetime_str(v[2]), LAMBDA r, z :
                 LET unit == 10^precision
                     frac == r[2] \div 10^(9 - precision)
                 IN  Only(/\ r[1] \in -((MaxI(8) + 1) \div unit)..(MaxI(8) \div unit)
                          /\ r[1] * unit <= MaxI(8) - frac,
                          r[1] * unit + frac))
      [] OTHER -> Refused

-----------------------------------------------------------------------------
(* Enums, addresses.                                                       *)

EnumMember == "'a' = 1" :> <<"a", 1>> @@ "'b' = 2" :> <<"b", 2>> @@ "'c' = 3" :> <<"c", 3>>

\* The members between the first "(" and the last ")" of the type string; a label counts
\* where a member begins with it, its number where the member ends with it.
enum_member_value(raw, name) ==
    LET inner   == SubSeq(raw, Min({i \in DOMAIN raw : raw[i] = "("}) + 1, Len(raw) - 1)
        cuts    == {0} \cup {i \in DOMAIN inner : inner[i] = ","} \cup {Len(inner) + 1}
        After(c) == Min({d \in cuts : d > c})
        members == {SubSeq(inner, c + 1, After(c) - 1) : c \in cuts \ {Len(inner) + 1}}
        named   == {m \in members : /\ m # <<>>
                                    /\ m[1] \in DOMAIN EnumMember
                                    /\ EnumMember[m[1]][1] = name}
    IN  IF \E i \in DOMAIN raw : raw[i] = "(" /\ named # {} /\ \A m \in named : Len(m) = 1
        THEN Value(EnumMember[(CHOOSE m \in named : TRUE)[1]][2]) ELSE Refused

enum_discriminant(v, raw) ==
    CASE IsNumeric(v) \/ v[1] = "bool" -> as_i64(v)
      [] IsDigits(v) /\ FitsI(v[2][2], 8) -> Value(v[2][2])
      [] v[1] = "str" /\ v[2][1] = "word" -> enum_member_value(raw, v[2][2])
      [] OTHER -> Refused

encode_uuid(v) ==
    LET t == value_to_str(v) IN Only(t[1] = "hex" /\ t[2] = 32, IF t[1] = "hex" THEN t[3] ELSE 0)

\* A number is the address itself.
encode_ipv4(v) ==
    IF v[1] = "int" /\ v[2] >= 0 THEN Only(Fits(v[2], 4), v[2])
    ELSE LET t == value_to_str(v) IN Only(t[1] = "ipv4", t[2])

encode_ipv6(v) ==
    LET t == value_to_str(v) IN Only(t[1] = "ipv6", t[2])

-----------------------------------------------------------------------------
(* One value.                                                              *)

\* The bytes of a text; the other forms are longer than any FixedString here.
DigitCount(n) == IF n = 0 THEN 1 ELSE Cardinality({k \in 0..9 : Abs(n) >= 10^k})
TextBytes(t) ==
    CASE t[1] = "word" -> t[3]
      [] t[1] = "digits" -> DigitCount(t[2]) + (IF t[2] < 0 THEN 1 ELSE 0)
      [] OTHER -> 32

\* A scalar of a fixed width, as the value its bytes hold.
encode_scalar(v, pt) ==
    LET b      == pt.base
        w      == IF b = "FixedString" THEN pt.arg ELSE ByteSize[b]
        UIn(n) == Fits(n, w)
        SIn(n) == FitsI(n, w)
    IN  CASE b \in {"UInt8", "UInt16", "UInt32"} -> narrow(as_u64(v), UIn)
          [] b = "UInt64" -> as_u64(v)
          [] b \in {"UInt128", "UInt256"} -> as_u128(v)
          [] b \in {"Int8", "Int16", "Int32"} -> narrow(as_i64(v), SIn)
          [] b = "Int64" -> as_i64(v)
          [] b \in {"Int128", "Int256"} -> as_i128(v)
          [] b \in {"Enum8", "Enum16"} -> narrow(enum_discriminant(v, pt.raw), SIn)
          [] b = "Bool" -> as_bool(v)
          [] b = "Float32" -> as_f32(v)
          [] b = "Float64" -> as_f64(v)
          [] b = "Date" -> narrow(to_epoch_days(v), UIn)
          [] b = "Date32" -> to_epoch_days(v)
          [] b = "DateTime" -> narrow(to_epoch_seconds(v), UIn)
          [] b = "DateTime64" -> datetime64_to_ticks(v, pt.arg)
          [] b \in {"Decimal32", "Decimal64"} -> narrow(decimal_backing_i128(v, pt.arg), SIn)
          [] b \in {"Decimal128", "Decimal256"} -> decimal_backing_i128(v, pt.arg)
          [] b = "UUID" -> encode_uuid(v)
          [] b = "IPv4" -> encode_ipv4(v)
          [] b = "IPv6" -> encode_ipv6(v)
          [] b = "FixedString" ->
                 Only(TextBytes(value_to_str(v)) <= w, Payload(value_to_str(v)))

JSON_ARRAY_WRAPPER_KEY == "_values"

\* The text of a JSON column: an object in every case but a string's own text.
json_text(v) ==
    CASE v = JsonDocNull \/ v = <<"str", <<"word", "", 0>>>> -> EmptyObject
      [] v[1] = "str" /\ v # <<"str", <<"word", "", 0>>>> -> v[2]
      [] v[1] = "arr" -> <<"obj", <<<<JSON_ARRAY_WRAPPER_KEY, v>>>>>>
      [] OTHER -> v

\* The zero of a type; a type that cannot be written is refused here too.
write_default(pt) ==
    CASE pt.base = "JSON" -> Value(<<<<String, EmptyObject>>>>)
      [] pt.base = "Unknown" -> Refused
      [] pt.base = "String" -> Value(<<<<String, <<>>>>>>)
      [] pt.base \in {"Array", "Map"} -> Value(<<<<VarUInt, 0>>>>)
      [] pt.base = "FixedString" -> Value(<<<<pt.arg, <<>>>>>>)
      [] OTHER -> Value(<<<<ByteSize[pt.base], 0>>>>)

RECURSIVE encode_value(_, _)

Elements(values, F(_)) ==
    Then(Each(values, 0, LAMBDA v, z : F(v)), LAMBDA parts, z :
        Value(<<<<VarUInt, Len(values)>>>> \o FlattenSeq(parts)))

encode_array(v, elem) ==
    IF v[1] # "arr" THEN Refused ELSE Elements(v[2], LAMBDA item : encode_value(item, elem))

\* Only String keys can be written from an object's member names.
encode_map(v, key, val) ==
    IF v[1] # "obj" \/ key.base # "String" \/ key.nullable THEN Refused
    ELSE Elements(v[2], LAMBDA member :
             Then(encode_value(member[2], val), LAMBDA items, z :
                 Value(<<<<String, <<member[1]>>>>>> \o items)))

encode_typed(v, pt) ==
    CASE pt.base = "String" -> Value(<<<<String, Payload(value_to_str(v))>>>>)
      [] pt.base = "JSON" -> Value(<<<<String, json_text(v)>>>>)
      [] pt.base = "Array" -> encode_array(v, pt.arg)
      [] pt.base = "Map" -> encode_map(v, pt.arg[1], pt.arg[2])
      [] pt.base = "Unknown" -> Refused
      [] OTHER -> Then(encode_scalar(v, pt), LAMBDA x, z :
                      Value(<<<<IF pt.base = "FixedString" THEN pt.arg ELSE ByteSize[pt.base],
                                x>>>>))

encode_value(given, pt) ==
    LET v == Held(given)
    IN  IF pt.nullable
        THEN IF v = JsonDocNull THEN Value(<<<<1, 1>>>>)
             ELSE Then(encode_typed(v, pt), LAMBDA items, z : Value(<<<<1, 0>>>> \o items))
        ELSE IF v = JsonDocNull THEN write_default(pt) ELSE encode_typed(v, pt)

\* One column of a row: the member of its name, NULL when the row has none, or the
\* raw text that stands for a JSON column.
encode_column(row, column, raw) ==
    LET pt   == parse_type(column[2])
        mine == {i \in DOMAIN row : row[i][1] = column[1]}
    IN  IF raw # <<>> /\ raw[1] = column[1]
        THEN Value((IF pt.nullable THEN <<<<1, 0>>>> ELSE <<>>) \o <<<<String, raw[2]>>>>)
        ELSE encode_value(IF mine = {} THEN JsonDocNull ELSE row[CHOOSE i \in mine : TRUE][2], pt)

\* DynamicRow::encode_into.
encode_into(row, columns, raw) ==
    Then(Each(columns, 0, LAMBDA c, z : encode_column(row, c, raw)), LAMBDA parts, z :
        Value(FlattenSeq(parts)))
=============================================================================
