----------------------------- MODULE JsonSense -----------------------------
(***************************************************************************)
(* What a JSON value says, apart from how DynamicRow encodes it: the       *)
(* reference for the rows that reach the server.  The sense of a column is *)
(*                                                                         *)
(*   <<"num", range>>, <<"bool">>, <<"float", range, width>>               *)
(*   <<"dec", range, scale>>            decimals, counted in units         *)
(*   <<"days", range>>, <<"secs", range>>, <<"ticks", range, precision>>   *)
(*   <<"enum", range, labels>>          labels the list of <<name, number>> *)
(*   <<"text">>, <<"fixed", bytes>>, <<"uuid">>, <<"ipv4", range>>,        *)
(*   <<"ipv6">>, <<"json">>, <<"opt", sense>>, <<"list", sense>>,          *)
(*   <<"dict", sense>>, <<"empty">> for a map that only NULL can write,    *)
(*   and <<"none">> for a type without an encoding.                        *)
(***************************************************************************)
EXTENDS DynamicEncode
LOCAL INSTANCE SequencesExt

\* The number a value is, as a fraction.
Fraction(v) ==
    LET t == v[2]
    IN  CASE v[1] = "int" -> <<v[2], 1>>
          [] v[1] = "half" -> <<v[2], 2>>
          [] v[1] = "bool" -> <<IF v[2] THEN 1 ELSE 0, 1>>
          [] v[1] = "str" /\ t[1] = "digits" -> <<t[2], 1>>
          [] v[1] = "str" /\ t[1] = "exp" -> <<t[2], 2>>
          [] v[1] = "str" /\ t[1] = "decimal" -> <<Unscaled(t), 10^Len(t[4])>>
          [] OTHER -> <<0, 0>>

Within(n, range) == IF n >= range[1] /\ n <= range[2] THEN {<<"v", n>>} ELSE {}

\* Half a unit and more counts as one.
Rounded(n, d) == IF n < 0 THEN -((2 * (-n) + d) \div (2 * d)) ELSE (2 * n + d) \div (2 * d)

\* The days from 1970 to a day of the calendar, counted.
IsLeap(y)   == (y % 4 = 0 /\ y % 100 # 0) \/ y % 400 = 0
MonthDays(y) == <<31, IF IsLeap(y) THEN 29 ELSE 28, 31, 30, 31, 30, 31, 31, 30, 31, 30, 31>>
Exists(d)   == d[2] \in 1..12 /\ d[3] >= 1 /\ d[3] <= MonthDays(d[1])[d[2]]
YearDays(from, to) ==
    365 * (to - from) + Cardinality({y \in from..(to - 1) : IsLeap(y)})
DaysTo(d) ==
    (IF d[1] >= 1970 THEN YearDays(1970, d[1]) ELSE -YearDays(d[1], 1970))
      + SumOf(SubSeq(MonthDays(d[1]), 1, d[2] - 1)) + d[3] - 1

\* A date and time in units of 1/10^p of a second; {} when there is no such time in UTC.
Instant(t, p) ==
    IF t[1] = "datetime" /\ Exists(t[2]) /\ t[5] \in {"", "Z", "+00:00"}
         /\ t[3][1] < 24 /\ t[3][2] < 60 /\ t[3][3] < 60
    THEN {(DaysTo(t[2]) * 86400 + t[3][1] * 3600 + t[3][2] * 60 + t[3][3]) * 10^p
            + SumOf([i \in 1..p |-> (IF i <= Len(t[4]) THEN t[4][i] ELSE 0) * 10^(p - i)])}
    ELSE {}

\* An epoch number is of the unit in which it lies from a thousand million to a million
\* million seconds off 1970, the years 2001 to 33658, and of seconds when it is too small
\* for any: the power of Kilo that is a second, and the second the instant lies in.
Unit(n)      == LET fits == {j \in 0..3 : Abs(n) > Kilo^(3 + j) /\ (j = 3 \/ Abs(n) <= Kilo^(4 + j))}
                IN  IF fits = {} THEN 1 ELSE Kilo^(CHOOSE j \in fits : TRUE)
SecondsOf(n) == n \div Unit(n)

\* The floats nearest to the fraction n / d, in halves: two when it is in the middle.
Nearest(n, d, w) ==
    LET m      == IF d % 2 = 0 THEN n ELSE 2 * n
        e      == IF d % 2 = 0 THEN d \div 2 ELSE d
        u      == Ulp(TruncDiv(m, e), w)
        low    == (m \div (e * u)) * u
        Off(x) == Abs(m - x * e)
    IN  {x \in {low, low + u} : \A y \in {low, low + u} : Off(x) <= Off(y)}

\* How far a decimal that is scaled as an f64 may be off: the rounding of both factors.
Slack(v, n) ==
    LET far == 2^(Mantissa[8] - 1)
    IN  IF value_to_str(v)[1] = "exp" /\ Abs(n) >= far THEN Abs(n) \div far + 1 ELSE 0

Zero(sense) ==
    CASE sense[1] \in {"text", "fixed"} -> <<"v", <<>>>>
      [] sense[1] = "json" -> <<"v", EmptyObject>>
      [] sense[1] \in {"list", "dict", "empty"} -> <<"seq", <<>>>>
      [] OTHER -> <<"v", 0>>

\* The values of that sense that say what the JSON value says.
RECURSIVE Says(_, _)
Says(v, sense) ==
    LET q   == Fraction(v)
        isN == q[2] # 0
        whole == isN /\ q[1] % q[2] = 0
        t   == IF v[1] = "str" THEN v[2] ELSE <<"none">>
        text == value_to_str(v)
        Instants(p) == UNION {Within(x, sense[2]) : x \in Instant(t, p)}
        All(vs, F(_)) == IF \E i \in DOMAIN vs : F(vs[i]) = {} THEN {}
                         ELSE {<<"seq", [i \in DOMAIN vs |-> CHOOSE x \in F(vs[i]) : TRUE]>>}
    IN  IF v = JsonDocNull
        THEN IF sense[1] = "opt" THEN {JsonDocNull}
             ELSE IF sense[1] = "none" THEN {} ELSE {Zero(sense)}
        ELSE CASE sense[1] = "opt" -> Says(v, sense[2])
               [] sense[1] = "num" -> IF whole THEN Within(q[1] \div q[2], sense[2]) ELSE {}
               [] sense[1] = "bool" ->
                      IF whole /\ (v[1] # "str" \/ q[1] \in {0, 1})
                      THEN {<<"v", IF q[1] = 0 THEN 0 ELSE 1>>}
                      ELSE IF t[1] = "word" /\ t[2] \in Truths \cup Lies
                      THEN {<<"v", IF t[2] \in Truths THEN 1 ELSE 0>>} ELSE {}
               [] sense[1] = "float" ->
                      LET near == Nearest(q[1], q[2], sense[3])
                      IN  IF isN /\ v[1] # "bool" /\ \A x \in near : Abs(x) <= sense[2][2]
                          THEN {<<"v", x>> : x \in near} ELSE {}
               [] sense[1] = "dec" ->
                      IF isN /\ Abs(q[1]) \div q[2] <= sense[2][2] \div 10^sense[3] + 1
                      THEN LET p == 10^sense[3]
                               n == IF p % q[2] = 0 THEN q[1] * (p \div q[2])
                                    ELSE Rounded(q[1], q[2] \div p)
                           IN  IF Within(n, sense[2]) = {} THEN {}
                               ELSE UNION {Within(x, sense[2]) :
                                             x \in (n - Slack(v, n))..(n + Slack(v, n))}
                      ELSE {}
               [] sense[1] = "days" ->
                      IF t[1] = "date"
                      THEN IF Exists(Tail(t)) THEN Within(DaysTo(Tail(t)), sense[2]) ELSE {}
                      ELSE IF whole /\ v[1] # "bool"
                      THEN Within(SecondsOf(q[1] \div q[2]) \div 86400, sense[2])
                      ELSE UNION {Within(x \div 86400, sense[2]) : x \in Instant(t, 0)}
               [] sense[1] = "secs" ->
                      IF whole /\ v[1] # "bool"
                      THEN Within(SecondsOf(q[1] \div q[2]), sense[2]) ELSE Instants(0)
               [] sense[1] = "ticks" ->
                      IF whole /\ v[1] # "bool" THEN Within(q[1] \div q[2], sense[2])
                      ELSE Instants(sense[3])
               [] sense[1] = "enum" ->
                      IF whole THEN Within(q[1] \div q[2], sense[2])
                      ELSE {<<"v", l[2]>> : l \in {x \in Range(sense[3]) : t[1] = "word" /\ x[1] = t[2]}}
               [] sense[1] = "text" -> {<<"v", Payload(text)>>}
               [] sense[1] = "fixed" ->
                      IF TextBytes(text) <= sense[2] THEN {<<"v", Payload(text)>>} ELSE {}
               [] sense[1] = "uuid" -> IF t[1] = "hex" /\ t[2] = 32 THEN {<<"v", t[3]>>} ELSE {}
               [] sense[1] = "ipv4" ->
                      IF v[1] = "int" THEN Within(v[2], sense[2])
                      ELSE IF t[1] = "ipv4" THEN {<<"v", t[2]>>} ELSE {}
               [] sense[1] = "ipv6" -> IF t[1] = "ipv6" THEN {<<"v", t[2]>>} ELSE {}
               [] sense[1] = "json" ->
                      CASE t[1] # "none" -> {<<"v", IF text = <<"word", "", 0>> THEN EmptyObject
                                                    ELSE text>>}
                        [] v[1] = "arr" -> {<<"v", <<"obj", <<<<"_values", v>>>>>>>>}
                        [] OTHER -> {<<"v", v>>}
               [] sense[1] = "list" ->
                      IF v[1] = "arr" THEN All(v[2], LAMBDA x : Says(x, sense[2])) ELSE {}
               [] sense[1] = "dict" ->
                      IF v[1] # "obj" THEN {}
                      ELSE All(v[2], LAMBDA m :
                               {<<"seq", <<<<"v", <<m[1]>>>>, x>>>> : x \in Says(m[2], sense[2])})
               [] sense[1] \in {"empty", "none"} -> {}

\* The plain way to write a value of a sense in JSON; NULL stands for the default.
RECURSIVE Plain(_, _)
Plain(v, sense) ==
    CASE v = JsonDocNull -> TRUE
      [] sense[1] = "opt" -> Plain(v, sense[2])
      [] sense[1] \in {"num", "float"} -> v[1] = "int"
      [] sense[1] = "bool" -> v[1] = "bool"
      [] sense[1] = "dec" -> v[1] = "str" /\ v[2][1] \in {"digits", "decimal"}
      [] sense[1] = "days" -> v[1] = "str" /\ v[2][1] = "date"
      [] sense[1] \in {"secs", "ticks"} -> v[1] = "str" /\ v[2][1] = "datetime"
      [] sense[1] \in {"text", "fixed", "uuid", "ipv4", "ipv6"} -> v[1] = "str"
      [] sense[1] = "enum" -> v[1] = "int" \/ (v[1] = "str" /\ v[2][1] = "word")
      [] sense[1] = "list" -> v[1] = "arr" /\ \A i \in DOMAIN v[2] : Plain(v[2][i], sense[2])
      [] sense[1] = "dict" -> v[1] = "obj" /\ \A i \in DOMAIN v[2] : Plain(v[2][i][2], sense[2])
      [] sense[1] = "json" -> TRUE
      [] OTHER -> FALSE

-----------------------------------------------------------------------------
(* Where the encoder is known to depart from what a value says.            *)

\* An epoch number before 1970 that is of a finer unit than seconds and no whole second:
\* it is truncated towards 1970, which may be the next day (encode.rs:741-748).
IsLate(v, sense) ==
    LET q == Fraction(v)
    IN  /\ sense[1] = "days" /\ q[2] # 0
        /\ q[1] < 0 /\ (q[1] \div q[2]) % Unit(q[1] \div q[2]) # 0

\* An integer past 64 bits, which reaches the encoder as a float (encode.rs:547-569); the
\* first or the last label of an Enum inside Nullable (encode.rs:975-989).
IsMissed(v, sense) ==
    \/ IsWide(v) /\ sense[1] = "num"
    \/ /\ sense[1] = "opt" /\ sense[2][1] = "enum" /\ v[1] = "str"
       /\ LET labels == sense[2][3] IN v[2][2] \in {labels[1][1], labels[Len(labels)][1]}
=============================================================================
