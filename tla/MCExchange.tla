----------------------------- MODULE MCExchange -----------------------------
(* Blocks of every family of column types, rows of JSON for every type the *)
(* encoder writes, and every packet, at the revisions around each gate.    *)
EXTENDS Exchange
LOCAL INSTANCE Functions

MCNumbers == {<<"v", 0>>, <<"v", 1>>}
MCWords  == {<<"v", <<>>>>, <<"v", <<"w">>>>}
MCArm(name, v) == <<"arm", name, v>>

MCU8   == <<"UInt8">>
MCI8   == <<"Int8">>
MCStr  == <<"String">>
MCNull(t)  == <<"Nullable", "(">> \o t \o <<")">>
MCLow(t)   == <<"LowCardinality", "(">> \o t \o <<")">>
MCArr(t)   == <<"Array", "(">> \o t \o <<")">>
MCTup(t, u) == <<"Tuple", "(">> \o t \o <<",">> \o u \o <<")">>
MCMap(t, u) == <<"Map", "(">> \o t \o <<",">> \o u \o <<")">>
MCVariant  == <<"Variant", "(", "Int8", ",", "Array", "(", "LowCardinality", "(", "String", ")",
                ")", ",", "String", ")">>

\* Sequences of up to two elements.
MCUpTo2(S) == {<<"seq", <<>>>>} \cup {<<"seq", <<a>>>> : a \in S}
                \cup {<<"seq", <<a, b>>>> : a, b \in S}
MCPairs(S, T) == {<<"seq", <<a, b>>>> : a \in S, b \in T}

MCInt    == MCArm(MCI8, <<"v", 1>>)
MCWord   == MCArm(MCStr, <<"v", <<"w">>>>)
MCList(t) == MCArm(t, <<"seq", <<<<"v", <<"w">>>>>>>>)
MCArms   == {Null, MCInt, MCList(MCArr(MCLow(MCStr))), MCWord}
MCDynamics == {Null, MCInt, MCList(MCArr(MCStr)), MCWord, <<"spilt", MCU8, <<"v", 1>>>>,
               MCArm(MCLow(MCStr), <<"v", <<"w">>>>)}
MCDocs   == {<<"paths", <<Null, Null, Null>>>>, <<"paths", <<MCInt, Null, MCWord>>>>,
             <<"paths", <<MCWord, <<"spilt", MCU8, <<"v", 0>>>>, Null>>>>}

MCColumns ==
    {[t |-> <<"Bool">>, vs |-> MCNumbers], [t |-> MCStr, vs |-> MCWords],
     [t |-> <<"Decimal", "(", "10", ",", "2", ")">>, vs |-> MCNumbers],
     [t |-> <<"FixedString", "(", "3", ")">>, vs |-> MCNumbers],
     [t |-> MCNull(MCStr), vs |-> MCWords \cup {Null}],
     [t |-> MCLow(MCStr), vs |-> MCWords],
     [t |-> MCArr(MCLow(MCStr)), vs |-> MCUpTo2(MCWords)],
     [t |-> MCMap(MCStr, MCLow(MCU8)), vs |-> MCUpTo2(MCPairs({<<"v", <<"w">>>>}, MCNumbers))],
     [t |-> MCTup(MCNull(MCU8), MCArr(MCU8)),
      vs |-> MCPairs({Null, <<"v", 1>>}, MCUpTo2({<<"v", 1>>}))],
     [t |-> <<"JSON">>, vs |-> MCDocs],
     [t |-> MCVariant, vs |-> MCArms],
     [t |-> MCTup(<<"JSON">>, MCU8), vs |-> MCPairs(MCDocs, {<<"v", 1>>})],
     [t |-> MCArr(<<"JSON">>), vs |-> {<<"seq", <<>>>>} \cup {<<"seq", <<d>>>> : d \in MCDocs}],
     \* Arrays with an element: a Variant of none is read as if none of its alternatives
     \* wrote anything, a dictionary of none as if it still wrote its flags.
     [t |-> MCArr(MCVariant), vs |-> MCUpTo2({Null, MCInt}) \ {<<"seq", <<>>>>}],
     [t |-> <<"Dynamic">>, vs |-> MCDynamics],
     [t |-> MCTup(<<"Dynamic">>, <<"Dynamic">>), vs |-> MCPairs(MCArms, {MCWord})],
     [t |-> MCArr(MCArr(MCArr(MCU8))),
      vs |-> {<<"seq", <<>>>>,
              <<"seq", <<<<"seq", <<>>>>, <<"seq", <<<<"seq", <<<<"v", 1>>>>>>>>>>>>>>}],
     [t |-> <<"SimpleAggregateFunction", "(", "sum", ",", "Nullable", "(", "Int64", ")", ")">>,
      vs |-> MCNumbers \cup {Null}],
     [t |-> <<"Point">>, vs |-> MCNumbers]}

\* Every column before a plain one, whose values tell whether the first was read to its end.
MCRows(c, ns) == UNION {[1..n -> {<<v, <<"v", 1>>>> : v \in c.vs}] : n \in ns}
MCBlocks ==
    UNION {{[types |-> <<c.t, MCU8>>, rows |-> rs] : rs \in MCRows(c, 1..2)} : c \in MCColumns}

\* The formats that make a difference to a type: the serialisations of JSON and of
\* Dynamic, the width of a dictionary's indices, or else whether scalars are sparse.
MCFormat(sparse, json, dynamic, index) ==
    [sparse |-> sparse, json |-> json, dynamic |-> dynamic, index |-> index]
MCFormats(t) ==
    CASE "JSON" \in Range(t) ->
             {MCFormat(FALSE, j, 2, 0) : j \in 0..4} \cup {MCFormat(FALSE, 2, 1, 0)}
      [] "Dynamic" \in Range(t) -> {MCFormat(FALSE, 1, d, 0) : d \in 1..3}
      [] "LowCardinality" \in Range(t) -> {MCFormat(FALSE, 1, 2, i) : i \in {0, 1, 3}}
      [] OTHER -> {MCFormat(s, 1, 2, 0) : s \in BOOLEAN}
MCBlock(packet, t, rs, f) == [packet |-> packet, types |-> <<t, MCU8>>, rows |-> rs, format |-> f]

\* Every column, NULL in a dictionary, and the other block packets.
MCResults ==
    UNION {{MCBlock("Data", c.t, rs, f) : rs \in MCRows(c, 0..2), f \in MCFormats(c.t)} :
              c \in MCColumns}
      \cup {MCBlock("Data", MCLow(MCNull(MCStr)),
                    <<<<Null, <<"v", 1>>>>, <<<<"v", <<>>>>, <<"v", 1>>>>>>, f) :
               f \in MCFormats(MCLow(MCStr))}
      \cup {MCBlock(p, MCNull(MCU8), rs, f) :
               p \in {"Totals", "Extremes", "Log", "ProfileEvents"},
               rs \in {<<>>, <<<<<<"v", 0>>, <<"v", 1>>>>, <<Null, <<"v", 1>>>>>>},
               f \in MCFormats(MCU8)}

MCBodies ==
    {<<>>} \cup {<<MCBlock("Data", MCStr, <<>>, f),
                  MCBlock("Data", MCNull(MCU8), <<<<Null, <<"v", 1>>>>>>, f),
                  MCBlock("Data", MCStr, <<<<<<"v", <<"w">>>>, <<"v", 0>>>>>>, f)>> :
                    f \in MCFormats(MCU8)}

-----------------------------------------------------------------------------
(* JSON rows.  The widths are those of MCBits.                             *)
MCBits == [w \in {1, 2, 4, 8, 16} |-> CASE w = 1 -> 3 [] w = 2 -> 8 [] w = 4 -> 16
                                          [] w = 8 -> 27 [] OTHER -> 29]
MCMantissa == 4 :> 11 @@ 8 :> 22
MCUns(w) == <<0, 2^MCBits[w] - 1>>
MCSig(w) == <<-(2^(MCBits[w] - 1)), 2^(MCBits[w] - 1) - 1>>
MCText(t) == <<"str", t>>

MCDateTimes ==
    {<<"datetime", <<1970, 1, 1>>, <<0, 0, 1>>, <<>>, "Z">>,
     <<"datetime", <<1970, 1, 1>>, <<18, 12, 15>>, <<9>>, "">>,
     <<"datetime", <<1970, 1, 1>>, <<18, 12, 16>>, <<0, 0, 7, 9>>, "+00:00">>,
     <<"datetime", <<1970, 1, 1>>, <<18, 38, 28>>, <<8, 6, 3>>, "">>,
     <<"datetime", <<1970, 1, 1>>, <<18, 38, 28>>, <<8, 6, 4>>, "">>,
     <<"datetime", <<1969, 12, 31>>, <<23, 59, 59>>, <<5>>, "">>,
     <<"datetime", <<1970, 1, 1>>, <<24, 0, 0>>, <<>>, "">>,
     <<"datetime", <<1970, 2, 29>>, <<0, 0, 0>>, <<>>, "">>,
     <<"datetime", <<1970, 1, 1>>, <<0, 0, 1>>, <<>>, "+01:00">>}
MCDates ==
    {<<"date", 1970, 1, 1>>, <<"date", 1970, 9, 13>>, <<"date", 1970, 9, 14>>,
     <<"date", 1969, 12, 31>>, <<"date", 2000, 2, 29>>, <<"date", 2001, 2, 29>>,
     <<"date", 1900, 3, 1>>, <<"date", 2059, 9, 19>>, <<"date", 1970, 13, 1>>}
MCIntegers == {-268435457, -67108865, -1555201, -1555200, -65537, -513, -5, -4, -1, 0, 1, 3, 4, 7,
               8, 255, 256, 328, 1025, 65519, 65520, 65535, 65536, 104976, 104977, 1889568,
               1889569, 34012224, 34012225, 67108863, 67108864, 134217727, 134217728, 268435455}
MCTexts == MCDateTimes \cup MCDates
    \cup {<<"word", w, 1>> : w \in {"a", "b", "c"}}
    \cup {<<"word", "", 0>>, <<"word", "yes", 3>>, <<"word", "long", 4>>}
    \cup {<<"digits", n>> : n \in {-1, 1, 8, 256, 65536, 2684354, 2684355, 268435456, 536870911}}
    \cup {<<"decimal", FALSE, 327, <<6, 7, 4>>>>, <<"decimal", FALSE, 327, <<6, 7, 5>>>>,
          <<"decimal", TRUE, 0, <<0, 0, 5>>>>, <<"decimal", TRUE, 327, <<6, 8>>>>,
          <<"decimal", FALSE, 1, <<5>>>>, <<"decimal", FALSE, 2684354, <<5, 6>>>>, <<"exp", 20>>, <<"exp", -7>>,
          <<"exp", 2684353>>, <<"exp", 16777217>>,
          <<"hex", 32, 9>>, <<"hex", 31, 9>>, <<"ipv4", 7>>, <<"ipv6", 9>>}
MCScalars == {<<"null">>, <<"bool", TRUE>>, <<"bool", FALSE>>}
    \cup {<<"int", n>> : n \in MCIntegers} \cup {<<"half", k>> : k \in {-2, 1, 3, 16, 510}}
    \cup {MCText(t) : t \in MCTexts}
MCComposites ==
    {<<"arr", <<>>>>, <<"arr", <<<<"int", 1>>, <<"null">>>>>>, <<"arr", <<<<"int", 8>>>>>>,
     <<"obj", <<>>>>, <<"obj", <<<<"k", <<"int", 1>>>>, <<"l", <<"null">>>>>>>>}

MCSenses ==
    {<<<<"UInt8">>, <<"num", MCUns(1)>>>>, <<<<"UInt16">>, <<"num", MCUns(2)>>>>,
     <<<<"UInt32">>, <<"num", MCUns(4)>>>>, <<<<"UInt64">>, <<"num", MCUns(8)>>>>,
     <<<<"UInt128">>, <<"num", MCUns(16)>>>>, <<<<"UInt256">>, <<"num", MCUns(16)>>>>,
     <<<<"Int8">>, <<"num", MCSig(1)>>>>, <<<<"Int16">>, <<"num", MCSig(2)>>>>,
     <<<<"Int32">>, <<"num", MCSig(4)>>>>, <<<<"Int64">>, <<"num", MCSig(8)>>>>,
     <<<<"Int128">>, <<"num", MCSig(16)>>>>, <<<<"Int256">>, <<"num", MCSig(16)>>>>,
     <<<<"Bool">>, <<"bool">>>>, <<<<"Float32">>, <<"float", <<-131008, 131008>>, 4>>>>,
     <<<<"Float64">>, <<"float", <<-(2^30), 2^30>>, 8>>>>,
     <<<<"Date">>, <<"days", MCUns(2)>>>>, <<<<"Date32">>, <<"days", MCSig(4)>>>>,
     <<<<"DateTime", "(", "'UTC'", ")">>, <<"secs", MCUns(4)>>>>,
     <<<<"DateTime64", "(", "3", ",", "'UTC'", ")">>, <<"ticks", MCSig(8), 3>>>>,
     <<<<"DateTime64", "(", "0", ")">>, <<"ticks", MCSig(8), 0>>>>,
     <<<<"Decimal", "(", "9", ",", "2", ")">>, <<"dec", MCSig(4), 2>>>>,
     <<<<"Decimal64", "(", "1", ")">>, <<"dec", MCSig(8), 1>>>>,
     <<<<"Decimal", "(", "38", ",", "2", ")">>, <<"dec", MCSig(16), 2>>>>,
     <<<<"Decimal", "(", "40", ",", "0", ")">>, <<"dec", MCSig(16), 0>>>>,
     <<<<"Enum8", "(", "'a' = 1", ",", "'b' = 2", ")">>,
       <<"enum", MCSig(1), <<<<"a", 1>>, <<"b", 2>>>>>>>>,
     <<<<"Nullable", "(", "Enum16", "(", "'a' = 1", ",", "'b' = 2", ",", "'c' = 3", ")", ")">>,
       <<"opt", <<"enum", MCSig(2), <<<<"a", 1>>, <<"b", 2>>, <<"c", 3>>>>>>>>>>,
     <<MCStr, <<"text">>>>, <<<<"FixedString", "(", "3", ")">>, <<"fixed", 3>>>>,
     <<<<"UUID">>, <<"uuid">>>>, <<<<"IPv4">>, <<"ipv4", MCUns(4)>>>>, <<<<"IPv6">>, <<"ipv6">>>>,
     <<<<"JSON">>, <<"json">>>>, <<<<"Point">>, <<"none">>>>, <<MCVariant, <<"none">>>>,
     <<MCTup(MCU8, MCU8), <<"none">>>>,
     <<MCNull(MCI8), <<"opt", <<"num", MCSig(1)>>>>>>, <<MCLow(MCStr), <<"text">>>>,
     <<MCLow(MCU8), <<"num", MCUns(1)>>>>,
     <<MCArr(MCNull(MCU8)), <<"list", <<"opt", <<"num", MCUns(1)>>>>>>>>,
     <<MCArr(MCArr(MCU8)), <<"list", <<"list", <<"num", MCUns(1)>>>>>>>>,
     <<MCMap(MCLow(MCStr), MCNull(MCU8)), <<"dict", <<"opt", <<"num", MCUns(1)>>>>>>>>,
     <<MCMap(MCU8, MCU8), <<"empty">>>>}

\* The value in one row, no value in the next, and a plain column behind.
MCTable(ts, doc, raw) ==
    [types |-> <<ts[1], MCU8>>, senses |-> <<ts[2], <<"num", MCUns(1)>>>>, raw |-> raw,
     rows |-> <<<<<<<<"x">>, doc>>, <<<<"y">>, <<"int", 1>>>>>>, <<<<<<"y">>, <<"int", 7>>>>>>>>]
MCTables ==
    {MCTable(ts, doc, <<>>) : ts \in MCSenses, doc \in MCScalars \cup MCComposites}
      \cup {MCTable(ts, <<"int", 1>>, <<<<"x">>, <<"raw">>>>) :
              ts \in {<<<<"JSON">>, <<"json">>>>, <<MCNull(MCStr), <<"opt", <<"text">>>>>>}}

-----------------------------------------------------------------------------
MCPackets ==
    {[packet |-> "Exception", code |-> 60, name |-> <<"DB">>, message |-> <<"no">>, stack |-> <<>>],
     [packet |-> "Progress", rows |-> 1, bytes |-> 2, total |-> 3, written |-> <<4, 5>>],
     [packet |-> "ProfileInfo", rows |-> 1, blocks |-> 2, bytes |-> 3, applied |-> TRUE,
      before |-> 4],
     [packet |-> "Pong"], [packet |-> "EndOfStream"],
     [packet |-> "TableColumns", table |-> <<>>, columns |-> <<"ddl">>],
     [packet |-> "TimezoneUpdate", timezone |-> <<"UTC">>]}

MCHellos ==
    {[name |-> <<"server">>, version |-> <<25, 3, 2>>, rules |-> rules, database |-> <<"db">>,
      user |-> <<"u">>, password |-> <<>>, quota |-> <<"q">>] :
        rules \in {<<>>, <<<<"rule">>, <<"rule">>>>}}

MCQueries ==
    {[id |-> <<"id">>, text |-> <<"SELECT">>, quota |-> <<"q">>, settings |-> settings,
      params |-> params] :
        settings \in {<<>>, <<<<<<"s">>, <<"1">>>>>>, <<<<<<"s">>, <<"1">>>>, <<<<"t">>, <<>>>>>>},
        params \in {<<>>, <<<<<<"p">>, <<"2">>>>>>}}

MCMessages ==
    [m \in {"block", "result", "body", "packet", "client hello", "query", "request", "table"} |->
        CASE m = "block" -> MCBlocks
          [] m = "result" -> MCResults
          [] m = "body" -> MCBodies
          [] m = "packet" -> MCPackets
          [] m = "client hello" -> MCHellos
          [] m = "query" -> MCQueries
          [] m = "request" -> {"Ping", "Cancel"}
          [] m = "table" -> MCTables]

\* Each gate, the revision before it, and one the client does not know.
MCGates ==
    {51554, 51903, 54032, 54058, 54060, 54372, 54401, 54420, 54429, 54441, 54442, 54448, 54449,
     54453, 54454, 54458, 54459, 54460, 54461, 54462, 54463, 54469, 54470, 54471, 54472, 54473}
MCRevisions ==
    [m \in DOMAIN MCMessages |->
        CASE m \in {"block", "result"} -> {54453, 54484}
          [] m \in {"body", "table"} -> {54473}
          [] OTHER -> MCGates \cup {g - 1 : g \in MCGates} \cup {54484}]

\* An INSERT into a nullable dictionary column: a NULL and a value of each kind.
MCNullableDictionary ==
    [m \in {"block"} |->
        {[types |-> <<MCLow(MCNull(MCStr)), MCU8>>, rows |-> rs] :
            rs \in MCRows([vs |-> MCWords \cup {Null}], 1..2)}]
=============================================================================
