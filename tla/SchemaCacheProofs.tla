-------------------------- MODULE SchemaCacheProofs --------------------------
(***************************************************************************)
(* The cache never serves, after an invalidation, a schema older than what *)
(* was then being fetched: for any set of inserts, any number of ALTERs    *)
(* and every order of fetches, refusals and expiries.                      *)
(***************************************************************************)
EXTENDS SchemaCache, TLAPS

LEMMA VersionFact == Version \subseteq Nat /\ None \notin Version /\ 1 \in Version
  BY SchemaCacheAssumption DEF Version, None

\* A fresh entry, and an answer, is a schema at or above the floor.
LEMMA ServedFacts ==
  ASSUME CacheInv
  PROVE  /\ entry.fresh => entry.schema \in Version /\ floor <= entry.schema
         /\ \A i \in Inserts : ins[i].pc = "answered" =>
               ins[i].answer \in Version /\ floor <= ins[i].answer
<1>1. ASSUME entry.fresh PROVE entry.schema \in Version /\ floor <= entry.schema
  <2>1. entry.schema \in Version \cup {None}
    BY DEF CacheInv, TypeOK
  <2>2. floor <= entry.schema /\ floor \in Version
    BY <1>1, Zenon DEF CacheInv, TypeOK
  <2> QED
    BY <2>1, <2>2, VersionFact, SMT DEF None
<1>2. ASSUME NEW i \in Inserts, ins[i].pc = "answered"
      PROVE  ins[i].answer \in Version /\ floor <= ins[i].answer
  BY <1>2 DEF CacheInv, TypeOK, Insert
<1> QED
  BY <1>1, <1>2, Zenon

LEMMA InitCache == Init => CacheInv
  BY VersionFact DEF Init, CacheInv, TypeOK, NoEntry, New, Insert

\* An insert that is through with a schema is idle, and holds that schema.
LEMMA LoadedFacts ==
  ASSUME CacheInv, NEW i \in Inserts, NEW v \in Version, Loaded(i, v)
  PROVE  \E r \in Insert : /\ ins' = [ins EXCEPT ![i] = r]
                           /\ r.pc = "idle" /\ r.answer = None /\ r.schema = v
<1>1. ins[i] \in Insert
  BY Zenon DEF CacheInv, TypeOK
<1>2. ins[i].columns \in Version \cup {None}
  BY <1>1, SMT DEF Insert
<1>3. PICK fixed \in Version \cup {None} :
        ins' = [ins EXCEPT ![i] = [pc |-> "idle", schema |-> v, answer |-> None,
                                   columns |-> fixed]]
  BY <1>2, Zenon DEF Loaded
<1>4. [pc |-> "idle", schema |-> v, answer |-> None, columns |-> fixed] \in Insert
  BY SMT DEF Insert
<1>5. PICK r \in Insert : r = [pc |-> "idle", schema |-> v, answer |-> None, columns |-> fixed]
  BY <1>4, Zenon
<1>6. r.pc = "idle" /\ r.answer = None /\ r.schema = v
  BY <1>5, Zenon
<1> QED
  BY <1>3, <1>5, <1>6, Zenon

\* An invalidation raises the floor to what may be stored from then on.
LEMMA OldestFacts ==
  ASSUME CacheInv, Oldest
  PROVE  /\ floor' \in Version /\ floor' <= table
         /\ \A i \in Inserts : ins[i].pc = "answered" => floor' <= ins[i].answer
<1>1. PICK v \in Current : floor' = v /\ \A w \in Current : v <= w
  BY DEF Oldest
<1>2. table \in Current /\ \A i \in Inserts : ins[i].pc = "answered" => ins[i].answer \in Current
  BY Zenon DEF Current
<1>3. ASSUME NEW i \in Inserts, ins[i].pc = "answered" PROVE ins[i].answer \in Version
  BY <1>3 DEF CacheInv, TypeOK, Insert
<1>4. Current \subseteq Version
  <2>1. table \in Version
    BY Zenon DEF CacheInv, TypeOK
  <2> QED
    BY <1>3, <2>1, Zenon DEF Current
<1> QED
  BY <1>1, <1>2, <1>4, Zenon

\* One insert moves to r, and what the cache serves stays at or above the floor.
LEMMA StepKeeps ==
  ASSUME CacheInv, NEW i \in Inserts, NEW r \in Insert, ins' = [ins EXCEPT ![i] = r],
         table' = table, floor' \in Version, floor' <= table,
         entry' \in [schema : Version \cup {None}, fresh : BOOLEAN],
         entry'.fresh => floor' <= entry'.schema,
         \A j \in Inserts : ins[j].pc = "answered" => floor' <= ins[j].answer,
         r.pc = "answered" <=> r.answer # None,
         r.pc = "answered" => floor' <= r.answer /\ r.answer <= table,
         r.pc # "idle" => r.schema = None
  PROVE  CacheInv'
<1>1. ins \in [Inserts -> Insert]
  BY Zenon DEF CacheInv, TypeOK
<1>2. ins' \in [Inserts -> Insert] /\ ins'[i] = r /\ \A j \in Inserts \ {i} : ins'[j] = ins[j]
  BY <1>1, SMT
<1>3. ASSUME NEW j \in Inserts
      PROVE  /\ ins'[j].pc = "answered" <=> ins'[j].answer # None
             /\ ins'[j].pc = "answered" => floor' <= ins'[j].answer /\ ins'[j].answer <= table
             /\ ins'[j].pc # "idle" => ins'[j].schema = None
  <2>1. CASE j = i
    BY <1>2, <2>1, Zenon
  <2>2. CASE j # i
    BY <1>2, <2>2, Zenon DEF CacheInv, TypeOK
  <2> QED
    BY <2>1, <2>2, Zenon
<1> QED
  BY <1>2, <1>3, Zenon DEF CacheInv, TypeOK

\* Such a step that leaves the cache and the floor alone.
LEMMA InsertStep ==
  ASSUME CacheInv, NEW i \in Inserts, NEW r \in Insert, ins' = [ins EXCEPT ![i] = r],
         UNCHANGED <<table, entry, floor>>,
         r.pc = "answered" <=> r.answer # None,
         r.pc = "answered" => floor <= r.answer /\ r.answer <= table,
         r.pc # "idle" => r.schema = None
  PROVE  CacheInv'
<1>1. /\ floor \in Version /\ floor <= table
      /\ entry \in [schema : Version \cup {None}, fresh : BOOLEAN]
      /\ entry.fresh => floor <= entry.schema
      /\ \A j \in Inserts : ins[j].pc = "answered" => floor <= ins[j].answer
  BY Zenon DEF CacheInv, TypeOK
<1> QED
  BY <1>1, StepKeeps, Zenon

\* The fields of an insert after one of them was set.
LEMMA SetPc ==
  ASSUME NEW q \in Insert, NEW p \in {"idle", "fetching", "answered"}
  PROVE  LET r == [q EXCEPT !.pc = p] IN
         r \in Insert /\ r.pc = p /\ r.answer = q.answer /\ r.schema = q.schema
  BY SMT DEF Insert

LEMMA SetAnswer ==
  ASSUME NEW q \in Insert, NEW v \in Version \cup {None}
  PROVE  LET r == [q EXCEPT !.answer = v] IN
         r \in Insert /\ r.pc = q.pc /\ r.answer = v /\ r.schema = q.schema
  BY SMT DEF Insert

LEMMA SetSchema ==
  ASSUME NEW q \in Insert, NEW v \in Version \cup {None}
  PROVE  LET r == [q EXCEPT !.schema = v] IN
         r \in Insert /\ r.pc = q.pc /\ r.answer = q.answer /\ r.schema = v
  BY SMT DEF Insert

LEMMA SetColumns ==
  ASSUME NEW q \in Insert, NEW v \in Version \cup {None}
  PROVE  LET r == [q EXCEPT !.columns = v] IN
         r \in Insert /\ r.pc = q.pc /\ r.answer = q.answer /\ r.schema = q.schema
  BY SMT DEF Insert

LEMMA NextCache == CacheInv /\ [Next]_vars => CacheInv'
<1> SUFFICES ASSUME CacheInv, [Next]_vars PROVE CacheInv'
  OBVIOUS
<1>1. \A i \in Inserts : ins[i] \in Insert
  BY Zenon DEF CacheInv, TypeOK
<1>2. \A i \in Inserts : (ins[i].pc = "answered" <=> ins[i].answer # None)
                     /\ (ins[i].pc # "idle" => ins[i].schema = None)
  BY Zenon DEF CacheInv, TypeOK
<1>3. ASSUME NEW i \in Inserts, Hit(i) PROVE CacheInv'
  <2>1. entry.schema \in Version
    BY <1>3, ServedFacts, Zenon DEF Hit
  <2>2. PICK r \in Insert : ins' = [ins EXCEPT ![i] = r] /\ r.pc = "idle" /\ r.answer = None
    BY <1>3, <2>1, LoadedFacts, Zenon DEF Hit
  <2> QED
    BY <1>3, <2>2, InsertStep, Zenon DEF Hit
<1>4. ASSUME NEW i \in Inserts, Miss(i) PROVE CacheInv'
  <2> DEFINE r == [ins[i] EXCEPT !.pc = "fetching"]
  <2>1. r \in Insert /\ r.pc = "fetching" /\ r.answer = ins[i].answer /\ r.schema = ins[i].schema
    BY <1>1, SetPc, Zenon
  <2>2. r.answer = None /\ r.schema = None
    BY <1>2, <1>4, <2>1, Zenon DEF Miss
  <2>3. ins' = [ins EXCEPT ![i] = r]
    BY <1>4, Zenon DEF Miss
  <2> HIDE DEF r
  <2> QED
    BY <1>4, <2>1, <2>2, <2>3, InsertStep, Zenon DEF Miss
<1>5. ASSUME NEW i \in Inserts, Answered(i) PROVE CacheInv'
  <2> DEFINE q == [ins[i] EXCEPT !.pc = "answered"]
             r == [q EXCEPT !.answer = table]
  <2>1. table \in Version /\ floor <= table /\ table <= table /\ table # None
    BY VersionFact, SMT DEF CacheInv, TypeOK
  <2>2. q \in Insert /\ q.pc = "answered" /\ q.schema = ins[i].schema
    BY <1>1, SetPc, Zenon
  <2>3. r \in Insert /\ r.pc = "answered" /\ r.answer = table /\ r.schema = None
    <3>1. q.schema = None /\ table \in Version \cup {None}
      BY <1>2, <1>5, <2>1, <2>2, Zenon DEF Answered
    <3> HIDE DEF q
    <3> QED
      BY <2>2, <3>1, SetAnswer, Zenon
  <2>4. ins' = [ins EXCEPT ![i] = r]
    BY <1>5, Zenon DEF Answered
  <2> HIDE DEF r
  <2> QED
    BY <1>5, <2>1, <2>3, <2>4, InsertStep, Zenon DEF Answered
<1>6. ASSUME NEW i \in Inserts, Fetched(i) PROVE CacheInv'
  <2>1. ins[i].answer \in Version /\ floor <= ins[i].answer
    BY <1>6, ServedFacts, Zenon DEF Fetched
  <2>2. PICK r \in Insert : /\ ins' = [ins EXCEPT ![i] = r]
                            /\ r.pc = "idle" /\ r.answer = None /\ r.schema = ins[i].answer
    <3>1. Loaded(i, ins[i].answer)
      BY <1>6, Zenon DEF Fetched
    <3> QED
      BY <2>1, <3>1, LoadedFacts, Zenon
  <2>3. /\ entry' \in [schema : Version \cup {None}, fresh : BOOLEAN]
        /\ floor <= entry'.schema
    BY <1>6, <2>1 DEF Fetched
  <2>4. /\ floor \in Version /\ floor <= table
        /\ \A j \in Inserts : ins[j].pc = "answered" => floor <= ins[j].answer
    BY Zenon DEF CacheInv, TypeOK
  <2>5. table' = table /\ floor' = floor
    BY <1>6, Zenon DEF Fetched
  <2> QED
    BY <2>2, <2>3, <2>4, <2>5, StepKeeps, Zenon
<1>7. ASSUME NEW i \in Inserts, Open(i) PROVE CacheInv'
  <2> DEFINE r == [ins[i] EXCEPT !.columns = ins[i].schema]
  <2>1. ins[i].schema \in Version \cup {None}
    BY <1>1, SMT DEF Insert
  <2>2. r \in Insert /\ r.pc = ins[i].pc /\ r.answer = ins[i].answer /\ r.schema = ins[i].schema
    BY <1>1, <2>1, SetColumns, Zenon
  <2>3. r.pc = "idle" /\ r.answer = None
    BY <1>2, <1>7, <2>2, Zenon DEF Open
  <2>4. ins' = [ins EXCEPT ![i] = r]
    BY <1>7, Zenon DEF Open
  <2> HIDE DEF r
  <2> QED
    BY <1>7, <2>2, <2>3, <2>4, InsertStep, Zenon DEF Open
<1>8. ASSUME NEW i \in Inserts, FetchFails(i) PROVE CacheInv'
  <2> DEFINE q == [ins[i] EXCEPT !.pc = "idle"]
             r == [q EXCEPT !.answer = None]
  <2>1. q \in Insert /\ q.pc = "idle"
    BY <1>1, SetPc, Zenon
  <2>2. r \in Insert /\ r.pc = "idle" /\ r.answer = None
    <3>1. None \in Version \cup {None}
      BY Zenon
    <3> HIDE DEF q
    <3> QED
      BY <2>1, <3>1, SetAnswer, Zenon
  <2>3. ins' = [ins EXCEPT ![i] = r]
    BY <1>8, Zenon DEF FetchFails
  <2> HIDE DEF r
  <2> QED
    BY <1>8, <2>2, <2>3, InsertStep, Zenon DEF FetchFails
<1>9. New \in Insert /\ New.pc = "idle" /\ New.answer = None
  BY SMT DEF New, Insert
<1>10. ASSUME NEW i \in Inserts, End(i) PROVE CacheInv'
  BY <1>9, <1>10, InsertStep, Zenon DEF End
<1>11. ASSUME NEW i \in Inserts, NEW r \in Insert, ins' = [ins EXCEPT ![i] = r],
              r.pc = "idle", r.answer = None, Invalidate, table' = table
       PROVE  CacheInv'
  <2>1. /\ floor' \in Version /\ floor' <= table
        /\ \A j \in Inserts : ins[j].pc = "answered" => floor' <= ins[j].answer
    BY <1>11, OldestFacts, Zenon DEF Invalidate
  <2>2. NoEntry \in [schema : Version \cup {None}, fresh : BOOLEAN] /\ ~NoEntry.fresh
    BY SMT DEF NoEntry
  <2>3. entry' = NoEntry
    BY <1>11, Zenon DEF Invalidate
  <2> QED
    BY <1>11, <2>1, <2>2, <2>3, StepKeeps, Zenon
<1>12. ASSUME NEW i \in Inserts, EndMismatch(i) PROVE CacheInv'
  BY <1>9, <1>11, <1>12, Zenon DEF EndMismatch
<1>13. ASSUME NEW i \in Inserts, InvalidateSchema(i) PROVE CacheInv'
  <2> DEFINE r == [ins[i] EXCEPT !.schema = None]
  <2>1. r \in Insert /\ r.pc = ins[i].pc /\ r.answer = ins[i].answer
    <3>1. None \in Version \cup {None}
      BY Zenon
    <3> QED
      BY <1>1, <3>1, SetSchema, Zenon
  <2>2. r.pc = "idle" /\ r.answer = None
    BY <1>2, <1>13, <2>1, Zenon DEF InvalidateSchema
  <2>3. ins' = [ins EXCEPT ![i] = r]
    BY <1>13, Zenon DEF InvalidateSchema
  <2> HIDE DEF r
  <2> QED
    BY <1>11, <1>13, <2>1, <2>2, <2>3, Zenon DEF InvalidateSchema
<1>14. ASSUME Expire PROVE CacheInv'
  <2>1. entry' \in [schema : Version \cup {None}, fresh : BOOLEAN] /\ ~entry'.fresh
    BY <1>14, Zenon DEF Expire, CacheInv, TypeOK
  <2> QED
    BY <1>14, <2>1, Zenon DEF Expire, CacheInv, TypeOK
<1>15. ASSUME Alter PROVE CacheInv'
  <2>1. table' \in Version /\ table <= table'
    BY <1>15, SchemaCacheAssumption, SMT DEF Alter, CacheInv, TypeOK, Version
  <2>2. floor <= table'
    BY <2>1, VersionFact, SMT DEF CacheInv, TypeOK
  <2>3. ASSUME NEW i \in Inserts, ins[i].pc = "answered" PROVE ins[i].answer <= table'
    <3>1. ins[i].answer \in Version /\ ins[i].answer <= table /\ table \in Version
      BY <2>3, ServedFacts, Zenon DEF CacheInv, TypeOK
    <3>2. ins[i].answer \in Nat /\ table \in Nat /\ table' \in Nat
      BY <2>1, <3>1, VersionFact, Zenon
    <3> QED
      BY <2>1, <3>1, <3>2, SMT
  <2> QED
    BY <1>15, <2>1, <2>2, <2>3, Zenon DEF Alter, CacheInv, TypeOK
<1>16. ASSUME UNCHANGED vars PROVE CacheInv'
  BY <1>16, Zenon DEF vars, CacheInv, TypeOK
<1> QED
  BY <1>3, <1>4, <1>5, <1>6, <1>7, <1>8, <1>10, <1>12, <1>13, <1>14, <1>15, <1>16, Zenon
     DEF Next, Step

\* The cache and the fetches under way hold nothing older than what could be
\* fetched at the last invalidation, and nothing the table never had: what get,
\* insert and invalidate of DynamicSchemaCache keep true between them.
THEOREM CacheInvariant == Spec => []CacheInv
<1> QED
  BY InitCache, NextCache, PTL DEF Spec

\* The only steps that give an insert a schema are a hit and an answered fetch.
LEMMA TakesCurrent ==
  ASSUME CacheInv, [Next]_vars, NEW i \in Inserts
  PROVE  ins'[i].schema \in {None, ins[i].schema} \/ floor <= ins'[i].schema
<1>1. ASSUME NEW j \in Inserts, Hit(j) \/ Fetched(j)
      PROVE  ins'[i].schema \in {None, ins[i].schema} \/ floor <= ins'[i].schema
  <2>1. PICK v \in Version : Loaded(j, v) /\ floor <= v
    BY <1>1, ServedFacts, Zenon DEF Hit, Fetched
  <2>2. PICK r \in Insert : /\ ins' = [ins EXCEPT ![j] = r]
                            /\ r.pc = "idle" /\ r.answer = None /\ r.schema = v
    BY <2>1, LoadedFacts, Zenon
  <2>3. ins'[i] = IF i = j THEN r ELSE ins[i]
    BY <2>2, Zenon DEF CacheInv, TypeOK
  <2> QED
    BY <2>1, <2>2, <2>3, Zenon
<1>2. ASSUME NEW j \in Inserts,
             Miss(j) \/ Answered(j) \/ Open(j) \/ FetchFails(j) \/ InvalidateSchema(j)
      PROVE  ins'[i].schema \in {None, ins[i].schema}
  BY <1>2 DEF Miss, Answered, Open, FetchFails, InvalidateSchema, CacheInv, TypeOK, Insert
<1>3. ASSUME NEW j \in Inserts, End(j) \/ EndMismatch(j)
      PROVE  ins'[i].schema \in {None, ins[i].schema}
  BY <1>3 DEF End, EndMismatch, New, CacheInv, TypeOK, Insert
<1>4. ASSUME Expire \/ Alter \/ UNCHANGED vars PROVE ins'[i].schema = ins[i].schema
  BY <1>4 DEF Expire, Alter, vars
<1> QED
  BY <1>1, <1>2, <1>3, <1>4 DEF Next, Step

\* After invalidate_schema, or an end() that failed with a schema mismatch, no
\* insert of the process takes on a schema older than the table was then, except
\* one that a fetch of ensure_schema was already holding.
THEOREM InsertsRefetch == Spec => Refetches
<1>1. CacheInv /\ [Next]_vars =>
        [\A i \in Inserts : ins'[i].schema \in {None, ins[i].schema} \/ floor <= ins'[i].schema]_vars
  BY TakesCurrent
<1> QED
  BY <1>1, CacheInvariant, PTL DEF Spec, Refetches

==============================================================================
