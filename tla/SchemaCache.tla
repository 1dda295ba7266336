---------------------------- MODULE SchemaCache -----------------------------
(***************************************************************************)
(* The schema of one table as the HTTP inserts see it: each DynamicInsert  *)
(* takes it from the shared DynamicSchemaCache or fetches it from          *)
(* system.columns, fixes its columns with the first row, and invalidates   *)
(* the cache when end() fails with a schema mismatch.  Meanwhile the table *)
(* is altered.  A schema is the number of CREATE and ALTERs it has seen.   *)
(***************************************************************************)
EXTENDS Naturals

CONSTANTS
    Inserts,     \* tasks that each run one DynamicInsert after the other
    MaxAlters    \* bound: ALTERs of the table

ASSUME SchemaCacheAssumption == MaxAlters \in Nat

VARIABLES
    table,     \* the table's columns on the server
    entry,     \* DynamicSchemaCache: the CacheEntry of the table
    ins,       \* ins[i]: the DynamicInsert of task i
    floor      \* history: the oldest schema read from the server, or yet to be
               \* read, that was not stored at the last invalidation

vars == <<table, entry, ins, floor>>

Version == 1..(MaxAlters + 1)
None == 0
NoEntry == [schema |-> None, fresh |-> FALSE]

\* pc: between calls, waiting for the server in fetch_dynamic_schema, or with
\* its answer; columns: those of the open sink.
Insert == [pc : {"idle", "fetching", "answered"}, schema : Version \cup {None},
           answer : Version \cup {None}, columns : Version \cup {None}]
New == [pc |-> "idle", schema |-> None, answer |-> None, columns |-> None]

\* The shape of the state.
TypeOK ==
    /\ table \in Version
    /\ entry \in [schema : Version \cup {None}, fresh : BOOLEAN]
    /\ ins \in [Inserts -> Insert]
    /\ \A i \in Inserts : ins[i].pc = "answered" <=> ins[i].answer # None
    /\ floor \in Version

Init ==
    /\ table = 1
    /\ entry = NoEntry
    /\ ins = [i \in Inserts |-> New]
    /\ floor = 1

-----------------------------------------------------------------------------

\* ensure_schema is through with v: ensure_active fixes the columns, unless the
\* sink is open already or the row has none of the table's columns.
Loaded(i, v) ==
    \E fixed \in IF ins[i].columns = None THEN {None, v} ELSE {ins[i].columns} :
        ins' = [ins EXCEPT ![i] = [pc |-> "idle", schema |-> v, answer |-> None,
                                   columns |-> fixed]]

\* write(): the cache has a fresh schema ...
Hit(i) ==
    /\ ins[i].pc = "idle" /\ ins[i].schema = None
    /\ entry.fresh
    /\ Loaded(i, entry.schema)
    /\ UNCHANGED <<table, entry, floor>>

\* ... or has none, and system.columns is read.
Miss(i) ==
    /\ ins[i].pc = "idle" /\ ins[i].schema = None
    /\ ~entry.fresh
    /\ ins' = [ins EXCEPT ![i].pc = "fetching"]
    /\ UNCHANGED <<table, entry, floor>>
Answered(i) ==
    /\ ins[i].pc = "fetching"
    /\ ins' = [ins EXCEPT ![i].pc = "answered", ![i].answer = table]
    /\ UNCHANGED <<table, entry, floor>>
Fetched(i) ==
    /\ ins[i].pc = "answered"
    /\ entry' = [schema |-> ins[i].answer, fresh |-> TRUE]
    /\ Loaded(i, ins[i].answer)
    /\ UNCHANGED <<table, floor>>

\* write() after one whose row had no columns: the schema is still held.
Open(i) ==
    /\ ins[i].pc = "idle" /\ ins[i].schema # None /\ ins[i].columns = None
    /\ ins' = [ins EXCEPT ![i].columns = ins[i].schema]
    /\ UNCHANGED <<table, entry, floor>>

\* Defect: the answer of an abandoned fetch is kept.
FetchFailsKeeps(i) ==
    /\ ins[i].pc # "idle"
    /\ ins' = [ins EXCEPT ![i].pc = "idle"]
    /\ UNCHANGED <<table, entry, floor>>

\* The fetch failed, or write() was cancelled.
FetchFails(i) ==
    /\ ins[i].pc # "idle"
    /\ ins' = [ins EXCEPT ![i].pc = "idle", ![i].answer = None]
    /\ UNCHANGED <<table, entry, floor>>

\* end() consumes the insert: nothing was sent, or the server takes the rows (with
\* columns of the past only if they still fit), or the transport fails; or it is
\* dropped.  The cache stays.
End(i) ==
    /\ ins[i].pc = "idle"
    /\ ins' = [ins EXCEPT ![i] = New]
    /\ UNCHANGED <<table, entry, floor>>

\* cache.invalidate(): from now on the schemas of the table, and those of fetches
\* that have their answer, can be stored.
Current == {table} \cup {ins[i].answer : i \in {i \in Inserts : ins[i].pc = "answered"}}
Oldest == floor' \in {v \in Current : \A w \in Current : v <= w}
Invalidate ==
    /\ entry' = NoEntry
    /\ Oldest

\* Defect: the mismatch is reported and the entry kept.
EndMismatchKeeps(i) ==
    /\ ins[i].pc = "idle" /\ ins[i].columns # None
    /\ ins' = [ins EXCEPT ![i] = New]
    /\ Oldest
    /\ UNCHANGED <<table, entry>>

\* end() fails with a code of SCHEMA_DRIFT_CODES, which a row that does not
\* parse gives too.
EndMismatch(i) ==
    /\ ins[i].pc = "idle" /\ ins[i].columns # None
    /\ ins' = [ins EXCEPT ![i] = New]
    /\ Invalidate
    /\ UNCHANGED table

\* Defect: the insert forgets its own schema and leaves the cache alone.
InvalidateSchemaKeeps(i) ==
    /\ ins[i].pc = "idle"
    /\ ins' = [ins EXCEPT ![i].schema = None]
    /\ Oldest
    /\ UNCHANGED <<table, entry>>

\* invalidate_schema(): the sink, if it is open, keeps its columns.
InvalidateSchema(i) ==
    /\ ins[i].pc = "idle"
    /\ ins' = [ins EXCEPT ![i].schema = None]
    /\ Invalidate
    /\ UNCHANGED table

\* The ttl has passed.
Expire ==
    /\ entry.fresh
    /\ entry' = [entry EXCEPT !.fresh = FALSE]
    /\ UNCHANGED <<table, ins, floor>>

\* Somebody alters the table.
Alter ==
    /\ table <= MaxAlters
    /\ table' = table + 1
    /\ UNCHANGED <<entry, ins, floor>>

-----------------------------------------------------------------------------

Step(i) ==
    Hit(i) \/ Miss(i) \/ Answered(i) \/ Fetched(i) \/ Open(i) \/ End(i) \/ EndMismatch(i)

Next ==
    \/ \E i \in Inserts : Step(i) \/ FetchFails(i) \/ InvalidateSchema(i)
    \/ Expire \/ Alter

Spec == Init /\ [][Next]_vars

\* An insert whose columns do not fit the table is refused for it eventually:
\* a transport that fails each time would never let anybody know.  Nothing is
\* assumed of the ttl.
Fairness == \A i \in Inserts :
    /\ WF_vars(Step(i))
    /\ SF_vars(EndMismatch(i) /\ ins[i].columns # table)

FairSpec == Spec /\ Fairness

-----------------------------------------------------------------------------
(* Properties *)

\* The cache serves nothing from before an invalidation, but for the one thing
\* that cannot be helped without holding its lock over the fetch: what a fetch
\* had already been answered.  Whatever schema an insert takes on afterwards is
\* at least as new as the table was then, or as the oldest such answer
\* ("invalidates the cached schema so the next insert re-fetches").
Refetches == [][\A i \in Inserts :
    ins'[i].schema \in {None, ins[i].schema} \/ floor <= ins'[i].schema]_vars

\* The inserts recover from an ALTER without waiting for the ttl: whatever
\* stale fetches were under way, from some time on every insert opens with the
\* table's columns.
Recovers == <>[](\A i \in Inserts : ins[i].columns \in {None, table})

\* The inductive invariant from which Refetches follows: the cache and the
\* answers under way are not older than floor, floor and the answers are not ahead
\* of the table, a fresh entry has a schema, and nobody fetches what it holds.
CacheInv ==
    /\ TypeOK
    /\ floor <= table
    /\ entry.fresh => floor <= entry.schema
    /\ \A i \in Inserts :
        /\ ins[i].pc = "answered" => floor <= ins[i].answer /\ ins[i].answer <= table
        /\ ins[i].pc # "idle" => ins[i].schema = None
=============================================================================
