# Verification of dfe-clickhouse

TLA+ models of the crate, model-checked with TLC on small instances, with
theorems checked by TLAPS for every instance. Paths below are relative to the
repository root.

## The system

The crate adds layers beside the official HTTP client. The one with the hard
concurrency is the native TCP transport:

| Part | Source | What it does | State and concurrency |
|---|---|---|---|
| connection handle | `src/tcp/connection_actor.rs` 205-465 | async methods; each makes a reply channel, queues a command and waits | any number of clones in any task; a call may be dropped at any await |
| connection actor | `src/tcp/connection_actor.rs` 520-1334 | one task per connection; owns the write half; runs one command at a time | `ActorState`, the poison flag, the packet channel |
| reader sub-task | `src/tcp/connection_actor.rs` 1376-1398, `src/tcp/reader.rs` | owns the read half; decodes packets into a bounded channel | sets the poison flag from its own task |
| command worker | `src/worker.rs` | generic loop: shutdown signal first, then commands | bounded command channel, shutdown oneshot, join handle |
| cursor | `src/tcp/cursor.rs` | the consumer of a streaming SELECT | bounded results channel |
| writer, protocol | `src/tcp/writer.rs`, `src/tcp/protocol.rs` | packet layouts, gated by server revision | none |
| pool | `src/tcp/pool.rs` | deadpool manager: create with endpoint failover, recycle | round-robin counter, slots |
| retry | `src/tcp/retry.rs` | which failures are replayed, how often | attempt counter |
| TCP client, INSERT session | `src/tcp/client.rs`, `src/tcp/client_ext.rs`, `src/tcp/query.rs` | acquire, run, release; poison on abandonment | one pooled connection per session |
| handshake, connect | `src/tcp/handshake.rs`, `src/tcp/connect.rs`, `src/tcp/client_info.rs` | Hello exchange, revision negotiation | sequential |
| schema cache | `src/dynamic/schema.rs` | TTL cache of table schemas | shared map; the fetch is outside the lock |
| dynamic insert | `src/dynamic/insert.rs` | buffers rows, flushes blocks, invalidates the schema on a mismatch | buffers reused across awaits |
| encoder, type parser | `src/dynamic/encode.rs`, `src/dynamic/parsed_type.rs` | JSON value to typed column; ClickHouse type grammar | pure |
| native codec | `src/native/` | varints, columns, sparse and LowCardinality layouts | pure |
| unified client | `src/unified.rs` | dispatch enum over both transports | none of its own |
| ext, error, tls, transport | `src/ext.rs`, `src/error.rs`, `src/tls.rs`, `src/tcp/transport.rs` | wrappers over the HTTP client, rustls and tokio | none |

The native protocol has no request identifiers: a response belongs to a request
only by its position in the stream. So the crate's central obligation is that
the stream pointer is clean whenever a connection is used for the next
statement, whatever was cancelled, timed out, rejected or lost before. That is
what the core model is about. Around it stand five smaller models: who keeps a
connection alive, what an INSERT through it stores, where the schema of an
INSERT comes from, how a connection is opened, and how calls share a pool of
them. What is on the stream, packet by packet and column by column, is a family
of modules of its own, put together in `Exchange`.

## Modules

| Module | Contents |
|---|---|
| `Connection` | one connection: callers, command queue, actor, reader, both directions of the socket, the server |
| `ConnectionInvariant` | the inductive invariant `IInv`, in three layers |
| `MCConnection`, `MCPool` | symmetry for TLC |
| `ConnectionTypeProofs` | layer 1 (shape) is inductive; `TypeCorrect` |
| `ConnectionDelivery` | the invariant `Delivery`: four more layers, on what reaches the server and the cursor |
| `ConnectionProofs` | layers 2 and 3 are inductive; `Invariance` and three safety theorems |
| `ConnectionDeliveryProofs` | what a step does to the wire, the channels and the cursors; layers 4, 5 and 6 are inductive |
| `ConnectionStreamProofs` | layer 7 is inductive; `DeliveryInvariant` and three safety theorems |
| `Lifecycle` | the clones of a handle, the shared `WorkerControl`, the worker task and the reader sub-task |
| `TcpInsert` | `DynamicInsert` over `TcpInsertSession`: rows, blocks, cancellation, `end()` |
| `TcpInsertProofs` | its invariant `IInv` and four safety theorems |
| `SchemaCache` | HTTP inserts sharing a `DynamicSchemaCache` while the table is altered |
| `SchemaCacheProofs` | its invariant `CacheInv` and the action property `Refetches` |
| `Failover` | `TcpConnectionManager::create`: endpoints, slices, budget |
| `OpenCloseProofs` | the invariants `FInv` of `Failover` and `LInv` of `Lifecycle`, three theorems about each |
| `Pool` | calls over the pool: acquire, recycle or create, run, replay, give back, cancel |
| `Statement` | abstract: what the client promises of one statement; `Pool` implements it |
| `PoolProofs` | the pool's invariant, four safety theorems and the refinement |
| `Wire` | the stream as items, and the primitive reads (`native/io.rs`) |
| `ColumnTypes` | the grammar of column types (`ColumnType::parse`) |
| `ColumnReader` | the column reader that yields RowBinary cells (`native/columns.rs`) |
| `BlockCodec` | the encoder of INSERT blocks, the block decoder, sparse columns, typed reads (`native/encode.rs`, `decode.rs`, `sparse.rs`) |
| `Packets` | every packet, read and written, with its revision gates (`tcp/reader.rs`, `writer.rs`, `client_info.rs`, `protocol.rs`) and the HTTP body (`unified.rs`) |
| `NativeWriter`, `ServerPackets` | external: how a server writes columns and packets and takes apart the client's |
| `DynamicEncode` | `DynamicRow`: a JSON value encoded to a column type (`dynamic/encode.rs`, `parsed_type.rs`) |
| `JsonSense` | reference: what a JSON value says, independent of the encoder |
| `Exchange`, `MCExchange` | one message from writer to reader, whole, cut or damaged; its instances |

### Connection: state and code

A call is one use of a `ConnectionHandle` method. Its kind is a `ConnectionCmd`
variant (`oversize` is a `SendInsertBlock` past `MAX_INSERT_BLOCK_BYTES`).

| Variable | Code |
|---|---|
| `caller`, `where`, `answer` | the caller's future, the progress of its command, the contents of its oneshot (for a stream: what the cursor reported last) |
| `queue` | the worker's mpsc channel |
| `pc`, `cur`, `out`, `item` | where the actor task is suspended, for which command, writing or forwarding what |
| `state`, `poisoned`, `shutdown` | `ActorState`, the shared `AtomicBool`, the shutdown oneshot |
| `reader`, `pipe`, `buffered` | the reader sub-task; the packets sent and not consumed, of which the first `buffered` are in the reader-to-actor channel and the rest in the socket |
| `up`, `link` | the socket towards the server; whether it is open |
| `frames`, `delivered` | the results channel of a stream; what its cursor returned |
| `tag` and the tags of messages | a ghost: the statement a message belongs to. No guard of the client reads it |
| `srv`, `srvTag`, `sent`, `stored`, `verdict`, `budget` | the server |

`pc` names the await the task is suspended in, so every interleaving at an await
is explored: `recv` (worker loop), `peek` (the `try_recv` loop before an INSERT
block), `write`, `read` (`next_packet` and the two `select!`s), `drain`
(`drain_to_end_of_stream`), `forward` (`results.send`), `stopping`
(`on_shutdown`), `gone`. The callers' actions are `Submit`, `Enqueue`,
`SendClosed`, `Return`, `Drop`, `CursorNext` and `RequestShutdown`; dropping a
future is possible in every state, including after the reply was sent and before
the future was polled. `PingOutcome`, `QueryOutcome`, `BeginOutcome` and
`StreamOutcome` are the packet matches of the four reading handlers.

The server is external. It answers one statement at a time, ends each with
exactly one terminal packet (Pong, EndOfStream or Exception), discards a Cancel
or INSERT data that arrives between statements, may send rows where a schema
block is due, may stay silent for ever, and the link may break at any time.

### Lifecycle

`handle[h]` is a clone of `ConnectionHandle`; `control` is where the
`WorkerControl` is (in the shared mutex, with a `close()` that took it, dropped);
`signal` is the shutdown oneshot. `Release` is the drop of a clone, and with the
last one of the control, whose `Drop` signals. `close(self)` consumes its clone:
`CloseTakes`, `CloseReturns`, or `CloseFindsNone`; its future may be dropped
(`DropHandle`). A command only keeps the task busy (`TakeCommand`,
`CommandEnds`); nothing here says that it ends, which is the business of
`Connection`. The reader's
`abort()` is a request (`DropActor`) that the runtime carries out later
(`ReaderAborted`).

### TcpInsert

A row is its number in the order of the `write()` calls and has a flavour: small,
big (fills the block by `BLOCK_FLUSH_BYTES`), huge (past
`MAX_INSERT_BLOCK_BYTES`), ragged (`encode_columns` fails). `pc` is the await of
the caller's future. `CancelWrite` and `DropInsert` drop it. The connection is an
abstraction of `Connection`: commands are served in order, a continuation out of
session is refused, a failure poisons and leaves the session, and a block that
fails may or may not have reached the server.

### SchemaCache

A schema is the version of the table it was read at. `ensure_schema` is split at
its await (`Miss`, `Answered`, `Fetched`), since the cache's lock is not held
across it. A row without any of the table's columns leaves the schema held and the
sink closed; a later row opens it (`Open`). `EndMismatch` is `end()` failing with a code of `SCHEMA_DRIFT_CODES`
and invalidating; that a row of a current schema can cause it too is included.
`floor` is a history variable: at an invalidation it becomes the oldest schema that
can still be stored, the table's or that of a fetch that has its answer.

### Failover

Time is in ticks; an endpoint has a delay, and accepts or refuses after it.
`Begin` is the `fetch_add` of the shared cursor, which wraps at `Wrap`. Each
attempt is one step, of the delay's length or the slice's. Time spent between
attempts is not modelled. Without `create_timeout` nothing bounds an attempt.

### Pool

A call is one use of a `TcpClient` method: `query` (and ping), `idempotent` (a
query declared so), `stream` or `insert`. `pc[c]` is where its future is:
`waiting` for a permit, `picking` (it has the permit and looks for an object),
`closing` (inside `close_refused` of an object that `recycle` refused), `queued`
(its command is in the actor's channel), `running` or `void` (it was written to the
server, or to a link that is gone), `session`, `ended` (a cursor that has yielded
its last frame and still holds the slot),
`backoff`, `done`. `permits` and `place` are deadpool's semaphore and objects,
which are external; `orphan` is a connection whose closing was cut short by
`recycle_timeout` or by the cancelled acquire, and whose actor is still going;
`lingering` is what is left when an actor has ended and the runtime has not yet
dropped the reader it aborted (`ReaderDropped`), the read half of the socket.
An actor is `idle`, `busy` or in an `insert`; what it does in there is
`Connection`. `cut` and `poisoned` are apart because `recycle` reads only the
flag, and the link may be gone before anybody noticed. A future may be dropped at
each of its awaits (`CancelAcquire`, `CancelClosing`, `CancelCommand`,
`DropCursor`, `DropSession`).

`Retriable` is `is_retriable_transport` over the outcomes an attempt can have. The
variables of `Statement` are those of `Pool`, with `status` mapped from `pc`.

### The packets and the codec

An item of the wire is one primitive write: a fixed-width integer, a varuint or a
string. A read names the width it expects; finding another is `"lost"`, the
misreading that would follow in the program. So a field too many, too few or out
of order is visible without modelling bytes. A string's payload is a sequence of
words: a type name is its tokens, a JSON document its structure.

`Exchange` begins with a message of some kind and the revision the server
announces. `ClientSends` runs the crate's writers, `ServerSends` the external
ones (the message's `format` chooses dense or sparse columns, the serialisation
versions of Dynamic and JSON and the width of dictionary indices), `Cut` and `Damage` are the network's, `ClientReads...` runs the
crate's readers and `ServerTakes...` the external ones, `Handshake` goes on with the
server's answer and the addendum.
The server here is a table of fields with first revisions, in the order it writes
them, and it computes with the lower of the two revisions, as ClickHouse does. It
writes every prefix of a column's tree before all of the column's data (the prefixes
of a JSON column's paths and of a Dynamic column's types too), puts the paths
past `MaxDynamicPaths` and the types past a Dynamic's limit in shared data, and knows
five versions of JSON and three of Dynamic.

`DynamicEncode` is checked against `JsonSense`, which says for a column's sense
(a range of integers, a precision, a scale, a calendar, a list of labels) which
stored values a JSON value may become: none, one, or for a float between two
representable ones either. It counts days and picks the unit of an epoch number in
its own way. `Held` is what serde_json makes of a number before the encoder sees it:
an integer past 64 bits is a float.

### What data is abstracted

For the packets and the codec: bytes below the items above, text beyond its words,
and the widths of numbers. `Bits` gives each integer fewer bits (3, 8, 16, 27, 29 for
1, 2, 4, 8 and 16 bytes) so that both sides of every boundary fit TLC's integers. A
float is a multiple of one half with `Mantissa` significant bits (11 for an f32, 22
for an f64), so that conversions round as they do in the code; `MaxFloat32` is the
largest of the small ones. `Kilo` (18) stands for the thousand between seconds, milli-,
micro- and nanoseconds: a day has fewer seconds than `Kilo` to the fourth.
The 256-bit types share the 128-bit bounds, since the code goes through i128.

In the other modules SQL text, settings, parameters and column bytes are left
out. `Progress` stands for every packet a stream forwards and a cursor skips (Progress, ProfileInfo,
TableColumns, TimezoneUpdate), `Log` for the ones dropped by the actor (Log,
ProfileEvents). Totals and Extremes decode to the same variants as Data. Time
is abstracted: a timer may fire whenever it is armed. Writes are
whole messages; a timed-out write either reached the buffer or did not.

## Runs

| Run | Instance | Shows |
|---|---|---|
| `commands` | 2 calls of any of the 7 kinds, shutdown | `ReusableIsClean`, `ReadsOwnResponse`, `OwnAnswer`, `RefusedIsUnsent`, and `IInv`, the strengthening the proofs use |
| `inserts` | 3 calls: begin, block, finish; one frame of write buffer; fairness | `FinishedInsertIsStored`, and `Delivery`, the strengthening the proofs use; `EveryCallReturns` where client and server can both block writing |
| `streams` | 2 calls: stream, ping; 3 packets; no `read_timeout` | `StreamIsFaithful`, `Delivery` |
| `shutdown` | 2 streams, shutdown, fairness | `EveryCallReturns`, `ShutdownEnds` |
| `lifecycle` | 3 clones, fairness | `LivesWithLastClone`, `FirstCloseWaits`, `Released` |
| `dynamic_insert` | 4 rows of every flavour, cancellation | `EndIsExact`, `InOrderOnce`, `ReturnedIsSettled`, and `IInv` of `TcpInsert` |
| `oversize_block` | violation | accepted rows of a refused block are lost and `end()` returns Ok |
| `cache` | 2 inserting tasks, 2 ALTERs, fairness | `Refetches`, `Recovers`, and `CacheInv`, the strengthening the proof uses |
| `failover` | 2 calls, 3 endpoints, 5 budgets | `WithinBudget`, `HealthyFound` |
| `pool` | 2 calls of any of the 4 kinds, one slot, 2 attempts, fairness | `NoLostSlot`, `ConnectionsBounded`, `NoWedge`, `EveryCallSettles`, `IInv`, and that `Pool` implements `Statement` (`KeepsPromise`) |
| `exchange` | every packet at 41 revisions, 19 column types in the formats that matter to each, 42 types of JSON column, every cut, damage of any integer | the nine properties of `Exchange` below |
| `lowcard_null` | violation | a default value stored in a `LowCardinality(Nullable(T))` column reads back as NULL |

Deadlock checking is off in the runs of `Connection`, `Lifecycle`, `TcpInsert`,
`Pool` and `Exchange`: the calls or messages of an instance are finite, so a run
that has made them all rightly stops. Progress is what the fair runs
check.

### Properties

- `ReusableIsClean`: between commands, outside an INSERT and not poisoned, no
  packet is in the channel or in the socket, the server is idle and no request
  is on its way. This is what the pool relies on when `is_alive()` holds.
- `ReadsOwnResponse`: while the actor reads for a command, every packet it can
  reach belongs to that command's statement, even on a poisoned connection.
- `OwnAnswer`: a caller is told the outcome of its own statement, or of the
  INSERT it continues.
- `RefusedIsUnsent`: "command not sent", "connection actor closed" and a dropped
  reply all mean that nothing of the command reached the wire. This is what
  makes the retry of a `Transient` error safe.
- `FinishedInsertIsStored`: Ok from `finish_insert` means that the server ended
  the INSERT normally with every acknowledged block.
- `StreamIsFaithful`: the cursor's blocks are the server's, in order, without
  gaps, and Ok(None) means all of them.
- `EveryCallReturns`, `ShutdownEnds`: with `read_timeout` set nobody waits for
  ever, whatever the server does, and a signalled shutdown ends the task. One thing
  can prevent both, and the properties name it (`HeldByCursor`): the application
  keeps a cursor whose channel is full and never polls it again. The actor then waits
  in `results.send` (`connection_actor.rs` 1087), which has no deadline and does not
  look at the shutdown signal.
- `LivesWithLastClone`: the task stops only after a `close()` or the drop of the
  last clone. `FirstCloseWaits`: the `close()` that holds the control returns
  after the task and reports its panic. `Released`: after either, and even when
  the closing future is dropped, task and socket go away, unless one command keeps
  the task busy for ever.
- `EndIsExact`: Ok(n) from `end()` means that exactly the accepted rows are
  committed, in order, and n is their number, whatever errors the caller ignored.
  It excepts inserts with a cancelled `write()`, whose rows have left the block and
  may or may not arrive, and rows past the size cap (`oversize_block`).
  `InOrderOnce` needs neither exception: no row is sent twice.
- `ReturnedIsSettled`: a connection goes back to the pool out of its INSERT or
  poisoned.
- `Refetches`: after an invalidation no insert takes on a schema older than the
  table was then, but for one that a fetch was already holding an answer with.
  `Recovers`: after the last ALTER the inserts end up with the table's columns
  without waiting for the ttl.
- `WithinBudget`, `HealthyFound`: `create()` keeps its budget, and finds a healthy
  endpoint if the budget has a least slice for each endpoint.
- `NoLostSlot`: every permit is in the semaphore or with one call, whatever timed
  out, failed or was cancelled. `ConnectionsBounded`: no more than `max_size`
  connections, plus one for each closing that was cut short, plus the read halves that
  aborted readers still hold: `close_refused` waits for the actor, and the actor only
  requests the abort. `NoWedge`: a borrower never
  meets the INSERT of an earlier one.
- `EveryCallSettles`: a call ends or holds a cursor or session itself, even when
  every slot is held by somebody who never lets go.
- `KeepsPromise`: `Statement`, that is: only a statement declared idempotent
  reaches a server more than once, and never more than `max_attempts` times; Ok
  means it was sent; and a refusal, connect error or acquire timeout means that it
  was not, so the caller may issue it again.
- `RoundTrip`: an INSERT block decodes to the rows it was made of, unless it has JSON
  inside another type (`DeclaredAsWritten`).
- `ServerPacketIsRead`: what a server of any revision writes is consumed to its last
  item and read as what it says; a column read too far or not far enough spoils
  the plain column behind it. A serialisation the decoder has no reader for (`Unhandled`:
  Dynamic 3, JSON 0 and 4) is an error and never a wrong value. Shared data is skipped:
  what is in it reads as absent (`Unshared`). Left out, and only these, are blocks with
  a prefix where the decoder does not look for it (`Placed`). `ClientPacketIsUnderstood`: the same for the Hello,
  the addendum and the Query in the other direction.
- `CutIsNoticed`: a message cut anywhere is never taken for a message, but for an
  HTTP body cut between blocks, which has no terminator. `DamagedIsConsistent`: a
  block with one integer changed is refused or still has one value for each row in
  every column, and offsets inside their elements. The indices of a LowCardinality
  column are left out: the decoder hands them on unchecked.
- `TypedReadIsExact`: `column_as` yields each row's own value, None for NULL, and
  some Rust type reads every scalar column. `CellsAreRowBinary`: the cells of the
  other column reader are what the encoder takes.
- `JsonRowsAreExact`: an accepted JSON row stores exactly what it says: the nearest
  float in a float column, and for a decimal in exponent form, which is scaled as an
  f64, a number no further off than that scaling allows (`Slack`). An epoch number
  before 1970 that has a part of a second may be stored as the next day (`IsLate`).
- `FittingRowsAreTaken`: a row that fits, plainly written, is accepted, but for the
  two cases of `IsMissed`: an integer past 64 bits for an integer column, and the
  first or last label of an Enum inside Nullable.

### Bounds

Capacities are 1 (2 towards the server where Cancel and a request should
queue), so that every full-channel case is reached in a few steps; the code's
4, 4 and 16 only delay them. Two calls are enough for any two statements to
follow each other on the stream; the INSERT runs need three or four for a
session with a block after a rejected one. `MaxWaiting` bounds concurrent
callers (2 in `shutdown`: one held by a cursor and one behind it), `MaxPackets` the
non-terminal packets of a run. The safety theorems
need none of these bounds.

Three clones are enough for one to close, one to find the control taken and one
to go on sending. Four rows with two to a block give two full blocks, or one and
a remainder for `end()`. Two inserting tasks are needed for a fetch to straddle
another's invalidation, two ALTERs for a stale schema to be replaced by another
stale one. The delays of `failover` are below, at and just above the least slice
and past every slice, and the budgets are none, less than a slice, between, exactly
enough and more; the cursor wraps after four calls.

One slot and two calls make every wait, hand-over and refill happen; the second
connection is there for the orphan of a closing cut short, of which one is
allowed (`MaxHurried`). Two attempts separate the first, the replay and the
exhausted one. The theorems on the pool need none of these bounds.

Calls are interchangeable, and so are connections that do not exist yet. A run
without liveness uses TLC's symmetry reduction. One with liveness, where that is
unsound, takes one representative instead: `inserts` and `shutdown` submit the calls
in a fixed order (`SubmittedInOrder`, a state constraint), `pool` creates the first
connection that does not exist (`FirstFree`, an action constraint) and takes one order
of the two calls' kinds (`KindsInOrder`). None removes
a behaviour but for the names in it: nothing is fair about a call before it is
submitted, and an acquire that may create one connection may create any other.

Blocks have up to two rows and arrays up to two elements, enough for an offset
to be wrong by a row; every first column is followed by a plain one. Types nest
three deep where the depth is not the point, and the caps on depth, rows,
columns and rules are small enough to be exceeded by a damaged count. The
revisions of packets are each gate, the one before it and one the client does not
know; those of blocks are on either side of the serialisation flag. JSON numbers
and dates are at both edges of each width, of each unit of an epoch, of the largest
f32 and of the integers a float can hold. Three paths of JSON with room for two put one
in shared data. An Array of Variant has at least one element: for a Variant of none
`read_column_data` reads nothing, although a dictionary inside would have its flags.

### Fairness

Weak fairness of the actor, of the reader (delivering, reporting its error, and
noticing a closed socket), of a caller with an answer
and of `WorkerHandle::send`: tokio polls a woken task. An idle server reads its
socket. Nothing is assumed of the server's answers, of the link or of shutdown, and
nothing of the application: `next_block()` is its own call, so a cursor that is kept
need never be polled again.
A timer that is armed and stays armed fires: this is the actor's fairness, and
it is why the fair runs set `ReadTimeout`. Without it a ping or a begin_insert,
which do not watch their caller, may hold the actor on a silent server for ever.

`Lifecycle` assumes that the runtime polls a task that can move, that
`SHUTDOWN_TIMEOUT` ends `on_shutdown`, and that an aborted task is dropped. It does not
assume that a command ends. `SchemaCache` assumes that a task goes on inserting and, with strong
fairness, that the server eventually refuses columns the table does not have: if
the transport failed every time, or if the old columns still fit, nobody would
learn of the ALTER and nothing would need to change.

`Pool` assumes that a waiting call is woken or times out (`acquire_timeout`), that
a command is answered or times out (`read_timeout`), and that an actor ends its
drain (`DRAIN_TIMEOUT`) and its shutdown; these are what `EveryCallReturns` and
`ShutdownEnds` show of one connection without an open cursor. Nothing obliges the
holder of a cursor or a session to poll it or to let go (`CursorOpen`). `Exchange` has only safety properties.

## Proofs

For `Connection`, `ConstantsAssumption` is all that is assumed: capacities are positive, the
bounds are naturals, `None` is not a call. Calls need not be finite.

`ReusableIsClean` is not inductive: it says nothing of the states in the middle
of a command. `IInv` adds

1. shape (`Inv1`): types, capacities, that everything in flight was made by a
   call, and which command kind the actor can be handling at each `pc`;
2. alignment (`Aligned`): with no statement in progress and no poison the stream
   is quiet; a statement not yet written finds it quiet; otherwise everything
   outstanding belongs to the statement in progress (`Own`): at most one
   request, and a terminal packet only in the last place with the server idle;
3. provenance (`Provenance`): the outcome held for a call, in its reply, in the
   frame being forwarded or in its results channel, is one it is entitled to.

`Fresh` is the heart: the actor accepts a new statement only when not poisoned
and Idle, where alignment says the stream is quiet. A flag set later by the
reader or by a dropped begin_insert does not disturb it, because alignment is
not conditional on the flag once the statement is in progress.

`Delivery` (module `ConnectionDelivery`) rests on these three and adds what the
properties about delivery need:

4. commands (`Inv4`): a command is in one place, with its caller, once in the
   channel, with the actor or finished, and nothing of one that has not been
   written, or that was answered by a refusal, is on the wire or with the server
   (`NotSent`). The hard case is a stream whose handler has returned while its
   cursor has still to read the outcome: if the channel holds none, the cursor will
   report "dropped", so nothing of it may have been sent (`Orphan`);
5. order (`Inv5`): what follows a request on the wire speaks for its statement, and
   the server gives one verdict on a statement, at its end;
6. INSERT sessions (`Inv6`): from the schema block until the empty block is written
   the server takes the session's blocks or has rejected it (`SessionOpen`), so a
   block whose send was answered Ok is stored or on its way ahead of the empty
   block (`BlocksLive`, `BlocksKept`). When the server has ended the INSERT none
   can be on its way, which is `FinishedInsertIsStored`;
7. streams (`Inv7`): the numbers of the blocks in the results channel continue what
   the cursor has returned, the block being forwarded continues the channel, and
   the packets ahead of the actor continue that up to the last block sent
   (`Exactly`, `Flow`). The outcome is the last frame, and Ok is forwarded only
   after the packet that ends the stream (`LastFrame`, `StreamEnded`).

Each layer is inductive given the ones before it (`NextInv4` to `NextInv7`, which take
the earlier layers as hypotheses); the end of `ConnectionStreamProofs` puts them
together with `Invariance`.

| Theorem | States |
|---|---|
| `TypeCorrect` | `Spec => []TypeOK` |
| `Invariance` | `Spec => []IInv` (of `Connection`) |
| `ReusableConnection` | `Spec => []ReusableIsClean` |
| `ReadsAreOwn` | `Spec => []ReadsOwnResponse` |
| `AnswersAreOwn` | `Spec => []OwnAnswer` |
| `DeliveryInvariant` | `Spec => []Delivery` |
| `RefusalsAreUnsent` | `Spec => []RefusedIsUnsent` |
| `FinishedInserts` | `Spec => []FinishedInsertIsStored` |
| `StreamsAreFaithful` | `Spec => []StreamIsFaithful` |
| `InsertInvariant` | `Spec => []IInv` (of `TcpInsert`) |
| `InsertEndIsExact` | `Spec => []EndIsExact` |
| `InsertInOrderOnce` | `Spec => []InOrderOnce` |
| `InsertReturnsSettled` | `Spec => []ReturnedIsSettled` |
| `TaskLivesWithLastClone` | `Spec => []LivesWithLastClone` |
| `FirstCloseAwaitsTask` | `Spec => []FirstCloseWaits` |
| `CreateWithinBudget` | `CreateSpec => []WithinBudget` |
| `CreateFindsHealthy` | `CreateSpec => []HealthyFound` |
| `Invariance` | `Spec => []IInv` (of `Pool`) |
| `SlotsAccounted` | `Spec => []NoLostSlot` |
| `PoolIsBounded` | `Spec => []ConnectionsBounded` |
| `NeverWedged` | `Spec => []NoWedge` |
| `PoolKeepsPromise` | `Spec => KeepsPromise` (`Pool` implements `Statement`) |
| `LifecycleTypeCorrect`, `InsertTypeCorrect`, `PoolTypeCorrect` | `Spec => []TypeOK` of each |
| `FailoverTypeCorrect` | `CreateSpec => []CreateTypeOK` |
| `CacheInvariant` | `Spec => []CacheInv` |
| `InsertsRefetch` | `Spec => Refetches` |

`ConnectionTypeProofs` has one lemma per action (`SubmitInv1` and so on), over
frame lemmas for what an action leaves alone.

`Lifecycle`: `LInv` adds why the signal was given or the control lost (somebody
closed, or no clone is left), that the `close()` holding the control is waiting,
and that the actor's `Drop` has run when the task ended. The assumption is that
clones are not confused with the two other places of the control.

`Failover`: `FInv` says of a walk in progress that the time left is a least slice
for each endpoint left and that every healthy endpoint is still ahead.
`SliceShares` is the arithmetic (a share leaves shares for the others although it
is rounded and floored), `WalkCovers` that a walk from any start visits every
endpoint. The assumption is that N, the least slice and the wrap are positive.

`Pool`: the assumption is that calls and connections are finite sets and that
`max_size` and `max_attempts` are positive. `NoLostSlot` alone is not inductive: a
step that gives a permit back must know that the call had one. `IInv` adds that a
connection outside the idle set is with exactly one call (`Loans`), that an actor
in an INSERT belongs to a session or to a poisoned connection (`Inserts`, from which
`NoWedge` follows), how often a statement can have been sent at each `pc`
(`Counts`), and the sizes of the sets of pooled and orphaned connections
(`Sizes`, from which `ConnectionsBounded` follows). The refinement uses `Counts`: each
step of `Pool` is a Submit, Reach, Finish or Abandon of `Statement`, or a stutter.

`TcpInsert`: the assumption is that the block size and the command capacity are
positive. `InOrderOnce` says nothing of rows still on their way, so `IInv` puts all
rows in line (`InLine`): the server's before those of the queued commands, these
before the block handed to `send_block`, that before the buffered rows. `EndIsExact`
needs more: unless a write was cancelled or a row was huge, the server's rows
followed by the ones on their way are the acknowledged ones (`Complete`), which in
turn needs that at most one command is under way and that its reply is the one the
caller waits for (`OneAtATime`, `Awaiting`).

`SchemaCache`: `Refetches` is about steps, and what a step loads was put in the
cache or answered earlier, so `CacheInv` carries the bound along: the entry, when
fresh, and every answer under way are at or above `floor`, and `floor` and the
answers are not ahead of the table. An invalidation empties the entry and moves
`floor` up to what is left. The assumption is that the bound on ALTERs is a number.

Only model-checked:

- the liveness properties (`EveryCallReturns`, `ShutdownEnds`, `Released`, `Recovers`,
  `EveryCallSettles`): the prover has no rules for fairness;
- the nine properties of `Exchange`: the codec, the packets and the dynamic encoder
  recurse over types and values, and the prover does no induction over them.

The type invariants are not listed in the runs of their own: `IInv`, `Delivery` and
`CacheInv`, which the runs check, contain those of `Connection`, `TcpInsert`, `Pool` and
`SchemaCache`, and that of `Lifecycle` is proved.

## Where the code and its documentation disagree

Two runs refute what a comment promises; `PROJECT.json` quotes the lines.

- `oversize_block`: a block past the size cap is refused so that "the caller can
  re-send a smaller block", but `DynamicInsert` has emptied its buffer by then.
  Rows whose `write()` returned Ok are lost, and `end()` returns Ok.
- `lowcard_null`: slot 0 of the dictionary of a `LowCardinality(Nullable(T))` column is
  said to stand for NULL. The encoder also enters the default value under it, so a
  row that holds the default is given the index of NULL.

Other differences are visible in single actions or definitions, or were met while
translating the code; none breaks the theorems above.

- Shutdown is documented to drain the command queue (`src/worker.rs` 63). The biased
  `select!` leaves the loop at once, and queued commands are dropped unanswered
  (`Exit` of `Connection`; their callers get an error, as `EveryCallReturns` shows).
- A fetch answered before an ALTER may be cached after the invalidation the ALTER
  caused, so the next insert does not re-fetch (`Fetched` of `SchemaCache`);
  `Refetches` says exactly how old it can be, and `Recovers` shows that this heals.
- A second `close()` does not wait (`CloseFindsNone`), and the first does not wait for
  the reader (`CloseReturns`, `ReaderAborted`). A cancelled query poisons its
  connection when the drain times out (`DrainTimesOut`). With a `create_timeout` of
  at most `MIN_ENDPOINT_SLICE` a silent first endpoint takes the whole budget
  (`EndpointSlice`).
- Opening a stream is replayed, but a connection found dead behind the cursor is
  reported by the cursor and not replayed.
- `ClientInfo` carries the server's raw revision, not the negotiated one
  (`issue_query`), and the handshake's documentation names an older pin than
  `DBMS_TCP_PROTOCOL_VERSION`.
- A block header may have 16384 columns in `reader.rs` and 65536 in `decode.rs`.
- A refused connection's socket and reader are documented to be gone before its slot
  refills (`src/tcp/pool.rs` 22-23 and 230-232). The actor only requests the reader's
  abort (`connection_actor.rs` 1321), so the socket may stay a little longer
  (`ActorEnds`, `ReaderDropped` of `Pool`).
- A cursor that is kept and not polled holds the actor against `close()`, against
  `read_timeout` and against every command behind it (`HeldByCursor`).
- The documentation of `decode_prefixes` (`decode.rs` 889-893) says that Dynamic and
  Variant stay inline; the code takes their prefixes first, and only those of JSON stay
  inline. JSON inside another type is therefore misread when anything of its column is
  written before it, and so is a Dynamic or a JSON path whose declared types have
  prefixes of their own (`Placed` of `Exchange`).
- A column of Dynamic version 3 is documented as read (`columns.rs` 139-140) and refused by
  the block decoder (`decode.rs` 940-948).
- JSON is said to be "declared and written as a String column" (`native/encode.rs` 11).
  Inside another type it is written as strings and declared by its own type
  (`DeclaredAsWritten`).
- Paths of a JSON column that the server moved to shared data are not returned
  (`Unshared`).
- The first and the last label of an Enum inside a wrapper are not found by
  `enum_member_value` (`Nullable(Enum8(...))`), and integers past 64 bits are refused by
  128- and 256-bit columns unless they are written as text (`IsMissed`).
- A pre-1970 epoch number is truncated toward 1970 when its unit is reduced (`IsLate`).

## Not modelled

See the components of `PROJECT.json`. In short:

- `tls.rs`, `transport.rs`, the socket options of `connect.rs`: delegation to rustls and
  tokio, without decisions that the properties could tell apart.
- `ext.rs` and the builders of `client.rs` and `query.rs`: stateless wrappers and plain data.
- The classification of server errors by code, beyond "retriable or not" in `Pool`
  and "schema drift or not" in `SchemaCache`: two tables of numbers.
- Text: float formatting, JSON escaping and quoting inside type names. A property
  about them would be about characters, which the models do not have.
- Column types the decoder passes over (`BFloat16`, `Time`, geometric types): they are
  `Unsupported` in the models too, read to their end and without values.

## Plan

`Connection` as an implementation of an abstract connection, and what `TcpInsert`
and `Pool` assume of an actor as the same abstraction.
