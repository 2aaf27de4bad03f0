# AgentCortex: TLA+ specifications

AgentCortex is a memory server for language-model agents: an HTTP API that
saves memories twice, in SQLite (with a vector index) and in daily Markdown
files, and answers questions by streaming from a model; a command-line client;
a session manager; and a library of rate limiters. This directory holds TLA+
models of the parts whose correctness depends on interleaving, failure, order
or arithmetic edges, the TLC configurations that check them, and TLAPS proofs.

    tlc -workers 2 -config MCMemoryStoreOneServer.cfg MCMemoryStore
    tlapm MemoryStoreProofs.tla

`PROJECT.json` lists the runs, the source lines behind every definition, the
hazards, and for every property a mutation of the model that breaks it.

## 1. Inventory

| Component | State | Operations | What is hard | Correct when |
|---|---|---|---|---|
| Memory save and search (`transport/http/handler.go`, `memory_markdown.go`, `utils/markdown.go`, `memory/`, `storage/sqlitevec/`) | table `memories` and its vectors; one Markdown file per owner and UTC day; `memoryMarkdownMu` of the process | `saveMemory`, `searchMemory` | two writes without a common transaction; crash or I/O error between or within them; retries over midnight; several servers on one directory; searches that read rows and files at different times | rows have their entries; no entry twice; answers are true; a retry is not refused; a search returns what was saved |
| Session manager (`session/`) | `sessions`, `closed`, per session a state, a context and a bounded channel | `Start`, `Interrupt`, `Close`, `Status`, `CleanupExpired`, `runSession` | cancel functions called after the unlock; `select` with both branches ready; a channel that is full | a live session is reachable; the limit holds; `Close` reaches everyone; the caller can tell a complete answer |
| Rate limiter state (`pkg/ratelimit/sharded_state.go`) | a map and a mutex per shard, one atomic counter, `lastSeen` | `WithEntry`, `Reset`, cleanup | two critical sections per call; the counter is not under the lock of other shards; cleaners race | the counter is exact; `MaxKeys`; no entry in use is replaced; no deadlock |
| GCRA, token bucket, sliding window, bucketed sliding window (`pkg/ratelimit/`) | one entry per key | `AllowN` | the clock is read before the lock, so calls are applied out of the order of their times; an entry that is idle is deleted; rounding | the rate bound over every span; `RetryAfter` and `Remaining` |
| Question and answer stream (`handler.go` `qaStream`, `persistQATurn`, `model/openai_compatible.go` `Stream`, `sse.go`) | the answer so far, the request context, the stream channel | one select loop, embed, save, finish | the client leaves; the provider's body breaks off; one of the last steps fails | a stream with an error is not saved; a failure to save is told; handler and goroutine end |
| Command line client (`cli/`) | `Conversation`, the context of Ctrl-C, a scanner goroutine | ask, clear, exit, Ctrl-C | the connection breaks at any point; the scanner blocks; the conversation grows | the conversation is what was shown; Ctrl-C always exits; its size is bounded |
| Model requests (`model/`) | none | request and response conversion | nothing concurrent | conversions keep what the API needs |
| Migration and server start (`storage/sqlitevec/migrate.go`, `backend.go`, `bootstrap/`, `app/`) | the tables and columns of a database of any age; a temporary table of the connection | create, add columns, rebuild the vector table, put the runtime together | each statement is committed on its own: an error, a crash or another server can come between any two | no saved vector is lost; a server that serves has its schema; another start repairs what a failed one left |
| Managed llama.cpp (`embedding/llamacpp_managed.go`) | a model file, a child process, the goroutine that waits for it, a `sync.Once` | download, start, wait until something answers, `Close` | a port and a file shared with others; a child that dies; an owner that dies; several callers of `Close` | no half-written model; no child left by a failed start or a `Close`; an embedder talks to its own child; everything returns |
| Configuration, router, limiter registry, metrics | read or filled once | load, look up | nothing | |

Interactions: the CLI posts to the server and reads server-sent events
(`QAStream`); the handler of a question calls the model client, the embedder
and, at the end, `saveMemory`, whose inside is `MemoryStore`; every limiter
keeps its entries in a `shardedState`, whose cleanup deletes them. `MemoryStore`
starts from what `Startup` leaves of an older database. The session manager has its own use of
the model client's streams.

## 2. Modules

| Module | Models | Properties |
|---|---|---|
| `MemoryStore` | the save and search pipeline | below |
| `MemoryLedger` | what clients are promised: an id is bound once | `MemoryStore` implements it (`LedgerSpec`) |
| `MemoryStoreProofs` | | proofs about `MemoryStore`, the refinement among them |
| `SessionManager` | `internal/session` | |
| `SessionManagerProofs` | | proofs about `SessionManager` |
| `ShardedState` | `shardedState` | |
| `ShardedStateProofs` | | proofs about `ShardedState` |
| `LimiterCalls` | how goroutines call any limiter: the clock, the times they have read, and the deletion of an idle entry | extended by the four limiters |
| `GCRA`, `TokenBucket`, `SlidingWindow`, `BucketedWindow` | the entry of one key in each limiter | |
| `Limiters` | all four limiters, one of them per behaviour | those of the limiters, by name |
| `RefillProofs` | | proofs about `GCRA` and `TokenBucket`, as `Limiters` has them |
| `WindowProofs` | | proofs about `SlidingWindow`, `BucketedWindow` and `Limiters` |
| `QAStream` | CLI, its scanner, the handler, the model client's goroutine, the network | |
| `QAStreamProofs` | | proofs about `QAStream` |
| `Startup` | processes that open, migrate and serve one database | |
| `StartupProofs` | | proofs about `Startup` |
| `ManagedLlama` | owners of a llama.cpp server, the child, the model file, the port | |
| `ManagedLlamaProofs` | | proofs about `ManagedLlama` |
| `MCMemoryStore`, `MCSessionManager`, `MCShardedState`, `MCLimiters`, `MCQAStream` | instances for TLC | |

`QAStream`, `Startup` and `ManagedLlama` take plain numbers and model values.
Operators such as `NeverFull` or `DateOfTheRequest` that stand before
a definition and are used nowhere are mutations of it: plausible bugs, with
which the property named in `PROJECT.json` fails.

### MemoryStore

A request walks through `pc`: `new`, `wait` (at the mutex), `find`
(`FindByID`), then `verify` if a row repeats it or `scan` for orphans, then
`write`, `create`, `fill` or `append`, `insert`, `reply`, `done`. These are the
points where another server, a crash or an I/O error can come between. Texts
are atoms; the Markdown syntax is the state of a file: `absent`, `empty` (made,
nothing written yet), `ok`, or `bad` (torn, or an id twice: the parser then
rejects the whole file). A partial write may leave nothing, a torn entry, or
the whole entry although the call failed. `entries` are the blocks that were
written: a file does not say who wrote a block, but `by` does in the model, so
that a second block that repeats the first word for word is a second member of
the set (a request writes one at most). The embedding is validated inside
`memoryService.Save`, after the entry is on disk, as in the code. Several
servers share `db`, `entries` and `file` but not `mutex`. `LegacyRows` are what
the migration leaves of an older database: version 0, without a date.

| Property | Says |
|---|---|
| `RowsBacked` | a searchable row has its entry, same text, in the file of its date |
| `EntriesUnique` | with one server, the files hold one block per owner and id: no retry writes a second one, on the same day (what `TestCreateMemoryRetriesSQLiteWithoutDuplicatingMarkdown` tries once) or on another |
| `AnswersTruthful` | accepted means there is a row; `markdownSynced` means there is an entry |
| `NoSelfConflict` | a conflict needs somebody else who said something else |
| `SearchFaithful` | a search returns, per id, the text saved under it for this owner |
| `SearchNeverFails` | without faults and with one server, no history makes a search fail |
| `AllAnswered` | every request and search ends |
| `LedgerSpec` | refinement of `MemoryLedger` |

### SessionManager

A run is one call of `Start` and its goroutine. `cancels` holds the cancel
functions that an `Interrupt` or a `Close` has fetched under the mutex and not
called yet. `log` and `read` are the channel: what was sent, and how much of it
the caller has received; the difference is what the buffer holds. `send` may
take either branch when both are ready; `sendTerminal` waits for room and looks
at no context. `StateExpired` is set on a session in the same critical section
that removes it from the table.

`AliveIsListed`, `ActiveBounded`, `CloseReachesAll` are about the table;
`ClosedTellsAll` is what a caller has when the channel closes: `started`, every
delta that the run took from the model (`taken`), and the terminal event that
fits the state, or, if it was cancelled, a beginning of that;
`InterruptEnds` is liveness: an interrupt that reaches a session ends it, if
the caller drains the channel.

### ShardedState

`Look` and `Relook`/`Load`/`Insert` are the two critical sections of
`WithEntry`, `Check` the unlocked look at the counter, `Sweep` one shard of
`cleanupExpired`. The second critical section is split where it touches the
counter, since callers with keys in other shards run in between. Go's map order
is random, so a cleanup may remove any `CleanupLimit` of the idle entries. The
map is `seen`, the `lastSeen` of each key; `count` is the atomic counter, and
`CountExact` relates the two.

`InsertIsFresh` is what the second look is for. `OvershootBounded` is what the
code guarantees instead of `KeysBounded`: callers that have passed the check
hold different shards. `CallsReturn` is freedom from deadlock and starvation.

### The limiters

`LimiterCalls` has the two steps that every `AllowN` consists of: `ReadClock`
takes the time, and `Apply` is the moment its goroutine gets the lock. Each
limiter conjoins `Apply` with what it does to its entry. `newest` and `ordered`
are history: whether calls have so far been applied in the order of their
times. `within` is history too: for every span from `s` to `t`, the units granted
for times in it. No decision reads it; it is what the bounds on rates are about,
kept per span so that a bound is a statement about one number and not about a
sum.

`lastSeen` is the entry's, and `Delete` what a cleanup does when the entry has
been idle for more than `IdleTTL`; the next call creates a fresh one. A deletion
is `early` when the old entry still made a difference for a time that a call can
come with: the time now, or one that a goroutine has read and not applied yet.
Nothing in the code prevents one: `IdleTTL` is ten windows by default, less
than a burst takes to come back when `Burst` is above ten times `Rate`, and any
value may be configured. So the bounds on grants hold until then, and
`IdleIsSettled` says which `IdleTTL` rules it out.

The entry of `LimiterCalls` is one that is recorded, and that nobody resets.
Two documented features grant a key quota beyond that, and the bounds on rates
exclude them: `Reset`, after which the next call finds a fresh entry, and
`AllowNewKey`, which answers a new key from an entry that is not recorded while
the limiter is full (`sharded_state.go` 72-76). `ShardedState` has both, as
`Reset` and as a call that passes unrecorded.

| Property | Of | In any order of calls? |
|---|---|---|
| `GCRAConforms`: a span gets at most a burst and one unit per interval | GCRA | yes, proved |
| `GCRARetryExact`, `GCRARemainingExact`: what a refusal and a grant promise | GCRA | yes, proved |
| `TokensConserved`: what was spent has arrived | token bucket | yes, proved |
| `TokenConforms`: a span gets at most a burst and `Rate` per `Window` | token bucket | while `ordered`, proved |
| `TokenRetryExact`: the wait from the last refill | token bucket | yes, proved |
| `WindowExact`: `Rate` units in any window | sliding window | while `ordered`, proved |
| `WindowRetryExact` | sliding window | yes, proved |
| `SpanBounded`: `Rate` units in a span that the buckets surely cover | bucketed window | while `ordered`, proved |
| `BucketRetrySuffices`: the wait of a call with a time from now on | bucketed window | yes, proved if `BucketCount <= Window` |
| `GCRAIdleSettled`, `TokenIdleSettled`, `WindowIdleSettled`, `BucketIdleSettled`: an entry that was idle for a burst's refill time, or for a window, is as good as a new one | each | while `ordered`, proved |

`Limiters` runs all four and joins these by what they are about: `RatesHeld`
(all bounds but GCRA's), `DecisionsKept` (what refusals and grants promise) and
`IdleIsSettled`. It extends `GCRA`, whose names have no prefix there, and
instantiates the others as `T`, `S` and `B`.

A call that is overtaken in the bucketed window deletes the buckets of later
calls, and in the sliding window it finds records pruned; that is why the
bounds are conditional. "Any order" is about the calls before: `TokenRetryExact`
counts from `last` and `BucketRetrySuffices` from the present or later, so neither
says how long an overtaken call that is refused itself has to wait, counted from
the earlier time it has read. Token counts are exact in units of 1/`Window` token;
the code's `float64` is not modelled.

### QAStream

Text is the number of deltas: everybody appends what comes next, so two texts
differ only in how far they go. `wire` is the server-sent events on their way,
`linked` whether the connection is up; `Drop` breaks it and may lose a suffix.
`ended` is the request context of the server, which is done when the handler
has returned or the server has noticed that the client is gone. Both channels
are unbuffered, so a send and its receive are one step (`TakeDelta`,
`TakeEvent`). The scanner's line limit (1 MiB) is `LineLimit`: the `finished`
event repeats the whole answer and may be the only one that exceeds it.

`TalkFaithful` (a kept turn is what was shown and what the server collected),
`UnsavedIsWarned`, `BadStreamEnds`, `TalkBounded` (the number of messages, not their
characters), and the liveness properties `CtrlCExits` and `TurnsEnd`. `body` says
how a provider's stream ended; `stopped` is a producer that gave up, or whose
read failed, because the request context was done. `BadStreamEnds` is about that
as well as about errors: after a disconnect the handler's `select` may take the
closed stream and go on with the part it has, and the embedder, which looks at
the context first, is all that keeps it from being saved. `WriteFails` is a terminal that does not take what
is written to it: the turn is over for the CLI, while the server goes on.

### Startup

A process goes through `schema`, `columns` (any order, as over a Go map; `alter`
is the statement that adds the column found missing), `check`, and if the vector
table is not whole `exists`, `stage`, `drop`, `create`, `restore`, `tidy`; then
`assemble` (the rest of `bootstrap.New` and the listener) and `serve`, where it
may save. Each is one statement of `migrate.go`, or one statement and others
that nobody else can see. `Fault` is an error of any of them or a crash: both
end the process and with it the temporary table. `rows` tells older rows from
those of this version, `vectors` are the ids that have a vector.

| Property | Says |
|---|---|
| `VectorsKept` | a memory saved by this version keeps its vector; old vectors are in the table or in the copy, unless a rebuild was cut short between its drop and its restore |
| `ServesWhole` | a process that serves has every column and the full vector table |
| `ComesUp` | whatever a failure has left, a process that is started again comes up |

All three are about histories in which no process writes vectors while another
one rebuilds (`crowded` records that it happened). Two servers that migrate at
once can lose vectors, since their statements interleave without a lock; a
server that saves while another one rebuilds loses what it saved in between.
Without a rebuild, two servers may start and serve in any order.

### ManagedLlama

Owners are processes that have the same port and the same model file, as two
with default settings do. A start is `stat`, then maybe `get`, `copy`, `rename`,
then `launch`, `dial` and `wait` until something answers, `build`, `up`;
`failing` is a start that closes its child again. `child`, `cancelled` and
`done` are the process, its context and the channel of the goroutine that waits
for it; `once` and `calls` are `Close`. The code's dial asks whether anybody
answers at the port, so `shared` records that two were after it.

| Property | Says |
|---|---|
| `TypeOK` | among the types: a model file is never found half written |
| `NoChildLeft` | after a failed start, or a `Close` that has returned to any caller, the child has ended and was waited for |
| `OwnServer` | an embedder that is up talks to its own child until that ends, as long as nobody else is after its port |
| `EverythingReturns` | a start ends once the model is there or its context is over, and `Close` returns to all of its callers |

An owner that dies leaves its child behind (`stray`): the child does not depend
on it. The next owner's dial is then answered by the stray, while its own child
cannot have the port; that is why `OwnServer` needs its condition.

## 3. Runs

| Run | Bounds | Shows |
|---|---|---|
| `memory_one_server` | 3 requests, 2 days, rivals for an id, a malformed id, an older row; faults and crashes | entries and rows survive every failure of a save, its retry and a rival between them; three requests are the failed one, the retry and the rival, two days the retry after midnight |
| `memory_two_servers` | 2 requests on 2 servers, 1 search, faults | what does not need the mutex; the refinement of the ledger |
| `memory_calm` | 2 requests, 1 search, no faults | searches never fail; everything ends |
| `session` | 2 starts over 2 ids with room for 1, and answers without content; or 1 start with up to 4 deltas and a buffer of 1 | a live session and one that wants its place or its id, two ticks past the TTL of one; the channel full at every event, and an event with text and tool call |
| `sharded_state` | 2 callers with 2 calls each, 4 keys, 2 shards, `MaxKeys` 2, times to 2 with `IdleTTL` 1 | two keys in each shard, so both callers can want the same key, the same shard or different shards; more keys than room, so callers sweep and, if that frees nothing, pass unrecorded |
| `limiters` | 2 goroutines, `Rate` 2, `Window` 3, `Burst` 3, 2 buckets, `IdleTTL` 1, times to 5, sizes to 4; behaviours end with an early deletion | the window is a multiple neither of the rate nor of the number of buckets; requests up to one above the burst; time past one window; deletions that are early and deletions that are not |
| `qa` | 2 questions over answers of 1 delta, room for 3 messages; or 1 question, 2 data lines, 1 heartbeat and Ctrl-C | a disconnect while the model answers; a turn that is kept and repeated in the next request, which then is at the limit; an answer too long for the scanner; errors after text; liveness |
| `startup` | 2 servers, 2 ids, 2 of the 5 columns, 2 faults | both orders of the columns; a rebuild that is interrupted, tried again and interrupted again; one server that saves while the other one starts |
| `managed_llama` | 2 owners, 2 callers of `Close`, 1 owner that dies | a child that competes with another's and with an orphan; two callers of `Close` around one result |

The two parts of `session` and of `qa` are one specification: the variable
`part` says which bound a behaviour obeys. The bounds hold back only what
nothing forces (starts, questions, stream events), so fairness is not affected.

Symmetry is used where no liveness is checked (callers of the limiters,
requests of the memory store); all properties are invariant under renaming.

`CHECK_DEADLOCK FALSE` is set where the model stops because it has a last
request, call, question or tick, and in `startup`, where servers that are up and
have saved everything have nothing left to do. `managed_llama` never stops and
is checked for deadlock.

Three runs state what a document or a test says and TLC refutes:

| Run | Statement | What happens |
|---|---|---|
| `sharded_state_max_keys` | `docs/ratelimit.md`: `MaxKeys` is the largest number of active keys | callers in different shards both pass the check; the excess is below the number of shards (`OvershootBounded`) |
| `qa_whole` | `server_test.go`: no `finished` event on a stream error | a body that breaks off closes the stream like `[DONE]`: `scanner.Err` is not read |
| `startup_vectors` | `query_integration_test.go`, `TestMigratePreservesOldMemoryVectors`: a migration keeps the older vectors | the process dies between `DROP TABLE` and the restore; the temporary table is gone, and the next start comes up with an empty vector table |

No search returns vectors of the older storage version, so what `startup_vectors`
loses is data that the code keeps, not an answer that a client gets today.

The bounds that need `ordered` (section 2) are also more than
`docs/ratelimit.md` promises without condition: for `Rate` requests in any
window, calls have to be applied in the order of their times. A call is
overtaken only if its goroutine is suspended between `clock.Now()` and the lock
for as long as the clock moves in the model, which is rare in practice.

`README.md` of the repository says that each successful turn is saved. The code
makes a failed embedding or save a warning and goes on; `UnsavedIsWarned` is
the form in which the promise holds.

### Fairness

* `MemoryStore`: weak fairness of each request and search. Goroutines run, and
  the mutex, which has a finite number of users, is handed to a waiter.
  Nothing makes the clock move, an operation fail or a server crash.
* `SessionManager`: the run's steps, the caller's reads, the calls of fetched
  cancel functions, and the end of a stream whose context is done (the streams
  of `internal/model` select on the context). The model may hang as long as
  nobody cancels. The caller's reads are an assumption on the user of `Start`:
  without them `sendTerminal` blocks for good.
* `ShardedState`: strong fairness of each caller, since a mutex that is taken
  and released over and over is only now and then free; Go's mutex has a
  starvation mode that hands it over.
* `QAStream`: `Spec` is fair to the CLI and its scanner only
  (`ClientFairness`), so `CtrlCExits` holds even against a server that hangs.
  `TurnsEnd` is about the server and assumes `ServerFairness`: the handler, the
  producer, and the server's notice of a lost client. The model client's
  `http.Client` always has a timeout, which covers the body, so a scan ends.
  Questions, heartbeats, Ctrl-C and broken connections are not fair.
* `Startup`: statements return, and a process that has failed is started again.
  Faults are bounded, as a machine that fails for ever brings nothing up.
* `ManagedLlama`: the steps of a start and of a close, the startup timer, the
  end of a child that was killed, and `cmd.Wait`. A download is fair only once
  its context is over: it has no other timeout. `GiveUp` is strongly fair, since
  `select` picks at random between the tick and the context's end and both come
  back again and again.

## 4. Proofs

Proved for all values of the constants, from the named assumptions in the
modules that declare them (TLC evaluates those in every run).

`MemoryStoreProofs`:

* `TypeCorrect`. `TypeOK` is not inductive: a row takes its owner, id and date
  from the request, so `TInv` adds `Dated`: a request past its validation has
  well-formed ids and a date.
* `RowsAlwaysBacked` and `AnswersAlwaysTruthful`, for any number of servers.
  `RowsBacked` needs that a request at the insert has its entry already
  (`InsertBacked`): it has just written it, or took its date from the orphan.
  Rows and entries only grow (`Grow`), so a step that sends nobody to the
  insert, adds no row and makes no claim keeps the invariant (`QuietStep`); the
  proof then looks at the scan, the write, the insert and the answers.
* `EntriesAlwaysUnique`, for one server. `UInv` adds `Holder` (a request
  between Lock and Unlock holds the mutex) and `Fresh` (a request on its way to
  the write has an id that no block of the owner's files has: its scan found none,
  and nobody else writes while it holds the mutex). So a block is never written
  twice, the same day's file included. With two servers it is false.
* `NeverSelfConflict`, for any number of servers. `Sources`: every row of this
  version and every entry has the content of a request that has arrived. So
  what a request conflicts with, unless it is an older row, has a sender.
* `SearchAlwaysFaithful`. `FilesInv`: a file that parses has every id once, so
  the entry a search finds for a row is the one `RowsBacked` speaks of; `HitsInv`
  carries that from the query over the reads to the answer. No mutex is needed.
* `SearchesNeverFail`, for one server without faults. `NeverBad` is the
  invariant: no file is `bad`. The write that would make it so needs a second
  entry with its id, which `UInv` excludes, or a fault.
* `StoreImplementsLedger`. An insert that adds a row is `Bind`, an answer is
  `Accept` or `Refuse`, a crash refuses all requests of its server at once, and
  every other step is a stutter. The invariants used are `TInv`, `BInv` (the row
  of an accepted request is there), and `LegacyKept`: older rows stay, so their
  ids are not bound.

The limiters, for every rate, window, burst, number of buckets, `IdleTTL` and
request size and any number of goroutines. `RefillProofs`, about the two that
keep one number:

* `GCRAAlwaysConforms`, in any order of the times that are applied and with any
  deletions that are not early. `GCRAInv` adds `Ahead`: for every time a call may
  still come with, a span that starts at `s` and was granted `k` units has
  `tat >= s + k * Interval`, or that time is as late itself. An admission books
  `n` intervals after the later of the old `tat` and its time, and not past its
  time plus a burst (`BookedBounds`); times that may come only grow
  (`ComingStays`), so a deletion that is not early forgives nothing.
* `GCRAIdleAlwaysSettled`. `IdleInv` adds `Near` (the arrival time is at most a
  burst past the latest time applied) and `SeenLast` (in order, that is when the
  entry was last seen).
* `GCRARetryAlwaysExact` and `GCRARemainingAlwaysExact` hold of every arrival
  time, reachable or not: they are facts about the division that rounds.
* `TokensAlwaysConserved` and `TokenAlwaysConforms`. One fact carries both:
  `Covers`, what a span was granted and what is left is covered by a full bucket
  and the refill since, as a refill is capped and a grant moves units from one
  side to the other. The first counts from the creation of the entry, in any
  order of calls; the second from any time on, while `ordered`.
* `TokenRetryAlwaysExact`: the wait is a division rounded up (`RoundedUp`).
* `TokenIdleAlwaysSettled`: `SeenInv`, in order the entry was last refilled when
  it was last seen, and a refill over `RefillTime` fills the bucket.

`WindowProofs`, about the two that keep what they admitted. A bound on a window
is not inductive, as it says nothing of the entry; the invariants say where in
the entry the units of a span are.

* `SlidingWindowExact`. `Recorded`: if a span from `s` was granted `w` units and
  `s` is in the window of a call that may still come, the last `w` records at
  least are not older than `s` (`LastFrom`). Pruning takes records from the front
  only (`Pruned`, `PruneKeepsLast`), an admission appends (`AppendKeepsLast`), and
  there are `Rate` records at most. Prune starts at the least index that is kept;
  that there is one is `Least`, from the library's well-founded order.
* `BucketSpanBounded`. `Counted`: the units of a span whose first bucket is kept
  by every call that may come are among the units of that bucket and later ones
  (`UnitsFrom`). With `NothingNewer`, no bucket counts anything that starts after
  the newest time, so pruning leaves them (`PruneKeepsUnits`), and an admission
  adds as many (`AddUnits`). `InBucket` is all there is to know of the division:
  `b <= BucketIndex(t)` iff `BucketSize * b <= t`.
* `SlidingRetryAlwaysExact` and `BucketRetryAlwaysSuffices` need the types and
  the total only, so they hold in any order of calls. The second one assumes
  `BucketCount <= Window`: where a window has fewer clock units than buckets, a
  bucket is one unit long, so the buckets last longer than the window that
  `RetryAfter` waits for, and it is too short. The clock unit of the code is a
  nanosecond and the default is 12 buckets; nothing rejects such a configuration.
* `SlidingIdleAlwaysSettled` and `BucketIdleAlwaysSettled`: in order, no record
  and no unit is newer than when the entry was last seen.
* `EntriesAlwaysTyped`, `RatesAlwaysHeld`, `DecisionsAlwaysKept` (under the same
  assumption) and `IdleAlwaysSettled` put the four together, as the run `limiters`
  checks them.

`SessionManagerProofs`, for any number of starts and ids and any buffer, limit
and TTL; `LogInv` for answers of any length:

* `LiveRunsAreListed`, `LimitHolds`, `CloseMissesNobody`. `StateInv` ties the
  state of a session to how far its goroutine is, so the sessions that `Start`
  counts and `Close` cancels are exactly those that are alive (`ActiveIsAlive`):
  the check and the entry are one critical section, and `finish` and the removal
  are another.
* `ChannelTellsAll`. `LogInv`: what was sent and what is left of the current
  stream event make up the start and all deltas taken so far; a run gives up a
  send only when it is cancelled, and what it has sent is then a prefix.

`QAStreamProofs`, for any number of questions, answers of any length and any
limits:

* `TalkIsFaithful`. What was shown, what the scanner holds and the texts on the
  wire add up to the handler's answer while the connection is up (`CountInv`; the
  count is a function along the wire, `Tally`, that is extended, shifted or cut
  with it). A finished event has the whole answer before it (`Adds`).
* `UnsavedTurnsAreWarned`. `Warns`: before a finished event there is a warning on
  the wire, or one was seen, unless the answer is saved. Events are delivered in
  order and lost only from the end, so who reads the one has read the other.
* `BadStreamsEnd`. `EndInv`: a handler past its loop, and all that follows from
  it, had a producer that is gone without an error. The error is sent without a
  buffer, so the producer is not gone before the handler has it. `StopInv`: a
  request context ends with the handler or after the connection is down, so once a
  stream was stopped for it no finished event gets through, and who has not
  passed the embedder does not.
* `TalkStaysBounded`. `RoomInv`: a question is only answered while there is room
  for its turn.

`ShardedStateProofs`, for any number of goroutines, keys and shards:

* `CountAlwaysExact` and `InsertAlwaysFresh`. `Holding` is the invariant: a
  goroutine from the second look to the insert holds the shard of its key, and
  the key is not there. Looks, sweeps and resets only take keys away and the
  counter with them (`Shrinks`); an insert by somebody else is in another shard.
* `OvershootAlwaysBounded`. Goroutines at the insert hold different shards, so
  they are no more than the shards (`HoldersFew`, by an injection). The last of
  them to pass the check saw a counter below `MaxKeys`, and since then every
  insert took one of them away as it added one key.

`StartupProofs`, for any number of processes and faults:

* `VectorsAlwaysKept` and `AlwaysServesWhole`. Columns are only added, so a
  process past `ensureMemoryColumns` knows all are there (`ColumnsInv`). A process
  that drops the vector table has found it not whole, and unless processes were
  `crowded` nobody has made it whole since (`ShapeInv`); so nobody serves,
  nothing was saved (`SavedInv`), and its copy holds all there was (`CopyInv`).
  `Calm` is the conjunction of what needs that condition. The condition is part
  of both properties; `crowded` says when the code is in no position to keep them.

`ManagedLlamaProofs`, for any number of owners, callers of `Close` and deaths:

* `NeverAChildLeft`. `OwnerInv` relates the step of an owner to its `sync.Once`,
  its done channel and its child: who is past the once, or saw the channel
  closed, has a reaped child.
* `AlwaysOwnServer`. `PortInv`: unless `shared`, one owner at most is after the
  port and no stray server is; so what answers at the dial is its own child.

Every safety property of every passing run is a theorem, and so is the
refinement. Only model-checked is liveness (`AllAnswered`, `InterruptEnds`,
`CallsReturn`, `CtrlCExits`, `TurnsEnd`, `ComesUp`, `EverythingReturns`), which is
out of the prover's reach. The three statements that TLC refutes are not
theorems, of course; what the code does guarantee in their
place is (`OvershootAlwaysBounded`, `VectorsAlwaysKept`, `BadStreamsEnd`).

## 5. Not modelled

* `float64` rounding in the token bucket; nanosecond overflow in durations.
* The rates of a key that is reset, or that is let through unrecorded under
  `AllowNewKey` while the limiter is full: both hand out fresh quota by design,
  and the bounds on rates (`GCRAConforms`, `RatesHeld`) are about one recorded entry
  that nobody resets. The wait of an overtaken call that is refused, counted from
  the time it has read (section 2).
* Files that somebody edits by hand, and deletion of files: the code has none.
* Processes below the llama.cpp child: a wrapper whose own child keeps the output
  pipes open makes `Wait` and `Close` wait for it.
* A client that reads slowly (the server sets
  no write timeout); an embedder that pays no attention to its context (both of
  the repository's look at it); deltas that are only white space.
* The order of search results and the vector arithmetic: any `Limit` rows of
  the owner may be nearest.
* Request and response conversion of the model client, request validation other
  than the size limits, configuration, router, metrics and the limiter registry:
  no state that outlives a call, or a map behind a lock. A model of them would
  repeat the code and its properties would hold by construction.

## 6. Plan

Done: the modules above, in the order memory store, session manager, limiters,
stream, idle cleanup, server start, managed llama.cpp.

Proved: every safety property that a run checks, and the refinement of
`MemoryLedger`.

Next: the steps that the liveness properties rest on are safety statements and
can be proved (what a waiter waits for is held by somebody who can move; a
counter that every retry lowers). Proofs of what an action may never do, such as
a row that changes its text or a terminal state that is left, would follow from
the invariants that are there.
