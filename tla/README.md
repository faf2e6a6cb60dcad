# insomnilog in TLA+

insomnilog is an asynchronous logging crate. A log macro on an application
thread writes a binary record into a queue that belongs to that thread alone; one
worker thread reads all queues, decodes the records and hands them to the sinks
of the record's logger. The promises worth checking are about what happens
between those threads: no record is torn, overwritten, reordered or silently
lost, the worker treats all threads fairly, and shutdown drains and returns.

All paths below are relative to `insomnilog/` in the repository.

## Inventory

| Component | State | Operations | Interacts with | What is hard | What makes it correct |
| --- | --- | --- | --- | --- | --- |
| SPSC queue, `src/queue.rs` | byte buffer of twice the capacity, two atomic wrapping positions, a cached copy of the other side's position on each side | `Producer::write`, `Consumer::available`, `peek`, `read` | written by the log macros, read by the worker | two threads without a lock, stale positions, wrap-around of positions and of the ring, a closure that unwinds | records arrive whole, unchanged and in order; neither side touches the other's bytes |
| Per-thread halves, `src/per_thread_queue.rs` | `alive` flag | creation, `Drop` | thread exit, retiring | a last record and the exit race with the worker | a consumer is retired only when dead and empty |
| Frontend, `src/frontend.rs` | thread-local producer in a `RefCell` | lazy registration, borrow for a write | backend registry | re-entrant logging, panics under the borrow | one queue per thread, none for the worker, a slot that stays usable |
| Log macros, `src/macros.rs` | none | level check, size, write, drop counting | logger, queue, backend | arguments evaluated several times, nested logging | nothing below the level is emitted, drops are counted, what is encoded fits what was reserved, a call never waits |
| Worker, `src/backend_runner.rs` | consumer registry, shutdown flag, counters | `run`: snapshot, drain in batches, retire, check pending; fan-out | everything | snapshots that go stale, memory order of the flags, starvation, panicking sinks | drain before exit, fairness, no stranded queue, every loss counted |
| Backend, `src/backend.rs` | registries of sinks and loggers, join handle, worker id | `start`, `register_sink`, `create_logger`, getters, `create_producer`, `shutdown` | application threads, worker | concurrent callers, the id handshake | one object per name for ever, shutdown idempotent and complete |
| Lifecycle, `src/lifecycle.rs` | start latch, backend cell, guard | `start`, `shutdown`, wrappers | backend | the window between latch and cell, a spawn that fails | at most one backend, calls return |
| Logger and levels, `src/logger.rs`, `src/level.rs` | atomic level, sink list | `level`, `set_level` | macros, fan-out | relaxed accesses | effective level is the maximum of logger and sink |
| Stream sinks, `src/sink.rs` | buffered writer | `write_record`, `flush` | worker, operating system | partial writes, failing flush, poisoned lock after a panic | output in record order, errors counted |
| Session rotation, `src/sink.rs` | files on disk | `SessionFileSink::try_new` | operating system | a failure or a crash between two file operations, changing `max_backups` | only the oldest backup goes, order is kept |
| Codec, `src/encode.rs`, `src/decode.rs`, `src/record.rs` | none | encode, decode | macros, worker | sizes, tags, widening casts, user decoders | decode inverts encode, argument after argument |
| Formatter, `src/formatter.rs` | parsed pattern | parse, format | sinks | one-character lookahead, overflow of a width, characters and bytes, surplus placeholders | specs as documented, nothing lost, no truncation |

Call-site metadata (`src/metadata.rs`), the crate root, the build script,
examples, documentation and tests hold no state of the running system.

`PROJECT.json` lists the hazards with their source lines and the properties that
cover them.

## Modules

| Module | Models | State and actions |
| --- | --- | --- |
| `SpscQueue`, `SpscQueueProofs` | `queue.rs`, driven as `log_write` and `try_read_one` drive it | one variable per field of `QueueInner`, `Producer` and `Consumer`; one action per atomic access and per byte of a closure |
| `BoundedFifo` | what `queue.rs` promises | a sequence of records of at most `C` bytes; `Write`, `Read` |
| `SpscQueueHistory` | the order in which unread records were committed | one history variable, `unread`; the refinement mapping to `BoundedFifo` |
| `BackendRunner`, `BackendRunnerProofs` | `run` and its helpers, thread registration and exit, `Backend::shutdown` | queues are counts of records, worker and callers have program counters; one action per load, store or critical section |
| `SinkFanout`, `SinkFanoutProofs` | `__log!`'s filter, `Logger`, `fanout_to_sinks`, `StreamSink` | records, the level and the values of it still visible, per sink the buffered and the flushed chunks |
| `Lifecycle`, `LifecycleProofs` | `lifecycle.rs`, `Backend::start`, the registries | the latch, the cell, the worker, the two maps, per thread its position and last result |
| `SessionRotation`, `SessionRotationProofs` | `SessionFileSink` construction | slot to session number; one action per file operation |
| `WireFormat`, `WireFormatProofs` | `encode.rs`, `decode.rs` | operators on sequences of bytes, no state |
| `LogCall`, `LogCallProofs` | `__log!`, `log_write`, `frontend.rs`, the loop of `decode_record` | the stack of calls a thread is in, the slot and its borrow, the bytes reserved, the records queued; one action per evaluation of an argument |
| `PatternFormatter`, `PatternFormatterProofs` | `formatter.rs` | the scanner's buffers and the output buffer; one action per character scanned and per element emitted |

A module `XProofs` holds the theorems about `X`, a module `MCX` its finite instances. Composition is by abstraction: `LogCall` follows a call from its arguments to
the decoded record through a queue of whole records, `SpscQueue` shows that a queue
is such a FIFO, `BackendRunner` uses such FIFOs and shows which records reach
`process_record`, `SinkFanout` follows a record from there to its sinks,
`PatternFormatter` turns it into text, and
`Lifecycle` shows that there is one backend and one worker to begin with.

### SpscQueue

Positions are `0..M-1` with `M` standing for 2^w; `WrapAdd` and `WrapSub` are the
wrapping operations. A record is a length (at least the header `H`) and a
payload; each byte in the buffer remembers which byte of which record it is, so a
torn or overwritten record is visible to `Decode`.

A position is stored with Release and loaded with Acquire by the other side. A
load may return any value that is not older than the last one loaded:
`w_visible` and `r_visible` hold those values. Because a load that returns a
position synchronises with its store, the bytes up to that position are visible
with it, and one copy of `buf` suffices. `FillByte` and `CopyByte` are single
steps, so the fill of a record interleaves with the copy of another.
`FillPanics` is a closure that unwinds. A *read* closure that unwinds ends the
worker and is in `BackendRunner` (`DecoderPanic`).

`starts`, the set of start positions of committed unread records, is auxiliary:
no guard reads it. `SpscQueueHistory` adds `unread`, the same positions in the order
of their commits: `HCommit` appends, `HAdvance` removes the first, no other step
changes it and it restrains none. The abstract queue is the sequence of records
read back from the buffer at those positions.

### BackendRunner

Per thread, `pend` counts unread records, `cached` what the consumer's cached
position covers, `floor` how many unread records a load is certain to see, `lag`
how many reads the producer does not know of. Reading `alive = false` raises
`floor` to everything the thread committed, reading the shutdown flag raises it
to what happened before the store. `must[c]` counts the unprocessed records that
happen before caller `c`'s store: its own, and those of threads it joined.
`option`, chosen in `Init` and never changed, says what program this is: whether
shutdown drains, whether threads go on logging after it, whether a decoder may
panic.

### WireFormat and LogCall

An argument is its type, its bytes in memory and, for a `CustomEncode` value, the
bytes of its decoder pointer. A byte is a digit in base `Base` and byte order is
little-endian, so widening `usize` and `isize` to 64 bits (`Cast`) and `u32` length
prefixes are modelled by what they do. `Utf8` and the user's decoders are
parameters. `WireFormat` declares no RECURSIVE operator; `WireFormatProofs` proves
about it.

`__log!` evaluates an argument expression three times. In `LogCall` each evaluation
is a step that returns any member of `Yields[e]`, first makes the log call
`Calls[e]` if there is one, or panics (`ArgumentPanics`). A nested call that passes
its level check during the first evaluation writes its own record; during
the second it finds the slot borrowed and panics, so the enclosing call never
commits. (`with_producer` does not list that panic; the model has it as
`EnsureFails`.) A panic unwinds the whole stack and releases the borrow. Bytes that `encode_to`
would write outside the reservation are not followed further: `InsideReservation`
says there are none. `locked` is the mutex of `BackendRunner.consumers` in the hands of another
thread, the worker or a registering one (`OthersLock`, `OthersUnlock`, at any time);
`create_producer` waits for it, so the first call of a thread does and no later one. `said` in a record is auxiliary, what its writer encoded.

### PatternFormatter

Text is a sequence of `Char`, and a field name counts as one character, so
that no property depends on spelling. `Patterns`, `RecordsFor` and `Existing` are
texts and records over `Char`, which holds at least the blank, the braces and the
digits. `CloseBrace` does what the code does at a
`}`: field name, spec, flush of the literal, new element, or the error. `text` of a
field element is auxiliary, the placeholder it was parsed from. `MaxUsize`
bounds a width. Where code and grammar in the module documentation differ, the model
follows the code: a width may begin with `+` (`str::parse`) and may be 0 (the error text at
`formatter.rs:104` says non-negative, the grammar at `formatter.rs:38` positive). `Derives` is the grammar of the code: the
documented widths are `DocumentedWidth`, the ones beyond it `LenientWidth`. A `}` cannot be a fill character
because it ends the placeholder.

### SinkFanout

A line is two chunks, text and newline, as `format_line` writes them. The
writer (`BufWriter` over a file or stdout, as in every concrete sink) is external: it keeps
chunks in order and pushes out any prefix at any write or flush; errors and panics may
come after any part. A write that fails (`Refused`) leaves nothing in a buffer that was
empty: a `BufWriter` keeps a text only if that leaves room for the newline, and hands a
larger one straight on. It may add to the tail that a failed flush left.

### Lifecycle and SessionRotation

`Lifecycle` treats `run` as a worker that exits some time after the flag is stored, which
`BackendRunner` shows of every program but one (`ShutdownReturns`): while the worker must drain
queues that threads keep filling it need not exit. `flooded` is that case: a program may begin
in it and leave it (`ProducersStop`), or never leave it. In `SessionRotation`, `Abort` is both an `io::Error` of the next
operation, which aborts the construction, and a crash. Two processes rotating the
same path at once are not modelled: the crate has no lock for that and promises
nothing.

## Runs

| Run | Instance | Shows |
| --- | --- | --- |
| `queue` | C=2, M=8, H=1, sizes 1, 2 and 3, two payloads | type, `NoUnderflow`, `NoOverlap`, `WholeRecords`, `Intact`, `AdvanceWithinSeen`, refinement of `BoundedFifo`, every committed record is read |
| `backend` | two threads, one of them shuts down, two records per queue, batch of 2, three kinds of program | retired queues are empty, a draining shutdown drains |
| `backend_live` | one record per queue, batch of 1, the same programs | no starvation, shutdown returns, registry converges |
| `fanout` | two levels, a strict sink before a permissive one, two records | filtering, order, no silent loss, progress |
| `lifecycle` | two threads, one name | one backend, id known, one winner per name, stability, calls return unless the worker is flooded |
| `rotation` | `max_backups` 0 to 3, changing, six sessions | order, fresh file, recent sessions kept up to one per aborted start, nothing else dropped |
| `log_call` | nine call sites, 4-byte pointers, bytes of 32 values, three calls, a queue of 24 bytes | decoded is what was encoded, encoding stays inside the reservation, the borrow matches the calls, one queue, no call waits but a first one for the mutex |
| `formatter` | all patterns of up to 6 characters, all specs of up to 4, all messages of up to 5 with up to two arguments, the default pattern | nothing lost, placeholders follow the code's grammar, messages are positional, padding surrounds, the time shown is the record's |

Bounds. C=2 with records of 1 and 2 bytes makes records straddle the ring boundary,
fill the queue exactly and leave a gap too small for the other; 3 is oversized.
M=8 makes positions wrap after four rounds of the ring, so every relation of
cached and current positions across the wrap occurs. The theorems remove these
bounds. In `BackendRunner` two threads are what starvation and
the registration race need (three were tried with the same result); two records
per queue distinguish "the last record" from "a record". In `SinkFanout` the second
record is the one a failure of the first may damage. Six sessions exceed the
four slots of the largest rotation. In `LogCall` two records of most sites fit the
queue and three do not, one site is larger than the queue, and three calls are a
full queue and one more; the sites cover every shape of argument (fixed, widened, string,
custom with a decoder that refuses, bool), an argument that logs and is emitted,
and one that logs and is filtered. Base 32 is the smallest power of two that
holds all tags. Specs of 4 characters reach every pair of fill, alignment, zero
flag and a two-digit width, and `MaxUsize` = 31 makes some of those overflow.

`CHECK_DEADLOCK FALSE` is set where the system stops: after shutdown, when the
bound on records or calls is reached, when the last session has ended, and when a
pattern was refused.

### Fairness

* `SpscQueue`: the worker calls `try_read_one` again and again and finishes what it
  began. A load that returns the old position changes nothing, so weak fairness of
  `TryReadOne` also says that a store becomes visible eventually. Nothing is
  assumed of the producer.
* `BackendRunner`: weak fairness of the worker, of a thread inside `shutdown`, and of
  `Propagate`, the visibility of stores. Nothing is assumed of logging threads, so
  `NoStarvation` holds against a thread that floods its queue.
  `ShutdownReturns` exempts only draining programs whose threads go on producing: ADR
  0012 makes stopping the caller's contract and accepts that a producer that never
  stops blocks a draining shutdown.
* `LogCall`: weak fairness of the calling thread inside a call, and of nothing else,
  so that `NeverBlocks` holds although the worker may never run and the consumers mutex
  may never be released. `docs/preallocating.md` says that registration takes a lock and
  that later calls are lock-free; a `std` mutex is not fair, so a first call is only shown to
  end or to reach the mutex.
* `SinkFanout`: weak fairness of the worker.
* `Lifecycle`: weak fairness of threads inside `start` or `shutdown`, of the worker's report,
  and of its exit only while it is not flooded. Nothing makes `ProducersStop` happen, and `CallsReturn`
  claims nothing of a shutdown whose worker stays flooded.

### Disagreements between code and documentation

Four runs are expected to be violated; each states a sentence of the documentation.

* `concurrent_shutdown`: a second concurrent caller of `shutdown` returns before its
  records are drained, because only the taker of the join handle waits.
* `decoder_panic`: a panicking custom decoder is outside the worker's
  `catch_unwind`; it ends the worker, and shutdown returns with records unread.
* `unflushed_at_shutdown`: `Sink::flush` is documented as called at shutdown; it is called
  only after a successful `write_record`. What a failed flush left in the `BufWriter` is
  therefore not tried again when the worker returns. `FlushedAtShutdown` is about the last step of
  `run`, so earlier failures are no excuse and a failure of that step's own flush would be.
* `unstable_args`: the SAFETY comment of `__log!` takes it that an argument's size at the
  first evaluation is its size at the last. An expression that returns strings of
  different lengths breaks that; the passing run has expressions whose values
  differ and whose sizes agree.

One more is stated as what does hold. `docs/sinks.md` says that `max_backups = N`
"keeps the `N` most recent previous runs"; `rotate` deletes slot N whenever it is
called, so a start that fails after the renames costs one of them at the next
start. `KeepsRecent` says that it is at most one per aborted start, the oldest.

## Proofs

Every theorem holds for all values of the constants that satisfy the assumptions
of the module it is about. Every invariant, every action property and the
refinement that the passing runs check is proved; the liveness properties are not.
The inductive invariants were checked with TLC before they were proved, except
those of the formatter, which quantify over infinite sets: there TLC checked
the properties.

### SpscQueueProofs

`Spec` implies `[]TypeOK`, `[]NoUnderflow`, `[]NoOverlap`, `[]WholeRecords`,
`[]Intact` and `AdvanceWithinSeen`, and `HSpec` implies `ImplementsFifo`, for every
capacity, position width, header size and set of record sizes. Assumptions: the capacity is a positive power of two, the number of
positions a multiple of it and at least twice as large, every record has a
header. (The power of two is not used; that C divides M is.)

None of the invariants is inductive. The strengthening `IInv` has two parts.

1. `PosInv`, about positions only. `Behind(p)`, the wrapping distance from `p` to the
   producer's position, linearises the wrapping order: everything the producer
   holds or may load of `read_pos` is at least as far behind as `read` and at most
   C, everything the consumer holds or may load of `write_pos` is at most as far
   behind as `read` (`Order`); a reservation fits above `cached_read`, and `avail` is
   covered by `cached_write` (`Locals`). Wrapping arithmetic is met only in
   the lemmas `WrapDiff`, `WrapForward` and `WrapCatchUp`.
2. `DataInv`, about bytes. Committed records lie between `read` and `write` and carry
   their own bytes (`Records`), a record ends where the next begins (`Apart`), every
   observable write position is a record boundary (`Boundaries`), and what the
   closures have written or copied is what the record says (`Closures`).

The step that needs an idea is that filling a reserved byte does not disturb a
committed one. Both lie in a window of less than C positions, and two positions
whose cells coincide differ by a multiple of C (`CellsApart`, which needs C to divide M
when the window spans the wrap); there is no multiple of C strictly between 0
and C (`NoMultiple`).

`RefinesFifo` shows that a commit is a `Write` of `BoundedFifo`, the end of a read is
a `Read` of its oldest record, and every other step stutters. It adds `Line` to
`IInv`: the positions in `unread` are those of unread records, the first is `read`,
and each record reaches to the next one or to `write`. From this follows
that the lengths add up to the distance between `read` and `write`, hence the
bound of C bytes, and that a step which writes or copies a byte leaves every
record of the sequence as it is.

### BackendRunnerProofs

For every set of threads, queue capacity and batch size: `[]TypeOK` and
`[]RetiredEmpty`. A consumer is retired after two looks, `alive` and then
`available`, with steps of the thread between them. `RetiredEmpty` follows from
`Dead`: between the looks the thread has exited and, having read `alive = false`,
the worker sees everything it committed (`floor = pend`). The rest of `IInv` ties
the cached and visible counts together (`Queues`) and says where the worker holds a
record or an index (`Control`).

`DrainsAtShutdown` states `[]ShutdownDrains` under two hypotheses on the constants, one
caller of `shutdown` (`OneCaller`) and no panicking decoder in a draining
program (`DecodersReturn`). The runs `concurrent_shutdown` and `decoder_panic`
violate the property when one of them is dropped, so neither can be weakened away. The
extra invariant `DrainInv` follows the promise along the worker's path: once it has
loaded the flag, its loads return everything due (`Seen`); the final loop has found
nothing due in the queues it has passed (`Checked`); so nothing is due when `run`
returns (`Drained`).

### SinkFanoutProofs

For every list of sinks and levels: `[]TypeOK`, `[]EffectiveLevel`,
`[]OrderedOutput` and `[]NoSilentLoss`. `Output` says of the bytes of a sink, buffered or flushed, that
they belong to records that passed it, are accepted by it, and are in order, a
newline never without its text; it is stated over the concatenation of file and
buffer, which flushing leaves alone. `Complete` says that
with all counters at zero a handled record has its whole line (`HasLine`)
in the file. `Failures` bounds the counters by the sinks passed
so far.

### LifecycleProofs

For every set of threads and names: `[]TypeOK`, `[]OneBackend`, `[]WorkerKnown`, `[]OneWinner`
and `RegistryStable`. `Latch` treats the start latch as a token that is used up:
before it is taken nothing exists, its one taker holds it until the backend is
published. `Registries` remembers what each registering thread was told, which
makes `OneWinner` inductive.

### SessionRotationProofs

For every finite choice of `max_backups` (a set with a largest element) and every number of
sessions: `[]TypeOK`, `[]Ordered`, `[]KeepsRecent` and `OnlyOldestDropped`. `Hole` says that the slot the cascade
fills next is empty, so no rename overwrites; `Placed` bounds where each session
that is safe from the next rotation lies, before, during and after the cascade, by the
starts aborted since it was opened.

### WireFormatProofs

`WritesEncodedSize` is the contract of the `Encode` trait (`encode.rs`: "encode_to
writes exactly encoded_size bytes"), on which the unsafe write closure of `__log!`
rests. `DecodesEncoded` is the other half: on data that begins with an encoded
argument, whatever follows, `decode_one` returns its meaning and consumes exactly
`encoded_size` bytes, unless a user's decoder refuses the payload. Both hold for every
byte base above 16, every pointer size up to 8 and every well-formed argument.
`LenRoundTrip` is the `u32` prefix, `CastMeaning` the widening of `usize` and
`isize`, `EncodedParts` the place of every part.

### LogCallProofs

Whatever the arguments return, call or panic, at any depth of nesting: `[]TypeOK`,
`[]OneQueue` and `[]BorrowMatchesStack`. `IInv` adds the types of the stack's frames,
that at most one of them is inside `write` (`Borrowing`), and that the reservation and
each committed record have the length their owner believes (`Reserved`, `Committed`).

`WritesInside` (`[]InsideReservation`) and `DecodesWhatWasLogged` (`[]RoundTrip`) need what the write
closure takes for granted, the hypothesis `Layout(Ends)`: every evaluation of an
argument has the same size, so that offsets `Ends` exist, and a call stays below
2^32 bytes. The instance of run `log_call` has such offsets and that of
`unstable_args`, which violates the property, has none; `MCLogCall` has TLC
evaluate both (`StableHasLayout`). The offsets are a parameter because the sum over an argument
list is a recursive definition. The invariant `LInv`: the locals of every call on the stack follow the
layout and the bytes encoded so far are in place (`Laying`), a committed record
holds all its arguments (`Wholes`), and the decode loop stands at the beginning of
an argument (`Reading`). The step of the loop is `DecodesEncoded`.

### PatternFormatterProofs

For every set of characters, every pattern, every record and every content of the
output buffer: `[]Lossless`, `[]PlaceholdersFollowGrammar`, `[]MessagePositional`,
`PadsAround` and `[]TimeShown`. Assumptions: `Char` holds the characters the code
compares with or emits, patterns and records are texts over it, a usize holds at
least the number 9, and `None` is no alignment.

`Display`, `ValueOf`, `FormatMessage` and `FlattenSeq` are recursive functions, defined
by CHOOSE. The first part of the module shows that they exist and satisfy
their equations. Induction is over a set of naturals, from the library's
theorem that a well-founded relation has minimal elements; recursion is stated with a
function as the step (`Recursion`, `PrefixRecursion`, `DescentInduction`), because
the provers cannot instantiate an operator. What they compute follows: the value of
an extended digit string (`ValueAppend`), `Display` is the numeral of its argument
(`DisplayNumeral`), flattening an appended sequence (used for `Lossless`), and the one-pass
scan of `format_message` emits, from each character on, what remains of the
positional reading.

* `FormatInv` is the typing, and says when a value is pending. `MessagePositional` and
  `PadsAround` rest on it alone.
* `GrammarInv` is `PlaceholdersFollowGrammar` element by element; that the lookahead
  takes no wrong turn is a lemma about `ParseFormatSpec` (`SpecAccepted`), and so is
  that a refused spec has no derivation.
* `SpellInv` adds to `Lossless` that while parsing the elements end in a field, which
  keeps two literals apart.
* `ScanInv` follows the scan of the default pattern: in which of its six segments
  the scanner is, what it has collected, and what each element so far is. Hence no error,
  and twelve elements. `OutInv` follows the output: before element 4 its length, and from
  there the digits of the seconds, the point, three digits of the milliseconds, the
  bracket. `TimeIsShown` combines them with `TimeSplits`, that 1000 times the seconds
  plus the milliseconds is the timestamp in milliseconds, and with `PaddedMillis`, that `:03`
  always gives three digits.

### Only model-checked

* Every liveness property (`EventuallyRead`, `NoStarvation`, `ShutdownReturns`,
  `RegistryConverges`, `EveryRecordHandled`, `CallsReturn`, `NeverBlocks`): the
  prover has no rules for fairness.
* The four runs that end in a violation: they are counterexamples.

## Not modelled

The wording of error messages and of the stderr summaries, the clock behind
`timestamp_ns`, idle back-off times (yield and sleep are one step), logging from
thread-local destructors, arguments of 4 GiB and more (documented as
unsupported), the `Display` of numbers other than unsigned integers, allocation
failure, more than one process.

Call-site metadata and levels are tables without operations. The crate root,
build script, examples and tests are not part of the running system, and neither is
`docs/mermaid.tiny.js`, a vendored, minified diagram renderer that the
documentation pages load.

## Plan

1. `WireFormat`: a truncated argument is `BufferTooShort`.
2. `BackendRunner`: an abstract specification (a bag of records, each processed
   once, shutdown after all that happened before) refined by the detailed one.
