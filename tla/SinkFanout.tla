----------------------------- MODULE SinkFanout ------------------------------
(***************************************************************************)
(* From the level check of a log macro to the bytes a sink has flushed:    *)
(* Logger.level (logger.rs), the producer-side filter (macros.rs),         *)
(* process_record and fanout_to_sinks (backend_runner.rs), and StreamSink  *)
(* over a BufWriter (sink.rs).  The queue between them is a FIFO.          *)
(*                                                                         *)
(* A formatted record is two writes to the writer, its text and its        *)
(* newline.  The writer of every concrete sink is a std BufWriter over     *)
(* stdout or a file, external to this code: it keeps what is written in    *)
(* order and pushes it out when it likes; a write or a flush may fail or   *)
(* panic after any part of it.                                             *)
(***************************************************************************)
EXTENDS Integers, Sequences, SequencesExt

CONSTANTS
  Levels,      \* LogLevel as numbers, more severe is larger
  SinkLevels,  \* the logger's sinks in declaration order, each by its level
  MaxRecords   \* bound on the records logged

ASSUME LevelsAssumption == Levels \subseteq Nat /\ SinkLevels \in Seq(Levels)
ASSUME MaxRecordsAssumption == MaxRecords \in Nat

VARIABLES
  level,          \* Logger.level
  level_visible,  \* values a Relaxed load of it may still return
  log,            \* records emitted: [level, gate], gate the level loaded for it
  next,           \* number of the record the worker handles next
  sink,           \* position in the fan-out, 0 when no record is in hand
  flushing,       \* write_record returned Ok, flush is next
  buffer, file,   \* per sink: bytes in its BufWriter, bytes that left it
  write_errors, flush_errors, panic_count,
  stopped         \* run returned

counters == <<write_errors, flush_errors, panic_count>>
vars == <<level, level_visible, log, next, sink, flushing, buffer, file,
          write_errors, flush_errors, panic_count, stopped>>

Sinks == DOMAIN SinkLevels
Line(r) == <<<<r, "text">>, <<r, "newline">>>>

Init ==
  /\ \E l \in Levels : level = l /\ level_visible = {l}
  /\ log = <<>> /\ next = 1 /\ sink = 0 /\ flushing = FALSE
  /\ buffer = [s \in Sinks |-> <<>>] /\ file = [s \in Sinks |-> <<>>]
  /\ write_errors = 0 /\ flush_errors = 0 /\ panic_count = 0
  /\ stopped = FALSE

-----------------------------------------------------------------------------
(* Producer side                                                           *)

\* Logger::set_level, a Relaxed store.
SetLevel(l) ==
  /\ l # level
  /\ level' = l /\ level_visible' = level_visible \cup {l}
  /\ UNCHANGED <<log, next, sink, flushing, buffer, file, counters, stopped>>

\* The store reaches the logging threads.
LevelSettles ==
  /\ level_visible # {level}
  /\ level_visible' = {level}
  /\ UNCHANGED <<level, log, next, sink, flushing, buffer, file, counters, stopped>>

\* The check of __log!, swapped or missing.
EmitsAlways(lv, gate) == TRUE
Emits(lv, gate) == lv >= gate

\* One log macro call at level lv.
LogCall(lv) ==
  /\ Len(log) < MaxRecords /\ ~stopped
  /\ \E gate \in level_visible :
       log' = IF Emits(lv, gate) THEN Append(log, [level |-> lv, gate |-> gate]) ELSE log
  /\ UNCHANGED <<level, level_visible, next, sink, flushing, buffer, file, counters, stopped>>

-----------------------------------------------------------------------------
(* fanout_to_sinks                                                         *)

\* Not consuming the record that was handled.
HandledAgain == next
Handled == next + 1

InHand == sink > 0
Record == log[next]

\* process_record resolves the logger and starts the fan-out.
ProcessRecord ==
  /\ ~InHand /\ next <= Len(log) /\ ~stopped
  /\ sink' = 1
  /\ UNCHANGED <<level, level_visible, log, next, flushing, buffer, file, counters, stopped>>

\* A sink whose comparison is off by one also takes the next lower level.
AcceptsOffByOne(s) == Record.level + 1 >= SinkLevels[s]
Accepts(s) == Record.level >= SinkLevels[s]

AtSink == sink \in Sinks
NextSink == sink' = sink + 1 /\ flushing' = FALSE

SkipSink ==
  /\ AtSink /\ ~flushing /\ ~Accepts(sink)
  /\ NextSink
  /\ UNCHANGED <<level, level_visible, log, next, buffer, file, counters, stopped>>

\* The writer takes chunks behind what it holds and pushes out as much as it
\* likes, always from the front.
Buffered(s, chunks) ==
  LET held == buffer[s] \o chunks IN
  \E k \in 0..Len(held) :
    /\ file' = [file EXCEPT ![s] = @ \o SubSeq(held, 1, k)]
    /\ buffer' = [buffer EXCEPT ![s] = SubSeq(held, k + 1, Len(held))]

\* The writer refuses the text of a record, or only its newline.  A BufWriter
\* that holds nothing has room for the newline behind any text it keeps, and
\* hands a text that is too large for it straight on (of which a part may have
\* gone out): a refusal adds to a buffer only behind the tail of a failed flush.
Refused(s) ==
  /\ \E k \in {0, 1} : Buffered(s, SubSeq(Line(next), 1, k))
  /\ buffer[s] = <<>> => buffer'[s] = <<>>

\* write_record returns Ok: format_line wrote the text and the newline.
WriteOk ==
  /\ AtSink /\ ~flushing /\ Accepts(sink)
  /\ Buffered(sink, Line(next))
  /\ flushing' = TRUE
  /\ UNCHANGED <<level, level_visible, log, next, sink, counters, stopped>>

\* An error of write_record that nobody counts.
WriteErrUncounted ==
  /\ AtSink /\ ~flushing /\ Accepts(sink)
  /\ Refused(sink)
  /\ NextSink
  /\ UNCHANGED <<level, level_visible, log, next, counters, stopped>>

\* Trying the same record again after an error.
WriteErrRetries ==
  /\ AtSink /\ ~flushing /\ Accepts(sink)
  /\ Refused(sink)
  /\ write_errors' = write_errors + 1
  /\ UNCHANGED <<level, level_visible, log, next, sink, flushing, flush_errors, panic_count, stopped>>

\* write_record returns Err: the text, or only its newline, was refused.
WriteErr ==
  /\ AtSink /\ ~flushing /\ Accepts(sink)
  /\ Refused(sink)
  /\ write_errors' = write_errors + 1
  /\ NextSink
  /\ UNCHANGED <<level, level_visible, log, next, flush_errors, panic_count, stopped>>

\* flush returns Ok.
FlushOk ==
  /\ AtSink /\ flushing
  /\ file' = [file EXCEPT ![sink] = @ \o buffer[sink]]
  /\ buffer' = [buffer EXCEPT ![sink] = <<>>]
  /\ NextSink
  /\ UNCHANGED <<level, level_visible, log, next, counters, stopped>>

\* flush returns Err after pushing out some prefix of the buffer.
FlushErr ==
  /\ AtSink /\ flushing
  /\ Buffered(sink, <<>>)
  /\ flush_errors' = flush_errors + 1
  /\ NextSink
  /\ UNCHANGED <<level, level_visible, log, next, write_errors, panic_count, stopped>>

\* A panicking sink that leaves its record in the worker's hand.
SinkPanicStuck ==
  /\ AtSink /\ (flushing \/ Accepts(sink))
  /\ panic_count' = IF panic_count < MaxRecords THEN panic_count + 1 ELSE panic_count
  /\ flushing' = FALSE /\ stopped' = TRUE
  /\ UNCHANGED <<level, level_visible, log, next, sink, buffer, file, write_errors, flush_errors>>

\* write_record or flush panics: catch_unwind ends the fan-out of this record,
\* so its later sinks never see it.
SinkPanic ==
  /\ AtSink
  /\ IF flushing THEN Buffered(sink, <<>>)
     ELSE Accepts(sink) /\ Refused(sink)
  /\ panic_count' = panic_count + 1
  /\ sink' = 0 /\ flushing' = FALSE /\ next' = Handled
  /\ UNCHANGED <<level, level_visible, log, write_errors, flush_errors, stopped>>

\* The last sink is done.
RecordDone ==
  /\ InHand /\ ~AtSink
  /\ sink' = 0 /\ next' = Handled
  /\ UNCHANGED <<level, level_visible, log, flushing, buffer, file, counters, stopped>>

\* run returns once everything is drained; no sink is called on the way out.
Stop ==
  /\ ~InHand /\ next > Len(log) /\ ~stopped
  /\ stopped' = TRUE
  /\ UNCHANGED <<level, level_visible, log, next, sink, flushing, buffer, file, counters>>

-----------------------------------------------------------------------------
Fanout == ProcessRecord \/ SkipSink \/ WriteOk \/ WriteErr \/ FlushOk \/ FlushErr
          \/ SinkPanic \/ RecordDone

Next ==
  \/ \E l \in Levels : SetLevel(l) \/ LogCall(l)
  \/ LevelSettles \/ Fanout \/ Stop

Spec == Init /\ [][Next]_vars
FairSpec == Spec /\ WF_vars(Fanout) /\ WF_vars(Stop)

-----------------------------------------------------------------------------
(* Properties                                                              *)

Written(s) == file[s] \o buffer[s]
HasLine(w, r) == \E i \in 1..(Len(w) - 1) : <<w[i], w[i + 1]>> = Line(r)

TypeOK ==
  /\ level \in Levels /\ level_visible \subseteq Levels
  /\ log \in Seq([level : Levels, gate : Levels]) /\ Len(log) <= MaxRecords
  /\ next \in 1..(MaxRecords + 1) /\ sink \in 0..(Len(SinkLevels) + 1)
  /\ flushing \in BOOLEAN /\ stopped \in BOOLEAN
  /\ \A s \in Sinks : Written(s) \in Seq((1..MaxRecords) \X {"text", "newline"})
  /\ {write_errors, flush_errors, panic_count} \subseteq 0..(MaxRecords * Len(SinkLevels))

\* The effective level of a sink is max(logger.level, sink.level): nothing below
\* the level the macro saw, or below the sink's own, ever reaches its writer.
EffectiveLevel ==
  \A s \in Sinks : \A i \in DOMAIN Written(s) :
    LET r == log[Written(s)[i][1]] IN r.level >= r.gate /\ r.level >= SinkLevels[s]

\* What a sink has written is in record order without repeats, whatever failed
\* in between; a record's newline never comes without its text.
OrderedOutput ==
  \A s \in Sinks : LET w == Written(s) IN
    /\ \A i, j \in DOMAIN w : i < j => w[i][1] < w[j][1]
                                       \/ (w[i][1] = w[j][1] /\ w[i][2] = "text" /\ w[j][2] = "newline")
    /\ \A i \in DOMAIN w : w[i][2] = "newline" => i > 1 /\ w[i - 1] = <<w[i][1], "text">>

\* Nothing is lost silently: while the three counters are zero, every record
\* already handled is on the other side of the writer of every sink that
\* accepts its level.
NoSilentLoss ==
  write_errors = 0 /\ flush_errors = 0 /\ panic_count = 0 =>
    \A s \in Sinks : \A r \in 1..(next - 1) :
      log[r].level >= SinkLevels[s] => HasLine(file[s], r)

\* A failing or panicking sink never stops the worker: every emitted record is
\* handled.
EveryRecordHandled == \A r \in 1..MaxRecords : Len(log) >= r ~> next > r

\* The doc comment of Sink::flush says the worker calls it at shutdown: the step
\* that ends run leaves nothing in a buffer, unless its flush fails as well and
\* is counted.  A sink that has panicked is excused.
FlushedAtShutdown ==
  [][~stopped /\ stopped' =>
       \/ \A s \in Sinks : buffer'[s] = <<>>
       \/ flush_errors' > flush_errors \/ panic_count' > 0]_vars
=============================================================================
