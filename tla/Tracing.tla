------------------------------ MODULE Tracing ------------------------------
(***************************************************************************)
(* Trace recording and the life cycle of the scheduler modes: the record   *)
(* buffer and its flush (src/src/trace/trace_buffer.c), start, stop,       *)
(* record and clean-up (trace.c), loading a trace for replay (replay.c),   *)
(* the fuzzer's life cycle (fuzz.c) and gth_scheduler_set_mode             *)
(* (src/src/sched/scheduler.c).  Rerun has the scheduling these modes do.  *)
(*                                                                         *)
(* Everything that can fail does: malloc, fopen, each write.  An event is  *)
(* its number since the trace was started.  A record is two halves, so that*)
(* a file can end in, or be shifted by, part of one; a record with two     *)
(* halves of the same event, in order, is one whose checksum matches.      *)
(* trace_enabled and start_time are left out: nothing reads them.          *)
(***************************************************************************)
EXTENDS Integers, Sequences

CONSTANTS
  Null,            \* the NULL pointer; also: no file of that name
  Capacity,        \* GTH_TRACE_BUFFER_COUNT, records the buffer holds
  MaxEvents,       \* bound: events of one trace, without the one stop adds
  Partial,         \* halves that a failing write may leave in the file
  Rates,           \* the rates the program sets
  ReplayFromModes  \* the modes in which the program calls gth_replay_from

ASSUME TracingAssumption ==
  /\ Capacity \in Nat \ {0}
  /\ MaxEvents \in Nat
  /\ Partial \subseteq Nat
  /\ Rates \subseteq Nat

\* What the pointers point to, and what a file holds: the halves of records.
Buffers == Seq(Nat)
Traces == [file : BOOLEAN, buffer : Buffers \cup {Null}, event_count : Nat,
           active : BOOLEAN]
Fuzzers == [perturbation_rate : Nat]
Files == Seq([event : Nat, half : {1, 2}])

ASSUME NullAssumption ==
  Null \notin Traces /\ Null \notin Buffers /\ Null \notin Fuzzers /\ Null \notin Files

Modes == {"NORMAL", "RECORD", "REPLAY", "FUZZ"}
Kinds == {"file", "trace", "buffer", "replay", "fuzz"}

VARIABLES
  initialized, mode,
  trace,    \* state->trace: Null or [file, buffer, event_count, active]
  replay,   \* state->replay: Null or the event numbers loaded
  fuzz,     \* state->fuzz: Null or [perturbation_rate]
  disk,     \* what the trace file holds: Null or a sequence of halves
  live,     \* history: per kind, objects allocated (opened) and not yet freed
  events,   \* history: events since the trace was started, REPLAY excepted
  faulty,   \* history: some write to this trace has failed
  status    \* what the last call returned

vars == <<initialized, mode, trace, replay, fuzz, disk, live, events, faulty,
          status>>

----------------------------------------------------------------------------
(* Functions on the three subsystems, the file and the history together.   *)
(* Where calls may fail they return the set of possible outcomes.          *)

World == [trace |-> trace, replay |-> replay, fuzz |-> fuzz, disk |-> disk,
          live |-> live, events |-> events, faulty |-> faulty]
Becomes(x) == /\ trace' = x.trace
              /\ replay' = x.replay
              /\ fuzz' = x.fuzz
              /\ disk' = x.disk
              /\ live' = x.live
              /\ events' = x.events
              /\ faulty' = x.faulty

Allocate(x, kind) == [x EXCEPT !.live[kind] = @ + 1]
Free(x, kind) == [x EXCEPT !.live[kind] = @ - 1]

Half(e, i) == [event |-> e, half |-> i]
Halves(buf) == [i \in 1 .. 2 * Len(buf) |->
                  Half(buf[(i + 1) \div 2], IF i % 2 = 1 THEN 1 ELSE 2)]
Header == 0   \* as an "event" in the first record

\* gth_trace_buffer_flush and the fflush after it.  The buffer is emptied when
\* fwrite took everything, and kept whole otherwise, whatever part of it has
\* reached the file; what fwrite took may still be lost by fflush.
BufferFlush(x) ==
  LET bytes == Halves(x.trace.buffer)
      written(k) == [x EXCEPT !.disk = @ \o SubSeq(bytes, 1, k)]
      short == {k \in Partial : k < Len(bytes)}
  IN  {[written(Len(bytes)) EXCEPT !.trace.buffer = <<>>]}
      \cup {[written(k) EXCEPT !.faulty = TRUE] : k \in short}
      \cup {[written(k) EXCEPT !.faulty = TRUE, !.trace.buffer = <<>>] : k \in short}

TraceFlush(x) ==
  IF x.trace = Null \/ ~x.trace.file \/ x.trace.buffer \in {Null, <<>>} THEN {x}
  ELSE BufferFlush(x)

\* gth_trace_record: append; when the buffer is full flush it first, and drop
\* the event if that does not help.
BufferAppend(x, e) == [x EXCEPT !.trace.buffer = Append(@, e),
                                !.trace.event_count = @ + 1]
IsFull(x) == Len(x.trace.buffer) >= Capacity

\* Mutant: when the buffer is full the event is dropped before the flush.
TraceRecordDrops(x) ==
  IF x.trace = Null \/ mode = "REPLAY" THEN {x}
  ELSE IF ~x.trace.active THEN {x}
  ELSE LET e == x.events + 1
           y == [x EXCEPT !.events = e]
       IN  IF ~IsFull(y) THEN {BufferAppend(y, e)} ELSE TraceFlush(y)

TraceRecord(x) ==
  IF x.trace = Null \/ mode = "REPLAY" THEN {x}
  ELSE IF ~x.trace.active THEN {x}
  ELSE LET e == x.events + 1
           y == [x EXCEPT !.events = e]
       IN  IF ~IsFull(y) THEN {BufferAppend(y, e)}
           ELSE {IF IsFull(z) THEN z ELSE BufferAppend(z, e) : z \in TraceFlush(y)}

\* gth_trace_cleanup, when state->trace is not NULL.
Closed(x) == IF x.trace.file THEN Free(x, "file") ELSE x
Unbuffered(x) == IF x.trace.buffer # Null THEN Free(x, "buffer") ELSE x
TraceCleanup(x) ==
  IF x.trace = Null THEN {x}
  ELSE {[Free(Closed(Unbuffered(y)), "trace") EXCEPT !.trace = Null] :
          y \in IF x.trace.active THEN TraceFlush(x) ELSE {x}}

\* gth_trace_init: a set of outcomes, with the status each returns.
TraceInit(x) ==
  IF x.trace # Null THEN {<<"ESTATE", x>>}
  ELSE {<<"ENOMEM", x>>,
        <<"OK", [Allocate(x, "trace") EXCEPT
                   !.trace = [file |-> FALSE, buffer |-> Null,
                              event_count |-> 0, active |-> FALSE]]>>}

----------------------------------------------------------------------------
(* gth_trace_start and gth_trace_stop.                                     *)

\* fopen truncates the file; fclose and the reset of the pointer to it.
Open(x) == [Allocate(x, "file") EXCEPT !.trace.file = TRUE, !.disk = <<>>,
                                       !.events = 0, !.faulty = FALSE]
FileClosed(x) == [Free(x, "file") EXCEPT !.trace.file = FALSE]
HeaderBytes == Halves(<<Header>>)

\* What follows a successful gth_trace_init: each step may fail, and undoes
\* what the ones before it did.
StartOutcomes(x) ==
  LET opened == Open(x)
      headed == [opened EXCEPT !.disk = HeaderBytes]
      buffered == [Allocate(headed, "buffer") EXCEPT !.trace.buffer = <<>>,
                                                     !.trace.active = TRUE]
      torn(k) == [opened EXCEPT !.disk = SubSeq(HeaderBytes, 1, k)]
  IN  {<<"EINTERNAL", y>> : y \in TraceCleanup(x)}                  \* no file
      \cup {<<"EINTERNAL", y>> :                                    \* no header
              y \in UNION {TraceCleanup(FileClosed(torn(k))) : k \in Partial \cap {0, 1}}}
      \cup {<<"ENOMEM", y>> : y \in TraceCleanup(FileClosed(headed))}
      \cup {<<"OK", y>> : y \in TraceRecord(buffered)}

TraceStart ==
  /\ initialized
  /\ \E r \in TraceInit(World) :
       \/ r[1] = "ENOMEM" /\ Becomes(r[2]) /\ status' = "ENOMEM"
       \/ /\ r[1] # "ENOMEM"
          /\ \/ r[2].trace.file /\ Becomes(r[2]) /\ status' = "ESTATE"
             \/ /\ ~r[2].trace.file
                /\ \E s \in StartOutcomes(r[2]) : Becomes(s[2]) /\ status' = s[1]
  /\ UNCHANGED <<initialized, mode>>

Recording == trace # Null /\ trace.active

\* Mutant: the pointer to the closed file is kept, and clean-up closes it again.
TraceStopKeepsFile ==
  /\ initialized
  /\ Recording
  /\ \E x \in TraceRecord(World) : \E y \in TraceFlush(x) :
       \E z \in TraceCleanup([Free(y, "file") EXCEPT !.trace.active = FALSE]) : Becomes(z)
  /\ status' = "OK"
  /\ UNCHANGED <<initialized, mode>>

TraceStop ==
  /\ initialized
  /\ Recording
  /\ \E x \in TraceRecord(World) : \E y \in TraceFlush(x) :
       \E z \in TraceCleanup([FileClosed(y) EXCEPT !.trace.active = FALSE]) : Becomes(z)
  /\ status' = "OK"
  /\ UNCHANGED <<initialized, mode>>

\* A call of gth_trace_record by one of the hooks of the runtime.
Hook ==
  /\ initialized
  /\ events < MaxEvents
  /\ \E x \in TraceRecord(World) : Becomes(x)
  /\ UNCHANGED <<initialized, mode, status>>

----------------------------------------------------------------------------
(* gth_replay_from: gth_replay_init, then the mode.                        *)

Whole(d, i) == d[2 * i - 1].event = d[2 * i].event /\ d[2 * i - 1].half < d[2 * i].half

\* Mutant: checksums are not looked at.
CountRecordsTrusts(d) ==
  IF Whole(d, 1) /\ d[1].event = Header THEN Len(d) \div 2 - 1 ELSE 0

\* gth_replay_count_records: the whole records after the header, a part of one
\* at the end ignored; 0 if the header or any checksum is wrong.
CountRecords(d) ==
  LET n == Len(d) \div 2 - 1
  IN  IF d[1].event = Header /\ \A i \in 1 .. n + 1 : Whole(d, i) THEN n ELSE 0

Records(d) == [i \in 1 .. CountRecords(d) |-> d[2 * i + 1].event]

Loadable == disk # Null /\ Len(disk) >= 2 /\ CountRecords(disk) > 0

ReplayFrom ==
  /\ initialized
  /\ mode \in ReplayFromModes
  /\ \/ /\ replay = Null
        /\ Loadable
        /\ replay' = Records(disk)
        /\ live' = [live EXCEPT !["replay"] = @ + 1]
        /\ mode' = "REPLAY"
        /\ status' = "OK"
     \/ /\ \/ replay # Null /\ status' = "ESTATE"
           \/ replay = Null /\ status' = "ENOTFOUND"   \* not opened, or not read
           \/ /\ replay = Null /\ disk # Null
              /\ Len(disk) >= 2 /\ CountRecords(disk) = 0
              /\ status' = "ESTATE"
           \/ replay = Null /\ Loadable /\ status' = "ENOMEM"
        /\ UNCHANGED <<mode, replay, live>>
  /\ UNCHANGED <<initialized, trace, fuzz, disk, events, faulty>>

----------------------------------------------------------------------------
(* gth_scheduler_set_mode, the fuzzer's rate, init and shutdown.           *)

ReplayCleanup(x) ==
  IF x.replay = Null THEN x ELSE [Free(x, "replay") EXCEPT !.replay = Null]
FuzzCleanup(x) ==
  IF x.fuzz = Null THEN x ELSE [Free(x, "fuzz") EXCEPT !.fuzz = Null]

\* gth_fuzz_init, with GTH_FUZZ_DEFAULT_PERTURBATION_RATE.
FuzzInit(x) ==
  IF x.fuzz # Null THEN {<<"ESTATE", x>>}
  ELSE {<<"ENOMEM", x>>,
        <<"OK", [Allocate(x, "fuzz") EXCEPT !.fuzz = [perturbation_rate |-> 10]]>>}

\* Mutant: leaving FUZZ does not free the fuzzer.
LeaveModeKeepsFuzz(x) == CASE mode = "RECORD" -> TraceCleanup(x)
                           [] mode = "REPLAY" -> {ReplayCleanup(x)}
                           [] OTHER -> {x}

\* What the mode that is left has set up is cleaned up.
LeaveMode(x) == CASE mode = "RECORD" -> TraceCleanup(x)
                  [] mode = "REPLAY" -> {ReplayCleanup(x)}
                  [] mode = "FUZZ" -> {FuzzCleanup(x)}
                  [] OTHER -> {x}

\* The new mode is set up; if that fails the mode is NORMAL.  A trace that is
\* there already is kept, a fuzzer that is there already is a failure.
SetMode(m) ==
  /\ initialized
  /\ \E x \in LeaveMode(World) :
       \/ /\ m \in {"NORMAL", "REPLAY"}
          /\ Becomes(x) /\ mode' = m /\ status' = "OK"
       \/ /\ m = "RECORD"
          /\ \E r \in TraceInit(x) :
               /\ Becomes(r[2])
               /\ \/ r[1] = "ENOMEM" /\ mode' = "NORMAL" /\ status' = "ENOMEM"
                  \/ r[1] # "ENOMEM" /\ mode' = "RECORD" /\ status' = "OK"
       \/ /\ m = "FUZZ"
          /\ \E r \in FuzzInit(x) :
               /\ Becomes(r[2])
               /\ mode' = IF r[1] = "OK" THEN "FUZZ" ELSE "NORMAL"
               /\ status' = r[1]
  /\ UNCHANGED initialized

FuzzSetRate(r) ==
  /\ initialized
  /\ \/ fuzz # Null /\ r <= 100 /\ fuzz' = [perturbation_rate |-> r] /\ status' = "OK"
     \/ fuzz # Null /\ r > 100 /\ status' = "EINVAL" /\ UNCHANGED fuzz
     \/ fuzz = Null /\ status' = "ESTATE" /\ UNCHANGED fuzz
  /\ UNCHANGED <<initialized, mode, trace, replay, disk, live, events, faulty>>

RuntimeInit ==
  /\ ~initialized
  /\ initialized' = TRUE
  /\ mode' = "NORMAL" /\ trace' = Null /\ replay' = Null /\ fuzz' = Null
  /\ status' = "OK"
  /\ UNCHANGED <<disk, live, events, faulty>>

RuntimeShutdown ==
  /\ initialized
  /\ \E x \in TraceCleanup(World) :
       Becomes(FuzzCleanup(ReplayCleanup(x)))
  /\ initialized' = FALSE
  /\ mode' = "NORMAL"
  /\ status' = "OK"

\* The calls that are refused without effect: before init, with no path, or a
\* stop with no trace to stop.
Refused ==
  /\ \/ ~initialized /\ status' = "ESTATE"
     \/ initialized /\ status' = "EINVAL"
     \/ initialized /\ ~Recording /\ status' = "ESTATE"
  /\ UNCHANGED <<initialized, mode, trace, replay, fuzz, disk, live, events, faulty>>

----------------------------------------------------------------------------
Init ==
  /\ initialized = FALSE
  /\ mode = "NORMAL"
  /\ trace = Null /\ replay = Null /\ fuzz = Null
  /\ disk = Null
  /\ live = [k \in Kinds |-> 0]
  /\ events = 0
  /\ faulty = FALSE
  /\ status = "NONE"

Next ==
  \/ RuntimeInit
  \/ RuntimeShutdown
  \/ Refused
  \/ TraceStart
  \/ TraceStop
  \/ Hook
  \/ ReplayFrom
  \/ \E m \in Modes : SetMode(m)
  \/ \E r \in Rates : FuzzSetRate(r)

Spec == Init /\ [][Next]_vars

----------------------------------------------------------------------------
(* Properties.                                                             *)

Points(p) == IF p = Null THEN 0 ELSE 1

\* Every object allocated and every file opened is the one g_state points to:
\* no failure inside start, no stop, clean-up, mode switch or shutdown leaks one
\* or frees one twice.
HandlesExact ==
  live = [file |-> IF trace # Null /\ trace.file THEN 1 ELSE 0,
          trace |-> Points(trace),
          buffer |-> IF trace # Null THEN Points(trace.buffer) ELSE 0,
          replay |-> Points(replay),
          fuzz |-> Points(fuzz)]

\* A replay or a fuzzer exists only in its own mode, so that the scheduler never
\* ignores one and entering FUZZ never finds an old one in the way.
NoStaleSubsystem ==
  /\ replay # Null => mode = "REPLAY"
  /\ fuzz # Null => mode = "FUZZ"

\* As long as no write has failed, file and buffer together hold every event
\* since the trace was started, in order, through any number of flushes, the
\* closed file all of them, and event_count is their number.
OnDisk == IF Loadable THEN Records(disk) ELSE <<>>
Buffered == IF trace # Null /\ trace.file THEN trace.buffer ELSE <<>>
TraceComplete ==
  ~faulty /\ disk # Null =>
    /\ OnDisk \o Buffered = [i \in 1 .. events |-> i]
    /\ trace # Null /\ trace.file => trace.event_count = events

\* A trace that the replay accepts, after whatever failures while it was
\* written, has its events in order and none of them twice.
LoadedInOrder ==
  Loadable => \A i, j \in DOMAIN Records(disk) :
                i < j => Records(disk)[i] < Records(disk)[j]
=============================================================================
