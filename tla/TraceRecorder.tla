--------------------------- MODULE TraceRecorder ---------------------------
(***************************************************************************)
(* tracking/recorder.py: the JSONL writer of a run's evidence.  emit hands *)
(* a record to a buffered binary stream, flushes it and only then counts   *)
(* it; any failure on the way is remembered in error and disables the      *)
(* recorder.  The steps of emit are separate actions, so that a crash of   *)
(* the process or a KeyboardInterrupt can fall between them.               *)
(***************************************************************************)
EXTENDS TraceReader

CONSTANTS
  RunId,          \* the identifier of this run
  MaxCalls,       \* bound: calls of emit
  MaxClock,       \* bound: readings of the injected monotonic clock
  MaxInterrupts   \* bound: KeyboardInterrupts raised inside emit

ASSUME RecorderAssumption ==
  /\ RunId \in RunIds
  /\ MaxCalls \in Nat /\ MaxClock \in Nat /\ MaxInterrupts \in Nat
  /\ MaxCalls <= MAX_TRACE_EVENTS

VARIABLES
  sequence,    \* TraceRecorder._sequence
  elapsed,     \* TraceRecorder._elapsed
  terminal,    \* TraceRecorder._terminal
  error,       \* 0, or the line_number of TraceRecorder.error
  pc,          \* "ready", or how far a call is: "written", "flushed", "closing"
  written,     \* the records passed to stream.write, in order
  short,       \* the last of them was not taken whole
  durable,     \* how many of them are whole lines of the file
  torn,        \* the file ends in a piece of the next one
  proc,        \* "running", "closed" (recorder closed) or "dead" (process gone)
  calls,       \* history: the event types emit was called with
  interrupts   \* history: interrupts that fell between write and count

recorder == <<sequence, elapsed, terminal, error>>
stream == <<written, short>>
file == <<durable, torn>>
vars == <<recorder, pc, stream, file, proc, calls, interrupts>>

Init ==
  /\ sequence = 0 /\ elapsed = 0 /\ terminal = FALSE /\ error = 0
  /\ pc = "ready" /\ proc = "running"
  /\ written = <<>> /\ short = FALSE
  /\ durable = 0 /\ torn = FALSE
  /\ calls = <<>> /\ interrupts = 0

(* What a reader finds in the file.                                        *)
Lines == SubSeq(written, 1, durable)

Idle == proc = "running" /\ pc = "ready"

Called(e) == Len(calls) < MaxCalls /\ calls' = Append(calls, e)

(* Mutant: nothing checks that the run has ended.                          *)
RefusedUnlessEnded(e, t) ==
  \/ t < elapsed
  \/ sequence = 0 /\ e # RUN_STARTED
  \/ sequence > 0 /\ e = RUN_STARTED

(* Mutant: nothing checks the clock.                                       *)
RefusedAnyClock(e, t) ==
  \/ terminal
  \/ sequence = 0 /\ e # RUN_STARTED
  \/ sequence > 0 /\ e = RUN_STARTED

(* The checks of emit that end in ValueError.                              *)
Refused(e, t) ==
  \/ terminal
  \/ t < elapsed
  \/ sequence = 0 /\ e # RUN_STARTED
  \/ sequence > 0 /\ e = RUN_STARTED

Record(e, t) ==
  [run_id |-> RunId, sequence |-> sequence + 1, event_type |-> e, elapsed_ms |-> t]

(* emit once error is set: return.                                         *)
EmitIgnored(e) ==
  /\ Idle /\ error # 0
  /\ Called(e)
  /\ UNCHANGED <<recorder, pc, stream, file, proc, interrupts>>

(* Mutant: a refused event is skipped and the recorder goes on.            *)
EmitSkips(e, t, invalid) ==
  /\ Idle /\ error = 0
  /\ Refused(e, t) \/ invalid
  /\ Called(e)
  /\ UNCHANGED <<recorder, pc, stream, file, proc, interrupts>>

(* emit refuses the event: out of order, or not a valid Event or too large *)
(* (invalid), which depends on the payload and the injected UTC clock.     *)
EmitRefused(e, t, invalid) ==
  /\ Idle /\ error = 0
  /\ Refused(e, t) \/ invalid
  /\ Called(e)
  /\ error' = sequence + 1
  /\ UNCHANGED <<sequence, elapsed, terminal, pc, stream, file, proc, interrupts>>

(* Mutant: writing goes on after an error.                                 *)
EmitWriteAlways(e, t) ==
  /\ Idle
  /\ ~Refused(e, t)
  /\ Called(e)
  /\ written' = Append(written, Record(e, t))
  /\ pc' = "written"
  /\ UNCHANGED <<recorder, short, file, proc, interrupts>>

(* stream.write takes the whole record.                                    *)
EmitWrite(e, t) ==
  /\ Idle /\ error = 0
  /\ ~Refused(e, t)
  /\ Called(e)
  /\ written' = Append(written, Record(e, t))
  /\ pc' = "written"
  /\ UNCHANGED <<recorder, short, file, proc, interrupts>>

(* Mutant: the error names the last recorded line.                         *)
EmitWriteFailsEarlier(e, t) ==
  /\ Idle /\ error = 0
  /\ ~Refused(e, t)
  /\ Called(e)
  /\ written' = Append(written, Record(e, t))
  /\ short' = TRUE
  /\ torn' \in {torn, TRUE}
  /\ error' = sequence
  /\ UNCHANGED <<sequence, elapsed, terminal, pc, durable, proc, interrupts>>

(* stream.write raises or takes a part only; a part that it writes through *)
(* is in the file at once, one that it buffers may follow on close.        *)
EmitWriteFails(e, t) ==
  /\ Idle /\ error = 0
  /\ ~Refused(e, t)
  /\ Called(e)
  /\ written' = Append(written, Record(e, t))
  /\ short' = TRUE
  /\ torn' \in {torn, TRUE}
  /\ error' = sequence + 1
  /\ UNCHANGED <<sequence, elapsed, terminal, pc, durable, proc, interrupts>>

(* Part of the buffer reaches the file while the stream is being written,  *)
(* flushed or closed.                                                      *)
Spill ==
  /\ proc = "running" /\ pc \in {"written", "closing"}
  /\ durable < Len(written)
  /\ \/ ~torn /\ torn' = TRUE /\ UNCHANGED durable
     \/ /\ torn /\ ~(short /\ durable + 1 = Len(written))
        /\ torn' = FALSE /\ durable' = durable + 1
  /\ UNCHANGED <<recorder, pc, stream, proc, calls, interrupts>>

Flush ==
  /\ proc = "running" /\ pc = "written"
  /\ durable' = Len(written) /\ torn' = FALSE
  /\ pc' = "flushed"
  /\ UNCHANGED <<recorder, stream, proc, calls, interrupts>>

(* Mutant: a failed flush is swallowed, the record is counted.             *)
FlushFailsSilently ==
  /\ proc = "running" /\ pc = "written"
  /\ durable < Len(written)
  /\ pc' = "flushed"
  /\ UNCHANGED <<recorder, stream, file, proc, calls, interrupts>>

(* The record, or what is left of it, stays in the stream's buffer.        *)
FlushFails ==
  /\ proc = "running" /\ pc = "written"
  /\ durable < Len(written)
  /\ error' = sequence + 1
  /\ pc' = "ready"
  /\ UNCHANGED <<sequence, elapsed, terminal, stream, file, proc, calls, interrupts>>

Count ==
  /\ proc = "running" /\ pc = "flushed"
  /\ sequence' = sequence + 1
  /\ elapsed' = written[Len(written)].elapsed_ms
  /\ terminal' = (written[Len(written)].event_type \in TERMINAL_EVENTS)
  /\ pc' = "ready"
  /\ UNCHANGED <<error, stream, file, proc, calls, interrupts>>

(* A KeyboardInterrupt leaves emit: no handler of emit catches it.  One    *)
(* before the write is as if emit had not been called.                     *)
Interrupt ==
  /\ proc = "running" /\ pc \in {"written", "flushed"}
  /\ interrupts < MaxInterrupts
  /\ interrupts' = interrupts + 1
  /\ pc' = "ready"
  /\ UNCHANGED <<recorder, stream, file, proc, calls>>

Close ==
  /\ Idle
  /\ pc' = "closing"
  /\ UNCHANGED <<recorder, stream, file, proc, calls, interrupts>>

(* stream.close flushes whatever the buffer still holds.                   *)
CloseSucceeds ==
  /\ proc = "running" /\ pc = "closing"
  /\ IF short
       THEN durable' = Len(written) - 1 /\ torn' \in {torn, TRUE}
       ELSE durable' = Len(written) /\ torn' = FALSE
  /\ pc' = "ready" /\ proc' = "closed"
  /\ UNCHANGED <<recorder, stream, calls, interrupts>>

CloseFails ==
  /\ proc = "running" /\ pc = "closing"
  /\ error' = IF error = 0 THEN sequence + 1 ELSE error
  /\ pc' = "ready" /\ proc' = "closed"
  /\ UNCHANGED <<sequence, elapsed, terminal, stream, file, calls, interrupts>>

(* The process dies: the file keeps what it has.                           *)
Crash ==
  /\ proc = "running"
  /\ proc' = "dead"
  /\ UNCHANGED <<recorder, pc, stream, file, calls, interrupts>>

Emit ==
  \E e \in EventType :
    \/ EmitIgnored(e)
    \/ \E t \in 0..MaxClock :
         \/ \E invalid \in BOOLEAN : EmitRefused(e, t, invalid)
         \/ EmitWrite(e, t)
         \/ EmitWriteFails(e, t)

Next ==
  \/ Emit \/ Spill \/ Flush \/ FlushFails \/ Count \/ Interrupt
  \/ Close \/ CloseSucceeds \/ CloseFails \/ Crash

Spec == Init /\ [][Next]_vars
-----------------------------------------------------------------------------
(* Every variable has its type.                                            *)
TypeOK ==
  /\ sequence \in Nat /\ elapsed \in Nat /\ terminal \in BOOLEAN /\ error \in Nat
  /\ pc \in {"ready", "written", "flushed", "closing"}
  /\ proc \in {"running", "closed", "dead"}
  /\ written \in Seq(Event) /\ short \in BOOLEAN
  /\ durable \in Nat /\ torn \in BOOLEAN
  /\ calls \in Seq(EventType) /\ interrupts \in Nat

(* The lines of the file name the first events emit was called with, in    *)
(* that order and without a gap: no failure, crash or interrupt makes the  *)
(* recorder skip an event and then record a later one.                     *)
TruthfulPrefix ==
  /\ durable <= Len(calls)
  /\ \A k \in 1..durable : written[k].event_type = calls[k]

(* While emit was never interrupted between write and count, a recorder    *)
(* that reports no error has recorded every call, and read_trace accepts   *)
(* the file it leaves.                                                     *)
NoErrorMeansReadable ==
  interrupts = 0 /\ error = 0 /\ pc = "ready" /\ calls # <<>> =>
    /\ durable = Len(calls)
    /\ Readable(Lines, torn)

(* The line_number the recorder reports is the first line a reader cannot  *)
(* vouch for: every earlier line is in the file and valid, and the file    *)
(* either ends before line_number, is refused there, or (when the failed   *)
(* flush was completed by close) ends with it.                             *)
ErrorNamesTheLine ==
  interrupts = 0 /\ error # 0 =>
    /\ durable \in {error - 1, error}
    /\ Faults(Lines, torn) \subseteq {error}

(* The same holds after a crash at any point: of a file that is refused,   *)
(* only the last, torn line is lost (an empty file is refused at line 1).  *)
OnlyTheTailIsLost ==
  interrupts = 0 => Faults(Lines, torn) \subseteq {durable + 1}

(* Nothing ever leaves the file, and after the first error no record is    *)
(* handed to the stream, nothing is counted and the error stays as it is.  *)
AppendOnly ==
  [][/\ durable' >= durable
     /\ \A k \in 1..Len(written) : written'[k] = written[k]
     /\ error # 0 => UNCHANGED <<recorder, written>>]_vars

(* The recorder implements the evidence log, up to the first interrupt that *)
(* falls between write and count.                                          *)
Log == INSTANCE TraceLog WITH
  Events <- EventType,
  log <- [k \in 1..durable |-> written[k].event_type],
  last <- error

ImplementsLog ==
  Log!Init /\ [][interrupts' = 0 => [Log!Next]_Log!logVars]_vars

(* A call of emit that has not returned, nor left a whole line behind when *)
(* the process died: to the caller it was never made.                      *)
Undone == pc \in {"written", "flushed"} /\ (proc = "running" \/ durable < Len(written))

(* The calls that are over, and what is recorded of them: while the        *)
(* recorder runs what it has counted, in the end what the file holds.      *)
Made == IF Undone THEN SubSeq(calls, 1, Len(calls) - 1) ELSE calls

Counted == IF proc = "running" THEN sequence ELSE durable

Recorded == [k \in 1..Counted |-> written[k].event_type]

Shut == proc = "closed" \/ (proc = "dead" /\ pc = "closing")

(* Call by call the recorder does what Recording says, the module that     *)
(* stands for it in VerificationSession, up to the first interrupt that    *)
(* falls between write and count: whatever became of a call's write and    *)
(* flush is decided when emit returns and never changed by a later call, a *)
(* close or a crash, but for the record that close pushes out.             *)
Calls == INSTANCE Recording WITH
  Events <- EventType, calls <- Made, recorded <- Recorded, recError <- error, closed <- Shut

ImplementsRecording ==
  Calls!Init /\ [][interrupts' = 0 => [Calls!Next]_Calls!vars]_vars
-----------------------------------------------------------------------------
(* docs/tracing.md, "A failed run is also a valid trace": when emit was    *)
(* called with a whole run, its start, its work and its end, and reports no *)
(* error, read_trace accepts the closed file.                              *)
ClosedTraceIsReadable ==
  /\ proc = "closed" /\ error = 0 /\ Len(calls) > 1
  /\ \A k \in 1..Len(calls) : /\ (calls[k] = RUN_STARTED) = (k = 1)
                               /\ (calls[k] \in TERMINAL_EVENTS) = (k = Len(calls))
  => Readable(Lines, torn)
=============================================================================
