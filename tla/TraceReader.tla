---------------------------- MODULE TraceReader ----------------------------
(***************************************************************************)
(* The validation rules of tracking/reader.py, as operators on the content *)
(* of a trace file: its newline-terminated lines and, when torn is TRUE, a *)
(* last piece without a newline.  A line is an event envelope or anything  *)
(* else (too long, or bytes that fail UTF-8, JSON or schema validation).   *)
(***************************************************************************)
EXTENDS Naturals, Sequences

CONSTANTS
  RUN_STARTED,       \* the event type that opens a run
  TERMINAL_EVENTS,   \* the event types that end a run
  OTHER_EVENTS,      \* every other event type
  RunIds,            \* run identifiers
  MAX_TRACE_EVENTS   \* the reader's limit on the lines of a trace

ASSUME ReaderAssumption ==
  /\ RUN_STARTED \notin TERMINAL_EVENTS \cup OTHER_EVENTS
  /\ TERMINAL_EVENTS \cap OTHER_EVENTS = {}
  /\ MAX_TRACE_EVENTS \in Nat

EventType == {RUN_STARTED} \cup TERMINAL_EVENTS \cup OTHER_EVENTS

(* The envelope, reduced to the fields the reader compares.                *)
Event == [run_id: RunIds, sequence: Nat \ {0}, event_type: EventType, elapsed_ms: Nat]

(* Line k is refused, given the lines before it.                           *)
LineFault(lines, k) ==
  \/ k > MAX_TRACE_EVENTS
  \/ lines[k] \notin Event
  \/ lines[k].sequence # k
  \/ k = 1 /\ lines[k].event_type # RUN_STARTED
  \/ /\ k > 1
     /\ \/ lines[k].run_id # lines[k - 1].run_id
        \/ lines[k].elapsed_ms < lines[k - 1].elapsed_ms
        \/ lines[k - 1].event_type \in TERMINAL_EVENTS
        \/ lines[k].event_type = RUN_STARTED

(* The line numbers at which read_trace could stop; it stops at the first. *)
Faults(lines, torn) ==
  {k \in 1..Len(lines) : LineFault(lines, k)}
    \cup (IF torn THEN {Len(lines) + 1} ELSE {})
    \cup (IF lines = <<>> THEN {1} ELSE {})

(* read_trace returns every event of the file.                             *)
Readable(lines, torn) == Faults(lines, torn) = {}

(* read_trace raises TraceReadError with this line_number.                 *)
RefusedAt(lines, torn, k) ==
  k \in Faults(lines, torn) /\ \A j \in Faults(lines, torn) : k <= j

(* ReadTrace.complete, of a readable file.                                 *)
Complete(lines) == lines[Len(lines)].event_type \in TERMINAL_EVENTS
=============================================================================
