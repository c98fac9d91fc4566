------------------------------ MODULE Recording ------------------------------
(***************************************************************************)
(* The trace recorder as its caller sees it: a call of emit is one step,   *)
(* and so is close.  Every call is recorded, or is the one at which the    *)
(* recorder gives up, or comes after it.  A session is modelled with the   *)
(* steps of this module; TraceRecorder, which has the buffer, the flush    *)
(* and the file, implements it until a KeyboardInterrupt falls inside      *)
(* emit.                                                                   *)
(***************************************************************************)
EXTENDS Naturals, Sequences

CONSTANT Events

VARIABLES
  calls,      \* the events emit was called with
  recorded,   \* the events in the trace
  recError,   \* 0, or the line_number of the recorder's error
  closed      \* the recorder is closed, or its process is gone

vars == <<calls, recorded, recError, closed>>

Init == calls = <<>> /\ recorded = <<>> /\ recError = 0 /\ closed = FALSE

(* What emit does with the call just made.                                 *)
Record ==
  \/ recError # 0 /\ UNCHANGED <<recorded, recError>>
  \/ /\ recError = 0
     /\ \/ /\ recorded' = Append(recorded, calls'[Len(calls')])
           /\ UNCHANGED recError
        \/ recError' = Len(recorded) + 1 /\ UNCHANGED recorded

Call(e) ==
  /\ ~closed
  /\ calls' = Append(calls, e)
  /\ Record
  /\ UNCHANGED closed

(* close: the stream may refuse to close, or push out the record that a    *)
(* failed flush has left in its buffer.                                    *)
Release ==
  \/ UNCHANGED <<recorded, recError>>
  \/ recError = 0 /\ recError' = Len(recorded) + 1 /\ UNCHANGED recorded
  \/ /\ recError = Len(recorded) + 1 /\ Len(recorded) < Len(calls)
     /\ recorded' = Append(recorded, calls[recError])
     /\ UNCHANGED recError

Close ==
  /\ ~closed /\ closed' = TRUE
  /\ Release
  /\ UNCHANGED calls

Next == Close \/ \E e \in Events : Call(e)

Spec == Init /\ [][Next]_vars
=============================================================================
