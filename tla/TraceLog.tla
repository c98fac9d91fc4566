------------------------------ MODULE TraceLog ------------------------------
(***************************************************************************)
(* What the evidence log of a run promises its readers, with no buffers,   *)
(* sequence numbers or failures: the log holds the types of the events     *)
(* that were observed, in the order they were observed, without a gap; it  *)
(* only grows; and from the moment recording gives up at some line, nothing *)
(* is added beyond that line, whatever is observed afterwards.             *)
(***************************************************************************)
EXTENDS Naturals, Sequences

CONSTANT Events

VARIABLES
  calls,   \* the events observed so far
  log,     \* the events a reader finds
  last     \* 0, or the last line the log may ever have

logVars == <<calls, log, last>>

Init == calls = <<>> /\ log = <<>> /\ last = 0

Observe(e) ==
  /\ calls' = Append(calls, e)
  /\ UNCHANGED <<log, last>>

(* The next observed event becomes visible.                                *)
Keep ==
  /\ Len(log) < Len(calls)
  /\ last # 0 => Len(log) < last
  /\ log' = Append(log, calls[Len(log) + 1])
  /\ UNCHANGED <<calls, last>>

(* An event becomes visible as it is observed.                             *)
ObserveAndKeep(e) ==
  /\ log = calls /\ last = 0
  /\ calls' = Append(calls, e) /\ log' = Append(log, e)
  /\ UNCHANGED last

(* Recording fails at the line after the visible ones, while an event is   *)
(* observed that may be the one it fails on, or on closing the log.        *)
GiveUp ==
  /\ last = 0
  /\ last' = Len(log) + 1
  /\ \/ UNCHANGED calls
     \/ \E e \in Events : calls' = Append(calls, e)
  /\ UNCHANGED log

Next == (\E e \in Events : Observe(e) \/ ObserveAndKeep(e)) \/ Keep \/ GiveUp

Spec == Init /\ [][Next]_logVars
=============================================================================
