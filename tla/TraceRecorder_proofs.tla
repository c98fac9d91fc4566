------------------------ MODULE TraceRecorder_proofs ------------------------
(***************************************************************************)
(* Theorems about TraceRecorder, for every set of event types, every bound *)
(* on calls and clock readings, and (where it matters) any number of       *)
(* interrupts.                                                             *)
(***************************************************************************)
EXTENDS TraceRecorder, TLAPS

(* Every record emit builds is an event the reader's schema accepts.       *)
LEMMA RecordIsEvent ==
  ASSUME TypeOK, NEW e \in EventType, NEW t \in 0..MaxClock
  PROVE  Record(e, t) \in Event
  BY RecorderAssumption DEF TypeOK, Record, Event

(* TypeOK alone is not inductive: Count reads the last record and a close  *)
(* after a short write subtracts it, so there has to be one.               *)
TypeInv ==
  /\ TypeOK
  /\ pc \in {"written", "flushed"} \/ short => Len(written) > 0

(* Every step keeps TypeInv.                                               *)
LEMMA TypeStep == TypeInv /\ [Next]_vars => TypeInv'
<1> SUFFICES ASSUME TypeInv, [Next]_vars PROVE TypeInv'
  OBVIOUS
<1> USE DEF TypeInv, TypeOK, recorder, stream, file, Idle, Called
<1>1. ASSUME NEW e \in EventType, EmitIgnored(e) PROVE TypeInv'
  BY <1>1 DEF EmitIgnored
<1>2. ASSUME NEW e \in EventType, NEW t \in 0..MaxClock, NEW invalid \in BOOLEAN,
             EmitRefused(e, t, invalid)
      PROVE  TypeInv'
  BY <1>2 DEF EmitRefused
<1>3. ASSUME NEW e \in EventType, NEW t \in 0..MaxClock, EmitWrite(e, t)
      PROVE  TypeInv'
  <2>1. Record(e, t) \in Event
    BY RecordIsEvent
  <2> QED
    BY <1>3, <2>1 DEF EmitWrite
<1>4. ASSUME NEW e \in EventType, NEW t \in 0..MaxClock, EmitWriteFails(e, t)
      PROVE  TypeInv'
  <2>1. Record(e, t) \in Event
    BY RecordIsEvent
  <2>2. short' \in BOOLEAN /\ torn' \in BOOLEAN /\ terminal' \in BOOLEAN
    BY <1>4 DEF EmitWriteFails
  <2> QED
    BY <1>4, <2>1, <2>2 DEF EmitWriteFails
<1>5. CASE Spill
  <2>1. torn' \in BOOLEAN
    BY <1>5 DEF Spill
  <2> QED
    BY <1>5, <2>1 DEF Spill
<1>6. CASE Flush
  <2>1. torn' \in BOOLEAN
    BY <1>6 DEF Flush
  <2> QED
    BY <1>6, <2>1 DEF Flush
<1>7. CASE FlushFails
  BY <1>7 DEF FlushFails
<1>8. CASE Count
  <2>1. terminal' \in BOOLEAN
    BY <1>8 DEF Count
  <2>2. written[Len(written)] \in Event
    BY <1>8 DEF Count
  <2>3. elapsed' \in Nat
    BY <1>8, <2>2 DEF Count, Event
  <2> QED
    BY <1>8, <2>1, <2>3 DEF Count
<1>9. CASE Interrupt
  BY <1>9 DEF Interrupt
<1>10. CASE Close
  BY <1>10 DEF Close
<1>11. CASE CloseSucceeds
  <2>1. torn' \in BOOLEAN
    BY <1>11 DEF CloseSucceeds
  <2>2. durable' \in Nat
    <3>1. CASE short
      BY <1>11, <3>1 DEF CloseSucceeds
    <3>2. CASE ~short
      BY <1>11, <3>2 DEF CloseSucceeds
    <3> QED
      BY <3>1, <3>2
  <2> QED
    BY <1>11, <2>1, <2>2 DEF CloseSucceeds
<1>12. CASE CloseFails
  BY <1>12 DEF CloseFails
<1>13. CASE Crash
  BY <1>13 DEF Crash
<1>14. CASE UNCHANGED vars
  BY <1>14 DEF vars
<1> QED
  BY <1>1, <1>2, <1>3, <1>4, <1>5, <1>6, <1>7, <1>8, <1>9, <1>10, <1>11, <1>12,
     <1>13, <1>14 DEF Next, Emit

(* The variables of TraceRecorder always have their types.                 *)
THEOREM TypeCorrect == Spec => []TypeOK
<1>1. Init => TypeInv
  <2> SUFFICES ASSUME Init PROVE TypeInv
    OBVIOUS
  <2>1. terminal \in BOOLEAN /\ short \in BOOLEAN /\ torn \in BOOLEAN
    BY DEF Init
  <2> QED
    BY <2>1 DEF Init, TypeOK, TypeInv
<1>2. TypeInv /\ [Next]_vars => TypeInv'
  BY TypeStep
<1>3. TypeInv => TypeOK
  BY DEF TypeInv
<1> QED
  BY <1>1, <1>2, <1>3, PTL DEF Spec

(* Why the file is a truthful prefix: the k-th record handed to the stream *)
(* is always the k-th event emit was called with, the recorder falls behind *)
(* the calls only by remembering an error, and then it hands over no more. *)
PrefixInv ==
  /\ Len(written) <= Len(calls)
  /\ \A k \in 1..Len(written) : written[k].event_type = calls[k]
  /\ error = 0 => Len(written) = Len(calls)
  /\ durable <= Len(written)
  /\ torn => durable < Len(written)
  /\ Len(calls) <= MaxCalls
  /\ \A k \in 1..Len(written) : written[k].run_id = RunId

(* A call of emit that hands over no record and leaves an error.           *)
LEMMA PrefixSkip ==
  ASSUME TypeInv, PrefixInv, NEW e \in EventType, Called(e), UNCHANGED <<stream, file>>,
         error' # 0
  PROVE  PrefixInv'
  BY RecorderAssumption DEF TypeInv, TypeOK, PrefixInv, Called, stream, file

(* A call of emit that hands over its record.                              *)
LEMMA PrefixWrite ==
  ASSUME TypeInv, PrefixInv, NEW e \in EventType, NEW t \in 0..MaxClock, Called(e),
         error = 0, written' = Append(written, Record(e, t)), UNCHANGED durable,
         torn' \in {torn, TRUE}
  PROVE  PrefixInv'
<1>1. Len(written') = Len(written) + 1 /\ Len(calls') = Len(calls) + 1
  BY DEF TypeInv, TypeOK, Called
<1>2. ASSUME NEW k \in 1..Len(written')
      PROVE  written'[k].event_type = calls'[k] /\ written'[k].run_id = RunId
  <2>1. CASE k = Len(written) + 1
    BY <1>1, <2>1 DEF TypeInv, TypeOK, PrefixInv, Called, Record
  <2>2. CASE k # Len(written) + 1
    BY <1>1, <2>2 DEF TypeInv, TypeOK, PrefixInv, Called
  <2> QED
    BY <2>1, <2>2
<1>3. durable' <= Len(written') /\ durable' < Len(written')
  BY <1>1 DEF TypeInv, TypeOK, PrefixInv
<1> QED
  BY <1>1, <1>2, <1>3, RecorderAssumption DEF TypeInv, TypeOK, PrefixInv, Called

(* A step that only moves bytes from the buffer to the file.               *)
LEMMA PrefixFile ==
  ASSUME TypeInv, PrefixInv, UNCHANGED <<written, calls>>, error' = 0 => error = 0,
         durable' <= Len(written), torn' => durable' < Len(written)
  PROVE  PrefixInv'
  BY DEF TypeInv, TypeOK, PrefixInv

(* Every step keeps PrefixInv.                                             *)
LEMMA PrefixStep == TypeInv /\ PrefixInv /\ [Next]_vars => PrefixInv'
<1> SUFFICES ASSUME TypeInv, PrefixInv, [Next]_vars PROVE PrefixInv'
  OBVIOUS
<1>1. ASSUME NEW e \in EventType, EmitIgnored(e) PROVE PrefixInv'
  BY <1>1, PrefixSkip DEF EmitIgnored, recorder
<1>2. ASSUME NEW e \in EventType, NEW t \in 0..MaxClock, NEW invalid \in BOOLEAN,
             EmitRefused(e, t, invalid)
      PROVE  PrefixInv'
  <2>1. error' # 0
    BY <1>2 DEF EmitRefused, TypeInv, TypeOK
  <2> QED
    BY <1>2, <2>1, PrefixSkip DEF EmitRefused
<1>3. ASSUME NEW e \in EventType, NEW t \in 0..MaxClock, EmitWrite(e, t)
      PROVE  PrefixInv'
  BY <1>3, PrefixWrite DEF EmitWrite, file
<1>4. ASSUME NEW e \in EventType, NEW t \in 0..MaxClock, EmitWriteFails(e, t)
      PROVE  PrefixInv'
  BY <1>4, PrefixWrite DEF EmitWriteFails
<1>5. CASE Spill
  <2>1. durable' <= Len(written) /\ (torn' => durable' < Len(written))
    BY <1>5 DEF Spill, TypeInv, TypeOK
  <2> QED
    BY <1>5, <2>1, PrefixFile DEF Spill, stream, recorder
<1>6. CASE Flush
  BY <1>6, PrefixFile DEF Flush, stream, recorder, TypeInv, TypeOK
<1>7. CASE FlushFails
  BY <1>7, PrefixFile DEF FlushFails, stream, file, TypeInv, TypeOK, PrefixInv
<1>8. CASE Count
  BY <1>8, PrefixFile DEF Count, stream, file, PrefixInv
<1>9. CASE Interrupt
  BY <1>9, PrefixFile DEF Interrupt, recorder, stream, file, PrefixInv
<1>10. CASE Close
  BY <1>10, PrefixFile DEF Close, recorder, stream, file, PrefixInv
<1>11. CASE CloseSucceeds
  <2>1. durable' <= Len(written) /\ (torn' => durable' < Len(written))
    <3>1. CASE short
      BY <1>11, <3>1 DEF CloseSucceeds, TypeInv, TypeOK
    <3>2. CASE ~short
      BY <1>11, <3>2 DEF CloseSucceeds, TypeInv, TypeOK
    <3> QED
      BY <3>1, <3>2
  <2> QED
    BY <1>11, <2>1, PrefixFile DEF CloseSucceeds, recorder, stream
<1>12. CASE CloseFails
  BY <1>12, PrefixFile DEF CloseFails, stream, file, TypeInv, TypeOK, PrefixInv
<1>13. CASE Crash
  BY <1>13, PrefixFile DEF Crash, recorder, stream, file, PrefixInv
<1>14. CASE UNCHANGED vars
  BY <1>14, PrefixFile DEF vars, recorder, stream, file, PrefixInv
<1> QED
  BY <1>1, <1>2, <1>3, <1>4, <1>5, <1>6, <1>7, <1>8, <1>9, <1>10, <1>11, <1>12,
     <1>13, <1>14 DEF Next, Emit

(* Initially nothing was written and nothing was called.                   *)
LEMMA InitInv == Init => TypeInv /\ PrefixInv
<1> SUFFICES ASSUME Init PROVE TypeInv /\ PrefixInv
  OBVIOUS
<1>1. terminal \in BOOLEAN /\ short \in BOOLEAN /\ torn \in BOOLEAN
  BY DEF Init
<1>2. TypeInv
  BY <1>1 DEF Init, TypeOK, TypeInv
<1>3. PrefixInv
  BY <1>2, RecorderAssumption DEF Init, PrefixInv
<1> QED
  BY <1>2, <1>3

(* Whatever fails, crashes or is interrupted, the lines of the file name   *)
(* the first events emit was called with.                                  *)
THEOREM FileIsTruthful == Spec => []TruthfulPrefix
<1>1. Init => TypeInv /\ PrefixInv
  BY InitInv
<1>2. TypeInv /\ PrefixInv /\ [Next]_vars => (TypeInv /\ PrefixInv)'
  BY TypeStep, PrefixStep
<1>3. TypeInv /\ PrefixInv => TruthfulPrefix
  BY DEF TypeInv, TypeOK, PrefixInv, TruthfulPrefix
<1> QED
  BY <1>1, <1>2, <1>3, PTL DEF Spec

(* While emit was not interrupted: every record handed to the stream is    *)
(* legal after the ones before it, the fields describe the last counted    *)
(* record, and at most one record (the one an error or an unfinished emit  *)
(* is about) lies beyond them.                                             *)
FieldsMatch ==
  /\ sequence = 0 => elapsed = 0
  /\ sequence > 0 =>
       /\ elapsed = written[sequence].elapsed_ms
       /\ ~terminal => written[sequence].event_type \notin TERMINAL_EVENTS

SoundInv ==
  /\ \A k \in 1..Len(written) : ~LineFault(written, k)
  /\ FieldsMatch
  /\ sequence <= durable /\ Len(written) <= sequence + 1
  /\ short => error # 0 /\ Len(written) = sequence + 1
  /\ error = 0 /\ pc \in {"ready", "closing"} => Len(written) = sequence
  /\ pc \in {"written", "flushed"} => error = 0 /\ Len(written) = sequence + 1
  /\ pc = "flushed" => durable = Len(written)
  /\ error # 0 => error = sequence + 1

(* Appending the record emit builds keeps all the lines legal.             *)
LEMMA AppendLegal ==
  ASSUME TypeInv, PrefixInv, SoundInv, NEW e \in EventType, NEW t \in 0..MaxClock,
         error = 0, pc = "ready", ~Refused(e, t), Len(calls) < MaxCalls,
         written' = Append(written, Record(e, t))
  PROVE  \A k \in 1..Len(written') : ~LineFault(written', k)
<1> SUFFICES ASSUME NEW k \in 1..Len(written') PROVE ~LineFault(written', k)
  OBVIOUS
<1>1. Record(e, t) \in Event
  BY RecordIsEvent DEF TypeInv
<1>2. Len(written) = sequence /\ Len(written') = sequence + 1
  BY DEF TypeInv, TypeOK, SoundInv
<1>3. k <= MAX_TRACE_EVENTS
  BY <1>2, RecorderAssumption, ReaderAssumption DEF TypeInv, TypeOK, PrefixInv
<1>4. CASE k <= sequence
  <2>1. k \in 1..Len(written) /\ written'[k] = written[k]
    BY <1>2, <1>4 DEF TypeInv, TypeOK
  <2>2. k > 1 => written'[k - 1] = written[k - 1]
    BY <1>2, <1>4 DEF TypeInv, TypeOK
  <2>3. ~LineFault(written, k)
    BY <2>1 DEF SoundInv
  <2> QED
    BY <2>1, <2>2, <2>3 DEF LineFault
<1>5. CASE k = sequence + 1
  <2>1. written'[k] = Record(e, t)
    BY <1>2, <1>5 DEF TypeInv, TypeOK
  <2>2. k = 1 => e = RUN_STARTED
    BY <1>5 DEF Refused, TypeInv, TypeOK
  <2>3. ASSUME k > 1
        PROVE  /\ e # RUN_STARTED
               /\ written'[k - 1] = written[sequence]
               /\ written[sequence].event_type \notin TERMINAL_EVENTS
               /\ written[sequence].elapsed_ms <= t
               /\ written[sequence].elapsed_ms \in Nat
               /\ written[sequence].run_id = RunId
    <3>1. sequence \in 1..Len(written) /\ sequence > 0
      BY <1>2, <1>5, <2>3 DEF TypeInv, TypeOK
    <3>2. elapsed = written[sequence].elapsed_ms /\ elapsed \in Nat
      BY <3>1 DEF SoundInv, FieldsMatch, TypeInv, TypeOK
    <3>3. elapsed <= t /\ ~terminal /\ e # RUN_STARTED
      BY <3>1, <3>2 DEF Refused, TypeInv, TypeOK
    <3>4. written'[k - 1] = written[sequence]
      BY <1>2, <1>5, <3>1 DEF TypeInv, TypeOK
    <3> QED
      BY <3>1, <3>2, <3>3, <3>4 DEF SoundInv, FieldsMatch, PrefixInv
  <2>4. /\ written'[k].sequence = k /\ written'[k].event_type = e
        /\ written'[k].elapsed_ms = t /\ written'[k].run_id = RunId
    BY <1>5, <2>1 DEF Record
  <2>5. written'[k] \in Event
    BY <1>1, <2>1
  <2>6. k > 1 => ~(written'[k].elapsed_ms < written'[k - 1].elapsed_ms)
    BY <2>3, <2>4
  <2>7. k > 1 => /\ written'[k].run_id = written'[k - 1].run_id
                 /\ written'[k - 1].event_type \notin TERMINAL_EVENTS
                 /\ written'[k].event_type # RUN_STARTED
    BY <2>3, <2>4
  <2>8. k = 1 => written'[k].event_type = RUN_STARTED
    BY <2>2, <2>4
  <2>9. ~(k > MAX_TRACE_EVENTS)
    BY <1>2, <1>3, <1>5, ReaderAssumption DEF TypeInv, TypeOK
  <2> QED
    BY <2>4, <2>5, <2>6, <2>7, <2>8, <2>9 DEF LineFault
<1> QED
  BY <1>2, <1>4, <1>5 DEF TypeInv, TypeOK

(* Every step without an interrupt keeps SoundInv.                         *)
LEMMA SoundStep ==
  TypeInv /\ PrefixInv /\ SoundInv /\ [Next]_vars /\ interrupts' = interrupts => SoundInv'
<1> SUFFICES ASSUME TypeInv, PrefixInv, SoundInv, [Next]_vars, interrupts' = interrupts
             PROVE  SoundInv'
  OBVIOUS
<1> USE DEF TypeInv, TypeOK, Idle, recorder, stream, file
<1>1. ASSUME NEW e \in EventType, EmitIgnored(e) PROVE SoundInv'
  BY <1>1 DEF EmitIgnored, SoundInv, FieldsMatch, LineFault
<1>2. ASSUME NEW e \in EventType, NEW t \in 0..MaxClock, NEW invalid \in BOOLEAN,
             EmitRefused(e, t, invalid)
      PROVE  SoundInv'
  BY <1>2 DEF EmitRefused, SoundInv, FieldsMatch, LineFault
<1>3. ASSUME NEW e \in EventType, NEW t \in 0..MaxClock,
             EmitWrite(e, t) \/ EmitWriteFails(e, t)
      PROVE  SoundInv'
  <2>1. /\ error = 0 /\ pc = "ready" /\ ~Refused(e, t) /\ Len(calls) < MaxCalls
        /\ written' = Append(written, Record(e, t))
        /\ UNCHANGED <<sequence, elapsed, terminal, durable>>
    BY <1>3 DEF EmitWrite, EmitWriteFails, Called
  <2>2. \A k \in 1..Len(written') : ~LineFault(written', k)
    BY <2>1, AppendLegal
  <2>3. Len(written) = sequence /\ Len(written') = sequence + 1
    BY <2>1 DEF SoundInv
  <2>4. sequence > 0 => written'[sequence] = written[sequence]
    BY <2>1, <2>3
  <2>5. FieldsMatch'
    BY <2>1, <2>4 DEF SoundInv, FieldsMatch
  <2>6. CASE EmitWrite(e, t)
    BY <2>1, <2>2, <2>3, <2>5, <2>6 DEF EmitWrite, SoundInv
  <2>7. CASE EmitWriteFails(e, t)
    BY <2>1, <2>2, <2>3, <2>5, <2>7 DEF EmitWriteFails, SoundInv
  <2> QED
    BY <1>3, <2>6, <2>7
<1>4. CASE Spill
  BY <1>4 DEF Spill, SoundInv, FieldsMatch, LineFault
<1>5. CASE Flush
  BY <1>5 DEF Flush, SoundInv, FieldsMatch, LineFault, PrefixInv
<1>6. CASE FlushFails
  BY <1>6 DEF FlushFails, SoundInv, FieldsMatch, LineFault
<1>7. CASE Count
  <2>1. /\ Len(written) = sequence + 1 /\ sequence' = sequence + 1 /\ error = 0
        /\ durable = Len(written)
    BY <1>7 DEF Count, SoundInv
  <2>2. /\ elapsed' = written[sequence + 1].elapsed_ms /\ UNCHANGED written
        /\ terminal' = (written[sequence + 1].event_type \in TERMINAL_EVENTS)
    BY <1>7, <2>1 DEF Count
  <2>3. ~terminal' => written[sequence + 1].event_type \notin TERMINAL_EVENTS
    BY <2>2
  <2>4. FieldsMatch'
    <3> HIDE DEF TypeInv, TypeOK
    <3>1. sequence' > 0 /\ sequence' = sequence + 1
      BY <2>1 DEF TypeInv, TypeOK
    <3>2. elapsed' = written'[sequence'].elapsed_ms
      BY <2>2, <3>1
    <3>3. ~terminal' => written'[sequence'].event_type \notin TERMINAL_EVENTS
      BY <2>2, <2>3, <3>1
    <3> QED
      BY <3>1, <3>2, <3>3 DEF FieldsMatch, TypeInv, TypeOK
  <2> QED
    BY <1>7, <2>1, <2>4 DEF Count, SoundInv, LineFault
<1>8. CASE Interrupt
  BY <1>8 DEF Interrupt
<1>9. CASE Close
  BY <1>9 DEF Close, SoundInv, FieldsMatch, LineFault
<1>10. CASE CloseSucceeds
  <2>1. CASE short
    BY <1>10, <2>1 DEF CloseSucceeds, SoundInv, FieldsMatch, LineFault
  <2>2. CASE ~short
    BY <1>10, <2>2 DEF CloseSucceeds, SoundInv, FieldsMatch, LineFault, PrefixInv
  <2> QED
    BY <2>1, <2>2
<1>11. CASE CloseFails
  BY <1>11 DEF CloseFails, SoundInv, FieldsMatch, LineFault
<1>12. CASE Crash
  BY <1>12 DEF Crash, SoundInv, FieldsMatch, LineFault
<1>13. CASE UNCHANGED vars
  BY <1>13 DEF vars, SoundInv, FieldsMatch, LineFault
<1> QED
  BY <1>1, <1>2, <1>3, <1>4, <1>5, <1>6, <1>7, <1>8, <1>9, <1>10, <1>11, <1>12,
     <1>13 DEF Next, Emit

(* A file cut from legal records is refused at its torn end or for being   *)
(* empty, never at one of its lines.                                       *)
LEMMA FileFaults ==
  ASSUME TypeInv, PrefixInv, SoundInv
  PROVE  /\ Faults(Lines, torn) \subseteq {durable + 1}
         /\ ~torn /\ durable > 0 => Readable(Lines, torn)
<1>1. durable \in 0..Len(written) /\ written \in Seq(Event)
  BY DEF TypeInv, TypeOK, PrefixInv
<1>2. Len(Lines) = durable /\ \A k \in 1..durable : Lines[k] = written[k]
  BY <1>1 DEF Lines
<1>3. ASSUME NEW k \in 1..durable PROVE ~LineFault(Lines, k)
  <2>1. Lines[k] = written[k] /\ (k > 1 => Lines[k - 1] = written[k - 1])
    BY <1>1, <1>2
  <2>2. ~LineFault(written, k)
    BY <1>1 DEF SoundInv
  <2> QED
    BY <2>1, <2>2 DEF LineFault
<1>4. Lines = <<>> => durable = 0
  BY <1>1, <1>2
<1> QED
  BY <1>1, <1>2, <1>3, <1>4 DEF Faults, Readable

Inv == TypeInv /\ PrefixInv /\ (interrupts = 0 => SoundInv)

(* Inv is inductive.                                                       *)
LEMMA InvInductive == (Init => Inv) /\ (Inv /\ [Next]_vars => Inv')
<1>1. Init => Inv
  BY InitInv DEF Init, Inv, SoundInv, FieldsMatch
<1>2. Inv /\ [Next]_vars => Inv'
  <2> SUFFICES ASSUME Inv, [Next]_vars PROVE Inv'
    OBVIOUS
  <2>1. TypeInv' /\ PrefixInv'
    BY TypeStep, PrefixStep DEF Inv
  <2>2. interrupts' \in {interrupts, interrupts + 1}
    BY DEF Inv, TypeInv, TypeOK, Next, Emit, EmitIgnored, EmitRefused, EmitWrite,
           EmitWriteFails, Spill, Flush, FlushFails, Count, Interrupt, Close,
           CloseSucceeds, CloseFails, Crash, vars
  <2>3. interrupts' = 0 => interrupts = 0 /\ interrupts' = interrupts
    BY <2>2 DEF Inv, TypeInv, TypeOK
  <2> QED
    BY <2>1, <2>3, SoundStep DEF Inv
<1> QED
  BY <1>1, <1>2

(* A recorder that was not interrupted and reports no error has recorded   *)
(* every call in a file that read_trace accepts.                           *)
THEOREM SilentMeansReadable == Spec => []NoErrorMeansReadable
<1>1. Inv => NoErrorMeansReadable
  <2> SUFFICES ASSUME Inv, interrupts = 0, error = 0, pc = "ready", calls # <<>>
               PROVE  durable = Len(calls) /\ Readable(Lines, torn)
    BY DEF NoErrorMeansReadable
  <2>1. TypeInv /\ PrefixInv /\ SoundInv
    BY DEF Inv
  <2>2. Len(written) = sequence /\ durable = Len(written) /\ ~torn
    BY <2>1 DEF SoundInv, PrefixInv, TypeInv, TypeOK
  <2>3. Len(calls) = durable /\ durable > 0
    BY <2>1, <2>2 DEF PrefixInv, TypeInv, TypeOK
  <2> QED
    BY <2>1, <2>2, <2>3, FileFaults
<1> QED
  BY <1>1, InvInductive, PTL DEF Spec

(* The line number an uninterrupted recorder reports is the first line a   *)
(* reader cannot vouch for.                                                *)
THEOREM ErrorIsPrecise == Spec => []ErrorNamesTheLine
<1>1. Inv => ErrorNamesTheLine
  <2> SUFFICES ASSUME Inv, interrupts = 0, error # 0
               PROVE  /\ durable \in {error - 1, error}
                      /\ Faults(Lines, torn) \subseteq {error}
    BY DEF ErrorNamesTheLine
  <2>1. TypeInv /\ PrefixInv /\ SoundInv
    BY DEF Inv
  <2>2. /\ error = sequence + 1 /\ sequence <= durable /\ durable <= sequence + 1
        /\ torn => durable = sequence
    BY <2>1 DEF SoundInv, PrefixInv, TypeInv, TypeOK
  <2>3. Faults(Lines, torn) \subseteq {durable + 1} /\ (durable = error => ~torn /\ durable > 0)
    BY <2>1, <2>2, FileFaults DEF TypeInv, TypeOK
  <2>4. durable = error => Faults(Lines, torn) = {}
    BY <2>1, <2>3, FileFaults DEF Readable
  <2> QED
    BY <2>1, <2>2, <2>3, <2>4 DEF TypeInv, TypeOK
<1> QED
  BY <1>1, InvInductive, PTL DEF Spec

(* A crash costs an uninterrupted recorder at most the last, torn line.    *)
THEOREM CrashLosesTheTail == Spec => []OnlyTheTailIsLost
<1>1. Inv => OnlyTheTailIsLost
  BY FileFaults DEF Inv, OnlyTheTailIsLost
<1> QED
  BY <1>1, InvInductive, PTL DEF Spec

-----------------------------------------------------------------------------
(***************************************************************************)
(* The recorder's file only grows, and it implements the evidence log of   *)
(* TraceLog when emit is not interrupted.                                  *)
(***************************************************************************)

(* A record that was not taken whole is the last one, and never a line of  *)
(* the file; a record being written means that nothing has failed.         *)
TailInv ==
  /\ short => error # 0 /\ durable < Len(written)
  /\ pc \in {"written", "flushed"} => error = 0

GrowInv == TypeInv /\ PrefixInv /\ TailInv

LEMMA TailStep == GrowInv /\ [Next]_vars => TailInv'
<1> SUFFICES ASSUME GrowInv, [Next]_vars PROVE TailInv'
  OBVIOUS
<1> USE DEF GrowInv, TailInv, Idle, Called, recorder, stream, file
<1> DEFINE Types == /\ sequence \in Nat /\ durable \in Nat /\ written \in Seq(Event)
                    /\ durable <= Len(written)
<1>0. Types
  BY DEF TypeInv, TypeOK, PrefixInv
<1>1. ASSUME NEW e \in EventType, EmitIgnored(e) PROVE TailInv'
  BY <1>1 DEF EmitIgnored
<1>2. ASSUME NEW e \in EventType, NEW t \in 0..MaxClock, NEW invalid \in BOOLEAN,
             EmitRefused(e, t, invalid)
      PROVE  TailInv'
  BY <1>0, <1>2 DEF EmitRefused
<1>3. ASSUME NEW e \in EventType, NEW t \in 0..MaxClock, EmitWrite(e, t) PROVE TailInv'
  BY <1>0, <1>3 DEF EmitWrite
<1>4. ASSUME NEW e \in EventType, NEW t \in 0..MaxClock, EmitWriteFails(e, t) PROVE TailInv'
  <2>1. Record(e, t) \in Event
    BY RecordIsEvent DEF TypeInv
  <2>2. Len(written') = Len(written) + 1
    BY <1>0, <1>4, <2>1 DEF EmitWriteFails
  <2>3. error' # 0 /\ pc' = "ready" /\ durable' = durable
    BY <1>0, <1>4 DEF EmitWriteFails
  <2> QED
    BY <1>0, <2>2, <2>3
<1>5. CASE Spill
  BY <1>0, <1>5 DEF Spill
<1>6. CASE Flush \/ Count \/ Interrupt \/ Close \/ Crash
  BY <1>0, <1>6 DEF Flush, Count, Interrupt, Close, Crash
<1>7. CASE FlushFails
  BY <1>0, <1>7 DEF FlushFails
<1>8. CASE CloseSucceeds
  <2>1. pc' = "ready" /\ UNCHANGED <<error, written, short>>
    BY <1>8 DEF CloseSucceeds
  <2>2. CASE short
    BY <1>0, <1>8, <2>1, <2>2 DEF CloseSucceeds
  <2>3. CASE ~short
    BY <2>1, <2>3
  <2> QED
    BY <2>2, <2>3
<1>9. CASE CloseFails
  <2>1. error' # 0 /\ pc' = "ready" /\ UNCHANGED <<durable, written, short>>
    BY <1>0, <1>9 DEF CloseFails
  <2> QED
    BY <2>1
<1>10. CASE UNCHANGED vars
  BY <1>10 DEF vars
<1> QED
  BY <1>1, <1>2, <1>3, <1>4, <1>5, <1>6, <1>7, <1>8, <1>9, <1>10 DEF Next, Emit

LEMMA GrowInvAlways == Spec => []GrowInv
<1>1. Init => GrowInv
  BY InitInv DEF GrowInv, TailInv, Init
<1>2. GrowInv /\ [Next]_vars => GrowInv'
  BY TypeStep, PrefixStep, TailStep DEF GrowInv
<1> QED
  BY <1>1, <1>2, PTL DEF Spec
-----------------------------------------------------------------------------
Grows ==
  /\ durable' >= durable
  /\ \A k \in 1..Len(written) : written'[k] = written[k]
  /\ error # 0 => UNCHANGED <<recorder, written>>

(* Handing a record over leaves the earlier ones where they are.           *)
LEMMA GrowsByRecord ==
  ASSUME GrowInv, NEW e \in EventType, NEW t \in 0..MaxClock, error = 0,
         written' = Append(written, Record(e, t)), durable' = durable
  PROVE  Grows
<1>1. Record(e, t) \in Event /\ written \in Seq(Event) /\ durable \in Nat
  BY RecordIsEvent DEF GrowInv, TypeInv, TypeOK
<1> QED
  BY <1>1 DEF Grows

LEMMA GrowStep == GrowInv /\ [Next]_vars => Grows
<1> SUFFICES ASSUME GrowInv, [Next]_vars PROVE Grows
  OBVIOUS
<1>0. /\ durable \in Nat /\ written \in Seq(Event) /\ durable <= Len(written)
      /\ short => durable < Len(written)
  BY DEF GrowInv, TailInv, TypeInv, TypeOK, PrefixInv
<1> USE DEF Idle, recorder, stream, file
<1>1. ASSUME NEW e \in EventType, EmitIgnored(e) PROVE Grows
  BY <1>0, <1>1 DEF EmitIgnored, Grows
<1>2. ASSUME NEW e \in EventType, NEW t \in 0..MaxClock, NEW invalid \in BOOLEAN,
             EmitRefused(e, t, invalid)
      PROVE  Grows
  BY <1>0, <1>2 DEF EmitRefused, Grows
<1>3. ASSUME NEW e \in EventType, NEW t \in 0..MaxClock, EmitWrite(e, t) PROVE Grows
  BY <1>3, GrowsByRecord DEF EmitWrite
<1>4. ASSUME NEW e \in EventType, NEW t \in 0..MaxClock, EmitWriteFails(e, t) PROVE Grows
  BY <1>4, GrowsByRecord DEF EmitWriteFails
<1>5. CASE Spill
  BY <1>0, <1>5 DEF Spill, Grows
<1>6. CASE Flush \/ FlushFails \/ Count
  BY <1>0, <1>6 DEF Flush, FlushFails, Count, Grows, GrowInv, TailInv
<1>7. CASE Interrupt \/ Close \/ Crash
  BY <1>0, <1>7 DEF Interrupt, Close, Crash, Grows
<1>8. CASE CloseSucceeds
  <2>1. UNCHANGED <<recorder, written>>
    BY <1>8 DEF CloseSucceeds
  <2>2. CASE short
    BY <1>0, <1>8, <2>1, <2>2 DEF CloseSucceeds, Grows
  <2>3. CASE ~short
    BY <1>0, <1>8, <2>1, <2>3 DEF CloseSucceeds, Grows
  <2> QED
    BY <2>2, <2>3
<1>9. CASE CloseFails
  BY <1>0, <1>9 DEF CloseFails, Grows
<1>10. CASE UNCHANGED vars
  BY <1>0, <1>10 DEF vars, Grows
<1> QED
  BY <1>1, <1>2, <1>3, <1>4, <1>5, <1>6, <1>7, <1>8, <1>9, <1>10 DEF Next, Emit

(* Nothing ever leaves the file, and after the first error nothing is      *)
(* written, counted or reported anew, interrupts or not.                   *)
THEOREM FileOnlyGrows == Spec => AppendOnly
<1>1. GrowInv /\ [Next]_vars => [Grows]_vars
  BY GrowStep
<1> QED
  BY <1>1, GrowInvAlways, PTL DEF Spec, AppendOnly, Grows
-----------------------------------------------------------------------------
(* The lines of the file as the log has them.                              *)
Seen == [k \in 1..durable |-> written[k].event_type]

LEMMA LogVars ==
  /\ Log!logVars = <<calls, Seen, error>>
  /\ Inv => Seen \in Seq(EventType) /\ Len(Seen) = durable
<1>1. Log!logVars = <<calls, Seen, error>>
  BY DEF Log!logVars, Seen
<1>2. Inv => Seen \in Seq(EventType) /\ Len(Seen) = durable
  <2> SUFFICES ASSUME Inv PROVE Seen \in Seq(EventType) /\ Len(Seen) = durable
    OBVIOUS
  <2>1. durable \in 0..Len(written) /\ written \in Seq(Event)
    BY DEF Inv, TypeInv, TypeOK, PrefixInv
  <2>2. \A k \in 1..durable : written[k] \in Event
    BY <2>1
  <2>3. \A r \in Event : r.event_type \in EventType
    BY DEF Event
  <2> QED
    BY <2>1, <2>2, <2>3 DEF Seen
<1> QED
  BY <1>1, <1>2

(* Appending to what was handed over does not change what is seen.         *)
LEMMA SeenStays ==
  ASSUME Inv, durable' = durable,
         \/ written' = written
         \/ \E r \in Event : written' = Append(written, r)
  PROVE  Seen' = Seen
<1>1. durable \in 0..Len(written) /\ written \in Seq(Event)
  BY DEF Inv, TypeInv, TypeOK, PrefixInv
<1>2. \A k \in 1..durable : written'[k] = written[k]
  BY <1>1
<1> QED
  BY <1>2 DEF Seen

(* One more whole line is the next event of the log.                       *)
LEMMA SeenGrows ==
  ASSUME Inv, durable' = durable + 1, durable < Len(written), UNCHANGED written
  PROVE  Seen' = Append(Seen, calls[Len(Seen) + 1])
<1>1. /\ durable \in Nat /\ written \in Seq(Event) /\ calls \in Seq(EventType)
      /\ Seen \in Seq(EventType) /\ Len(Seen) = durable
      /\ written[durable + 1].event_type = calls[durable + 1]
  BY LogVars DEF Inv, TypeInv, TypeOK, PrefixInv
<1>2. Append(Seen, calls[Len(Seen) + 1]) =
        [k \in 1..(durable + 1) |-> IF k = durable + 1 THEN calls[durable + 1] ELSE Seen[k]]
  BY <1>1
<1>3. \A k \in 1..durable : Seen[k] = written[k].event_type
  BY DEF Seen
<1>4. Seen' = [k \in 1..(durable + 1) |-> written[k].event_type]
  BY <1>1 DEF Seen
<1> QED
  BY <1>1, <1>2, <1>3, <1>4

(* The step that makes a line whole is a Keep of the log, if any.          *)
LEMMA LineKept ==
  ASSUME Inv, interrupts = 0, UNCHANGED <<calls, written, error>>,
         durable' \in {durable, durable + 1}, durable' <= Len(written)
  PROVE  [Log!Next]_Log!logVars
<1>1. CASE durable' = durable
  BY <1>1, SeenStays, LogVars DEF Log!logVars, Seen
<1>2. CASE durable' = durable + 1
  <2>1. /\ durable \in Nat /\ Len(written) <= Len(calls) /\ Len(written) \in Nat
        /\ Len(calls) \in Nat /\ Len(Seen) = durable
    BY LogVars DEF Inv, TypeInv, TypeOK, PrefixInv
  <2>2. durable < Len(written) /\ Len(Seen) < Len(calls)
    BY <1>2, <2>1
  <2>3. error # 0 => Len(Seen) < error
    BY <2>1, <2>2 DEF Inv, SoundInv, TypeInv, TypeOK
  <2>4. Seen' = Append(Seen, calls[Len(Seen) + 1])
    BY <1>2, <2>2, SeenGrows
  <2>5. Log!Keep
    BY <2>2, <2>3, <2>4 DEF Log!Keep, Seen
  <2> QED
    BY <2>5 DEF Log!Next
<1> QED
  BY <1>1, <1>2

(* The step that sets the error names the line after those seen.           *)
LEMMA GivenUp ==
  ASSUME Inv, error = 0, error' = durable + 1, Seen' = Seen,
         calls' = calls \/ \E e \in EventType : calls' = Append(calls, e)
  PROVE  Log!Next
<1>1. Len(Seen) = durable
  BY LogVars
<1>2. Log!GiveUp
  BY <1>1 DEF Log!GiveUp, Seen
<1> QED
  BY <1>2 DEF Log!Next

LEMMA LogStep ==
  ASSUME Inv, TailInv, interrupts = 0, [Next]_vars, interrupts' = 0
  PROVE  [Log!Next]_Log!logVars
<1> USE DEF Idle, recorder, stream, file
<1>0. /\ sequence \in Nat /\ durable \in Nat /\ written \in Seq(Event) /\ error \in Nat
      /\ durable <= Len(written) /\ Len(written) \in Nat
  BY DEF Inv, TypeInv, TypeOK, PrefixInv
<1>s. SoundInv /\ PrefixInv
  BY DEF Inv
<1>1. ASSUME NEW e \in EventType, calls' = Append(calls, e), error' = error, Seen' = Seen
      PROVE  [Log!Next]_Log!logVars
  BY <1>1 DEF Log!Next, Log!Observe, Seen
<1>2. ASSUME NEW e \in EventType, EmitIgnored(e) PROVE [Log!Next]_Log!logVars
  BY <1>1, <1>2, SeenStays DEF EmitIgnored, Called
<1>3. ASSUME NEW e \in EventType, NEW t \in 0..MaxClock, NEW invalid \in BOOLEAN,
             EmitRefused(e, t, invalid)
      PROVE  [Log!Next]_Log!logVars
  <2>1. /\ error = 0 /\ pc = "ready" /\ error' = sequence + 1 /\ calls' = Append(calls, e)
        /\ UNCHANGED <<written, durable>>
    BY <1>3 DEF EmitRefused, Called
  <2>2. durable = sequence
    BY <1>0, <1>s, <2>1 DEF SoundInv
  <2> QED
    BY <2>1, <2>2, SeenStays, GivenUp
<1>4. ASSUME NEW e \in EventType, NEW t \in 0..MaxClock, EmitWrite(e, t)
      PROVE  [Log!Next]_Log!logVars
  <2>1. Record(e, t) \in Event
    BY RecordIsEvent DEF Inv, TypeInv
  <2>2. /\ written' = Append(written, Record(e, t)) /\ calls' = Append(calls, e)
        /\ error' = error /\ durable' = durable
    BY <1>4 DEF EmitWrite, Called
  <2> QED
    BY <1>1, <2>1, <2>2, SeenStays
<1>5. ASSUME NEW e \in EventType, NEW t \in 0..MaxClock, EmitWriteFails(e, t)
      PROVE  [Log!Next]_Log!logVars
  <2>1. Record(e, t) \in Event
    BY RecordIsEvent DEF Inv, TypeInv
  <2>2. /\ error = 0 /\ pc = "ready" /\ error' = sequence + 1 /\ calls' = Append(calls, e)
        /\ written' = Append(written, Record(e, t)) /\ durable' = durable
    BY <1>5 DEF EmitWriteFails, Called
  <2>3. durable = sequence
    BY <1>0, <1>s, <2>2 DEF SoundInv
  <2> QED
    BY <2>1, <2>2, <2>3, SeenStays, GivenUp
<1>6. CASE Spill
  <2>1. UNCHANGED <<calls, written, error>> /\ durable' \in {durable, durable + 1}
        /\ durable' <= Len(written)
    BY <1>0, <1>6 DEF Spill
  <2> QED
    BY <2>1, LineKept
<1>7. CASE Flush
  <2>1. UNCHANGED <<calls, written, error>> /\ durable' = Len(written) /\ pc = "written"
    BY <1>7 DEF Flush
  <2>2. Len(written) \in {durable, durable + 1}
    BY <1>0, <1>s, <2>1 DEF SoundInv
  <2> QED
    BY <1>0, <2>1, <2>2, LineKept
<1>8. CASE FlushFails
  <2>1. /\ pc = "written" /\ durable < Len(written) /\ error' = sequence + 1
        /\ UNCHANGED <<calls, written, durable>>
    BY <1>8 DEF FlushFails
  <2>2. durable = sequence /\ error = 0
    BY <1>0, <1>s, <2>1 DEF SoundInv
  <2> QED
    BY <2>1, <2>2, SeenStays, GivenUp
<1>9. CASE Count \/ Close \/ Crash \/ UNCHANGED vars
  <2>1. UNCHANGED <<calls, written, error, durable>>
    BY <1>9 DEF Count, Close, Crash, vars
  <2> QED
    BY <1>0, <2>1, LineKept
<1>10. CASE CloseSucceeds
  <2>1. UNCHANGED <<calls, written, error>>
    BY <1>10 DEF CloseSucceeds
  <2>2. Len(written) \in {durable, durable + 1}
    BY <1>0, <1>s DEF SoundInv
  <2>3. CASE short
    <3>1. durable' = Len(written) - 1
      BY <1>10, <2>3 DEF CloseSucceeds
    <3>2. durable < Len(written)
      BY <2>3 DEF TailInv
    <3> QED
      BY <1>0, <2>1, <2>2, <3>1, <3>2, LineKept
  <2>4. CASE ~short
    <3>1. durable' = Len(written)
      BY <1>10, <2>4 DEF CloseSucceeds
    <3> QED
      BY <1>0, <2>1, <2>2, <3>1, LineKept
  <2> QED
    BY <2>3, <2>4
<1>11. CASE CloseFails
  <2>1. /\ pc = "closing" /\ error' = (IF error = 0 THEN sequence + 1 ELSE error)
        /\ UNCHANGED <<calls, written, durable>>
    BY <1>11 DEF CloseFails
  <2>2. CASE error = 0
    <3>1. durable = sequence
      BY <1>0, <1>s, <2>1, <2>2 DEF SoundInv
    <3> QED
      BY <2>1, <2>2, <3>1, SeenStays, GivenUp
  <2>3. CASE error # 0
    BY <1>0, <2>1, <2>3, LineKept
  <2> QED
    BY <2>2, <2>3
<1>12. ~Interrupt
  BY DEF Interrupt
<1> QED
  BY <1>2, <1>3, <1>4, <1>5, <1>6, <1>7, <1>8, <1>9, <1>10, <1>11, <1>12 DEF Next, Emit

(* The count of interrupts never goes back.                                *)
LEMMA InterruptsCount == [Next]_vars => interrupts' \in {interrupts, interrupts + 1}
BY DEF Next, Emit, EmitIgnored, EmitRefused, EmitWrite, EmitWriteFails, Spill, Flush,
       FlushFails, Count, Interrupt, Close, CloseSucceeds, CloseFails, Crash, vars

(* Until emit is interrupted between write and count, the recorder         *)
(* implements the evidence log: whatever fails, events become visible in   *)
(* order and without a gap, and nothing is added beyond the line at which  *)
(* recording gave up.                                                      *)
THEOREM RecorderImplementsLog == Spec => ImplementsLog
<1>1. Init => Log!Init
  BY DEF Init, Log!Init
<1>2. Inv /\ GrowInv /\ [Next]_vars
        => [interrupts' = 0 => [Log!Next]_Log!logVars]_vars
  <2> SUFFICES ASSUME Inv, GrowInv, [Next]_vars, interrupts' = 0
               PROVE  [Log!Next]_Log!logVars
    OBVIOUS
  <2>1. interrupts = 0
    <3>1. interrupts \in Nat
      BY DEF Inv, TypeInv, TypeOK
    <3>2. interrupts' \in {interrupts, interrupts + 1}
      BY InterruptsCount
    <3> QED
      BY <3>1, <3>2
  <2> QED
    BY <2>1, LogStep DEF GrowInv
<1> QED
  BY <1>1, <1>2, InvInductive, GrowInvAlways, PTL DEF Spec, ImplementsLog
-----------------------------------------------------------------------------
(***************************************************************************)
(* To its caller, emit is one step: the recorder implements Recording.     *)
(***************************************************************************)

(* Between two calls the file ends with the last record counted.           *)
ReadyInv == proc = "running" /\ pc = "ready" => durable = sequence

SettledInv == Inv /\ (interrupts = 0 => ReadyInv)

LEMMA ReadyStep ==
  ASSUME TypeInv, PrefixInv, SoundInv, ReadyInv, [Next]_vars, ~Interrupt
  PROVE  ReadyInv'
<1> USE DEF ReadyInv, Idle, recorder, stream, file
<1>0. sequence \in Nat /\ durable \in Nat /\ Len(written) \in Nat /\ durable <= Len(written)
  BY DEF TypeInv, TypeOK, PrefixInv
<1>1. CASE Emit
  BY <1>1 DEF Emit, EmitIgnored, EmitRefused, EmitWrite, EmitWriteFails
<1>2. CASE Spill \/ Flush \/ Close \/ CloseSucceeds \/ CloseFails \/ Crash
  BY <1>2 DEF Spill, Flush, Close, CloseSucceeds, CloseFails, Crash
<1>3. CASE FlushFails \/ Count
  BY <1>0, <1>3 DEF FlushFails, Count, SoundInv
<1>4. CASE UNCHANGED vars
  BY <1>4 DEF vars
<1> QED
  BY <1>1, <1>2, <1>3, <1>4 DEF Next

LEMMA SettledInvAlways == Spec => []SettledInv
<1>1. Init => SettledInv
  BY InvInductive DEF SettledInv, ReadyInv, Init
<1>2. SettledInv /\ [Next]_vars => SettledInv'
  <2> SUFFICES ASSUME SettledInv, [Next]_vars PROVE SettledInv'
    OBVIOUS
  <2>1. Inv'
    BY InvInductive DEF SettledInv
  <2>2. interrupts' = 0 => interrupts = 0 /\ ~Interrupt
    BY InterruptsCount DEF SettledInv, Inv, TypeInv, TypeOK, Interrupt
  <2>3. interrupts' = 0 => ReadyInv'
    BY <2>2, ReadyStep DEF SettledInv, Inv
  <2> QED
    BY <2>1, <2>3 DEF SettledInv
<1> QED
  BY <1>1, <1>2, PTL DEF Spec

(* What is known between and in the calls of an uninterrupted recorder.    *)
LEMMA MadeFacts ==
  ASSUME SettledInv, interrupts = 0
  PROVE  /\ sequence \in Nat /\ durable \in {sequence, sequence + 1} /\ error \in Nat
         /\ Len(written) \in {sequence, sequence + 1} /\ durable <= Len(written)
         /\ written \in Seq(Event) /\ calls \in Seq(EventType)
         /\ Len(written) <= Len(calls)
         /\ \A k \in 1..Len(written) : written[k].event_type = calls[k]
         /\ pc \in {"written", "flushed"} =>
              error = 0 /\ Len(written) = sequence + 1 /\ Len(calls) = sequence + 1
         /\ Made \in Seq(EventType)
  <1>1. TypeOK /\ PrefixInv /\ SoundInv
    BY DEF SettledInv, Inv, TypeInv
  <1>2. /\ sequence \in Nat /\ durable \in {sequence, sequence + 1} /\ error \in Nat
        /\ Len(written) \in {sequence, sequence + 1} /\ durable <= Len(written)
        /\ written \in Seq(Event) /\ calls \in Seq(EventType)
    BY <1>1 DEF TypeOK, PrefixInv, SoundInv
  <1>3. /\ Len(written) <= Len(calls)
        /\ \A k \in 1..Len(written) : written[k].event_type = calls[k]
        /\ pc \in {"written", "flushed"} =>
             error = 0 /\ Len(written) = sequence + 1 /\ Len(calls) = sequence + 1
    BY <1>1, <1>2 DEF PrefixInv, SoundInv
  <1>4. Made \in Seq(EventType)
    <2>1. CASE Undone
      <3>1. Len(calls) > 0
        BY <1>2, <1>3, <2>1 DEF Undone
      <3> QED
        BY <1>2, <2>1, <3>1 DEF Made
    <2>2. CASE ~Undone
      BY <1>2, <2>2 DEF Made
    <2> QED
      BY <2>1, <2>2
  <1> QED
    BY <1>2, <1>3, <1>4

(* The recorded events are counted, and stay while nothing is counted.     *)
LEMMA RecordedLength ==
  ASSUME SettledInv, interrupts = 0
  PROVE  Len(Recorded) = Counted /\ Counted \in {sequence, sequence + 1} /\ Counted <= Len(written)
  BY MadeFacts DEF Recorded, Counted

LEMMA RecordedStays ==
  ASSUME SettledInv, interrupts = 0, Counted' = Counted,
         \/ written' = written
         \/ \E r \in Event : written' = Append(written, r)
  PROVE  Recorded' = Recorded
<1>1. Counted \in 0..Len(written) /\ written \in Seq(Event)
  BY MadeFacts, RecordedLength
<1>2. \A k \in 1..Counted : written'[k] = written[k]
  BY <1>1
<1> QED
  BY <1>2 DEF Recorded

LEMMA RecordedGrows ==
  ASSUME SettledInv, interrupts = 0, Counted = sequence, Counted' = sequence + 1,
         sequence < Len(written), UNCHANGED written
  PROVE  Recorded' = Append(Recorded, calls[sequence + 1])
<1>1. /\ sequence \in Nat /\ Len(Recorded) = sequence
      /\ written[sequence + 1].event_type = calls[sequence + 1]
  BY MadeFacts, RecordedLength
<1>2. Recorded = [k \in 1..sequence |-> written[k].event_type]
  BY DEF Recorded
<1>3. Recorded' = [k \in 1..(sequence + 1) |-> written[k].event_type]
  BY DEF Recorded
<1>4. Append(Recorded, calls[sequence + 1]) =
        [k \in 1..(sequence + 1) |-> IF k = sequence + 1 THEN calls[sequence + 1] ELSE Recorded[k]]
  BY <1>1, <1>2
<1> QED
  BY <1>1, <1>2, <1>3, <1>4

(* A call of emit is over: recorded, given up at, or after giving up.      *)
LEMMA CallMade ==
  ASSUME SettledInv, interrupts = 0, NEW e \in EventType, Made' = Append(Made, e),
         Shut = FALSE, Shut' = FALSE,
         \/ error # 0 /\ UNCHANGED <<Recorded, error>>
         \/ error = 0 /\ error' = Len(Recorded) + 1 /\ Recorded' = Recorded
         \/ error = 0 /\ Recorded' = Append(Recorded, e) /\ error' = error
  PROVE  Calls!Next
<1>1. Made'[Len(Made')] = e
  BY MadeFacts
<1>2. Calls!Record
  BY <1>1 DEF Calls!Record
<1>3. Calls!Call(e)
  BY <1>2 DEF Calls!Call
<1> QED
  BY <1>3 DEF Calls!Next

(* emit, or the process in emit, is done with the event it was called with.*)
LEMMA LastCall ==
  ASSUME SettledInv, interrupts = 0, pc \in {"written", "flushed"}, proc = "running",
         calls' = calls, Undone' = FALSE
  PROVE  /\ calls[sequence + 1] \in EventType
         /\ Made' = Append(Made, calls[sequence + 1])
<1>1. sequence \in Nat /\ calls \in Seq(EventType) /\ Len(calls) = sequence + 1
  BY MadeFacts
<1>2. Made = SubSeq(calls, 1, sequence) /\ Made' = calls
  BY <1>1 DEF Made, Undone
<1> QED
  BY <1>1, <1>2

(* The recorder is closed, or dies closing.                                *)
LEMMA Closes ==
  ASSUME SettledInv, interrupts = 0, proc = "running", pc = "closing", Shut' = TRUE,
         UNCHANGED <<calls, written>>, Undone' = FALSE, Counted' \in {sequence, sequence + 1},
         Counted' <= Len(written),
         \/ error' = error
         \/ error = 0 /\ error' = sequence + 1
  PROVE  Calls!Next
<1>1. /\ Shut = FALSE /\ Undone = FALSE /\ Counted = sequence /\ Len(Recorded) = sequence
      /\ sequence \in Nat
  BY MadeFacts, RecordedLength DEF Shut, Undone, Counted
<1>2. Made = calls /\ Made' = calls
  BY <1>1 DEF Made
<1>3. /\ error = 0 => Len(written) = sequence
      /\ error # 0 => error = sequence + 1
  BY DEF SettledInv, Inv, SoundInv
<1>4. CASE Counted' = sequence
  <2>1. Recorded' = Recorded
    BY <1>1, <1>4, RecordedStays
  <2>2. Calls!Release
    BY <1>1, <2>1 DEF Calls!Release
  <2> QED
    BY <1>1, <1>2, <2>2 DEF Calls!Close, Calls!Next
<1>5. CASE Counted' = sequence + 1
  <2>1. sequence < Len(written) /\ Len(written) <= Len(calls) /\ Len(calls) \in Nat
        /\ Len(written) \in Nat
    BY <1>1, <1>5, MadeFacts
  <2>2. error = sequence + 1 /\ error' = error
    BY <1>1, <1>3, <2>1
  <2>3. Recorded' = Append(Recorded, calls[error])
    BY <1>1, <1>5, <2>1, <2>2, RecordedGrows
  <2>4. Calls!Release
    BY <1>1, <1>2, <2>1, <2>2, <2>3 DEF Calls!Release
  <2> QED
    BY <1>1, <1>2, <2>4 DEF Calls!Close, Calls!Next
<1> QED
  BY <1>4, <1>5

(* A step the caller does not see.                                         *)
LEMMA Unseen ==
  ASSUME Made' = Made, Recorded' = Recorded, error' = error, Shut' = Shut
  PROVE  [Calls!Next]_Calls!vars
  BY DEF Calls!vars

LEMMA RecordingStep ==
  ASSUME SettledInv, interrupts = 0, [Next]_vars, interrupts' = 0
  PROVE  [Calls!Next]_Calls!vars
<1> USE DEF Idle, recorder, stream, file
<1>0. /\ sequence \in Nat /\ durable \in {sequence, sequence + 1} /\ durable <= Len(written)
      /\ Len(written) \in {sequence, sequence + 1}
  BY MadeFacts
<1>1. ASSUME Idle PROVE Shut = FALSE /\ Undone = FALSE /\ Made = calls /\ Counted = sequence
  BY <1>1 DEF Shut, Undone, Made, Counted
<1>2. ASSUME NEW e \in EventType, EmitIgnored(e) PROVE [Calls!Next]_Calls!vars
  <2>1. Made' = Append(Made, e) /\ Shut' = FALSE /\ Counted' = Counted /\ error # 0 /\ error' = error
    BY <1>1, <1>2 DEF EmitIgnored, Called, Made, Undone, Shut, Counted
  <2>2. Recorded' = Recorded
    BY <1>2, <2>1, RecordedStays DEF EmitIgnored
  <2> QED
    BY <1>1, <1>2, <2>1, <2>2, CallMade DEF EmitIgnored
<1>3. ASSUME NEW e \in EventType, NEW t \in 0..MaxClock, NEW invalid \in BOOLEAN,
             EmitRefused(e, t, invalid)
      PROVE  [Calls!Next]_Calls!vars
  <2>1. /\ Made' = Append(Made, e) /\ Shut' = FALSE /\ Counted' = Counted
        /\ error = 0 /\ error' = sequence + 1
    BY <1>1, <1>3 DEF EmitRefused, Called, Made, Undone, Shut, Counted
  <2>2. Recorded' = Recorded /\ Len(Recorded) = sequence
    BY <1>1, <1>3, <2>1, RecordedStays, RecordedLength DEF EmitRefused
  <2> QED
    BY <1>1, <1>3, <2>1, <2>2, CallMade DEF EmitRefused
<1>4. ASSUME NEW e \in EventType, NEW t \in 0..MaxClock, EmitWrite(e, t)
      PROVE  [Calls!Next]_Calls!vars
  <2>1. Record(e, t) \in Event
    BY RecordIsEvent DEF SettledInv, Inv, TypeInv
  <2>2. /\ calls' = Append(calls, e) /\ Undone' = TRUE /\ Shut' = Shut /\ Counted' = Counted
        /\ error' = error /\ written' = Append(written, Record(e, t))
    BY <1>4 DEF EmitWrite, Called, Undone, Shut, Counted
  <2>3. Made' = Made
    <3>1. Made' = SubSeq(calls', 1, Len(calls') - 1)
      BY <2>2 DEF Made
    <3>2. calls \in Seq(EventType)
      BY MadeFacts
    <3>3. SubSeq(Append(calls, e), 1, Len(Append(calls, e)) - 1) = calls
      BY <3>2
    <3> QED
      BY <1>1, <1>4, <2>2, <3>1, <3>3 DEF EmitWrite
  <2>4. Recorded' = Recorded
    BY <2>1, <2>2, RecordedStays
  <2> QED
    BY <2>2, <2>3, <2>4, Unseen
<1>5. ASSUME NEW e \in EventType, NEW t \in 0..MaxClock, EmitWriteFails(e, t)
      PROVE  [Calls!Next]_Calls!vars
  <2>1. Record(e, t) \in Event
    BY RecordIsEvent DEF SettledInv, Inv, TypeInv
  <2>2. /\ Made' = Append(Made, e) /\ Shut' = FALSE /\ Counted' = Counted
        /\ error = 0 /\ error' = sequence + 1 /\ written' = Append(written, Record(e, t))
    BY <1>1, <1>5 DEF EmitWriteFails, Called, Made, Undone, Shut, Counted
  <2>3. Recorded' = Recorded /\ Len(Recorded) = sequence
    BY <1>1, <1>5, <2>1, <2>2, RecordedStays, RecordedLength DEF EmitWriteFails
  <2> QED
    BY <1>1, <1>5, <2>2, <2>3, CallMade DEF EmitWriteFails
<1>6. CASE Spill \/ Flush \/ Close
  <2>1. /\ UNCHANGED <<calls, written, error, proc, sequence>> /\ proc = "running"
        /\ (pc \in {"written", "flushed"}) = (pc' \in {"written", "flushed"})
    BY <1>6 DEF Spill, Flush, Close
  <2>2. Undone' = Undone /\ Shut' = Shut /\ Counted' = Counted
    BY <2>1 DEF Undone, Shut, Counted
  <2>3. Made' = Made
    BY <2>1, <2>2 DEF Made
  <2> QED
    BY <2>1, <2>2, <2>3, RecordedStays, Unseen
<1>7. CASE FlushFails
  <2>1. /\ pc = "written" /\ proc = "running" /\ error' = sequence + 1
        /\ UNCHANGED <<calls, written, proc, sequence>> /\ pc' = "ready"
    BY <1>7 DEF FlushFails
  <2>2. Undone' = FALSE /\ Shut = FALSE /\ Shut' = FALSE /\ Counted' = Counted /\ Counted = sequence
    BY <2>1 DEF Undone, Shut, Counted
  <2>3. error = 0
    BY <2>1, MadeFacts
  <2>4. Recorded' = Recorded /\ Len(Recorded) = sequence
    BY <2>1, <2>2, RecordedStays, RecordedLength
  <2>5. calls[sequence + 1] \in EventType /\ Made' = Append(Made, calls[sequence + 1])
    BY <2>1, <2>2, LastCall
  <2> QED
    BY <2>1, <2>2, <2>3, <2>4, <2>5, CallMade
<1>8. CASE Count
  <2>1. /\ pc = "flushed" /\ proc = "running" /\ error' = error /\ sequence' = sequence + 1
        /\ UNCHANGED <<calls, written, proc>> /\ pc' = "ready"
    BY <1>8 DEF Count
  <2>2. Undone' = FALSE /\ Shut = FALSE /\ Shut' = FALSE /\ Counted' = sequence + 1 /\ Counted = sequence
    BY <2>1 DEF Undone, Shut, Counted
  <2>3. error = 0 /\ sequence < Len(written)
    BY <1>0, <2>1, MadeFacts
  <2>4. Recorded' = Append(Recorded, calls[sequence + 1])
    BY <2>1, <2>2, <2>3, RecordedGrows
  <2>5. calls[sequence + 1] \in EventType /\ Made' = Append(Made, calls[sequence + 1])
    BY <2>1, <2>2, LastCall
  <2> QED
    BY <2>1, <2>2, <2>3, <2>4, <2>5, CallMade
<1>9. CASE CloseSucceeds
  <2>1. /\ pc = "closing" /\ proc = "running" /\ UNCHANGED <<calls, written, error>>
        /\ proc' = "closed" /\ pc' = "ready"
        /\ durable' = IF short THEN Len(written) - 1 ELSE Len(written)
    BY <1>9 DEF CloseSucceeds
  <2>2. short => Len(written) = sequence + 1
    BY DEF SettledInv, Inv, SoundInv
  <2>3. durable' \in {sequence, sequence + 1} /\ durable' <= Len(written)
    BY <1>0, <2>1, <2>2
  <2>4. Shut' = TRUE /\ Undone' = FALSE /\ Counted' = durable'
    BY <2>1 DEF Shut, Undone, Counted
  <2> QED
    BY <2>1, <2>3, <2>4, Closes
<1>10. CASE CloseFails
  <2>1. /\ pc = "closing" /\ proc = "running" /\ UNCHANGED <<calls, written, durable>>
        /\ proc' = "closed" /\ pc' = "ready"
        /\ error' = IF error = 0 THEN sequence + 1 ELSE error
    BY <1>10 DEF CloseFails
  <2>2. Shut' = TRUE /\ Undone' = FALSE /\ Counted' = durable
    BY <2>1 DEF Shut, Undone, Counted
  <2> QED
    BY <1>0, <2>1, <2>2, Closes
<1>11. CASE Crash
  <2>1. /\ proc = "running" /\ proc' = "dead"
        /\ UNCHANGED <<calls, written, durable, error, pc, sequence>>
    BY <1>11 DEF Crash
  <2>2. Counted = sequence /\ Counted' = durable
    BY <2>1 DEF Counted
  <2>3. CASE pc = "closing"
    <3>1. Shut' = TRUE /\ Undone' = FALSE
      BY <2>1, <2>3 DEF Shut, Undone
    <3> QED
      BY <1>0, <2>1, <2>2, <2>3, <3>1, Closes
  <2>4. CASE pc = "ready"
    <3>1. Undone = FALSE /\ Undone' = FALSE /\ Shut' = Shut
      BY <2>1, <2>4 DEF Undone, Shut
    <3>2. Made' = Made
      BY <2>1, <3>1 DEF Made
    <3>3. durable = sequence
      BY <2>1, <2>4 DEF SettledInv, ReadyInv
    <3>4. Recorded' = Recorded
      BY <2>1, <2>2, <3>3, RecordedStays
    <3> QED
      BY <2>1, <3>1, <3>2, <3>4, Unseen
  <2>5. CASE pc \in {"written", "flushed"}
    <3>1. Undone /\ Shut = FALSE /\ Shut' = FALSE
      BY <2>1, <2>5 DEF Undone, Shut
    <3>2. Len(written) = sequence + 1 /\ error = 0
      BY <2>5, MadeFacts
    <3>3. CASE durable = sequence
      <4>1. durable < Len(written)
        BY <1>0, <3>2, <3>3
      <4>2. Made' = Made
        BY <2>1, <2>5, <3>1, <4>1 DEF Made, Undone
      <4>3. Recorded' = Recorded
        BY <2>1, <2>2, <3>3, RecordedStays
      <4> QED
        BY <2>1, <3>1, <4>2, <4>3, Unseen
    <3>4. CASE durable = sequence + 1
      <4>1. sequence < Len(written) /\ ~(durable < Len(written))
        BY <1>0, <3>2, <3>4
      <4>u. Undone' = FALSE
        BY <2>1, <4>1 DEF Undone
      <4>2. Recorded' = Append(Recorded, calls[sequence + 1])
        BY <2>1, <2>2, <3>4, <4>1, RecordedGrows
      <4>3. calls[sequence + 1] \in EventType /\ Made' = Append(Made, calls[sequence + 1])
        BY <2>1, <2>5, <4>u, LastCall
      <4> QED
        BY <2>1, <3>1, <3>2, <4>2, <4>3, CallMade
    <3> QED
      BY <1>0, <3>3, <3>4
  <2> QED
    BY <2>3, <2>4, <2>5 DEF SettledInv, Inv, TypeInv, TypeOK
<1>12. CASE UNCHANGED vars
  <2>1. UNCHANGED <<calls, written, durable, error, pc, proc, sequence>>
    BY <1>12 DEF vars
  <2>2. Undone' = Undone /\ Shut' = Shut /\ Recorded' = Recorded
    BY <2>1 DEF Undone, Shut, Recorded, Counted
  <2> QED
    BY <2>1, <2>2, Unseen DEF Made
<1>13. ~Interrupt
  BY DEF Interrupt
<1> QED
  BY <1>2, <1>3, <1>4, <1>5, <1>6, <1>7, <1>8, <1>9, <1>10, <1>11, <1>12, <1>13 DEF Next, Emit

(* Until emit is interrupted between write and count, the recorder does,   *)
(* call by call, what Recording says and VerificationSession is modelled   *)
(* with: the event is recorded for good, or recording gives up at its line *)
(* and only close may still push that one record out.                      *)
THEOREM RecorderImplementsRecording == Spec => ImplementsRecording
<1>1. Init => Calls!Init
  <2> SUFFICES ASSUME Init PROVE Calls!Init
    OBVIOUS
  <2>1. Made = <<>> /\ Counted = 0 /\ Shut = FALSE /\ error = 0
    BY DEF Init, Made, Undone, Counted, Shut
  <2>2. Recorded = <<>>
    BY <2>1 DEF Recorded
  <2> QED
    BY <2>1, <2>2 DEF Calls!Init
<1>2. SettledInv /\ [Next]_vars => [interrupts' = 0 => [Calls!Next]_Calls!vars]_vars
  <2> SUFFICES ASSUME SettledInv, [Next]_vars, interrupts' = 0
               PROVE  [Calls!Next]_Calls!vars
    OBVIOUS
  <2>1. interrupts = 0
    BY InterruptsCount DEF SettledInv, Inv, TypeInv, TypeOK
  <2> QED
    BY <2>1, RecordingStep
<1> QED
  BY <1>1, <1>2, SettledInvAlways, PTL DEF Spec, ImplementsRecording
=============================================================================
