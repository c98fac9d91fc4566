---------------------- MODULE VerificationSession_proofs ----------------------
(***************************************************************************)
(* What a session guarantees for every set of exit codes and test counts   *)
(* and any number of interrupts: its values keep their types, the run      *)
(* inside it keeps its own invariant, and exit status, result file and     *)
(* trace agree.                                                            *)
(***************************************************************************)
EXTENDS VerificationSession, TaskRun_proofs

USE SessionAssumption, ResultAssumption, ExceptionAssumption

(* How a run is over: with a result, or with an exception.                 *)
EndFacts ==
  /\ pc = "returned" => result # None
  /\ pc = "raised" => exc # None

RunInv == Inv /\ EndFacts

LEMMA EndNext == RunInv /\ [Next]_runVars => EndFacts'
<1> SUFFICES ASSUME RunInv, [Next]_runVars PROVE EndFacts'
  OBVIOUS
<1> USE DEF RunInv, EndFacts, At
<1>1. CASE Report
  <2>1. CASE TerminalStatusAgrees(TaskResult)
    <3>1. TaskResult \in TaskResults
      BY <1>1, TaskResultType DEF Inv, Report
    <3> QED
      BY <1>1, <2>1, <3>1 DEF Report
  <2>2. CASE ~TerminalStatusAgrees(TaskResult)
    BY <1>1, <2>2 DEF Report, Raise, Exceptions
  <2> QED
    BY <2>1, <2>2
<1>2. CASE Escape
  BY <1>2 DEF Escape
<1>3. CASE ChildExits \/ UNCHANGED runVars
  BY <1>3 DEF ChildExits, runVars
<1>4. CASE Judge
  BY <1>4 DEF Judge
<1>5. CASE \/ Validate \/ Prepare \/ MakeRoot \/ MakeRootFails \/ Copy \/ CopyFails
           \/ Discard \/ Discarded \/ DiscardFails \/ Enter \/ BuildEnvironment
           \/ LaunchFails \/ Launch \/ Attach \/ Capture
  BY <1>5 DEF Validate, Prepare, MakeRoot, MakeRootFails, Copy, CopyFails, Discard,
     Discarded, DiscardFails, Enter, BuildEnvironment, LaunchFails, Launch, Attach, Capture
<1>6. CASE \/ SeeExit \/ Expire \/ Terminate \/ Mark \/ Drain \/ DrainFails \/ Abandon
           \/ Abort \/ ReadFails \/ Retain \/ Cleanup \/ Cleaned \/ CleanupFails
           \/ Decide \/ Catch \/ Interrupt
  BY <1>6 DEF SeeExit, Expire, Terminate, Mark, Drain, DrainFails, Abandon, Abort,
     ReadFails, Retain, Cleanup, Cleaned, CleanupFails, Decide, Catch, Interrupt, Unwind
<1> QED
  BY <1>1, <1>2, <1>3, <1>4, <1>5, <1>6 DEF Next, RunStep, Proceed, Done

LEMMA RunInvNext == RunInv /\ [Next]_runVars => RunInv'
  BY TypeNext, ProcessNext, VerdictNext, ReportNext, EndNext DEF RunInv, Inv

(* What a session does beside the run adds to the observations an event of *)
(* its own and may count an interrupt, no more.                            *)
OwnEvents == {"RUN_STARTED", "RUN_COMPLETED", "RUN_FAILED"}

Beside ==
  /\ UNCHANGED <<pc, exc, state, lifetime, process, outcome, result>>
  /\ interrupts' \in {interrupts, interrupts + 1}
  /\ UNCHANGED observations \/ \E e \in OwnEvents : Emit(e)

LEMMA BesideKeeps == RunInv /\ Beside => RunInv'
<1> SUFFICES ASSUME RunInv, Beside PROVE RunInv'
  OBVIOUS
<1> USE DEF RunInv, Inv, Beside, lifetime, process, outcome
<1>1. Typed'
  <2>1. interrupts' \in Nat
    BY DEF Typed, StateTypes
  <2> QED
    BY <2>1 DEF Typed, StateTypes, ReportedNow
<1>2. ProcessFacts'
  BY DEF ProcessFacts
<1>3. VerdictFacts'
  BY DEF VerdictFacts
<1>4. ReportFacts'
  BY DEF ReportFacts, Reporting, CompletedIsEarned
<1>5. EndFacts'
  BY DEF EndFacts
<1> QED
  BY <1>1, <1>2, <1>3, <1>4, <1>5

(* A step of the session is a step of the run, or beside it.               *)
RunMoves ==
  /\ spc = "run" /\ [Next]_runVars /\ Watched

OrphanEnds == ChildExits /\ UNCHANGED sessionVars

LEMMA StepKinds ==
  ASSUME RunInv, [SessionNext]_allVars
  PROVE  RunMoves \/ OrphanEnds \/ Beside
<1> USE DEF RunUnchanged
<1>1. ASSUME UNCHANGED <<pc, exc, state, lifetime, process, outcome, result>>,
             interrupts' = interrupts \/ interrupts' = interrupts + 1, UNCHANGED observations
      PROVE  Beside
  BY <1>1 DEF Beside
<1>2. CASE Run \/ RunDisturbed
  BY <1>2 DEF Run, RunDisturbed, RunMoves, Watched, Next, RunStep
<1>3. CASE Orphan
  BY <1>3 DEF Orphan, OrphanEnds
<1>4. CASE SInterrupt
  BY <1>1, <1>4 DEF SInterrupt, SQuiet
<1>5. CASE Begin \/ PersistFails \/ Conclude
  BY <1>5 DEF Begin, PersistFails, Conclude, SEmit, Beside, OwnEvents
<1>6. CASE \/ Create \/ Open \/ OpenFails \/ Load \/ LoadFails \/ RunEnds \/ Write
           \/ Persist \/ Close \/ LastWrite \/ RaiseError \/ Crash
  BY <1>1, <1>6 DEF Create, Open, OpenFails, Load, LoadFails, RunEnds, Write, Persist,
     Close, LastWrite, RaiseError, Crash, SQuiet
<1>7. CASE Ended \/ UNCHANGED allVars
  BY <1>1, <1>7 DEF Ended, allVars, runVars
<1> QED
  BY <1>2, <1>3, <1>4, <1>5, <1>6, <1>7 DEF SessionNext, SessionStep

LEMMA SessionRunNext == RunInv /\ [SessionNext]_allVars => RunInv'
<1> SUFFICES ASSUME RunInv, [SessionNext]_allVars PROVE RunInv'
  OBVIOUS
<1>1. OrphanEnds => [Next]_runVars
  BY DEF OrphanEnds, Next, RunStep
<1> QED
  BY <1>1, StepKinds, BesideKeeps, RunInvNext DEF RunMoves
-----------------------------------------------------------------------------
(* The types of the session in three parts.                                *)
ControlTypes ==
  /\ spc \in {"create", "open", "begin", "load", "run", "persist", "conclude", "close",
              "amend", "lost", "raise", "exit"}
  /\ got \in TaskResults \cup {None}
  /\ caught \in Exceptions \cup {"TaskConfigError", "ValueError", None}
  /\ pending \in {"TraceWriteError", "KeyboardInterrupt", None}
  /\ reported \in FailureTypes \cup {None} /\ excuse \in {"refused", "stopped", None}
  /\ status \in Endings \cup {None}

StoreTypes ==
  /\ wpc \in {"idle", "fill", "replace"} /\ temp \in {"part", "synced", None}
  /\ wpc = "replace" => temp = "synced"
  /\ saved \in Artifacts \cup {None} /\ durable \subseteq Artifacts \cup {None}

TraceTypes ==
  /\ observations \in Seq(SessionEvents)
  /\ recorded \in Seq(SessionEvents) /\ recError \in Nat

Types == ControlTypes /\ StoreTypes /\ TraceTypes

LEMMA TypesInit == SessionInit => Types /\ RunInv
<1> SUFFICES ASSUME SessionInit PROVE Types /\ RunInv
  OBVIOUS
<1>1. ControlTypes
  BY DEF SessionInit, ControlTypes
<1>2. StoreTypes
  BY DEF SessionInit, StoreTypes, Store!StoreInit
<1>3. TraceTypes
  BY DEF SessionInit, Init, TraceTypes
<1>4. Inv
  BY InvInit DEF SessionInit
<1>5. EndFacts
  BY DEF SessionInit, Init, EndFacts
<1> QED
  BY <1>1, <1>2, <1>3, <1>4, <1>5 DEF Types, RunInv

LEMMA FailureType ==
  /\ \A e : ExceptionFailure(e) \in FailureTypes
  /\ \A r : ResultFailure(r) \in FailureTypes
  BY DEF ExceptionFailure, ResultFailure, FailureTypes

LEMMA ExitType == \A e : ExitFor(e) \in {"exit 2", "cancelled", "traceback"}
  BY DEF ExitFor

LEMMA WrittenType ==
  ASSUME Types, spc \in {"lost", "persist", "amend"}
  PROVE  Written \in Artifacts
<1>1. got \in TaskResults \cup {None} /\ recError \in Nat
  BY DEF Types, ControlTypes, TraceTypes
<1>2. ExceptionFailure(caught) \in FailureTypes /\ "artifact" \in FailureTypes
  BY FailureType DEF FailureTypes
<1>3. \A n \in Nat : Artifact(n) \in Artifacts
  BY <1>1, <1>2 DEF Artifact, Artifacts
<1>4. [result |-> None, failure |-> "artifact", trace_error |-> 0] \in Artifacts
  BY <1>2 DEF Artifacts
<1> QED
  BY <1>1, <1>3, <1>4 DEF Written

(* What the recorder keeps of an event just observed.                      *)
LEMMA RecordTypes ==
  ASSUME TraceTypes, NEW e \in SessionEvents, Emit(e), Recorder!Record
  PROVE  TraceTypes'
<1>1. observations' = Append(observations, e)
  BY DEF Emit
<1>2. observations' \in Seq(SessionEvents) /\ Len(observations') = Len(observations) + 1
      /\ observations'[Len(observations')] = e
  BY <1>1 DEF TraceTypes
<1>3. Len(recorded) + 1 \in Nat /\ Append(recorded, e) \in Seq(SessionEvents)
  BY DEF TraceTypes
<1>4. \/ UNCHANGED <<recorded, recError>>
      \/ recorded' = Append(recorded, e) /\ UNCHANGED recError
      \/ recError' = Len(recorded) + 1 /\ UNCHANGED recorded
  BY <1>2 DEF Recorder!Record
<1> QED
  BY <1>2, <1>3, <1>4 DEF TraceTypes

LEMMA WatchedTypes ==
  ASSUME TraceTypes, RunMoves
  PROVE  TraceTypes'
<1>1. CASE UNCHANGED observations
  BY <1>1 DEF RunMoves, Watched, recording, TraceTypes
<1>2. CASE ~UNCHANGED observations
  <2>1. PICK e \in EventTypes : Emit(e)
    BY <1>2, ObservesOne DEF RunMoves
  <2> QED
    BY <1>2, <2>1, RecordTypes DEF RunMoves, Watched, SessionEvents
<1> QED
  BY <1>1, <1>2

LEMMA ControlTypesStay ==
  ASSUME ControlTypes, UNCHANGED <<spc, status, got, caught, pending, reported, excuse>>
  PROVE  ControlTypes'
  BY DEF ControlTypes

LEMMA ControlTypesNext == RunInv /\ Types /\ [SessionNext]_allVars => ControlTypes'
<1> SUFFICES ASSUME RunInv, Types, [SessionNext]_allVars PROVE ControlTypes'
  OBVIOUS
<1> USE FailureType, ExitType DEF Types, ControlTypes, SAt, Endings
<1>1. CASE Create
  <2>1. /\ spc' \in {"open", "exit"} /\ status' \in {status, ExitFor("TraceWriteError")}
        /\ excuse' \in {excuse, "refused"}
        /\ UNCHANGED <<got, caught, pending, reported>>
    BY <1>1 DEF Create
  <2>2. spc' \in {"open", "exit"} /\ UNCHANGED <<got, caught, pending, reported>>
    BY <2>1
  <2>3. status' \in Endings \cup {None} /\ excuse' \in {"refused", "stopped", None}
    BY <2>1
  <2> QED
    BY <2>2, <2>3
<1>10. CASE Open \/ OpenFails \/ Begin \/ Load \/ Write \/ Persist
  BY <1>10 DEF Open, OpenFails, Begin, Load, Write, Persist
<1>11. CASE LoadFails
  BY <1>11 DEF LoadFails, LoadErrors, ResolveErrors, Exceptions, LabErrors
<1>2. CASE RunEnds
  BY <1>2 DEF RunEnds, RunInv, Inv, Typed, StateTypes
<1>3. CASE PersistFails
  BY <1>3 DEF PersistFails, FailureTypes
<1>4. CASE Conclude
  BY <1>4 DEF Conclude
<1>5. CASE Close
  BY <1>5 DEF Close
<1>6. CASE LastWrite \/ RaiseError \/ Crash
  BY <1>6 DEF LastWrite, RaiseError, Crash
<1>7. CASE SInterrupt
  BY <1>7 DEF SInterrupt, Exceptions
<1>8. CASE Run \/ RunDisturbed
  BY <1>8 DEF Run, RunDisturbed, Watched
<1>9. CASE Orphan \/ Ended \/ UNCHANGED allVars
  <2>1. UNCHANGED <<spc, status, got, caught, pending, reported, excuse>>
    BY <1>9 DEF Orphan, Ended, allVars, sessionVars
  <2>2. ControlTypes
    OBVIOUS
  <2> HIDE DEF ControlTypes
  <2> QED
    BY <2>1, <2>2, ControlTypesStay
<1> QED
  BY <1>1, <1>2, <1>3, <1>4, <1>5, <1>6, <1>7, <1>8, <1>9, <1>10, <1>11 DEF SessionNext, SessionStep

(* A rename puts a whole artifact in place.                                *)
LEMMA ReplaceTypes ==
  ASSUME StoreTypes, NEW artifact \in Artifacts, Store!Replace(artifact)
  PROVE  StoreTypes'
  BY DEF StoreTypes, Store!Replace

LEMMA StoreTypesNext == RunInv /\ Types /\ [SessionNext]_allVars => StoreTypes'
<1> SUFFICES ASSUME RunInv, Types, [SessionNext]_allVars PROVE StoreTypes'
  OBVIOUS
<1> USE DEF Types
<1>1. ASSUME UNCHANGED store PROVE StoreTypes'
  BY <1>1 DEF StoreTypes, store
<1>2. CASE Write
  BY <1>2 DEF Write, StoreTypes, Store!MakeTemporary, Store!Fill
<1>3. CASE Persist
  BY <1>3, WrittenType, ReplaceTypes DEF Persist, SAt
<1>4. ASSUME Store!Abandon PROVE StoreTypes'
  BY <1>4 DEF StoreTypes, Store!Abandon
<1>5. CASE LastWrite
  BY <1>4, <1>5, WrittenType, ReplaceTypes DEF LastWrite
<1>6. CASE PersistFails \/ SInterrupt
  BY <1>4, <1>6 DEF PersistFails, SInterrupt
<1>7. CASE \/ Create \/ Open \/ OpenFails \/ Begin \/ Load \/ LoadFails \/ RunEnds \/ Conclude
           \/ Close \/ RaiseError \/ Crash
  BY <1>1, <1>7 DEF Create, Open, OpenFails, Begin, Load, LoadFails, RunEnds, Conclude, Close,
     RaiseError, Crash
<1>8. CASE Run \/ RunDisturbed \/ Orphan \/ Ended \/ UNCHANGED allVars
  BY <1>1, <1>8 DEF Run, RunDisturbed, Watched, Orphan, Ended, allVars, sessionVars
<1> QED
  BY <1>2, <1>3, <1>5, <1>6, <1>7, <1>8 DEF SessionNext, SessionStep

LEMMA TraceTypesNext == RunInv /\ Types /\ [SessionNext]_allVars => TraceTypes'
<1> SUFFICES ASSUME RunInv, Types, [SessionNext]_allVars PROVE TraceTypes'
  OBVIOUS
<1> USE DEF Types
<1>1. ASSUME SQuiet PROVE TraceTypes'
  BY <1>1 DEF SQuiet, recording, TraceTypes
<1>2. CASE Begin \/ PersistFails \/ Conclude
  BY <1>2, RecordTypes DEF Begin, PersistFails, Conclude, SEmit, SessionEvents
<1>3. CASE Run \/ RunDisturbed
  BY <1>3, WatchedTypes DEF Run, RunDisturbed, RunMoves, Watched, Next, RunStep
<1>4. CASE Close
  <2>1. ASSUME recError = Len(recorded) + 1, Len(recorded) < Len(observations)
        PROVE  Append(recorded, observations[recError]) \in Seq(SessionEvents)
    <3>1. observations[recError] \in SessionEvents
      BY <2>1 DEF TraceTypes
    <3> QED
      BY <3>1 DEF TraceTypes
  <2>2. Len(recorded) + 1 \in Nat
    BY DEF TraceTypes
  <2>3. /\ UNCHANGED observations
        /\ \/ UNCHANGED <<recorded, recError>>
           \/ recError' = Len(recorded) + 1 /\ UNCHANGED recorded
           \/ /\ recError = Len(recorded) + 1 /\ Len(recorded) < Len(observations)
              /\ recorded' = Append(recorded, observations[recError]) /\ UNCHANGED recError
    BY <1>4 DEF Close, Recorder!Release
  <2> QED
    BY <2>1, <2>2, <2>3 DEF TraceTypes
<1>5. CASE \/ Create \/ Open \/ OpenFails \/ Load \/ LoadFails \/ RunEnds \/ Write \/ Persist
           \/ LastWrite \/ RaiseError \/ Crash \/ SInterrupt
  BY <1>1, <1>5 DEF Create, Open, OpenFails, Load, LoadFails, RunEnds, Write, Persist,
     LastWrite, RaiseError, Crash, SInterrupt
<1>6. CASE Orphan \/ Ended \/ UNCHANGED allVars
  BY <1>1, <1>6 DEF Orphan, ChildExits, Ended, allVars, runVars, sessionVars, SQuiet, recording
<1> QED
  BY <1>2, <1>3, <1>4, <1>5, <1>6 DEF SessionNext, SessionStep

LEMMA TypesAlways == SessionSpec => [](Types /\ RunInv)
<1>1. Types /\ RunInv /\ [SessionNext]_allVars => (Types /\ RunInv)'
  BY ControlTypesNext, StoreTypesNext, TraceTypesNext, SessionRunNext DEF Types
<1> QED
  BY <1>1, TypesInit, PTL DEF SessionSpec

(* Every variable of a session keeps its type.                             *)
THEOREM SessionTypeCorrect == SessionSpec => []SessionTypeOK
<1>1. Types => SessionTypeOK
  BY DEF Types, ControlTypes, StoreTypes, TraceTypes, SessionTypeOK
<1> QED
  BY <1>1, TypesAlways, PTL

(* Also inside a session, whatever fails around it, the contracts of       *)
(* core/result.py hold and a completed result is earned.                   *)
THEOREM SessionKeepsTheRun == SessionSpec => [](ContractsHold /\ CompletedIsEarned)
<1>1. RunInv => ContractsHold /\ CompletedIsEarned
  BY DEF RunInv, Inv, ReportFacts, ContractsHold
<1> QED
  BY <1>1, TypesAlways, PTL
-----------------------------------------------------------------------------
(* The trace holds the first observations, and all of them while recording *)
(* has not given up.                                                       *)
PrefixInv ==
  /\ Len(recorded) <= Len(observations)
  /\ \A i \in 1..Len(recorded) : recorded[i] = observations[i]
  /\ recError = 0 => Len(recorded) = Len(observations)

LEMMA RecordPrefix ==
  ASSUME TraceTypes, PrefixInv, NEW e \in SessionEvents, Emit(e), Recorder!Record
  PROVE  PrefixInv'
<1>1. observations' = Append(observations, e)
  BY DEF Emit
<1>2. /\ Len(observations') = Len(observations) + 1
      /\ observations'[Len(observations')] = e
      /\ \A i \in 1..Len(observations) : observations'[i] = observations[i]
  BY <1>1 DEF TraceTypes
<1>3. Len(recorded) \in Nat /\ Len(observations) \in Nat
  BY DEF TraceTypes
<1>4. CASE UNCHANGED recorded /\ recError' # 0
  BY <1>2, <1>3, <1>4 DEF PrefixInv
<1>5. CASE recorded' = Append(recorded, e) /\ recError = 0
  <2>1. /\ Len(recorded') = Len(recorded) + 1 /\ recorded'[Len(recorded) + 1] = e
        /\ \A i \in 1..Len(recorded) : recorded'[i] = recorded[i]
    BY <1>5 DEF TraceTypes
  <2> QED
    BY <1>2, <1>3, <1>5, <2>1 DEF PrefixInv
<1>6. Len(recorded) + 1 # 0
  BY <1>3
<1> QED
  BY <1>2, <1>4, <1>5, <1>6 DEF Recorder!Record

LEMMA WatchedPrefix ==
  ASSUME TraceTypes, PrefixInv, RunMoves
  PROVE  PrefixInv'
<1>1. CASE UNCHANGED observations
  BY <1>1 DEF RunMoves, Watched, recording, PrefixInv
<1>2. CASE ~UNCHANGED observations
  <2>1. PICK e \in EventTypes : Emit(e)
    BY <1>2, ObservesOne DEF RunMoves
  <2> QED
    BY <1>2, <2>1, RecordPrefix DEF RunMoves, Watched, SessionEvents
<1> QED
  BY <1>1, <1>2

(* close gives up at the line after those recorded, or pushes out one more.*)
LEMMA CloseRecording ==
  ASSUME Close
  PROVE  /\ UNCHANGED observations
         /\ \/ UNCHANGED <<recorded, recError>>
            \/ recError = 0 /\ recError' = Len(recorded) + 1 /\ UNCHANGED recorded
            \/ /\ recError = Len(recorded) + 1 /\ Len(recorded) < Len(observations)
               /\ recorded' = Append(recorded, observations[recError]) /\ UNCHANGED recError
  BY DEF Close, Recorder!Release

LEMMA PrefixNext == RunInv /\ Types /\ PrefixInv /\ [SessionNext]_allVars => PrefixInv'
<1> SUFFICES ASSUME RunInv, Types, PrefixInv, [SessionNext]_allVars PROVE PrefixInv'
  OBVIOUS
<1> USE DEF Types
<1>1. ASSUME SQuiet PROVE PrefixInv'
  BY <1>1 DEF SQuiet, recording, PrefixInv
<1>2. CASE Begin \/ PersistFails \/ Conclude
  BY <1>2, RecordPrefix DEF Begin, PersistFails, Conclude, SEmit, SessionEvents
<1>3. CASE Run \/ RunDisturbed
  BY <1>3, WatchedPrefix DEF Run, RunDisturbed, RunMoves, Watched, Next, RunStep
<1>4. CASE Close
  <2>1. Len(recorded) \in Nat /\ Len(observations) \in Nat
    BY DEF TraceTypes
  <2>2. CASE UNCHANGED <<recorded, recError>>
    BY <1>4, <2>2, CloseRecording DEF PrefixInv
  <2>3. CASE recError' = Len(recorded) + 1 /\ UNCHANGED recorded
    BY <1>4, <2>1, <2>3, CloseRecording DEF PrefixInv
  <2>4. CASE /\ recError = Len(recorded) + 1 /\ Len(recorded) < Len(observations)
             /\ recorded' = Append(recorded, observations[recError]) /\ UNCHANGED recError
    <3>1. /\ Len(recorded') = Len(recorded) + 1
          /\ recorded'[Len(recorded) + 1] = observations[Len(recorded) + 1]
          /\ \A i \in 1..Len(recorded) : recorded'[i] = recorded[i]
      BY <2>4 DEF TraceTypes
    <3> QED
      BY <1>4, <2>1, <2>4, <3>1, CloseRecording DEF PrefixInv
  <2> QED
    BY <1>4, <2>2, <2>3, <2>4, CloseRecording
<1>5. CASE \/ Create \/ Open \/ OpenFails \/ Load \/ LoadFails \/ RunEnds \/ Write \/ Persist
           \/ LastWrite \/ RaiseError \/ Crash \/ SInterrupt
  BY <1>1, <1>5 DEF Create, Open, OpenFails, Load, LoadFails, RunEnds, Write, Persist,
     LastWrite, RaiseError, Crash, SInterrupt
<1>6. CASE Orphan \/ Ended \/ UNCHANGED allVars
  BY <1>1, <1>6 DEF Orphan, ChildExits, Ended, allVars, runVars, sessionVars, SQuiet, recording
<1> QED
  BY <1>2, <1>3, <1>4, <1>5, <1>6 DEF SessionNext, SessionStep
-----------------------------------------------------------------------------
(* What is known of the command's locals and of result.json at each point. *)
PointInv ==
  /\ spc # "exit" => status = None
  /\ spc \in {"create", "open", "begin", "load", "run", "lost"} =>
       got = None /\ caught = None /\ pending = None /\ saved = None
  /\ spc = "persist" => pending = None /\ saved = None
  /\ spc \in {"persist", "conclude", "close", "amend"} => (got = None <=> caught # None)
  /\ spc \in {"conclude", "amend"} => pending = None
  /\ spc \in {"conclude", "close", "amend"} /\ pending = None => saved = Artifact(0)
  /\ spc = "amend" => recError # 0
  /\ got # None => got = result

LEMMA PointNext == RunInv /\ Types /\ PointInv /\ [SessionNext]_allVars => PointInv'
<1> SUFFICES ASSUME RunInv, Types, PointInv, [SessionNext]_allVars PROVE PointInv'
  OBVIOUS
<1> USE DEF PointInv, SAt, RunUnchanged, store
<1>1. CASE Create \/ Open \/ OpenFails \/ Begin \/ Load
  BY <1>1 DEF Create, Open, OpenFails, Begin, Load
<1>2. CASE LoadFails
  BY <1>2 DEF LoadFails, LoadErrors, ResolveErrors, Exceptions, LabErrors
<1>3. CASE RunEnds
  <2>1. got' = result /\ caught' = (IF pc = "raised" THEN exc ELSE None) /\ result' = result
        /\ spc = "run" /\ spc' = "persist" /\ UNCHANGED <<pending, saved, status>>
    BY <1>3 DEF RunEnds
  <2>2. pc = "returned" \/ pc = "raised"
    BY <1>3 DEF RunEnds, Finished
  <2>3. pc = "returned" => result # None
    BY DEF RunInv, EndFacts
  <2>4. pc = "raised" => exc # None /\ result = None
    BY DEF RunInv, Inv, ReportFacts, EndFacts
  <2> QED
    BY <2>1, <2>2, <2>3, <2>4
<1>4. CASE Write
  BY <1>4 DEF Write, Store!MakeTemporary, Store!Fill, SQuiet, recording, Artifact
<1>5. CASE Persist
  <2>1. /\ saved' = Artifact(0) /\ spc = "persist" /\ spc' = "conclude"
        /\ UNCHANGED <<got, caught, pending, status, result>>
    BY <1>5 DEF Persist, Written, Store!Replace
  <2> QED
    BY <2>1 DEF Artifact
<1>6. CASE PersistFails
  BY <1>6 DEF PersistFails, Store!Abandon
<1>7. CASE Conclude
  BY <1>7 DEF Conclude, Artifact
<1>8. CASE Close
  <2>1. /\ spc = "close" /\ spc' \in {"amend", "exit"}
        /\ spc' = "amend" => pending = None /\ recError' # 0 /\ UNCHANGED status
        /\ UNCHANGED <<got, caught, pending, saved, result>>
    BY <1>8 DEF Close
  <2> QED
    BY <2>1 DEF Artifact
<1>9. CASE LastWrite \/ RaiseError \/ Crash
  BY <1>9 DEF LastWrite, RaiseError, Crash
<1>10. CASE SInterrupt
  <2>1. UNCHANGED <<got, saved, result>>
    BY <1>10 DEF SInterrupt, Store!Abandon
  <2>2. CASE spc \in {"load", "run"}
    BY <1>10, <2>1, <2>2 DEF SInterrupt, Exceptions
  <2>3. CASE spc \notin {"load", "run"}
    BY <1>10, <2>1, <2>3 DEF SInterrupt, Exceptions
  <2> QED
    BY <2>2, <2>3
<1>11. CASE Run \/ RunDisturbed
  BY <1>11 DEF Run, RunDisturbed, Watched
<1>12. CASE Orphan \/ Ended \/ UNCHANGED allVars
  <2>1. UNCHANGED <<spc, got, caught, pending, saved, recError, status, result>>
    BY <1>12 DEF Orphan, ChildExits, Ended, allVars, runVars, sessionVars, recording
  <2> QED
    BY <2>1 DEF Artifact
<1> QED
  BY <1>1, <1>2, <1>3, <1>4, <1>5, <1>6, <1>7, <1>8, <1>9, <1>10, <1>11, <1>12
  DEF SessionNext, SessionStep
-----------------------------------------------------------------------------
(* Whether a result or a failure stands behind an artifact, and what the   *)
(* machine may find of it after losing power.                              *)
SavedInv ==
  /\ saved \in durable
  /\ saved = None => durable = {None}
  /\ \A c \in durable \ {None} : c.result = saved.result /\ c.failure = saved.failure
  /\ saved # None => (saved.result = None) # (saved.failure = None)

(* A completed run is claimed when its result is on disk.                  *)
ClaimInv ==
  (\E i \in 1..Len(observations) : observations[i] = "RUN_COMPLETED") =>
    saved # None /\ saved.result # None /\ saved.result.status = "completed"

(* The terminal event of what was measured.                                *)
Terminal == IF got # None /\ got.status = "completed" THEN "RUN_COMPLETED" ELSE "RUN_FAILED"

(* Before the last step the terminal event is there, unless an exception   *)
(* is on its way out.                                                      *)
LastInv ==
  spc = "close" /\ pending = None =>
    Len(observations) > 0 /\ observations[Len(observations)] = Terminal

(* How the command ends agrees with what was recorded and persisted.       *)
ExitInv ==
  status \in {"exit 0", "exit 1"} =>
    /\ spc = "exit" /\ recError = 0 /\ got # None /\ saved = Artifact(0)
    /\ Len(observations) > 0 /\ observations[Len(observations)] = Terminal
    /\ (status = "exit 0") <=> (got.status = "completed")

(* trace_error is what the recorder last said.                             *)
ErrorInv ==
  saved # None /\ saved.trace_error # 0 =>
    /\ saved.trace_error = recError
    /\ spc \in {"raise", "exit"} /\ status \in {"exit 2", "cancelled", "died", None}
-----------------------------------------------------------------------------
(* The three writes that replace result.json: of what was measured or      *)
(* caught, of a run without a trace, and of the envelope that admits an    *)
(* incomplete one.                                                         *)
FirstSave ==
  /\ spc = "persist" /\ spc' = "conclude" /\ saved = None
  /\ saved' = Artifact(0)

LostSave ==
  /\ spc = "lost" /\ spc' = "raise" /\ saved = None
  /\ saved' = [result |-> None, failure |-> "artifact", trace_error |-> 0]

AmendSave ==
  /\ spc = "amend" /\ spc' = "raise" /\ saved = Artifact(0)
  /\ saved' = Artifact(recError)

Saves ==
  /\ FirstSave \/ LostSave \/ AmendSave
  /\ durable' = durable \cup {saved'}
  /\ UNCHANGED <<observations, recorded, recError, got, caught, status>>

LEMMA SavedMoves ==
  ASSUME Types, PointInv, [SessionNext]_allVars
  PROVE  Saves \/ UNCHANGED <<saved, durable>>
<1> USE DEF SQuiet, recording, SAt
<1>1. wpc = "replace" => temp = "synced"
  BY DEF Types, StoreTypes
<1>2. CASE Persist
  <2>1. /\ spc = "persist" /\ spc' = "conclude"
        /\ saved' = Written /\ durable' = durable \cup {Written}
        /\ UNCHANGED <<observations, recorded, recError, got, caught, status>>
    BY <1>1, <1>2 DEF Persist, Store!Replace
  <2>2. saved = None
    BY <2>1 DEF PointInv
  <2>3. Written = Artifact(0)
    BY <2>1 DEF Written
  <2> QED
    BY <2>1, <2>2, <2>3 DEF Saves, FirstSave
<1>3. CASE LastWrite
  <2>1. CASE Store!Abandon
    BY <2>1 DEF Store!Abandon
  <2>2. CASE Store!Replace(Written)
    <3>1. /\ spc \in {"lost", "amend"} /\ spc' = "raise"
          /\ saved' = Written /\ durable' = durable \cup {Written}
          /\ UNCHANGED <<observations, recorded, recError, got, caught, status>>
      BY <1>1, <1>3, <2>2 DEF LastWrite, Store!Replace
    <3>2. CASE spc = "lost"
      <4>1. saved = None
        BY <3>2 DEF PointInv
      <4>2. Written = [result |-> None, failure |-> "artifact", trace_error |-> 0]
        BY <3>2 DEF Written
      <4> QED
        BY <3>1, <3>2, <4>1, <4>2 DEF Saves, LostSave
    <3>3. CASE spc = "amend"
      <4>1. saved = Artifact(0)
        BY <3>3 DEF PointInv
      <4>2. Written = Artifact(recError)
        BY <3>3 DEF Written
      <4> QED
        BY <3>1, <3>3, <4>1, <4>2 DEF Saves, AmendSave
    <3> QED
      BY <3>1, <3>2, <3>3
  <2> QED
    BY <1>3, <2>1, <2>2 DEF LastWrite
<1>4. CASE Write \/ PersistFails \/ SInterrupt
  BY <1>4 DEF Write, PersistFails, SInterrupt, Store!MakeTemporary, Store!Fill, Store!Abandon
<1>5. CASE \/ Create \/ Open \/ OpenFails \/ Begin \/ Load \/ LoadFails \/ RunEnds \/ Conclude
           \/ Close \/ RaiseError \/ Crash
  BY <1>5 DEF Create, Open, OpenFails, Begin, Load, LoadFails, RunEnds, Conclude, Close,
     RaiseError, Crash, store
<1>6. CASE Run \/ RunDisturbed \/ Orphan \/ Ended \/ UNCHANGED allVars
  BY <1>6 DEF Run, RunDisturbed, Watched, Orphan, Ended, allVars, sessionVars, store
<1> QED
  BY <1>2, <1>3, <1>4, <1>5, <1>6 DEF SessionNext, SessionStep

(* What is written is an artifact.                                         *)
LEMMA SavedWritten ==
  ASSUME Types, Saves
  PROVE  saved' \in Artifacts /\ saved' # None
<1>1. saved' = Written /\ spc \in {"lost", "persist", "amend"}
  BY DEF Saves, FirstSave, LostSave, AmendSave, Written
<1>2. saved' \in Artifacts
  BY <1>1, WrittenType
<1> QED
  BY <1>2

(* What is written is a result or a failure.                               *)
LEMMA SavedWhole ==
  ASSUME Types, PointInv, Saves
  PROVE  (saved'.result = None) # (saved'.failure = None)
<1>1. \A e : ExceptionFailure(e) # None
  BY FailureType
<1>2. \A n : Artifact(n).result = got /\ (Artifact(n).failure = None <=> got # None)
  BY <1>1 DEF Artifact
<1>3. "artifact" # None
  BY DEF FailureTypes
<1>4. CASE LostSave
  BY <1>3, <1>4 DEF LostSave
<1>5. CASE FirstSave \/ AmendSave
  BY <1>2, <1>5 DEF FirstSave, AmendSave
<1> QED
  BY <1>4, <1>5 DEF Saves

(* VerdictKept, of one step.                                               *)
LEMMA VerdictStep ==
  ASSUME Types, PointInv, [SessionNext]_allVars, saved # None
  PROVE  /\ saved' # None
         /\ saved'.result = saved.result /\ saved'.failure = saved.failure
         /\ saved.trace_error # 0 => saved' = saved
<1>1. CASE UNCHANGED <<saved, durable>>
  BY <1>1
<1>2. CASE Saves
  <2>1. saved = Artifact(0) /\ saved' = Artifact(recError)
    BY <1>2 DEF Saves, FirstSave, LostSave, AmendSave
  <2>2. saved' # None
    BY <1>2, SavedWritten
  <2> QED
    BY <2>1, <2>2 DEF Artifact
<1> QED
  BY <1>1, <1>2, SavedMoves

LEMMA SavedNext == Types /\ PointInv /\ SavedInv /\ [SessionNext]_allVars => SavedInv'
<1> SUFFICES ASSUME Types, PointInv, SavedInv, [SessionNext]_allVars PROVE SavedInv'
  OBVIOUS
<1>1. CASE UNCHANGED <<saved, durable>>
  BY <1>1 DEF SavedInv
<1>2. CASE Saves
  <2>1. durable' = durable \cup {saved'}
    BY <1>2 DEF Saves
  <2>2. saved' # None
    BY <1>2, SavedWritten
  <2>3. CASE saved = None
    BY <1>2, <2>1, <2>2, <2>3, SavedWhole DEF SavedInv
  <2>4. CASE saved # None
    <3>1. saved'.result = saved.result /\ saved'.failure = saved.failure
      BY <2>4, VerdictStep
    <3> QED
      BY <1>2, <2>1, <2>2, <3>1, SavedWhole DEF SavedInv
  <2> QED
    BY <2>3, <2>4
<1> QED
  BY <1>1, <1>2, SavedMoves
-----------------------------------------------------------------------------
(* The event of a step: one of the run or an opening or failing one, or    *)
(* the terminal one that follows the first write.                          *)
Narrates ==
  \E e \in SessionEvents \ {"RUN_COMPLETED"} : Emit(e) /\ ~(spc' = "close" /\ pending' = None)

Concludes ==
  /\ spc = "conclude" /\ spc' = "close" /\ Emit(Terminal)
  /\ UNCHANGED <<got, caught, pending, saved, status>>

LEMMA EventMoves ==
  ASSUME RunInv, Types, [SessionNext]_allVars
  PROVE  Narrates \/ Concludes \/ UNCHANGED observations
<1> USE DEF SEmit, SAt
<1>1. CASE Begin
  BY <1>1 DEF Begin, Narrates, SessionEvents
<1>2. CASE PersistFails
  <2>1. "TraceWriteError" # None
    OBVIOUS
  <2> QED
    BY <1>2, <2>1 DEF PersistFails, Narrates, SessionEvents
<1>3. CASE Conclude
  BY <1>3 DEF Conclude, Concludes, Terminal, store
<1>4. CASE Run \/ RunDisturbed
  <2>1. RunMoves
    BY <1>4 DEF Run, RunDisturbed, RunMoves, Watched, Next, RunStep
  <2>2. spc' = "run"
    BY <2>1 DEF RunMoves, Watched
  <2>3. ASSUME NEW e \in EventTypes PROVE e \in SessionEvents \ {"RUN_COMPLETED"}
    BY DEF EventTypes, SessionEvents
  <2>4. UNCHANGED observations \/ \E e \in EventTypes : Emit(e)
    BY <2>1, ObservesOne DEF RunMoves
  <2> QED
    BY <2>2, <2>3, <2>4 DEF Narrates
<1>5. CASE \/ Create \/ Open \/ OpenFails \/ Load \/ LoadFails \/ RunEnds \/ Write \/ Persist
           \/ LastWrite \/ RaiseError \/ Crash \/ SInterrupt \/ Close
  BY <1>5 DEF Create, Open, OpenFails, Load, LoadFails, RunEnds, Write, Persist,
     LastWrite, RaiseError, Crash, SInterrupt, Close, SQuiet
<1>6. CASE Orphan \/ Ended \/ UNCHANGED allVars
  BY <1>6 DEF Orphan, ChildExits, Ended, allVars, runVars
<1> QED
  BY <1>1, <1>2, <1>3, <1>4, <1>5, <1>6 DEF SessionNext, SessionStep

(* What an event adds to the observations.                                 *)
LEMMA Emitted ==
  ASSUME TraceTypes, NEW e \in SessionEvents, Emit(e)
  PROVE  /\ Len(observations') = Len(observations) + 1 /\ Len(observations') > 0
         /\ observations'[Len(observations')] = e
         /\ \A i \in 1..Len(observations) : observations'[i] = observations[i]
  BY DEF Emit, TraceTypes

LEMMA TerminalType == Terminal \in SessionEvents
  BY DEF Terminal, SessionEvents

LEMMA ClaimNext ==
  RunInv /\ Types /\ PointInv /\ ClaimInv /\ [SessionNext]_allVars => ClaimInv'
<1> SUFFICES ASSUME RunInv, Types, PointInv, ClaimInv, [SessionNext]_allVars,
                    NEW i \in 1..Len(observations'), observations'[i] = "RUN_COMPLETED"
             PROVE  saved' # None /\ saved'.result # None /\ saved'.result.status = "completed"
  BY DEF ClaimInv
<1>1. CASE i \in 1..Len(observations) /\ observations[i] = "RUN_COMPLETED"
  BY <1>1, VerdictStep DEF ClaimInv
<1>2. CASE UNCHANGED observations
  BY <1>1, <1>2
<1>3. CASE Narrates
  <2>1. PICK e \in SessionEvents \ {"RUN_COMPLETED"} : Emit(e)
    BY <1>3 DEF Narrates
  <2>2. Len(observations) \in Nat
    BY DEF Types, TraceTypes
  <2> QED
    BY <1>1, <2>1, <2>2, Emitted DEF Types
<1>4. CASE Concludes
  <2>1. Len(observations) \in Nat
    BY DEF Types, TraceTypes
  <2>2. i \in 1..Len(observations) \/ Terminal = "RUN_COMPLETED"
    BY <1>4, <2>1, Emitted, TerminalType DEF Concludes, Types
  <2>3. i \in 1..Len(observations) => observations[i] = "RUN_COMPLETED"
    BY <1>4, <2>1, Emitted, TerminalType DEF Concludes, Types
  <2>4. CASE Terminal = "RUN_COMPLETED"
    <3>1. got # None /\ got.status = "completed"
      BY <2>4 DEF Terminal
    <3>2. saved = Artifact(0) /\ saved' = saved
      BY <1>4 DEF Concludes, PointInv
    <3>3. Artifact(0).result = got /\ Artifact(0) # None
      <4>1. Artifact(0) \in Artifacts
        BY <1>4, <3>1 DEF Concludes, Artifact, Artifacts, Types, ControlTypes
      <4> QED
        BY <4>1 DEF Artifact
    <3> QED
      BY <3>1, <3>2, <3>3
  <2> QED
    BY <1>1, <2>2, <2>3, <2>4
<1> QED
  BY <1>2, <1>3, <1>4, EventMoves

LEMMA ErrorNext ==
  RunInv /\ Types /\ PointInv /\ ErrorInv /\ [SessionNext]_allVars => ErrorInv'
<1> SUFFICES ASSUME RunInv, Types, PointInv, ErrorInv, [SessionNext]_allVars,
                    saved' # None, saved'.trace_error # 0
             PROVE  /\ saved'.trace_error = recError'
                    /\ spc' \in {"raise", "exit"}
                    /\ status' \in {"exit 2", "cancelled", "died", None}
  BY DEF ErrorInv
<1>1. CASE Saves
  <2>1. AmendSave
    BY <1>1 DEF Saves, FirstSave, LostSave, Artifact
  <2>2. status = None
    BY <2>1 DEF AmendSave, PointInv
  <2> QED
    BY <1>1, <2>1, <2>2 DEF Saves, AmendSave, Artifact
<1>2. CASE UNCHANGED <<saved, durable>>
  <2>1. /\ saved.trace_error = recError
        /\ spc \in {"raise", "exit"} /\ status \in {"exit 2", "cancelled", "died", None}
    BY <1>2 DEF ErrorInv
  <2>2. /\ UNCHANGED recError /\ spc' \in {"raise", "exit"}
        /\ status' \in {status, "exit 2", "cancelled", "died"}
    <3>1. CASE SInterrupt
      BY <2>1, <3>1 DEF SInterrupt, SQuiet, recording
    <3>2. CASE RaiseError \/ Crash \/ LastWrite
      BY <2>1, <3>2 DEF RaiseError, Crash, LastWrite, SQuiet, recording, SAt, ExitFor
    <3>3. CASE Orphan \/ Ended \/ UNCHANGED allVars
      BY <2>1, <3>3 DEF Orphan, Ended, allVars, sessionVars, recording
    <3>4. CASE \/ Create \/ Open \/ OpenFails \/ Begin \/ Load \/ LoadFails \/ RunEnds \/ Write
               \/ Persist \/ PersistFails \/ Conclude \/ Close \/ Run \/ RunDisturbed
      BY <2>1, <3>4 DEF Create, Open, OpenFails, Begin, Load, LoadFails, RunEnds, Write,
         Persist, PersistFails, Conclude, Close, Run, RunDisturbed, Watched, SAt
    <3> QED
      BY <3>1, <3>2, <3>3, <3>4 DEF SessionNext, SessionStep
  <2> QED
    BY <1>2, <2>1, <2>2
<1> QED
  BY <1>1, <1>2, SavedMoves
LEMMA LastNext ==
  RunInv /\ Types /\ LastInv /\ [SessionNext]_allVars => LastInv'
<1> SUFFICES ASSUME RunInv, Types, LastInv, [SessionNext]_allVars, spc' = "close", pending' = None
             PROVE  Len(observations') > 0 /\ observations'[Len(observations')] = Terminal'
  BY DEF LastInv
<1>1. CASE Concludes
  <2>1. Terminal' = Terminal
    BY <1>1 DEF Concludes, Terminal
  <2> QED
    BY <1>1, <2>1, Emitted, TerminalType DEF Concludes, Types
<1>2. CASE UNCHANGED <<observations, got, pending, spc>>
  BY <1>2 DEF LastInv, Terminal
<1>3. CASE Conclude
  BY <1>1, <1>3 DEF Conclude, Concludes, SAt, SEmit, Terminal, store
<1>4. CASE PersistFails \/ SInterrupt
  <2>1. "TraceWriteError" # None /\ "KeyboardInterrupt" # None
    BY DEF Exceptions
  <2> QED
    BY <1>4, <2>1 DEF PersistFails, SInterrupt
<1>5. CASE \/ Create \/ Open \/ OpenFails \/ Begin \/ Load \/ LoadFails \/ RunEnds \/ Write
           \/ Persist \/ LastWrite \/ RaiseError \/ Crash \/ Close \/ Run \/ RunDisturbed
  BY <1>5 DEF Create, Open, OpenFails, Begin, Load, LoadFails, RunEnds, Write, Persist,
     LastWrite, RaiseError, Crash, Close, Run, RunDisturbed, Watched, SAt
<1>6. CASE Orphan \/ Ended \/ UNCHANGED allVars
  BY <1>2, <1>6 DEF Orphan, ChildExits, Ended, allVars, runVars, sessionVars
<1> QED
  BY <1>3, <1>4, <1>5, <1>6 DEF SessionNext, SessionStep

(* A step after which the command has exit status 0 or 1.                  *)
LEMMA Succeeds ==
  ASSUME Types, PointInv, Close, status' \in {"exit 0", "exit 1"}
  PROVE  /\ spc' = "exit" /\ recError' = 0 /\ got # None /\ pending = None
         /\ status' = IF got.status = "completed" THEN "exit 0" ELSE "exit 1"
<1>1. /\ spc = "close"
      /\ IF pending = None /\ recError' # 0
           THEN UNCHANGED status
           ELSE /\ spc' = "exit"
                /\ status' = IF pending # None THEN ExitFor(pending)
                             ELSE IF caught # None THEN ExitFor(caught)
                             ELSE IF got.status = "completed" THEN "exit 0" ELSE "exit 1"
  BY DEF Close
<1>2. status = None /\ (got = None <=> caught # None)
  BY <1>1 DEF PointInv
<1>3. None \notin {"exit 0", "exit 1"}
  BY DEF Endings
<1>4. CASE pending = None /\ recError' # 0
  BY <1>1, <1>2, <1>3, <1>4
<1>5. CASE pending # None
  BY <1>1, <1>5, ExitType
<1>6. CASE pending = None /\ recError' = 0
  <2>1. caught = None
    BY <1>1, <1>6, ExitType
  <2> QED
    BY <1>1, <1>2, <1>6, <2>1
<1> QED
  BY <1>4, <1>5, <1>6

LEMMA ExitNext ==
  Types /\ PointInv /\ LastInv /\ ExitInv /\ [SessionNext]_allVars => ExitInv'
<1> SUFFICES ASSUME Types, PointInv, LastInv, ExitInv, [SessionNext]_allVars,
                    status' \in {"exit 0", "exit 1"}
             PROVE  /\ spc' = "exit" /\ recError' = 0 /\ got' # None /\ saved' = Artifact(0)'
                    /\ Len(observations') > 0 /\ observations'[Len(observations')] = Terminal'
                    /\ (status' = "exit 0") <=> (got'.status = "completed")
  BY DEF ExitInv
<1>1. CASE Close
  <2>1. /\ spc = "close" /\ UNCHANGED <<observations, got, caught, saved>>
    BY <1>1 DEF Close, store
  <2>2. saved = Artifact(0)
    BY <1>1, <2>1, Succeeds DEF PointInv
  <2>3. Artifact(0)' = Artifact(0) /\ Terminal' = Terminal
    BY <2>1 DEF Artifact, Terminal
  <2>4. Len(observations) > 0 /\ observations[Len(observations)] = Terminal
    BY <1>1, <2>1, Succeeds DEF LastInv
  <2>5. (status' = "exit 0") <=> (got.status = "completed")
    BY <1>1, Succeeds
  <2> QED
    BY <1>1, <2>1, <2>2, <2>3, <2>4, <2>5, Succeeds
<1>2. CASE Orphan \/ Ended \/ UNCHANGED allVars
  <2>1. UNCHANGED <<spc, recError, got, caught, saved, observations, status>>
    BY <1>2 DEF Orphan, ChildExits, Ended, allVars, runVars, sessionVars, recording, store
  <2>2. Artifact(0)' = Artifact(0) /\ Terminal' = Terminal
    BY <2>1 DEF Artifact, Terminal
  <2> QED
    BY <2>1, <2>2 DEF ExitInv
<1>3. CASE Create \/ SInterrupt \/ Crash \/ RaiseError
  <2>1. spc # "exit" /\ status' \in {status, "died", "cancelled", "exit 2"}
    BY <1>3 DEF Create, SInterrupt, Crash, RaiseError, SAt, ExitFor
  <2> QED
    BY <2>1 DEF ExitInv
<1>4. CASE \/ Open \/ OpenFails \/ Begin \/ Load \/ LoadFails \/ RunEnds \/ Write \/ Persist
           \/ PersistFails \/ Conclude \/ LastWrite \/ Run \/ RunDisturbed
  <2>1. spc # "exit" /\ UNCHANGED status
    BY <1>4 DEF Open, OpenFails, Begin, Load, LoadFails, RunEnds, Write, Persist,
       PersistFails, Conclude, LastWrite, Run, RunDisturbed, Watched, SAt
  <2> QED
    BY <2>1 DEF ExitInv
<1> QED
  BY <1>1, <1>2, <1>3, <1>4 DEF SessionNext, SessionStep

(* Why there is no result file, on the way out.                            *)
ExcuseInv ==
  /\ EvidenceIsLeft
  /\ spc = "close" /\ saved = None =>
       \/ excuse = "refused" /\ pending = "TraceWriteError"
       \/ excuse = "stopped" /\ pending = "KeyboardInterrupt"
  /\ spc = "raise" /\ saved = None => excuse = "refused"

(* Without an exception on its way out of it, close finds a result file.   *)
LEMMA MeasuredIsSaved ==
  ASSUME Types, PointInv, spc \in {"conclude", "close", "amend"}, saved = None
  PROVE  spc = "close" /\ pending # None
<1>1. ASSUME pending = None PROVE FALSE
  <2>1. saved = Artifact(0) /\ (got = None <=> caught # None)
    BY <1>1 DEF PointInv
  <2>2. Artifact(0) \in Artifacts
    BY FailureType DEF Artifact, Artifacts, Types, ControlTypes
  <2> QED
    BY <2>1, <2>2
<1> QED
  BY <1>1 DEF PointInv

LEMMA EvidenceNext ==
  Types /\ PointInv /\ ExcuseInv /\ [SessionNext]_allVars => ExcuseInv'
<1> SUFFICES ASSUME Types, PointInv, ExcuseInv, [SessionNext]_allVars, saved' = None,
                    spc' \in {"close", "raise", "exit"}
             PROVE  ExcuseInv'
  BY DEF ExcuseInv, EvidenceIsLeft
<1> USE DEF ExcuseInv, EvidenceIsLeft, SAt
<1>1. saved = None
  BY VerdictStep
<1>2. CASE Close
  <2>1. spc = "close" /\ pending # None
    BY <1>1, <1>2, MeasuredIsSaved DEF Close
  <2>2. spc' = "exit" /\ status' = ExitFor(pending) /\ excuse' = excuse
    BY <1>2, <2>1 DEF Close
  <2> QED
    BY <1>1, <2>1, <2>2 DEF ExitFor
<1>3. CASE Create
  BY <1>3 DEF Create, ExitFor
<1>4. CASE SInterrupt
  <2>1. spc = "conclude" => FALSE
    BY <1>1, MeasuredIsSaved
  <2> QED
    BY <1>4, <2>1 DEF SInterrupt
<1>5. CASE Crash
  BY <1>5 DEF Crash
<1>6. CASE RaiseError
  BY <1>1, <1>6 DEF RaiseError, ExitFor
<1>7. CASE PersistFails
  BY <1>7 DEF PersistFails
<1>8. CASE Conclude
  BY <1>1, <1>8, MeasuredIsSaved DEF Conclude
<1>9. CASE LastWrite
  <2>1. spc' = "raise"
    BY <1>9 DEF LastWrite
  <2>2. excuse' = "refused"
    <3>1. CASE Store!Abandon /\ excuse' = "refused"
      BY <3>1
    <3>2. CASE Store!Replace(Written)
      <4>1. saved' = Written /\ spc \in {"lost", "amend"}
        BY <1>9, <3>2 DEF LastWrite, Store!Replace, Types, StoreTypes
      <4>2. Written \in Artifacts
        BY <4>1, WrittenType
      <4> QED
        BY <4>1, <4>2
    <3> QED
      BY <1>9, <3>1, <3>2 DEF LastWrite
  <2> QED
    BY <2>1, <2>2
<1>10. CASE \/ Open \/ OpenFails \/ Begin \/ Load \/ LoadFails \/ RunEnds \/ Write \/ Persist
            \/ Run \/ RunDisturbed
  BY <1>10 DEF Open, OpenFails, Begin, Load, LoadFails, RunEnds, Write, Persist, Run,
     RunDisturbed, Watched
<1>11. CASE Orphan \/ Ended \/ UNCHANGED allVars
  <2>1. UNCHANGED <<spc, pending, saved, excuse, status>>
    BY <1>11 DEF Orphan, Ended, allVars, sessionVars, store
  <2> QED
    BY <1>1, <2>1
<1> QED
  BY <1>2, <1>3, <1>4, <1>5, <1>6, <1>7, <1>8, <1>9, <1>10, <1>11 DEF SessionNext, SessionStep
-----------------------------------------------------------------------------
(* What the events of the run entail holds inside a session: the events    *)
(* that a session adds are none of those it speaks of.                     *)
RunCause == StateFacts /\ LeaveFacts /\ EventFacts

LEMMA RunCauseInit == SessionInit => RunCause
  BY RunFactsInit DEF SessionInit, RunFacts, StateInv, RunCause

LEMMA BesideCause == RunInv /\ Types /\ RunCause /\ Beside => RunCause'
<1> SUFFICES ASSUME RunInv, Types, RunCause, Beside PROVE RunCause'
  OBVIOUS
<1> USE DEF RunCause, lifetime, process, outcome
<1>1. UNCHANGED <<pc, exc, state, lifetime, process, outcome, result>>
  BY DEF Beside
<1>2. StateFacts'
  BY <1>1 DEF StateFacts
<1>3. LeaveFacts'
  <2>1. interrupts \in Nat
    BY DEF RunInv, Inv, Typed, StateTypes
  <2>2. interrupts > 0 => interrupts' > 0
    BY <2>1 DEF Beside
  <2> QED
    BY <1>1, <2>2 DEF LeaveFacts
<1>4. \A x \in EventTypes : Observed(x)' <=> Observed(x)
  <2>1. CASE UNCHANGED observations
    BY <2>1, ObservedSame
  <2>2. CASE \E e \in OwnEvents : Emit(e)
    <3>1. PICK e \in OwnEvents : Emit(e)
      BY <2>2
    <3>2. e \in SessionEvents /\ e \notin EventTypes
      BY DEF OwnEvents, SessionEvents, EventTypes
    <3>3. observations \in Seq(SessionEvents)
      BY DEF Types, TraceTypes
    <3> QED
      BY <3>1, <3>2, <3>3, ObservedNext
  <2> QED
    BY <2>1, <2>2 DEF Beside
<1>5. {"TASK_VALIDATED", "PROCESS_STARTED", "PROCESS_TIMED_OUT", "PROCESS_COMPLETED",
       "VERIFICATION_COMPLETED", "WORKSPACE_CLEANED", "WORKSPACE_RETAINED"} \subseteq EventTypes
  BY DEF EventTypes
<1>6. EventFacts'
  BY <1>1, <1>4, <1>5 DEF EventFacts
<1> QED
  BY <1>2, <1>3, <1>6

LEMMA RunCauseNext == RunInv /\ Types /\ RunCause /\ [SessionNext]_allVars => RunCause'
<1> SUFFICES ASSUME RunInv, Types, RunCause, [SessionNext]_allVars PROVE RunCause'
  OBVIOUS
<1>1. OrphanEnds => [Next]_runVars
  BY DEF OrphanEnds, Next, RunStep
<1>2. CASE [Next]_runVars
  <2>1. StateInv
    BY DEF RunInv, RunCause, StateInv
  <2>2. observations \in Seq(SessionEvents) /\ EventTypes \subseteq SessionEvents
    BY DEF Types, TraceTypes, SessionEvents
  <2>3. EventFacts'
    BY <1>2, <2>1, <2>2, EventNext DEF RunCause
  <2>4. StateFacts' /\ LeaveFacts'
    BY <1>2, <2>1, StateNext, LeaveNext DEF RunCause
  <2> QED
    BY <2>3, <2>4 DEF RunCause
<1> QED
  BY <1>1, <1>2, StepKinds, BesideCause DEF RunMoves

(* What was caught, and what is reported, in terms of the run's variables. *)
CauseInv ==
  /\ spc \in {"create", "open", "begin", "load"} => pc = "validate"
  /\ caught = "KeyboardInterrupt" => interrupts > 0
  /\ caught = "TaskConfigError" => pc = "validate"
  /\ reported # None => spc \in {"close", "amend", "raise", "exit"}
  /\ reported = "timeout" => timed_out
  /\ reported = "verification" => measured # None /\ verification # None
  /\ reported = "cancelled" => interrupts > 0
  /\ reported = "configuration" => pc = "validate"
  /\ reported = "execution" => measured = None /\ verification # None

LEMMA NoCause ==
  None \notin {"timeout", "verification", "cancelled", "configuration", "execution",
              "KeyboardInterrupt", "TaskConfigError"}
  BY DEF FailureTypes, LoadErrors, Exceptions

(* The category of a result says how its execution went.                   *)
LEMMA ResultCause ==
  ASSUME RunInv, RunCause, result # None
  PROVE  /\ ResultFailure(result) = "timeout" => timed_out
         /\ ResultFailure(result) = "verification" => measured # None /\ verification # None
         /\ ResultFailure(result) = "execution" => measured = None /\ verification # None
         /\ ResultFailure(result) \notin {"cancelled", "configuration"}
<1>1. result.execution = execution /\ result.verification = verification
  BY DEF RunCause, LeaveFacts
<1>2. execution # None => execution = measured /\ measured.timed_out = timed_out
  BY DEF RunInv, Inv, ProcessFacts, RunCause, LeaveFacts
<1>3. verification # None => execution = measured
  BY DEF RunCause, LeaveFacts
<1> QED
  BY <1>1, <1>2, <1>3 DEF ResultFailure

(* So does that of an exception.                                           *)
LEMMA ExceptionCause ==
  /\ \A e : ExceptionFailure(e) \in {"configuration", "workspace", "cancelled", "internal"}
  /\ \A e : ExceptionFailure(e) = "cancelled" => e = "KeyboardInterrupt"
  /\ \A e : ExceptionFailure(e) = "configuration" => e = "TaskConfigError"
  BY DEF ExceptionFailure

LEMMA CauseNext ==
  RunInv /\ Types /\ PointInv /\ RunCause /\ CauseInv /\ [SessionNext]_allVars => CauseInv'
<1> SUFFICES ASSUME RunInv, Types, PointInv, RunCause, CauseInv, [SessionNext]_allVars
             PROVE  CauseInv'
  OBVIOUS
<1> USE DEF SAt, RunUnchanged, process, outcome
<1>n. interrupts \in Nat
  BY DEF RunInv, Inv, Typed, StateTypes
<1>s. ASSUME UNCHANGED <<pc, timed_out, measured, verification, interrupts, caught, reported>>,
             spc' \in {"create", "open", "begin", "load"} =>
               spc \in {"create", "open", "begin", "load"},
             reported = None \/ spc' \in {"close", "amend", "raise", "exit"}
      PROVE  CauseInv'
  BY <1>s DEF CauseInv
<1>1. CASE Create \/ Open \/ OpenFails \/ Begin \/ Load
  BY <1>s, <1>1 DEF Create, Open, OpenFails, Begin, Load, CauseInv
<1>2. CASE LoadFails
  BY <1>2 DEF LoadFails, LoadErrors, ResolveErrors, CauseInv
<1>3. CASE RunEnds
  <2>1. /\ UNCHANGED <<pc, interrupts, reported>> /\ spc' = "persist" /\ spc = "run"
        /\ caught' = exc \/ caught' = None
    BY <1>3 DEF RunEnds
  <2>2. exc \in Exceptions \cup {None} /\ (exc = "KeyboardInterrupt" => interrupts > 0)
    BY DEF RunInv, Inv, Typed, StateTypes, RunCause, LeaveFacts
  <2>3. caught' # "TaskConfigError" /\ (caught' = "KeyboardInterrupt" => interrupts > 0)
    BY <2>1, <2>2, NoCause DEF Exceptions, LabErrors
  <2>4. reported = None
    BY <2>1 DEF CauseInv
  <2> QED
    BY <2>1, <2>3, <2>4, NoCause DEF CauseInv
<1>4. CASE Write \/ Persist
  BY <1>s, <1>4 DEF Write, Persist, CauseInv
<1>5. CASE PersistFails
  BY <1>5 DEF PersistFails, CauseInv
<1>6. CASE Conclude
  <2>1. /\ UNCHANGED <<pc, timed_out, measured, verification, interrupts, caught>>
        /\ spc' = "close" /\ spc = "conclude"
    BY <1>6 DEF Conclude
  <2>2. reported = None /\ (got # None => got = result)
    BY <2>1 DEF CauseInv, PointInv
  <2>3. reported' \in {None, ExceptionFailure(caught)} \/ (got # None /\ reported' = ResultFailure(got))
    BY <1>6, <2>2 DEF Conclude
  <2>4. CASE got # None /\ reported' = ResultFailure(got)
    BY <2>1, <2>2, <2>4, ResultCause DEF CauseInv
  <2>5. CASE reported' = ExceptionFailure(caught)
    BY <2>1, <2>5, ExceptionCause DEF CauseInv
  <2>6. CASE reported' = None
    BY <2>1, <2>6 DEF CauseInv
  <2> QED
    BY <2>3, <2>4, <2>5, <2>6
<1>7. CASE Close \/ LastWrite \/ RaiseError \/ Crash
  BY <1>s, <1>7 DEF Close, LastWrite, RaiseError, Crash, CauseInv
<1>8. CASE SInterrupt
  <2>1. /\ UNCHANGED <<pc, timed_out, measured, verification, reported>>
        /\ interrupts' > 0 /\ caught' \in {caught, "KeyboardInterrupt"}
        /\ spc' \in {"persist", "close", "exit"}
        /\ spc' = "persist" => spc \in {"load", "run"}
    BY <1>n, <1>8 DEF SInterrupt
  <2> QED
    BY <2>1 DEF CauseInv
<1>9. CASE Run \/ RunDisturbed
  <2>1. spc = "run" /\ spc' = "run" /\ UNCHANGED <<caught, reported>>
    BY <1>9 DEF Run, RunDisturbed, Watched
  <2> QED
    BY <2>1, NoCause DEF PointInv, CauseInv
<1>10. CASE Orphan \/ Ended \/ UNCHANGED allVars
  BY <1>s, <1>10 DEF Orphan, ChildExits, Ended, allVars, runVars, sessionVars, CauseInv
<1> QED
  BY <1>1, <1>2, <1>3, <1>4, <1>5, <1>6, <1>7, <1>8, <1>9, <1>10 DEF SessionNext, SessionStep
-----------------------------------------------------------------------------
SessionInv ==
  /\ RunInv /\ Types /\ PrefixInv /\ PointInv /\ SavedInv
  /\ ClaimInv /\ LastInv /\ ExitInv /\ ErrorInv /\ ExcuseInv
  /\ RunCause /\ CauseInv

LEMMA SessionInvAlways == SessionSpec => []SessionInv
<1>1. SessionInit => SessionInv
  <2> SUFFICES ASSUME SessionInit PROVE SessionInv
    OBVIOUS
  <2>1. observations = <<>> /\ recorded = <<>> /\ recError = 0 /\ spc = "create"
        /\ got = None /\ caught = None /\ pending = None /\ saved = None /\ durable = {None}
        /\ status = None
    BY DEF SessionInit, Init, Store!StoreInit
  <2>2. Types /\ RunInv
    BY TypesInit
  <2>3. PrefixInv
    BY <2>1 DEF PrefixInv
  <2>4. PointInv
    BY <2>1 DEF PointInv
  <2>5. SavedInv
    BY <2>1 DEF SavedInv
  <2>6. ClaimInv
    BY <2>1 DEF ClaimInv
  <2>7. LastInv
    BY <2>1 DEF LastInv
  <2>8. ExitInv
    BY <2>1 DEF ExitInv, Endings
  <2>9. ErrorInv
    BY <2>1 DEF ErrorInv
  <2>10. ExcuseInv
    BY <2>1 DEF ExcuseInv, EvidenceIsLeft
  <2>11. RunCause
    BY RunCauseInit
  <2>12. CauseInv
    BY <2>1, NoCause DEF CauseInv, SessionInit, Init
  <2> QED
    BY <2>2, <2>3, <2>4, <2>5, <2>6, <2>7, <2>8, <2>9, <2>10, <2>11, <2>12 DEF SessionInv
<1>2. SessionInv /\ [SessionNext]_allVars => SessionInv'
  BY SessionRunNext, ControlTypesNext, StoreTypesNext, TraceTypesNext, PrefixNext, PointNext,
     SavedNext, ClaimNext, LastNext, ExitNext, ErrorNext, EvidenceNext, RunCauseNext, CauseNext
  DEF SessionInv, Types
<1> QED
  BY <1>1, <1>2, PTL DEF SessionSpec

LEMMA WholeTrace ==
  ASSUME TraceTypes, PrefixInv, recError = 0
  PROVE  recorded = observations
<1>1. Len(recorded) = Len(observations) /\ \A i \in 1..Len(recorded) : recorded[i] = observations[i]
  BY DEF PrefixInv
<1> QED
  BY <1>1 DEF TraceTypes

(* The trace claims completion only when the completed result is already   *)
(* on disk (the order of the two in verify_manifest).                      *)
THEOREM ClaimIsSafe == SessionSpec => []ClaimFollowsEvidence
<1>1. SessionInv => ClaimFollowsEvidence
  <2> SUFFICES ASSUME SessionInv, NEW i \in 1..Len(recorded), recorded[i] = "RUN_COMPLETED"
               PROVE  saved # None /\ saved.result # None /\ saved.result.status = "completed"
    BY DEF ClaimFollowsEvidence
  <2>1. i \in 1..Len(observations) /\ observations[i] = "RUN_COMPLETED"
    BY DEF SessionInv, PrefixInv, Types, TraceTypes
  <2> QED
    BY <2>1 DEF SessionInv, ClaimInv
<1> QED
  BY <1>1, SessionInvAlways, PTL

(* Exit status 0 or 1 is backed by result.json and by the whole trace.     *)
THEOREM ExitIsBacked == SessionSpec => []ExitMeansEvidence
<1>1. SessionInv => ExitMeansEvidence
  <2> SUFFICES ASSUME SessionInv, status \in {"exit 0", "exit 1"}
               PROVE  /\ saved # None /\ saved.result = result /\ result # None
                      /\ saved.trace_error = 0
                      /\ recorded = observations
                      /\ recorded[Len(recorded)] =
                           IF status = "exit 0" THEN "RUN_COMPLETED" ELSE "RUN_FAILED"
                      /\ (status = "exit 0") <=> (result.status = "completed")
    BY DEF ExitMeansEvidence
  <2>1. /\ spc = "exit" /\ recError = 0 /\ got # None /\ saved = Artifact(0)
        /\ observations[Len(observations)] = Terminal
        /\ (status = "exit 0") <=> (got.status = "completed")
    BY DEF SessionInv, ExitInv
  <2>2. got = result
    BY <2>1 DEF SessionInv, PointInv
  <2>3. recorded = observations
    BY <2>1, WholeTrace DEF SessionInv, Types
  <2>4. saved # None
    <3>1. saved \in Artifacts
      BY <2>1 DEF Artifact, Artifacts, SessionInv, Types, ControlTypes
    <3> QED
      BY <3>1
  <2>5. saved.result = got /\ saved.trace_error = 0
    BY <2>1 DEF Artifact
  <2>6. Terminal = IF status = "exit 0" THEN "RUN_COMPLETED" ELSE "RUN_FAILED"
    BY <2>1 DEF Terminal
  <2> QED
    BY <2>1, <2>2, <2>3, <2>4, <2>5, <2>6
<1> QED
  BY <1>1, SessionInvAlways, PTL

(* Amending the envelope never changes the verdict in it.                  *)
THEOREM VerdictStays == SessionSpec => VerdictKept
<1>1. SessionInv /\ [SessionNext]_allVars =>
        [saved # None =>
           /\ saved' # None
           /\ saved'.result = saved.result /\ saved'.failure = saved.failure
           /\ saved.trace_error # 0 => saved' = saved]_allVars
  BY VerdictStep DEF SessionInv
<1> QED
  BY <1>1, SessionInvAlways, PTL DEF SessionSpec, VerdictKept

(* trace_error is the recorder's line, and a gap never exits as success.   *)
THEOREM TraceErrorHonest == SessionSpec => []TraceErrorIsHonest
<1>1. SessionInv => TraceErrorIsHonest
  <2> SUFFICES ASSUME SessionInv PROVE TraceErrorIsHonest
    OBVIOUS
  <2>1. recorded # observations => recError # 0
    BY WholeTrace DEF SessionInv, Types
  <2> QED
    BY <2>1 DEF SessionInv, ErrorInv, ExitInv, TraceErrorIsHonest
<1> QED
  BY <1>1, SessionInvAlways, PTL

(* A command that was neither refused its result file nor stopped outside  *)
(* loading and running leaves one, also for a task that cannot be loaded.  *)
THEOREM EvidenceLeft == SessionSpec => []EvidenceIsLeft
<1>1. SessionInv => EvidenceIsLeft
  BY DEF SessionInv, ExcuseInv
<1> QED
  BY <1>1, SessionInvAlways, PTL

(* The failure_type of RUN_FAILED names something that happened.           *)
THEOREM CauseIsReal == SessionSpec => []FailureNamesTheCause
<1>1. SessionInv => FailureNamesTheCause
  BY DEF SessionInv, RunCause, EventFacts, CauseInv, FailureNamesTheCause
<1> QED
  BY <1>1, SessionInvAlways, PTL

(* result.json is absent or whole, whenever the machine stops.             *)
THEOREM ResultStaysWhole == SessionSpec => []ResultIsWhole
<1>1. SessionInv => ResultIsWhole
  <2> SUFFICES ASSUME SessionInv PROVE ResultIsWhole
    OBVIOUS
  <2>1. saved \in durable
    BY DEF SessionInv, SavedInv
  <2>2. ASSUME NEW content \in durable \ {None}
        PROVE  /\ content # Torn
               /\ (content.result = None) # (content.failure = None)
               /\ [content EXCEPT !.trace_error = 0] = [saved EXCEPT !.trace_error = 0]
    <3>1. saved # None
      BY <2>2 DEF SessionInv, SavedInv
    <3>2. content \in Artifacts /\ saved \in Artifacts
      BY <2>2, <3>1 DEF SessionInv, Types, StoreTypes
    <3>3. content # Torn
      BY <3>2
    <3>4. content.result = saved.result /\ content.failure = saved.failure
      BY <2>2 DEF SessionInv, SavedInv
    <3>5. (content.result = None) # (content.failure = None)
      BY <3>1, <3>4 DEF SessionInv, SavedInv
    <3>6. [content EXCEPT !.trace_error = 0] = [saved EXCEPT !.trace_error = 0]
      BY <3>2, <3>4 DEF Artifacts
    <3> QED
      BY <3>3, <3>5, <3>6
  <2> QED
    BY <2>1, <2>2 DEF ResultIsWhole
<1> QED
  BY <1>1, SessionInvAlways, PTL
=============================================================================
