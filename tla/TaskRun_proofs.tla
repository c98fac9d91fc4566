--------------------------- MODULE TaskRun_proofs ---------------------------
(***************************************************************************)
(* What a task run guarantees for every set of exit codes and test counts, *)
(* any number of interrupts and either retention option: its values keep   *)
(* their types, the contracts of core/result.py never refuse what the      *)
(* program built, and a completed result is earned.                        *)
(***************************************************************************)
EXTENDS TaskRun, TLAPS

USE ProtocolAssumption, NoneAssumption, RunAssumption

(* Every verdict the verifier can form, from any execution or from none at *)
(* all, passes VerificationResult.success_has_evidence.                    *)
THEOREM VerdictIsSound ==
  ASSUME NEW e \in Execution \cup {None}
  PROVE  Interpret(e) \in VerificationResult /\ SuccessHasEvidence(Interpret(e))
<1>1. CASE e = None
  BY <1>1 DEF Interpret, Unavailable, VerificationResult, SuccessHasEvidence
<1>2. CASE e # None /\ ProtocolError(e)
  <2>1. e.exit_code \in ExitCodes \cup {None}
    BY <1>2 DEF Execution
  <2>2. Interpret(e) = Unavailable(e.exit_code)
    BY <1>2 DEF Interpret
  <2> QED
    BY <2>1, <2>2 DEF Unavailable, VerificationResult, SuccessHasEvidence
<1>3. CASE e # None /\ ~ProtocolError(e)
  <2>1. e \in Execution /\ e.stdout # None
    BY <1>3 DEF ProtocolError
  <2>2. e.stdout \in Document /\ e.exit_code \in ExitCodes \cup {None}
    BY <2>1 DEF Execution
  <2>3. CountsAgree(e.stdout) /\ (e.stdout.passed => e.exit_code = 0)
    BY <1>3, <2>1 DEF ProtocolError
  <2>4. e.stdout.tests_passed \in Counts /\ e.stdout.tests_failed \in Counts
    BY <2>2 DEF Document
  <2>5. e.stdout.passed \in BOOLEAN
    BY <2>2 DEF Document
  <2>6. e.stdout.details \in BOOLEAN
    BY <2>2 DEF Document
  <2>7. Interpret(e) =
          [passed |-> e.stdout.passed, tests_passed |-> e.stdout.tests_passed,
           tests_failed |-> e.stdout.tests_failed, exit_code |-> e.exit_code,
           details |-> e.stdout.details]
    BY <1>3 DEF Interpret
  <2>8. Interpret(e) \in VerificationResult
    BY <2>2, <2>4, <2>5, <2>6, <2>7 DEF VerificationResult
  <2>9. SuccessHasEvidence(Interpret(e))
    BY <2>3, <2>4, <2>7 DEF SuccessHasEvidence, CountsAgree
  <2> QED BY <2>8, <2>9
<1> QED BY <1>1, <1>2, <1>3
-----------------------------------------------------------------------------
(* What the runner returns has the type of a TaskResult.                   *)
ReportedNow ==
  (pc = "report" => exc \in LabErrors \cup {None})
  /\ (pc = "report" /\ exc # None => verification = None)

Typed == StateTypes /\ ReportedNow

LEMMA TypeInit == Init => Typed
<1> SUFFICES ASSUME Init PROVE Typed
  OBVIOUS
<1>1. prepared \in BOOLEAN /\ failed \in BOOLEAN /\ retained \in BOOLEAN
  BY DEF Init
<1>2. timed_out \in BOOLEAN
  BY DEF Init
<1>3. interrupts \in Nat
  BY DEF Init
<1> QED
  BY <1>1, <1>2, <1>3 DEF Init, Typed, StateTypes, ReportedNow, Points

LEMMA TaskResultType ==
  ASSUME Typed, pc = "report"
  PROVE  TaskResult \in TaskResults
<1>1. (prepared /\ retained) \in BOOLEAN
  BY DEF Typed, StateTypes
<1>2. exc \in LabErrors \cup {None} /\ verification \in VerificationResult \cup {None}
      /\ execution \in Execution \cup {None}
  BY DEF Typed, StateTypes, ReportedNow
<1> QED
  BY <1>1, <1>2 DEF TaskResult, TaskResults

LEMMA TypeNext == Typed /\ [Next]_runVars => Typed'
<1> SUFFICES ASSUME Typed, [Next]_runVars PROVE Typed'
  OBVIOUS
<1> USE DEF Typed, StateTypes, ReportedNow, At, Emit, Quiet, Raise, Points, Exceptions,
            LabErrors, lifetime, process, outcome
<1>1. CASE Validate
  BY <1>1 DEF Validate
<1>2. CASE Prepare
  BY <1>2 DEF Prepare
<1>3. CASE MakeRoot
  BY <1>3 DEF MakeRoot
<1>4. CASE MakeRootFails
  BY <1>4 DEF MakeRootFails
<1>5. CASE Copy
  BY <1>5 DEF Copy
<1>6. CASE CopyFails
  BY <1>6 DEF CopyFails
<1>7. CASE Discard
  BY <1>7 DEF Discard
<1>8. CASE Discarded
  BY <1>8 DEF Discarded
<1>9. CASE DiscardFails
  BY <1>9 DEF DiscardFails
<1>10. CASE Enter
  BY <1>10 DEF Enter
<1>11. CASE BuildEnvironment
  BY <1>11 DEF BuildEnvironment
<1>12. CASE LaunchFails
  BY <1>12 DEF LaunchFails
<1>13. CASE Launch
  BY <1>13 DEF Launch
<1>14. CASE Attach \/ Capture
  BY <1>14 DEF Attach, Capture
<1>15. CASE SeeExit
  BY <1>15 DEF SeeExit
<1>16. CASE Expire
  BY <1>16 DEF Expire
<1>17. CASE Terminate \/ Mark
  BY <1>17 DEF Terminate, Mark
<1>18. CASE Drain
  BY <1>18 DEF Drain, Measured
<1>19. CASE DrainFails
  BY <1>19 DEF DrainFails
<1>20. CASE Abandon \/ Abort
  BY <1>20 DEF Abandon, Abort
<1>21. CASE Judge
  <2>1. measured \in Execution \cup {None}
    OBVIOUS
  <2>2. Interpret(measured) \in VerificationResult
    BY <2>1, VerdictIsSound
  <2>3. verification' = Interpret(measured) /\ execution' = measured /\ exc' = None
    BY <1>21, <2>1, VerdictIsSound DEF Judge
  <2>4. failed' = ~Interpret(measured).passed
    BY <1>21, <2>1, VerdictIsSound DEF Judge
  <2>5. failed' \in BOOLEAN
    BY <2>4
  <2>6. /\ pc' = "leave"
        /\ UNCHANGED <<state, root, prepared, retained, process, result, interrupts>>
    BY <1>21 DEF Judge
  <2> QED
    BY <2>1, <2>2, <2>3, <2>5, <2>6
<1>22. CASE Retain
  BY <1>22 DEF Retain
<1>23. CASE Cleanup
  BY <1>23 DEF Cleanup
<1>24. CASE Cleaned
  BY <1>24 DEF Cleaned
<1>25. CASE CleanupFails
  BY <1>25 DEF CleanupFails
<1>26. CASE Decide
  BY <1>26 DEF Decide
<1>27. CASE Catch
  BY <1>27 DEF Catch
<1>28. CASE Escape
  BY <1>28 DEF Escape
<1>29. CASE Report
  BY <1>29, TaskResultType DEF Report
<1>30. CASE ReadFails
  BY <1>30 DEF ReadFails
<1>31. CASE ChildExits
  BY <1>31 DEF ChildExits
<1>32. CASE Interrupt
  BY <1>32 DEF Interrupt, Unwind, Finished
<1>33. CASE UNCHANGED runVars
  BY <1>33 DEF runVars
<1> QED
  BY <1>1, <1>2, <1>3, <1>4, <1>5, <1>6, <1>7, <1>8, <1>9, <1>10, <1>11, <1>12, <1>13, <1>14, <1>15, <1>16, <1>17, <1>18, <1>19, <1>20, <1>21, <1>22, <1>23, <1>24, <1>25, <1>26, <1>27, <1>28, <1>29, <1>30, <1>31, <1>32, <1>33
  DEF Next, RunStep, Proceed, Done

(* A step observes one event of a run, or none.                            *)
LEMMA ObservesOne ==
  [Next]_runVars => UNCHANGED observations \/ \E e \in EventTypes : Emit(e)
<1> SUFFICES ASSUME [Next]_runVars
             PROVE  UNCHANGED observations \/ \E e \in EventTypes : Emit(e)
  OBVIOUS
<1>1. CASE Validate \/ Prepare \/ Copy \/ Discard \/ Discarded \/ Enter \/ Attach \/ Expire
           \/ Drain \/ Judge \/ Retain \/ Cleanup \/ Cleaned
  BY <1>1 DEF Validate, Prepare, Copy, Discard, Discarded, Enter, Attach, Expire,
     Drain, Judge, Retain, Cleanup, Cleaned, EventTypes, Quiet
<1>2. CASE \/ MakeRoot \/ MakeRootFails \/ CopyFails \/ DiscardFails \/ BuildEnvironment
           \/ LaunchFails \/ Launch \/ Capture \/ SeeExit \/ Terminate \/ Mark \/ DrainFails
           \/ Abandon \/ Abort \/ ReadFails \/ ChildExits \/ CleanupFails \/ Decide \/ Catch
           \/ Escape \/ Report \/ Interrupt \/ UNCHANGED runVars
  BY <1>2 DEF MakeRoot, MakeRootFails, CopyFails, DiscardFails, BuildEnvironment,
     LaunchFails, Launch, Capture, SeeExit, Terminate, Mark, DrainFails, Abandon, Abort,
     ReadFails, ChildExits, CleanupFails, Decide, Catch, Escape, Report, Interrupt, runVars,
     Quiet
<1> QED
  BY <1>1, <1>2 DEF Next, RunStep, Proceed, Done

(* Every variable of a run keeps its type.                                 *)
THEOREM RunTypeCorrect == Spec => []TypeOK
<1> DEFINE Observing == observations \in Seq(EventTypes)
<1>1. Init => Observing
  BY DEF Init
<1>2. Observing /\ [Next]_runVars => Observing'
  BY ObservesOne DEF Emit
<1>3. Typed /\ Observing => TypeOK
  BY DEF Typed, TypeOK
<1> QED
  BY <1>1, <1>2, <1>3, TypeInit, TypeNext, PTL DEF Spec
-----------------------------------------------------------------------------
BeforeChild == {
  "validate", "prepare", "mkdtemp", "copy", "discard", "discarding", "enter",
  "environment", "launch"}
BeforeMeasure ==
  BeforeChild \cup {"attach", "started", "running", "terminate", "mark", "abandon", "abort",
                   "drain"}

(* What is known of the process at each point of the call.                 *)
ProcessFacts ==
  /\ pc \in BeforeChild => child = "none"
  /\ pc \in BeforeMeasure => measured = None
  /\ pc \in BeforeMeasure \cup {"judge"} =>
       execution = None /\ verification = None /\ ~retained
  /\ pc \in {"mark", "drain"} => child = "reaped"
  /\ pc \in {"abandon", "abort"} => exc # None
  /\ measured # None => child = "reaped"
  /\ execution # None => execution = measured

(* What is known of the verdict and the workspace on the way to a result.  *)
VerdictFacts ==
  /\ verification # None => verification = Interpret(execution)
  /\ verification # None => (failed <=> ~verification.passed)
  /\ retained => failed
  /\ pc \in {"leave", "cleaning", "handle"} /\ exc = None => verification # None
  /\ pc = "handle" /\ exc = None /\ ~failed => root = "removed"

(* The three ways a run can reach its report.                              *)
Reporting ==
  \/ /\ state = "completed" /\ exc = None /\ root = "removed" /\ ~failed
     /\ verification # None
  \/ state = "failed" /\ exc = None /\ failed /\ verification # None
  \/ state = "failed" /\ exc \in LabErrors /\ verification = None

ReportFacts ==
  /\ pc = "report" => Reporting
  /\ result # None => pc = "returned"
  /\ exc # "ValidationError"
  /\ CompletedIsEarned

Inv == Typed /\ ProcessFacts /\ VerdictFacts /\ ReportFacts

(* The process is reaped before its output is taken for a measurement.      *)
LEMMA ProcessNext == Inv /\ [Next]_runVars => ProcessFacts'
<1> SUFFICES ASSUME Inv, [Next]_runVars PROVE ProcessFacts'
  OBVIOUS
<1> USE ExceptionAssumption DEF Exceptions, LabErrors
<1> USE DEF Inv, ProcessFacts, BeforeMeasure, BeforeChild, At, Quiet, Raise,
            lifetime, process, outcome
<1>1. CASE Validate \/ Prepare \/ MakeRoot \/ MakeRootFails \/ Copy \/ CopyFails
          \/ Discard \/ Discarded \/ DiscardFails
  BY <1>1 DEF Validate, Prepare, MakeRoot, MakeRootFails, Copy, CopyFails,
     Discard, Discarded, DiscardFails
<1>2. CASE Enter \/ BuildEnvironment \/ LaunchFails \/ Launch \/ Attach \/ Capture
  BY <1>2 DEF Enter, BuildEnvironment, LaunchFails, Launch, Attach, Capture
<1>3. CASE SeeExit \/ Expire \/ Terminate \/ Mark \/ Drain \/ DrainFails \/ Abandon \/ Abort \/
          ReadFails \/ ChildExits
  BY <1>3 DEF SeeExit, Expire, Terminate, Mark, Drain, DrainFails, Abandon, Abort,
     ReadFails, ChildExits, Measured
<1>4. CASE Judge
  <2>1. pc = "judge" /\ pc' = "leave"
    BY <1>4 DEF Judge
  <2>2. UNCHANGED <<child, measured, retained>>
    BY <1>4 DEF Judge
  <2>3. execution' = measured \/ execution' = execution
    BY <1>4 DEF Judge
  <2> QED
    BY <2>1, <2>2, <2>3
<1>5. CASE Retain \/ Cleanup \/ Cleaned \/ CleanupFails
  BY <1>5 DEF Retain, Cleanup, Cleaned, CleanupFails
<1>6. CASE Decide \/ Catch \/ Escape \/ Report
  BY <1>6 DEF Decide, Catch, Escape, Report
<1>7. CASE Interrupt
  BY <1>7 DEF Interrupt, Unwind, Finished
<1>8. CASE UNCHANGED runVars
  BY <1>8 DEF runVars
<1> QED
  BY <1>1, <1>2, <1>3, <1>4, <1>5, <1>6, <1>7, <1>8
  DEF Next, RunStep, Proceed, Done

(* A verdict is what the protocol makes of the measured execution.          *)
LEMMA VerdictNext == Inv /\ [Next]_runVars => VerdictFacts'
<1> SUFFICES ASSUME Inv, [Next]_runVars PROVE VerdictFacts'
  OBVIOUS
<1> USE ExceptionAssumption DEF Exceptions, LabErrors
<1> USE DEF Inv, ProcessFacts, VerdictFacts, BeforeMeasure, BeforeChild, At, Quiet,
            Raise, lifetime, process, outcome
<1>1. CASE Validate \/ Prepare \/ MakeRoot \/ MakeRootFails \/ Copy \/ CopyFails
          \/ Discard \/ Discarded \/ DiscardFails
  BY <1>1 DEF Validate, Prepare, MakeRoot, MakeRootFails, Copy, CopyFails,
     Discard, Discarded, DiscardFails
<1>2. CASE Enter \/ BuildEnvironment \/ LaunchFails \/ Launch \/ Attach \/ Capture
  BY <1>2 DEF Enter, BuildEnvironment, LaunchFails, Launch, Attach, Capture
<1>3. CASE SeeExit \/ Expire \/ Terminate \/ Mark \/ Drain \/ DrainFails \/ Abandon \/ Abort \/
          ReadFails \/ ChildExits
  BY <1>3 DEF SeeExit, Expire, Terminate, Mark, Drain, DrainFails, Abandon, Abort,
     ReadFails, ChildExits, Measured
<1>4. CASE Judge
  <2>1. measured \in Execution \cup {None}
    BY DEF Typed, StateTypes
  <2>2. Interpret(measured) # None
    BY <2>1, VerdictIsSound
  <2>3. /\ verification' = Interpret(measured) /\ execution' = measured
        /\ failed' = ~Interpret(measured).passed
    BY <1>4, <2>1, VerdictIsSound DEF Judge
  <2>4. pc' = "leave" /\ ~retained'
    BY <1>4 DEF Judge
  <2> QED
    BY <2>2, <2>3, <2>4
<1>5. CASE Retain \/ Cleanup \/ Cleaned \/ CleanupFails
  <2>1. CASE Retain
    <3>1. failed /\ pc = "leave" /\ pc' = "handle" /\ retained' = TRUE
          /\ UNCHANGED <<exc, state, root, prepared, failed, child, timed_out, measured,
                         execution, verification, result>>
      BY <2>1, Zenon DEF Retain
    <3> QED
      BY <3>1
  <2>2. CASE Cleanup
    <3>1. pc = "leave" /\ pc' = "cleaning"
          /\ UNCHANGED <<exc, state, root, prepared, failed, retained, child, timed_out,
                         measured, execution, verification, result>>
      BY <2>2, Zenon DEF Cleanup
    <3> QED
      BY <3>1
  <2>3. CASE Cleaned \/ CleanupFails
    BY <2>3 DEF Cleaned, CleanupFails
  <2> QED
    BY <1>5, <2>1, <2>2, <2>3
<1>6. CASE Decide \/ Catch \/ Escape \/ Report
  BY <1>6 DEF Decide, Catch, Escape, Report
<1>7. CASE Interrupt
  BY <1>7 DEF Interrupt, Unwind, Finished
<1>8. CASE UNCHANGED runVars
  BY <1>8 DEF runVars
<1> QED
  BY <1>1, <1>2, <1>3, <1>4, <1>5, <1>6, <1>7, <1>8
  DEF Next, RunStep, Proceed, Done

(* The verdict and the failure of a report pass TerminalStatusAgrees.      *)
LEMMA ReportAgrees ==
  ASSUME Inv, pc = "report"
  PROVE  TerminalStatusAgrees(TaskResult)
<1> USE DEF Inv, VerdictFacts, ReportFacts, Reporting
<1>1. TaskResult.status = IF state = "completed" THEN "completed" ELSE "failed"
  BY DEF TaskResult
<1>2. TaskResult.verification = verification
  BY DEF TaskResult
<1>3. TaskResult.retained = (prepared /\ retained)
  BY DEF TaskResult
<1>4. TaskResult.failure = IF exc # None THEN exc
                           ELSE IF verification.passed THEN None ELSE "details"
  BY DEF TaskResult
<1>5. CASE state = "completed" /\ exc = None /\ ~failed /\ verification # None
  BY <1>1, <1>2, <1>3, <1>4, <1>5 DEF TerminalStatusAgrees
<1>6. CASE state = "failed" /\ exc = None /\ failed /\ verification # None
  BY <1>1, <1>2, <1>4, <1>6, ExceptionAssumption DEF TerminalStatusAgrees
<1>7. CASE state = "failed" /\ exc \in LabErrors /\ verification = None
  BY <1>1, <1>2, <1>4, <1>7, ExceptionAssumption DEF TerminalStatusAgrees, Exceptions
<1> QED
  BY <1>5, <1>6, <1>7

(* A passing verdict rests on a complete execution that exited with 0.     *)
LEMMA PassIsEarned ==
  ASSUME NEW e \in Execution \cup {None}, Interpret(e).passed
  PROVE  /\ e # None
         /\ Interpret(e).tests_passed > 0 /\ Interpret(e).tests_failed = 0
         /\ e.exit_code = 0 /\ ~e.timed_out
         /\ ~e.stdout_truncated /\ ~e.stderr_truncated
<1>1. e # None /\ ~ProtocolError(e)
  BY DEF Interpret, Unavailable
<1>2. /\ Interpret(e).passed = e.stdout.passed
      /\ Interpret(e).tests_passed = e.stdout.tests_passed
      /\ Interpret(e).tests_failed = e.stdout.tests_failed
  BY <1>1 DEF Interpret
<1>3. e.stdout # None /\ CountsAgree(e.stdout) /\ ~(e.stdout.passed /\ e.exit_code # 0)
      /\ ~e.timed_out /\ ~e.stdout_truncated /\ ~e.stderr_truncated
  BY <1>1 DEF ProtocolError
<1> QED
  BY <1>1, <1>2, <1>3 DEF CountsAgree

(* A report is made of what was earned, and a result stays as it is.       *)
LEMMA ReportNext == Inv /\ [Next]_runVars => ReportFacts'
<1> SUFFICES ASSUME Inv, [Next]_runVars PROVE ReportFacts'
  OBVIOUS
<1> USE ExceptionAssumption DEF Inv, ReportFacts, Reporting, Exceptions, LabErrors, At,
        Quiet, Raise, lifetime, process, outcome
<1>1. result = None \/ pc = "returned"
  OBVIOUS
<1>2. ASSUME result' = None, exc' # "ValidationError", pc' # "report" PROVE ReportFacts'
  BY <1>2 DEF CompletedIsEarned
<1>3. CASE Validate \/ Prepare \/ MakeRoot \/ MakeRootFails \/ Copy \/
          CopyFails \/ Discard \/ Discarded \/ DiscardFails \/
          Enter \/ BuildEnvironment \/ LaunchFails \/ Launch \/
          Attach \/ Capture
  BY <1>3, <1>1, <1>2 DEF Validate, Prepare, MakeRoot, MakeRootFails, Copy,
     CopyFails, Discard, Discarded, DiscardFails, Enter, BuildEnvironment,
     LaunchFails, Launch, Attach, Capture
<1>4. CASE SeeExit \/ Expire \/ Terminate \/ Mark \/ Drain \/ DrainFails \/ Abandon \/ Abort \/
          ReadFails \/ Retain \/ Cleanup \/ Cleaned \/
          CleanupFails \/ Escape
  BY <1>4, <1>1, <1>2 DEF SeeExit, Expire, Terminate, Mark, Drain, DrainFails,
     Abandon, Abort, ReadFails, Retain, Cleanup, Cleaned, CleanupFails, Escape,
     Measured
<1>5. CASE Judge
  <2>1. measured \in Execution \cup {None}
    BY DEF Typed, StateTypes
  <2>2. exc' = None /\ pc' = "leave" /\ pc = "judge" /\ result' = result
    BY <1>5, <2>1, VerdictIsSound DEF Judge
  <2> QED
    BY <2>2, <1>1, <1>2
<1>6. CASE Decide
  <2>1. /\ pc = "handle" /\ pc' = "report" /\ exc = None /\ exc' = None
        /\ state' = IF verification.passed THEN "completed" ELSE "failed"
        /\ UNCHANGED <<root, failed, verification, result>>
    BY <1>6 DEF Decide
  <2>2. verification # None /\ (failed <=> ~verification.passed)
    BY <2>1 DEF VerdictFacts
  <2>3. ~failed => root = "removed"
    BY <2>1 DEF VerdictFacts
  <2>4. Reporting'
    BY <2>1, <2>2, <2>3
  <2>5. result' = None
    BY <2>1, <1>1
  <2> QED
    BY <2>1, <2>4, <2>5 DEF CompletedIsEarned
<1>7. CASE Catch
  <2>1. /\ pc = "handle" /\ pc' = "report" /\ exc \in LabErrors /\ exc' = exc
        /\ state' = "failed" /\ verification' = None /\ result' = result
    BY <1>7 DEF Catch
  <2>2. Reporting' /\ result' = None
    BY <2>1, <1>1
  <2> QED
    BY <2>1, <2>2 DEF CompletedIsEarned
<1>8. CASE Report
  <2>1. /\ pc = "report" /\ pc' = "returned" /\ result' = TaskResult /\ exc' = None
        /\ UNCHANGED <<child, root>>
    BY <1>8, ReportAgrees DEF Report
  <2>2. ASSUME result'.status = "completed"
        PROVE  CompletedIsEarned'
    <3>1. state = "completed"
      BY <2>1, <2>2 DEF TaskResult
    <3>2. root = "removed" /\ ~failed /\ verification # None
      BY <2>1, <3>1
    <3>3. execution \in Execution \cup {None}
      BY DEF Typed, StateTypes
    <3>4. verification = Interpret(execution) /\ Interpret(execution).passed
      BY <3>2 DEF VerdictFacts
    <3>5. child = "reaped"
      BY <3>3, <3>4, PassIsEarned DEF ProcessFacts
    <3>6. result'.verification = verification /\ result'.execution = execution
      BY <2>1 DEF TaskResult
    <3> QED
      BY <2>1, <3>2, <3>3, <3>4, <3>5, <3>6, PassIsEarned DEF CompletedIsEarned
  <2>3. CompletedIsEarned'
    BY <2>2 DEF CompletedIsEarned
  <2> QED
    BY <2>1, <2>3
<1>9. CASE ChildExits
  <2>1. UNCHANGED <<pc, exc, state, root, failed, execution, verification, result>>
    BY <1>9 DEF ChildExits
  <2>2. child = "alive"
    BY <1>9 DEF ChildExits
  <2>3. CompletedIsEarned'
    BY <2>1, <2>2 DEF CompletedIsEarned
  <2> QED
    BY <2>1, <2>3
<1>10. CASE Interrupt
  <2>1. pc # "returned" /\ exc' = "KeyboardInterrupt" /\ result' = result
    BY <1>10 DEF Interrupt, Finished
  <2>2. pc' # "report"
    BY <1>10 DEF Interrupt, Unwind
  <2> QED
    BY <2>1, <2>2, <1>1, <1>2
<1>11. CASE UNCHANGED runVars
  BY <1>11 DEF runVars, CompletedIsEarned
<1> QED
  BY <1>3, <1>4, <1>5, <1>6, <1>7, <1>8, <1>9, <1>10, <1>11
  DEF Next, RunStep, Proceed, Done
-----------------------------------------------------------------------------
LEMMA InvInit == Init => Inv
<1> SUFFICES ASSUME Init PROVE Inv
  OBVIOUS
<1>1. ProcessFacts
  BY DEF Init, ProcessFacts, BeforeMeasure, BeforeChild
<1>2. VerdictFacts
  BY DEF Init, VerdictFacts
<1>3. ReportFacts
  BY ExceptionAssumption
  DEF Init, ReportFacts, CompletedIsEarned, Exceptions
<1> QED
  BY TypeInit, <1>1, <1>2, <1>3 DEF Inv

LEMMA InvAlways == Spec => []Inv
<1>1. Inv /\ [Next]_runVars => Inv'
  BY TypeNext, ProcessNext, VerdictNext, ReportNext DEF Inv
<1> QED
  BY <1>1, InvInit, PTL DEF Spec

(* The validators of core/result.py never refuse a verdict or a TaskResult *)
(* the program builds, so no run ends in a raw ValidationError.            *)
THEOREM NoContractIsBroken == Spec => []ContractsHold
<1>1. Inv => ContractsHold
  BY DEF Inv, ReportFacts, ContractsHold
<1> QED
  BY <1>1, InvAlways, PTL

(* A completed result rests on passed tests, exit code 0, complete output  *)
(* and no timeout, with the process reaped and the run directory removed.  *)
THEOREM CompletionIsEarned == Spec => []CompletedIsEarned
<1>1. Inv => CompletedIsEarned
  BY DEF Inv, ReportFacts
<1> QED
  BY <1>1, InvAlways, PTL

-----------------------------------------------------------------------------
(***************************************************************************)
(* A task run implements the lifecycle of core/state.py: every step of the *)
(* runner is a step of TaskLifecycle or leaves what it sees unchanged.     *)
(* Its events are true and in order, and no directory is lost from sight.  *)
(***************************************************************************)

(* Where the call stands fixes the task's state and its run directory.     *)
StateFacts ==
  /\ pc = "validate" => state = "pending"
  /\ pc \in {"prepare", "mkdtemp", "copy", "discard", "discarding", "enter"} =>
       state = "inspecting"
  /\ pc \in {"environment", "launch", "attach", "started", "running", "terminate", "mark",
             "abandon", "abort", "drain", "judge", "leave", "cleaning"} => state = "testing" /\ root = "complete"
  /\ pc = "handle" /\ exc \in LabErrors => state \in {"inspecting", "testing"}
  /\ pc = "handle" /\ exc = None => state = "testing"
  /\ pc \in {"validate", "prepare", "mkdtemp"} => root = "none"
  /\ pc \in {"copy", "discard", "discarding"} => root = "partial"
  /\ pc = "enter" => root = "complete"

StateInv == Inv /\ StateFacts

LEMMA StateNext == StateInv /\ [Next]_runVars => StateFacts'
<1> SUFFICES ASSUME StateInv, [Next]_runVars PROVE StateFacts'
  OBVIOUS
<1> USE ExceptionAssumption
    DEF StateInv, StateFacts, At, Quiet, Raise, lifetime, process, outcome, Exceptions,
        LabErrors
<1>1. CASE Validate \/ Prepare \/ MakeRoot \/ MakeRootFails \/ Copy \/ CopyFails
           \/ Discard \/ Discarded \/ DiscardFails
  BY <1>1 DEF Validate, Prepare, MakeRoot, MakeRootFails, Copy, CopyFails, Discard,
     Discarded, DiscardFails
<1>2. CASE Enter \/ BuildEnvironment \/ LaunchFails \/ Launch \/ Attach \/ Capture
  BY <1>2 DEF Enter, BuildEnvironment, LaunchFails, Launch, Attach, Capture
<1>3. CASE SeeExit \/ Expire \/ Terminate \/ Mark \/ Drain \/ DrainFails \/ Abandon
           \/ Abort \/ ReadFails \/ ChildExits
  BY <1>3 DEF SeeExit, Expire, Terminate, Mark, Drain, DrainFails, Abandon, Abort, ReadFails,
     ChildExits
<1>4. CASE Judge
  BY <1>4 DEF Judge
<1>5. CASE Retain \/ Cleanup \/ Cleaned \/ CleanupFails
  BY <1>5 DEF Retain, Cleanup, Cleaned, CleanupFails
<1>6. CASE Decide \/ Catch \/ Escape \/ Report
  BY <1>6 DEF Decide, Catch, Escape, Report
<1>7. CASE Interrupt
  BY <1>7 DEF Interrupt, Unwind, Finished
<1>8. CASE UNCHANGED runVars
  BY <1>8 DEF runVars
<1> QED
  BY <1>1, <1>2, <1>3, <1>4, <1>5, <1>6, <1>7, <1>8 DEF Next, RunStep, Proceed, Done

LEMMA StateInvAlways == Spec => []StateInv
<1>1. Init => StateInv
  BY InvInit, ExceptionAssumption DEF StateInv, StateFacts, Init, Exceptions
<1>2. StateInv /\ [Next]_runVars => StateInv'
  BY StateNext, TypeNext, ProcessNext, VerdictNext, ReportNext DEF StateInv, Inv
<1> QED
  BY <1>1, <1>2, PTL DEF Spec
-----------------------------------------------------------------------------
Passed == execution # None /\ Interpret(execution).passed
Directory == IF root \in {"partial", "complete"} THEN "present" ELSE root

LEMMA LifecycleInit == Init => Lifecycle!Init
  BY DEF Init, Lifecycle!Init

(* A step that keeps state, execution and what root stands for stutters.   *)
LEMMA Stutters ==
  ASSUME UNCHANGED <<state, execution, Directory>>
  PROVE  UNCHANGED Lifecycle!lifecycleVars
  BY DEF Lifecycle!lifecycleVars, Directory

LEMMA LifecycleNext ==
  StateInv /\ [Next]_runVars => [Lifecycle!Next]_Lifecycle!lifecycleVars
<1> SUFFICES ASSUME StateInv, [Next]_runVars
             PROVE  Lifecycle!Next \/ UNCHANGED Lifecycle!lifecycleVars
  OBVIOUS
<1> USE DEF StateInv, StateFacts, At, lifetime, process, outcome
<1>1. CASE Validate
  BY <1>1 DEF Validate, Lifecycle!Next, Lifecycle!Advance, Lifecycle!Transitions
<1>2. CASE MakeRoot
  BY <1>2 DEF MakeRoot, Lifecycle!Next, Lifecycle!Create
<1>3. CASE Copy
  BY <1>3, Stutters DEF Copy, Directory
<1>4. CASE Discarded
  BY <1>4 DEF Discarded, Lifecycle!Next, Lifecycle!Remove
<1>5. CASE Enter
  BY <1>5 DEF Enter, Lifecycle!Next, Lifecycle!Advance, Lifecycle!Transitions
<1>6. CASE Judge
  <2>1. pc = "judge" /\ state = "testing" /\ root = "complete" /\ execution = None
    BY <1>6 DEF Judge, Inv, ProcessFacts
  <2>2. UNCHANGED <<state, root>>
    BY <1>6 DEF Judge
  <2>3. ~Passed
    BY <2>1 DEF Passed
  <2>4. CASE Passed'
    BY <2>1, <2>2, <2>3, <2>4 DEF Passed, Lifecycle!Next, Lifecycle!Pass
  <2>5. CASE ~Passed'
    BY <2>2, <2>3, <2>5 DEF Passed, Lifecycle!lifecycleVars
  <2> QED
    BY <2>4, <2>5
<1>7. CASE Cleaned
  BY <1>7 DEF Cleaned, Lifecycle!Next, Lifecycle!Remove
<1>8. CASE Decide
  <2>1. /\ pc = "handle" /\ exc = None /\ state = "testing"
        /\ state' = IF verification.passed THEN "completed" ELSE "failed"
        /\ UNCHANGED <<root, execution>>
    BY <1>8 DEF Decide
  <2>2. /\ verification # None /\ verification = Interpret(execution)
        /\ verification.passed => root = "removed"
    BY <2>1 DEF Inv, VerdictFacts
  <2>3. execution \in Execution \cup {None}
    BY DEF Inv, Typed, StateTypes
  <2>4. verification.passed => Passed
    BY <2>2, <2>3, PassIsEarned DEF Passed
  <2>5. "completed" \in Lifecycle!Transitions[state] /\ "failed" \in Lifecycle!Transitions[state]
    BY <2>1 DEF Lifecycle!Transitions
  <2> QED
    BY <2>1, <2>2, <2>4, <2>5 DEF Passed, Lifecycle!Next, Lifecycle!Advance
<1>9. CASE Catch
  <2>1. state \in {"inspecting", "testing"} /\ state' = "failed" /\ UNCHANGED <<root, execution>>
    BY <1>9 DEF Catch
  <2>2. "failed" \in Lifecycle!Transitions[state]
    BY <2>1 DEF Lifecycle!Transitions
  <2> QED
    BY <2>1, <2>2 DEF Lifecycle!Next, Lifecycle!Advance
<1>10. CASE UNCHANGED <<state, execution, root>>
  BY <1>10, Stutters DEF Directory
<1>11. CASE \/ Prepare \/ MakeRootFails \/ CopyFails \/ Discard \/ DiscardFails
            \/ BuildEnvironment \/ LaunchFails \/ Launch \/ Attach \/ Capture \/ SeeExit
            \/ Expire \/ Terminate \/ Mark \/ Drain \/ DrainFails \/ Abandon \/ Abort \/ ReadFails \/ ChildExits
            \/ Retain \/ Cleanup \/ CleanupFails \/ Escape \/ Report \/ Interrupt
            \/ UNCHANGED runVars
  BY <1>10, <1>11
  DEF Prepare, MakeRootFails, CopyFails, Discard, DiscardFails, BuildEnvironment,
      LaunchFails, Launch, Attach, Capture, SeeExit, Expire, Terminate, Mark, Drain, DrainFails,
      Abandon, Abort,
      ReadFails, ChildExits, Retain, Cleanup, CleanupFails, Escape, Report, Interrupt,
      runVars
<1> QED
  BY <1>1, <1>2, <1>3, <1>4, <1>5, <1>6, <1>7, <1>8, <1>9, <1>11
  DEF Next, RunStep, Proceed, Done

(* Whatever fails and however often it is interrupted, a run moves through *)
(* the lifecycle of core/state.py only along its transitions, and becomes  *)
(* completed only after a pass and after its directory is gone.            *)
THEOREM RunImplementsLifecycle == Spec => ImplementsLifecycle
  BY LifecycleInit, LifecycleNext, StateInvAlways, PTL
  DEF Spec, ImplementsLifecycle, Lifecycle!Spec
-----------------------------------------------------------------------------
(* What the events say is what the variables hold.  An observation outside *)
(* EventTypes, as a session makes them, changes nothing of this.           *)
After == {"handle", "report", "returned", "raised"}

EventFacts ==
  /\ Observed("TASK_VALIDATED") => pc # "validate"
  /\ Observed("PROCESS_STARTED") => child # "none"
  /\ Observed("PROCESS_TIMED_OUT") <=> timed_out
  /\ Observed("PROCESS_COMPLETED") <=> measured # None
  /\ Observed("VERIFICATION_COMPLETED") \/ verification = None
  /\ Observed("WORKSPACE_CLEANED") <=> root = "removed"
  /\ Observed("WORKSPACE_RETAINED") <=> retained

(* What else the report rests on.                                          *)
LeaveFacts ==
  /\ pc = "attach" => child # "none"
  /\ measured # None => measured.timed_out = timed_out
  /\ verification # None => execution = measured
  /\ pc \in {"environment", "launch", "attach", "started", "running", "terminate", "mark",
             "abandon", "abort", "drain", "judge", "leave", "cleaning"} => prepared
  /\ root = "removed" => pc \in After
  /\ retained => prepared /\ root = "complete" /\ pc \in After
  /\ exc = "KeyboardInterrupt" => interrupts > 0
  /\ result # None => (result.retained <=> retained)
  /\ result # None => result.execution = execution /\ result.verification = verification
  /\ pc = "raised" => exc \notin LabErrors \cup {None}

(* How a directory that is still there got past its cleanup.               *)
DirectoryFacts ==
  interrupts = 0 /\ root \in {"partial", "complete"} =>
    /\ pc \in {"handle", "report"} => retained \/ exc \in {"OSError", "WorkspaceError"}
    /\ pc = "returned" => result # None /\ (retained \/ result.failure = "WorkspaceError")

LEMMA ObservedNext ==
  ASSUME NEW S, observations \in Seq(S), NEW e \in S, Emit(e)
  PROVE  \A x : Observed(x)' <=> Observed(x) \/ x = e
<1>1. /\ Len(observations') = Len(observations) + 1 /\ Len(observations) \in Nat
      /\ observations'[Len(observations) + 1] = e
      /\ \A i \in 1..Len(observations) : observations'[i] = observations[i]
  BY DEF Emit
<1>2. ASSUME NEW x PROVE Observed(x)' <=> Observed(x) \/ x = e
  <2>1. ASSUME Observed(x)' PROVE Observed(x) \/ x = e
    <3>1. PICK i \in 1..Len(observations') : observations'[i] = x
      BY <2>1 DEF Observed
    <3>2. i \in 1..Len(observations) \/ i = Len(observations) + 1
      BY <1>1
    <3> QED
      BY <1>1, <3>1, <3>2 DEF Observed
  <2>2. ASSUME Observed(x) PROVE Observed(x)'
    BY <1>1, <2>2 DEF Observed
  <2>3. ASSUME x = e PROVE Observed(x)'
    <3>1. Len(observations) + 1 \in 1..Len(observations')
      BY <1>1
    <3> QED
      BY <1>1, <2>3, <3>1 DEF Observed
  <2> QED
    BY <2>1, <2>2, <2>3
<1> QED
  BY <1>2

LEMMA ObservedSame == UNCHANGED observations => \A x : Observed(x)' <=> Observed(x)
  BY DEF Observed

LEMMA LeaveNext == StateInv /\ LeaveFacts /\ [Next]_runVars => LeaveFacts'
<1> SUFFICES ASSUME StateInv, LeaveFacts, [Next]_runVars PROVE LeaveFacts'
  OBVIOUS
<1> USE ExceptionAssumption
    DEF StateInv, StateFacts, LeaveFacts, After, At, Quiet, Raise, lifetime, process, outcome,
        Exceptions, LabErrors
<1>1. CASE Validate \/ Prepare \/ MakeRoot \/ MakeRootFails \/ Copy \/ CopyFails
           \/ Discard \/ Discarded \/ DiscardFails
  BY <1>1 DEF Validate, Prepare, MakeRoot, MakeRootFails, Copy, CopyFails, Discard,
     Discarded, DiscardFails
<1>2. CASE Enter \/ BuildEnvironment \/ LaunchFails \/ Launch \/ Attach \/ Capture
  BY <1>2 DEF Enter, BuildEnvironment, LaunchFails, Launch, Attach, Capture
<1>3. CASE SeeExit \/ Terminate \/ Mark \/ DrainFails \/ Abandon \/ Abort \/ ReadFails
           \/ ChildExits
  BY <1>3 DEF SeeExit, Terminate, Mark, DrainFails, Abandon, Abort, ReadFails, ChildExits
<1>4. CASE Expire
  BY <1>4 DEF Expire, Inv, ProcessFacts, BeforeMeasure
<1>5. CASE Drain
  BY <1>5 DEF Drain, Measured, Inv, ProcessFacts, BeforeMeasure
<1>6. CASE Judge
  BY <1>6 DEF Judge, Inv, ReportFacts
<1>7. CASE Retain
  BY <1>7 DEF Retain, Inv, ReportFacts
<1>8. CASE Cleanup \/ Cleaned \/ CleanupFails
  <2>1. pc # "returned" /\ pc \notin After
    BY <1>8 DEF Cleanup, Cleaned, CleanupFails
  <2>2. ~retained /\ result = None
    BY <2>1 DEF Inv, ReportFacts
  <2>3. /\ retained' = retained /\ result' = result /\ prepared' = prepared
        /\ interrupts' = interrupts /\ UNCHANGED <<process, outcome>>
        /\ pc' \in {"cleaning", "handle"} /\ exc' \in {exc, "WorkspaceError"}
        /\ root' = root \/ pc' = "handle"
        /\ pc' = "cleaning" => prepared
    BY <1>8 DEF Cleanup, Cleaned, CleanupFails
  <2> QED
    BY <2>1, <2>2, <2>3
<1>9. CASE Decide \/ Catch \/ Escape
  BY <1>9 DEF Decide, Catch, Escape, Inv, ReportFacts
<1>10. CASE Report
  <2>1. /\ pc' \in {"returned", "raised"} /\ UNCHANGED <<lifetime, process, outcome, interrupts>>
        /\ exc' \in {None, "ValidationError"} /\ (pc' = "raised" => exc' = "ValidationError")
        /\ result' = TaskResult \/ result' = result
    BY <1>10 DEF Report
  <2>2. result = None
    BY <1>10 DEF Report, Inv, ReportFacts
  <2>3. TaskResult.execution = execution /\ TaskResult.verification = verification
        /\ (TaskResult.retained <=> prepared /\ retained)
    BY DEF TaskResult
  <2>4. retained => prepared
    OBVIOUS
  <2> QED
    BY <2>1, <2>2, <2>3, <2>4
<1>11. CASE Interrupt
  BY <1>11 DEF Interrupt, Unwind, Finished, Inv, Typed, StateTypes
<1>12. CASE UNCHANGED runVars
  BY <1>12 DEF runVars
<1> QED
  BY <1>1, <1>2, <1>3, <1>4, <1>5, <1>6, <1>7, <1>8, <1>9, <1>10, <1>11, <1>12
  DEF Next, RunStep, Proceed, Done

LEMMA DirectoryNext ==
  StateInv /\ LeaveFacts /\ DirectoryFacts /\ [Next]_runVars => DirectoryFacts'
<1> SUFFICES ASSUME StateInv, LeaveFacts, DirectoryFacts, [Next]_runVars PROVE DirectoryFacts'
  OBVIOUS
<1> USE ExceptionAssumption
    DEF StateInv, StateFacts, DirectoryFacts, At, Quiet, Raise, lifetime, process, outcome,
        Exceptions, LabErrors
<1>1. CASE Validate \/ Prepare \/ MakeRoot \/ MakeRootFails \/ Copy \/ CopyFails
           \/ Discard \/ Discarded \/ DiscardFails
  BY <1>1 DEF Validate, Prepare, MakeRoot, MakeRootFails, Copy, CopyFails, Discard,
     Discarded, DiscardFails
<1>2. CASE Enter \/ BuildEnvironment \/ LaunchFails \/ Launch \/ Attach \/ Capture
  BY <1>2 DEF Enter, BuildEnvironment, LaunchFails, Launch, Attach, Capture
<1>3. CASE SeeExit \/ Terminate \/ Mark \/ DrainFails \/ Abandon \/ Abort \/ ReadFails
           \/ ChildExits \/ Expire \/ Drain
  BY <1>3 DEF SeeExit, Terminate, Mark, DrainFails, Abandon, Abort, ReadFails, ChildExits,
     Expire, Drain
<1>4. CASE Judge
  BY <1>4 DEF Judge
<1>5. CASE Retain \/ Cleanup \/ Cleaned \/ CleanupFails
  BY <1>5 DEF Retain, Cleanup, Cleaned, CleanupFails
<1>6. CASE Decide \/ Catch \/ Escape
  BY <1>6 DEF Decide, Catch, Escape
<1>7. CASE Report
  <2>1. exc \in LabErrors \cup {None}
    BY <1>7 DEF Report, Inv, Typed, ReportedNow
  <2>2. CASE TerminalStatusAgrees(TaskResult)
    <3>1. TaskResult \in TaskResults
      BY <1>7, TaskResultType DEF Inv, Report
    <3>2. exc # None => TaskResult.failure = exc
      BY DEF TaskResult
    <3> QED
      BY <1>7, <2>1, <2>2, <3>1, <3>2, ResultAssumption DEF Report
  <2>3. CASE ~TerminalStatusAgrees(TaskResult)
    BY <1>7, <2>3 DEF Report
  <2> QED
    BY <2>2, <2>3
<1>8. CASE Interrupt
  BY <1>8 DEF Interrupt, Inv, Typed, StateTypes
<1>9. CASE UNCHANGED runVars
  BY <1>9 DEF runVars
<1> QED
  BY <1>1, <1>2, <1>3, <1>4, <1>5, <1>6, <1>7, <1>8, <1>9 DEF Next, RunStep, Proceed, Done

LEMMA EventNext ==
  ASSUME NEW S, observations \in Seq(S), EventTypes \subseteq S,
         StateInv, LeaveFacts, EventFacts, [Next]_runVars
  PROVE  EventFacts'
<1> USE DEF At, lifetime, process, outcome
<1> DEFINE Seen(e) ==
      /\ Observed("TASK_VALIDATED")' <=> Observed("TASK_VALIDATED") \/ e = "TASK_VALIDATED"
      /\ Observed("PROCESS_STARTED")' <=> Observed("PROCESS_STARTED") \/ e = "PROCESS_STARTED"
      /\ Observed("PROCESS_TIMED_OUT")' <=>
           Observed("PROCESS_TIMED_OUT") \/ e = "PROCESS_TIMED_OUT"
      /\ Observed("PROCESS_COMPLETED")' <=>
           Observed("PROCESS_COMPLETED") \/ e = "PROCESS_COMPLETED"
      /\ Observed("VERIFICATION_COMPLETED")' <=>
           Observed("VERIFICATION_COMPLETED") \/ e = "VERIFICATION_COMPLETED"
      /\ Observed("WORKSPACE_CLEANED")' <=>
           Observed("WORKSPACE_CLEANED") \/ e = "WORKSPACE_CLEANED"
      /\ Observed("WORKSPACE_RETAINED")' <=>
           Observed("WORKSPACE_RETAINED") \/ e = "WORKSPACE_RETAINED"
<1>a. ASSUME NEW e \in EventTypes, Emit(e) PROVE Seen(e)
  BY <1>a, ObservedNext
<1>b. ASSUME UNCHANGED observations PROVE Seen("")
  BY <1>b, ObservedSame
<1> HIDE DEF Seen
<1>1. CASE Validate
  <2>1. /\ Emit("TASK_VALIDATED") /\ pc' # "validate"
        /\ UNCHANGED <<child, timed_out, measured, verification, root, retained>>
    BY <1>1 DEF Validate
  <2>2. Seen("TASK_VALIDATED")
    BY <1>a, <2>1 DEF EventTypes
  <2> QED
    BY <2>1, <2>2 DEF Seen, EventFacts
<1>2. CASE Prepare
  <2>1. /\ Emit("WORKSPACE_PREPARATION_STARTED") /\ pc' # "validate"
        /\ UNCHANGED <<child, timed_out, measured, verification, root, retained>>
    BY <1>2 DEF Prepare
  <2>2. Seen("WORKSPACE_PREPARATION_STARTED")
    BY <1>a, <2>1 DEF EventTypes
  <2> QED
    BY <2>1, <2>2 DEF Seen, EventFacts
<1>3. CASE Copy
  <2>1. /\ Emit("WORKSPACE_PREPARED") /\ pc' # "validate" /\ root # "removed" /\ root' = "complete"
        /\ UNCHANGED <<child, timed_out, measured, verification, retained>>
    BY <1>3 DEF Copy, StateInv, StateFacts
  <2>2. Seen("WORKSPACE_PREPARED")
    BY <1>a, <2>1 DEF EventTypes
  <2> QED
    BY <2>1, <2>2 DEF Seen, EventFacts
<1>4. CASE Discard
  <2>1. /\ Emit("WORKSPACE_CLEANUP_STARTED") /\ pc' # "validate"
        /\ UNCHANGED <<child, timed_out, measured, verification, root, retained>>
    BY <1>4 DEF Discard
  <2>2. Seen("WORKSPACE_CLEANUP_STARTED")
    BY <1>a, <2>1 DEF EventTypes
  <2> QED
    BY <2>1, <2>2 DEF Seen, EventFacts
<1>5. CASE Discarded
  <2>1. /\ Emit("WORKSPACE_CLEANED") /\ pc' # "validate" /\ root' = "removed"
        /\ UNCHANGED <<child, timed_out, measured, verification, retained>>
    BY <1>5 DEF Discarded
  <2>2. Seen("WORKSPACE_CLEANED")
    BY <1>a, <2>1 DEF EventTypes
  <2> QED
    BY <2>1, <2>2 DEF Seen, EventFacts
<1>6. CASE Enter
  <2>1. /\ Emit("VERIFICATION_STARTED") /\ pc' # "validate"
        /\ UNCHANGED <<child, timed_out, measured, verification, root, retained>>
    BY <1>6 DEF Enter
  <2>2. Seen("VERIFICATION_STARTED")
    BY <1>a, <2>1 DEF EventTypes
  <2> QED
    BY <2>1, <2>2 DEF Seen, EventFacts
<1>7. CASE Expire
  <2>1. /\ Emit("PROCESS_TIMED_OUT") /\ pc' # "validate" /\ timed_out'
        /\ UNCHANGED <<child, measured, verification, root, retained>>
    BY <1>7 DEF Expire
  <2>2. Seen("PROCESS_TIMED_OUT")
    BY <1>a, <2>1 DEF EventTypes
  <2> QED
    BY <2>1, <2>2 DEF Seen, EventFacts
<1>8. CASE Drain
  <2>1. /\ Emit("PROCESS_COMPLETED") /\ pc' # "validate" /\ measured' \in Execution
        /\ UNCHANGED <<child, timed_out, verification, root, retained>>
    BY <1>8 DEF Drain, Measured
  <2>2. Seen("PROCESS_COMPLETED")
    BY <1>a, <2>1 DEF EventTypes
  <2>3. measured' # None
    BY <2>1, NoneAssumption
  <2> QED
    BY <2>1, <2>2, <2>3 DEF Seen, EventFacts
<1>9. CASE Judge
  <2>1. pc' # "validate" /\ UNCHANGED <<child, timed_out, measured, root, retained>>
    BY <1>9 DEF Judge
  <2>2. CASE SuccessHasEvidence(Interpret(measured))
    <3>1. Emit("VERIFICATION_COMPLETED")
      BY <1>9, <2>2 DEF Judge
    <3>2. Seen("VERIFICATION_COMPLETED")
      BY <1>a, <3>1 DEF EventTypes
    <3> QED
      BY <2>1, <3>2 DEF Seen, EventFacts
  <2>3. CASE ~SuccessHasEvidence(Interpret(measured))
    <3>1. UNCHANGED <<observations, verification>>
      BY <1>9, <2>3 DEF Judge, Quiet
    <3>2. Seen("")
      BY <1>b, <3>1
    <3> QED
      BY <2>1, <3>1, <3>2 DEF Seen, EventFacts
  <2> QED
    BY <2>2, <2>3
<1>10. CASE Retain
  <2>1. /\ Emit("WORKSPACE_RETAINED") /\ pc' # "validate" /\ retained'
        /\ UNCHANGED <<child, timed_out, measured, verification, root>>
    BY <1>10 DEF Retain
  <2>2. Seen("WORKSPACE_RETAINED")
    BY <1>a, <2>1 DEF EventTypes
  <2> QED
    BY <2>1, <2>2 DEF Seen, EventFacts
<1>11. CASE Cleanup
  <2>1. /\ Emit("WORKSPACE_CLEANUP_STARTED") /\ pc' # "validate"
        /\ UNCHANGED <<child, timed_out, measured, verification, root, retained>>
    BY <1>11 DEF Cleanup
  <2>2. Seen("WORKSPACE_CLEANUP_STARTED")
    BY <1>a, <2>1 DEF EventTypes
  <2> QED
    BY <2>1, <2>2 DEF Seen, EventFacts
<1>12. CASE Cleaned
  <2>1. /\ Emit("WORKSPACE_CLEANED") /\ pc' # "validate" /\ root' = "removed"
        /\ UNCHANGED <<child, timed_out, measured, verification, retained>>
    BY <1>12 DEF Cleaned
  <2>2. Seen("WORKSPACE_CLEANED")
    BY <1>a, <2>1 DEF EventTypes
  <2> QED
    BY <2>1, <2>2 DEF Seen, EventFacts
<1>13. CASE Attach
  <2>1. pc' # "validate" /\ child # "none" /\ UNCHANGED <<child, timed_out, measured, verification, root, retained>>
    BY <1>13 DEF Attach, LeaveFacts
  <2>2. Emit("PROCESS_STARTED") \/ UNCHANGED observations
    BY <1>13 DEF Attach, Quiet
  <2>3. Seen("PROCESS_STARTED") \/ Seen("")
    BY <1>a, <1>b, <2>2 DEF EventTypes
  <2> QED
    BY <2>1, <2>3 DEF Seen, EventFacts
<1>14. ASSUME /\ UNCHANGED <<observations, timed_out, measured, retained>>
              /\ child' = "none" => child = "none"
              /\ verification' \in {verification, None}
              /\ root' = root \/ (root # "removed" /\ root' # "removed")
              /\ pc' = "validate" => pc = "validate"
       PROVE  EventFacts'
  <2>1. Seen("")
    BY <1>b, <1>14
  <2> QED
    BY <1>14, <2>1 DEF Seen, EventFacts
<1>15. CASE \/ MakeRoot \/ MakeRootFails \/ CopyFails \/ DiscardFails \/ BuildEnvironment
            \/ LaunchFails \/ Launch \/ Capture
  BY <1>14, <1>15 DEF MakeRoot, MakeRootFails, CopyFails, DiscardFails, BuildEnvironment,
     LaunchFails, Launch, Capture, StateInv, StateFacts, Quiet
<1>16. CASE SeeExit \/ Terminate \/ Mark \/ DrainFails
  BY <1>14, <1>16 DEF SeeExit, Terminate, Mark, DrainFails, Quiet
<1>17. CASE Abandon \/ Abort \/ ReadFails \/ ChildExits
  BY <1>14, <1>17 DEF Abandon, Abort, ReadFails, ChildExits, Quiet
<1>18. CASE CleanupFails \/ Decide \/ Catch \/ Escape
  BY <1>14, <1>18 DEF CleanupFails, Decide, Catch, Escape, Quiet
<1>19. CASE Report
  BY <1>14, <1>19 DEF Report, Quiet
<1>20. CASE Interrupt
  <2>1. Unwind(pc) # "validate"
    BY DEF Unwind
  <2> QED
    BY <1>14, <1>20, <2>1 DEF Interrupt, Quiet
<1>21. CASE UNCHANGED runVars
  BY <1>14, <1>21 DEF runVars
<1> QED
  BY <1>1, <1>2, <1>3, <1>4, <1>5, <1>6, <1>7, <1>8, <1>9, <1>10, <1>11, <1>12, <1>13,
     <1>15, <1>16, <1>17, <1>18, <1>19, <1>20, <1>21
  DEF Next, RunStep, Proceed, Done

RunFacts ==
  /\ StateInv /\ LeaveFacts /\ DirectoryFacts /\ EventFacts
  /\ observations \in Seq(EventTypes)

LEMMA RunFactsInit == Init => RunFacts
<1> SUFFICES ASSUME Init PROVE RunFacts
  OBVIOUS
<1>1. \A x : ~Observed(x)
  BY DEF Init, Observed
<1>2. EventFacts
  BY <1>1 DEF Init, EventFacts
<1>3. LeaveFacts
  BY ExceptionAssumption DEF Init, LeaveFacts, Exceptions
<1>4. DirectoryFacts
  BY DEF Init, DirectoryFacts
<1>5. StateInv
  BY InvInit, ExceptionAssumption DEF StateInv, StateFacts, Init, Exceptions
<1>6. observations \in Seq(EventTypes)
  BY DEF Init
<1> QED
  BY <1>2, <1>3, <1>4, <1>5, <1>6 DEF RunFacts

LEMMA RunFactsAlways == Spec => []RunFacts
<1>1. RunFacts /\ [Next]_runVars => RunFacts'
  <2> SUFFICES ASSUME RunFacts, [Next]_runVars PROVE RunFacts'
    OBVIOUS
  <2>1. StateInv'
    BY StateNext, TypeNext, ProcessNext, VerdictNext, ReportNext DEF RunFacts, StateInv, Inv
  <2>2. LeaveFacts' /\ DirectoryFacts'
    BY LeaveNext, DirectoryNext DEF RunFacts
  <2>3. EventFacts'
    BY EventNext DEF RunFacts
  <2>4. (observations \in Seq(EventTypes))'
    BY ObservesOne DEF RunFacts, Emit
  <2> QED
    BY <2>1, <2>2, <2>3, <2>4 DEF RunFacts
<1> QED
  BY <1>1, RunFactsInit, PTL DEF Spec

(* No event says more than has happened, and nothing undoes it.            *)
THEOREM EventsStayTrue == Spec => []EventsAreTrue
<1>1. RunFacts => EventsAreTrue
  <2> SUFFICES ASSUME RunFacts PROVE EventsAreTrue
    OBVIOUS
  <2> USE DEF RunFacts, EventFacts
  <2>1. Observed("PROCESS_COMPLETED") => child = "reaped"
    BY DEF StateInv, Inv, ProcessFacts
  <2>2. Observed("WORKSPACE_RETAINED") => root = "complete" /\ retained
    BY DEF LeaveFacts
  <2>3. ASSUME result # None
        PROVE  /\ result.retained <=> Observed("WORKSPACE_RETAINED")
               /\ result.execution # None => Observed("PROCESS_COMPLETED")
               /\ result.status = "completed" => Observed("WORKSPACE_CLEANED")
    <3>1. result.retained <=> Observed("WORKSPACE_RETAINED")
      BY <2>3 DEF LeaveFacts
    <3>2. result.execution # None => Observed("PROCESS_COMPLETED")
      BY <2>3 DEF LeaveFacts, StateInv, Inv, ProcessFacts
    <3>3. result.status = "completed" => Observed("WORKSPACE_CLEANED")
      BY <2>3 DEF StateInv, Inv, ReportFacts, CompletedIsEarned
    <3> QED
      BY <3>1, <3>2, <3>3
  <2> QED
    BY <2>1, <2>2, <2>3 DEF EventsAreTrue
<1> QED
  BY <1>1, RunFactsAlways, PTL

(* A directory that outlives an uninterrupted run is named or complained   *)
(* of, by the result or by the error that ended the run.                   *)
THEOREM DirectoryIsAccountedFor == Spec => []DirectoryAccountedFor
<1>1. RunFacts => DirectoryAccountedFor
  <2> SUFFICES ASSUME RunFacts, Finished, interrupts = 0, root \in {"partial", "complete"}
               PROVE  \/ pc = "raised" /\ exc = "OSError"
                      \/ result # None /\ (result.retained \/ result.failure = "WorkspaceError")
    BY DEF DirectoryAccountedFor
  <2>1. CASE pc = "returned"
    BY <2>1 DEF RunFacts, DirectoryFacts, LeaveFacts
  <2>2. CASE pc = "raised"
    <3>1. exc \notin LabErrors \cup {None} /\ exc # "KeyboardInterrupt"
      BY <2>2 DEF RunFacts, LeaveFacts
    <3>2. exc \in Exceptions \cup {None} /\ exc # "ValidationError"
      BY DEF RunFacts, StateInv, Inv, Typed, StateTypes, ReportFacts
    <3> QED
      BY <2>2, <3>1, <3>2 DEF Exceptions
  <2> QED
    BY <2>1, <2>2 DEF Finished
<1> QED
  BY <1>1, RunFactsAlways, PTL
-----------------------------------------------------------------------------
(* The rank that the events of a call cannot yet have passed.              *)
Level ==
  CASE pc = "validate" -> 0
    [] pc = "prepare" -> 1
    [] pc \in {"mkdtemp", "copy", "discard"} -> 2
    [] pc = "enter" -> 3
    [] pc \in {"environment", "launch", "attach"} -> 4
    [] pc \in {"started", "running", "abandon"} -> 5
    [] pc \in {"terminate", "mark", "abort", "drain"} -> 6
    [] pc = "judge" -> 7
    [] pc = "leave" -> 8
    [] pc \in {"discarding", "cleaning"} -> 9
    [] OTHER -> 10

OrderFacts ==
  /\ ObservedInOrder
  /\ Len(observations) > 0 => Rank(observations[Len(observations)]) <= Level

LEMMA Ranks ==
  /\ Rank("TASK_VALIDATED") = 1
  /\ Rank("WORKSPACE_PREPARATION_STARTED") = 2
  /\ Rank("WORKSPACE_PREPARED") = 3
  /\ Rank("VERIFICATION_STARTED") = 4
  /\ Rank("PROCESS_STARTED") = 5
  /\ Rank("PROCESS_TIMED_OUT") = 6
  /\ Rank("PROCESS_COMPLETED") = 7
  /\ Rank("VERIFICATION_COMPLETED") = 8
  /\ Rank("WORKSPACE_RETAINED") = 9
  /\ Rank("WORKSPACE_CLEANUP_STARTED") = 9
  /\ Rank("WORKSPACE_CLEANED") = 10
<1>1. Len(Order) = 10
  BY DEF Order
<1>2. ASSUME NEW e, NEW k \in 1..10, \A r \in 1..10 : e \in Order[r] <=> r = k
      PROVE  Rank(e) = k
  BY <1>1, <1>2 DEF Rank
<1>3. /\ Order[1] = {"TASK_VALIDATED"} /\ Order[2] = {"WORKSPACE_PREPARATION_STARTED"}
      /\ Order[3] = {"WORKSPACE_PREPARED"} /\ Order[4] = {"VERIFICATION_STARTED"}
      /\ Order[5] = {"PROCESS_STARTED"} /\ Order[6] = {"PROCESS_TIMED_OUT"}
      /\ Order[7] = {"PROCESS_COMPLETED"} /\ Order[8] = {"VERIFICATION_COMPLETED"}
      /\ Order[9] = {"WORKSPACE_RETAINED", "WORKSPACE_CLEANUP_STARTED"}
      /\ Order[10] = {"WORKSPACE_CLEANED"}
  BY DEF Order
<1>4. \A r \in 1..10 : r = 1 \/ r = 2 \/ r = 3 \/ r = 4 \/ r = 5 \/ r = 6 \/ r = 7 \/ r = 8
                       \/ r = 9 \/ r = 10
  OBVIOUS
<1>5. \A r \in 1..10 : "TASK_VALIDATED" \in Order[r] <=> r = 1
  BY <1>3, <1>4
<1>6. \A r \in 1..10 : "WORKSPACE_PREPARATION_STARTED" \in Order[r] <=> r = 2
  BY <1>3, <1>4
<1>7. \A r \in 1..10 : "WORKSPACE_PREPARED" \in Order[r] <=> r = 3
  BY <1>3, <1>4
<1>8. \A r \in 1..10 : "VERIFICATION_STARTED" \in Order[r] <=> r = 4
  BY <1>3, <1>4
<1>9. \A r \in 1..10 : "PROCESS_STARTED" \in Order[r] <=> r = 5
  BY <1>3, <1>4
<1>10. \A r \in 1..10 : "PROCESS_TIMED_OUT" \in Order[r] <=> r = 6
  BY <1>3, <1>4
<1>11. \A r \in 1..10 : "PROCESS_COMPLETED" \in Order[r] <=> r = 7
  BY <1>3, <1>4
<1>12. \A r \in 1..10 : "VERIFICATION_COMPLETED" \in Order[r] <=> r = 8
  BY <1>3, <1>4
<1>13. \A r \in 1..10 : "WORKSPACE_RETAINED" \in Order[r] <=> r = 9
  BY <1>3, <1>4
<1>14. \A r \in 1..10 : "WORKSPACE_CLEANUP_STARTED" \in Order[r] <=> r = 9
  BY <1>3, <1>4
<1>15. \A r \in 1..10 : "WORKSPACE_CLEANED" \in Order[r] <=> r = 10
  BY <1>3, <1>4
<1>16. Rank("TASK_VALIDATED") = 1 /\ Rank("WORKSPACE_PREPARATION_STARTED") = 2
  BY <1>2, <1>5, <1>6
<1>17. Rank("WORKSPACE_PREPARED") = 3 /\ Rank("VERIFICATION_STARTED") = 4
  BY <1>2, <1>7, <1>8
<1>18. Rank("PROCESS_STARTED") = 5 /\ Rank("PROCESS_TIMED_OUT") = 6
  BY <1>2, <1>9, <1>10
<1>19. Rank("PROCESS_COMPLETED") = 7 /\ Rank("VERIFICATION_COMPLETED") = 8
  BY <1>2, <1>11, <1>12
<1>20. Rank("WORKSPACE_RETAINED") = 9 /\ Rank("WORKSPACE_CLEANUP_STARTED") = 9
  BY <1>2, <1>13, <1>14
<1>21. Rank("WORKSPACE_CLEANED") = 10
  BY <1>2, <1>15
<1> QED
  BY <1>16, <1>17, <1>18, <1>19, <1>20, <1>21

(* An event of a higher rank than the point allows so far keeps the order. *)
LEMMA OrderKeeps ==
  ASSUME observations \in Seq(EventTypes), OrderFacts, NEW e \in EventTypes, Emit(e),
         Level < Rank(e), Rank(e) <= Level', Level \in Nat, Rank(e) \in Nat
  PROVE  OrderFacts'
<1>1. /\ Len(observations') = Len(observations) + 1 /\ Len(observations) \in Nat
      /\ observations'[Len(observations) + 1] = e
      /\ \A i \in 1..Len(observations) : observations'[i] = observations[i]
  BY DEF Emit
<1>2. \A x \in EventTypes : Rank(x) \in 1..10
  BY Ranks DEF EventTypes
<1>3. ASSUME NEW i \in 1..Len(observations') - 1
      PROVE  Rank(observations'[i]) < Rank(observations'[i + 1])
  <2>1. CASE i = Len(observations)
    <3>1. Rank(observations[i]) <= Level /\ observations[i] \in EventTypes
      BY <1>1, <1>3, <2>1 DEF OrderFacts
    <3> QED
      BY <1>1, <1>2, <2>1, <3>1
  <2>2. CASE i # Len(observations)
    <3>1. i \in 1..Len(observations) - 1 /\ i + 1 \in 1..Len(observations)
      BY <1>1, <1>3, <2>2
    <3> QED
      BY <1>1, <3>1 DEF OrderFacts, ObservedInOrder
  <2> QED
    BY <2>1, <2>2
<1> QED
  BY <1>1, <1>3 DEF OrderFacts, ObservedInOrder

LEMMA OrderNext ==
  observations \in Seq(EventTypes) /\ OrderFacts /\ [Next]_runVars => OrderFacts'
<1> SUFFICES ASSUME observations \in Seq(EventTypes), OrderFacts, [Next]_runVars
             PROVE  OrderFacts'
  OBVIOUS
<1> USE DEF At
<1>1. \A x \in EventTypes : Rank(x) \in Nat
  BY Ranks DEF EventTypes
<1>2. Level \in Nat /\ Level' \in Nat
  BY DEF Level
<1>q. ASSUME UNCHANGED observations, Level <= Level' PROVE OrderFacts'
  <2>1. Len(observations) > 0 => Rank(observations[Len(observations)]) \in Nat
    BY <1>1
  <2> QED
    BY <1>2, <1>q, <2>1 DEF OrderFacts, ObservedInOrder
<1>3. CASE Validate \/ Prepare
  BY <1>1, <1>3, Ranks, OrderKeeps DEF Validate, Prepare, Level, EventTypes
<1>4. CASE Copy \/ Discard
  BY <1>1, <1>4, Ranks, OrderKeeps DEF Copy, Discard, Level, EventTypes
<1>5. CASE Discarded \/ Enter
  BY <1>1, <1>5, Ranks, OrderKeeps DEF Discarded, Enter, Level, EventTypes
<1>6. CASE Attach
  <2>1. CASE pc' = "started" /\ Emit("PROCESS_STARTED")
    BY <1>1, <1>6, <2>1, Ranks, OrderKeeps DEF Attach, Level, EventTypes
  <2>2. CASE pc' = "abandon" /\ UNCHANGED observations
    BY <1>q, <1>6, <2>2 DEF Attach, Level
  <2> QED
    BY <1>6, <2>1, <2>2 DEF Attach, Quiet
<1>7. CASE Expire \/ Drain
  BY <1>1, <1>7, Ranks, OrderKeeps DEF Expire, Drain, Level, EventTypes
<1>8. CASE Retain
  BY <1>1, <1>8, Ranks, OrderKeeps DEF Retain, Level, EventTypes
<1>9. CASE Cleanup
  BY <1>1, <1>9, Ranks, OrderKeeps DEF Cleanup, Level, EventTypes
<1>18. CASE Cleaned
  BY <1>1, <1>18, Ranks, OrderKeeps DEF Cleaned, Level, EventTypes
<1>10. CASE Judge
  <2>1. CASE Emit("VERIFICATION_COMPLETED")
    BY <1>1, <1>10, <2>1, Ranks, OrderKeeps DEF Judge, Level, EventTypes
  <2>2. CASE UNCHANGED observations
    BY <1>q, <1>10, <2>2 DEF Judge, Level
  <2> QED
    BY <1>10, <2>1, <2>2 DEF Judge, Quiet
<1>11. CASE MakeRoot \/ MakeRootFails \/ CopyFails \/ DiscardFails
  BY <1>q, <1>11 DEF MakeRoot, MakeRootFails, CopyFails, DiscardFails, Level, Quiet
<1>12. CASE BuildEnvironment \/ LaunchFails \/ Launch \/ Capture
  BY <1>q, <1>12 DEF BuildEnvironment, LaunchFails, Launch, Capture, Level, Quiet
<1>13. CASE SeeExit \/ Terminate \/ Mark \/ DrainFails
  BY <1>q, <1>13 DEF SeeExit, Terminate, Mark, DrainFails, Level, Quiet
<1>14. CASE Abandon \/ Abort \/ ReadFails \/ ChildExits
  BY <1>q, <1>14 DEF Abandon, Abort, ReadFails, ChildExits, Level, Quiet
<1>15. CASE CleanupFails \/ Decide \/ Catch \/ Escape \/ Report
  BY <1>q, <1>15 DEF CleanupFails, Decide, Catch, Escape, Report, Level, Quiet
<1>16. CASE Interrupt
  BY <1>q, <1>16 DEF Interrupt, Unwind, Finished, Level, Quiet
<1>17. CASE UNCHANGED runVars
  BY <1>q, <1>17, <1>2 DEF runVars, Level
<1> QED
  BY <1>3, <1>4, <1>5, <1>6, <1>7, <1>8, <1>9, <1>10, <1>11, <1>12, <1>13, <1>14, <1>15, <1>16,
     <1>17, <1>18
  DEF Next, RunStep, Proceed, Done

(* Whatever fails and however often it is interrupted, a run observes its  *)
(* events in order and each at most once.                                  *)
THEOREM EventsAreOrdered == Spec => []ObservedInOrder
<1> DEFINE I == observations \in Seq(EventTypes) /\ OrderFacts
<1>1. Init => I
  BY DEF Init, OrderFacts, ObservedInOrder
<1>2. I /\ [Next]_runVars => I'
  BY OrderNext, ObservesOne DEF Emit
<1>3. I => ObservedInOrder
  BY DEF OrderFacts
<1> QED
  BY <1>1, <1>2, <1>3, PTL DEF Spec
=============================================================================
