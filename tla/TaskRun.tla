------------------------------ MODULE TaskRun ------------------------------
(***************************************************************************)
(* One call of TaskRunner.verify: execution/runner.py, the lifetime of the *)
(* disposable workspace (execution/workspace.py), the behavioral verifier  *)
(* (evaluation/verifier.py) and the outcomes of ProcessRunner.run          *)
(* (execution/process.py) with the verifier process running beside it.     *)
(* pc is where the call stands, exc the exception unwinding it; a          *)
(* KeyboardInterrupt can arrive between any two steps.                     *)
(***************************************************************************)
EXTENDS VerifierProtocol, Sequences, FiniteSets

CONSTANTS
  RetainOptions,     \* values of WorkspaceOptions.retain_on_failure, read once a call
  MaxInterrupts      \* bound: KeyboardInterrupts

ASSUME RunAssumption == RetainOptions \subseteq BOOLEAN /\ MaxInterrupts \in Nat

VARIABLES
  pc, exc,        \* program point; exception in flight, or None
  state,          \* TaskState
  root,           \* run directory: "none", "partial", "complete" or "removed"
  prepared,       \* prepare_workspace has yielded
  failed,         \* PreparedWorkspace.failed
  retained,       \* PreparedWorkspace.retained
  child,          \* verifier process: "none", "alive", "exited" or "reaped"
  timed_out,      \* ProcessRunner.run's local
  measured,       \* the ExecutionResult ProcessRunner.run returned, or None
  execution,      \* the same, once TaskRunner.verify has it
  verification,   \* its VerificationResult, or None
  result,         \* the TaskResult returned, or None
  observations,   \* the events given to the observer
  interrupts      \* history: KeyboardInterrupts so far

lifetime == <<root, prepared, failed, retained>>
process == <<child, timed_out, measured>>
outcome == <<execution, verification>>
runVars == <<pc, exc, state, lifetime, process, outcome, result, observations, interrupts>>

LabErrors == {"WorkspaceError", "EnvironmentConfigError", "ProcessError"}
Exceptions == LabErrors \cup {"OSError", "ValidationError", "KeyboardInterrupt"}
Finished == pc \in {"returned", "raised"}

(* No exception in flight and no failure message differ from every one.    *)
ASSUME ExceptionAssumption == None \notin Exceptions \cup {"details"}

Init ==
  /\ pc = "validate" /\ exc = None /\ state = "pending"
  /\ root = "none" /\ prepared = FALSE /\ failed = TRUE /\ retained = FALSE
  /\ child = "none" /\ timed_out = FALSE /\ measured = None
  /\ execution = None /\ verification = None /\ result = None
  /\ observations = <<>> /\ interrupts = 0

At(here, there) == pc = here /\ pc' = there
Emit(e) == observations' = Append(observations, e)
Quiet == UNCHANGED observations
Raise(e) == exc' = e
-----------------------------------------------------------------------------
(* TaskRunner.verify up to the with statement.                             *)
Validate ==
  /\ At("validate", "prepare")
  /\ Emit("TASK_VALIDATED")
  /\ state' = "inspecting"
  /\ UNCHANGED <<exc, lifetime, process, outcome, result, interrupts>>

(* prepare_workspace                                                       *)
Prepare ==
  /\ At("prepare", "mkdtemp")
  /\ Emit("WORKSPACE_PREPARATION_STARTED")
  /\ UNCHANGED <<exc, state, lifetime, process, outcome, result, interrupts>>

MakeRoot ==
  /\ At("mkdtemp", "copy")
  /\ root' = "partial"
  /\ Quiet
  /\ UNCHANGED <<exc, state, prepared, failed, retained, process, outcome, result, interrupts>>

(* A missing source or parent, a parent inside the source, mkdtemp itself. *)
MakeRootFails ==
  /\ At("mkdtemp", "handle")
  /\ Raise("WorkspaceError")
  /\ Quiet
  /\ UNCHANGED <<state, lifetime, process, outcome, result, interrupts>>

Copy ==
  /\ At("copy", "enter")
  /\ root' = "complete"
  /\ Emit("WORKSPACE_PREPARED")
  /\ UNCHANGED <<exc, state, prepared, failed, retained, process, outcome, result, interrupts>>

(* A refused entry, a limit, or any I/O error: discard what was copied.    *)
CopyFails ==
  /\ At("copy", "discard")
  /\ Quiet
  /\ UNCHANGED <<exc, state, lifetime, process, outcome, result, interrupts>>

Discard ==
  /\ At("discard", "discarding")
  /\ Emit("WORKSPACE_CLEANUP_STARTED")
  /\ UNCHANGED <<exc, state, lifetime, process, outcome, result, interrupts>>

Discarded ==
  /\ At("discarding", "handle")
  /\ root' = "removed"
  /\ Emit("WORKSPACE_CLEANED")
  /\ Raise("WorkspaceError")
  /\ UNCHANGED <<state, prepared, failed, retained, process, outcome, result, interrupts>>

(* Inside the except clauses nothing turns an OSError into WorkspaceError. *)
DiscardFails ==
  /\ At("discarding", "handle")
  /\ \E e \in {"OSError", "WorkspaceError"} : Raise(e)
  /\ Quiet
  /\ UNCHANGED <<state, lifetime, process, outcome, result, interrupts>>
-----------------------------------------------------------------------------
(* The with body: BehavioralVerifier.verify.                               *)
Enter ==
  /\ At("enter", "environment")
  /\ prepared' = TRUE
  /\ state' = "testing"
  /\ Emit("VERIFICATION_STARTED")
  /\ UNCHANGED <<exc, root, failed, retained, process, outcome, result, interrupts>>

BuildEnvironment ==
  /\ pc = "environment"
  /\ \/ pc' = "launch" /\ UNCHANGED exc
     \/ pc' = "leave" /\ Raise("EnvironmentConfigError")
  /\ Quiet
  /\ UNCHANGED <<state, lifetime, process, outcome, result, interrupts>>

(* ProcessRunner.run: no executable, or Popen itself fails.                *)
LaunchFails ==
  /\ At("launch", "judge")
  /\ Raise("ProcessError")
  /\ Quiet
  /\ UNCHANGED <<state, lifetime, process, outcome, result, interrupts>>

Launch ==
  /\ At("launch", "attach")
  /\ child' = "alive"
  /\ Quiet
  /\ UNCHANGED <<exc, state, lifetime, timed_out, measured, outcome, result, interrupts>>

(* ProcessTree.attach, which can fail where there is a job to join.        *)
Attach ==
  /\ pc = "attach"
  /\ \/ pc' = "started" /\ Emit("PROCESS_STARTED") /\ UNCHANGED exc
     \/ pc' = "abandon" /\ Quiet /\ Raise("ProcessError")
  /\ UNCHANGED <<state, lifetime, process, outcome, result, interrupts>>

(* The two captures are set up, or that fails after the child was started. *)
Capture ==
  /\ pc = "started"
  /\ \/ pc' = "running" /\ UNCHANGED exc
     \/ pc' = "abandon" /\ Raise("ProcessError")
  /\ Quiet
  /\ UNCHANGED <<state, lifetime, process, outcome, result, interrupts>>

(* The except clause of the setup polls the child first; then it kills and *)
(* waits as the main part does.                                            *)
Abandon ==
  /\ At("abandon", "abort")
  /\ child' = IF child = "exited" THEN "reaped" ELSE child
  /\ Quiet
  /\ UNCHANGED <<exc, state, lifetime, timed_out, measured, outcome, result, interrupts>>

(* The process ends by itself; nothing in the program makes it.            *)
ChildExits ==
  /\ child = "alive"
  /\ child' = "exited"
  /\ UNCHANGED <<pc, exc, state, lifetime, timed_out, measured, outcome, result,
                 observations, interrupts>>

(* The main loop: poll reaps the child, the deadline passes first (the child *)
(* may exit between poll and the clock), or reading a pipe fails.          *)
SeeExit ==
  /\ At("running", "terminate")
  /\ child = "exited" /\ child' = "reaped"
  /\ Quiet
  /\ UNCHANGED <<exc, state, lifetime, timed_out, measured, outcome, result, interrupts>>

(* Mutant: the deadline is looked at only after the process has exited.    *)
ExpireAfterExit ==
  /\ At("running", "terminate")
  /\ child = "exited"
  /\ timed_out' = TRUE
  /\ Emit("PROCESS_TIMED_OUT")
  /\ UNCHANGED <<exc, state, lifetime, child, measured, outcome, result, interrupts>>

Expire ==
  /\ At("running", "terminate")
  /\ timed_out' = TRUE
  /\ Emit("PROCESS_TIMED_OUT")
  /\ UNCHANGED <<exc, state, lifetime, child, measured, outcome, result, interrupts>>

ReadFails ==
  /\ At("running", "abort")
  /\ Raise("ProcessError")
  /\ Quiet
  /\ UNCHANGED <<state, lifetime, process, outcome, result, interrupts>>

(* Mutant: the kill is not waited for.                                     *)
TerminateNoWait ==
  /\ At("terminate", "mark")
  /\ Quiet
  /\ UNCHANGED <<exc, state, lifetime, process, outcome, result, interrupts>>

Terminate ==
  /\ pc = "terminate"
  /\ \/ pc' = "mark" /\ child' = "reaped" /\ UNCHANGED exc
     \/ pc' = "abort" /\ Raise("ProcessError") /\ UNCHANGED child
  /\ Quiet
  /\ UNCHANGED <<state, lifetime, timed_out, measured, outcome, result, interrupts>>

(* From here on the finally clause has nothing to clean.                   *)
Mark ==
  /\ At("mark", "drain")
  /\ Quiet
  /\ UNCHANGED <<exc, state, lifetime, process, outcome, result, interrupts>>

(* What is left of the output, cut off at the drain deadline, and the      *)
(* ExecutionResult.                                                        *)
Measured ==
  {e \in Execution : e.exit_code # None /\ e.timed_out = timed_out}

Drain ==
  /\ At("drain", "judge")
  /\ measured' \in Measured
  /\ Emit("PROCESS_COMPLETED")
  /\ UNCHANGED <<exc, state, lifetime, child, timed_out, outcome, result, interrupts>>

DrainFails ==
  /\ At("drain", "judge")
  /\ Raise("ProcessError")
  /\ Quiet
  /\ UNCHANGED <<state, lifetime, process, outcome, result, interrupts>>

(* The except clause of setup and the finally clause of the main part kill *)
(* and wait again; if that fails, ProcessError replaces what was in flight. *)
Abort ==
  /\ pc = "abort"
  /\ \/ child' = "reaped" /\ UNCHANGED exc
     \/ UNCHANGED child /\ Raise("ProcessError")
  /\ pc' = IF exc' = "ProcessError" THEN "judge" ELSE "leave"
  /\ Quiet
  /\ UNCHANGED <<state, lifetime, timed_out, measured, outcome, result, interrupts>>

(* A verdict, even on a ProcessError; pydantic refuses an inconsistent one. *)
Judge ==
  /\ At("judge", "leave")
  /\ LET v == Interpret(measured) IN
       IF SuccessHasEvidence(v)
         THEN /\ verification' = v
              /\ execution' = measured
              /\ failed' = ~v.passed
              /\ exc' = None
              /\ Emit("VERIFICATION_COMPLETED")
         ELSE /\ Raise("ValidationError")
              /\ Quiet
              /\ UNCHANGED <<outcome, failed>>
  /\ UNCHANGED <<state, root, prepared, retained, process, result, interrupts>>
-----------------------------------------------------------------------------
(* The finally clause of prepare_workspace.                                *)
Retain ==
  /\ At("leave", "handle")
  /\ failed /\ TRUE \in RetainOptions
  /\ retained' = TRUE
  /\ Emit("WORKSPACE_RETAINED")
  /\ UNCHANGED <<exc, state, root, prepared, failed, process, outcome, result, interrupts>>

Cleanup ==
  /\ At("leave", "cleaning")
  /\ ~failed \/ FALSE \in RetainOptions
  /\ Emit("WORKSPACE_CLEANUP_STARTED")
  /\ UNCHANGED <<exc, state, lifetime, process, outcome, result, interrupts>>

Cleaned ==
  /\ At("cleaning", "handle")
  /\ root' = "removed"
  /\ Emit("WORKSPACE_CLEANED")
  /\ UNCHANGED <<exc, state, prepared, failed, retained, process, outcome, result, interrupts>>

(* Mutant: an error of the final cleanup is suppressed.                    *)
CleanupFailsSilently ==
  /\ At("cleaning", "handle")
  /\ Quiet
  /\ UNCHANGED <<exc, state, lifetime, process, outcome, result, interrupts>>

(* The WorkspaceError replaces the exception that was in flight.           *)
CleanupFails ==
  /\ At("cleaning", "handle")
  /\ Raise("WorkspaceError")
  /\ Quiet
  /\ UNCHANGED <<state, lifetime, process, outcome, result, interrupts>>
-----------------------------------------------------------------------------
(* TaskRunner.verify after the with statement.                             *)
Decide ==
  /\ At("handle", "report")
  /\ exc = None
  /\ state' = IF verification.passed THEN "completed" ELSE "failed"
  /\ Quiet
  /\ UNCHANGED <<exc, lifetime, process, outcome, result, interrupts>>

Catch ==
  /\ At("handle", "report")
  /\ exc \in LabErrors
  /\ state' = "failed"
  /\ verification' = None
  /\ Quiet
  /\ UNCHANGED <<exc, lifetime, process, execution, result, interrupts>>

Escape ==
  /\ At("handle", "raised")
  /\ exc \notin LabErrors \cup {None}
  /\ Quiet
  /\ UNCHANGED <<exc, state, lifetime, process, outcome, result, interrupts>>

(* Mutant: the result of a caught error does not name what was retained.   *)
TaskResultForgets ==
  [status |-> IF state = "completed" THEN "completed" ELSE "failed",
   verification |-> verification,
   failure |-> IF exc # None THEN exc
               ELSE IF verification.passed THEN None ELSE "details",
   execution |-> execution,
   retained |-> prepared /\ retained /\ exc = None]

TaskResult ==
  [status |-> IF state = "completed" THEN "completed" ELSE "failed",
   verification |-> verification,
   failure |-> IF exc # None THEN exc
               ELSE IF verification.passed THEN None ELSE "details",
   execution |-> execution,
   retained |-> prepared /\ retained]

Report ==
  /\ pc = "report"
  /\ IF TerminalStatusAgrees(TaskResult)
       THEN pc' = "returned" /\ result' = TaskResult /\ exc' = None
       ELSE pc' = "raised" /\ Raise("ValidationError") /\ UNCHANGED result
  /\ Quiet
  /\ UNCHANGED <<state, lifetime, process, outcome, interrupts>>

(* Mutant: an interrupted cleanup is started again.                        *)
UnwindRetries(here) ==
  CASE here \in {"attach", "started"} -> "abandon"
    [] here \in {"running", "terminate", "mark"} -> "abort"
    [] here \in {"environment", "launch", "abandon", "abort", "drain", "judge", "cleaning"} -> "leave"
    [] OTHER -> "handle"

(* Where a KeyboardInterrupt leads from each point: out of the call, into  *)
(* the finally clause of the workspace, or first into that of the process. *)
Unwind(here) ==
  CASE here \in {"attach", "started"} -> "abandon"
    [] here \in {"running", "terminate", "mark"} -> "abort"
    [] here \in {"environment", "launch", "abandon", "abort", "drain", "judge"} -> "leave"
    [] OTHER -> "handle"

Interrupt ==
  /\ ~Finished /\ interrupts < MaxInterrupts
  /\ interrupts' = interrupts + 1
  /\ pc' = Unwind(pc)
  /\ Raise("KeyboardInterrupt")
  /\ Quiet
  /\ UNCHANGED <<state, lifetime, process, outcome, result>>
-----------------------------------------------------------------------------
Proceed ==
  \/ Validate
  \/ Prepare \/ MakeRoot \/ MakeRootFails \/ Copy \/ CopyFails
  \/ Discard \/ Discarded \/ DiscardFails
  \/ Enter \/ BuildEnvironment \/ LaunchFails \/ Launch \/ Attach \/ Capture
  \/ SeeExit \/ Expire \/ Terminate \/ Mark \/ Drain \/ DrainFails \/ Abandon \/ Abort
  \/ Judge
  \/ Retain \/ Cleanup \/ Cleaned \/ CleanupFails
  \/ Decide \/ Catch \/ Escape \/ Report

RunStep == Proceed \/ ReadFails \/ ChildExits \/ Interrupt

(* The call is over: the caller goes on, the process may still end.        *)
Done == Finished /\ UNCHANGED runVars

Next == RunStep \/ Done

(* The program goes on while it can; that a read fails, the process ends   *)
(* or an interrupt arrives is not its doing.                               *)
Spec == Init /\ [][Next]_runVars /\ WF_runVars(Proceed)
-----------------------------------------------------------------------------
EventTypes == {
  "TASK_VALIDATED", "WORKSPACE_PREPARATION_STARTED", "WORKSPACE_PREPARED",
  "VERIFICATION_STARTED", "PROCESS_STARTED", "PROCESS_TIMED_OUT", "PROCESS_COMPLETED",
  "VERIFICATION_COMPLETED", "WORKSPACE_RETAINED", "WORKSPACE_CLEANUP_STARTED",
  "WORKSPACE_CLEANED"}

Points == {
  "validate", "prepare", "mkdtemp", "copy", "discard", "discarding", "enter",
  "environment", "launch", "attach", "started", "running", "terminate", "mark", "abandon",
  "abort", "drain", "judge", "leave", "cleaning", "handle", "report", "returned", "raised"}

TaskResults ==
  [status: {"completed", "failed"}, verification: VerificationResult \cup {None},
   failure: LabErrors \cup {"details", None}, execution: Execution \cup {None},
   retained: BOOLEAN]

ASSUME ResultAssumption == None \notin TaskResults

Observed(e) == \E i \in 1..Len(observations) : observations[i] = e

(* The types of all but the observations, to which a session adds its own. *)
StateTypes ==
  /\ pc \in Points /\ exc \in Exceptions \cup {None}
  /\ state \in {"pending", "inspecting", "testing", "completed", "failed"}
  /\ root \in {"none", "partial", "complete", "removed"}
  /\ prepared \in BOOLEAN /\ failed \in BOOLEAN /\ retained \in BOOLEAN
  /\ child \in {"none", "alive", "exited", "reaped"} /\ timed_out \in BOOLEAN
  /\ measured \in Execution \cup {None} /\ execution \in Execution \cup {None}
  /\ verification \in VerificationResult \cup {None}
  /\ result \in TaskResults \cup {None}
  /\ interrupts \in Nat

(* Every variable has its type.                                            *)
TypeOK == StateTypes /\ observations \in Seq(EventTypes)

(* The validators of core/result.py never meet a verdict or a TaskResult   *)
(* they refuse: an adapter, verifier or runner that let an inconsistent one *)
(* through would end the run with a raw ValidationError and no result.     *)
ContractsHold == exc # "ValidationError"

(* A completed result rests on complete evidence, and is reported only     *)
(* when the process is gone and the run directory has been removed.        *)
CompletedIsEarned ==
  result # None /\ result.status = "completed" =>
    /\ result.verification.tests_passed > 0 /\ result.verification.tests_failed = 0
    /\ result.execution.exit_code = 0 /\ ~result.execution.timed_out
    /\ ~result.execution.stdout_truncated /\ ~result.execution.stderr_truncated
    /\ child = "reaped"
    /\ root = "removed"

(* An event is observed only after what it says has happened, and nothing  *)
(* undoes it: a process reported started is there, one reported completed  *)
(* is reaped, a workspace reported cleaned is gone, one reported retained  *)
(* is whole and stays.                                                     *)
EventsAreTrue ==
  /\ Observed("PROCESS_STARTED") => child # "none"
  /\ Observed("PROCESS_COMPLETED") => child = "reaped"
  /\ Observed("WORKSPACE_CLEANED") => root = "removed"
  /\ Observed("WORKSPACE_RETAINED") => root = "complete" /\ retained
  /\ result # None =>
       /\ result.retained <=> Observed("WORKSPACE_RETAINED")
       /\ result.execution # None => Observed("PROCESS_COMPLETED")
       /\ result.status = "completed" => Observed("WORKSPACE_CLEANED")

(* Whatever fails and wherever an interrupt falls, the events come in the  *)
(* order of the run and each at most once: no cleanup is done twice and no *)
(* boundary is reported after a later one.                                 *)
Order == <<
  {"TASK_VALIDATED"}, {"WORKSPACE_PREPARATION_STARTED"}, {"WORKSPACE_PREPARED"},
  {"VERIFICATION_STARTED"}, {"PROCESS_STARTED"}, {"PROCESS_TIMED_OUT"},
  {"PROCESS_COMPLETED"}, {"VERIFICATION_COMPLETED"},
  {"WORKSPACE_RETAINED", "WORKSPACE_CLEANUP_STARTED"}, {"WORKSPACE_CLEANED"}>>

Rank(e) == CHOOSE r \in 1..Len(Order) : e \in Order[r]

ObservedInOrder ==
  \A i \in 1..Len(observations) - 1 : Rank(observations[i]) < Rank(observations[i + 1])

(* A run directory that outlives an uninterrupted call is accounted for:   *)
(* the result names it as retained, or reports the failed cleanup, or the  *)
(* cleanup's own error reached the caller.                                 *)
DirectoryAccountedFor ==
  Finished /\ interrupts = 0 /\ root \in {"partial", "complete"} =>
    \/ pc = "raised" /\ exc = "OSError"
    \/ result # None /\ (result.retained \/ result.failure = "WorkspaceError")

(* The call implements the lifecycle of a task.                            *)
Lifecycle == INSTANCE TaskLifecycle WITH
  passed <- execution # None /\ Interpret(execution).passed,
  workspace <- IF root \in {"partial", "complete"} THEN "present" ELSE root

ImplementsLifecycle == Lifecycle!Spec
-----------------------------------------------------------------------------
(* docs/task-format.md, "Run or verification failure | Failed TaskResult": *)
(* a run that is not cancelled ends in a TaskResult.                       *)
FailureIsAResult == pc = "raised" => interrupts > 0
=============================================================================
