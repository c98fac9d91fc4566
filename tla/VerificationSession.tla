------------------------ MODULE VerificationSession ------------------------
(***************************************************************************)
(* `long-swe verify`: application/verification.py around one TaskRun, with *)
(* the trace recorder as its observer, the artifact store and the exit     *)
(* status of cli/main.py.  The recorder is the one of Recording: emit is   *)
(* one step here, so an interrupt inside it (TraceRecorder has it) is not. *)
(* The process can die between any two steps.                              *)
(***************************************************************************)
EXTENDS TaskRun

CONSTANT Torn   \* see ArtifactStore

VARIABLES
  spc,        \* program point of verify_manifest
  got,        \* its local result
  caught,     \* its local exception
  pending,    \* the exception propagating past its finally clause, or None
  wpc, temp, saved, durable,  \* those of ArtifactStore
  recorded,   \* the events in trace.jsonl
  recError,   \* 0, or recorder.error.line_number
  reported,   \* history: failure_type of the RUN_FAILED event, or None
  excuse,     \* history: what last kept the command from writing a result:
              \* "refused" (a call of the store failed), "stopped", or None
  status      \* how the command ended, or None

(* The run's directory and what write does in it.                          *)
Store == INSTANCE ArtifactStore

SessionEvents == EventTypes \cup {"RUN_STARTED", "RUN_COMPLETED", "RUN_FAILED"}

(* The recorder, whose emit is called with every event observed.           *)
Recorder == INSTANCE Recording WITH
  Events <- SessionEvents, calls <- observations,
  closed <- spc \in {"amend", "raise", "exit"}

store == <<wpc, temp, saved, durable>>
recording == <<recorded, recError>>
sessionVars == <<spc, got, caught, pending, store, recording, reported, excuse, status>>
allVars == <<runVars, sessionVars>>

SessionInit ==
  /\ Init
  /\ spc = "create" /\ got = None /\ caught = None /\ pending = None
  /\ Store!StoreInit /\ recorded = <<>> /\ recError = 0
  /\ reported = None /\ excuse = None /\ status = None

SAt(here, there) == spc = here /\ spc' = there

SEmit(e) == Emit(e) /\ Recorder!Record
SQuiet == UNCHANGED <<observations, recording>>
RunUnchanged ==
  UNCHANGED <<pc, exc, state, lifetime, process, outcome, result, interrupts>>

(* _exception_failure and _result_failure                                  *)
ExceptionFailure(e) ==
  CASE e = "TaskConfigError" -> "configuration"
    [] e = "WorkspaceError" -> "workspace"
    [] e = "KeyboardInterrupt" -> "cancelled"
    [] OTHER -> "internal"

(* Mutant: any unsuccessful exit counts as a failure to execute.           *)
ResultFailureByExit(r) ==
  IF r.execution # None /\ r.execution.timed_out THEN "timeout"
  ELSE IF r.verification = None THEN "workspace"
  ELSE IF r.execution = None \/ r.execution.exit_code # 0 THEN "execution"
  ELSE "verification"

ResultFailure(r) ==
  IF r.execution # None /\ r.execution.timed_out THEN "timeout"
  ELSE IF r.verification = None THEN "workspace"
  ELSE IF r.execution = None THEN "execution"
  ELSE "verification"

Artifact(trace_error) ==
  [result |-> got, failure |-> IF got = None THEN ExceptionFailure(caught) ELSE None,
   trace_error |-> trace_error]

(* How main ends for the exception that leaves verify_manifest.            *)
ExitFor(e) ==
  CASE e \in {"TraceWriteError", "TaskConfigError", "WorkspaceError"} -> "exit 2"
    [] e = "KeyboardInterrupt" -> "cancelled"
    [] OTHER -> "traceback"
-----------------------------------------------------------------------------
Create ==
  /\ spc = "create"
  /\ \/ spc' = "open" /\ UNCHANGED <<excuse, status>>
     \/ spc' = "exit" /\ excuse' = "refused" /\ status' = ExitFor("TraceWriteError")
  /\ SQuiet /\ RunUnchanged
  /\ UNCHANGED <<got, caught, pending, store, reported>>

Open ==
  /\ SAt("open", "begin")
  /\ SQuiet /\ RunUnchanged
  /\ UNCHANGED <<got, caught, pending, store, reported, excuse, status>>

(* No trace file; what is left to do is to record that.                    *)
OpenFails ==
  /\ SAt("open", "lost")
  /\ SQuiet /\ RunUnchanged
  /\ UNCHANGED <<got, caught, pending, store, reported, excuse, status>>

Begin ==
  /\ SAt("begin", "load")
  /\ SEmit("RUN_STARTED")
  /\ RunUnchanged
  /\ UNCHANGED <<got, caught, pending, store, reported, excuse, status>>

(* What load_task can raise: the YAML constructors raise a bare ValueError, *)
(* which is not turned into TaskConfigError.                               *)
LoadErrors == {"TaskConfigError", "ValueError"}

(* What resolve_workspace can raise.                                       *)
ResolveErrors == {"WorkspaceError"}

(* Both succeed.                                                           *)
Load ==
  /\ SAt("load", "run")
  /\ SQuiet /\ RunUnchanged
  /\ UNCHANGED <<got, caught, pending, store, reported, excuse, status>>

(* Mutant: the two documented errors of a task are reported without an     *)
(* artifact.                                                               *)
LoadFailsBare ==
  /\ spc = "load"
  /\ caught' \in LoadErrors \cup ResolveErrors
  /\ spc' = IF caught' = "ValueError" THEN "persist" ELSE "close"
  /\ SQuiet /\ RunUnchanged
  /\ UNCHANGED <<got, pending, store, reported, excuse, status>>

LoadFails ==
  /\ SAt("load", "persist")
  /\ caught' \in LoadErrors \cup ResolveErrors
  /\ SQuiet /\ RunUnchanged
  /\ UNCHANGED <<got, pending, store, reported, excuse, status>>

Watched ==
  /\ spc = "run"
  /\ IF UNCHANGED observations THEN UNCHANGED recording ELSE Recorder!Record
  /\ UNCHANGED <<spc, got, caught, pending, store, reported, excuse, status>>

Run == Proceed /\ Watched
RunDisturbed == (ReadFails \/ ChildExits \/ Interrupt) /\ Watched

RunEnds ==
  /\ SAt("run", "persist") /\ Finished
  /\ got' = result
  /\ caught' = IF pc = "raised" THEN exc ELSE None
  /\ SQuiet /\ RunUnchanged
  /\ UNCHANGED <<pending, store, reported, excuse, status>>

(* Mutant: the envelope counts the records instead of naming the line.     *)
WrittenCounts ==
  CASE spc = "lost" -> [result |-> None, failure |-> "artifact", trace_error |-> 0]
    [] spc = "persist" -> Artifact(0)
    [] spc = "amend" -> Artifact(Len(recorded))

(* Mutant: an incomplete trace turns the result into a failure.            *)
WrittenAsFailure ==
  CASE spc = "lost" -> [result |-> None, failure |-> "artifact", trace_error |-> 0]
    [] spc = "persist" -> Artifact(0)
    [] spc = "amend" -> [result |-> None, failure |-> "artifact", trace_error |-> recError]

(* What write is called with from where verify_manifest is.                *)
Written ==
  CASE spc = "lost" -> [result |-> None, failure |-> "artifact", trace_error |-> 0]
    [] spc = "persist" -> Artifact(0)
    [] spc = "amend" -> Artifact(recError)

(* write, up to the rename.                                                *)
Write ==
  /\ spc \in {"lost", "persist", "amend"}
  /\ Store!MakeTemporary \/ Store!Fill
  /\ SQuiet /\ RunUnchanged
  /\ UNCHANGED <<spc, got, caught, pending, reported, excuse, status>>

Persist ==
  /\ SAt("persist", "conclude")
  /\ Store!Replace(Written)
  /\ SQuiet /\ RunUnchanged
  /\ UNCHANGED <<got, caught, pending, reported, excuse, status>>

(* Mutant: a result that cannot be written is ignored.                     *)
PersistFailsSilently ==
  /\ SAt("persist", "conclude")
  /\ Store!Abandon
  /\ SQuiet /\ RunUnchanged
  /\ UNCHANGED <<got, caught, pending, reported, excuse, status>>

PersistFails ==
  /\ SAt("persist", "close")
  /\ Store!Abandon
  /\ pending' = "TraceWriteError"
  /\ reported' = "artifact" /\ excuse' = "refused"
  /\ SEmit("RUN_FAILED")
  /\ RunUnchanged
  /\ UNCHANGED <<got, caught, status>>

Conclude ==
  /\ SAt("conclude", "close")
  /\ IF got # None /\ got.status = "completed"
       THEN SEmit("RUN_COMPLETED") /\ UNCHANGED reported
       ELSE /\ SEmit("RUN_FAILED")
            /\ reported' = IF got = None THEN ExceptionFailure(caught) ELSE ResultFailure(got)
  /\ RunUnchanged
  /\ UNCHANGED <<got, caught, pending, store, excuse, status>>

(* Mutant: the recorder's error is not looked at.                          *)
CloseIgnoresError ==
  /\ SAt("close", "exit")
  /\ status' = IF pending # None THEN ExitFor(pending)
               ELSE IF caught # None THEN ExitFor(caught)
               ELSE IF got.status = "completed" THEN "exit 0" ELSE "exit 1"
  /\ SQuiet /\ RunUnchanged
  /\ UNCHANGED <<got, caught, pending, store, reported, excuse>>

(* recorder.close: it may fail, or push out the record a flush left behind; *)
(* then the recording failure, the exception or the result is passed on.   *)
Close ==
  /\ spc = "close"
  /\ Recorder!Release
  /\ IF pending = None /\ recError' # 0
       THEN spc' = "amend" /\ UNCHANGED status
       ELSE /\ spc' = "exit"
            /\ status' = IF pending # None THEN ExitFor(pending)
                         ELSE IF caught # None THEN ExitFor(caught)
                         ELSE IF got.status = "completed" THEN "exit 0" ELSE "exit 1"
  /\ RunUnchanged
  /\ UNCHANGED <<observations, got, caught, pending, store, reported, excuse>>

(* The write after which the command ends with exit status 2 in any case:  *)
(* the artifact of a run without a trace, or the envelope that admits an   *)
(* incomplete one.                                                         *)
LastWrite ==
  /\ spc \in {"lost", "amend"} /\ spc' = "raise"
  /\ \/ Store!Replace(Written) /\ UNCHANGED excuse
     \/ Store!Abandon /\ excuse' = "refused"
  /\ SQuiet /\ RunUnchanged
  /\ UNCHANGED <<got, caught, pending, reported, status>>

RaiseError ==
  /\ SAt("raise", "exit")
  /\ status' = ExitFor("TraceWriteError")
  /\ SQuiet /\ RunUnchanged
  /\ UNCHANGED <<got, caught, pending, store, reported, excuse>>

(* A KeyboardInterrupt in verify_manifest itself: caught while loading and *)
(* until the result is assigned, otherwise past the finally clause or out. *)
SInterrupt ==
  /\ spc # "exit" /\ (spc = "run" => Finished)
  /\ interrupts < MaxInterrupts
  /\ interrupts' = interrupts + 1
  /\ \/ spc \in {"load", "run"} /\ spc' = "persist" /\ caught' = "KeyboardInterrupt"
        /\ UNCHANGED <<pending, excuse, status>>
     \/ spc \in {"persist", "conclude"} /\ spc' = "close" /\ pending' = "KeyboardInterrupt"
        /\ excuse' = "stopped" /\ UNCHANGED <<caught, status>>
     \/ spc \in {"create", "open", "lost", "begin", "close", "amend", "raise"} /\ spc' = "exit"
        /\ excuse' = "stopped" /\ status' = "cancelled" /\ UNCHANGED <<caught, pending>>
  /\ Store!Abandon
  /\ SQuiet
  /\ UNCHANGED <<pc, exc, state, lifetime, process, outcome, result>>
  /\ UNCHANGED <<got, reported>>

(* The process dies without unwinding; what is on disk stays.              *)
Crash ==
  /\ spc # "exit" /\ spc' = "exit"
  /\ excuse' = "stopped" /\ status' = "died"
  /\ SQuiet /\ RunUnchanged
  /\ UNCHANGED <<got, caught, pending, store, reported>>

(* The verifier process may outlive the run, even the command.             *)
Orphan == spc # "run" /\ ChildExits /\ UNCHANGED sessionVars

SessionStep ==
  \/ Create \/ Open \/ OpenFails \/ Begin \/ Load \/ LoadFails
  \/ Run \/ RunEnds \/ Write \/ Persist \/ PersistFails \/ Conclude \/ Close
  \/ LastWrite \/ RaiseError

Ended == spc = "exit" /\ UNCHANGED allVars

SessionNext == SessionStep \/ RunDisturbed \/ SInterrupt \/ Crash \/ Orphan \/ Ended

SessionSpec ==
  SessionInit /\ [][SessionNext]_allVars /\ WF_allVars(SessionStep)
-----------------------------------------------------------------------------
FailureTypes ==
  {"configuration", "workspace", "verification", "timeout", "execution", "cancelled",
   "internal", "artifact"}

Artifacts ==
  [result: TaskResults \cup {None}, failure: FailureTypes \cup {None}, trace_error: Nat]

Endings == {"exit 0", "exit 1", "exit 2", "traceback", "cancelled", "died"}

(* Torn and None are none of the values they stand beside.                 *)
ASSUME SessionAssumption ==
  /\ Torn \notin Artifacts \cup {None}
  /\ None \notin Artifacts \cup FailureTypes \cup LoadErrors \cup Endings \cup {"TraceWriteError"}

(* Every variable of the session has its type.                             *)
SessionTypeOK ==
  /\ spc \in {"create", "open", "begin", "load", "run", "persist", "conclude", "close",
              "amend", "lost", "raise", "exit"}
  /\ got \in TaskResults \cup {None}
  /\ caught \in Exceptions \cup {"TaskConfigError", "ValueError", None}
  /\ pending \in {"TraceWriteError", "KeyboardInterrupt", None}
  /\ wpc \in {"idle", "fill", "replace"} /\ temp \in {"part", "synced", None}
  /\ saved \in Artifacts \cup {None} /\ durable \subseteq Artifacts \cup {None}
  /\ recorded \in Seq(SessionEvents) /\ recError \in Nat
  /\ reported \in FailureTypes \cup {None} /\ excuse \in {"refused", "stopped", None}
  /\ status \in Endings \cup {None}

(* The trace claims completion only when the completed result is already   *)
(* persisted, also when the process dies between the two.                  *)
ClaimFollowsEvidence ==
  (\E i \in 1..Len(recorded) : recorded[i] = "RUN_COMPLETED") =>
    saved # None /\ saved.result # None /\ saved.result.status = "completed"

(* Exit status 0 or 1 means that the result on disk is the one measured,   *)
(* that it is marked as fully traced, and that the trace holds every event *)
(* of the run up to the terminal one that agrees with the result.          *)
ExitMeansEvidence ==
  status \in {"exit 0", "exit 1"} =>
    /\ saved # None /\ saved.result = result /\ result # None
    /\ saved.trace_error = 0
    /\ recorded = observations
    /\ recorded[Len(recorded)] =
         IF status = "exit 0" THEN "RUN_COMPLETED" ELSE "RUN_FAILED"
    /\ (status = "exit 0") <=> (result.status = "completed")

(* A recording failure never changes the persisted verdict: once result    *)
(* or failure is on disk it stays, and only trace_error is ever added.     *)
VerdictKept ==
  [][saved # None =>
       /\ saved' # None
       /\ saved'.result = saved.result /\ saved'.failure = saved.failure
       /\ saved.trace_error # 0 => saved' = saved]_allVars

(* trace_error on disk is the recorder's own line, never invented, and a   *)
(* run whose trace has a gap does not exit as though it had none.          *)
TraceErrorIsHonest ==
  /\ saved # None /\ saved.trace_error # 0 =>
       saved.trace_error = recError /\ status \in {"exit 2", "cancelled", "died", None}
  /\ recorded # observations /\ spc = "exit" =>
       recError # 0 /\ status \notin {"exit 0", "exit 1"}

(* The failure_type of RUN_FAILED names something that happened.           *)
FailureNamesTheCause ==
  /\ reported = "timeout" => Observed("PROCESS_TIMED_OUT")
  /\ reported = "verification" =>
       Observed("PROCESS_COMPLETED") /\ Observed("VERIFICATION_COMPLETED")
  /\ reported = "cancelled" => interrupts > 0
  /\ reported = "configuration" => ~Observed("TASK_VALIDATED")
  /\ reported = "execution" =>
       ~Observed("PROCESS_COMPLETED") /\ Observed("VERIFICATION_COMPLETED")

(* A command that ends without a result file was refused one, because      *)
(* creating its directory or writing the file failed (exit 2), or was      *)
(* stopped outside loading and running its task.  Every other exit, the    *)
(* one for a task that cannot be loaded or its workspace resolved (exit 2  *)
(* too) and the one after an interrupt of the run included, leaves one.    *)
EvidenceIsLeft ==
  spc = "exit" /\ saved = None =>
    \/ excuse = "refused" /\ status = "exit 2"
    \/ excuse = "stopped" /\ status \in {"cancelled", "died"}

(* result.json is absent or whole at every moment: what a reader finds,    *)
(* even after the process or the machine has died anywhere, is what write  *)
(* was called with, exactly a result or a failure and never a part.        *)
ResultIsWhole ==
  /\ saved \in durable
  /\ \A content \in durable \ {None} :
       /\ content # Torn
       /\ (content.result = None) # (content.failure = None)
       /\ [content EXCEPT !.trace_error = 0] = [saved EXCEPT !.trace_error = 0]

(* The command ends.                                                       *)
SessionEnds == <>(spc = "exit")
-----------------------------------------------------------------------------
(* application/verification.py:83, "Persist the actual stopping point,     *)
(* including cancellation": after an interrupt while the task was loaded   *)
(* or run, what is persisted is the cancellation.                          *)
CancellationIsPersisted ==
  spc = "conclude" /\ interrupts > 0 => saved.failure = "cancelled"

=============================================================================
