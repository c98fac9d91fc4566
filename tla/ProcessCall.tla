---------------------------- MODULE ProcessCall ----------------------------
(***************************************************************************)
(* The process runner in detail does what the task runner relies on: every *)
(* step of ProcessRunner is a step that TaskRun has between its points     *)
(* launch and judge, or one that TaskRun does not see.  What the rest of   *)
(* the task holds during the call is fixed.                                *)
(***************************************************************************)
EXTENDS ProcessRunner, Sequences

(* The exit code of a leader ended by SIGKILL, as Popen gives it.          *)
Killed == -9

(* An exit code is not Python's None.                                      *)
ASSUME CodeAssumption == None \notin {0, Killed}

ExitCode == CASE returncode = "own" -> 0 [] returncode = "killed" -> Killed [] OTHER -> None

(* TaskRun's point of the call.  The finally clause and the except clause  *)
(* of the setup are one point there, the drain after the cleanup another.  *)
CallPoint ==
  CASE pc = "popen" -> "attach"
    [] pc = "setup" -> "started"
    [] pc = "abort" -> "abandon"
    [] pc \in {"begin", "poll"} -> "running"
    [] pc \in {"read", "clock"} -> IF cleaned THEN "drain" ELSE "running"
    [] pc \in {"kill", "wait"} -> IF exc = None THEN "terminate" ELSE "abort"
    [] pc \in {"drain", "result"} -> "drain"
    [] pc = "returned" -> "judge"
    [] pc = "raised" -> IF exc = "KeyboardInterrupt" THEN "leave" ELSE "judge"
    [] OTHER -> pc

(* ProcessLaunchError is a ProcessError.                                   *)
CallException == IF exc = "ProcessLaunchError" THEN "ProcessError" ELSE exc

CallChild ==
  IF returncode # None THEN "reaped"
  ELSE CASE status[Leader] = "unborn" -> "none"
         [] Running(Leader) -> "alive"
         [] OTHER -> "exited"

(* The events come at the steps of the same name in TaskRun.               *)
CallEvents ==
  (IF pc = "popen" \/ status[Leader] = "unborn" THEN << >> ELSE <<"PROCESS_STARTED">>)
    \o (IF timed_out THEN <<"PROCESS_TIMED_OUT">> ELSE << >>)
    \o (IF pc = "returned" THEN <<"PROCESS_COMPLETED">> ELSE << >>)

(* The ExecutionResult; what the output decodes and parses to is open.     *)
CallResult ==
  IF pc # "returned" THEN None
  ELSE [exit_code |-> ExitCode, timed_out |-> timed_out,
        stdout_truncated |-> truncated["stdout"], stderr_truncated |-> truncated["stderr"],
        stdout_decode_errors |-> FALSE, stdout |-> None]

Call == INSTANCE TaskRun WITH
  ExitCodes <- {0, Killed}, Faults <- BOOLEAN, Counts <- {}, RetainOptions <- {FALSE},
  pc <- CallPoint, exc <- CallException, child <- CallChild, measured <- CallResult,
  observations <- CallEvents,
  state <- "testing", root <- "complete", prepared <- TRUE, failed <- TRUE,
  retained <- FALSE, execution <- None, verification <- None, result <- None

(* A run of the process is what TaskRun takes it for, whatever the command *)
(* and its descendants do: the child is reaped before a result, and after  *)
(* every failure TaskRun knows of; the call ends only as it does there.    *)
(* An interrupt in the gaps that no try statement covers is the exception. *)
ImplementsCall ==
  [][struck' \notin {"popen", "begin"} => UNCHANGED Call!runVars \/ Call!RunStep]_vars
=============================================================================
