--------------------------- MODULE ProcessRunner ---------------------------
(***************************************************************************)
(* One call of ProcessRunner.run on a POSIX system: execution/process.py,  *)
(* its captures, and the process group of execution/timeout.py.  Beside    *)
(* the runner live the leader it starts and the descendants the leader     *)
(* may fork, each inside or outside the group, writing to two pipes of     *)
(* bounded capacity.  Bytes are counted in units of one write; times are   *)
(* reduced to whether the deadline in force has passed.                    *)
(***************************************************************************)
EXTENDS Integers, FiniteSets

CONSTANTS
  None,
  Leader, Descendants,    \* the process started, and those it may come to fork
  MaxStdout, MaxStderr,   \* ProcessOptions.max_stdout_bytes, max_stderr_bytes
  Capacity,               \* what a pipe holds before its writers block
  Batch,                  \* reads per drain
  MaxInterrupts           \* bound: KeyboardInterrupts

ASSUME RunnerAssumption ==
  /\ Leader \notin Descendants
  /\ MaxStdout \in Nat /\ MaxStderr \in Nat /\ MaxInterrupts \in Nat
  /\ Capacity \in Nat \ {0} /\ Batch \in Nat \ {0}

Processes == {Leader} \cup Descendants
Streams == {"stdout", "stderr"}
Limit(s) == IF s = "stdout" THEN MaxStdout ELSE MaxStderr

VARIABLES
  status,      \* process -> "unborn", "alive", "dying" (SIGKILL sent), "dead"
  group,       \* the processes in the leader's process group
  fds,         \* process -> the streams it holds open
  code,        \* how the leader ended: "own", "killed", or None
  pipe,        \* stream -> amount in the pipe
  written,     \* history: stream -> amount written to it, up to Limit + 1
  pc, exc,     \* program point; exception in flight, or None
  turn, reads, \* the capture being drained and its reads in this batch
  data, truncated, eof,   \* _Capture, for each stream
  returncode,  \* Popen.returncode
  timed_out, cleaned,     \* run's locals
  late,        \* the deadline in force has passed
  struck,      \* history: where the last KeyboardInterrupt fell, or None
  interrupts   \* history: KeyboardInterrupts so far

system == <<status, group, fds, code>>
pipes == <<pipe, written>>
drained == <<turn, reads>>
captures == <<data, truncated, eof>>
flags == <<returncode, timed_out, cleaned>>
histories == <<struck, interrupts>>
vars == <<system, pipes, pc, exc, drained, captures, flags, late, histories>>

Points == {"launch", "popen", "setup", "abort", "begin", "poll", "read", "clock",
           "kill", "wait", "mark", "drain", "result", "returned", "raised"}
ExceptionsOfRun == {"ProcessLaunchError", "ProcessError", "KeyboardInterrupt"}

(* No exception in flight, and no exit yet, differ from all there are.     *)
ASSUME NoneAssumption == None \notin ExceptionsOfRun \cup {"own", "killed"}

Finished == pc \in {"returned", "raised"}
Running(p) == status[p] \in {"alive", "dying"}
Holders(s) == {p \in Processes : s \in fds[p]}
InGroupAlive == \E p \in group : status[p] = "alive"

Init ==
  /\ status = [p \in Processes |-> "unborn"]
  /\ group = {} /\ fds = [p \in Processes |-> {}] /\ code = None
  /\ pipe = [s \in Streams |-> 0] /\ written = [s \in Streams |-> 0]
  /\ pc = "launch" /\ exc = None /\ turn = "stdout" /\ reads = 0
  /\ data = [s \in Streams |-> 0]
  /\ truncated = [s \in Streams |-> FALSE] /\ eof = [s \in Streams |-> FALSE]
  /\ returncode = None /\ timed_out = FALSE /\ cleaned = FALSE
  /\ late = FALSE /\ struck = None /\ interrupts = 0
-----------------------------------------------------------------------------
(* The command and what it starts (external).                              *)

(* Every process but the unborn and the dying can fork; the new one shares *)
(* its group and its streams.                                              *)
Fork(p, q) ==
  /\ status[p] = "alive" /\ status[q] = "unborn"
  /\ status' = [status EXCEPT ![q] = "alive"]
  /\ group' = IF p \in group THEN group \cup {q} ELSE group
  /\ fds' = [fds EXCEPT ![q] = fds[p]]
  /\ UNCHANGED code

(* setsid or setpgid: all but the leader, which leads the group, can leave.*)
Detach(p) ==
  /\ status[p] = "alive" /\ p \in group
  /\ group' = group \ {p}
  /\ UNCHANGED <<status, fds, code>>

CloseStream(p, s) ==
  /\ status[p] = "alive" /\ s \in fds[p]
  /\ fds' = [fds EXCEPT ![p] = @ \ {s}]
  /\ UNCHANGED <<status, group, code>>

(* A process ends by itself, or a signal that was sent to it takes effect; *)
(* the kernel closes its streams and takes it out of its group.            *)
End(p) ==
  /\ Running(p)
  /\ status' = [status EXCEPT ![p] = "dead"]
  /\ fds' = [fds EXCEPT ![p] = {}]
  /\ group' = group \ {p}
  /\ code' = IF p # Leader THEN code
             ELSE IF status[p] = "dying" THEN "killed" ELSE "own"

(* A system call under way may still complete after SIGKILL was sent.      *)
Write(p, s) ==
  /\ s \in fds[p]
  /\ pipe[s] < Capacity
  /\ pipe' = [pipe EXCEPT ![s] = @ + 1]
  /\ written' = [written EXCEPT ![s] = IF @ > Limit(s) THEN @ ELSE @ + 1]

Command ==
  /\ ~Finished
  /\ \/ /\ \/ \E p \in Processes, q \in Descendants : Fork(p, q)
           \/ \E p \in Descendants : Detach(p)
           \/ \E p \in Processes, s \in Streams : CloseStream(p, s)
           \/ \E p \in Processes : End(p)
        /\ UNCHANGED pipes
     \/ /\ \E p \in Processes, s \in Streams : Write(p, s)
        /\ UNCHANGED system
  /\ UNCHANGED <<pc, exc, drained, captures, flags, late, histories>>

Time ==
  /\ ~Finished /\ ~late
  /\ late' = TRUE
  /\ UNCHANGED <<system, pipes, pc, exc, drained, captures, flags, histories>>
-----------------------------------------------------------------------------
(* Setup.                                                                  *)

At(here, there) == pc = here /\ pc' = there
World == UNCHANGED <<system, pipes, histories>>

(* _executable raises or Popen does: there is no process.                  *)
LaunchFails ==
  /\ At("launch", "raised")
  /\ exc' = "ProcessLaunchError"
  /\ World /\ UNCHANGED <<drained, captures, flags, late>>

(* The process is there, and Popen has not returned.                       *)
Launch ==
  /\ At("launch", "popen")
  /\ status' = [status EXCEPT ![Leader] = "alive"]
  /\ group' = {Leader}
  /\ fds' = [fds EXCEPT ![Leader] = Streams]
  /\ UNCHANGED <<code, pipes, exc, drained, captures, flags, late, histories>>

Assign ==
  /\ At("popen", "setup")
  /\ World /\ UNCHANGED <<exc, drained, captures, flags, late>>

Setup ==
  /\ At("setup", "begin")
  /\ World /\ UNCHANGED <<exc, drained, captures, flags, late>>

SetupFails ==
  /\ At("setup", "abort")
  /\ exc' = "ProcessLaunchError"
  /\ World /\ UNCHANGED <<drained, captures, flags, late>>

(* The except clause of the setup: poll, and kill what has not ended.      *)
Abort ==
  /\ At("abort", "kill")
  /\ IF status[Leader] = "dead"
       THEN returncode' = code /\ UNCHANGED status
       ELSE /\ status' = [status EXCEPT ![Leader] = "dying"]
            /\ UNCHANGED returncode
  /\ UNCHANGED <<group, fds, code, pipes, exc, drained, captures,
                 timed_out, cleaned, late, histories>>

(* Between the two try statements.                                         *)
Begin ==
  /\ At("begin", "poll")
  /\ World /\ UNCHANGED <<exc, drained, captures, flags, late>>
-----------------------------------------------------------------------------
(* Draining: one batch of reads of stdout, then one of stderr.             *)

StartDrain == pc' = "read" /\ turn' = "stdout" /\ reads' = 0

(* Mutant: the second stream is drained only if the first was inactive.    *)
NextCaptureIfIdle ==
  /\ reads' = 0
  /\ IF turn = "stdout" /\ reads = 0
       THEN turn' = "stderr" /\ UNCHANGED pc
       ELSE pc' = "clock" /\ UNCHANGED turn

NextCapture ==
  /\ reads' = 0
  /\ IF turn = "stdout"
       THEN turn' = "stderr" /\ UNCHANGED pc
       ELSE pc' = "clock" /\ UNCHANGED turn

MayRead == pc = "read" /\ ~eof[turn] /\ reads < Batch

(* Mutant: a drain goes on until nothing is left to read.                  *)
ReadChunkUncounted ==
  /\ MayRead /\ pipe[turn] > 0
  /\ pipe' = [pipe EXCEPT ![turn] = 0]
  /\ data' = [data EXCEPT ![turn] =
                IF @ + pipe[turn] > Limit(turn) THEN Limit(turn) ELSE @ + pipe[turn]]
  /\ truncated' = [truncated EXCEPT ![turn] = @ \/ pipe[turn] > Limit(turn) - data[turn]]
  /\ UNCHANGED <<system, written, pc, exc, turn, reads, eof, flags, late, histories>>

(* os.read returns what the pipe holds; a prefix of the stream is kept.    *)
ReadChunk ==
  /\ MayRead /\ pipe[turn] > 0
  /\ reads' = reads + 1
  /\ pipe' = [pipe EXCEPT ![turn] = 0]
  /\ data' = [data EXCEPT ![turn] =
                IF @ + pipe[turn] > Limit(turn) THEN Limit(turn) ELSE @ + pipe[turn]]
  /\ truncated' = [truncated EXCEPT ![turn] = @ \/ pipe[turn] > Limit(turn) - data[turn]]
  /\ UNCHANGED <<system, written, pc, exc, turn, eof, flags, late, histories>>

(* The pipe is empty and nobody can write to it any more.                  *)
ReadEof ==
  /\ MayRead /\ pipe[turn] = 0 /\ Holders(turn) = {}
  /\ eof' = [eof EXCEPT ![turn] = TRUE]
  /\ NextCapture
  /\ World /\ UNCHANGED <<exc, data, truncated, flags, late>>

(* BlockingIOError, a full batch, or a stream that ended before.           *)
ReadNoMore ==
  /\ pc = "read"
  /\ eof[turn] \/ reads = Batch \/ (pipe[turn] = 0 /\ Holders(turn) # {})
  /\ NextCapture
  /\ World /\ UNCHANGED <<exc, captures, flags, late>>
-----------------------------------------------------------------------------
(* The loop, the end of the process group and the drain that follows.      *)

(* Mutant: only a timeout ends the group.                                  *)
SeeExitOnly ==
  /\ At("poll", "mark")
  /\ status[Leader] = "dead"
  /\ returncode' = code
  /\ World /\ UNCHANGED <<exc, drained, captures, timed_out, cleaned, late>>

(* Mutant: the cleanup is taken for done before it is tried.               *)
SeeExitCleaned ==
  /\ At("poll", "kill")
  /\ status[Leader] = "dead"
  /\ returncode' = code /\ cleaned' = TRUE
  /\ World /\ UNCHANGED <<exc, drained, captures, timed_out, late>>

SeeExit ==
  /\ At("poll", "kill")
  /\ status[Leader] = "dead"
  /\ returncode' = code
  /\ World /\ UNCHANGED <<exc, drained, captures, timed_out, cleaned, late>>

StillRuns ==
  /\ pc = "poll" /\ status[Leader] # "dead"
  /\ StartDrain
  /\ World /\ UNCHANGED <<exc, captures, flags, late>>

InTime ==
  /\ At("clock", IF cleaned THEN "drain" ELSE "poll")
  /\ ~late
  /\ World /\ UNCHANGED <<exc, drained, captures, flags, late>>

(* Mutant: a process that is killed is not reported as timed out.          *)
ExpireSilently ==
  /\ At("clock", "kill")
  /\ ~cleaned /\ late
  /\ World /\ UNCHANGED <<exc, drained, captures, flags, late>>

Expire ==
  /\ At("clock", "kill")
  /\ ~cleaned /\ late
  /\ timed_out' = TRUE
  /\ World /\ UNCHANGED <<exc, drained, captures, returncode, cleaned, late>>

(* ProcessTree.terminate: killpg, which finds no process when all of the   *)
(* group are reaped, and the wait for the leader.                          *)
Kill ==
  /\ At("kill", "wait")
  /\ status' = [p \in Processes |->
                  IF p \in group /\ status[p] = "alive" THEN "dying" ELSE status[p]]
  /\ UNCHANGED <<group, fds, code, pipes, exc, drained, captures, flags, late, histories>>

(* Mutant: the group is signalled, and nobody waits for the leader.        *)
WaitNot ==
  /\ At("wait", IF exc = None THEN "mark" ELSE "raised")
  /\ World /\ UNCHANGED <<exc, drained, captures, flags, late>>

(* With an exception in flight this was the finally clause, or setup's.    *)
Wait ==
  /\ At("wait", IF exc = None THEN "mark" ELSE "raised")
  /\ status[Leader] = "dead"
  /\ returncode' = code
  /\ World /\ UNCHANGED <<exc, drained, captures, timed_out, cleaned, late>>

(* The cleanup is done, and the drain gets a deadline of its own.          *)
Mark ==
  /\ At("mark", "drain")
  /\ cleaned' = TRUE /\ late' = FALSE
  /\ World /\ UNCHANGED <<exc, drained, captures, returncode, timed_out>>

DrainOn ==
  /\ pc = "drain" /\ \E s \in Streams : ~eof[s]
  /\ StartDrain
  /\ World /\ UNCHANGED <<exc, captures, flags, late>>

Drained ==
  /\ At("drain", "result") /\ \A s \in Streams : eof[s]
  /\ World /\ UNCHANGED <<exc, drained, captures, flags, late>>

(* Mutant: the drain just stops.                                           *)
CutOffSilently ==
  /\ At("clock", "result")
  /\ cleaned /\ late
  /\ World /\ UNCHANGED <<exc, drained, captures, flags, late>>

(* Somebody outside the group still holds a stream.                        *)
CutOff ==
  /\ At("clock", "result")
  /\ cleaned /\ late
  /\ truncated' = [s \in Streams |-> truncated[s] \/ ~eof[s]]
  /\ World /\ UNCHANGED <<exc, drained, data, eof, flags, late>>

(* The ExecutionResult is what data, truncated, timed_out and returncode   *)
(* hold now.                                                               *)
Return ==
  /\ At("result", "returned")
  /\ World /\ UNCHANGED <<exc, drained, captures, flags, late>>
-----------------------------------------------------------------------------
(* Where an exception leads: into the cleanup of setup, into the finally   *)
(* clause, or, when it falls into those or nothing is left to clean, out.  *)
Unwind ==
  CASE pc = "setup" -> "abort"
    [] pc \in {"poll", "read", "clock", "kill", "wait", "mark"} /\ exc = None /\ ~cleaned -> "kill"
    [] OTHER -> "raised"

(* os.read, os.killpg or the wait for the leader fails: a ProcessError.    *)
Fails ==
  /\ \/ pc \in {"read", "kill"}
     \/ pc = "wait" /\ status[Leader] # "dead"
  /\ pc' = Unwind /\ exc' = "ProcessError"
  /\ World /\ UNCHANGED <<drained, captures, flags, late>>

Interrupt ==
  /\ ~Finished /\ interrupts < MaxInterrupts
  /\ interrupts' = interrupts + 1
  /\ struck' = IF exc = None THEN pc ELSE "cleanup"
  /\ pc' = Unwind /\ exc' = "KeyboardInterrupt"
  /\ UNCHANGED <<system, pipes, drained, captures, flags, late>>
-----------------------------------------------------------------------------
Runner ==
  \/ LaunchFails \/ Launch \/ Assign \/ Setup \/ SetupFails \/ Abort \/ Begin
  \/ SeeExit \/ StillRuns \/ InTime \/ Expire
  \/ ReadChunk \/ ReadEof \/ ReadNoMore
  \/ Kill \/ Wait \/ Mark \/ DrainOn \/ Drained \/ CutOff \/ Return
  \/ Fails

Done == Finished /\ UNCHANGED vars

Next == Runner \/ Interrupt \/ Command \/ Time \/ Done

Spec == Init /\ [][Next]_vars

(* The runner takes its steps; the command owes nothing.                   *)
FairSpec == Spec /\ WF_vars(Runner)

(* No deadline stays ahead for ever.                                       *)
TimePasses == WF_vars(Time)
-----------------------------------------------------------------------------
(* Every variable holds a value of its kind; no more is kept of a stream   *)
(* than its limit.                                                         *)
TypeOK ==
  /\ status \in [Processes -> {"unborn", "alive", "dying", "dead"}]
  /\ group \subseteq Processes /\ fds \in [Processes -> SUBSET Streams]
  /\ code \in {None, "own", "killed"} /\ returncode \in {None, "own", "killed"}
  /\ pipe \in [Streams -> 0..Capacity]
  /\ written \in [Streams -> Nat] /\ data \in [Streams -> Nat]
  /\ \A s \in Streams : written[s] <= Limit(s) + 1 /\ data[s] <= Limit(s)
  /\ pc \in Points /\ struck \in Points \cup {None, "cleanup"}
  /\ exc \in {None} \cup ExceptionsOfRun
  /\ turn \in Streams /\ reads \in 0..Batch
  /\ truncated \in [Streams -> BOOLEAN] /\ eof \in [Streams -> BOOLEAN]
  /\ timed_out \in BOOLEAN /\ cleaned \in BOOLEAN /\ late \in BOOLEAN
  /\ interrupts \in 0..MaxInterrupts

(* A result that does not call a stream truncated holds all that anybody   *)
(* wrote to it, and nobody is left who could add to it, whoever inherited  *)
(* the stream and whether or not the command was killed.  One that does    *)
(* has dropped something or has not seen the end of the stream.            *)
OutputIsWhole ==
  pc = "returned" =>
    \A s \in Streams :
      IF truncated[s] THEN ~eof[s] \/ written[s] > Limit(s)
                      ELSE data[s] = written[s] /\ Holders(s) = {}

(* When a call returns, or reports that the launch failed, every process   *)
(* that stayed in the command's group is dead or has been sent SIGKILL,    *)
(* also after a leader that ended by itself.                               *)
GroupIsGone ==
  pc = "returned" \/ (pc = "raised" /\ exc = "ProcessLaunchError") => ~InGroupAlive

(* A result says how the leader ended, and if the runner killed it, that   *)
(* it timed out: an exit code without timed_out is the command's own.      *)
ExitCodeIsHonest ==
  pc = "returned" =>
    /\ status[Leader] = "dead" /\ returncode = code
    /\ returncode = "own" \/ (returncode = "killed" /\ timed_out)

(* An interrupt that reaches the caller from within one of the two try     *)
(* statements, and not while a failure is being cleaned up, has first      *)
(* ended the group and waited for the leader.                              *)
CancellationCleans ==
  pc = "raised" /\ exc = "KeyboardInterrupt" /\ struck \notin {"popen", "begin", "cleanup"} =>
    /\ ~InGroupAlive
    /\ status[Leader] \in {"unborn", "dead"}

(* As time passes the call ends whatever the command does: if it never     *)
(* exits, never stops writing, or leaves a descendant that holds a stream. *)
Terminates == TimePasses => <>Finished

(* Without any help of the deadline, a writer that blocks on a full pipe   *)
(* is served, whatever the other stream carries.                           *)
WritersAreServed ==
  \A s \in Streams : pipe[s] = Capacity ~> pipe[s] < Capacity \/ Finished
-----------------------------------------------------------------------------
(* docs/execution.md, "Cancellation during setup/capture also invokes      *)
(* cleanup": no interrupt leaves a member of the group running unsignalled.*)
CancelledLeavesNothing ==
  pc = "raised" /\ exc = "KeyboardInterrupt" => ~InGroupAlive
=============================================================================
