----------------------------- MODULE WindowsJob -----------------------------
(***************************************************************************)
(* One call of ProcessRunner.run on Windows, seen from the job object of   *)
(* execution/_windows.py: the child is created suspended, assigned to a    *)
(* job that kills its members when its last handle is closed, and only     *)
(* then resumed.  Captures and deadlines are those of ProcessRunner; here  *)
(* the loop ends when it likes.  Any call of the system may fail, an       *)
(* interrupt may fall between any two, and the interpreter may be killed,  *)
(* which closes its handles.                                               *)
(***************************************************************************)
EXTENDS Naturals

CONSTANTS
  None,
  Leader, Descendants,    \* the process started, and those it may come to start
  MaxInterrupts           \* bound: KeyboardInterrupts

ExceptionsOfRun == {"ProcessLaunchError", "ProcessError", "KeyboardInterrupt"}

ASSUME JobAssumption ==
  /\ Leader \notin Descendants /\ MaxInterrupts \in Nat
  /\ None \notin ExceptionsOfRun

VARIABLES
  status,       \* process -> "unborn", "suspended", "alive", "dying", "dead"
  members,      \* the processes assigned to the job, or started by one that is
  killOnClose,  \* JOB_OBJECT_LIMIT_KILL_ON_JOB_CLOSE is set
  handles,      \* the handles this program holds open
  pc, exc,      \* program point; exception in flight, or None
  struck,       \* history: the points at which interrupts fell
  interrupts    \* history: how many

system == <<status, members>>
histories == <<struck, interrupts>>
vars == <<system, killOnClose, handles, pc, exc, histories>>

Processes == {Leader} \cup Descendants
Points == {"start", "limit", "create", "popen", "open", "assign", "snapshot", "threads",
           "resume", "setup", "abort", "begin", "running", "terminate", "query", "wait",
           "mark", "drain", "close", "returned", "raised", "crashed"}
Ended == pc \in {"returned", "raised", "crashed"}

Init ==
  /\ status = [p \in Processes |-> "unborn"] /\ members = {}
  /\ killOnClose = FALSE /\ handles = {}
  /\ pc = "start" /\ exc = None
  /\ struck = {} /\ interrupts = 0

(* What TerminateProcess does to each of a set of processes.               *)
Killed(ps) ==
  [p \in Processes |->
     IF p \in ps /\ status[p] \in {"suspended", "alive"} THEN "dying" ELSE status[p]]

(* What is left of the job when its last handle is closed.                 *)
AfterClose == IF killOnClose THEN Killed(members) ELSE status

At(here, there) == pc = here /\ pc' = there
Goes(here, there) ==
  At(here, there) /\ UNCHANGED <<system, killOnClose, handles, exc, histories>>
-----------------------------------------------------------------------------
(* The command and what it starts (external): a process started by a member *)
(* is one, there is no way to break away.                                  *)
Command ==
  /\ \/ \E p \in Processes, q \in Descendants :
          /\ status[p] = "alive" /\ status[q] = "unborn"
          /\ status' = [status EXCEPT ![q] = "alive"]
          /\ members' = IF p \in members THEN members \cup {q} ELSE members
     \/ \E p \in Processes :
          /\ status[p] \in {"alive", "dying"}
          /\ status' = [status EXCEPT ![p] = "dead"]
          /\ UNCHANGED members
  /\ UNCHANGED <<killOnClose, handles, pc, exc, histories>>
-----------------------------------------------------------------------------
(* WindowsJob.__init__ and Popen.                                          *)

(* The search for the executable, or CreateJobObjectW fails.               *)
StartFails ==
  /\ At("start", "raised")
  /\ exc' = "ProcessLaunchError"
  /\ UNCHANGED <<system, killOnClose, handles, histories>>

CreateJob ==
  /\ At("start", "limit")
  /\ handles' = handles \cup {"job"}
  /\ UNCHANGED <<system, killOnClose, exc, histories>>

(* Mutant: the job is created without its limit.                           *)
SetLimitNot == Goes("limit", "create")

SetLimit ==
  /\ At("limit", "create")
  /\ killOnClose' = TRUE
  /\ UNCHANGED <<system, handles, exc, histories>>

(* Mutant: nobody closes a job that could not be limited.                  *)
SetLimitFailsOpen ==
  /\ At("limit", "raised")
  /\ exc' = "ProcessLaunchError"
  /\ UNCHANGED <<system, killOnClose, handles, histories>>

SetLimitFails ==
  /\ At("limit", "raised")
  /\ handles' = handles \ {"job"}
  /\ exc' = "ProcessLaunchError"
  /\ UNCHANGED <<system, killOnClose, histories>>

(* Mutant: CREATE_SUSPENDED is forgotten.                                  *)
LaunchRunning ==
  /\ At("create", "popen")
  /\ status' = [status EXCEPT ![Leader] = "alive"]
  /\ UNCHANGED <<members, killOnClose, handles, exc, histories>>

(* The process is there, and Popen has not returned.                       *)
Launch ==
  /\ At("create", "popen")
  /\ status' = [status EXCEPT ![Leader] = "suspended"]
  /\ UNCHANGED <<members, killOnClose, handles, exc, histories>>

LaunchFails ==
  /\ At("create", "close")
  /\ exc' = "ProcessLaunchError"
  /\ UNCHANGED <<system, killOnClose, handles, histories>>

Bind == Goes("popen", "open")
-----------------------------------------------------------------------------
(* attach_and_resume, and the rest of the setup.                           *)

OpenProcess ==
  /\ At("open", "assign")
  /\ handles' = handles \cup {"process"}
  /\ UNCHANGED <<system, killOnClose, exc, histories>>

Assign ==
  /\ At("assign", "snapshot")
  /\ members' = members \cup {Leader}
  /\ handles' = handles \ {"process"}
  /\ UNCHANGED <<status, killOnClose, exc, histories>>

Snapshot ==
  /\ At("snapshot", "threads")
  /\ handles' = handles \cup {"snapshot"}
  /\ UNCHANGED <<system, killOnClose, exc, histories>>

OpenThread ==
  /\ At("threads", "resume")
  /\ handles' = handles \cup {"thread"}
  /\ UNCHANGED <<system, killOnClose, exc, histories>>

Resume ==
  /\ At("resume", "setup")
  /\ status' = [status EXCEPT ![Leader] = "alive"]
  /\ handles' = handles \ {"thread", "snapshot"}
  /\ UNCHANGED <<members, killOnClose, exc, histories>>

(* Each of the five calls can fail, or no thread be found; the event and   *)
(* the captures come after them.  The finally clauses close what was open. *)
AttachFails ==
  /\ pc \in {"open", "assign", "snapshot", "threads", "resume", "setup"}
  /\ pc' = "abort" /\ exc' = "ProcessLaunchError"
  /\ handles' = handles \cap {"job"}
  /\ UNCHANGED <<system, killOnClose, histories>>

Setup == Goes("setup", "begin")

(* The except clause of the setup: poll, and kill what has not ended.      *)
Abort ==
  /\ At("abort", "terminate")
  /\ status' = Killed({Leader})
  /\ UNCHANGED <<members, killOnClose, handles, exc, histories>>

(* Between the two try statements.                                         *)
Begin == Goes("begin", "running")
-----------------------------------------------------------------------------
(* The loop, the end of the job and the drain.                             *)

(* The leader has ended or its time has passed.                            *)
Leave == Goes("running", "terminate")

(* TerminateJobObject.                                                     *)
Terminate ==
  /\ At("terminate", "query")
  /\ status' = Killed(members)
  /\ UNCHANGED <<members, killOnClose, handles, exc, histories>>

(* Mutant: termination is taken for done once it was ordered.              *)
EmptiedAtOnce == Goes("query", "wait")

(* The accounting shows no active process.                                 *)
Emptied == Goes("query", "wait") /\ \A p \in members : status[p] = "dead"

(* process.wait; with an exception in flight this was the finally clause,  *)
(* or setup's.                                                             *)
Wait ==
  /\ Goes("wait", IF exc = None THEN "mark" ELSE "close")
  /\ status[Leader] = "dead"

Mark == Goes("mark", "drain")
Drain == Goes("drain", "close")

(* WindowsJob.close: the last handle, and with it the last member.         *)
Close ==
  /\ At("close", IF exc = None THEN "returned" ELSE "raised")
  /\ handles' = handles \ {"job"}
  /\ status' = AfterClose
  /\ UNCHANGED <<members, killOnClose, exc, histories>>
-----------------------------------------------------------------------------
(* Where an exception leads: into the cleanup of setup, into the finally   *)
(* clause, from there to closing the job, or out.                          *)
Unwind ==
  CASE pc \in {"open", "assign", "snapshot", "threads", "resume", "setup"} -> "abort"
    [] pc \in {"running", "terminate", "query", "wait", "mark"} /\ exc = None -> "terminate"
    [] pc \in {"start", "limit", "begin", "close"} -> "raised"
    [] OTHER -> "close"

(* A read, process.kill, TerminateJobObject, the query or its deadline, or *)
(* the wait for the leader fails.                                          *)
Fails ==
  /\ \/ pc \in {"running", "abort", "terminate", "query", "drain"}
     \/ pc = "wait" /\ status[Leader] # "dead"
  /\ pc' = Unwind /\ exc' = "ProcessError"
  /\ UNCHANGED <<system, killOnClose, handles, histories>>

(* The handle that is open and not yet owned by a try statement, or whose  *)
(* owner is not going to run, if the program is interrupted at a point.    *)
Fresh(point) ==
  CASE point \in {"limit", "begin", "close"} -> {"job"}
    [] point = "assign" -> {"process"}
    [] point = "threads" -> {"snapshot"}
    [] point = "resume" -> {"thread"}
    [] OTHER -> {}

Interrupt ==
  /\ ~Ended /\ interrupts < MaxInterrupts
  /\ interrupts' = interrupts + 1
  /\ struck' = struck \cup {pc}
  /\ pc' = Unwind /\ exc' = "KeyboardInterrupt"
  /\ handles' \in {handles \cap {"job"}, handles \cap ({"job"} \cup Fresh(pc))}
  /\ UNCHANGED <<system, killOnClose>>

(* The interpreter is killed: the system closes its handles.               *)
Crash ==
  /\ ~Ended
  /\ pc' = "crashed" /\ handles' = {}
  /\ status' = AfterClose
  /\ UNCHANGED <<members, killOnClose, exc, histories>>

Runner ==
  \/ StartFails \/ CreateJob \/ SetLimit \/ SetLimitFails \/ Launch \/ LaunchFails \/ Bind
  \/ OpenProcess \/ Assign \/ Snapshot \/ OpenThread \/ Resume \/ AttachFails
  \/ Setup \/ Abort \/ Begin \/ Leave \/ Terminate \/ Emptied \/ Wait \/ Mark \/ Drain
  \/ Close \/ Fails

Done == Ended /\ UNCHANGED vars

Next == Runner \/ Interrupt \/ Crash \/ Command \/ Done

Spec == Init /\ [][Next]_vars
-----------------------------------------------------------------------------
(* Every variable holds a value of its kind.                               *)
TypeOK ==
  /\ status \in [Processes -> {"unborn", "suspended", "alive", "dying", "dead"}]
  /\ members \subseteq Processes /\ killOnClose \in BOOLEAN
  /\ handles \subseteq {"job", "process", "snapshot", "thread"}
  /\ pc \in Points /\ exc \in {None} \cup ExceptionsOfRun
  /\ struck \subseteq Points /\ interrupts \in 0..MaxInterrupts

(* At no time, whatever has failed, does a process of the command run that *)
(* the job does not own.                                                   *)
OnlyOwnedRun == \A p \in Processes : status[p] = "alive" => p \in members

(* However the call ends, and if the interpreter is killed, nothing goes   *)
(* on running: not after a cleanup that failed, not after an interrupt,    *)
(* unless it fell between the two try statements or kept the last finally  *)
(* clause from closing the job.                                            *)
NobodyOutlives ==
  Ended /\ struck \cap {"begin", "close"} = {} =>
    \A p \in Processes : status[p] # "alive"

(* A result means that every process the command ever started has ended; a *)
(* launch error, that none was started or it has ended, never that one is  *)
(* left behind suspended.                                                  *)
EndIsAsReported ==
  /\ pc = "returned" => \A p \in Processes : status[p] \in {"unborn", "dead"}
  /\ pc = "raised" /\ exc = "ProcessLaunchError" => status[Leader] \in {"unborn", "dead"}

(* A handle stays open only if an interrupt fell right after it was opened *)
(* or (the job) where no clause closes it; failures of the system's calls  *)
(* never cost one.                                                         *)
HandlesClosed ==
  Ended => \A h \in handles : \E point \in struck : h \in Fresh(point)
=============================================================================
