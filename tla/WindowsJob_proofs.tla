-------------------------- MODULE WindowsJob_proofs --------------------------
(***************************************************************************)
(* What the job object guarantees, for any number of processes and of      *)
(* interrupts, whichever calls of the system fail and whenever the         *)
(* interpreter is killed.                                                  *)
(***************************************************************************)
EXTENDS WindowsJob, TLAPS

Setups == {"open", "assign", "snapshot", "threads", "resume", "setup"}

(* Up to some point there is no exception, or there is one.                *)
ControlInv ==
  /\ pc \in {"start", "limit", "create", "popen", "begin", "running", "mark", "drain",
             "returned"} \cup Setups => exc = None
  /\ pc \in {"abort", "raised"} => exc # None

(* What runs belongs to the job, what descends from it too; before there   *)
(* is a process there is nothing, and afterwards the job has its limit.    *)
OwnerInv ==
  /\ OnlyOwnedRun
  /\ \A p \in Descendants : p \notin members => status[p] = "unborn"
  /\ ~killOnClose \/ pc = "create" =>
       members = {} /\ \A p \in Processes : status[p] = "unborn"
  /\ pc \in {"create", "popen"} \cup Setups => killOnClose
  /\ pc \in {"start", "limit"} => ~killOnClose
  /\ pc \in {"snapshot", "threads", "resume", "setup", "begin", "running", "mark", "drain"}
       => Leader \in members
  /\ pc \in {"terminate", "query", "wait", "close", "returned"} /\ exc = None
       => Leader \in members

(* What has ended when.                                                    *)
Gone(ps) == \A p \in ps : status[p] = "dead"

EndInv ==
  /\ NobodyOutlives
  /\ EndIsAsReported
  /\ pc = "wait" => Gone(members)
  /\ pc \in {"mark", "drain"} \/ (pc = "close" /\ exc = None) => Gone(members)
  /\ pc = "close" /\ exc = "ProcessLaunchError" => status[Leader] \in {"unborn", "dead"}

(* The handles that are open at a point, but for those lost to interrupts. *)
Expected ==
  CASE pc = "assign" -> {"job", "process"}
    [] pc = "threads" -> {"job", "snapshot"}
    [] pc = "resume" -> {"job", "snapshot", "thread"}
    [] pc \in {"start", "returned", "raised", "crashed"} -> {}
    [] OTHER -> {"job"}

Lost(h) == \E point \in struck : h \in Fresh(point)

HandleInv == \A h \in handles : h \in Expected \/ Lost(h)

JobInv == TypeOK /\ ControlInv /\ OwnerInv /\ EndInv /\ HandleInv
-----------------------------------------------------------------------------
LEMMA InitInv == Init => JobInv
<1> SUFFICES ASSUME Init PROVE JobInv
  OBVIOUS
<1> USE JobAssumption DEF Init, Processes
<1>1. TypeOK
  <2>1. killOnClose \in BOOLEAN
    OBVIOUS
  <2>2. interrupts \in 0..MaxInterrupts
    BY DEF JobAssumption
  <2>3. status \in [Processes -> {"unborn", "suspended", "alive", "dying", "dead"}]
    OBVIOUS
  <2> QED
    BY <2>1, <2>2, <2>3 DEF TypeOK, Points
<1>2. ControlInv /\ HandleInv
  BY DEF ControlInv, HandleInv, Setups
<1>3. OwnerInv
  BY DEF OwnerInv, OnlyOwnedRun, Setups
<1>4. EndInv
  BY DEF EndInv, NobodyOutlives, EndIsAsReported, Ended
<1> QED
  BY <1>1, <1>2, <1>3, <1>4 DEF JobInv

LEMMA TypeStep == TypeOK /\ [Next]_vars => TypeOK'
<1> SUFFICES ASSUME TypeOK, [Next]_vars PROVE TypeOK'
  OBVIOUS
<1> USE JobAssumption DEF TypeOK, Processes, Killed, AfterClose, At, Goes, system, histories
<1>1. CASE Command
  BY <1>1 DEF Command
<1>2. CASE StartFails \/ CreateJob \/ SetLimit \/ SetLimitFails \/ Launch \/ LaunchFails \/ Bind
  BY <1>2 DEF StartFails, CreateJob, SetLimit, SetLimitFails, Launch, LaunchFails, Bind,
              Points, ExceptionsOfRun
<1>3. CASE OpenProcess \/ Assign \/ Snapshot \/ OpenThread \/ Resume \/ AttachFails
  BY <1>3 DEF OpenProcess, Assign, Snapshot, OpenThread, Resume, AttachFails, Points,
              ExceptionsOfRun
<1>4. CASE Setup \/ Abort \/ Begin \/ Leave \/ Terminate \/ Emptied \/ Wait \/ Mark \/ Drain
  BY <1>4 DEF Setup, Abort, Begin, Leave, Terminate, Emptied, Wait, Mark, Drain, Points
<1>5. CASE Close
  BY <1>5 DEF Close, Points
<1>6. CASE Fails
  BY <1>6 DEF Fails, Unwind, Points, ExceptionsOfRun
<1>7. CASE Interrupt
  <2>1. interrupts' \in 0..MaxInterrupts /\ struck' \subseteq Points
    BY <1>7 DEF Interrupt
  <2>2. pc' \in Points
    BY <1>7 DEF Interrupt, Unwind, Points
  <2> QED
    BY <1>7, <2>1, <2>2 DEF Interrupt, ExceptionsOfRun
<1>8. CASE Crash
  BY <1>8 DEF Crash, Points
<1>9. CASE UNCHANGED vars
  BY <1>9 DEF vars
<1> QED
  BY <1>1, <1>2, <1>3, <1>4, <1>5, <1>6, <1>7, <1>8, <1>9 DEF Next, Runner, Done

LEMMA ControlStep == TypeOK /\ ControlInv /\ [Next]_vars => ControlInv'
<1> SUFFICES ASSUME TypeOK, ControlInv, [Next]_vars PROVE ControlInv'
  OBVIOUS
<1> USE JobAssumption DEF ControlInv, Setups, At, Goes, ExceptionsOfRun
<1>1. CASE Command \/ UNCHANGED vars
  BY <1>1 DEF Command, vars
<1>2. CASE StartFails \/ CreateJob \/ SetLimit \/ SetLimitFails \/ Launch \/ LaunchFails \/ Bind
  BY <1>2 DEF StartFails, CreateJob, SetLimit, SetLimitFails, Launch, LaunchFails, Bind
<1>3. CASE OpenProcess \/ Assign \/ Snapshot \/ OpenThread \/ Resume \/ AttachFails
  BY <1>3 DEF OpenProcess, Assign, Snapshot, OpenThread, Resume, AttachFails
<1>4. CASE Setup \/ Abort \/ Begin \/ Leave \/ Terminate \/ Emptied \/ Wait \/ Mark \/ Drain
  BY <1>4 DEF Setup, Abort, Begin, Leave, Terminate, Emptied, Wait, Mark, Drain
<1>5. CASE Close \/ Crash
  BY <1>5 DEF Close, Crash
<1>6. CASE Fails \/ Interrupt
  BY <1>6 DEF Fails, Interrupt, Unwind
<1> QED
  BY <1>1, <1>2, <1>3, <1>4, <1>5, <1>6 DEF Next, Runner, Done

LEMMA OwnerStep == TypeOK /\ ControlInv /\ OwnerInv /\ [Next]_vars => OwnerInv'
<1> SUFFICES ASSUME TypeOK, ControlInv, OwnerInv, [Next]_vars PROVE OwnerInv'
  OBVIOUS
<1> USE JobAssumption DEF TypeOK, OwnerInv, OnlyOwnedRun, Processes, Killed, AfterClose, At, Goes,
                          Setups, system, histories
<1>1. CASE Command
  BY <1>1 DEF Command
<1>2. CASE StartFails \/ CreateJob \/ SetLimit \/ SetLimitFails \/ Launch \/ LaunchFails \/ Bind
  BY <1>2 DEF StartFails, CreateJob, SetLimit, SetLimitFails, Launch, LaunchFails, Bind,
              ExceptionsOfRun
<1>3. CASE OpenProcess \/ Assign \/ Snapshot \/ OpenThread \/ Resume \/ AttachFails
  BY <1>3 DEF OpenProcess, Assign, Snapshot, OpenThread, Resume, AttachFails, ExceptionsOfRun
<1>4. CASE Setup \/ Abort \/ Begin \/ Leave
  BY <1>4 DEF Setup, Abort, Begin, Leave, ControlInv, ExceptionsOfRun
<1>5. CASE Terminate \/ Emptied \/ Wait \/ Mark \/ Drain
  BY <1>5 DEF Terminate, Emptied, Wait, Mark, Drain
<1>6. CASE Close \/ Crash
  BY <1>6 DEF Close, Crash
<1>7. CASE Fails \/ Interrupt
  BY <1>7 DEF Fails, Interrupt, Unwind, ExceptionsOfRun
<1>8. CASE UNCHANGED vars
  BY <1>8 DEF vars
<1> QED
  BY <1>1, <1>2, <1>3, <1>4, <1>5, <1>6, <1>7, <1>8 DEF Next, Runner, Done

LEMMA EndStep == TypeOK /\ ControlInv /\ OwnerInv /\ EndInv /\ [Next]_vars => EndInv'
<1> SUFFICES ASSUME TypeOK, ControlInv, OwnerInv, EndInv, [Next]_vars PROVE EndInv'
  OBVIOUS
<1> USE JobAssumption DEF TypeOK, OwnerInv, OnlyOwnedRun, EndInv, NobodyOutlives, EndIsAsReported,
                          Gone, Ended, Processes, Killed, AfterClose, At, Goes, system, histories
<1>1. CASE Command
  BY <1>1 DEF Command
<1>2. CASE StartFails \/ CreateJob \/ SetLimit \/ SetLimitFails \/ Launch \/ LaunchFails \/ Bind
  BY <1>2 DEF StartFails, CreateJob, SetLimit, SetLimitFails, Launch, LaunchFails, Bind
<1>3. CASE OpenProcess \/ Assign \/ Snapshot \/ OpenThread \/ Resume \/ AttachFails
  BY <1>3 DEF OpenProcess, Assign, Snapshot, OpenThread, Resume, AttachFails
<1>4. CASE Setup \/ Abort \/ Begin \/ Leave
  BY <1>4 DEF Setup, Abort, Begin, Leave
<1>5. CASE Terminate \/ Emptied \/ Wait \/ Mark \/ Drain
  BY <1>5 DEF Terminate, Emptied, Wait, Mark, Drain
<1>6. CASE Close
  BY <1>6 DEF Close, ControlInv
<1>7. CASE Crash
  BY <1>7 DEF Crash
<1>8. CASE Fails
  BY <1>8 DEF Fails, Unwind, ExceptionsOfRun
<1>9. CASE Interrupt
  BY <1>9 DEF Interrupt, Unwind, ExceptionsOfRun
<1>10. CASE UNCHANGED vars
  BY <1>10 DEF vars
<1> QED
  BY <1>1, <1>2, <1>3, <1>4, <1>5, <1>6, <1>7, <1>8, <1>9, <1>10 DEF Next, Runner, Done

LEMMA HandleStep == TypeOK /\ HandleInv /\ [Next]_vars => HandleInv'
<1> SUFFICES ASSUME TypeOK, HandleInv, [Next]_vars PROVE HandleInv'
  OBVIOUS
<1> USE DEF HandleInv, Expected, Lost, At, Goes, histories
<1>1. CASE Command \/ UNCHANGED vars
  BY <1>1 DEF Command, vars
<1>2. CASE StartFails \/ CreateJob \/ SetLimit \/ SetLimitFails \/ Launch \/ LaunchFails \/ Bind
  BY <1>2 DEF StartFails, CreateJob, SetLimit, SetLimitFails, Launch, LaunchFails, Bind
<1>3. CASE OpenProcess \/ Assign \/ Snapshot \/ OpenThread \/ Resume \/ AttachFails
  BY <1>3 DEF OpenProcess, Assign, Snapshot, OpenThread, Resume, AttachFails
<1>4. CASE Setup \/ Abort \/ Begin \/ Leave \/ Terminate \/ Emptied \/ Wait \/ Mark \/ Drain
  BY <1>4 DEF Setup, Abort, Begin, Leave, Terminate, Emptied, Wait, Mark, Drain
<1>5. CASE Close \/ Crash
  BY <1>5 DEF Close, Crash
<1>6. CASE Fails
  BY <1>6 DEF Fails, Unwind
<1>7. CASE Interrupt
  <2>1. struck' = struck \cup {pc}
    BY <1>7 DEF Interrupt
  <2>2. \A h : Lost(h) \/ h \in Fresh(pc) => Lost(h)'
    BY <2>1
  <2> SUFFICES ASSUME NEW h \in handles' PROVE h \in Expected' \/ h \in Fresh(pc) \/ Lost(h)
    BY <2>2
  <2>3. h \in handles /\ (h = "job" \/ h \in Fresh(pc))
    BY <1>7 DEF Interrupt
  <2>4. CASE h = "job"
    BY <1>7, <2>3, <2>4 DEF Interrupt, Unwind, Fresh, Ended
  <2> QED
    BY <2>3, <2>4
<1> QED
  BY <1>1, <1>2, <1>3, <1>4, <1>5, <1>6, <1>7 DEF Next, Runner, Done

LEMMA JobInvAlways == Spec => []JobInv
<1>1. JobInv /\ [Next]_vars => JobInv'
  BY TypeStep, ControlStep, OwnerStep, EndStep, HandleStep DEF JobInv
<1> QED
  BY <1>1, InitInv, PTL DEF Spec
-----------------------------------------------------------------------------
(* Every variable of the call keeps its type.                              *)
THEOREM TypeCorrect == Spec => []TypeOK
BY JobInvAlways, PTL DEF JobInv

(* No process of the command ever runs outside the job.                    *)
THEOREM NothingRunsUnowned == Spec => []OnlyOwnedRun
BY JobInvAlways, PTL DEF JobInv, OwnerInv

(* Nothing runs once the call has ended, in whatever way, but for          *)
(* interrupts at two points.                                               *)
THEOREM NothingSurvives == Spec => []NobodyOutlives
BY JobInvAlways, PTL DEF JobInv, EndInv

(* A result and a launch error mean what they say of the processes.        *)
THEOREM EndsAreHonest == Spec => []EndIsAsReported
BY JobInvAlways, PTL DEF JobInv, EndInv

(* Only interrupts cost handles.                                           *)
THEOREM HandlesAreReturned == Spec => []HandlesClosed
<1>1. HandleInv => HandlesClosed
  BY DEF HandleInv, HandlesClosed, Expected, Lost, Ended
<1> QED
  BY <1>1, JobInvAlways, PTL DEF JobInv
=============================================================================
