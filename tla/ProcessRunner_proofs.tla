------------------------ MODULE ProcessRunner_proofs ------------------------
(***************************************************************************)
(* What a call of ProcessRunner.run guarantees for any number of           *)
(* descendants, any limits, pipe capacity and batch, and any number of     *)
(* interrupts: the output it calls complete is complete, the process group *)
(* is gone, exit codes are honest, and a cancelled capture cleans up.      *)
(***************************************************************************)
EXTENDS ProcessCall, SequenceTheorems, TLAPS

USE RunnerAssumption

(* The type invariant by the part of the state it is about.                *)
SystemType ==
  /\ status \in [Processes -> {"unborn", "alive", "dying", "dead"}]
  /\ group \subseteq Processes /\ fds \in [Processes -> SUBSET Streams]
  /\ code \in {None, "own", "killed"}

OutputType ==
  /\ pipe \in [Streams -> 0..Capacity]
  /\ written \in [Streams -> Nat] /\ data \in [Streams -> Nat]
  /\ \A s \in Streams : written[s] <= Limit(s) + 1 /\ data[s] <= Limit(s)

CaptureType ==
  truncated \in [Streams -> BOOLEAN] /\ eof \in [Streams -> BOOLEAN]

FlowType ==
  /\ pc \in Points /\ struck \in Points \cup {None, "cleanup"}
  /\ exc \in {None} \cup ExceptionsOfRun
  /\ turn \in Streams /\ reads \in 0..Batch
  /\ returncode \in {None, "own", "killed"}
  /\ interrupts \in 0..MaxInterrupts

FlagType == timed_out \in BOOLEAN /\ cleaned \in BOOLEAN /\ late \in BOOLEAN

LEMMA TypeParts ==
  TypeOK <=> SystemType /\ OutputType /\ CaptureType /\ FlowType /\ FlagType
BY Zenon DEF TypeOK, SystemType, OutputType, CaptureType, FlowType, FlagType

LEMMA LimitType == \A s \in Streams : Limit(s) \in Nat
BY DEF Limit

LEMMA TypeInit == Init => TypeOK
<1> SUFFICES ASSUME Init PROVE TypeOK
  OBVIOUS
<1>1. SystemType
  BY DEF Init, SystemType
<1>2. OutputType
  BY LimitType DEF Init, OutputType
<1>3. CaptureType
  BY Zenon DEF Init, CaptureType
<1>4. FlowType
  BY DEF Init, FlowType, Points, Streams
<1>5. FlagType
  BY Zenon DEF Init, FlagType
<1> QED
  BY <1>1, <1>2, <1>3, <1>4, <1>5, TypeParts

(* The runner's steps that touch none of the processes.                    *)
Unsignalled ==
  \/ LaunchFails \/ Assign \/ Setup \/ SetupFails \/ Begin
  \/ SeeExit \/ StillRuns \/ InTime \/ Expire
  \/ ReadChunk \/ ReadEof \/ ReadNoMore
  \/ Wait \/ Mark \/ DrainOn \/ Drained \/ CutOff \/ Return
  \/ Fails \/ Interrupt

Signals == Launch \/ Abort \/ Kill

LEMMA Steps ==
  [Next]_vars => Unsignalled \/ Signals \/ Command \/ Time \/ UNCHANGED vars
BY Zenon DEF Next, Runner, Unsignalled, Signals, Done

LEMMA UnsignalledSystem == Unsignalled => UNCHANGED system
BY DEF Unsignalled, World, LaunchFails, Assign, Setup, SetupFails, Begin, SeeExit,
       StillRuns, InTime, Expire, ReadChunk, ReadEof, ReadNoMore, Wait, Mark, DrainOn,
       Drained, CutOff, Return, Fails, Interrupt

LEMMA SystemTypeStep == SystemType /\ [Next]_vars => SystemType'
<1> SUFFICES ASSUME SystemType, [Next]_vars PROVE SystemType'
  OBVIOUS
<1>1. CASE UNCHANGED system
  BY <1>1 DEF SystemType, system
<1>2. CASE Launch
  BY <1>2 DEF SystemType, Launch, Processes
<1>3. CASE Abort
  BY <1>3 DEF SystemType, Abort
<1>4. CASE Kill
  BY <1>4 DEF SystemType, Kill
<1>5. CASE Command /\ ~UNCHANGED system
  <2>1. CASE \E p \in Processes, q \in Descendants : Fork(p, q)
    BY <2>1 DEF SystemType, Fork, Processes
  <2>2. CASE \E p \in Descendants : Detach(p)
    BY <2>2 DEF SystemType, Detach
  <2>3. CASE \E p \in Processes, s \in Streams : CloseStream(p, s)
    BY <2>3 DEF SystemType, CloseStream
  <2>4. CASE \E p \in Processes : End(p)
    BY <2>4 DEF SystemType, End
  <2> QED
    BY <1>5, <2>1, <2>2, <2>3, <2>4 DEF Command
<1> QED
  BY <1>1, <1>2, <1>3, <1>4, <1>5, Steps, UnsignalledSystem DEF Signals, Time, vars

LEMMA OutputTypeStep ==
  OutputType /\ turn \in Streams /\ [Next]_vars => OutputType'
<1> SUFFICES ASSUME OutputType, turn \in Streams, [Next]_vars PROVE OutputType'
  OBVIOUS
<1>1. CASE UNCHANGED <<pipe, written, data>>
  BY <1>1 DEF OutputType, Limit
<1>2. CASE ReadChunk
  BY <1>2, LimitType DEF OutputType, ReadChunk
<1>3. CASE Command
  <2>1. CASE \E p \in Processes, s \in Streams : Write(p, s)
    <3>1. PICK p \in Processes, s \in Streams : Write(p, s)
      BY <2>1
    <3>2. UNCHANGED data
      BY <1>3 DEF Command, captures
    <3> QED
      BY <3>1, <3>2, LimitType DEF OutputType, Write
  <2> QED
    BY <1>1, <1>3, <2>1 DEF Command, captures, pipes
<1>4. CASE Unsignalled /\ ~ReadChunk
  BY <1>1, <1>4
  DEF Unsignalled, World, pipes, captures, LaunchFails, Assign, Setup, SetupFails, Begin,
      SeeExit, StillRuns, InTime, Expire, ReadEof, ReadNoMore, Wait, Mark, DrainOn,
      Drained, CutOff, Return, Fails, Interrupt
<1> QED
  BY <1>1, <1>2, <1>3, <1>4, Steps
  DEF Signals, Launch, Abort, Kill, Time, vars, pipes, captures

LEMMA CaptureTypeStep == CaptureType /\ [Next]_vars => CaptureType'
<1> SUFFICES ASSUME CaptureType, [Next]_vars PROVE CaptureType'
  OBVIOUS
<1>1. CASE UNCHANGED <<truncated, eof>>
  BY <1>1, Zenon DEF CaptureType
<1>2. CASE ReadChunk
  BY <1>2 DEF CaptureType, ReadChunk
<1>3. CASE ReadEof
  BY <1>3 DEF CaptureType, ReadEof
<1>4. CASE CutOff
  BY <1>4 DEF CaptureType, CutOff
<1>5. CASE Unsignalled /\ ~ReadChunk /\ ~ReadEof /\ ~CutOff
  BY <1>1, <1>5
  DEF Unsignalled, World, captures, LaunchFails, Assign, Setup, SetupFails, Begin,
      SeeExit, StillRuns, InTime, Expire, ReadNoMore, Wait, Mark, DrainOn,
      Drained, Return, Fails, Interrupt
<1> QED
  BY <1>1, <1>2, <1>3, <1>4, <1>5, Steps
  DEF Signals, Launch, Abort, Kill, Command, Time, vars, captures

LEMMA FlagTypeStep == FlagType /\ [Next]_vars => FlagType'
<1> SUFFICES ASSUME FlagType, [Next]_vars PROVE FlagType'
  OBVIOUS
<1>1. CASE UNCHANGED <<timed_out, cleaned, late>>
  BY <1>1, Zenon DEF FlagType
<1>2. CASE Expire
  BY <1>2, Zenon DEF FlagType, Expire
<1>3. CASE Mark
  BY <1>3, Zenon DEF FlagType, Mark
<1>4. CASE Time
  BY <1>4, Zenon DEF FlagType, Time, flags
<1>5. CASE Unsignalled /\ ~Expire /\ ~Mark
  BY <1>1, <1>5
  DEF Unsignalled, flags, LaunchFails, Assign, Setup, SetupFails, Begin,
      SeeExit, StillRuns, InTime, ReadChunk, ReadEof, ReadNoMore, Wait, DrainOn,
      Drained, CutOff, Return, Fails, Interrupt
<1> QED
  BY <1>1, <1>2, <1>3, <1>4, <1>5, Steps
  DEF Signals, Launch, Abort, Kill, Command, vars, flags

LEMMA FlowTypeStep ==
  FlowType /\ code \in {None, "own", "killed"} /\ [Next]_vars => FlowType'
<1> SUFFICES ASSUME FlowType, code \in {None, "own", "killed"}, [Next]_vars
             PROVE  FlowType'
  OBVIOUS
<1>1. CASE LaunchFails \/ Launch \/ Assign \/ Setup \/ SetupFails \/ Abort \/ Begin
  BY <1>1 DEF FlowType, LaunchFails, Launch, Assign, Setup, SetupFails, Abort, Begin, At,
              World, drained, flags, histories, Points, ExceptionsOfRun
<1>2. CASE SeeExit \/ StillRuns \/ InTime \/ Expire \/ Kill \/ Wait \/ Mark
  BY <1>2 DEF FlowType, SeeExit, StillRuns, InTime, Expire, Kill, Wait, Mark, At, StartDrain,
              World, drained, flags, histories, Points, Streams
<1>3. CASE ReadChunk \/ ReadEof \/ ReadNoMore
  BY <1>3 DEF FlowType, ReadChunk, ReadEof, ReadNoMore, MayRead, NextCapture,
              World, flags, histories, Points, Streams
<1>4. CASE DrainOn \/ Drained \/ CutOff \/ Return
  BY <1>4 DEF FlowType, DrainOn, Drained, CutOff, Return, At, StartDrain,
              World, drained, flags, histories, Points, Streams
<1>5. CASE Fails \/ Interrupt
  BY <1>5 DEF FlowType, Fails, Interrupt, Unwind,
              World, drained, flags, histories, Points, ExceptionsOfRun
<1>6. CASE Command \/ Time \/ UNCHANGED vars
  BY <1>6 DEF FlowType, Command, Time, vars, drained, flags, histories
<1> QED
  BY <1>1, <1>2, <1>3, <1>4, <1>5, <1>6, Steps DEF Unsignalled, Signals

(* Whatever the command does and wherever interrupts fall, the variables   *)
(* keep their types and no capture exceeds its limit.                      *)
THEOREM TypeCorrect == Spec => []TypeOK
<1>1. TypeOK /\ [Next]_vars => TypeOK'
  <2> SUFFICES ASSUME TypeOK, [Next]_vars PROVE TypeOK'
    OBVIOUS
  <2>1. SystemType /\ OutputType /\ CaptureType /\ FlowType /\ FlagType
    BY TypeParts
  <2>2. turn \in Streams /\ code \in {None, "own", "killed"}
    BY <2>1 DEF FlowType, SystemType
  <2>3. (SystemType /\ OutputType /\ CaptureType /\ FlowType /\ FlagType)'
    BY <2>1, <2>2, SystemTypeStep, OutputTypeStep, CaptureTypeStep, FlowTypeStep, FlagTypeStep
  <2> QED
    BY <2>3, Zenon DEF TypeOK, SystemType, OutputType, CaptureType, FlowType, FlagType
<1> QED
  BY <1>1, TypeInit, PTL DEF Spec
-----------------------------------------------------------------------------
(* Where an exception can be in flight, and how far the cleanup is.        *)
ControlInv ==
  /\ pc \in {"launch", "popen", "setup", "begin", "poll", "read", "clock",
            "mark", "drain", "result", "returned"} => exc = None
  /\ pc = "abort" => exc # None
  /\ pc \in {"drain", "result", "returned"} => cleaned
  /\ cleaned => pc \in {"drain", "read", "clock", "result", "returned", "raised"}

LEMMA ControlStep == TypeOK /\ ControlInv /\ [Next]_vars => ControlInv'
<1> SUFFICES ASSUME TypeOK, ControlInv, [Next]_vars PROVE ControlInv'
  OBVIOUS
<1> USE NoneAssumption DEF ExceptionsOfRun
<1>1. CASE LaunchFails \/ Launch \/ Assign \/ Setup \/ SetupFails \/ Abort \/ Begin
  BY <1>1 DEF ControlInv, LaunchFails, Launch, Assign, Setup, SetupFails, Abort, Begin, At, flags
<1>2. CASE SeeExit \/ StillRuns \/ InTime \/ Expire \/ Kill \/ Wait
  BY <1>2 DEF ControlInv, SeeExit, StillRuns, InTime, Expire, Kill, Wait, At, StartDrain, flags
<1>3. CASE ReadChunk \/ ReadEof \/ ReadNoMore
  BY <1>3 DEF ControlInv, ReadChunk, ReadEof, ReadNoMore, MayRead, NextCapture, flags
<1>4. CASE Mark \/ DrainOn \/ Drained \/ CutOff \/ Return
  BY <1>4 DEF ControlInv, Mark, DrainOn, Drained, CutOff, Return, At, StartDrain, flags
<1>5. CASE Fails \/ Interrupt
  BY <1>5 DEF ControlInv, Fails, Interrupt, Unwind, flags
<1>6. CASE Command \/ Time \/ UNCHANGED vars
  BY <1>6 DEF ControlInv, Command, Time, vars, flags
<1> QED
  BY <1>1, <1>2, <1>3, <1>4, <1>5, <1>6, Steps DEF Unsignalled, Signals

(* Once the group was signalled, none of it is alive: what is forked later *)
(* descends from a process that had left it.                               *)
Signalled ==
  cleaned \/ pc \in {"wait", "mark"} \/ (pc = "raised" /\ exc = "ProcessLaunchError")

GroupInv ==
  /\ pc = "launch" => group = {} /\ \A p \in Processes : status[p] = "unborn" /\ fds[p] = {}
  /\ \A p \in group : status[p] # "unborn"
  /\ Signalled => ~InGroupAlive

LEMMA CommandKeepsGroup ==
  ASSUME TypeOK, Command, \A p \in group : status[p] # "unborn"
  PROVE  /\ \A p \in group' : status'[p] # "unborn"
         /\ ~InGroupAlive => ~InGroupAlive'
<1> USE DEF InGroupAlive, TypeOK
<1>1. CASE \E p \in Processes, q \in Descendants : Fork(p, q)
  BY <1>1 DEF Fork, Processes
<1>2. CASE \E p \in Descendants : Detach(p)
  BY <1>2 DEF Detach
<1>3. CASE \E p \in Processes, s \in Streams : CloseStream(p, s)
  BY <1>3 DEF CloseStream
<1>4. CASE \E p \in Processes : End(p)
  BY <1>4 DEF End
<1>5. CASE UNCHANGED system
  BY <1>5 DEF system
<1> QED
  BY <1>1, <1>2, <1>3, <1>4, <1>5 DEF Command

LEMMA GroupStep == TypeOK /\ ControlInv /\ GroupInv /\ [Next]_vars => GroupInv'
<1> SUFFICES ASSUME TypeOK, ControlInv, GroupInv, [Next]_vars PROVE GroupInv'
  OBVIOUS
<1>1. CASE Command
  <2>1. pc # "launch"
    <3> SUFFICES ASSUME pc = "launch" PROVE FALSE
      OBVIOUS
    <3>1. \A p \in Processes : status[p] = "unborn" /\ fds[p] = {}
      BY DEF GroupInv
    <3> QED
      BY <1>1, <3>1 DEF Command, Fork, Detach, CloseStream, End, Write, Running, Processes
  <2>2. UNCHANGED <<pc, exc, cleaned>>
    BY <1>1 DEF Command, flags
  <2> QED
    BY <1>1, <2>1, <2>2, CommandKeepsGroup DEF GroupInv, Signalled
<1>2. CASE LaunchFails \/ Assign \/ Setup \/ SetupFails \/ Begin
  BY <1>2 DEF GroupInv, Signalled, InGroupAlive, LaunchFails, Assign, Setup, SetupFails, Begin,
              At, World, system, flags, ControlInv
<1>3. CASE Launch \/ Abort
  BY <1>3 DEF GroupInv, Signalled, ControlInv, TypeOK, Processes, Launch, Abort, At, flags
<1>4. CASE Kill
  BY <1>4 DEF GroupInv, Signalled, InGroupAlive, TypeOK, Kill, At
<1>5. CASE SeeExit \/ StillRuns \/ InTime \/ Expire \/ Wait \/ Mark
  BY <1>5 DEF GroupInv, Signalled, InGroupAlive, SeeExit, StillRuns, InTime, Expire, Wait, Mark,
              At, StartDrain, World, system, flags
<1>6. CASE ReadChunk \/ ReadEof \/ ReadNoMore
  BY <1>6 DEF GroupInv, Signalled, InGroupAlive, ReadChunk, ReadEof, ReadNoMore, MayRead,
              NextCapture, World, system, flags
<1>7. CASE DrainOn \/ Drained \/ CutOff \/ Return
  BY <1>7 DEF GroupInv, Signalled, InGroupAlive, DrainOn, Drained, CutOff, Return, At,
              StartDrain, World, system, flags
<1>8. CASE Fails \/ Interrupt
  BY <1>8 DEF GroupInv, Signalled, InGroupAlive, Fails, Interrupt, Unwind, World, system, flags
<1>9. CASE Time \/ UNCHANGED vars
  BY <1>9 DEF GroupInv, Signalled, InGroupAlive, Time, vars, system, flags
<1> QED
  BY <1>1, <1>2, <1>3, <1>4, <1>5, <1>6, <1>7, <1>8, <1>9, Steps DEF Unsignalled, Signals

(* How the leader ended, and what is known of it when.                     *)
ExitInv ==
  /\ cleaned \/ pc = "mark" => status[Leader] = "dead" /\ returncode = code
  /\ status[Leader] = "dead" => code \in {"own", "killed"}
  /\ exc = None /\ (status[Leader] = "dying" \/ code = "killed") => timed_out
  /\ pc = "kill" /\ exc = None => timed_out \/ status[Leader] = "dead"

LEMMA ExitStep == TypeOK /\ ControlInv /\ ExitInv /\ [Next]_vars => ExitInv'
<1> SUFFICES ASSUME TypeOK, ControlInv, ExitInv, [Next]_vars PROVE ExitInv'
  OBVIOUS
<1> USE NoneAssumption DEF ExceptionsOfRun
<1>1. CASE Command
  <2>1. UNCHANGED <<pc, exc, cleaned, returncode, timed_out>>
    BY <1>1 DEF Command, flags
  <2>2. CASE \E p \in Processes, q \in Descendants : Fork(p, q)
    BY <2>1, <2>2 DEF ExitInv, TypeOK, Fork, Processes
  <2>3. CASE \E p \in Descendants : Detach(p)
    BY <2>1, <2>3 DEF ExitInv, Detach
  <2>4. CASE \E p \in Processes, s \in Streams : CloseStream(p, s)
    BY <2>1, <2>4 DEF ExitInv, CloseStream
  <2>5. CASE \E p \in Processes : End(p)
    BY <2>1, <2>5 DEF ExitInv, TypeOK, End, Running, Processes
  <2>6. CASE UNCHANGED system
    BY <2>1, <2>6 DEF ExitInv, system
  <2> QED
    BY <1>1, <2>2, <2>3, <2>4, <2>5, <2>6 DEF Command
<1>2. CASE LaunchFails \/ Assign \/ Setup \/ SetupFails \/ Begin
  BY <1>2 DEF ExitInv, LaunchFails, Assign, Setup, SetupFails, Begin, At, World, system, flags
<1>3. CASE Launch \/ Abort
  BY <1>3 DEF ExitInv, ControlInv, TypeOK, Processes, Launch, Abort, At, flags
<1>4. CASE Kill
  BY <1>4 DEF ExitInv, ControlInv, TypeOK, Processes, Kill, At, flags
<1>5. CASE SeeExit \/ StillRuns \/ InTime \/ Expire \/ Wait \/ Mark
  BY <1>5 DEF ExitInv, ControlInv, SeeExit, StillRuns, InTime, Expire, Wait, Mark,
              At, StartDrain, World, system, flags
<1>6. CASE ReadChunk \/ ReadEof \/ ReadNoMore
  BY <1>6 DEF ExitInv, ReadChunk, ReadEof, ReadNoMore, MayRead, NextCapture,
              World, system, flags
<1>7. CASE DrainOn \/ Drained \/ CutOff \/ Return
  BY <1>7 DEF ExitInv, DrainOn, Drained, CutOff, Return, At, StartDrain, World, system, flags
<1>8. CASE Fails \/ Interrupt
  BY <1>8 DEF ExitInv, Fails, Interrupt, Unwind, World, system, flags
<1>9. CASE Time \/ UNCHANGED vars
  BY <1>9 DEF ExitInv, Time, vars, system, flags
<1> QED
  BY <1>1, <1>2, <1>3, <1>4, <1>5, <1>6, <1>7, <1>8, <1>9, Steps DEF Unsignalled, Signals

LEMMA CancelStep ==
  TypeOK /\ ControlInv /\ GroupInv /\ ExitInv /\ CancellationCleans /\ [Next]_vars
    => CancellationCleans'
<1> SUFFICES ASSUME TypeOK, ControlInv, GroupInv, ExitInv, CancellationCleans, [Next]_vars
             PROVE  CancellationCleans'
  OBVIOUS
<1> USE NoneAssumption DEF ExceptionsOfRun
<1>1. CASE Wait
  BY <1>1 DEF CancellationCleans, GroupInv, Signalled, InGroupAlive, Wait, At, World, system
<1>2. CASE Interrupt
  <2>1. CASE pc = "launch"
    BY <1>2, <2>1 DEF CancellationCleans, GroupInv, InGroupAlive, Interrupt, system, Processes
  <2>2. CASE exc = None /\ cleaned
    BY <1>2, <2>2 DEF CancellationCleans, GroupInv, Signalled, ExitInv, InGroupAlive,
                      Interrupt, system
  <2>3. CASE exc = None /\ ~cleaned /\ pc # "launch"
    BY <1>2, <2>3 DEF CancellationCleans, ControlInv, TypeOK, Points, Interrupt, Unwind, Finished
  <2>4. CASE exc # None
    BY <1>2, <2>4 DEF CancellationCleans, Interrupt
  <2> QED
    BY <2>1, <2>2, <2>3, <2>4
<1>3. CASE Fails \/ LaunchFails
  BY <1>3 DEF CancellationCleans, Fails, LaunchFails
<1>4. CASE Launch \/ Assign \/ Setup \/ SetupFails \/ Abort \/ Begin \/ SeeExit \/ StillRuns
           \/ InTime \/ Expire \/ Kill \/ Mark
  BY <1>4 DEF CancellationCleans, Launch, Assign, Setup, SetupFails, Abort, Begin, SeeExit,
              StillRuns, InTime, Expire, Kill, Mark, At, StartDrain
<1>5. CASE ReadChunk \/ ReadEof \/ ReadNoMore \/ DrainOn \/ Drained \/ CutOff \/ Return
  BY <1>5 DEF CancellationCleans, ReadChunk, ReadEof, ReadNoMore, MayRead, NextCapture,
              DrainOn, Drained, CutOff, Return, At, StartDrain
<1>6. CASE Command \/ Time \/ UNCHANGED vars
  <2>1. CASE Finished
    BY <1>6, <2>1 DEF CancellationCleans, InGroupAlive, Command, Time, vars, system, histories
  <2>2. CASE ~Finished
    BY <1>6, <2>2 DEF CancellationCleans, Finished, Command, Time, vars
  <2> QED
    BY <2>1, <2>2
<1> QED
  BY <1>1, <1>2, <1>3, <1>4, <1>5, <1>6, Steps DEF Unsignalled, Signals

CleanupInv == ControlInv /\ GroupInv /\ ExitInv /\ CancellationCleans

LEMMA CleanupInvariant == Spec => []CleanupInv
<1>1. Init => CleanupInv
  BY NoneAssumption DEF ExceptionsOfRun, Init, CleanupInv, ControlInv, GroupInv, Signalled, InGroupAlive, ExitInv,
         CancellationCleans, Processes
<1>2. TypeOK /\ CleanupInv /\ [Next]_vars => CleanupInv'
  BY ControlStep, GroupStep, ExitStep, CancelStep DEF CleanupInv
<1> QED
  BY <1>1, <1>2, TypeCorrect, PTL DEF Spec

(* A call that returns, or reports a failed launch, leaves no process of   *)
(* the command's group that was not sent SIGKILL.                          *)
THEOREM GroupEnds == Spec => []GroupIsGone
<1>1. CleanupInv => GroupIsGone
  BY DEF CleanupInv, ControlInv, GroupInv, Signalled, GroupIsGone
<1> QED
  BY <1>1, CleanupInvariant, PTL

(* A result's exit code is the leader's own, unless it says timed out.     *)
THEOREM ExitIsHonest == Spec => []ExitCodeIsHonest
<1>1. CleanupInv => ExitCodeIsHonest
  BY DEF CleanupInv, ControlInv, ExitInv, ExitCodeIsHonest
<1> QED
  BY <1>1, CleanupInvariant, PTL

(* An interrupt that reaches the caller from inside the try statements has *)
(* ended the group first, however many interrupts there are.               *)
THEOREM CancelEnds == Spec => []CancellationCleans
<1>1. CleanupInv => CancellationCleans
  BY DEF CleanupInv
<1> QED
  BY <1>1, CleanupInvariant, PTL
-----------------------------------------------------------------------------
(* What was written to a stream is retained or still in the pipe, as long  *)
(* as the capture is not marked truncated; written stops counting one      *)
(* beyond the limit.  Nothing follows an end of file.                      *)
Balanced(s) ==
  IF written[s] <= Limit(s) THEN data[s] + pipe[s] = written[s]
                            ELSE data[s] + pipe[s] > Limit(s)

(* Why a stream is marked truncated.                                       *)
Reason(s) ==
  truncated[s] =>
    written[s] > Limit(s) \/ (~eof[s] /\ pc \in {"result", "returned", "raised"})

OutputInv ==
  /\ pc = "launch" => \A s \in Streams : ~eof[s]
  /\ \A s \in Streams : eof[s] => pipe[s] = 0 /\ Holders(s) = {}
  /\ \A s \in Streams : truncated[s] \/ Balanced(s)
  /\ \A s \in Streams : Reason(s)
  /\ pc \in {"result", "returned"} => \A s \in Streams : truncated[s] \/ eof[s]

(* A stream nobody holds is not held again.                                *)
LEMMA HoldersStayGone ==
  ASSUME TypeOK, NEW s \in Streams, Holders(s) = {}, Command
  PROVE  Holders(s)' = {}
<1> USE DEF Holders, TypeOK
<1>1. CASE \E p \in Processes, q \in Descendants : Fork(p, q)
  BY <1>1 DEF Fork, Processes
<1>2. CASE \E p \in Descendants : Detach(p)
  BY <1>2 DEF Detach
<1>3. CASE \E p \in Processes, t \in Streams : CloseStream(p, t)
  BY <1>3 DEF CloseStream
<1>4. CASE \E p \in Processes : End(p)
  BY <1>4 DEF End
<1>5. CASE UNCHANGED system
  BY <1>5 DEF system
<1> QED
  BY <1>1, <1>2, <1>3, <1>4, <1>5 DEF Command

LEMMA WriteKeepsOutput ==
  ASSUME TypeOK, OutputInv, NEW p \in Processes, NEW s \in Streams, Write(p, s),
         UNCHANGED <<data, truncated, eof>>
  PROVE  \A t \in Streams : /\ eof[t] => pipe'[t] = 0
                            /\ truncated[t] \/ Balanced(t)'
                            /\ written[t] > Limit(t) => written'[t] > Limit(t)
<1>1. ~eof[s]
  BY DEF OutputInv, Write, Holders
<1>2. \A t \in Streams : truncated[t] \/ Balanced(t)
  BY DEF OutputInv
<1>3. \A t \in Streams : t # s => pipe'[t] = pipe[t] /\ written'[t] = written[t]
  BY DEF Write, TypeOK
<1>4. pipe'[s] = pipe[s] + 1 /\ written'[s] = IF written[s] > Limit(s) THEN written[s]
                                                                     ELSE written[s] + 1
  BY DEF Write, TypeOK
<1>5. written[s] \in Nat /\ written[s] <= Limit(s) + 1 /\ Limit(s) \in Nat
      /\ data[s] \in Nat /\ pipe[s] \in Nat /\ data'[s] = data[s]
  BY LimitType DEF TypeOK
<1>6. Balanced(s) => Balanced(s)'
  BY <1>4, <1>5 DEF Balanced, Limit
<1>7. \A t \in Streams : t # s => Balanced(t)' = Balanced(t)
  BY <1>3 DEF Balanced, Limit
<1>8. \A t \in Streams : written[t] > Limit(t) => written'[t] > Limit(t)
  BY <1>3, <1>4
<1> QED
  BY <1>1, <1>2, <1>3, <1>6, <1>7, <1>8 DEF OutputInv

LEMMA CommandKeepsOutput == TypeOK /\ OutputInv /\ Command => OutputInv'
<1> SUFFICES ASSUME TypeOK, OutputInv, Command PROVE OutputInv'
  OBVIOUS
<1>1. UNCHANGED <<pc, data, truncated, eof>>
  BY DEF Command, captures
<1>2. pc # "launch" \/ \A s \in Streams : ~eof[s]
  BY DEF OutputInv
<1>3. \A s \in Streams : Holders(s) = {} => Holders(s)' = {}
  BY HoldersStayGone
<1>4. \A s \in Streams : /\ eof[s] => pipe'[s] = 0
                         /\ truncated[s] \/ Balanced(s)'
                         /\ written[s] > Limit(s) => written'[s] > Limit(s)
  <2>1. CASE \E p \in Processes, s \in Streams : Write(p, s)
    BY <1>1, <2>1, WriteKeepsOutput
  <2>2. CASE UNCHANGED pipes
    BY <1>1, <2>2 DEF OutputInv, Balanced, Limit, pipes
  <2> QED
    BY <2>1, <2>2 DEF Command
<1>5. \A s \in Streams : Reason(s)'
  BY <1>1, <1>4 DEF OutputInv, Reason, Limit
<1> QED
  BY <1>1, <1>3, <1>4, <1>5 DEF OutputInv

LEMMA ChunkKeepsOutput == TypeOK /\ OutputInv /\ ReadChunk => OutputInv'
<1> SUFFICES ASSUME TypeOK, OutputInv, ReadChunk PROVE OutputInv'
  OBVIOUS
<1>1. pc = "read" /\ pc' = "read" /\ ~eof[turn] /\ turn \in Streams
  BY DEF ReadChunk, MayRead, TypeOK
<1>2. UNCHANGED <<system, written, eof, turn>>
  BY DEF ReadChunk
<1>3. \A s \in Streams : Holders(s)' = Holders(s)
  BY <1>2 DEF Holders, system
<1>4. \A s \in Streams : s # turn =>
        /\ pipe'[s] = pipe[s] /\ data'[s] = data[s] /\ truncated'[s] = truncated[s]
        /\ Balanced(s)' = Balanced(s)
  BY <1>2 DEF ReadChunk, TypeOK, Balanced, Limit
<1>5. pipe'[turn] = 0
  BY <1>1 DEF ReadChunk, TypeOK
<1>6. truncated'[turn] \/ Balanced(turn)'
  <2> SUFFICES ASSUME ~truncated'[turn] PROVE Balanced(turn)'
    OBVIOUS
  <2>1. ~truncated[turn] /\ ~(pipe[turn] > Limit(turn) - data[turn])
    BY <1>1 DEF ReadChunk, TypeOK
  <2>2. pipe[turn] \in Nat /\ data[turn] \in Nat /\ Limit(turn) \in Nat /\ written[turn] \in Nat
    BY <1>1, LimitType DEF TypeOK
  <2>3. data'[turn] = data[turn] + pipe[turn]
    BY <1>1, <2>1, <2>2 DEF ReadChunk, TypeOK
  <2>4. Balanced(turn)
    BY <1>1, <2>1 DEF OutputInv
  <2> QED
    BY <1>2, <1>5, <2>2, <2>3, <2>4 DEF Balanced, Limit
<1>7. truncated'[turn] => written[turn] > Limit(turn)
  <2> SUFFICES ASSUME truncated'[turn] PROVE written[turn] > Limit(turn)
    OBVIOUS
  <2>1. truncated[turn] \/ pipe[turn] > Limit(turn) - data[turn]
    BY <1>1 DEF ReadChunk, TypeOK
  <2>2. truncated[turn] => written[turn] > Limit(turn)
    BY <1>1 DEF OutputInv, Reason
  <2>3. ~truncated[turn] => Balanced(turn)
    BY <1>1 DEF OutputInv
  <2>4. pipe[turn] \in Nat /\ data[turn] \in Nat /\ Limit(turn) \in Nat /\ written[turn] \in Nat
    BY <1>1, LimitType DEF TypeOK
  <2> QED
    BY <2>1, <2>2, <2>3, <2>4 DEF Balanced
<1>8. \A s \in Streams : Reason(s)'
  BY <1>1, <1>2, <1>4, <1>7 DEF OutputInv, Reason, Limit
<1> QED
  BY <1>1, <1>2, <1>3, <1>4, <1>5, <1>6, <1>8 DEF OutputInv, system

LEMMA OutputStep == TypeOK /\ OutputInv /\ [Next]_vars => OutputInv'
<1> SUFFICES ASSUME TypeOK, OutputInv, [Next]_vars PROVE OutputInv'
  OBVIOUS
<1> DEFINE Balance == \A s \in Streams : /\ Balanced(s)' = Balanced(s)
                                         /\ written'[s] > Limit(s) <=> written[s] > Limit(s)
<1> DEFINE Held == \A s \in Streams : Holders(s)' = Holders(s)
<1>1. UNCHANGED pipes /\ UNCHANGED data => Balance
  BY DEF Balanced, Limit, pipes
<1>2. UNCHANGED system => Held
  BY DEF Holders, system
<1>3. CASE Command
  BY <1>3, CommandKeepsOutput
<1>4. CASE ReadChunk
  BY <1>4, ChunkKeepsOutput
<1>5. CASE ReadEof
  BY <1>1, <1>2, <1>5
  DEF OutputInv, Reason, Limit, TypeOK, ReadEof, MayRead, NextCapture, World, pipes, system
<1>6. CASE CutOff
  BY <1>1, <1>2, <1>6 DEF OutputInv, Reason, Limit, TypeOK, CutOff, At, World, pipes, system
<1>7. CASE ReadNoMore \/ Drained \/ Return
  BY <1>1, <1>2, <1>7
  DEF OutputInv, Reason, Limit, ReadNoMore, NextCapture, Drained, Return, At, World, pipes, system, captures
<1>8. CASE LaunchFails \/ Assign \/ Setup \/ SetupFails \/ Begin \/ SeeExit \/ StillRuns
           \/ InTime \/ Expire \/ Wait \/ Mark \/ DrainOn
  BY <1>1, <1>2, <1>8
  DEF OutputInv, Reason, Limit, LaunchFails, Assign, Setup, SetupFails, Begin, SeeExit, StillRuns, InTime,
      Expire, Wait, Mark, DrainOn, At, StartDrain, World, pipes, system, captures
<1>9. CASE Fails \/ Interrupt
  BY <1>1, <1>2, <1>9
  DEF OutputInv, Reason, Limit, Fails, Interrupt, Unwind, World, pipes, system, captures
<1>10. CASE Time \/ UNCHANGED vars
  BY <1>1, <1>2, <1>10 DEF OutputInv, Reason, Limit, Time, vars, pipes, system, captures
<1>11. CASE Launch
  BY <1>1, <1>11 DEF OutputInv, Reason, Limit, TypeOK, Processes, Launch, At, pipes, captures
<1>12. CASE Abort \/ Kill
  <2>1. \A s \in Streams : Holders(s) = {} => Holders(s)' = {}
    BY <1>12 DEF OutputInv, Reason, Limit, TypeOK, Abort, Kill, At, Holders, Processes
  <2> QED
    BY <1>1, <1>12, <2>1 DEF OutputInv, Reason, Limit, Abort, Kill, At, pipes, captures
<1> QED
  BY <1>3, <1>4, <1>5, <1>6, <1>7, <1>8, <1>9, <1>10, <1>11, <1>12, Steps
  DEF Unsignalled, Signals

(* A result that does not call a stream truncated has everything anybody   *)
(* wrote to it, for any limits, capacities and number of writers.          *)
THEOREM OutputIsComplete == Spec => []OutputIsWhole
<1>1. Init => OutputInv
  BY LimitType DEF Init, OutputInv, Reason, Balanced, Holders
<1>2. TypeOK /\ OutputInv => OutputIsWhole
  <2> SUFFICES ASSUME TypeOK, OutputInv, pc = "returned", NEW s \in Streams
               PROVE  IF truncated[s] THEN ~eof[s] \/ written[s] > Limit(s)
                                      ELSE data[s] = written[s] /\ Holders(s) = {}
    BY DEF OutputIsWhole
  <2>1. CASE truncated[s]
    BY <2>1 DEF OutputInv, Reason
  <2>2. CASE ~truncated[s]
    <3>1. eof[s] /\ pipe[s] = 0 /\ Holders(s) = {} /\ Balanced(s)
      BY <2>2 DEF OutputInv
    <3>2. data[s] \in Nat /\ data[s] <= Limit(s) /\ Limit(s) \in Nat
      BY LimitType DEF TypeOK
    <3> QED
      BY <2>2, <3>1, <3>2 DEF Balanced
  <2> QED
    BY <2>1, <2>2
<1> QED
  BY <1>1, <1>2, OutputStep, TypeCorrect, PTL DEF Spec

-----------------------------------------------------------------------------
(***************************************************************************)
(* A call does what the task runner takes it for (ProcessCall): each step  *)
(* is a step of TaskRun, or one that TaskRun does not see.                 *)
(***************************************************************************)

(* What is known of the leader and the deadline, point by point.           *)
LeaderInv ==
  /\ pc = "launch" <=> (status[Leader] = "unborn" /\ pc # "raised")
  /\ returncode # None => status[Leader] = "dead" /\ returncode = code
  /\ pc \in {"launch", "popen", "setup", "begin", "abort", "poll"}
       => returncode = None /\ ~timed_out
  /\ pc \in {"read", "clock"} /\ ~cleaned => returncode = None /\ ~timed_out

LEMMA LeaderStep ==
  TypeOK /\ ControlInv /\ ExitInv /\ LeaderInv /\ [Next]_vars => LeaderInv'
<1> SUFFICES ASSUME TypeOK, ControlInv, ExitInv, LeaderInv, [Next]_vars PROVE LeaderInv'
  OBVIOUS
<1> USE NoneAssumption DEF ExceptionsOfRun
<1>1. CASE Command
  <2>1. UNCHANGED <<pc, exc, cleaned, returncode, timed_out>>
    BY <1>1 DEF Command, flags
  <2>2. CASE \E p \in Processes, q \in Descendants : Fork(p, q)
    BY <2>1, <2>2 DEF LeaderInv, TypeOK, Fork, Processes
  <2>3. CASE \E p \in Descendants : Detach(p)
    BY <2>1, <2>3 DEF LeaderInv, Detach
  <2>4. CASE \E p \in Processes, s \in Streams : CloseStream(p, s)
    BY <2>1, <2>4 DEF LeaderInv, CloseStream
  <2>5. CASE \E p \in Processes : End(p)
    BY <2>1, <2>5 DEF LeaderInv, TypeOK, End, Running, Processes
  <2>6. CASE UNCHANGED system
    BY <2>1, <2>6 DEF LeaderInv, system
  <2> QED
    BY <1>1, <2>2, <2>3, <2>4, <2>5, <2>6 DEF Command
<1>2. CASE LaunchFails \/ Assign \/ Setup \/ SetupFails \/ Begin
  BY <1>2 DEF LeaderInv, LaunchFails, Assign, Setup, SetupFails, Begin, At, World, system, flags
<1>3. CASE Launch
  BY <1>3 DEF LeaderInv, TypeOK, Processes, Launch, At, flags
<1>4. CASE Abort \/ Kill
  BY <1>4 DEF LeaderInv, ControlInv, TypeOK, Processes, Abort, Kill, At, flags
<1>5. CASE SeeExit \/ StillRuns \/ InTime \/ Expire
  BY <1>5 DEF LeaderInv, ControlInv, SeeExit, StillRuns, InTime, Expire, At, StartDrain,
              World, system, flags
<1>6. CASE Wait \/ Mark
  BY <1>6 DEF LeaderInv, ControlInv, Wait, Mark, At, World, system, flags
<1>7. CASE ReadChunk \/ ReadEof \/ ReadNoMore
  BY <1>7 DEF LeaderInv, ReadChunk, ReadEof, ReadNoMore, MayRead, NextCapture,
              World, system, flags
<1>8. CASE DrainOn \/ Drained \/ CutOff \/ Return
  BY <1>8 DEF LeaderInv, ControlInv, DrainOn, Drained, CutOff, Return, At, StartDrain,
              World, system, flags
<1>9. CASE Fails \/ Interrupt
  BY <1>9 DEF LeaderInv, ControlInv, TypeOK, Points, Fails, Interrupt, Unwind, Finished, World, system, flags
<1>10. CASE Time \/ UNCHANGED vars
  BY <1>10 DEF LeaderInv, Time, vars, system, flags
<1> QED
  BY <1>1, <1>2, <1>3, <1>4, <1>5, <1>6, <1>7, <1>8, <1>9, <1>10, Steps DEF Unsignalled, Signals

LeaderKnown == ControlInv /\ ExitInv /\ LeaderInv

LEMMA LeaderKnownAlways == Spec => []LeaderKnown
<1>1. Init => LeaderKnown
  BY NoneAssumption DEF ExceptionsOfRun, Init, LeaderKnown, ControlInv, ExitInv, LeaderInv, Processes
<1>2. TypeOK /\ LeaderKnown /\ [Next]_vars => LeaderKnown'
  BY ControlStep, ExitStep, LeaderStep DEF LeaderKnown
<1> QED
  BY <1>1, <1>2, TypeCorrect, PTL DEF Spec

(* The events of a call, in the cases that occur.                          *)
EventsSoFar ==
  (IF pc = "popen" \/ status[Leader] = "unborn" THEN << >> ELSE <<"PROCESS_STARTED">>)
    \o (IF timed_out THEN <<"PROCESS_TIMED_OUT">> ELSE << >>)

ProcessEvents == {"PROCESS_STARTED", "PROCESS_TIMED_OUT", "PROCESS_COMPLETED"}

EventsFact ==
  /\ CallEvents = IF pc = "returned" THEN Append(EventsSoFar, "PROCESS_COMPLETED")
                  ELSE EventsSoFar
  /\ pc = "popen" /\ ~timed_out => EventsSoFar = << >>
  /\ pc # "popen" /\ status[Leader] # "unborn" =>
       EventsSoFar = IF timed_out THEN Append(<<"PROCESS_STARTED">>, "PROCESS_TIMED_OUT")
                     ELSE <<"PROCESS_STARTED">>

LEMMA EventsAre == EventsFact
<1> DEFINE s == IF pc = "popen" \/ status[Leader] = "unborn" THEN << >> ELSE <<"PROCESS_STARTED">>
           t == IF timed_out THEN <<"PROCESS_TIMED_OUT">> ELSE << >>
           c == IF pc = "returned" THEN <<"PROCESS_COMPLETED">> ELSE << >>
<1>1. s \in Seq(ProcessEvents) /\ t \in Seq(ProcessEvents)
  BY DEF ProcessEvents
<1>2. EventsSoFar = s \o t /\ CallEvents = (s \o t) \o c
  BY Zenon DEF EventsSoFar, CallEvents
<1>3. s \o t \in Seq(ProcessEvents)
  <2> HIDE DEF s, t
  <2> QED
    BY <1>1, ConcatProperties
<1>4. \A q \in Seq(ProcessEvents) : q \o << >> = q
  BY ConcatEmptySeq
<1>5. \A q \in Seq(ProcessEvents) : \A e \in ProcessEvents : q \o <<e>> = Append(q, e)
  BY AppendIsConcat
<1>6. CallEvents = IF pc = "returned" THEN Append(EventsSoFar, "PROCESS_COMPLETED")
                  ELSE EventsSoFar
  <2> HIDE DEF s, t
  <2>1. (s \o t) \o << >> = s \o t
    BY <1>3, <1>4
  <2>2. (s \o t) \o <<"PROCESS_COMPLETED">> = Append(s \o t, "PROCESS_COMPLETED")
    BY <1>3, <1>5 DEF ProcessEvents
  <2> QED
    BY <1>2, <2>1, <2>2, Zenon
<1>7. pc = "popen" /\ ~timed_out => EventsSoFar = << >>
  BY <1>2
<1>8. pc # "popen" /\ status[Leader] # "unborn" =>
       EventsSoFar = IF timed_out THEN Append(<<"PROCESS_STARTED">>, "PROCESS_TIMED_OUT")
                     ELSE <<"PROCESS_STARTED">>
  <2>1. <<"PROCESS_STARTED">> \in Seq(ProcessEvents) /\ "PROCESS_TIMED_OUT" \in ProcessEvents
    BY DEF ProcessEvents
  <2>2. /\ <<"PROCESS_STARTED">> \o << >> = <<"PROCESS_STARTED">>
        /\ <<"PROCESS_STARTED">> \o <<"PROCESS_TIMED_OUT">>
             = Append(<<"PROCESS_STARTED">>, "PROCESS_TIMED_OUT")
    BY <1>4, <1>5, <2>1
  <2> QED
    BY <1>2, <2>2, Zenon
<1> QED
  BY <1>6, <1>7, <1>8 DEF EventsFact

(* What TaskRun sees of the events, the child and the result changes only  *)
(* with these.                                                             *)
LEMMA EventsStay ==
  ASSUME timed_out' = timed_out, status'[Leader] = status[Leader] \/
           (status[Leader] # "unborn" /\ status'[Leader] # "unborn"),
         pc \notin {"popen", "returned"}, pc' \notin {"popen", "returned"}
  PROVE  CallEvents' = CallEvents
  BY DEF CallEvents

LEMMA ChildStays ==
  ASSUME returncode' = returncode, status'[Leader] = status[Leader]
  PROVE  CallChild' = CallChild
  BY DEF CallChild, Running

LEMMA NoResultYet ==
  ASSUME pc # "returned", pc' # "returned"
  PROVE  CallResult' = CallResult
  BY DEF CallResult

-----------------------------------------------------------------------------
(* The steps of the setup.                                                 *)
LEMMA LaunchFailsIsThere ==
  ASSUME TypeOK, LeaderKnown, LaunchFails
  PROVE  Call!LaunchFails
<1>1. /\ pc = "launch" /\ pc' = "raised" /\ exc' = "ProcessLaunchError"
      /\ UNCHANGED <<status, timed_out, returncode, interrupts>>
  BY DEF LaunchFails, At, World, flags, system, histories
<1>2. CallPoint = "launch" /\ CallPoint' = "judge"
  BY <1>1 DEF CallPoint
<1>3. CallException' = "ProcessError"
  BY <1>1 DEF CallException
<1>4. CallEvents' = CallEvents /\ CallChild' = CallChild /\ CallResult' = CallResult
  BY <1>1, EventsStay, ChildStays, NoResultYet
<1> QED
  BY <1>1, <1>2, <1>3, <1>4 DEF Call!LaunchFails, Call!At, Call!Raise, Call!Quiet,
     Call!lifetime, Call!process, Call!outcome

LEMMA LaunchIsThere ==
  ASSUME TypeOK, LeaderKnown, Launch
  PROVE  Call!Launch
<1>1. /\ pc = "launch" /\ pc' = "popen" /\ status[Leader] = "unborn" /\ status'[Leader] = "alive"
      /\ returncode = None /\ ~timed_out
      /\ UNCHANGED <<exc, timed_out, returncode, interrupts>>
  BY DEF Launch, At, flags, histories, LeaderKnown, LeaderInv, TypeOK, Processes
<1>2. CallPoint = "launch" /\ CallPoint' = "attach" /\ CallException' = CallException
  BY <1>1 DEF CallPoint, CallException
<1>3. CallChild' = "alive"
  BY <1>1 DEF CallChild, Running
<1>4. CallEvents' = CallEvents
  BY <1>1 DEF CallEvents
<1>5. CallResult' = CallResult
  BY <1>1, NoResultYet
<1> QED
  BY <1>1, <1>2, <1>3, <1>4, <1>5 DEF Call!Launch, Call!At, Call!Quiet,
     Call!lifetime, Call!outcome

LEMMA AssignIsAttach ==
  ASSUME TypeOK, LeaderKnown, Assign
  PROVE  Call!Attach
<1>1. /\ pc = "popen" /\ pc' = "setup" /\ status[Leader] # "unborn" /\ ~timed_out
      /\ UNCHANGED <<exc, status, timed_out, returncode, interrupts>>
  BY DEF Assign, At, World, system, flags, histories, LeaderKnown, LeaderInv
<1>2. CallPoint = "attach" /\ CallPoint' = "started" /\ CallException' = CallException
  BY <1>1 DEF CallPoint, CallException
<1>3. CallEvents = << >>
  BY <1>1, EventsAre DEF EventsFact
<1>4. CallEvents' = Append(CallEvents, "PROCESS_STARTED")
  <2>1. CallEvents' = EventsSoFar'
    BY <1>1 DEF CallEvents, EventsSoFar
  <2>2. EventsSoFar' = <<"PROCESS_STARTED">>
    BY <1>1 DEF EventsSoFar
  <2> QED
    BY <1>3, <2>1, <2>2
<1>5. CallChild' = CallChild /\ CallResult' = CallResult
  BY <1>1, ChildStays, NoResultYet
<1> QED
  BY <1>1, <1>2, <1>4, <1>5 DEF Call!Attach, Call!Emit,
     Call!lifetime, Call!process, Call!outcome

LEMMA SetupIsCapture ==
  ASSUME TypeOK, LeaderKnown, Setup \/ SetupFails
  PROVE  Call!Capture
<1>1. /\ pc = "setup" /\ pc' \in {"begin", "abort"}
      /\ pc' = "begin" => exc' = exc
      /\ pc' = "abort" => exc' = "ProcessLaunchError"
      /\ UNCHANGED <<status, timed_out, returncode, interrupts>>
  BY DEF Setup, SetupFails, At, World, system, flags, histories
<1>2. CallPoint = "started" /\ CallPoint' = IF pc' = "begin" THEN "running" ELSE "abandon"
  BY <1>1 DEF CallPoint
<1>3. /\ pc' = "begin" => CallException' = CallException
      /\ pc' = "abort" => CallException' = "ProcessError"
  BY <1>1 DEF CallException
<1>4. CallEvents' = CallEvents /\ CallChild' = CallChild /\ CallResult' = CallResult
  BY <1>1, EventsStay, ChildStays, NoResultYet
<1> QED
  BY <1>1, <1>2, <1>3, <1>4 DEF Call!Capture, Call!Raise, Call!Quiet,
     Call!lifetime, Call!process, Call!outcome

LEMMA AbortIsAbandon ==
  ASSUME TypeOK, LeaderKnown, Abort
  PROVE  Call!Abandon
<1>1. /\ pc = "abort" /\ pc' = "kill" /\ exc # None /\ exc' = exc
      /\ returncode = None /\ status[Leader] # "unborn"
      /\ IF status[Leader] = "dead"
           THEN returncode' = code /\ code # None /\ status' = status
           ELSE status'[Leader] = "dying" /\ returncode' = None
      /\ UNCHANGED <<timed_out, interrupts>>
  BY NoneAssumption DEF Abort, At, flags, histories, LeaderKnown, LeaderInv, ControlInv,
     ExitInv, TypeOK, Processes
<1>2. CallPoint = "abandon" /\ CallPoint' = "abort" /\ CallException' = CallException
  BY <1>1 DEF CallPoint, CallException
<1>3. CallChild' = IF CallChild = "exited" THEN "reaped" ELSE CallChild
  <2>1. status[Leader] \in {"alive", "dying", "dead"}
    BY <1>1 DEF TypeOK, Processes
  <2> QED
    BY <1>1, <2>1 DEF CallChild, Running
<1>4. CallEvents' = CallEvents /\ CallResult' = CallResult
  BY <1>1, EventsStay, NoResultYet
<1> QED
  BY <1>1, <1>2, <1>3, <1>4 DEF Call!Abandon, Call!At, Call!Quiet, Call!lifetime, Call!outcome

-----------------------------------------------------------------------------
(* The steps of the main part.                                             *)
LEMMA SeeExitIsThere ==
  ASSUME TypeOK, LeaderKnown, SeeExit
  PROVE  Call!SeeExit
<1>1. /\ pc = "poll" /\ pc' = "kill" /\ exc = None /\ exc' = exc
      /\ returncode = None /\ status[Leader] = "dead" /\ returncode' = code /\ code # None
      /\ UNCHANGED <<status, timed_out, interrupts>>
  BY NoneAssumption DEF SeeExit, At, World, system, flags, histories, LeaderKnown, LeaderInv,
     ControlInv, ExitInv
<1>2. CallPoint = "running" /\ CallPoint' = "terminate" /\ CallException' = CallException
  BY <1>1 DEF CallPoint, CallException
<1>3. CallChild = "exited" /\ CallChild' = "reaped"
  BY <1>1 DEF CallChild, Running
<1>4. CallEvents' = CallEvents /\ CallResult' = CallResult
  BY <1>1, EventsStay, NoResultYet
<1> QED
  BY <1>1, <1>2, <1>3, <1>4 DEF Call!SeeExit, Call!At, Call!Quiet, Call!lifetime, Call!outcome

LEMMA ExpireIsThere ==
  ASSUME TypeOK, LeaderKnown, Expire
  PROVE  Call!Expire
<1>1. /\ pc = "clock" /\ pc' = "kill" /\ exc = None /\ exc' = exc /\ ~cleaned
      /\ ~timed_out /\ timed_out' = TRUE /\ status[Leader] # "unborn"
      /\ UNCHANGED <<status, returncode, interrupts>>
  BY DEF Expire, At, World, system, flags, histories, LeaderKnown, LeaderInv, ControlInv
<1>2. CallPoint = "running" /\ CallPoint' = "terminate" /\ CallException' = CallException
  BY <1>1 DEF CallPoint, CallException
<1>3. CallEvents' = Append(CallEvents, "PROCESS_TIMED_OUT")
  <2>1. CallEvents = <<"PROCESS_STARTED">>
    BY <1>1, EventsAre DEF EventsFact
  <2>2. EventsFact'
    BY EventsAre, PTL
  <2> QED
    BY <1>1, <2>1, <2>2 DEF EventsFact
<1>4. CallChild' = CallChild /\ CallResult' = CallResult
  BY <1>1, ChildStays, NoResultYet
<1> QED
  BY <1>1, <1>2, <1>3, <1>4 DEF Call!Expire, Call!At, Call!Emit, Call!lifetime, Call!outcome

(* With an exception in flight the wait ends TaskRun's point abort, else   *)
(* its point terminate.                                                    *)
LEMMA WaitIsThere ==
  ASSUME TypeOK, LeaderKnown, Wait
  PROVE  Call!Terminate \/ Call!Abort
<1>1. /\ pc = "wait" /\ pc' = (IF exc = None THEN "mark" ELSE "raised") /\ exc' = exc
      /\ status[Leader] = "dead" /\ returncode' = code /\ code # None
      /\ UNCHANGED <<status, timed_out, interrupts>>
  BY NoneAssumption DEF Wait, At, World, system, flags, histories, LeaderKnown, ExitInv
<1>2. CallException' = CallException
  BY <1>1 DEF CallException
<1>3. CallChild' = "reaped"
  BY <1>1 DEF CallChild
<1>4. CallEvents' = CallEvents /\ CallResult' = CallResult
  BY <1>1, EventsStay, NoResultYet
<1>5. CASE exc = None
  <2>1. CallPoint = "terminate" /\ CallPoint' = "mark"
    BY <1>1, <1>5 DEF CallPoint
  <2>2. Call!Terminate
    BY <1>1, <1>2, <1>3, <1>4, <2>1 DEF Call!Terminate, Call!Quiet, Call!lifetime, Call!outcome
  <2> QED
    BY <2>2
<1>6. CASE exc # None
  <2>1. exc \in {"ProcessLaunchError", "ProcessError", "KeyboardInterrupt"}
    BY <1>6 DEF TypeOK, ExceptionsOfRun
  <2>2. CallPoint = "abort"
    BY <1>1, <1>6 DEF CallPoint
  <2>3. CallPoint' = IF CallException' = "ProcessError" THEN "judge" ELSE "leave"
    BY <1>1, <1>6, <2>1 DEF CallPoint, CallException
  <2>4. Call!Abort
    BY <1>1, <1>2, <1>3, <1>4, <2>2, <2>3 DEF Call!Abort, Call!Quiet, Call!lifetime, Call!outcome
  <2> QED
    BY <2>4
<1> QED
  BY <1>5, <1>6

LEMMA MarkIsThere ==
  ASSUME TypeOK, LeaderKnown, Mark
  PROVE  Call!Mark
<1>1. /\ pc = "mark" /\ pc' = "drain" /\ exc' = exc
      /\ UNCHANGED <<status, returncode, timed_out, interrupts>>
  BY DEF Mark, At, World, system, histories
<1>2. CallPoint = "mark" /\ CallPoint' = "drain" /\ CallException' = CallException
  BY <1>1 DEF CallPoint, CallException
<1>3. CallEvents' = CallEvents /\ CallChild' = CallChild /\ CallResult' = CallResult
  BY <1>1, EventsStay, ChildStays, NoResultYet
<1> QED
  BY <1>1, <1>2, <1>3 DEF Call!Mark, Call!At, Call!Quiet, Call!lifetime, Call!process, Call!outcome

LEMMA ReturnIsDrain ==
  ASSUME TypeOK, LeaderKnown, Return
  PROVE  Call!Drain
<1>1. /\ pc = "result" /\ pc' = "returned" /\ exc = None /\ exc' = exc
      /\ status[Leader] # "unborn" /\ returncode \in {"own", "killed"}
      /\ timed_out \in BOOLEAN /\ truncated \in [Streams -> BOOLEAN]
      /\ UNCHANGED <<status, returncode, timed_out, truncated, interrupts>>
  BY DEF Return, At, World, system, flags, captures, histories, LeaderKnown, LeaderInv,
     ControlInv, ExitInv, TypeOK
<1>2. CallPoint = "drain" /\ CallPoint' = "judge" /\ CallException' = CallException
  BY <1>1, NoneAssumption DEF CallPoint, CallException, ExceptionsOfRun
<1>3. CallResult' \in Call!Measured
  <2>1. ExitCode' \in {0, Killed} /\ ExitCode' # None
    BY <1>1, CodeAssumption DEF ExitCode
  <2>2. CallResult' = [exit_code |-> ExitCode', timed_out |-> timed_out,
          stdout_truncated |-> truncated["stdout"], stderr_truncated |-> truncated["stderr"],
          stdout_decode_errors |-> FALSE, stdout |-> None]
    BY <1>1 DEF CallResult
  <2>3. truncated["stdout"] \in BOOLEAN /\ truncated["stderr"] \in BOOLEAN
    BY <1>1 DEF Streams
  <2>4. CallResult' \in Call!Execution
    BY <1>1, <2>1, <2>2, <2>3 DEF Call!Execution
  <2>5. CallResult'.exit_code # None /\ CallResult'.timed_out = timed_out
    BY <2>1, <2>2
  <2> QED
    BY <2>4, <2>5 DEF Call!Measured
<1>4. CallEvents' = Append(CallEvents, "PROCESS_COMPLETED")
  <2>1. CallEvents = EventsSoFar
    BY <1>1, EventsAre DEF EventsFact
  <2>2. EventsSoFar' = EventsSoFar
    BY <1>1 DEF EventsSoFar
  <2>3. EventsFact'
    BY EventsAre, PTL
  <2>4. CallEvents' = Append(EventsSoFar', "PROCESS_COMPLETED")
    BY <1>1, <2>3 DEF EventsFact
  <2> QED
    BY <2>1, <2>2, <2>4
<1>5. CallChild' = CallChild
  BY <1>1, ChildStays
<1> QED
  BY <1>1, <1>2, <1>3, <1>4, <1>5 DEF Call!Drain, Call!At, Call!Emit, Call!lifetime, Call!outcome

(* A ProcessError of read, kill or wait: which step of TaskRun it is       *)
(* depends on how far the call has come.                                   *)
LEMMA FailsIsThere ==
  ASSUME TypeOK, LeaderKnown, Fails
  PROVE  Call!ReadFails \/ Call!DrainFails \/ Call!Terminate \/ Call!Abort
<1>1. /\ pc \in {"read", "kill", "wait"} /\ pc' = Unwind /\ exc' = "ProcessError"
      /\ UNCHANGED <<status, returncode, timed_out, cleaned, interrupts>>
  BY DEF Fails, World, system, flags, histories
<1>2. CallException' = "ProcessError" /\ "ProcessError" # None
  BY <1>1, NoneAssumption DEF CallException, ExceptionsOfRun
<1>3. pc' \in {"kill", "raised"}
  BY <1>1 DEF Unwind
<1>4. CallEvents' = CallEvents /\ CallChild' = CallChild /\ CallResult' = CallResult
  BY <1>1, <1>3, EventsStay, ChildStays, NoResultYet
<1>5. CallPoint' = IF pc' = "kill" THEN "abort" ELSE "judge"
  BY <1>1, <1>2, <1>3 DEF CallPoint
<1> USE DEF Call!At, Call!Quiet, Call!Raise, Call!lifetime, Call!process, Call!outcome
<1>6. CASE pc = "read" /\ ~cleaned
  <2>1. pc' = "kill" /\ CallPoint = "running"
    BY <1>1, <1>6 DEF Unwind, CallPoint, LeaderKnown, ControlInv
  <2>2. Call!ReadFails
    BY <1>1, <1>2, <1>4, <1>5, <2>1 DEF Call!ReadFails
  <2> QED
    BY <2>2
<1>7. CASE pc = "read" /\ cleaned
  <2>1. pc' = "raised" /\ CallPoint = "drain"
    BY <1>1, <1>7 DEF Unwind, CallPoint
  <2>2. Call!DrainFails
    BY <1>1, <1>2, <1>4, <1>5, <2>1 DEF Call!DrainFails
  <2> QED
    BY <2>2
<1>8. CASE pc \in {"kill", "wait"} /\ exc = None
  <2>1. pc' = "kill" /\ CallPoint = "terminate"
    BY <1>1, <1>8 DEF Unwind, CallPoint, LeaderKnown, ControlInv
  <2>2. Call!Terminate
    BY <1>1, <1>2, <1>4, <1>5, <2>1 DEF Call!Terminate
  <2> QED
    BY <2>2
<1>9. CASE pc \in {"kill", "wait"} /\ exc # None
  <2>1. pc' = "raised" /\ CallPoint = "abort"
    BY <1>1, <1>9 DEF Unwind, CallPoint
  <2>2. Call!Abort
    BY <1>1, <1>2, <1>4, <1>5, <2>1 DEF Call!Abort
  <2> QED
    BY <2>2
<1> QED
  BY <1>1, <1>6, <1>7, <1>8, <1>9

(* Where an interrupt leads is where it leads in TaskRun, except from the  *)
(* two points at which no try statement is open.                           *)
LEMMA InterruptIsThere ==
  ASSUME TypeOK, LeaderKnown, Interrupt, struck' \notin {"popen", "begin"}
  PROVE  Call!Interrupt
<1>1. /\ pc \in Points \ {"returned", "raised"} /\ pc' = Unwind /\ exc' = "KeyboardInterrupt"
      /\ interrupts < MaxInterrupts /\ interrupts' = interrupts + 1
      /\ UNCHANGED <<status, returncode, timed_out, cleaned>>
  BY DEF Interrupt, Finished, system, flags, TypeOK
<1>2. pc \notin {"popen", "begin"}
  BY DEF Interrupt, LeaderKnown, ControlInv
<1>3. CallException' = "KeyboardInterrupt" /\ exc' # None
  BY <1>1, NoneAssumption DEF CallException, ExceptionsOfRun
<1>4. pc' \in {"abort", "kill", "raised"}
  BY <1>1 DEF Unwind
<1>5. CallEvents' = CallEvents /\ CallChild' = CallChild /\ CallResult' = CallResult
  BY <1>1, <1>2, <1>4, EventsStay, ChildStays, NoResultYet
<1>6. CallPoint' = CASE pc' = "abort" -> "abandon" [] pc' = "kill" -> "abort" [] OTHER -> "leave"
  BY <1>1, <1>3, <1>4 DEF CallPoint
<1>7. CallPoint' = Call!Unwind(CallPoint) /\ CallPoint \notin {"returned", "raised"}
  <2>1. CASE pc \in {"launch", "setup", "abort", "drain", "result"}
    BY <1>1, <1>6, <2>1 DEF Unwind, Call!Unwind, CallPoint
  <2>2. CASE pc \in {"poll", "mark"}
    BY <1>1, <1>6, <2>2 DEF Unwind, Call!Unwind, CallPoint, LeaderKnown, ControlInv
  <2>3. CASE pc \in {"read", "clock"}
    BY <1>1, <1>6, <2>3 DEF Unwind, Call!Unwind, CallPoint, LeaderKnown, ControlInv
  <2>4. CASE pc \in {"kill", "wait"}
    BY <1>1, <1>6, <2>4 DEF Unwind, Call!Unwind, CallPoint, LeaderKnown, ControlInv
  <2> QED
    BY <1>1, <1>2, <2>1, <2>2, <2>3, <2>4 DEF Points
<1> QED
  BY <1>1, <1>3, <1>5, <1>7 DEF Call!Interrupt, Call!Finished, Call!Raise, Call!Quiet,
     Call!lifetime, Call!process, Call!outcome

-----------------------------------------------------------------------------
(* The steps TaskRun does not see.                                         *)
LEMMA Unseen ==
  ASSUME pc \notin {"popen", "returned"}, pc' \notin {"popen", "returned"},
         CallPoint' = CallPoint,
         UNCHANGED <<exc, status, returncode, timed_out, interrupts>>
  PROVE  UNCHANGED Call!runVars
<1>1. CallEvents' = CallEvents /\ CallChild' = CallChild /\ CallResult' = CallResult
  BY EventsStay, ChildStays, NoResultYet
<1>2. CallException' = CallException
  BY DEF CallException
<1> QED
  BY <1>1, <1>2 DEF Call!runVars, Call!lifetime, Call!process, Call!outcome

LEMMA QuietSteps ==
  ASSUME TypeOK, LeaderKnown,
         \/ Begin \/ StillRuns \/ InTime \/ ReadChunk \/ ReadEof \/ ReadNoMore
         \/ DrainOn \/ Drained \/ CutOff
  PROVE  UNCHANGED Call!runVars
<1> USE DEF At, StartDrain, NextCapture, MayRead, World, system, flags, histories
<1>1. CASE Begin
  <2>1. CallPoint' = CallPoint
    BY <1>1 DEF Begin, CallPoint
  <2> QED
    BY <1>1, <2>1, Unseen DEF Begin
<1>2. CASE StillRuns
  <2>1. CallPoint' = CallPoint
    BY <1>2 DEF StillRuns, CallPoint, LeaderKnown, ControlInv
  <2> QED
    BY <1>2, <2>1, Unseen DEF StillRuns
<1>3. CASE InTime
  <2>1. CallPoint' = CallPoint
    BY <1>3 DEF InTime, CallPoint
  <2> QED
    BY <1>3, <2>1, Unseen DEF InTime
<1>4. CASE ReadChunk
  <2>1. CallPoint' = CallPoint
    BY <1>4 DEF ReadChunk, CallPoint
  <2> QED
    BY <1>4, <2>1, Unseen DEF ReadChunk
<1>5. CASE ReadEof \/ ReadNoMore
  <2>1. CallPoint' = CallPoint
    BY <1>5 DEF ReadEof, ReadNoMore, CallPoint
  <2> QED
    BY <1>5, <2>1, Unseen DEF ReadEof, ReadNoMore
<1>6. CASE DrainOn
  <2>1. CallPoint' = CallPoint
    BY <1>6 DEF DrainOn, CallPoint, LeaderKnown, ControlInv
  <2> QED
    BY <1>6, <2>1, Unseen DEF DrainOn
<1>7. CASE Drained
  <2>1. CallPoint' = CallPoint
    BY <1>7 DEF Drained, CallPoint
  <2> QED
    BY <1>7, <2>1, Unseen DEF Drained
<1>8. CASE CutOff
  <2>1. CallPoint' = CallPoint
    BY <1>8 DEF CutOff, CallPoint
  <2> QED
    BY <1>8, <2>1, Unseen DEF CutOff
<1> QED
  BY <1>1, <1>2, <1>3, <1>4, <1>5, <1>6, <1>7, <1>8

(* A signal has been sent; the child is there until it is waited for.      *)
LEMMA KillIsUnseen ==
  ASSUME TypeOK, LeaderKnown, Kill
  PROVE  UNCHANGED Call!runVars
<1>1. /\ pc = "kill" /\ pc' = "wait" /\ status[Leader] # "unborn"
      /\ status'[Leader] = status[Leader]
           \/ (status[Leader] = "alive" /\ status'[Leader] = "dying")
      /\ UNCHANGED <<exc, returncode, timed_out, interrupts>>
  BY DEF Kill, At, flags, histories, LeaderKnown, LeaderInv, Processes
<1>2. CallPoint' = CallPoint /\ CallException' = CallException
  BY <1>1 DEF CallPoint, CallException
<1>3. CallEvents' = CallEvents /\ CallResult' = CallResult
  BY <1>1, EventsStay, NoResultYet
<1>4. CallChild' = CallChild
  BY <1>1 DEF CallChild, Running
<1> QED
  BY <1>1, <1>2, <1>3, <1>4 DEF Call!runVars, Call!lifetime, Call!process, Call!outcome

(* Of all the command does TaskRun sees only that the leader ends.         *)
LEMMA CommandIsThere ==
  ASSUME TypeOK, LeaderKnown, Command
  PROVE  UNCHANGED Call!runVars \/ Call!ChildExits
<1>1. /\ pc \notin {"returned", "raised"}
      /\ UNCHANGED <<pc, exc, returncode, timed_out, cleaned, interrupts>>
  BY DEF Command, Finished, flags, histories
<1>2. CallPoint' = CallPoint /\ CallException' = CallException
  BY <1>1 DEF CallPoint, CallException
<1>3. CallResult' = CallResult
  BY <1>1, NoResultYet
<1>4. CASE \E p \in Processes : p = Leader /\ End(p)
  <2>1. status[Leader] \in {"alive", "dying"} /\ status'[Leader] = "dead" /\ returncode = None
    BY <1>4 DEF End, Running, TypeOK, LeaderKnown, LeaderInv
  <2>2. CallChild = "alive" /\ CallChild' = "exited"
    BY <1>1, <2>1 DEF CallChild, Running
  <2>3. CallEvents' = CallEvents
    BY <1>1, <2>1 DEF CallEvents
  <2>4. Call!ChildExits
    BY <1>1, <1>2, <1>3, <2>2, <2>3 DEF Call!ChildExits, Call!lifetime, Call!outcome
  <2> QED
    BY <2>4
<1>5. CASE ~ \E p \in Processes : p = Leader /\ End(p)
  <2>1. status'[Leader] = status[Leader]
    <3>1. Leader \in Processes /\ \A q \in Descendants : q # Leader
      BY DEF Processes
    <3>2. CASE \E p \in Processes, q \in Descendants : Fork(p, q)
      BY <3>1, <3>2 DEF Fork, TypeOK
    <3>3. CASE \E p \in Descendants : Detach(p)
      BY <3>3 DEF Detach
    <3>4. CASE \E p \in Processes, s \in Streams : CloseStream(p, s)
      BY <3>4 DEF CloseStream
    <3>5. CASE \E p \in Processes : End(p)
      <4>1. PICK p \in Processes : End(p)
        BY <3>5
      <4>2. p # Leader
        BY <1>5, <4>1
      <4> QED
        BY <4>1, <4>2 DEF End, TypeOK
    <3>6. CASE UNCHANGED system
      BY <3>6 DEF system
    <3> QED
      BY <3>2, <3>3, <3>4, <3>5, <3>6 DEF Command
  <2>2. CallChild' = CallChild
    BY <1>1, <2>1, ChildStays
  <2>3. CallEvents' = CallEvents
    BY <1>1, <2>1 DEF CallEvents
  <2> QED
    BY <1>1, <1>2, <1>3, <2>2, <2>3 DEF Call!runVars, Call!lifetime, Call!process, Call!outcome
<1> QED
  BY <1>4, <1>5

LEMMA NothingHappens ==
  ASSUME Time \/ UNCHANGED vars
  PROVE  UNCHANGED Call!runVars
<1>1. UNCHANGED <<status, returncode, timed_out, cleaned, truncated, pc, exc, interrupts>>
  BY DEF Time, vars, system, flags, captures, histories
<1>2. /\ CallPoint' = CallPoint /\ CallException' = CallException /\ CallChild' = CallChild
      /\ CallEvents' = CallEvents
  BY <1>1, ChildStays DEF CallPoint, CallException, CallEvents
<1>3. CallResult' = CallResult
  BY <1>1 DEF CallResult, ExitCode
<1> QED
  BY <1>1, <1>2, <1>3 DEF Call!runVars, Call!lifetime, Call!process, Call!outcome

(* Whatever the command does, a call of ProcessRunner.run is what          *)
(* TaskRunner.verify is modelled with, in each of its steps, unless an     *)
(* interrupt falls where no try statement is open.                         *)
THEOREM RunnerImplementsCall == Spec => ImplementsCall
<1>1. ASSUME TypeOK, LeaderKnown, [Next]_vars, struck' \notin {"popen", "begin"}
      PROVE  UNCHANGED Call!runVars \/ Call!RunStep
  <2>1. CASE \/ LaunchFails \/ Launch \/ Assign \/ Setup \/ SetupFails \/ Abort
    BY <1>1, <2>1, LaunchFailsIsThere, LaunchIsThere, AssignIsAttach, SetupIsCapture,
       AbortIsAbandon DEF Call!RunStep, Call!Proceed
  <2>2. CASE SeeExit \/ Expire \/ Wait \/ Mark \/ Return \/ Fails \/ Interrupt
    BY <1>1, <2>2, SeeExitIsThere, ExpireIsThere, WaitIsThere, MarkIsThere, ReturnIsDrain,
       FailsIsThere, InterruptIsThere DEF Call!RunStep, Call!Proceed
  <2>3. CASE \/ Begin \/ StillRuns \/ InTime \/ ReadChunk \/ ReadEof \/ ReadNoMore
             \/ DrainOn \/ Drained \/ CutOff
    BY <1>1, <2>3, QuietSteps
  <2>4. CASE Kill
    BY <1>1, <2>4, KillIsUnseen
  <2>5. CASE Command
    BY <1>1, <2>5, CommandIsThere DEF Call!RunStep
  <2>6. CASE Time \/ UNCHANGED vars
    BY <2>6, NothingHappens
  <2> QED
    BY <1>1, <2>1, <2>2, <2>3, <2>4, <2>5, <2>6, Steps DEF Unsignalled, Signals
<1>2. TypeOK /\ LeaderKnown /\ [Next]_vars =>
        [struck' \notin {"popen", "begin"} => UNCHANGED Call!runVars \/ Call!RunStep]_vars
  BY <1>1
<1> QED
  BY <1>2, TypeCorrect, LeaderKnownAlways, PTL DEF Spec, ImplementsCall
=============================================================================
