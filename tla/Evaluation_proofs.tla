-------------------------- MODULE Evaluation_proofs --------------------------
(***************************************************************************)
(* What an evaluation guarantees for every number of cases, every set of   *)
(* tenants, limits, profiles and fields, and all bounds: the verdict is    *)
(* what the suite came to, limits of active jobs hold, a batch agrees with *)
(* the start version at one read per profile, and the reference solutions  *)
(* pass.                                                                   *)
(***************************************************************************)
EXTENDS Evaluation, FiniteSetTheorems, SequenceTheorems, TLAPS

USE ProtocolAssumption, NoneAssumption, EvaluatorAssumption, QuotaAssumption, BatchAssumption

(* Who moves the evaluator.                                                *)
EvaluatorMoves ==
  \/ Framework
  \/ candidate = "other" /\ (Refuse \/ Candidate)
  \/ candidate # "other" /\ IF good THEN Succeeds ELSE AddFailure
  \/ UNCHANGED evaluatorVars

LEMMA EvaluatorSteps == [EvaluationNext]_evaluationVars => EvaluatorMoves /\ UNCHANGED candidate
  BY DEF EvaluationNext, evaluationVars, EvaluatorMoves, EvaluatorStep, Prepare, Submit,
         ChangeStatus, Process, EndCase, Ended, Calls

LEMMA FiniteCases ==
  /\ IsFiniteSet(Cases) /\ Cardinality(Cases) = NumCases
  /\ \A S \in SUBSET Cases : IsFiniteSet(S) /\ Cardinality(S) \in 0..NumCases
<1>1. IsFiniteSet(Cases) /\ Cardinality(Cases) = NumCases
  BY FS_Interval DEF Cases
<1>2. ASSUME NEW S \in SUBSET Cases PROVE IsFiniteSet(S) /\ Cardinality(S) \in 0..NumCases
  <2>1. IsFiniteSet(S) /\ Cardinality(S) <= NumCases
    BY <1>1, FS_Subset
  <2> QED
    BY <2>1, FS_CardinalityType
<1> QED
  BY <1>1, <1>2

(* What the document has to be when there is one.                          *)
Verdict ==
  [passed |-> Failed = 0, tests_passed |-> TestsRun - Failed,
   tests_failed |-> Failed, details |-> Failed # 0]

LEMMA CountTypes ==
  ASSUME EvaluatorTypeOK
  PROVE  /\ TestsRun \in 0..NumCases /\ Failed \in 0..NumCases /\ Failed <= TestsRun
         /\ Verdict \in Document
<1>1. ran \in SUBSET Cases /\ failed_cases \in SUBSET ran
  BY DEF EvaluatorTypeOK
<1>2. TestsRun \in 0..NumCases /\ Failed \in 0..NumCases
  BY <1>1, FiniteCases DEF TestsRun, Failed
<1>3. Failed <= TestsRun
  BY <1>1, FiniteCases, FS_Subset DEF TestsRun, Failed
<1>4. Verdict \in Document
  BY <1>2, <1>3 DEF Verdict, Document
<1> QED
  BY <1>2, <1>3, <1>4

(* The history against what the evaluator has kept: a skipped case may     *)
(* have failed in a subcase before, then nobody asks.                      *)
SuiteInv ==
  /\ epc = "case" => case \in ran
  /\ \A c \in Cases : outcome[c] = "none" <=> c \notin ran
  /\ ~skipped => failed_cases = Came("failed") /\ Came("skipped") = {}

(* There is a document only of a suite that ran whole and unchanged.       *)
DocumentInv ==
  /\ epc = "exit" <=> exit_code # None
  /\ printed # None => /\ epc = "exit" /\ Established /\ printed = Verdict
                       /\ exit_code = IF Failed = 0 THEN 0 ELSE 1

EvaluatorInv == EvaluatorTypeOK /\ SuiteInv /\ DocumentInv

LEMMA EvaluatorInitInv == EvaluationInit => EvaluatorInv
  BY DEF EvaluationInit, EvaluatorInit, EvaluatorInv, EvaluatorTypeOK, SuiteInv, DocumentInv, Came

LEMMA EvaluatorNext == EvaluatorInv /\ EvaluatorMoves => EvaluatorInv'
<1> SUFFICES ASSUME EvaluatorInv, EvaluatorMoves PROVE EvaluatorInv'
  OBVIOUS
<1> USE DEF EvaluatorInv
<1>1. EvaluatorTypeOK'
  <2> USE DEF EvaluatorTypeOK
  <2>1. CASE Report
    BY <2>1, CountTypes DEF Report, Exit, Verdict
  <2>2. CASE \E c \in Cases : StartTest(c)
    BY <2>2 DEF StartTest
  <2>3. CASE Load \/ GiveUp \/ Refuse
    BY <2>3 DEF Load, GiveUp, Refuse, Exit
  <2>4. CASE Candidate \/ Succeeds \/ AddFailure
    BY <2>4 DEF Candidate, Succeeds, AddFailure, AddSubTest, AddSkip, Change, CallStop, Die,
                StopTest, Exit, SuiteInv
  <2>5. CASE UNCHANGED evaluatorVars
    BY <2>5 DEF evaluatorVars
  <2> QED
    BY <2>1, <2>2, <2>3, <2>4, <2>5 DEF EvaluatorMoves, Framework
<1>2. SuiteInv'
  <2> USE DEF EvaluatorTypeOK, SuiteInv, Came
  <2>1. CASE \E c \in Cases : StartTest(c)
    BY <2>1 DEF StartTest
  <2>2. CASE Load \/ GiveUp \/ Report \/ Refuse
    BY <2>2 DEF Load, GiveUp, Report, Refuse, Exit
  <2>3. CASE AddSubTest \/ AddFailure
    BY <2>3 DEF AddSubTest, AddFailure, StopTest
  <2>4. CASE Succeeds \/ AddSkip \/ Change \/ CallStop \/ \E code \in ExitCodes : Die(code)
    BY <2>4 DEF Succeeds, AddSkip, Change, CallStop, Die, StopTest, Exit
  <2>5. CASE UNCHANGED evaluatorVars
    BY <2>5 DEF evaluatorVars
  <2> QED
    BY <2>1, <2>2, <2>3, <2>4, <2>5 DEF EvaluatorMoves, Framework, Candidate
<1>3. DocumentInv'
  <2> USE DEF DocumentInv, EvaluatorTypeOK, TestsRun, Failed, Established, Verdict
  <2>1. CASE Report
    BY <2>1, <1>1 DEF Report, Exit, SuiteEnds
  <2>2. CASE \E c \in Cases : StartTest(c)
    BY <2>2 DEF StartTest
  <2>3. CASE Load \/ GiveUp \/ Refuse
    BY <2>3, <1>1 DEF Load, GiveUp, Refuse, Exit, SuiteEnds
  <2>4. CASE Candidate \/ Succeeds \/ AddFailure
    BY <2>4, <1>1 DEF Candidate, Succeeds, AddFailure, AddSubTest, AddSkip, Change, CallStop, Die,
                StopTest, Exit
  <2>5. CASE UNCHANGED evaluatorVars
    BY <2>5 DEF evaluatorVars
  <2> QED
    BY <2>1, <2>2, <2>3, <2>4, <2>5 DEF EvaluatorMoves, Framework
<1> QED
  BY <1>1, <1>2, <1>3

(* A suite that is established has run every case.                         *)
LEMMA EstablishedRanAll ==
  ASSUME EvaluatorTypeOK, Established PROVE ran = Cases
  BY FiniteCases, FS_Subset DEF EvaluatorTypeOK, Established, TestsRun

LEMMA EstablishedCounts ==
  ASSUME EvaluatorInv, printed # None
  PROVE  /\ ran = Cases /\ failed_cases = Came("failed") /\ Came("passed") = Cases \ Came("failed")
         /\ Cardinality(Came("passed")) = TestsRun - Failed
         /\ Cardinality(Came("failed")) = Failed /\ TestsRun = NumCases
<1>1. ran = Cases
  BY EstablishedRanAll DEF EvaluatorInv, DocumentInv
<1>2. failed_cases = Came("failed") /\ Came("skipped") = {}
  BY DEF EvaluatorInv, DocumentInv, SuiteInv, Established
<1>3. Came("passed") = Cases \ Came("failed")
  BY <1>1, <1>2 DEF EvaluatorInv, EvaluatorTypeOK, SuiteInv, Came
<1>4. Cases \cap Came("failed") = failed_cases
  BY <1>2 DEF Came
<1>5. Cardinality(Cases \ Came("failed")) = Cardinality(Cases) - Cardinality(failed_cases)
  BY <1>4, FiniteCases, FS_Difference
<1> QED
  BY <1>1, <1>2, <1>3, <1>5, FiniteCases DEF TestsRun, Failed

(* A document passes the adapter as it stands.                             *)
LEMMA InterpretMeasured ==
  ASSUME EvaluatorInv, epc = "exit"
  PROVE  Interpret(Measured) =
           IF printed = None THEN Unavailable(exit_code)
           ELSE [passed |-> Failed = 0, tests_passed |-> TestsRun - Failed,
                 tests_failed |-> Failed, exit_code |-> exit_code, details |-> Failed # 0]
<1>1. Measured # None
  <2>1. Measured \in Execution
    BY DEF Measured, Execution, EvaluatorInv, EvaluatorTypeOK
  <2> QED
    BY <2>1
<1>2. CASE printed = None
  BY <1>1, <1>2 DEF Interpret, ProtocolError, Measured
<1>3. CASE printed # None
  <2>1. printed = Verdict /\ exit_code = IF Failed = 0 THEN 0 ELSE 1
    BY <1>3 DEF EvaluatorInv, DocumentInv
  <2>2. TestsRun \in Nat /\ Failed \in Nat /\ TestsRun > 0 /\ Failed <= TestsRun
    BY <1>3, EstablishedCounts, CountTypes DEF EvaluatorInv, DocumentInv, Established, Cases
  <2>3. CountsAgree(Verdict)
    <3>1. CASE Failed = 0
      <4>1. TestsRun - Failed = TestsRun
        BY <2>2, <3>1
      <4>2. Verdict.passed = TRUE
        BY <3>1, Zenon DEF Verdict
      <4>3. Verdict.tests_passed = TestsRun /\ Verdict.tests_failed = 0
        BY <3>1, <4>1 DEF Verdict
      <4> QED
        BY <2>2, <4>2, <4>3 DEF CountsAgree
    <3>2. CASE Failed # 0
      BY <2>2, <3>2 DEF CountsAgree, Verdict
    <3> QED
      BY <3>1, <3>2
  <2>4. ~ProtocolError(Measured)
    BY <1>3, <2>1, <2>3 DEF ProtocolError, Measured, Verdict
  <2> QED
    BY <1>1, <1>3, <2>1, <2>4 DEF Interpret, Measured, Verdict
<1> QED
  BY <1>2, <1>3

LEMMA VerdictFollows == EvaluatorInv => VerdictIsMeasured
<1> SUFFICES ASSUME EvaluatorInv, epc = "exit"
    PROVE  LET v == Interpret(Measured)
           IN /\ v.passed => Cases # {} /\ Came("passed") = Cases /\ ~changed
              /\ v.tests_passed # None =>
                   /\ v.tests_passed = Cardinality(Came("passed"))
                   /\ v.tests_failed = Cardinality(Came("failed"))
                   /\ v.tests_passed + v.tests_failed = Cardinality(Cases)
              /\ (skipped \/ changed \/ ran # Cases) => v = Unavailable(exit_code)
  BY DEF VerdictIsMeasured
<1>1. CASE printed = None
  <2>1. Interpret(Measured) = Unavailable(exit_code)
    BY <1>1, InterpretMeasured
  <2> QED
    BY <2>1 DEF Unavailable
<1>2. CASE printed # None
  <2> DEFINE v == Interpret(Measured)
  <2>1. v = [passed |-> Failed = 0, tests_passed |-> TestsRun - Failed,
             tests_failed |-> Failed, exit_code |-> exit_code, details |-> Failed # 0]
    BY <1>2, InterpretMeasured
  <2>2. Established
    BY <1>2 DEF EvaluatorInv, DocumentInv
  <2>3. /\ TestsRun \in Nat /\ Failed \in Nat
        /\ ran = Cases /\ TestsRun = Cardinality(Cases)
        /\ Cardinality(Came("passed")) = TestsRun - Failed /\ Cardinality(Came("failed")) = Failed
        /\ Came("passed") = Cases \ Came("failed")
    BY <1>2, EstablishedCounts, CountTypes, FiniteCases DEF EvaluatorInv
  <2>4. Failed = 0 => Came("failed") = {}
    BY <2>3, FiniteCases, FS_EmptySet DEF Came
  <2>5. v.passed = (Failed = 0)
    BY <2>1
  <2>6. v.passed => Cases # {} /\ Came("passed") = Cases /\ ~changed
    BY <2>2, <2>3, <2>4, <2>5 DEF Established
  <2>7. v.tests_passed = TestsRun - Failed /\ v.tests_failed = Failed
    BY <2>1
  <2>8. ~(skipped \/ changed \/ ran # Cases)
    BY <2>2, <2>3 DEF Established
  <2> HIDE DEF v
  <2>9. v.tests_passed + v.tests_failed = Cardinality(Cases)
    BY <2>3, <2>7
  <2> QED
    BY <2>3, <2>6, <2>7, <2>8, <2>9 DEF v
<1> QED
  BY <1>1, <1>2

(* A verdict is what the suite came to, for any candidate and any number   *)
(* of cases.                                                               *)
THEOREM VerdictMeasured == EvaluationSpec => []VerdictIsMeasured
<1>1. EvaluatorInv /\ [EvaluationNext]_evaluationVars => EvaluatorInv'
  BY EvaluatorSteps, EvaluatorNext
<1> QED
  BY EvaluatorInitInv, <1>1, VerdictFollows, PTL DEF EvaluationSpec

-----------------------------------------------------------------------------
(* Who moves the quota services, and what the case reckons meanwhile.      *)
QuotaMoves ==
  \/ /\ NewRepository
     /\ held' = [t \in Tenants |-> 0] /\ issued' = 0
  \/ (\E s \in Services : Construct(s)) /\ UNCHANGED <<held, issued>>
  \/ \E t \in Tenants :
       Seed(t) /\ held' = [held EXCEPT ![t] = @ + 1] /\ issued' = issued + 1
  \/ \E s \in Services, t \in Tenants :
       SubmitAccepted(s, t) /\ held' = [held EXCEPT ![t] = @ + 1] /\ issued' = issued + 1
  \/ \E i \in 1..MaxJobs, status \in Statuses :
       /\ SetStatus(i, status)
       /\ held' = IF jobs[i].status \in ActiveStatuses /\ status \notin ActiveStatuses
                    THEN [held EXCEPT ![jobs[i].tenant] = @ - 1] ELSE held
       /\ UNCHANGED issued
  \/ UNCHANGED <<quotaVars, held, issued>>

LEMMA QuotaSteps == [EvaluationNext]_evaluationVars => QuotaMoves
<1> SUFFICES ASSUME [EvaluationNext]_evaluationVars PROVE QuotaMoves
  OBVIOUS
<1>1. CASE EvaluatorStep
  BY <1>1 DEF EvaluatorStep, SetUp, QuotaMoves, caseVars
<1>2. CASE Prepare
  BY <1>2 DEF Prepare, QuotaMoves, caseVars
<1>3. CASE \E s \in Services, t \in Tenants : Submit(s, t)
  BY <1>3 DEF Submit, QuotaMoves, SubmitRejected
<1>4. CASE \E i \in 1..MaxJobs, status \in Statuses : ChangeStatus(i, status)
  BY <1>4 DEF ChangeStatus, QuotaMoves, SetStatusRefused
<1>5. CASE Process \/ EndCase \/ Ended \/ UNCHANGED evaluationVars
  BY <1>5 DEF Process, EndCase, SetUp, Ended, evaluationVars, caseVars, QuotaMoves
<1> QED
  BY <1>1, <1>2, <1>3, <1>4, <1>5 DEF EvaluationNext

LEMMA ActiveFinite ==
  ASSUME QuotaTypeOK
  PROVE  \A t : IsFiniteSet(ActiveJobs(t)) /\ ActiveCount(t) \in Nat
<1> TAKE t
<1>1. IsFiniteSet(1..Len(jobs))
  BY FS_Interval DEF QuotaTypeOK
<1>2. ActiveJobs(t) \in SUBSET (1..Len(jobs))
  BY DEF ActiveJobs
<1> QED
  BY <1>1, <1>2, FS_Subset, FS_CardinalityType DEF ActiveCount

LEMMA LimitType ==
  ASSUME QuotaTypeOK, NEW s \in DOMAIN config, NEW t \in Tenants
  PROVE  LimitOf(s, t) \in Nat
<1>1. config[s] \in Configs
  BY DEF QuotaTypeOK
<1>2. PICK T \in SUBSET Tenants : config[s].overrides \in [T -> RawLimits \cap Nat]
  BY <1>1 DEF Configs
<1> QED
  BY <1>1, <1>2 DEF Configs, LimitOf

(* A new job is one more active job of its tenant.                         *)
LEMMA CreateCounts ==
  ASSUME QuotaTypeOK, NEW t \in Tenants, CreateJob(t)
  PROVE  /\ jobs' \in Seq([id : Nat, tenant : Tenants, status : Statuses])
         /\ next_id' = Len(jobs') + 1 /\ Len(jobs') = Len(jobs) + 1
         /\ \A i \in 1..Len(jobs') : jobs'[i].id = i
         /\ \A u \in Tenants :
              ActiveCount(u)' = IF u = t THEN ActiveCount(u) + 1 ELSE ActiveCount(u)
<1> DEFINE job == [id |-> next_id, tenant |-> t, status |-> "PENDING"]
           Jobs == [id : Nat, tenant : Tenants, status : Statuses]
<1>1. jobs \in Seq(Jobs) /\ next_id = Len(jobs) + 1 /\ next_id \in Nat
  BY DEF QuotaTypeOK
<1>2. job \in Jobs
  BY <1>1 DEF Statuses
<1>3. /\ jobs' = Append(jobs, job) /\ jobs' \in Seq(Jobs) /\ Len(jobs') = Len(jobs) + 1
      /\ \A i \in 1..Len(jobs) : jobs'[i] = jobs[i]
      /\ jobs'[Len(jobs) + 1] = job
  BY <1>1, <1>2 DEF CreateJob
<1>4. next_id' = Len(jobs') + 1 /\ \A i \in 1..Len(jobs') : jobs'[i].id = i
  BY <1>1, <1>3 DEF CreateJob, QuotaTypeOK
<1>5. ASSUME NEW u \in Tenants
      PROVE  ActiveCount(u)' = IF u = t THEN ActiveCount(u) + 1 ELSE ActiveCount(u)
  <2>1. ActiveJobs(u)' = IF u = t THEN ActiveJobs(u) \cup {Len(jobs) + 1} ELSE ActiveJobs(u)
    BY <1>1, <1>3 DEF ActiveJobs, ActiveStatuses
  <2>2. Len(jobs) + 1 \notin ActiveJobs(u)
    BY <1>1 DEF ActiveJobs
  <2> QED
    BY <2>1, <2>2, ActiveFinite, FS_AddElement DEF ActiveCount
<1> QED
  BY <1>3, <1>4, <1>5

(* A change of status ends at most the job's place among the active ones.  *)
LEMMA StatusCounts ==
  ASSUME QuotaTypeOK, NEW i \in 1..MaxJobs, NEW status \in Statuses, SetStatus(i, status)
  PROVE  /\ jobs' \in Seq([id : Nat, tenant : Tenants, status : Statuses])
         /\ Len(jobs') = Len(jobs) /\ \A k \in 1..Len(jobs) : jobs'[k].id = k
         /\ jobs[i].tenant \in Tenants
         /\ \A u \in Tenants :
              ActiveCount(u)' =
                IF u = jobs[i].tenant /\ jobs[i].status \in ActiveStatuses
                                      /\ status \notin ActiveStatuses
                  THEN ActiveCount(u) - 1 ELSE ActiveCount(u)
<1> DEFINE Jobs == [id : Nat, tenant : Tenants, status : Statuses]
<1>1. jobs \in Seq(Jobs) /\ i \in 1..Len(jobs) /\ jobs[i] \in Jobs
  <2>1. jobs \in Seq(Jobs) /\ i \in 1..Len(jobs)
    BY DEF QuotaTypeOK, SetStatus
  <2> QED
    BY <2>1, ElementOfSeq
<1> DEFINE job == [jobs[i] EXCEPT !.status = status]
<1>2. /\ jobs' \in Seq(Jobs) /\ Len(jobs') = Len(jobs)
      /\ \A k \in 1..Len(jobs) : k # i => jobs'[k] = jobs[k]
      /\ jobs'[i].id = jobs[i].id /\ jobs'[i].tenant = jobs[i].tenant /\ jobs'[i].status = status
  <2>1. jobs' = [jobs EXCEPT ![i] = job]
    BY DEF SetStatus
  <2>2. job \in Jobs /\ job.id = jobs[i].id /\ job.tenant = jobs[i].tenant /\ job.status = status
    BY <1>1
  <2> HIDE DEF job, Jobs
  <2> QED
    BY <1>1, <2>1, <2>2, ExceptSeq
<1>3. status \in ActiveStatuses => jobs[i].status \in ActiveStatuses
  BY <1>1 DEF SetStatus, CanTransition, ActiveStatuses
<1>4. ASSUME NEW u \in Tenants
      PROVE  ActiveCount(u)' =
                IF u = jobs[i].tenant /\ jobs[i].status \in ActiveStatuses
                                      /\ status \notin ActiveStatuses
                  THEN ActiveCount(u) - 1 ELSE ActiveCount(u)
  <2>1. CASE u = jobs[i].tenant /\ jobs[i].status \in ActiveStatuses /\ status \notin ActiveStatuses
    <3>1. ActiveJobs(u)' = ActiveJobs(u) \ {i} /\ i \in ActiveJobs(u)
      BY <1>1, <1>2, <2>1 DEF ActiveJobs
    <3>2. Cardinality(ActiveJobs(u) \ {i}) = Cardinality(ActiveJobs(u)) - 1
      BY <3>1, ActiveFinite, FS_RemoveElement
    <3> QED
      BY <2>1, <3>1, <3>2 DEF ActiveCount
  <2>2. CASE ~(u = jobs[i].tenant /\ jobs[i].status \in ActiveStatuses /\ status \notin ActiveStatuses)
    <3>1. ActiveJobs(u)' = ActiveJobs(u)
      BY <1>1, <1>2, <1>3, <2>2 DEF ActiveJobs
    <3> QED
      BY <2>2, <3>1 DEF ActiveCount
  <2> QED
    BY <2>1, <2>2
<1> QED
  BY <1>1, <1>2, <1>4 DEF QuotaTypeOK

(* The account of a case agrees with the repository.                       *)
HeldInv == held = [t \in Tenants |-> ActiveCount(t)] /\ issued = Len(jobs)

QuotaInv == QuotaTypeOK /\ QuotaHolds /\ HeldInv

LEMMA EmptyRepository ==
  ASSUME jobs = << >> PROVE \A t : ActiveCount(t) = 0
  BY FS_EmptySet DEF ActiveCount, ActiveJobs

LEMMA QuotaInitInv == EvaluationInit => QuotaInv
<1> SUFFICES ASSUME EvaluationInit PROVE QuotaInv
  OBVIOUS
<1>1. jobs = << >> /\ config = << >> /\ next_id = 1 /\ seeded = [t \in Tenants |-> 0]
  BY DEF EvaluationInit, QuotaInit
<1>2. QuotaTypeOK
  BY <1>1 DEF QuotaTypeOK
<1> QED
  BY <1>1, <1>2, EmptyRepository DEF QuotaInv, QuotaHolds, HeldInv, EvaluationInit

LEMMA ConstructTypes ==
  ASSUME QuotaTypeOK, NEW s \in Services, Construct(s)
  PROVE  /\ QuotaTypeOK'
         /\ \A x \in DOMAIN config, t \in Tenants :
              x \in DOMAIN config' /\ LimitOf(x, t)' = LimitOf(x, t)
<1>1. PICK c \in [default_limit : RawLimits, overrides : Overrides] :
        config' = IF ValidConfig(c)
                    THEN [x \in DOMAIN config \cup {s} |-> IF x = s THEN c ELSE config[x]]
                    ELSE config
  BY DEF Construct
<1>2. s \notin DOMAIN config /\ UNCHANGED <<jobs, next_id, seeded>>
  BY DEF Construct, repository
<1>3. ValidConfig(c) => c \in Configs
  <2> SUFFICES ASSUME ValidConfig(c) PROVE c \in Configs
    OBVIOUS
  <2>1. PICK T \in SUBSET Tenants : c.overrides \in [T -> RawLimits]
    BY <1>1 DEF Overrides
  <2>2. c.overrides \in [T -> RawLimits \cap Nat] /\ c.default_limit \in RawLimits \cap Nat
    BY <1>1, <2>1 DEF ValidConfig, ValidateLimit
  <2> QED
    BY <1>1, <2>2 DEF Configs
<1>4. QuotaTypeOK'
  BY <1>1, <1>2, <1>3 DEF QuotaTypeOK
<1>5. \A x \in DOMAIN config, t \in Tenants :
        x \in DOMAIN config' /\ LimitOf(x, t)' = LimitOf(x, t)
  BY <1>1, <1>2 DEF LimitOf
<1> QED
  BY <1>4, <1>5

LEMMA QuotaNextInv == QuotaInv /\ QuotaMoves => QuotaInv'
<1> SUFFICES ASSUME QuotaInv, QuotaMoves PROVE QuotaInv'
  OBVIOUS
<1> USE DEF QuotaInv
<1>1. CASE NewRepository /\ held' = [t \in Tenants |-> 0] /\ issued' = 0
  <2>1. jobs' = << >> /\ next_id' = 1 /\ config' = << >> /\ seeded' = [t \in Tenants |-> 0]
    BY <1>1 DEF NewRepository
  <2>2. QuotaTypeOK'
    BY <2>1 DEF QuotaTypeOK
  <2>3. \A t : ActiveCount(t)' = 0
    BY <2>1, FS_EmptySet DEF ActiveCount, ActiveJobs
  <2> QED
    BY <1>1, <2>1, <2>2, <2>3 DEF QuotaHolds, HeldInv
<1>2. CASE (\E s \in Services : Construct(s)) /\ UNCHANGED <<held, issued>>
  <2>1. PICK s \in Services : Construct(s)
    BY <1>2
  <2>2. \A t : ActiveCount(t)' = ActiveCount(t)
    BY <2>1 DEF Construct, repository, ActiveCount, ActiveJobs
  <2>3. UNCHANGED <<jobs, seeded>>
    BY <2>1 DEF Construct, repository
  <2> QED
    BY <1>2, <2>1, <2>2, <2>3, ConstructTypes DEF QuotaHolds, HeldInv
<1>3. ASSUME NEW t \in Tenants, Seed(t), held' = [held EXCEPT ![t] = @ + 1], issued' = issued + 1
      PROVE  QuotaInv'
  <2>1. CreateJob(t) /\ config = << >> /\ config' = config /\ seeded' = [seeded EXCEPT ![t] = @ + 1]
    BY <1>3 DEF Seed
  <2>2. QuotaTypeOK'
    <3>1. /\ jobs' \in Seq([id : Nat, tenant : Tenants, status : Statuses])
          /\ next_id' = Len(jobs') + 1 /\ \A i \in 1..Len(jobs') : jobs'[i].id = i
      BY <2>1, CreateCounts
    <3>2. seeded' \in [Tenants -> Nat]
      BY <2>1 DEF QuotaTypeOK
    <3> QED
      BY <2>1, <3>1, <3>2 DEF QuotaTypeOK
  <2>3. \A u \in Tenants : ActiveCount(u) \in Nat /\ seeded[u] \in Nat
    BY ActiveFinite DEF QuotaTypeOK
  <2>4. DOMAIN config = {}
    BY <2>1
  <2>5. \A u \in Tenants : ActiveCount(u) <= seeded[u]
    BY <2>4 DEF QuotaHolds
  <2>6. ASSUME NEW u \in Tenants PROVE ActiveCount(u)' <= seeded'[u]
    <3>1. ActiveCount(u)' = IF u = t THEN ActiveCount(u) + 1 ELSE ActiveCount(u)
      BY <2>1, CreateCounts
    <3>2. seeded'[u] = IF u = t THEN seeded[u] + 1 ELSE seeded[u]
      BY <2>1 DEF QuotaTypeOK
    <3>3. ActiveCount(u) \in Nat /\ seeded[u] \in Nat /\ ActiveCount(u) <= seeded[u]
      BY <2>3, <2>5
    <3> QED
      BY <3>1, <3>2, <3>3
  <2>7. HeldInv'
    BY <1>3, <2>1, <2>3, CreateCounts DEF HeldInv
  <2> QED
    BY <2>2, <2>6, <2>7 DEF QuotaHolds
<1>4. ASSUME NEW s \in Services, NEW t \in Tenants, SubmitAccepted(s, t),
             held' = [held EXCEPT ![t] = @ + 1], issued' = issued + 1
      PROVE  QuotaInv'
  <2>1. /\ CreateJob(t) /\ s \in DOMAIN config /\ config' = config /\ seeded' = seeded
        /\ ActiveCount(t) < LimitOf(s, t)
    BY <1>4 DEF SubmitAccepted
  <2>2. QuotaTypeOK'
    <3>1. /\ jobs' \in Seq([id : Nat, tenant : Tenants, status : Statuses])
          /\ next_id' = Len(jobs') + 1 /\ \A i \in 1..Len(jobs') : jobs'[i].id = i
      BY <2>1, CreateCounts
    <3> QED
      BY <2>1, <3>1 DEF QuotaTypeOK
  <2>3. \A u \in Tenants : ActiveCount(u) \in Nat
    BY ActiveFinite
  <2>4. \A x, u : LimitOf(x, u)' = LimitOf(x, u)
    BY <2>1 DEF LimitOf
  <2>5. ActiveCount(t)' <= LimitOf(s, t)'
    BY <2>1, <2>3, <2>4, CreateCounts, LimitType
  <2>6. \A u \in Tenants : u # t => ActiveCount(u)' = ActiveCount(u)
    BY <2>1, CreateCounts
  <2>7. QuotaHolds'
    BY <2>1, <2>4, <2>5, <2>6 DEF QuotaHolds
  <2>8. HeldInv'
    BY <1>4, <2>1, <2>3, CreateCounts DEF HeldInv
  <2> QED
    BY <2>2, <2>7, <2>8
<1>5. ASSUME NEW i \in 1..MaxJobs, NEW status \in Statuses, SetStatus(i, status),
             held' = IF jobs[i].status \in ActiveStatuses /\ status \notin ActiveStatuses
                       THEN [held EXCEPT ![jobs[i].tenant] = @ - 1] ELSE held,
             UNCHANGED issued
      PROVE  QuotaInv'
  <2>1. UNCHANGED <<next_id, config, seeded>>
    BY <1>5 DEF SetStatus
  <2>2. QuotaTypeOK'
    BY <1>5, <2>1, StatusCounts DEF QuotaTypeOK
  <2>3. \A u \in Tenants : ActiveCount(u) \in Nat /\ seeded[u] \in Nat
    BY ActiveFinite DEF QuotaTypeOK
  <2>4. \A x, u : LimitOf(x, u)' = LimitOf(x, u)
    BY <2>1 DEF LimitOf
  <2>5. ASSUME NEW u \in Tenants PROVE ActiveCount(u)' \in Int /\ ActiveCount(u)' <= ActiveCount(u)
    <3>1. ActiveCount(u)' = ActiveCount(u) - 1 \/ ActiveCount(u)' = ActiveCount(u)
      BY <1>5, StatusCounts
    <3>2. ActiveCount(u) \in Nat
      BY <2>3
    <3> QED
      BY <3>1, <3>2
  <2>6. \A x \in DOMAIN config, u \in Tenants : LimitOf(x, u) \in Nat
    BY LimitType
  <2>7. QuotaHolds'
    BY <2>1, <2>3, <2>4, <2>5, <2>6 DEF QuotaHolds
  <2>8. HeldInv'
    BY <1>5, <2>3, StatusCounts DEF HeldInv
  <2> QED
    BY <2>2, <2>7, <2>8
<1>6. CASE UNCHANGED <<quotaVars, held, issued>>
  <2>1. UNCHANGED <<jobs, next_id, config, seeded, held, issued>>
    BY <1>6 DEF quotaVars, repository
  <2>2. /\ \A u : ActiveCount(u)' = ActiveCount(u)
        /\ \A x, u : LimitOf(x, u)' = LimitOf(x, u)
    BY <2>1 DEF ActiveCount, ActiveJobs, LimitOf
  <2>3. QuotaTypeOK'
    BY <2>1 DEF QuotaTypeOK
  <2> QED
    BY <2>1, <2>2, <2>3 DEF QuotaHolds, HeldInv
<1> QED
  BY <1>1, <1>2, <1>3, <1>4, <1>5, <1>6 DEF QuotaMoves

LEMMA QuotaAlways == EvaluationSpec => []QuotaInv
<1>1. QuotaInv /\ [EvaluationNext]_evaluationVars => QuotaInv'
  BY QuotaSteps, QuotaNextInv
<1> QED
  BY QuotaInitInv, <1>1, PTL DEF EvaluationSpec

(* No sequence of submissions and changes of status, by whatever services  *)
(* over the repository, gives a tenant more active jobs than it may have.  *)
THEOREM QuotaIsKept == EvaluationSpec => []QuotaHolds
<1>1. QuotaInv => QuotaHolds
  BY DEF QuotaInv
<1> QED
  BY <1>1, QuotaAlways, PTL

-----------------------------------------------------------------------------
BatchMoves ==
  \/ NewProcessor \/ (\E p \in Profiles : Store(p)) \/ (\E batch \in Batches : Enrich(batch))
  \/ EnrichStep \/ Return
  \/ UNCHANGED batchVars

LEMMA BatchSteps == [EvaluationNext]_evaluationVars => BatchMoves
<1> SUFFICES ASSUME [EvaluationNext]_evaluationVars PROVE BatchMoves
  OBVIOUS
<1>1. CASE EvaluatorStep \/ EndCase
  BY <1>1 DEF EvaluatorStep, EndCase, SetUp, BatchMoves
<1>2. CASE Process
  BY <1>2 DEF Process, BatchMoves
<1>3. CASE Prepare \/ (\E s \in Services, t \in Tenants : Submit(s, t))
        \/ (\E i \in 1..MaxJobs, status \in Statuses : ChangeStatus(i, status))
        \/ Ended \/ UNCHANGED evaluationVars
  BY <1>3 DEF Prepare, Submit, ChangeStatus, Ended, evaluationVars, BatchMoves
<1> QED
  BY <1>1, <1>2, <1>3 DEF EvaluationNext

Outcome == [record : Records, version : Versions]
ReadFaults == {"MissingProfileError", "ProfileDecodeError", "ProfileValidationError"}

(* Nothing is left of a call but the profiles it resolved, which the next  *)
(* one does not look at.                                                   *)
IdleInv ==
  ~busy => /\ records = << >> /\ position = 0 /\ result = << >> /\ failure = "none"
           /\ reads = << >> /\ decodes = << >>

(* What a call keeps is what it has read, and that is still in the store.  *)
KeptInv ==
  busy /\ failure = "none" =>
    /\ DOMAIN profiles = {reads[k] : k \in 1..Len(reads)}
    /\ \A p \in DOMAIN profiles : profiles[p] = store[p] /\ store[p].fault = "none"

BatchInv == BatchTypeOK /\ IdleInv /\ KeptInv /\ AgreesWithBaseline /\ OneReadPerProfile

LEMMA StoredFaults ==
  ASSUME BatchTypeOK, NEW p \in Profiles
  PROVE  /\ store[p] \in Encoded \cup {Absent}
         /\ store[p].fault \in ReadFaults \cup {"none"}
         /\ store[p] = Absent <=> store[p].fault = "MissingProfileError"
         /\ store[p].fault = "none" => store[p] \in Metadata
  BY DEF BatchTypeOK, Encoded, Undecodable, Metadata, Absent, ReadFaults

LEMMA RecordType ==
  ASSUME BatchTypeOK, Working
  PROVE  /\ record \in Records /\ record.profile \in Profiles
         /\ position \in Nat /\ position + 1 \in 1..Len(records) /\ Len(records) \in Nat
         /\ \A i \in 1..(position + 1) : records[i] \in Records
<1>1. /\ records \in Seq(Records) /\ Len(records) \in Nat /\ position \in Nat
      /\ position + 1 \in 1..Len(records)
  BY DEF BatchTypeOK, Working
<1>2. \A i \in 1..(position + 1) : records[i] \in Records
  BY <1>1, ElementOfSeq
<1> QED
  BY <1>1, <1>2 DEF record, Records

(* Rendering with the profile as it is stored does what the start version  *)
(* does.                                                                   *)
LEMMA RenderAgrees ==
  ASSUME BatchTypeOK, AgreesWithBaseline, Working, store[record.profile].fault = "none",
         Render(store[record.profile]), UNCHANGED <<store, records>>
  PROVE  /\ AgreesWithBaseline'
         /\ result' \in Seq(Outcome) /\ position' \in 0..Len(records)
         /\ \/ position' = position + 1 /\ failure' = "none"
            \/ position' = position /\ failure' = "RecordValidationError"
<1> DEFINE profile == store[record.profile]
           entry == [record |-> record, version |-> profile.version]
<1>1. /\ record \in Records /\ record.profile \in Profiles /\ profile \in Metadata
      /\ position \in Nat /\ position + 1 \in 1..Len(records) /\ Len(records) \in Nat
      /\ result \in Seq(Outcome)
  BY RecordType, StoredFaults DEF BatchTypeOK, Outcome
<1>2. entry \in Outcome
  BY <1>1 DEF Outcome, Metadata
<1>3. CASE profile.required \subseteq record.fields
  <2>1. result' = Append(result, entry) /\ position' = position + 1 /\ failure' = failure
    BY <1>3 DEF Render
  <2>2. failure' = "none" /\ result' \in Seq(Outcome)
    BY <1>1, <1>2, <2>1 DEF Working
  <2>3. Baseline(record) = "none"
    BY <1>3 DEF Baseline
  <2>4. \A i \in 1..position' : Baseline(records[i])' = "none"
    <3>1. \A i : Baseline(records[i])' = Baseline(records[i])
      BY DEF Baseline
    <3>2. \A i \in 1..(position + 1) : i \in 1..position \/ i = position + 1
      BY <1>1
    <3>3. Baseline(records[position + 1]) = "none"
      BY <2>3 DEF record
    <3> QED
      BY <2>1, <3>1, <3>2, <3>3 DEF AgreesWithBaseline
  <2>5. result' = [i \in 1..position' |->
                     [record |-> records'[i], version |-> store'[records'[i].profile].version]]
    <3>1. Len(result) = position /\ \A i \in 1..position :
            result[i] = [record |-> records[i], version |-> store[records[i].profile].version]
      BY <1>1 DEF AgreesWithBaseline
    <3>2. Append(result, entry) = [i \in 1..(position + 1) |->
                                     IF i = position + 1 THEN entry ELSE result[i]]
      BY <1>1, <1>2, <3>1
    <3> QED
      BY <1>1, <2>1, <3>1, <3>2 DEF record
  <2> QED
    BY <1>1, <2>1, <2>2, <2>4, <2>5 DEF AgreesWithBaseline
<1>4. CASE ~(profile.required \subseteq record.fields)
  <2>1. failure' = "RecordValidationError" /\ result' = result /\ position' = position
    BY <1>4 DEF Render
  <2>2. Baseline(record)' = "RecordValidationError"
    BY <1>4, <2>1 DEF Baseline, record
  <2>3. AgreesWithBaseline'
    BY <2>1, <2>2 DEF AgreesWithBaseline, Baseline
  <2> QED
    BY <1>1, <2>1, <2>3
<1> QED
  BY <1>3, <1>4

(* How far a call has come in its batch.                                   *)
Ahead == IF failure = "none" THEN position ELSE position + 1

(* No record is read when its profile was resolved for an earlier one.     *)
LEMMA ReuseReads ==
  ASSUME BatchTypeOK, OneReadPerProfile, Working, UNCHANGED <<records, reads, decodes>>,
         record.profile \in {reads[k] : k \in 1..Len(reads)},
         Ahead' = position + 1, failure' # "MissingProfileError"
  PROVE  OneReadPerProfile'
<1>1. failure = "none" /\ Considered = 1..position /\ Considered' = 1..(position + 1)
  BY DEF Working, Considered, Ahead
<1>2. position \in Nat
  BY RecordType
<1>3. \A i \in Considered' : \E k \in 1..Len(reads) : reads[k] = records[i].profile
  <2>1. \A i \in 1..(position + 1) : i \in 1..position \/ i = position + 1
    BY <1>2
  <2>2. \E k \in 1..Len(reads) : reads[k] = records[position + 1].profile
    BY DEF record
  <2> QED
    BY <1>1, <2>1, <2>2 DEF OneReadPerProfile
<1>4. \A k : ReadBefore(k)' = ReadBefore(k) /\ ProfilesBefore(k)' = ProfilesBefore(k)
  BY DEF ReadBefore, ProfilesBefore
<1>5. Considered \subseteq Considered'
  BY <1>1, <1>2
<1> QED
  BY <1>1, <1>3, <1>4, <1>5 DEF OneReadPerProfile

(* A profile read for the first time comes after those of all records      *)
(* before.                                                                 *)
LEMMA ResolveReads ==
  ASSUME BatchTypeOK, OneReadPerProfile, Working, UNCHANGED records,
         record.profile \notin {reads[k] : k \in 1..Len(reads)},
         reads' = Append(reads, record.profile), Ahead' = position + 1,
         decodes' = IF failure' = "MissingProfileError" THEN decodes
                    ELSE Append(decodes, record.profile)
  PROVE  OneReadPerProfile'
<1> DEFINE n == Len(reads)
           p == record.profile
<1>1. failure = "none" /\ Considered = 1..position /\ Considered' = 1..(position + 1)
  BY DEF Working, Considered, Ahead
<1>2. position \in Nat /\ p \in Profiles /\ reads \in Seq(Profiles) /\ n \in Nat
  BY RecordType DEF BatchTypeOK
<1>3. Len(reads') = n + 1 /\ reads'[n + 1] = p /\ \A k \in 1..n : reads'[k] = reads[k]
  BY <1>2
<1>4. \A k \in 1..(n + 1) : ReadBefore(k)' = ReadBefore(k)
  BY <1>2, <1>3 DEF ReadBefore
<1>5. \A i : ProfilesBefore(i)' = ProfilesBefore(i)
  BY DEF ProfilesBefore
<1>6. ReadBefore(n + 1) = {reads[k] : k \in 1..n}
  BY <1>2 DEF ReadBefore
<1>7. ProfilesBefore(position + 1) = ReadBefore(n + 1)
  <2>1. ProfilesBefore(position + 1) = {records[i].profile : i \in 1..position}
    BY <1>2 DEF ProfilesBefore
  <2> QED
    <3>1. \A i \in 1..position : \E k \in 1..n : reads[k] = records[i].profile
      BY <1>1 DEF OneReadPerProfile
    <3>2. \A k \in 1..n : \E i \in 1..position : records[i].profile = reads[k]
      BY <1>1 DEF OneReadPerProfile
    <3>3. {records[i].profile : i \in 1..position} = {reads[k] : k \in 1..n}
      <4>1. ASSUME NEW i \in 1..position PROVE records[i].profile \in {reads[k] : k \in 1..n}
        BY <3>1
      <4>2. ASSUME NEW k \in 1..n PROVE reads[k] \in {records[i].profile : i \in 1..position}
        BY <3>2
      <4> QED
        BY <4>1, <4>2
    <3> QED
      BY <1>6, <2>1, <3>3
<1>8. \A i \in Considered' : \E k \in 1..Len(reads') : reads'[k] = records'[i].profile
  <2>1. \A i \in 1..(position + 1) : i \in 1..position \/ i = position + 1
    BY <1>2
  <2>2. reads'[n + 1] = records[position + 1].profile /\ n + 1 \in 1..Len(reads')
    BY <1>2, <1>3 DEF record
  <2>3. \A i \in 1..position : \E k \in 1..Len(reads') : reads'[k] = records[i].profile
    BY <1>1, <1>2, <1>3 DEF OneReadPerProfile
  <2> QED
    BY <1>1, <2>1, <2>2, <2>3
<1>9. ASSUME NEW k \in 1..Len(reads')
      PROVE  /\ reads'[k] \notin ReadBefore(k)'
             /\ \E i \in Considered' :
                  records'[i].profile = reads'[k] /\ ProfilesBefore(i)' = ReadBefore(k)'
  <2>1. CASE k = n + 1
    <3>1. position + 1 \in Considered' /\ records'[position + 1].profile = p
      BY <1>1, <1>2 DEF record
    <3> QED
      BY <1>2, <1>3, <1>4, <1>5, <1>6, <1>7, <2>1, <3>1
  <2>2. CASE k \in 1..n
    <3>1. Considered \subseteq Considered'
      BY <1>1, <1>2
    <3> QED
      BY <1>2, <1>3, <1>4, <1>5, <2>2, <3>1 DEF OneReadPerProfile
  <2> QED
    BY <1>2, <1>3, <2>1, <2>2
<1>10. decodes' = IF failure' = "MissingProfileError" THEN SubSeq(reads', 1, Len(reads') - 1)
                  ELSE reads'
  <2>1. decodes = reads
    BY <1>1 DEF OneReadPerProfile
  <2>2. SubSeq(reads', 1, Len(reads') - 1) = reads
    BY <1>2, <1>3
  <2> QED
    BY <2>1, <2>2
<1> QED
  BY <1>8, <1>9, <1>10 DEF OneReadPerProfile

LEMMA BatchInitInv == EvaluationInit => BatchInv
<1> SUFFICES ASSUME EvaluationInit PROVE BatchInv
  OBVIOUS
<1> USE DEF EvaluationInit, BatchInit
<1>1. BatchTypeOK
  <2>1. store \in [Profiles -> Encoded \cup {Absent}]
    BY Zenon
  <2>2. DOMAIN profiles = {}
    OBVIOUS
  <2>3. records \in Seq(Records) /\ Len(records) = 0 /\ position \in 0..Len(records)
    OBVIOUS
  <2>4. result \in Seq([record : Records, version : Versions])
    OBVIOUS
  <2>5. reads \in Seq(Profiles) /\ decodes \in Seq(Profiles)
    OBVIOUS
  <2> QED
    BY <2>1, <2>2, <2>3, <2>4, <2>5 DEF BatchTypeOK
<1>2. AgreesWithBaseline /\ OneReadPerProfile
  BY DEF AgreesWithBaseline, OneReadPerProfile, Considered
<1> QED
  BY <1>1, <1>2 DEF BatchInv, IdleInv, KeptInv

(* A call that begins or ends, and a change of the store between calls.    *)
LEMMA BoundaryKeeps ==
  ASSUME BatchInv,
         NewProcessor \/ (\E p \in Profiles : Store(p)) \/ (\E batch \in Batches : Enrich(batch))
           \/ Return
  PROVE  BatchInv'
<1>1. /\ position' = 0 /\ result' = << >> /\ failure' = "none"
      /\ reads' = << >> /\ decodes' = << >>
  BY DEF BatchInv, IdleInv, NewProcessor, Store, Enrich, Return, call
<1>2. AgreesWithBaseline' /\ OneReadPerProfile'
  BY <1>1 DEF AgreesWithBaseline, OneReadPerProfile, Considered
<1>3. records' \in Seq(Records) /\ (~busy' => records' = << >>)
  <2>1. \A batch \in Batches : batch \in Seq(Records)
    BY DEF Batches
  <2>2. CASE NewProcessor \/ Return
    <3>1. records' = << >>
      BY <2>2 DEF NewProcessor, Return
    <3> QED
      BY <3>1
  <2>3. CASE \E p \in Profiles : Store(p)
    BY <2>3 DEF Store, call, BatchInv, IdleInv
  <2>4. CASE \E batch \in Batches : Enrich(batch)
    BY <2>1, <2>4 DEF Enrich
  <2> QED
    BY <2>2, <2>3, <2>4
<1>4. store' \in [Profiles -> Encoded \cup {Absent}] /\ busy' \in BOOLEAN
  BY DEF BatchInv, BatchTypeOK, NewProcessor, Store, Enrich, Return, call
<1>5. busy' => profiles' = << >>
  BY DEF BatchInv, NewProcessor, Store, Enrich, Return, call
<1>6. /\ DOMAIN profiles' \subseteq Profiles
      /\ \A p \in DOMAIN profiles' : profiles'[p] \in Metadata
  BY DEF BatchInv, BatchTypeOK, NewProcessor, Store, Enrich, Return, call
<1>7. BatchTypeOK'
  BY <1>1, <1>3, <1>4, <1>6 DEF BatchTypeOK
<1>8. IdleInv'
  BY <1>1, <1>3 DEF IdleInv
<1>9. KeptInv'
  <2>1. busy' => DOMAIN profiles' = {}
    BY <1>5
  <2>2. {reads'[k] : k \in 1..Len(reads')} = {}
    BY <1>1
  <2> QED
    BY <2>1, <2>2 DEF KeptInv
<1> QED
  BY <1>2, <1>7, <1>8, <1>9 DEF BatchInv

LEMMA ReuseKeeps == ASSUME BatchInv, Reuse PROVE BatchInv'
<1> USE DEF BatchInv
<1>1. /\ Working /\ record.profile \in DOMAIN profiles /\ Render(profiles[record.profile])
      /\ UNCHANGED <<store, busy, records, profiles, reads, decodes>>
  BY DEF Reuse
<1>2. /\ DOMAIN profiles = {reads[k] : k \in 1..Len(reads)}
      /\ \A p \in DOMAIN profiles : profiles[p] = store[p] /\ store[p].fault = "none"
  BY <1>1 DEF Working, KeptInv
<1>3. /\ AgreesWithBaseline' /\ result' \in Seq(Outcome) /\ position' \in 0..Len(records)
      /\ \/ position' = position + 1 /\ failure' = "none"
         \/ position' = position /\ failure' = "RecordValidationError"
  BY <1>1, <1>2, RenderAgrees
<1>4. OneReadPerProfile'
  BY <1>1, <1>2, <1>3, ReuseReads DEF Ahead
<1>5. BatchTypeOK'
  BY <1>1, <1>3 DEF BatchTypeOK, Outcome
<1> QED
  BY <1>1, <1>2, <1>3, <1>4, <1>5 DEF IdleInv, KeptInv, Working

LEMMA ResolveKeeps == ASSUME BatchInv, Resolve PROVE BatchInv'
<1> USE DEF BatchInv
<1> DEFINE p == record.profile
<1>1. /\ Working /\ p \notin DOMAIN profiles /\ store[p].fault = "none"
      /\ reads' = Append(reads, p) /\ decodes' = Append(decodes, p)
      /\ profiles' = [q \in DOMAIN profiles \cup {p} |-> IF q = p THEN store[q] ELSE profiles[q]]
      /\ Render(store[p]) /\ UNCHANGED <<store, busy, records>>
  BY DEF Resolve
<1>2. /\ DOMAIN profiles = {reads[k] : k \in 1..Len(reads)}
      /\ \A q \in DOMAIN profiles : profiles[q] = store[q] /\ store[q].fault = "none"
  BY <1>1 DEF Working, KeptInv
<1>3. /\ AgreesWithBaseline' /\ result' \in Seq(Outcome) /\ position' \in 0..Len(records)
      /\ \/ position' = position + 1 /\ failure' = "none"
         \/ position' = position /\ failure' = "RecordValidationError"
  BY <1>1, RenderAgrees
<1>4. OneReadPerProfile'
  BY <1>1, <1>2, <1>3, ResolveReads DEF Ahead
<1>5. p \in Profiles /\ store[p] \in Metadata /\ reads \in Seq(Profiles) /\ decodes \in Seq(Profiles)
  BY <1>1, RecordType, StoredFaults DEF BatchTypeOK
<1>6. BatchTypeOK'
  BY <1>1, <1>3, <1>5 DEF BatchTypeOK, Outcome
<1>7. {reads'[k] : k \in 1..Len(reads')} = DOMAIN profiles'
  <2>1. Len(reads') = Len(reads) + 1 /\ reads'[Len(reads) + 1] = p /\ Len(reads) \in Nat
        /\ \A k \in 1..Len(reads) : reads'[k] = reads[k]
    BY <1>1, <1>5
  <2>2. {reads'[k] : k \in 1..(Len(reads) + 1)} = {reads[k] : k \in 1..Len(reads)} \cup {p}
    <3>1. \A k \in 1..(Len(reads) + 1) : k \in 1..Len(reads) \/ k = Len(reads) + 1
      BY <2>1
    <3>2. \A k \in 1..Len(reads) : k \in 1..(Len(reads) + 1)
      BY <2>1
    <3>3. Len(reads) + 1 \in 1..(Len(reads) + 1)
      BY <2>1
    <3> QED
      BY <2>1, <3>1, <3>2, <3>3
  <2> QED
    BY <1>1, <1>2, <2>1, <2>2
<1> QED
  BY <1>1, <1>2, <1>3, <1>4, <1>6, <1>7 DEF IdleInv, KeptInv, Working

LEMMA ResolveFailsKeeps == ASSUME BatchInv, ResolveFails PROVE BatchInv'
<1> USE DEF BatchInv
<1> DEFINE p == record.profile
<1>1. /\ Working /\ p \notin DOMAIN profiles /\ store[p].fault # "none"
      /\ failure' = store[p].fault /\ reads' = Append(reads, p)
      /\ decodes' = IF store[p] = Absent THEN decodes ELSE Append(decodes, p)
      /\ UNCHANGED <<store, busy, records, position, profiles, result>>
  BY DEF ResolveFails
<1>2. DOMAIN profiles = {reads[k] : k \in 1..Len(reads)}
  BY <1>1 DEF Working, KeptInv
<1>3. p \in Profiles /\ store[p].fault \in ReadFaults
      /\ (store[p] = Absent <=> store[p].fault = "MissingProfileError")
      /\ reads \in Seq(Profiles) /\ decodes \in Seq(Profiles)
  BY <1>1, RecordType, StoredFaults DEF BatchTypeOK
<1>4. OneReadPerProfile'
  BY <1>1, <1>2, <1>3, ResolveReads DEF Ahead
<1>5. AgreesWithBaseline'
  <2>1. \A i : Baseline(records[i])' = Baseline(records[i])
    BY <1>1 DEF Baseline
  <2>2. failure' = Baseline(record)'
    BY <1>1 DEF Baseline, record
  <2> QED
    BY <1>1, <2>1, <2>2 DEF AgreesWithBaseline
<1>6. BatchTypeOK'
  BY <1>1, <1>3 DEF BatchTypeOK, ReadFaults
<1> QED
  BY <1>1, <1>4, <1>5, <1>6 DEF IdleInv, KeptInv, Working

LEMMA BatchNextInv == BatchInv /\ BatchMoves => BatchInv'
<1> SUFFICES ASSUME BatchInv, BatchMoves PROVE BatchInv'
  OBVIOUS
<1>1. CASE UNCHANGED batchVars
  <2> USE <1>1 DEF batchVars, call, BatchInv
  <2>1. BatchTypeOK' /\ IdleInv'
    BY DEF BatchTypeOK, IdleInv
  <2>2. KeptInv'
    BY DEF KeptInv
  <2>3. AgreesWithBaseline'
    BY DEF AgreesWithBaseline, Baseline, record
  <2>4. OneReadPerProfile'
    <3>1. /\ Considered' = Considered
          /\ \A k : ReadBefore(k)' = ReadBefore(k) /\ ProfilesBefore(k)' = ProfilesBefore(k)
      BY DEF Considered, ProfilesBefore, ReadBefore
    <3> QED
      BY <3>1 DEF OneReadPerProfile
  <2> QED
    BY <2>1, <2>2, <2>3, <2>4
<1> QED
  BY <1>1, BoundaryKeeps, ReuseKeeps, ResolveKeeps, ResolveFailsKeeps DEF BatchMoves, EnrichStep

LEMMA BatchAlways == EvaluationSpec => []BatchInv
<1>1. BatchInv /\ [EvaluationNext]_evaluationVars => BatchInv'
  BY BatchSteps, BatchNextInv
<1> QED
  BY BatchInitInv, <1>1, PTL DEF EvaluationSpec

(* A batch of any length comes to what the start version comes to: the     *)
(* same results or the same MissingProfileError.                           *)
THEOREM BatchAgrees == EvaluationSpec => []AgreesWithBaseline
<1>1. BatchInv => AgreesWithBaseline
  BY DEF BatchInv
<1> QED
  BY <1>1, BatchAlways, PTL

(* It costs one read and one decode of each profile it needs, and no more. *)
THEOREM BatchReadsOnce == EvaluationSpec => []OneReadPerProfile
<1>1. BatchInv => OneReadPerProfile
  BY DEF BatchInv
<1> QED
  BY <1>1, BatchAlways, PTL

-----------------------------------------------------------------------------
(* No check of a reference solution fails, so its suite runs to the end    *)
(* and gives a document.                                                   *)
ReferenceInv ==
  candidate # "other" =>
    /\ good /\ failed_cases = {} /\ ~skipped /\ ~stopped /\ ~changed
    /\ epc = "exit" => printed # None

(* Every comparison of a case comes out as the case expects.               *)
LEMMA ChecksHold ==
  ASSUME QuotaInv, BatchInv, good, [EvaluationNext]_evaluationVars
  PROVE  good'
<1>1. CASE \E s \in Services, t \in Tenants : Submit(s, t)
  <2>1. PICK s \in Services, t \in Tenants : Submit(s, t)
    BY <1>1
  <2>2. held[t] = ActiveCount(t) /\ issued = Len(jobs) /\ next_id = issued + 1
    BY DEF QuotaInv, HeldInv, QuotaTypeOK
  <2>3. SubmitAnswer(s, t) = Expected(s, t)
    BY <2>2 DEF SubmitAnswer, Expected
  <2>4. Len(jobs') = issued'
    <3>1. CASE SubmitAccepted(s, t) /\ issued' = issued + 1
      BY <2>2, <3>1, CreateCounts DEF SubmitAccepted, QuotaInv
    <3>2. CASE SubmitRejected(s, t) /\ UNCHANGED <<held, issued>>
      BY <2>2, <3>2 DEF SubmitRejected, quotaVars, repository
    <3> QED
      BY <2>1, <3>1, <3>2 DEF Submit
  <2>5. good' = (SubmitAnswer(s, t) = Expected(s, t) /\ Len(jobs') = issued')
    BY <2>1 DEF Submit
  <2> QED
    BY <2>3, <2>4, <2>5
<1>2. CASE Process
  BY <1>2 DEF Process, BatchInv
<1>3. CASE EvaluatorStep \/ EndCase
  BY <1>3 DEF EvaluatorStep, EndCase, SetUp, caseVars
<1>4. CASE Prepare
  BY <1>4 DEF Prepare, caseVars
<1>5. CASE \E i \in 1..MaxJobs, status \in Statuses : ChangeStatus(i, status)
  BY <1>5 DEF ChangeStatus
<1>6. CASE Ended \/ UNCHANGED evaluationVars
  BY <1>6 DEF Ended, evaluationVars, caseVars
<1> QED
  BY <1>1, <1>2, <1>3, <1>4, <1>5, <1>6 DEF EvaluationNext

EvaluationInv == EvaluatorInv /\ QuotaInv /\ BatchInv

LEMMA ReferenceNext ==
  NumCases > 0 =>
    (EvaluationInv /\ ReferenceInv /\ [EvaluationNext]_evaluationVars => ReferenceInv')
<1> SUFFICES ASSUME NumCases > 0, EvaluationInv, ReferenceInv, [EvaluationNext]_evaluationVars,
                    candidate # "other"
             PROVE  ReferenceInv'
  BY EvaluatorSteps DEF ReferenceInv
<1>1. /\ good /\ failed_cases = {} /\ ~skipped /\ ~stopped /\ ~changed
      /\ epc = "exit" => printed # None
  BY DEF ReferenceInv
<1>2. good' /\ candidate' = candidate
  BY <1>1, ChecksHold, EvaluatorSteps DEF EvaluationInv
<1>3. Framework \/ Succeeds \/ UNCHANGED evaluatorVars
  BY <1>1, EvaluatorSteps DEF EvaluatorMoves
<1>4. ~GiveUp
  <2>1. Cases # {}
    BY DEF Cases
  <2> QED
    BY <1>1, <2>1 DEF GiveUp, SuiteEnds, Established, TestsRun
<1>5. CASE Report
  <2>1. printed' # None
    BY <1>5, CountTypes DEF Report, Exit, Verdict, EvaluationInv, EvaluatorInv
  <2> QED
    BY <1>1, <1>2, <1>5, <2>1 DEF Report, ReferenceInv
<1>6. CASE Load \/ (\E c \in Cases : StartTest(c)) \/ Succeeds
  BY <1>1, <1>2, <1>6 DEF Load, StartTest, Succeeds, StopTest, ReferenceInv
<1>7. CASE UNCHANGED evaluatorVars
  BY <1>1, <1>2, <1>7 DEF evaluatorVars, ReferenceInv
<1> QED
  BY <1>3, <1>4, <1>5, <1>6, <1>7 DEF Framework

LEMMA ReferenceFollows ==
  ASSUME EvaluatorInv, ReferenceInv PROVE ReferencePasses
<1> SUFFICES ASSUME candidate # "other", epc = "exit" PROVE Interpret(Measured).passed
  BY DEF ReferencePasses
<1>1. printed # None /\ failed_cases = {}
  BY DEF ReferenceInv
<1>2. Failed = 0
  BY <1>1, FS_EmptySet DEF Failed
<1>3. Interpret(Measured) =
        [passed |-> Failed = 0, tests_passed |-> TestsRun - Failed,
         tests_failed |-> Failed, exit_code |-> exit_code, details |-> Failed # 0]
  BY <1>1, InterpretMeasured
<1>4. Interpret(Measured).passed = (Failed = 0)
  BY <1>3
<1> QED
  BY <1>2, <1>4

LEMMA EvaluationInvAlways == EvaluationSpec => []EvaluationInv
<1>1. EvaluationInit => EvaluationInv
  BY EvaluatorInitInv, QuotaInitInv, BatchInitInv DEF EvaluationInv
<1>2. EvaluationInv /\ [EvaluationNext]_evaluationVars => EvaluationInv'
  BY EvaluatorSteps, EvaluatorNext, QuotaSteps, QuotaNextInv, BatchSteps, BatchNextInv
     DEF EvaluationInv
<1> QED
  BY <1>1, <1>2, PTL DEF EvaluationSpec

(* Evaluator, services and processor keep their types; no job number is    *)
(* given twice.                                                            *)
THEOREM EvaluationTypeCorrect ==
  EvaluationSpec => [](EvaluatorTypeOK /\ QuotaTypeOK /\ BatchTypeOK)
<1>1. EvaluationInv => EvaluatorTypeOK /\ QuotaTypeOK /\ BatchTypeOK
  BY DEF EvaluationInv, EvaluatorInv, QuotaInv, BatchInv
<1> QED
  BY <1>1, EvaluationInvAlways, PTL

(* A suite with at least one case passes the reference solutions, whatever *)
(* calls its cases make.                                                   *)
THEOREM ReferencesPass ==
  ASSUME NumCases > 0
  PROVE  EvaluationSpec => []ReferencePasses
<1>1. EvaluationInit => ReferenceInv
  BY DEF EvaluationInit, EvaluatorInit, ReferenceInv
<1>2. EvaluationInv /\ ReferenceInv /\ [EvaluationNext]_evaluationVars => ReferenceInv'
  BY ReferenceNext
<1>3. EvaluationInv /\ ReferenceInv => ReferencePasses
  BY ReferenceFollows DEF EvaluationInv
<1> QED
  BY <1>1, <1>2, <1>3, EvaluationInvAlways, PTL DEF EvaluationSpec
=============================================================================
