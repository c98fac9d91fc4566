----------------------------- MODULE Evaluation -----------------------------
(***************************************************************************)
(* An example evaluator at work on a candidate: the reference solution of  *)
(* the quota task, that of the metadata task, or any other code.  Where    *)
(* checks.py has scripts, a case here is any sequence of calls the bounds  *)
(* allow, on a service made for it, and what the scripts expect is what    *)
(* the helpers of checks.py compare: the evaluator keeps its own count of  *)
(* the active jobs, and knows what each record comes to by itself.         *)
(***************************************************************************)
EXTENDS Evaluator, QuotaService, BatchProcessor

VARIABLES
  candidate,  \* whose code is evaluated
  good,       \* no check of the running case has failed
  held,       \* the active jobs of each tenant, as the case reckons
  issued      \* the jobs made in the case

caseVars == <<good, held, issued>>
evaluationVars == <<evaluatorVars, quotaVars, batchVars, candidate, caseVars>>

EvaluationInit ==
  /\ EvaluatorInit /\ QuotaInit /\ BatchInit
  /\ candidate \in {"quota", "batch", "other"}
  /\ good = TRUE /\ held = [t \in Tenants |-> 0] /\ issued = 0

(* Each case constructs what it uses (service, setUp).                     *)
SetUp ==
  /\ NewRepository /\ NewProcessor
  /\ good' = TRUE /\ held' = [t \in Tenants |-> 0] /\ issued' = 0

EvaluatorStep ==
  /\ Framework \/ (candidate = "other" /\ (Refuse \/ Candidate))
  /\ IF case' # case THEN SetUp ELSE UNCHANGED <<quotaVars, batchVars, caseVars>>
  /\ UNCHANGED candidate

(* The next call of a script; a check that failed has ended the case.      *)
Calls(c) ==
  /\ epc = "case" /\ candidate = c /\ good
  /\ UNCHANGED <<evaluatorVars, candidate>>

Prepare ==
  /\ Calls("quota")
  /\ \/ /\ \E s \in Services : Construct(s)
        /\ UNCHANGED caseVars
     \/ \E t \in Tenants :
          Seed(t) /\ held' = [held EXCEPT ![t] = @ + 1] /\ issued' = issued + 1 /\ UNCHANGED good
  /\ UNCHANGED batchVars

(* QuotaContract.rejected, and the id that an accepted job has to have.    *)
Expected(s, t) ==
  IF held[t] >= LimitOf(s, t)
    THEN [error |-> "QuotaExceededError", limit |-> LimitOf(s, t), active |-> held[t]]
    ELSE [error |-> "", id |-> issued + 1]

Submit(s, t) ==
  /\ Calls("quota")
  /\ \/ /\ SubmitAccepted(s, t)
        /\ held' = [held EXCEPT ![t] = @ + 1] /\ issued' = issued + 1
     \/ /\ SubmitRejected(s, t)
        /\ UNCHANGED <<held, issued>>
  /\ good' = (SubmitAnswer(s, t) = Expected(s, t) /\ Len(jobs') = issued')
  /\ UNCHANGED batchVars

(* A job that ends releases its place.                                     *)
ChangeStatus(i, status) ==
  /\ Calls("quota")
  /\ \/ /\ SetStatus(i, status)
        /\ held' = IF jobs[i].status \in ActiveStatuses /\ status \notin ActiveStatuses
                     THEN [held EXCEPT ![jobs[i].tenant] = @ - 1] ELSE held
     \/ SetStatusRefused(i, status) /\ UNCHANGED held
  /\ UNCHANGED <<batchVars, good, issued>>

Process ==
  /\ Calls("batch")
  /\ \/ ((\E p \in Profiles : Store(p)) \/ (\E batch \in Batches : Enrich(batch)) \/ EnrichStep)
        /\ UNCHANGED good
     \/ Return /\ good' = (AgreesWithBaseline /\ OneReadPerProfile)
  /\ UNCHANGED <<quotaVars, held, issued>>

(* The end of a case: assertions raise.                                    *)
EndCase ==
  /\ candidate # "other" /\ epc = "case" /\ ~busy
  /\ IF good THEN Succeeds ELSE AddFailure
  /\ SetUp
  /\ UNCHANGED candidate

Ended == epc = "exit" /\ UNCHANGED evaluationVars

EvaluationNext ==
  \/ EvaluatorStep \/ Prepare
  \/ \E s \in Services, t \in Tenants : Submit(s, t)
  \/ \E i \in 1..MaxJobs, status \in Statuses : ChangeStatus(i, status)
  \/ Process \/ EndCase \/ Ended

EvaluationSpec == EvaluationInit /\ [][EvaluationNext]_evaluationVars
-----------------------------------------------------------------------------
(* A reference solution passes its evaluator, whatever legal calls the     *)
(* cases make and in whatever order, as the repository's tests expect of   *)
(* the scripts there are.                                                  *)
ReferencePasses ==
  candidate # "other" /\ epc = "exit" => Interpret(Measured).passed
=============================================================================
