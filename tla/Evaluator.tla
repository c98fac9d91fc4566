----------------------------- MODULE Evaluator -----------------------------
(***************************************************************************)
(* The runner of the example evaluators (__main__.py, the same in all      *)
(* three): a unittest suite runs against a candidate inside the same       *)
(* interpreter, failures are counted by test method, and one document is   *)
(* printed if the suite ran completely.  What the framework makes of the   *)
(* process is VerifierProtocol's Interpret.                                *)
(*                                                                         *)
(* The candidate is code of somebody else: a case may fail in several      *)
(* subcases, fail as a whole, be skipped, change the evaluator's files or  *)
(* end the interpreter.  It does not write to the process's own stdout,    *)
(* which __main__.py names as its trust boundary.                          *)
(***************************************************************************)
EXTENDS VerifierProtocol, FiniteSets

CONSTANT NumCases   \* how many test methods the suite has

ASSUME EvaluatorAssumption ==
  /\ NumCases \in Nat /\ None \notin Nat
  /\ 0..NumCases \subseteq Counts /\ {0, 1, 2} \subseteq ExitCodes /\ FALSE \in Faults

VARIABLES
  epc,           \* "start", "suite", "case", or "exit"
  case,          \* the test method running, or None
  ran,           \* the test methods started; testsRun is their number
  failed_cases,  \* ObservedResult.failed_cases
  skipped,       \* result.skipped is not empty
  stopped,       \* result.shouldStop
  changed,       \* the files no longer have the fingerprints taken before
  printed,       \* the document on stdout, or None
  exit_code,     \* how the process ended, or None
  outcome        \* history: what each test method has come to

(* The test methods, in the order of their names, which is that of the     *)
(* suite.                                                                  *)
Cases == 1..NumCases

evaluatorVars ==
  <<epc, case, ran, failed_cases, skipped, stopped, changed, printed, exit_code, outcome>>

EvaluatorInit ==
  /\ epc = "start" /\ case = None /\ ran = {}
  /\ failed_cases = {} /\ skipped = FALSE /\ stopped = FALSE /\ changed = FALSE
  /\ printed = None /\ exit_code = None
  /\ outcome = [c \in Cases |-> "none"]

Exit(code, document) ==
  /\ epc' = "exit" /\ exit_code' = code /\ printed' = document

(* No src/ in the workspace, or the evaluator is part of it.               *)
Refuse ==
  /\ epc = "start"
  /\ Exit(2, None)
  /\ UNCHANGED <<case, ran, failed_cases, skipped, stopped, changed, outcome>>

(* The suite is loaded and the fingerprint taken before the candidate can  *)
(* be imported.                                                            *)
Load ==
  /\ epc = "start" /\ epc' = "suite"
  /\ UNCHANGED <<case, ran, failed_cases, skipped, stopped, changed, printed, exit_code, outcome>>

StartTest(c) ==
  /\ epc = "suite" /\ ~stopped
  /\ c \in Cases \ ran /\ 1..(c - 1) \subseteq ran
  /\ epc' = "case" /\ case' = c /\ ran' = ran \cup {c}
  /\ outcome' = [outcome EXCEPT ![c] = "passed"]
  /\ UNCHANGED <<failed_cases, skipped, stopped, changed, printed, exit_code>>

(* Mutant: failed subcases are left to the base class.                     *)
AddSubTestOnly ==
  /\ epc = "case"
  /\ outcome' = [outcome EXCEPT ![case] = "failed"]
  /\ UNCHANGED <<epc, case, ran, failed_cases, skipped, stopped, changed, printed, exit_code>>

(* A subcase fails; the test method goes on.                               *)
AddSubTest ==
  /\ epc = "case"
  /\ failed_cases' = failed_cases \cup {case}
  /\ outcome' = [outcome EXCEPT ![case] = "failed"]
  /\ UNCHANGED <<epc, case, ran, skipped, stopped, changed, printed, exit_code>>

StopTest == epc' = "suite" /\ case' = None

Succeeds ==
  /\ epc = "case" /\ StopTest
  /\ UNCHANGED <<ran, failed_cases, skipped, stopped, changed, printed, exit_code, outcome>>

(* addFailure and addError: an assertion, or any other exception.          *)
AddFailure ==
  /\ epc = "case" /\ StopTest
  /\ failed_cases' = failed_cases \cup {case}
  /\ outcome' = [outcome EXCEPT ![case] = "failed"]
  /\ UNCHANGED <<ran, skipped, stopped, changed, printed, exit_code>>

(* SkipTest, raised by the candidate's code.                               *)
AddSkip ==
  /\ epc = "case" /\ StopTest
  /\ skipped' = TRUE
  /\ outcome' = [outcome EXCEPT ![case] = "skipped"]
  /\ UNCHANGED <<ran, failed_cases, stopped, changed, printed, exit_code>>

Change ==
  /\ epc = "case" /\ changed' = TRUE
  /\ UNCHANGED <<epc, case, ran, failed_cases, skipped, stopped, printed, exit_code, outcome>>

CallStop ==
  /\ epc = "case" /\ stopped' = TRUE
  /\ UNCHANGED <<epc, case, ran, failed_cases, skipped, changed, printed, exit_code, outcome>>

(* The interpreter is ended inside a case, by os._exit or an interrupt.    *)
Die(code) ==
  /\ epc = "case"
  /\ Exit(code, None)
  /\ UNCHANGED <<case, ran, failed_cases, skipped, stopped, changed, outcome>>

TestsRun == Cardinality(ran)
Failed == Cardinality(failed_cases)

SuiteEnds == epc = "suite" /\ (ran = Cases \/ stopped)

Established ==
  /\ Cases # {} /\ TestsRun = Cardinality(Cases)
  /\ ~skipped /\ ~changed

(* Complete execution could not be established: no document.               *)
GiveUp ==
  /\ SuiteEnds /\ ~Established
  /\ Exit(2, None)
  /\ UNCHANGED <<case, ran, failed_cases, skipped, stopped, changed, outcome>>

Report ==
  /\ SuiteEnds /\ Established
  /\ Exit(IF Failed = 0 THEN 0 ELSE 1,
          [passed |-> Failed = 0, tests_passed |-> TestsRun - Failed,
           tests_failed |-> Failed, details |-> Failed # 0])
  /\ UNCHANGED <<case, ran, failed_cases, skipped, stopped, changed, outcome>>

Framework == Load \/ (\E c \in Cases : StartTest(c)) \/ GiveUp \/ Report

Candidate ==
  \/ AddSubTest \/ Succeeds \/ AddFailure \/ AddSkip \/ Change \/ CallStop
  \/ \E code \in ExitCodes : Die(code)
-----------------------------------------------------------------------------
(* Every variable of the evaluator has its type.                           *)
EvaluatorTypeOK ==
  /\ epc \in {"start", "suite", "case", "exit"} /\ case \in Cases \cup {None}
  /\ ran \subseteq Cases /\ failed_cases \subseteq ran
  /\ skipped \in BOOLEAN /\ stopped \in BOOLEAN /\ changed \in BOOLEAN
  /\ printed \in Document \cup {None} /\ exit_code \in ExitCodes \cup {None}
  /\ outcome \in [Cases -> {"none", "passed", "failed", "skipped"}]

(* The process as the runner measures it: in time, its output complete.    *)
Measured ==
  [exit_code |-> exit_code, timed_out |-> FALSE, stdout_truncated |-> FALSE,
   stderr_truncated |-> FALSE, stdout_decode_errors |-> FALSE, stdout |-> printed]

Came(to) == {c \in Cases : outcome[c] = to}

(* What the framework reports of an evaluator is what happened in it: a    *)
(* pass needs every test method to have run and none to have failed, even  *)
(* in a subcase; counts, when there are any, are those of the suite; and a *)
(* candidate that skips, stops or changes the suite gets no verdict of it. *)
VerdictIsMeasured ==
  epc = "exit" =>
    LET v == Interpret(Measured)
    IN /\ v.passed => Cases # {} /\ Came("passed") = Cases /\ ~changed
       /\ v.tests_passed # None =>
            /\ v.tests_passed = Cardinality(Came("passed"))
            /\ v.tests_failed = Cardinality(Came("failed"))
            /\ v.tests_passed + v.tests_failed = Cardinality(Cases)
       /\ (skipped \/ changed \/ ran # Cases) => v = Unavailable(exit_code)
=============================================================================
