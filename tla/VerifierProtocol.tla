-------------------------- MODULE VerifierProtocol --------------------------
(***************************************************************************)
(* How the captured outcome of a verifier becomes a verdict, and the       *)
(* contracts every verdict has to satisfy: evaluation/parser.py, adapters, *)
(* the interpretation part of evaluation/verifier.py, and the validators   *)
(* of core/result.py.  Texts are reduced to whether they are there.        *)
(***************************************************************************)
EXTENDS Integers

CONSTANTS
  None,        \* Python's None
  ExitCodes,   \* exit codes a process can be observed with
  Faults,      \* values of the three flags that say output was cut off or undecodable
  Counts       \* numbers of tests a document can report

ASSUME ProtocolAssumption ==
  /\ ExitCodes \subseteq Int /\ Counts \subseteq Nat /\ Faults \subseteq BOOLEAN
  /\ None \notin ExitCodes \cup Counts

(* The fields of a JSON document whose types are right; details says that  *)
(* there is at least one line of them.                                     *)
Document ==
  [passed: BOOLEAN, tests_passed: Counts, tests_failed: Counts, details: BOOLEAN]

(* VerifierDocument.counts_agree.                                          *)
CountsAgree(d) ==
  /\ d.passed <=> (d.tests_passed > 0 /\ d.tests_failed = 0)
  /\ d.passed \/ d.details

(* A measured execution; stdout is the document it parses to, or None for  *)
(* any output that is not one well-typed document.                         *)
Execution ==
  [exit_code: ExitCodes \cup {None}, timed_out: BOOLEAN,
   stdout_truncated: Faults, stderr_truncated: Faults,
   stdout_decode_errors: Faults, stdout: Document \cup {None}]

(* Mutant: a claim of success is not compared with the exit code.          *)
ProtocolErrorAnyExit(e) ==
  \/ e.timed_out
  \/ e.stdout_truncated \/ e.stderr_truncated
  \/ e.stdout_decode_errors
  \/ e.stdout = None
  \/ e.stdout # None /\ ~CountsAgree(e.stdout)

(* Mutant: only stdout has to be complete.                                 *)
ProtocolErrorStdoutOnly(e) ==
  \/ e.timed_out
  \/ e.stdout_truncated
  \/ e.stdout_decode_errors
  \/ e.stdout = None
  \/ e.stdout # None /\ ~CountsAgree(e.stdout)
  \/ e.stdout # None /\ e.stdout.passed /\ e.exit_code # 0

(* JsonVerifierAdapter.parse_result raises VerifierProtocolError.          *)
ProtocolError(e) ==
  \/ e.timed_out
  \/ e.stdout_truncated \/ e.stderr_truncated
  \/ e.stdout_decode_errors
  \/ e.stdout = None
  \/ e.stdout # None /\ ~CountsAgree(e.stdout)
  \/ e.stdout # None /\ e.stdout.passed /\ e.exit_code # 0

VerificationResult ==
  [passed: BOOLEAN, tests_passed: Counts \cup {None}, tests_failed: Counts \cup {None},
   exit_code: ExitCodes \cup {None}, details: BOOLEAN]

(* Python's None is none of the other values it stands beside.             *)
ASSUME NoneAssumption ==
  None \notin Document /\ None \notin Execution /\ None \notin VerificationResult

(* A failed verification whose test counts are not known.                  *)
Unavailable(exit_code) ==
  [passed |-> FALSE, tests_passed |-> None, tests_failed |-> None,
   exit_code |-> exit_code, details |-> TRUE]

(* What BehavioralVerifier.verify makes of an execution; None stands for a *)
(* ProcessError instead of one.                                            *)
Interpret(e) ==
  IF e = None THEN Unavailable(None)
  ELSE IF ProtocolError(e) THEN Unavailable(e.exit_code)
  ELSE [passed |-> e.stdout.passed, tests_passed |-> e.stdout.tests_passed,
        tests_failed |-> e.stdout.tests_failed, exit_code |-> e.exit_code,
        details |-> e.stdout.details]

(* VerificationResult.success_has_evidence accepts v.                      *)
SuccessHasEvidence(v) ==
  /\ v.tests_passed = None <=> v.tests_failed = None
  /\ v.passed => v.exit_code = 0 /\ v.tests_failed = 0 /\ v.tests_passed \notin {None, 0}
  /\ v.passed \/ v.details

(* TaskResult.terminal_status_agrees accepts r.                            *)
TerminalStatusAgrees(r) ==
  IF r.status = "completed"
    THEN /\ ~r.retained
         /\ r.verification # None /\ r.verification.passed
         /\ r.failure = None
    ELSE /\ r.failure # None
         /\ r.verification # None => ~r.verification.passed
=============================================================================
