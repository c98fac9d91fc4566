# A verification project for long-horizon-swe-lab

`long-swe verify task.yaml` copies a workspace, runs a task's own verifier in the
copy, and leaves a verdict with evidence: a JSON Lines trace of what happened and
a result file. The program is sequential Python, but it is not simple: it owns a
child process that ends whenever it likes, a directory it has to get rid of, a
file it must keep readable while disks fill and users press Ctrl-C, and a verdict
that must not be better than what was measured. This directory models that core in
TLA+, checks it with TLC and proves its safety properties with TLAPS.

Paths below are relative to the repository; `lhs/` stands for
`src/long_horizon_swe/`.

## Running it

    tlc -config TaskRun.cfg TaskRun.tla                        # one run of TLC
    tlapm TaskRun_proofs.tla                                   # one module's proofs

`PROJECT.json` lists the runs with their configurations, the source lines behind
each definition, the hazards, and the mutants: for every property, a plausible bug
in one definition which makes TLC report that property. A mutant stands in the
module right before the definition it changes, under a comment that begins with
"Mutant".

## Inventory

| component | state it keeps | operations | what makes it correct |
|---|---|---|---|
| Trace recorder `lhs/tracking/recorder.py` | `_sequence`, `_elapsed`, `_terminal`, `error`, a buffered stream and the file behind it | `emit`, `close` | the file is a gap-free prefix of the events; the first failure is final and named by line; no error means a readable trace |
| Trace reader `lhs/tracking/reader.py` | none | `read_trace` | accepts a whole or incomplete valid trace, refuses any other at a line |
| Event schema `lhs/tracking/event.py`, `observer.py` | none | validation | envelope fields are what recorder and reader agree on |
| Core contracts `lhs/core/result.py`, `state.py` | none | model validators, `transition` | success only with evidence; terminal status agrees with the verdict |
| Verifier adapter and parser `lhs/evaluation/` | none | `parse_result`, `parse_document`, `verify` | any output becomes a verdict; none becomes an unearned pass |
| Process runner and tree `lhs/execution/process.py`, `timeout.py` | the child, two captures, deadline | `run`, `terminate`, `drain` | the call ends; the child does not outlive it unless that is reported; output is complete or marked |
| Windows job `lhs/execution/_windows.py` | job handle, suspended child | `attach_and_resume`, `terminate`, `close` | nothing runs that the job does not own; nothing outlives the job's last handle |
| Disposable workspace `lhs/execution/workspace.py` | the run directory, `failed`, `retained` | copy, yield, clean up or retain | the directory goes away, or somebody is told where it is |
| Environment `lhs/execution/environment.py` | none | `build_environment` | a pure filter of variables |
| Task runner `lhs/execution/runner.py` | `state`, `verification`, `retained`, `failure` | `verify` | completed only after a pass and a cleanup; failures are results |
| Manifest loader `lhs/config/` | none | `load_task`, `resolve_workspace` | bad input is a `TaskConfigError` or `WorkspaceError` |
| Artifact store `lhs/tracking/artifacts.py` | the run's output directory | `create`, `write` | `result.json` is replaced whole or not at all |
| Verification session `lhs/application/verification.py` | result, exception, failure, artifact | `verify_manifest` | exit status, result file and trace agree |
| Command line `lhs/cli/main.py` | none | `validate`, `verify`, `replay` | exit status 0, 1 or 2 means what the documents say |
| Replay rendering `lhs/tracking/replay.py` | none | formatting | prints the validated events |
| Routing example `examples/routing-cache-regression` | route registry, listeners, a cache per resolver | set, remove, resolve | an answer is what the registry says now |
| Quota example `examples/tenant-quota-service` | job repository, frozen limits of each service | submit, change status | active jobs stay within the limit; a rejection leaves no trace |
| Metadata example `examples/metadata-batch-optimization` | profile repository, profiles of one call | enrich, set, remove | the same results and errors as without reuse, at one read per profile |
| Evaluators `examples/*/evaluator` | the observed result of a unittest suite | run the suite, print one document | no verdict of a suite that did not run whole; a case counts once |

**How they interact.** Everything is one call tree:
`main -> verify_manifest -> (ArtifactStore, TraceRecorder, load_task,
resolve_workspace, TaskRunner.verify)` and
`TaskRunner.verify -> prepare_workspace { BehavioralVerifier.verify ->
build_environment, ProcessRunner.run, JsonVerifierAdapter.parse_result }`.
The recorder is handed down as the `observer` and called back at every boundary.
The only concurrency is the child process (and what it starts), the operating
system behind the stream and the directory, and signals: a `KeyboardInterrupt` can
be raised between any two steps of the Python code, and the interpreter itself can
die.

**What is hard.** Failures during the handling of failures (a cleanup that raises
inside an `except` or `finally`, and replaces the exception it was called for);
interrupts between two assignments that belong together; a child that exits
between the poll and the look at the clock; a flush that fails after the record
was buffered; two files, a directory, an exit status and a trace that have to
tell the same story after any of this. `PROJECT.json` lists each hazard at its
line, with the properties that watch it, or the reason none does.

## Modules

| module | what it is | source |
|---|---|---|
| `TraceReader` | `read_trace` as the set of lines at which it can stop (`Faults`), `Readable`, `RefusedAt`, `Complete` | `reader.py`, `event.py` |
| `TraceLog` | abstract: the log of a run as its readers may rely on it | - |
| `Recording` | the recorder as its caller sees it: one step for each call of `emit`, one for `close` | `recorder.py` |
| `TraceRecorder` | `emit` and `close` over a buffered stream and a file | `recorder.py` |
| `TraceRecorder_proofs` | type correctness, truthfulness, readability, error line, crashes; the file only grows; the recorder implements `TraceLog` and `Recording` | |
| `VerifierProtocol` | pure: from a captured execution to a verdict, and the contracts of verdict and result | `adapters.py`, `parser.py`, `verifier.py`, `result.py` |
| `TaskLifecycle` | abstract: the states of a task, and when it may be completed | `state.py` |
| `TaskRun` | one `TaskRunner.verify` with workspace, verifier and child process | `runner.py`, `workspace.py`, `verifier.py`, `process.py` |
| `TaskRun_proofs` | type correctness, contracts, completion is earned; the run implements `TaskLifecycle`; its events are true and in order; no directory is lost from sight | |
| `ProcessRunner` | one `ProcessRunner.run` on POSIX with its captures, pipes and process group | `process.py`, `timeout.py` |
| `ProcessCall` | the detailed call is what `TaskRun` takes it for | |
| `ProcessRunner_proofs` | types, complete output, the end of the group, exit codes, cancellation; the call implements that of `TaskRun` | |
| `WindowsJob` | one `ProcessRunner.run` on Windows, as its job object sees it | `_windows.py`, `process.py`, `timeout.py` |
| `WindowsJob_proofs` | types, ownership, the end of every process, honest ends, handles | |
| `RouteTable` | abstract: routing answers without caches | - |
| `RouteService` | registry, resolvers and caches of the routing example | `examples/routing-cache-regression` |
| `RouteService_proofs` | types, no stale entry, refinement of `RouteTable` | |
| `WorkspaceCopy` | `_copy_tree`, entry by entry and block by block | `workspace.py` |
| `WorkspaceCopy_proofs` | types, limits, the outcome is the tree's; sums and induction over finite sets | |
| `ArtifactStore` | `ArtifactStore.write` and its temporary file | `artifacts.py` |
| `VerificationSession` | the whole command around one `TaskRun`, with store, recorder and exit status | `verification.py`, `artifacts.py`, `main.py` |
| `VerificationSession_proofs` | types, claims follow evidence, exit status, verdict, failure category, result file | |
| `QuotaService` | job services over one repository | `examples/tenant-quota-service` |
| `BatchProcessor` | `enrich` record by record | `examples/metadata-batch-optimization` |
| `Evaluator` | the runner of the evaluators around a candidate | `examples/*/evaluator/**/__main__.py` |
| `Evaluation` | an evaluator at work on the quota or metadata reference solution, or on any code | `examples/*/evaluator/**/checks.py` |
| `Evaluation_proofs` | types, the verdict is measured, quotas, batches, the reference solutions pass | |

`TraceRecorder` EXTENDS `TraceReader`; `TaskRun` EXTENDS `VerifierProtocol`;
`VerificationSession` EXTENDS `TaskRun`, so the session runs with every failure of
the run, not with a summary of it, and instantiates `ArtifactStore` and `Recording`. `Evaluation` EXTENDS
`Evaluator`, `QuotaService` and `BatchProcessor`, and `Evaluator` EXTENDS
`VerifierProtocol`: what an evaluator prints goes through the framework's own
interpretation. `TraceLog`, `TaskLifecycle` and `RouteTable` are instantiated with a
refinement mapping, `Recording` with one in `TraceRecorder` and as a part in
`VerificationSession`, and `ProcessCall` instantiates `TaskRun` itself to show that
`ProcessRunner` implements the call in it.

### The recorder and its file

The recorder's attributes are the variables `sequence`, `elapsed`, `terminal` and
`error` (0, or the line number of `TraceWriteError`). The stream is `written`, the
records handed to `stream.write` in order, and `short`, the last of them was not
taken whole. The file is `durable`, how many of them are whole lines, and `torn`,
there is a piece of the next one. `pc` says how far a call of `emit` is.

`emit` is the `error` return (`EmitIgnored`), the refusals (`EmitRefused`, by an
ordering check or by the schema), `EmitWrite` followed by `Flush` and `Count`, and
the failures at each point (`EmitWriteFails`, `FlushFails`). `Spill` is the
operating system's view: while the stream is written or closed a part of the buffer
may be in the file, and a torn line at that. `Close` flushes what is left and may
fail. `Crash` stops the process anywhere; `Interrupt` is a `KeyboardInterrupt`
after the write, which `emit` does not catch. Clock values are free, so a clock
that goes back is one of the cases.

Records carry the four fields the reader compares between lines. The reader's
per-line checks of encoding, schema and size are properties of one record that
`emit` builds and validates itself; the model has them as the boolean `invalid`.

### One run of a task

`pc` is the point the call has reached and `exc` the exception in flight. Where
the code has a `finally` or `except` clause, the model has a point: `discard` and
`discarding` (the partial copy), `abandon` (the except clause of the process setup) and
`abort` (the finally clause of the process loop), both of which kill and wait, `leave` and
`cleaning` (the finally clause of `prepare_workspace`), `handle` (the except clause of
the runner). The process call goes through `attach`, `started`, `running`, `terminate`,
`mark` and `drain`. An exception raised while another one unwinds replaces it,
as in Python. `Unwind` says where an interrupt leads from each point.

The child is a process of its own: `ChildExits` may happen at any time or never.
`Expire` does not look at it, since `poll` and the clock are read one after the
other. The measured execution is any `ExecutionResult` the captures can yield for
the `timed_out` at hand: every exit code, any truncation, any decode error, and
any document or none. `VerifierProtocol!Interpret` turns it into a verdict, as the
adapter and verifier do.

`observations` are the events given to the observer, `interrupts` counts the
interrupts; both are histories.

### The copy of the workspace

In `TaskRun` the copy succeeds (`Copy`) or not (`CopyFails`). `WorkspaceCopy` is
`_copy_tree` itself. The source tree (`parent`, `kind`, `size`, `hidden`: the name is an
excluded one) and the two limits are chosen in `Init` and then constant, as the module's
docstring asks for a quiescent source; so one run covers every small tree. `pending` is
the stack of directories, `unseen` the rest of the listing that is open, and which entry
of it comes next is free. `TakeEntry` has one action per outcome of the loop body. A file
is counted when it is opened (`OpenFile`, `TooManyFiles`), bytes before they are written
(`CopyBlock`, `TooManyBytes`), block by block. `Fails` is an `OSError` of any call.
`Complete` is the way out of the loop. What the counters are compared with is `files` and
`copied`, as in the code; the properties compare with what is really there (`made`,
`written`) and with what the tree has (`Included`).

### The process runner

`ProcessRunner` is the call that `TaskRun` has as the points from `launch` to `drain`,
in detail. On the side of the operating system there are processes (`status`, `group`,
`fds`, and `code`, how the leader ended) and pipes (`pipe`; `written` is a history).
`Command` is everything a command may do at any time: fork, leave the group, close a
stream, write, end. `Kill` is `killpg`, which reaches exactly the group's members;
SIGKILL makes a process `dying`, it may still complete a write and may take for ever
to die, which is what the wait's timeout is for (`Fails`).

On the runner's side `turn` and `reads` say which capture is drained and how far the
batch is; `data`, `truncated` and `eof` are the captures. The loop and the drain use
the same reads; `cleaned` tells them apart, as it does in the `finally` clause. `late`
says that the deadline in force has passed, and `Mark` sets the second one. A step
`Assign` of its own separates the child's start from the name `process` being bound,
and `Begin` is the gap between the two `try` statements. `Unwind` says where a failure
or an interrupt leads from each point; `struck` remembers where the last interrupt fell.

Not in the model: the search for the executable (it fails or not), sleeping between
drains, the byte counters, decoding, and the three events, which `TaskRun` has.
Process ids are never reused (see the hazards).

`ProcessCall` joins the two views. It maps the detailed state to that of `TaskRun`
(`CallPoint`, `CallException`, `CallChild`, `CallEvents`, `CallResult`; the rest of the
task's state is fixed at its values during the call), and `ImplementsCall` says that
every step of `ProcessRunner` is a step of `TaskRun` or leaves its state alone. So what
the session and the run are shown to do rests on the outcomes the detailed call has:
the events in their order, a reaped child at every measured result, and a `ProcessError`
or an interrupt otherwise. Left out are the steps at and after an interrupt that falls
into one of the two gaps no `try` statement covers (`struck` is `popen` or `begin`),
where the code really does something else; they have a finding of their own.

### The Windows job

`WindowsJob` follows the same call where `os.name` is `nt`. `handles` is what the program
holds open (the job, and for a while a process, a snapshot and a thread handle),
`killOnClose` is the job's limit, `members` the job's processes. There is one action for
each Win32 call of `WindowsJob.__init__`, `attach_and_resume`, `terminate` and `close`,
and a failure for each; the `finally` clauses that close handles are part of the action
that leaves them. `Fresh` names the handle that is open while no clause owns it yet, which
is where an interrupt can cost one. `Crash` kills the interpreter: the system closes its
handles, and closing the last one ends the job's members if the limit is set.

`Command` lets members start others, which are members too: the job has no breakaway
limit. Deadlines and captures are those of `ProcessRunner`; here the loop ends when it
likes. Not in the model: the handle that `Popen` holds of its child, nested jobs, and
the search for a thread among the snapshot's entries (one is found or not).

### The routing example

`RouteService` has the registry's `routes` and `listeners`, and of each resolver the
`entries` and `generation` of its cache. The eight setters and removers are `Set` and
`Remove` of a scope; `resolve` is `ResolveCached`, `ResolveFresh` or `ResolveNotFound`,
where `get` has already dropped an outdated entry. It is the reference solution that is
modelled. The two defects of the start version (an exact invalidation, a removal that is
not published) are the mutants `PublishExact` and `RemoveQuietly`. Calls are sequential,
as the task's specification says.

### The command

`VerificationSession` adds the program points of `verify_manifest`, its local
`got`, `caught` and `pending`, the trace (`recorded`, `recError`), the variables of the
artifact store and the exit status. Steps of the run are taken as they
are (`Run == Proceed /\ Watched`), where `Watched` passes a new event to the
recorder. The recorder is that of `Recording`: a call of `emit` is one step
(`Recorder!Record`), in which the event is recorded, or recording gives up at that line, or
has given up before; a failed flush can still be completed by `Close`
(`Recorder!Release`). `Crash` ends the process between
any two steps; what is on disk stays. The verifier process may outlive the command
(`Orphan`). `reported` and `excuse` are histories: the category of `RUN_FAILED`, and what
last kept the command from writing a result file, a call of the store that failed
(`"refused"`) or an interrupt or the end of the interpreter (`"stopped"`).

That `emit` is one step leaves one behaviour of the code out of the session: an interrupt
between the write of a record and its count. `TraceRecorder` has it, and it is the finding
of **recorder_cancelled**: a sequence number used twice, and no error. The refinement
`ImplementsRecording` ends there too. In the session it would leave events,
result and exit status as they are, and what the session's properties say does not depend on
it: they compare events, and a `trace_error` with the recorder's own line. They do not say
that a reader accepts the trace of a session cancelled inside `emit` (it may not), nor that
the line of a later recording error is then the right one (it counts one record too few).

`ArtifactStore` is `write`: `MakeTemporary`, `Fill` (write, flush, fsync), `Replace`, and
`Abandon` where an exception leaves it. `saved` is what `result.json` holds for a reader
now. `durable` is the set of what it may hold after the machine has lost power: the
rename may or may not have reached the disk, and a file renamed before its data was
synced would be `Torn`. The session writes from three points: `lost` (no trace could be
opened), `persist` (the result or the exception) and `amend` (the same with the
recorder's line number); `Written` is the artifact of each. Up to the rename the steps
are `Write`, then `Persist`, `PersistFails` or `LastWrite`. A temporary file that nobody
could remove has no reader and no variable. `raise` is the end of the two last cases.

### The examples and their evaluators

`QuotaService` and `BatchProcessor` are the reference solutions of the other two example
tasks. In `QuotaService` the repository is `jobs` and `next_id`, and `config` is the frozen configuration of every
service constructed over it. `Seed` stands for jobs created before there is a service.
`submit_job` is `SubmitAccepted` or `SubmitRejected`, `set_status` is `SetStatus` or
`SetStatusRefused`. In `BatchProcessor` one call of `enrich` is `Enrich`, then per record
`Reuse`, `Resolve` or `ResolveFails`, then `Return`; `reads` and `decodes` are what the
counting repository and decoder of the evaluator count. `Baseline` is the outcome the
start version has for a record by itself.

`Evaluator` is `__main__.py`, which the three evaluators share: the suite's cases in
order, `ObservedResult` with its set of failed cases, and the conditions under which a
document is printed (`Established`). The candidate runs in the same interpreter.
`Candidate` is what any code can do in a case: fail in a subcase and go on, fail, raise
`SkipTest`, change the evaluator's files, stop the suite, end the interpreter.
`Interpret` then makes a verdict of the process, so the property `VerdictIsMeasured`
spans the evaluator and the framework. It does not cover a candidate that writes a
document to the process's stdout itself, which `__main__.py` names as its trust boundary.

`Evaluation` puts one of the two reference solutions, or `"other"` code, under the
evaluator. The scripts of `checks.py` are fixed sequences of calls; a case here is any
sequence within the bounds, and what is compared after each call is what the helpers of
`checks.py` compare. For the quota task the case keeps its own account (`held`,
`issued`) from its calls alone and expects `Expected` of each submission; for the
metadata task it expects the start version's answer and one read per profile. `good`
turns false when a comparison fails.

## What the runs check

The passing runs:

- **recorder** (`TraceRecorder.cfg`): up to 4 calls, clock values 0 to 2, up to two
  interrupts. `NoErrorMeansReadable`: an idle recorder that was not interrupted and
  reports no error has put every call into the file and `read_trace` accepts it.
  `ErrorNamesTheLine`: otherwise the reported line is exactly the first one a reader
  cannot vouch for. `OnlyTheTailIsLost`: after a crash only the last, torn line is lost.
  `TruthfulPrefix`: the lines name the first events in order, without a gap, interrupts
  or not. `AppendOnly`: nothing leaves the file, and nothing is handed to the stream after
  an error. `ImplementsLog`: as long as no interrupt fell between a write and its count,
  every step is one of `TraceLog`. `ImplementsRecording`: up to there the recorder is,
  call by call, the one the session is modelled with; what became of a call is settled when
  `emit` returns, and only `close` can still push out the record of a failed flush.
- **task_run** (`TaskRun.cfg`): with and without retention, up to two interrupts.
  `ContractsHold`: the pydantic validators never refuse what the program builds.
  `CompletedIsEarned`: a completed result has passed tests, exit code 0, no
  timeout, complete output, a reaped process and a removed directory.
  `DirectoryAccountedFor`: without interrupts a directory that stays is named in
  the result or its failed cleanup is reported.
  `ImplementsLifecycle`: refinement of `TaskLifecycle`.
  `EventsAreTrue`: no event says more than has happened, nor is it undone later.
  `ObservedInOrder`: whatever fails, events come in the order of the run and at most
  once.
- **workspace_copy** (`WorkspaceCopy.cfg`): every tree of three entries, every order of
  the listings. `OutcomeIsOfTheTree`: what is copied is exactly the tree without what is
  excluded, and a refusal names something that is true of the tree, so the outcome can
  depend on the listing's order only in which true reason is given.
  `StaysWithinLimits`: at no moment is there more in the copy than the limits allow, nor
  a link, a special file or anything below an excluded name.
- **process** (`ProcessCall.cfg`): a leader and one descendant, one interrupt.
  `OutputIsWhole`: a stream not marked truncated is everything anybody wrote to it,
  and nobody is left to add to it; a marked one has lost something or has no end.
  `GroupIsGone`: whoever stayed in the group is dead or signalled when a call returns.
  `ExitCodeIsHonest`: an exit code without `timed_out` is the command's own.
  `CancellationCleans`: an interrupt inside the `try` statements ends the group first.
  `Terminates`: as time passes the call ends, whatever the command does.
  `WritersAreServed`: a writer blocked on a full pipe is served, also when no deadline
  comes to help. `ImplementsCall`: the call is the one `TaskRun` has.
- **windows** (`WindowsJob.cfg`): a leader and two descendants, two interrupts.
  `OnlyOwnedRun`: no process ever runs outside the job. `NobodyOutlives`: nothing runs on
  after the call, also when cleanup failed or the interpreter was killed, unless an
  interrupt fell between the two `try` statements or into the last `finally` clause.
  `EndIsAsReported`: a result means that all have ended, a launch error that the leader
  has. `HandlesClosed`: failures cost no handle; only an interrupt right after a call can.
- **route** (`RouteService.cfg`): four scopes, two destinations, two resolvers.
  `CacheIsCurrent`: an entry a resolver would still use agrees with a lookup made now.
  `ImplementsTable`: refinement of `RouteTable`.
- **session** (`VerificationSession.cfg`): one interrupt anywhere, a crash
  anywhere, every failure of store and recorder. `ClaimFollowsEvidence`: the trace
  claims completion only after the completed result is persisted.
  `ExitMeansEvidence`: exit 0 or 1 means that the result on disk is the measured
  one and the trace has every event. `TraceErrorIsHonest`, `VerdictKept`: a
  recording failure is admitted with the right line and never changes the verdict.
  `FailureNamesTheCause`: the category of `RUN_FAILED` happened. `EvidenceIsLeft`:
  a command that ends without a result file was refused its directory or the file, or was
  stopped outside loading and running its task. Exit status 2 by itself is no excuse: it is
  also that of a task that cannot be loaded, which leaves a result file.
  `ResultIsWhole`: `result.json` is absent or whole whenever the process or the machine
  stops, and it holds a result or a failure, never both or neither. `SessionEnds`.
- **evaluation** (`Evaluation.cfg`): `VerdictIsMeasured`: whatever the candidate does
  inside the interpreter, a pass means that every case ran and none failed, even in a
  subcase; a suite that did not run whole gives no verdict. `ReferencePasses`: the
  reference solutions pass under any sequence of calls, not only the scripts'. It
  includes `OneReadPerProfile`, which a case asserts of every call of `enrich` (`Return`).
  `QuotaHolds`: a tenant's active jobs stay within what some service over the repository
  grants, or what it had before. `AgreesWithBaseline`: a batch gives
  the start version's results and errors, at one read and decode per profile, and
  looking up nothing that a failing record made unnecessary.

Type invariants are not among the runs' properties: every one is a theorem, and part of
the inductive invariant of its module.

The runs that find a disagreement between the code and what the repository says
of it (each is a `finding` in `PROJECT.json`, with the sentence it quotes):

- **recorder_cancelled**: an interrupt between `stream.write` and the count makes
  the next event, the session's `RUN_FAILED`, reuse the sequence number. The trace
  of the cancelled run is refused at replay while `error` is None.
- **task_run_raises**: an `OSError` from removing a partial copy leaves the
  `except` clause as it is, and the run ends in a traceback instead of a failed
  `TaskResult`.
- **process_cancelled**: an interrupt while `Popen` has started the child and not
  returned, or between the two `try` statements, leaves the child running.
- **session_cancelled**: a cleanup error raised while an interrupt unwinds replaces
  it; the session persists a failed result, and nothing of the cancellation.

Two more disagreements are in the models and have no run of their own:

- `docs/architecture.md:53` says that "Incomplete preparation copies are removed"; an
  interrupt during the copy (`Interrupt` at `copy` in `TaskRun`) leaves the partial
  directory, because the clauses from `workspace.py:116` on name `OSError`, `RuntimeError`
  and `WorkspaceError`. No property covers it: `DirectoryAccountedFor` speaks of
  uninterrupted runs, and `EventsAreTrue` goes from an event to the fact it reports.

- `docs/tracing.md:48` says that "Configuration or persistence errors use stderr and exit
  2"; a YAML scalar constructor may raise `ValueError` (an impossible date, say), which the
  clause at `loader.py:57` does not name: `LoadErrors` has it, and the command ends in a
  traceback, with the failure persisted.

### Bounds, and why they are enough

- `MaxCalls = 4`: start, one or two other events, the end, and one call more: all
  orders of legal and refused calls around the first, the last and the one that
  fails. `MaxClock` of 2 gives equal, growing and falling clock values.
- `ExitCodes = {0, 1}` and `Counts = {0, 1}`: the code only compares exit codes
  with 0 and counts with 0. The proofs hold for every set. `Faults` says which truncation
  and decoding flags a measured execution may carry: both values in the task run;
  none set in the session, which looks at no flag itself, nor in the evaluation, whose
  output is short.
- `MaxInterrupts` is 1 or 2: an interrupt, and one that falls into the cleanup of
  the first. The proofs hold for every number.
- `ProcessRunner`: one descendant can be in the group or outside, with or without each
  stream, before or after the leader's end. `Capacity = 2` beside limits of 1 and 0
  gives chunks below, at, across and beyond a limit;
  `Batch = 1` makes every batch end by its count as well as by an empty pipe. `written`
  stops one above the limit, so output without end is among the behaviours. The proofs
  hold for all of these constants.
- `WorkspaceCopy`: three entries are a directory with two entries, two levels of
  directories, or three siblings, each of any kind; that is where a limit can be reached
  by the second file, an excluded name can hide a subtree, and two orders can lead to two
  refusals. Sizes of 0, 2 and 3 beside blocks of 2 give an empty file, one whole block and
  a block with a rest; 3 and 4 as byte limits are reached exactly, missed by one inside a
  block and at its end; 1 and 2 as file limits are reached and passed.
- `Evaluation`: two cases, so that one follows another and one may be left out. Two
  services with limits of their own over one repository; limits of 0, of 2 and an invalid
  one; two tenants, so that one can be counted for the other; at most 3 jobs, one of them
  older than the services, which is enough to fill a limit, to release and to fill it
  again. A batch of 3 records over 2 profiles repeats one with another in between, or has
  the failing record in any place; 2 versions tell an old profile from a new one.
- `WindowsJob`: two descendants, so that one can start the other after the leader's end.
- `RouteService`: one tenant and one region have all four kinds of scope; keys do not
  influence each other except through scopes they share. `MaxGeneration = 3` lets an entry
  be outdated by a change, written again and outdated again. The proofs hold for all sets.
- One session is one run: every command has its own directory, named by a UUID.

Deadlock is checked except in the recorder's runs, where the recorder really stops
once it is closed or its process is dead. In `TaskRun` and `VerificationSession` the end is
a step of its own (`Done`, `Ended`), so that any other stop is reported.

### Fairness

`TaskRun` and `VerificationSession` assume weak fairness of the program's own steps
only (`Proceed`, `SessionStep`): a Python thread that can go on does. Nothing is assumed
of the child; that the loop ends without it is what the deadline is for, and
`Expire` is a step of the program, because the loop polls every few milliseconds
and the clock advances. `SessionEnds` is the property it is assumed for, and its mutant
(`ExpireAfterExit`) takes exactly that away. A failing read, the child's exit, interrupts
and crashes are outside the fair steps.
Each part of `Proceed` leads forward, so one fairness condition on the disjunction
suffices; no single step needs its own.

`ProcessRunner` assumes weak fairness of `Runner` and nothing of the command: not that it
exits, stops writing, or dies when it is signalled. `Terminates` is stated under
`TimePasses`, `WritersAreServed` without it. Every point of the runner has an enabled step,
the wait because it can time out.

The fairness condition also assumes that single system calls return: a hanging disk
is not modelled.

## What is proved

The proofs are for every value of the constants, under the assumptions named in the
modules: `RecorderAssumption` (the event types are distinct kinds, the trace limit exceeds
the calls), `ReaderAssumption`, `RunnerAssumption` (the leader is not its own descendant;
capacity and batch are positive), `ProtocolAssumption` (exit codes are integers, counts
are naturals), `NoneAssumption` and `ExceptionAssumption` (None is none of the other
values), `RunAssumption`, `JobAssumption` and `RouteAssumption` (the same of theirs), and
`ResultAssumption` and `SessionAssumption` (None is no result, and neither None nor `Torn`
is one of the values it stands beside), `CodeAssumption` (None is no exit code),
`CopyAssumption` (sizes are naturals, limits and the block positive), `QuotaAssumption`
and `BatchAssumption` (bounds and versions are naturals), and
`EvaluatorAssumption` (what an evaluator counts and the codes it exits with are among
`Counts` and `ExitCodes`, and an execution may come without a truncation or decoding
error). TLC evaluates all of them in the runs above.

Every invariant, action property and refinement that a passing run checks is proved; the
three liveness properties are not (see below).

**The recorder.** `Inv` in `TraceRecorder_proofs` has three parts. `TypeInv` adds
to the types that a record exists whenever one is being counted. `PrefixInv` ties
the records handed over to the calls: as many as calls while there is no error, the
same types in the same places, and a torn line only below the last. It is enough
for `FileIsTruthful` and holds under interrupts. `SoundInv` holds while emit was
not interrupted: every line is one the reader accepts after the earlier ones, the
counters are those of the last counted line, and at most one record is beyond them.
None of the properties is inductive by itself, because they speak of the file while
the steps work on buffer and counters: `SoundInv` is the relation between the three
from which `SilentMeansReadable`, `ErrorIsPrecise` and `CrashLosesTheTail` follow.
A second part adds `TailInv` (a record not taken whole never becomes a line)
for `FileOnlyGrows`, and `RecorderImplementsLog`: a step that makes a line whole is
a `Keep` of the log, one that sets the error is a `GiveUp`, all others observe a
call or stutter. It speaks of the steps up to the first interrupt between a write and its
count; after one the counters are behind the file and the claim is false (see the
finding).

`RecorderImplementsRecording` is about the same steps and another question: whether the
session may take a call of `emit` for one step. Here nothing may be said of a call before it
is over, and nothing that was said may change later. The mapping therefore counts a call in
progress as not yet made, unless its line is whole when the process dies, and takes for
recorded what `sequence` counts while the recorder runs and what the file holds once it
does not. What makes it a refinement is `ReadyInv`: between two calls the file ends with
the last record counted, so that a crash or `close` takes nothing back and adds nothing, but
for the one record of a failed flush.

**The run.** `VerdictIsSound`: whatever execution is measured, or none, the verdict
formed from it passes the validator. `Inv` in `TaskRun_proofs` says, for each point
of the call, what is known of the process (`ProcessFacts`: a measurement exists only
of a reaped child), of the verdict (`VerdictFacts`: it is what the protocol makes of
the measured execution, `failed` is its negation, and a run that comes to `handle`
without an exception and without failure has lost its directory) and of the report
(`ReportFacts`: the three ways to reach it). `ContractsHold` and `CompletedIsEarned`
need all of it: the result is built from variables set in four different functions.
A second part adds that the point fixes state and directory (`StateFacts`) and
proves the refinement `RunImplementsLifecycle`, step by step. For the events it adds
`EventFacts` (what each event observed so far entails now), `LeaveFacts` (what relates
the process, the directory, its retention and the verdict to each other and to the
result) and `DirectoryFacts` (an uninterrupted run that has lost its
directory's removal holds the exception that says so); `EventsStayTrue` and
`DirectoryIsAccountedFor` follow. `EventsAreOrdered` needs a number for each point
(`Level`): the last event's rank never exceeds it, an event is emitted only where it is
still below the event's rank, and no step, interrupt or failure leads to a lower level.

**The session.** `SessionInv` in `VerificationSession_proofs` conjoins what is known of
the run inside it (`RunInv`, the invariant above, which every step beside the run leaves
alone) with parts of its own: `Types`; `PrefixInv`, the trace is a prefix of the events,
whole as long as the recorder has no error; `PointInv`, what the locals and `result.json`
are at each point; `SavedInv`, whatever is or may be on disk differs from what was first
written in `trace_error` only; `ClaimInv`, `RUN_COMPLETED` among the events implies a
completed result on disk; `LastInv`, the last event of a concluded session is the
terminal one of its result; `ExitInv`, what each exit status was derived from;
`ErrorInv`, a `trace_error` on disk is the recorder's line; `ExcuseInv`, why there is no
result file at the points that lead out (with a refused store the exception that propagates
is `TraceWriteError`, and the end of `lost` and `amend` finds a file or was refused one);
and, for `FailureNamesTheCause`, `RunCause` (the run's `EventFacts` with what they rest on)
and `CauseInv` (what each category says of the run's variables). The properties
themselves are about disk, trace and status, which three different steps write, and none
of them is inductive without the locals in between.

**The process runner.** `CleanupInv` in `ProcessRunner_proofs` ties the point of the call
to the exception in flight and to `cleaned` (`ControlInv`), says that nobody in the group
is alive once it was signalled (`GroupInv`: what is forked later descends from a process
that had left) and what is known of the leader's end (`ExitInv`). `GroupEnds`,
`ExitIsHonest` and `CancelEnds` follow. `OutputInv` is a conservation law: what was
written is retained or in the pipe unless the capture is marked, nothing follows an end
of file, because only a holder of a stream can pass it on, and a mark has a reason.
`OutputIsComplete` needs it for every number of writers.

`RunnerImplementsCall` is the refinement of the call in `TaskRun`, one lemma for each
action. The mapping reads the leader's status, the deadline and the exit code at every
point, so it needs `LeaderInv`: a leader exists from the launch on, an exit code is that
of a dead leader, and neither code nor time-out is there before the loop has seen it.
`EventsAre` gives the sequence of events by cases. Most steps of the runner are invisible
to `TaskRun`: batches of reads, looks at the clock, the signal of `Kill`. Of what the
command does it sees the leader's end, as `ChildExits`. A failure and an interrupt lead where `TaskRun`'s own `Unwind` leads. The
steps at and after an interrupt in one of the two gaps are left out by the property, as
`ProcessCall` states it.

**The Windows job.** `JobInv` has four parts beside the types. `ControlInv` ties the point
of the call to the exception in flight, `OwnerInv` says that the job has
its limit and owns whoever runs, `EndInv` how far termination has come at each point, and
`HandleInv` which handles are open at a point. `NothingRunsUnowned`, `NothingSurvives`,
`EndsAreHonest` and `HandlesAreReturned` follow, for any number of descendants and
interrupts, with the exceptions for single interrupts that the properties state.

**The routing example.** `CacheIsCurrent` needs `AgeInv`: no entry is ahead of its cache's
generation, and a resolver that is not yet subscribed has none, so that one more outdates
every entry there is. With it a change keeps the invariant without a look at which keys it
concerns. `ServiceImplementsTable` then needs that a cached answer is `Lookup`, and that
`Lookup` is the table's `Right`.

**The copy of the workspace.** `CopyInv` in `WorkspaceCopy_proofs` conjoins the types with
`TreeInv` (an entry comes after its directory, and only directories have entries),
`PlacedInv` (whatever is in hand is to be copied and its directory exists), `OnceInv`
(nothing is in hand twice or comes back), `CompleteInv` (no entry of a directory that was
made is lost), `CountInv` (`files` and `copied` are the number and the sum of what was
made, and only the open file is incomplete) and the property `OutcomeIsOfTheTree` itself.
A run of TLC over `WorkspaceCopy.cfg` with `CopyInv` as its invariant finds no error. `StaysWithinLimits` follows from
`PlacedInv` and `CountInv`. For `OutcomeIsOfTheTree` each refusal has its reason: a file
refused for its number is one more than those written, which are as many as the limit, so
the tree has more than the limit (`TooManyFilesKeeps`); a block refused for the bytes
makes the sum over the tree exceed the limit, since what is written is at most the size
of each file (`SumLess`). A finished copy lacks nothing: of the entries to be copied that
are missing take the least; its directory comes before it and is therefore there, and by
`CompleteInv` it was not lost (`NothingMissing`).

Two definitions are recursive: `Included`, and the library's sum over a function. As
recursive functions they stand for a CHOOSE, and what they give is known once a function
that satisfies the equation is shown to exist: `BelowExists` builds one upwards from the
root, `SumExists` from subset to subset. Both are inductions over a finite set, without
an induction theorem that takes an operator: strict inclusion between the subsets of a
finite set is well-founded (`FS_StrictSubsetOrderingWellFounded`), so a set of subsets
that is not everything misses a least one (`FiniteInduction`). The lemmas after it
(`SumUnfold`, `SumTakeOut`, `SumsEqual`, `SumLess`) are what the steps use.

**The evaluation.** In `Evaluation_proofs` each component has an invariant of its own over
the steps that concern it, and all of them hold of the composition. `EvaluatorInv` relates
`ran`, `failed_cases` and the history `outcome`, and says that a document was printed
only where the suite had run whole; `VerdictMeasured` then is what
`VerifierProtocol!Interpret` makes of such a document (`InterpretMeasured`), for any
number of cases and any candidate. `QuotaInv` is `QuotaHolds` with the types and with
`HeldInv`, the case's account agrees with the repository: a submission adds one to one
tenant's count and only below a limit (`CreateCounts`), and no change of status raises a
count (`StatusCounts`), since nothing leads back from an inactive status. `BatchInv` adds
`KeptInv`, the profiles kept are those read in this call and are still what the store has,
which is why a reused profile gives what the start version would have read again
(`RenderAgrees`), and `IdleInv`, nothing else of a call survives it. `ReferencesPass`
combines the three: every comparison of a case comes out as expected (`ChecksHold`), so no
case fails, and a document is printed. It assumes `NumCases > 0`, because a suite without
cases gives no verdict (`expected == 0` in `__main__.py`), whoever is evaluated.

**Model-checked only.** `Terminates`, `WritersAreServed` and `SessionEnds` are liveness
properties under fairness, which is out of the prover's reach.

## What is not modelled

- The text of events, messages and documents: only presence, type and agreement are
  compared. Size limits of the reader appear as a bound on the number of events.
- Of the workspace: file modes, the ways in which a link, junction or reparse point is
  recognised, and a source that changes during the copy, which the module's docstring
  excludes. Of the artifact store: temporary files nobody could remove.
- The environment's variables: `build_environment` succeeds or raises; which variables
  pass is a filter no property depends on. The rules of the manifest are checks of one
  text; their outcomes are in `LoadErrors` and `ResolveErrors`.
- `validate`, `replay` and rendering: they read files and print.
- Process ids that the kernel gives out again while a call still uses one: the models
  identify processes for ever. It is the hazard without a property.
- Of the examples: copies of payloads and returned values (aliasing), prefixes of job
  ids, the wording of errors; of `checks.py` the tests of these. The routing evaluator's
  script is covered by `RouteService`, which has all sequences of its calls.
- The distribution check, CI and the test suite.

## Plan

Everything of the first plan but the manifest loader is modelled: process runner, Windows
job, routing, artifact store, workspace copy, quota and metadata examples, and the
refinement of `TaskRun`'s process call. Every safety property of the passing runs is
proved. What is left:

1. The reader: `Readable`, `RefusedAt` and `Complete` of a trace and of its prefixes, as
   lemmas about `TraceReader` that do not mention the recorder, so that the recorder's and
   the session's proofs cite the same facts.
2. The safety half of `Terminates`: every point of the process runner has an enabled step
   of the program unless it has returned, stated without ENABLED as a disjunction of the
   guards.
