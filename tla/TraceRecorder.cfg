SPECIFICATION Spec
CONSTANTS
  RUN_STARTED = RUN_STARTED
  TERMINAL_EVENTS = {RUN_COMPLETED, RUN_FAILED}
  OTHER_EVENTS = {WORK}
  RunId = run
  RunIds = {run}
  MAX_TRACE_EVENTS = 10
  MaxCalls = 4
  MaxClock = 2
  MaxInterrupts = 2
CHECK_DEADLOCK FALSE
INVARIANT NoErrorMeansReadable
INVARIANT ErrorNamesTheLine
INVARIANT OnlyTheTailIsLost
INVARIANT TruthfulPrefix
PROPERTY AppendOnly
PROPERTY ImplementsLog
PROPERTY ImplementsRecording
