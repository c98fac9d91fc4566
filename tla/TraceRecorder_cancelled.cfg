SPECIFICATION Spec
CONSTANTS
  RUN_STARTED = RUN_STARTED
  TERMINAL_EVENTS = {RUN_COMPLETED, RUN_FAILED}
  OTHER_EVENTS = {WORK}
  RunId = run
  RunIds = {run}
  MAX_TRACE_EVENTS = 10
  MaxCalls = 3
  MaxClock = 1
  MaxInterrupts = 1
CHECK_DEADLOCK FALSE
INVARIANT ClosedTraceIsReadable
