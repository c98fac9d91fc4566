SPECIFICATION Spec
CONSTANTS
  None = None
  ExitCodes = {0, 1}
  Faults = {TRUE, FALSE}
  Counts = {0, 1}
  RetainOptions = {FALSE}
  MaxInterrupts = 0
INVARIANT FailureIsAResult
