SPECIFICATION SessionSpec
CONSTANTS
  None = None
  Torn = Torn
  ExitCodes = {0, 1}
  Faults = {FALSE}
  Counts = {0, 1}
  RetainOptions = {FALSE}
  MaxInterrupts = 1
INVARIANT CancellationIsPersisted
