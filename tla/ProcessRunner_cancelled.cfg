SPECIFICATION Spec
CONSTANTS
  None = None
  Leader = leader
  Descendants = {q}
  MaxStdout = 1
  MaxStderr = 0
  Capacity = 1
  Batch = 1
  MaxInterrupts = 1
INVARIANT CancelledLeavesNothing
