SPECIFICATION Spec
CONSTANTS
  None = None
  Leader = leader
  Descendants = {d1, d2}
  MaxInterrupts = 2
INVARIANT OnlyOwnedRun
INVARIANT NobodyOutlives
INVARIANT EndIsAsReported
INVARIANT HandlesClosed
