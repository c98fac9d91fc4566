SPECIFICATION FairSpec
CONSTANTS
  None = None
  Leader = leader
  Descendants = {q}
  MaxStdout = 1
  MaxStderr = 0
  Capacity = 2
  Batch = 1
  MaxInterrupts = 1
INVARIANT OutputIsWhole
INVARIANT GroupIsGone
INVARIANT ExitCodeIsHonest
INVARIANT CancellationCleans
PROPERTY ImplementsCall
PROPERTY Terminates
PROPERTY WritersAreServed
