SPECIFICATION Spec
CONSTANTS
  None = None
  ExitCodes = {0, 1}
  Faults = {TRUE, FALSE}
  Counts = {0, 1}
  RetainOptions = {TRUE, FALSE}
  MaxInterrupts = 2
INVARIANT ContractsHold
INVARIANT CompletedIsEarned
INVARIANT DirectoryAccountedFor
PROPERTY ImplementsLifecycle
INVARIANT EventsAreTrue
INVARIANT ObservedInOrder
