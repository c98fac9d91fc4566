SPECIFICATION Spec
CONSTANTS
  None = None
  MaxNodes = 3
  Kinds = {"directory", "file", "link", "special"}
  Sizes = {0, 2, 3}
  Block = 2
  FileLimits = {1, 2}
  ByteLimits = {3, 4}
INVARIANT OutcomeIsOfTheTree
INVARIANT StaysWithinLimits
