SPECIFICATION SessionSpec
CONSTANTS
  None = None
  Torn = Torn
  ExitCodes = {0, 1}
  Faults = {FALSE}
  Counts = {0, 1}
  RetainOptions = {TRUE, FALSE}
  MaxInterrupts = 1
INVARIANT ClaimFollowsEvidence
INVARIANT ExitMeansEvidence
INVARIANT TraceErrorIsHonest
INVARIANT FailureNamesTheCause
INVARIANT EvidenceIsLeft
INVARIANT ResultIsWhole
PROPERTY VerdictKept
PROPERTY SessionEnds
