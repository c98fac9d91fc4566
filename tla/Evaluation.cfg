SPECIFICATION EvaluationSpec
CONSTANTS
  None = None
  ExitCodes = {0, 1, 2}
  Faults = {FALSE}
  Counts = {0, 1, 2}
  NumCases = 2
  Tenants = {alpha, beta}
  Services = {s1, s2}
  RawLimits = {Invalid, 0, 2}
  MaxSeeds = 1
  MaxJobs = 3
  Profiles = {p, q}
  Versions = {1, 2}
  Fields = {amount}
  MaxRecords = 3
INVARIANT VerdictIsMeasured
INVARIANT ReferencePasses
INVARIANT QuotaHolds
INVARIANT AgreesWithBaseline
