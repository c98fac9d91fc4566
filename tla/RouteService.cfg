SPECIFICATION Spec
CONSTANTS
  None = None
  Tenants = {t1}
  Regions = {east}
  Destinations = {a, b}
  Resolvers = {x, y}
  MaxGeneration = 3
INVARIANT CacheIsCurrent
PROPERTY ImplementsTable
