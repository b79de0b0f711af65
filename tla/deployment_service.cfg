CONSTANTS
  h1 = h1
  h2 = h2
  n1 = n1
  Handlers <- MCHandlers
  MaxResends = 1
  Nodes <- MCNodes
  JobTypes = {"service"}
SPECIFICATION FairSpec
INVARIANTS TypeOK ServiceResultIsTrue ReportedIsNotStale NewestIsRecent
PROPERTY EveryHandlerReturns
