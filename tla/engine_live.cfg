CONSTANTS
  m1 = m1
  m2 = m2
  Messages <- MCMessages
  Valid <- MCValid
  MaxFaults = 1
  BatchMax = 2
  MaxConcurrentHandlers = 1
  HandledInTime = TRUE
SPECIFICATION FairSpec
PROPERTIES EveryMessageRemoved RunReturns CloseReturnsUnlessBlocked
