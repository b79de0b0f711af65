CONSTANTS
  m1 = m1
  m2 = m2
  Messages <- MCMessages
  Valid <- MCValid
  MaxFaults = 2
  BatchMax = 2
  MaxConcurrentHandlers = 1
  HandledInTime = TRUE
SPECIFICATION Spec
INVARIANTS TypeOK CountersMatchGoroutines HandlerLimit OneHolderPerMessage
PROPERTIES CloseAwaitsHandlers ImplementsDelivery
