CONSTANTS
  m1 = m1
  m2 = m2
  Messages <- MCMessages
  Valid <- MCValid
  MaxFaults = 2
  BatchMax = 2
  MaxConcurrentHandlers = 2
  HandledInTime = FALSE
SPECIFICATION Spec
INVARIANTS RedeliveryNeedsFault ExtraRepliesNeedFault RemovedOnlyIfHandled RemovedUntoldNeedsFault
