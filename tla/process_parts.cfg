SPECIFICATION Spec
CONSTANTS
    m1 = m1
    m2 = m2
    EngineMessages <- NoMessages
    QueueMessages <- MCQueueMessages
    Valid <- MCValid
    MaxFaults = 2
    BatchMax = 1
    MaxConcurrentHandlers = 1
    MaxRequests = 0
INVARIANTS
    FailedStartTakesNothing
    NothingLostAtExit
