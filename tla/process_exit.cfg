SPECIFICATION FairSpec
CONSTANTS
    m1 = m1
    m2 = m2
    EngineMessages <- MCEngineMessages
    QueueMessages <- NoMessages
    Valid <- MCValid
    MaxFaults = 1
    BatchMax = 1
    MaxConcurrentHandlers = 1
    MaxRequests = 1
INVARIANTS
    TypeOK
    GracefulMeansEngineClosed
PROPERTY
    SignalEndsProcess
