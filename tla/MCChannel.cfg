CONSTANTS
    MaxCalls <- MCMaxCalls
    MaxFaults <- MCMaxFaults
    Heartbeat = TRUE
    ReentrantCancel = FALSE
    RetryOnFailure = TRUE
SPECIFICATION FairSpec
INVARIANTS
    TypeOK
    QueueDiscipline
    SendOrder
    WriteArmed
    StatusCallExclusive
    CompletedOnce
    MonitorStoppedBeforeFree
PROPERTIES
    CallRefined
