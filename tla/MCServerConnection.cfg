CONSTANTS
    MaxReqs <- MCMaxReqs
    PeerCancels = TRUE
    WorkerStops = TRUE
SPECIFICATION FairSpec
\* A deleted connection, or a crashed worker, takes no further steps.
CHECK_DEADLOCK FALSE
INVARIANTS
    TypeOK
    ServerQueueDiscipline
    NoDanglingConnection
    ServerWriteArmed
    CancelCallbackOnce
PROPERTIES
    ConnectionReleased
