CONSTANTS
    MaxReqs <- MCMaxReqs
    PeerCancels = FALSE
    WorkerStops = TRUE
SPECIFICATION FairSpec
CHECK_DEADLOCK FALSE
PROPERTIES
    ExitWorkerTerminates
