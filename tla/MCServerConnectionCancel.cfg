CONSTANTS
    MaxReqs <- MCMaxReqs
    PeerCancels = TRUE
    WorkerStops = FALSE
SPECIFICATION Spec
CHECK_DEADLOCK FALSE
INVARIANTS
    CancelFrameSafe
