CONSTANTS
    MaxCalls <- MCMaxCalls
    MaxFaults <- MCMaxFaults
    Heartbeat = FALSE
    ReentrantCancel = FALSE
    RetryOnFailure = FALSE
SPECIFICATION Spec
INVARIANTS
    ControllerStableAfterDone
