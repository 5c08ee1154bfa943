CONSTANTS
    MaxCalls <- MCMaxCalls
    MaxFaults <- MCMaxFaults
    Heartbeat = FALSE
    ReentrantCancel = TRUE
    RetryOnFailure = FALSE
SPECIFICATION Spec
INVARIANTS
    CompletedOnce
