CONSTANTS
    MaxCalls <- MCMaxCalls
    MaxFaults <- MCMaxFaults
    MaxBeats <- MCMaxBeats
    Heartbeat = TRUE
    ReentrantCancel = FALSE
    RetryOnFailure = FALSE
SPECIFICATION FairSpec
INVARIANTS
    TypeOK
    ConnDiscipline
    TimerSafe
    StackWriteArmed
PROPERTIES
    LinkRefined
    StackCallsReleased
