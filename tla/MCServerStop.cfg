\* Stop, or deleting a server, with no user event base and no worker
\* threads: DelServer calls workers_.back() on an empty vector.
CONSTANTS
    NumWorkers = 2
    Width = 3
    MaxThreads = 2
    MaxAccepts = 2
    MaxOps = 4
SPECIFICATION Spec
INVARIANT ShutdownSafe
\* The run ends when the user makes no further call.
CHECK_DEADLOCK FALSE
