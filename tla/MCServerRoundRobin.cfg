CONSTANTS
    NumWorkers = 3
    Width = 3
    MaxThreads = 3
    MaxAccepts = 2
    MaxOps = 5
SPECIFICATION Spec
INVARIANTS
    RoundRobin
CHECK_DEADLOCK FALSE
