CONSTANTS
    NumWorkers = 2
    Width = 3
    MaxThreads = 2
    MaxAccepts = 2
    MaxOps = 5
SPECIFICATION FairSpec
INVARIANTS
    TypeOK
    NoSocketLeak
    ServicesFreedOnce
PROPERTIES
    MainReturns
    LinksServed
\* The run ends when the user makes no further call, or once the server
\* is deleted or the process has crashed; the workers then wait in their
\* event loops.
CHECK_DEADLOCK FALSE
