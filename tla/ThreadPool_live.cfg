\* Thread 0 and the signal handler (Sig) call tp_shutdown() besides the main thread.
SPECIFICATION FairSpec
CONSTANTS
    ThreadsMax = 2
    QueueCap = 2
    ReadMax = 1
    WorkMax = 1
    Callers = {0, 4}
    EarlyShutdown = FALSE
    MayFail = FALSE
PROPERTIES
    ShutdownStopsThreads
    DestroyReturns
