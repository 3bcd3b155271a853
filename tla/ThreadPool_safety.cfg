\* Thread 0 and the signal handler (Sig) call tp_shutdown() besides the main thread.
SPECIFICATION Spec
CONSTANTS
    ThreadsMax = 2
    QueueCap = 2
    ReadMax = 2
    WorkMax = 1
    Callers = {0, 4}
    EarlyShutdown = TRUE
    MayFail = TRUE
INVARIANTS
    NoCallbackAfterWait
    EarlyWorkProcessed
    ThreadHooksPaired
CHECK_DEADLOCK FALSE
