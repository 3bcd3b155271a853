\* The pool threads and a thread outside the pool (Ext = 3) send.
SPECIFICATION FairSpec
CONSTANTS
    ThreadsMax = 3
    Modes = {"bsend", "sync", "cb", "obo", "aop"}
    Sources = {0, 1, 2, 3}
    MayBeDown = {0, 1, 2}
    ShutdownMax = 2
    PipeFails = TRUE
INVARIANTS
    DataOutlivesUse
    DoneReport
    NoLeak
PROPERTIES
    DoneEventually
    SyncReturns
\* A synchronous broadcast may wait for ever for a thread that has stopped or
\* for the caller itself.
CHECK_DEADLOCK FALSE
