\* The pool threads and a thread outside the pool (Ext = 2) send.
SPECIFICATION Spec
CONSTANTS
    ThreadsMax = 2
    Modes = {"sync"}
    Sources = {0, 1, 2}
    MayBeDown = {}
    ShutdownMax = 0
    PipeFails = FALSE
INVARIANTS
    SyncDataOutlivesUse
\* A synchronous broadcast may wait for ever for a thread that has stopped or
\* for the caller itself.
CHECK_DEADLOCK FALSE
