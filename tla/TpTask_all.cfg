SPECIFICATION FairSpec
CONSTANT BufSize = 2
INVARIANTS
    FreedIsQuiet
    ReportedOnce
PROPERTIES
    WaitEnds
\* A task whose owner does nothing may rest.
CHECK_DEADLOCK FALSE
