SPECIFICATION FairSpec
CONSTANTS
    Threads = {0, 1}
    Kinds = {"RW", "TIMER", "PROC"}
    AddFlags = {{}, {"ONESHOT"}, {"DISPATCH"}, {"ONESHOT", "DISPATCH"}}
    NewFlags = FALSE
    KernelFails = TRUE
INVARIANTS
    KernelAgrees
PROPERTIES
    Implements
    Delivered
