SPECIFICATION Structures
CONSTANTS
    Parts = {"ini"}
    IniNumbers = {10}
    Off = Off
    Threads = {"t1", "t2"}
    Keys = {"a", "b", "c"}
    Zones = {0, 1}
    SIZE_T = 8
    hash <- ZoneOf
INVARIANT
    IniNumberIsRead
\* The lines are bounded.
CHECK_DEADLOCK FALSE
