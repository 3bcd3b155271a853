SPECIFICATION Structures
CONSTANTS
    Parts = {"ring", "reass", "bucket", "ini", "dns"}
    IniNumbers = {108}
    Off = Off
    Threads = {"t1", "t2"}
    Keys = {"a", "b", "c"}
    Zones = {0, 1}
    SIZE_T = 8
    hash <- ZoneOf
INVARIANT
    KeysUnique
PROPERTIES
    RingReadsInOrder
    ReassembledWhole
    IniSetIsRead
    DnsRecordsRead
\* The stream of bytes, the messages, the lines and the records are bounded.
CHECK_DEADLOCK FALSE
