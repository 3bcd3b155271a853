SPECIFICATION Services
SYMMETRY Symmetry
CONSTANTS
    ThreadCounts = {1, 2, 3, 4}
    Binds = {"b1"}
    Clients <- HttpClients
    INIT_SIZE = 5
    MAX_SIZE = 7
    HOST_CHECK = TRUE
    Queries = {q1, q2}
    Sockets = {k1, k2, k3, k4}
    Ids = {0, 1}
    Servers <- RadiusServers
    Addrs = {"a1", "a2"}
    SktLimits <- RadiusLimits
    NoQuery = NoQuery
    NoSkt = NoSkt
    Devs = {"d1", "d2"}
    Ifs = {"if1", "if2"}
    Links = {"l1", "l2"}
    MaxSvc = 1
    Protos <- SsdpProtos
    Urls <- SsdpUrls
    Packets <- Announcements
    SAP_MIN_PAYLOAD = 16
    SAP_HDR_SIZE = 4
    ADDR_SIZES <- SapAddrSizes
    SDP_MIN_SIZE = 16
    MEDIA_MIN_SIZE = 8
    ADDR_MIN_SIZE = 7
    CACHE_TIME = 1
    CLEAN_INTERVAL = 2
    MaxTime = 5
    Buckets = {0, 1}
    hash_fn <- SapHash
    Off = Off
INVARIANTS
    AllOrNothing
    ClosedOnce
    HttpInOrder
    HttpAttended
    RadiusSlotsOwned
    RadiusReportedOnce
    SsdpNoGhost
    SapSessionsKept
PROPERTY
    RadiusRightAnswer
\* The services stop: a client closes, a server is destroyed, the clock is
\* bounded.
CHECK_DEADLOCK FALSE
