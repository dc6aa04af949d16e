SPECIFICATION NetSpec
CONSTANTS
    Addrs = {x, y}
    StaticAddr = z
    None = None
    MAX_REQUEST_ATTEMPTS = 2
    MAX_REQUEST_ATTEMPTS_ON_REBOOTING = 1
    INBOX_MAX = 1
    MaxXid = 2
    Ips = {i, j}
    Has = {h, k}
    NoHa = NoHa
    MCAST_PROBES = 2
    UCAST_PROBES = 1
    RETRANS_TIME = 1
    DELAY_PROBE_TIME = 1
    GC_STALETIME = 2
    LOCKTIME = 1
    ReachTimes = {2}
    FORCED_AGE = 1
    QUEUE_LEN = 2
    GC_THRESH1 = 1
    GC_THRESH2 = 0
    GC_THRESH3 = 1
    MaxPacket = 3
    Frags <- MCFrags
    UNIT = 2
    HIGH_THRESH = 8
    FRAG_OVERHEAD = 1
    MAX_DIST = 1
    FRAG_TIME = 1
    PEERS_MAX = 1
    MAX_LEN = 8
    MaxRid = 4
SYMMETRY NetSymmetry
CHECK_DEADLOCK FALSE
INVARIANTS
    NetTypeOK
    AddressSound
    ClientGoesOn
    PacketsServed
    EntriesSound
    DatagramsAsSent
    FragAccounted
