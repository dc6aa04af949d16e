SPECIFICATION AppsSpec
CONSTANTS
    DELEGATE = DELEGATE
    REVOKE = REVOKE
    Rights = {DELEGATE, REVOKE}
    Requests = {{REVOKE}}
    MaxCapabilities = 3
    Ttls <- MCTtls
    MaxTime = 2
    MaxIssued = 4
    KvCallers = {p, q}
    Secrets = {s}
    MaxDek = 2
    MaxVal = 2
    Disks = {d}
    Callers = {a, b}
    MaxParts = 2
    MaxInst = 3
    MaxSeq = 2
    MaxWork = 4
SYMMETRY AppsSymmetry
CHECK_DEADLOCK FALSE
INVARIANTS
    AppsTypeOK
    LoopRevokesAll
    NothingUnderTheRevoked
    AuthorityChain
    SystemReadable
    UserSecretsKept
    AnswersAccounted
    NobodySleepsOver
    DrivesLeaveSafely
