SPECIFICATION KvSpec
CONSTANTS
    KvCallers = {p}
    Secrets = {s}
    MaxDek = 4
    MaxVal = 1
PROPERTY VaultKept
CHECK_DEADLOCK FALSE
