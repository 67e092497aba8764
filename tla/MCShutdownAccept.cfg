SPECIFICATION FairSpec
CONSTANTS
    Accepters = {a}
    Closers = {c}
    MaxSyns = 0
    WithKeepalive = FALSE
PROPERTY AcceptEndsWithSession
CHECK_DEADLOCK FALSE
