SPECIFICATION FairSpec
CONSTANTS
    Accepters = {a}
    Closers = {c1, c2}
    MaxSyns = 1
    WithKeepalive = TRUE
INVARIANT ShutdownOnce
INVARIANT GoAwayFlushed
INVARIANT CloseMeansStopped
PROPERTY CloseReturns
PROPERTY AcceptReturns
PROPERTY SilentPeerNoticed
CHECK_DEADLOCK FALSE
