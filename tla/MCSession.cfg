SPECIFICATION FairSpec
CONSTANTS
    MaxStreams = 1
    ClientOpens = 1
    ServerOpens = 0
    MaxWrites = 1
    WithReset = {}
    WithTimeout = TRUE
    WithClose = {}
    WithBreak = {"server"}
INVARIANT TypeOK
INVARIANT ProtocolErrorOnlyAfterReset
INVARIANT HandshakeSound
INVARIANT UnblockedByShutdown
INVARIANT FinAfterData
PROPERTY Reclaimed
PROPERTY PeerGoneNoticed
PROPERTY Converge
CHECK_DEADLOCK FALSE
