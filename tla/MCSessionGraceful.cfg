SPECIFICATION Spec
CONSTANTS
    MaxStreams = 1
    ClientOpens = 1
    ServerOpens = 0
    MaxWrites = 1
    WithReset = {}
    WithTimeout = FALSE
    WithClose = {}
    WithBreak = {}
INVARIANT GracefulClose
CHECK_DEADLOCK FALSE
