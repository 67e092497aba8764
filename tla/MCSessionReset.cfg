SPECIFICATION Spec
CONSTANTS
    MaxStreams = 1
    ClientOpens = 1
    ServerOpens = 0
    MaxWrites = 1
    WithReset = {"client", "server"}
    WithTimeout = FALSE
    WithClose = {}
    WithBreak = {}
INVARIANT ResetIsLocal
CHECK_DEADLOCK FALSE
