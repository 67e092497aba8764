SPECIFICATION Spec
CONSTANTS
    MaxStreams = 1
    ClientOpens = 2
    ServerOpens = 0
    MaxWrites = 0
    WithReset = {"client"}
    WithTimeout = FALSE
    WithClose = {"server"}
    WithBreak = {}
INVARIANT ResetHasCause
INVARIANT LiveHandleRegistered
PROPERTY ClosedForGood
CHECK_DEADLOCK FALSE
