SPECIFICATION FairSpec
CONSTANTS
    SendInit = 4
    RecvInit = 5
    MaxFrame = 3
    MaxCredit = 5
    Total = 9
INVARIANTS CreditConserved BufferWithinWindow NoStall FinAfterData
PROPERTIES CreditReturns FinReachesReader
CHECK_DEADLOCK FALSE
