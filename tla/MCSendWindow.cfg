SPECIFICATION FairSpec
CONSTANTS
    Initial = 1
    MaxCredit = 3
    MaxDesired = 2
    Granters = {g1, g2}
    Closers = {c1}
    MaxDelta = 2
    MaxOffered = 3
INVARIANTS CreditExact NoLostWakeup
PROPERTIES ImplementsCredit ParkedIsServed
CHECK_DEADLOCK FALSE
