SPECIFICATION FairSpec
CONSTANTS
    MaxData = 3
INVARIANTS NoLostWakeup
PROPERTIES ParkedIsServed
CHECK_DEADLOCK FALSE
