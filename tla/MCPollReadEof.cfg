SPECIFICATION Spec
CONSTANTS
    MaxData = 1
INVARIANTS EofAfterData
CHECK_DEADLOCK FALSE
