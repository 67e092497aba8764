SPECIFICATION FairSpec
CONSTANTS
    StreamIds = {1}
    Controls <- SomeControls
    MaxControls = 1
    MaxBytes = 3
    Limits = {1, 2, 3}
    Ceiling = 2
INVARIANT FramesIntact
INVARIANT BytesInOrder
INVARIANT FailsForACause
PROPERTY BytesArrive
CHECK_DEADLOCK FALSE
