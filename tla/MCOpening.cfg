SPECIFICATION FairSpec
CONSTANTS
    Openers = {o1, o2}
    MaxStreams = 1
    FirstId = 1
    MaxId = 4
    MaxPeerId = 2
INVARIANT IdsUnique
INVARIANT CapOvershoot
INVARIANT OutcomeTrue
INVARIANT NoLostWakeup
INVARIANT RegistryAccounted
INVARIANT LateStreams
PROPERTY OpenUnblocked
CHECK_DEADLOCK FALSE
