CONSTANTS
    N = 1
    IdSpace = 8
    FirstId = 1
    Asks = {a1}
    Readers = {r1}
    Closer = closer
    Kinds = {"deferred"}
    MaxCloses = 0
    Tiers = 3
    NoAsk = none
SPECIFICATION Spec
INVARIANTS DeferredReleasesSlot
CHECK_DEADLOCK FALSE
