\* One slot: every id aliases every other.
CONSTANTS
    N = 1
    IdSpace = 8
    FirstId = 1
    Asks = {a1, a2}
    Readers = {r1}
    Closer = closer
    Kinds = {"timed", "untimed", "deferred"}
    MaxCloses = 1
    Tiers = 2
    NoAsk = none
SPECIFICATION Spec
INVARIANTS TypeOK ExclusiveWriting CellInitialised OwnReplyOnly WakerOfOwner WaiterKeepsSlot GuardReleasesSlot
SYMMETRY Interchangeable
CHECK_DEADLOCK FALSE
