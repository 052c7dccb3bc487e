CONSTANTS
    N = 2
    IdSpace = 8
    FirstId = 0
    Asks = {a1}
    Readers = {r1}
    Closer = closer
    Kinds = {"timed", "untimed", "deferred"}
    MaxCloses = 1
    Tiers = 3
    NoAsk = none
SPECIFICATION FairSpec
CHECK_DEADLOCK FALSE
PROPERTIES PublishedReplyTaken OperationsEnd
