CONSTANTS
    N = 1
    IdSpace = 8
    FirstId = 1
    Asks = {a1, a2}
    Readers = {r1}
    Closer = closer
    Kinds = {"untimed"}
    MaxCloses = 0
    Tiers = 3
    NoAsk = none
SPECIFICATION FairSpec
PROPERTIES PublishedReplyTaken
CHECK_DEADLOCK FALSE
