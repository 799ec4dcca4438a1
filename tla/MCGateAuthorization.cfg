SPECIFICATION FairSpec
CONSTANTS
    t1 = t1
    t2 = t2
    NoTag = NoTag
    Tags = {t1, t2}
    GateMode = "live"
    DiscoveryEnabled = TRUE
    Cooldown = 3
    Poll = 1
    LearnLimit = 1
    AuthorizeLimit = 1
    UnlockLimit = 1
    MaxFailures = 1
INVARIANTS
    OpeningsAreRecorded
PROPERTIES
    UnlocksKeepDistance
    RevocationTakesHold
    UsableTagIsAttempted
