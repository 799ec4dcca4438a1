SPECIFICATION MatchingSpec
CONSTANTS
    t1 = t1
    t2 = t2
    plateA = plateA
    plateB = plateB
    user = user
    visitor = visitor
    None = None
    Omitted = Omitted
    Tags = {t1, t2}
    Actors <- MCActors
    Plates <- MCPlates
    Identities <- MCIdentities
    Visitors = {}
    KeyRank <- MCKeyRank
    DayLength = 1
    MinOccurrences = 1
    MinDays = 1
    EpcTags = {}
    EpcMinOccurrences = 5
    MinConfidence = 50
    ConflictLimit = 1
    EventTimes <- MCHitTimes
    HitTimes <- MCHitTimes
    Kinds <- MCKinds
    Logs <- MCLogs
    Second = 2
    PageSize = 3
    Paginated = TRUE
    MaxHits = 2
    MaxPassages = 3
    MaxTime = 3
    Skew = 0
    Gap = 1
    MaxDwell = 3
    Retention = 20
    Window = 1
    Poll = 1
    RetryDelay = 1
    RetryHorizon = 2
SYMMETRY MCSymmetry
CHECK_DEADLOCK FALSE
INVARIANTS
    OrderDoesNotMatter
    MatchIsSoleEntry
    MatchedVehicleCameBy
    OneVotePerEvent
