SPECIFICATION VisitSpec
CONSTANTS
    t1 = t1
    t2 = t2
    resident = resident
    visitor = visitor
    None = None
    Tags = {t1, t2}
    Identities <- MCIdentities
    Visitors <- MCVisitors
    KeyRank <- MCKeyRank
    DayLength = 1
    MinOccurrences = 1
    MinDays = 1
    EpcTags = {}
    EpcMinOccurrences = 5
    MinConfidence = 50
    ConflictLimit = 1
    EventTimes = {0}
    MaxPassages = 3
    MaxTime = 4
    Skew = 1
    Gap = 1
    MaxDwell = 2
    Retention = 2
SYMMETRY MCSymmetry
INVARIANTS
    TypeOK
    CurrentPassageExists
    OneVotePerVisibility
    StationaryIsDwell
PROPERTIES
    VerdictsOnlyDegrade
    SightingsAreTrue
    ImplementsBook
