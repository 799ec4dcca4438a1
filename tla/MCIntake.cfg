SPECIFICATION IntakeSpec
CONSTANTS
    t1 = t1
    i1 = i1
    None = None
    Tags = {t1}
    Identities = {i1}
    Visitors = {}
    KeyRank <- MCKeyRank
    DayLength = 1
    MinOccurrences = 1
    MinDays = 1
    EpcTags = {}
    EpcMinOccurrences = 5
    MinConfidence = 50
    ConflictLimit = 1
    EventTimes = {}
    MaxPassages = 4
    MaxTime = 9
    Skew = 0
    Gap = 4
    MaxDwell = 6
    Retention = 20
    PollTime = 2
    MaxLag = 2
CHECK_DEADLOCK FALSE
INVARIANTS
    PassagesAreVisits
