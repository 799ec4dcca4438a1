SPECIFICATION RecurringSpec
CONSTANTS
    resident = resident
    visitor = visitor
    None = None
    NoOwner = NoOwner
    Service = Service
    Operators = {o1}
    Tags = {t1}
    Identities <- MCIdentities
    Visitors <- MCVisitors
    KeyRank <- MCKeyRank
    DayLength = 1
    MinOccurrences = 1
    MinDays = 1
    EpcTags = {}
    EpcMinOccurrences = 5
    MinConfidence = 50
    ConflictLimit = 1
    EventTimes = {0}
    MaxPassages = 2
    Mode = "live"
    MaxFailures = 1
PROPERTIES
    LaterAmbiguitySuspends
