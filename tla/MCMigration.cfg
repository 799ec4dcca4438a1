SPECIFICATION FairSpec
CONSTANTS
    service = service
    command = command
    user = user
    visitor = visitor
    None = None
    Service = service
    Commands = {command}
    LegacyUser = user
    NewActors = {visitor}
    Releases <- MCReleases
    MaxOpens = 3
CHECK_DEADLOCK FALSE
INVARIANTS
    OpenStoreIsMigrated
PROPERTIES
    NewerActorsAreKept
    ServiceOpens
