SPECIFICATION FairSpec
CONSTANTS
    ChannelSize = 2
    MaxLine = 1
    StaleAfter = 2
    MaxEvents = 4
    p1 = p1
    p2 = p2
    Ids = {p1, p2}
    Antennas = {1, 2}
    Watched = 1
    States <- MCStates
    Settings <- MCSettings
    Transient = Transient
    Absent = Absent
    MaxEdits = 1
INVARIANTS
    WholeLinesAreHandled
PROPERTIES
    StreamsCheckedPreset
    LossIsReported
    SuitablePresetIsStreamed
