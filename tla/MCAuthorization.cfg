SPECIFICATION Spec
CONSTANTS
    gate = gate
    group = group
    door = door
    s1 = s1
    s2 = s2
    Gate = gate
    Groups = {group}
    OtherDoors = {door}
    ScheduleIds = {s1, s2}
    None = None
    Policies <- MCPolicies
    PolicyLists <- MCPolicyLists
    Plans <- MCPlans
    Second = 2
    Day = 8
    DaysPerWeek = 2
    Year = 24
    Offset = 3
    Horizon = 50
    Malformed = Malformed
    Absent = Absent
    Ranges <- MCRanges
    Holidays <- MCHolidays
    Schedules <- MCSchedules
    MaxTime = 1
    MaxEdits = 1
    MaxCalls = 1
CHECK_DEADLOCK FALSE
INVARIANTS
    SchedulesAreKept
PROPERTIES
    UndisturbedAnswerIsRight
    GrantedOnFactsOfTheCall
