SPECIFICATION ReleaseSpec
CONSTANTS
    c1 = c1
    c2 = c2
    archive = archive
    sums = sums
    b1 = b1
    b2 = b2
    MaxDay = 4
    MaxSetbacks = 1
    Changes = {c1, c2}
    Names = {archive, sums}
    Builds = {b1, b2}
    Absent = Absent
SYMMETRY Symmetry
CHECK_DEADLOCK FALSE
INVARIANTS
    PublishedIsWhole
    LatestIsNewest
    ReleasedInTime
