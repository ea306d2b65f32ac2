SPECIFICATION FairSpec
CONSTANTS
    Ops = {o1, o2}
    Ids = {s1}
    Absent = Absent
    Processes = {p1, p2}
    MaxCrashes = 1
    Faulty = TRUE
CHECK_DEADLOCK FALSE
INVARIANTS
    LockExclusive
PROPERTIES
    AckMeansPersisted
    WritesSettle
