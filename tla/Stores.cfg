SPECIFICATION Spec
CONSTANTS
    Ops = {o1, o2}
    Ids = {s1, s2}
    Absent = Absent
    Processes = {p1}
    MaxCrashes = 2
    Faulty = TRUE
SYMMETRY StoreSymmetry
CHECK_DEADLOCK FALSE
INVARIANTS
    AckedDurable
PROPERTIES
    Serialized
