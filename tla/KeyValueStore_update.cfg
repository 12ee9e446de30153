SPECIFICATION UpdateSpec
CONSTANTS
    Keys = {a}
    Vals = {1, 2}
    Absent = Absent
    NoOp = NoOp
    Bad = Bad
    NoFile = NoFile
    Torn = Torn
    Writers = {w1, w2}
    Readers = {}
    LoadFirst = TRUE
    CrashAnywhere = FALSE
    MaxId = 3
    MaxWrites = 3
    MaxCrashes = 0
    MaxResets = 0
INVARIANT UpdateAtomic
CHECK_DEADLOCK FALSE
