SPECIFICATION Spec
CONSTANTS
    Keys = {a, b}
    Vals = {1}
    Absent = Absent
    NoOp = NoOp
    Bad = Bad
    NoFile = NoFile
    Torn = Torn
    Writers = {w1}
    Readers = {r1}
    LoadFirst = TRUE
    CrashAnywhere = FALSE
    MaxId = 4
    MaxWrites = 2
    MaxCrashes = 1
    MaxResets = 1

  
PROPERTIES
  
  SavepointTaken
CHECK_DEADLOCK FALSE
