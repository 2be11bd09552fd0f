SPECIFICATION FairSpec
CONSTANTS
  Imports = {i1, i2}
  Contents = {"a", "b"}
  NoContent = "none"
  MaxProjects = 2
  MaxCrashes = 1
INVARIANTS TypeOK OneOpenExecution SubmittedAsRecorded
PROPERTIES RunIsNotUndone 
CHECK_DEADLOCK FALSE
