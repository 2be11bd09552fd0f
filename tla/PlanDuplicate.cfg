CONSTANTS
  Procs = {p1, p2}
  SourceType = "Geometry"
  Target = "case"
  DraftBound = FALSE
  SourceStates = {"completed"}
  InitialBases = {1}
  Bases = {1}
  ReplyShapes <- FullReply
  AmbiguousErrors = FALSE
  MonitorsTimeOut = FALSE
  MaxRepairs = 0
  MaxRevision = 1
  MaxAttempts = 3
  MaxCrashes = 0
SYMMETRY ProcSymmetry
SPECIFICATION Spec
INVARIANTS
  NoDuplicateRun
