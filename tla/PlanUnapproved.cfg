CONSTANTS
  Procs = {p1, p2}
  SourceType = "Case"
  Target = "case"
  DraftBound = TRUE
  SourceStates = {"failed"}
  InitialBases = {1}
  Bases = {1}
  ReplyShapes <- FullReply
  AmbiguousErrors = FALSE
  MonitorsTimeOut = FALSE
  MaxRepairs = 0
  MaxRevision = 1
  MaxAttempts = 1
  MaxCrashes = 0
SYMMETRY ProcSymmetry
SPECIFICATION Spec
INVARIANTS
  OnlyApprovedRuns
