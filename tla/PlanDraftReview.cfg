CONSTANTS
  Procs = {p1, p2}
  SourceType = "Case"
  Target = "case"
  DraftBound = TRUE
  SourceStates = {"completed", "failed"}
  InitialBases = {0}
  Bases = {1, 2}
  ReplyShapes <- NamedReplies
  AmbiguousErrors = TRUE
  MonitorsTimeOut = TRUE
  MaxRepairs = 0
  MaxRevision = 1
  MaxAttempts = 2
  MaxCrashes = 1
SYMMETRY ProcSymmetry
SPECIFICATION Spec
INVARIANTS
  SubmittedContentWasJudged
  ResubmissionFollowsFailure
  OpenSubmissionLocksPlan
  
