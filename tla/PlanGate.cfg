CONSTANTS
  Procs = {p1, p2}
  SourceType = "Geometry"
  Target = "case"
  DraftBound = FALSE
  SourceStates = {"completed"}
  InitialBases = {1}
  Bases = {1}
  ReplyShapes <- AllReplies
  AmbiguousErrors = TRUE
  MonitorsTimeOut = TRUE
  MaxRepairs = 1
  MaxRevision = 2
  MaxAttempts = 2
  MaxCrashes = 1
SYMMETRY ProcSymmetry
SPECIFICATION Spec
INVARIANTS
  TypeOK
  ApprovalIsOfThisRevision
  SubmittedContentWasJudged
  ResubmissionFollowsFailure
  OpenSubmissionLocksPlan
  
PROPERTIES
  ImplementsContract
