SPECIFICATION FairSpec
CONSTANTS
  Jobs = {j1, j2}
  Readers = {r1}
  NumFrames = 2
  Failures = TRUE
  DiskFailures = TRUE
  Cleans = TRUE
  MaxCrashes = 1
INVARIANTS TypeOK CompletedIsCached LiveFramesExist
PROPERTIES TerminalIsFinal ServedFrameStays 
CHECK_DEADLOCK FALSE
