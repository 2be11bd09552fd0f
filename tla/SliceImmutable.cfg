SPECIFICATION Spec
CONSTANTS
  Jobs = {j1, j2}
  Readers = {r1}
  NumFrames = 1
  Failures = FALSE
  DiskFailures = FALSE
  Cleans = FALSE
  MaxCrashes = 0
PROPERTY PublishedFramesImmutable
CHECK_DEADLOCK FALSE
