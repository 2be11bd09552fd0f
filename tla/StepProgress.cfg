SPECIFICATION FairSpec
CONSTANTS
  Jobs = {j1, j2}
  Cancellable = {j1}
  Uploads = {}
  Assets = {a}
  New = "new"
  MaxLostWrites = 0
  MaxChecks = 1
  MaxCrashes = 1
PROPERTIES JobSettles VersionSettles
CHECK_DEADLOCK FALSE
