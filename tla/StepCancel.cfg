SPECIFICATION Spec
CONSTANTS
  Jobs = {j1}
  Cancellable = {j1}
  Uploads = {}
  Assets = {a}
  New = "new"
  MaxLostWrites = 0
  MaxChecks = 1
  MaxCrashes = 0
INVARIANT CancelledMadeNothing
CHECK_DEADLOCK FALSE
