SPECIFICATION Spec
CONSTANTS
  Jobs = {j1}
  Cancellable = {j1}
  Uploads = {u1}
  Assets = {a}
  New = "new"
  MaxLostWrites = 1
  MaxChecks = 1
  MaxCrashes = 1
INVARIANTS TypeOK VersionsAreNumbered CompletedHasVersion FailedMadeNothing
PROPERTY OutcomeStays
CHECK_DEADLOCK FALSE
