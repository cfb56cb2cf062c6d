SPECIFICATION TaskSpec
CONSTANTS
  Apis = {1, 2}
  Methods = {"fibAsync", "analyzeText"}
  MaxRuns = 2
  MaxCallIds = 6
INVARIANTS StatusOfShownTarget
PROPERTIES ShowsLatestRun
CHECK_DEADLOCK FALSE
