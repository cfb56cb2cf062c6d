SPECIFICATION ClientSpec
CONSTANTS
  MaxCalls = 2
  MaxReconfigs = 1
  MaxMounts = 2
  MaxCloses = 1
  MaxStarted = 2
INVARIANTS ClientType StatusOfShownPool OwnsOnePool OffersOwnedPool
  StatsOfShownPool
PROPERTIES ShowsLatestCall ShowsLatestRun ShowsLatestBatch
CHECK_DEADLOCK FALSE
