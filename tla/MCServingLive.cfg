SPECIFICATION FairSpec
CONSTANTS
  ann = ann  bob = bob  cyd = cyd  dan = dan
  Requests = {ann, bob, cyd, dan}
  Endpoint <- PollersToo
  Start <- StartOf
  Size <- WeightOf
  Threads = 2
  PoolSize = 2
  CacheEntries = 2
  CacheBytes = 5
  MaxGen = 1
CHECK_DEADLOCK FALSE
PROPERTIES EventuallyAnswered
