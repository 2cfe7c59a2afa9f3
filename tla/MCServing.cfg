SPECIFICATION Spec
CONSTANTS
  ann = ann  bob = bob  cyd = cyd  dan = dan
  Requests = {ann, bob, cyd}
  Endpoint <- EndpointOf
  Start <- StartOf
  Size <- WeightOf
  Threads = 2
  PoolSize = 2
  CacheEntries = 2
  CacheBytes = 5
  MaxGen = 2
SYMMETRY Alike
CHECK_DEADLOCK FALSE
INVARIANTS HitIsCurrent CacheBounded FlightsSound
PROPERTIES ReadsThrough
