SPECIFICATION ClientSpec
CONSTANTS
  ann = ann  bob = bob  ann1 = ann1  ann2 = ann2  bob1 = bob1
  Requests = {ann1, ann2, bob1}
  Clients = {ann, bob}
  ClientOf <- TabsOf
  Keys = {k1, k2}
  Tasks = {t1, t2}
  NoTask = NoTask
  NoKey = NoKey
  Never = Never
  Threshold = 2
  Cooldown = 2
  CallLife = 1
  Interval = 2
  ThrottleSize = 2
  DailyLimit = 2
  DayLength = 3
  Ttl = 2
  CacheSize = 1
  Horizon = 5
  MaxRestarts = 0
SYMMETRY Interchangeable
INVARIANTS OneTrial TrialIsOut BudgetExact OneCallPerKey
PROPERTIES OneCallPerCooldown OnePlanPerInterval
