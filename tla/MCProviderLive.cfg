SPECIFICATION FairClientSpec
CONSTANTS
  ann = ann  bob = bob  ann1 = ann1  ann2 = ann2  bob1 = bob1
  Requests = {ann1, bob1}
  Clients = {ann, bob}
  ClientOf <- TabsOf
  Keys = {k1}
  Tasks = {t1, t2}
  NoTask = NoTask
  NoKey = NoKey
  Never = Never
  Threshold = 1
  Cooldown = 2
  CallLife = 1
  Interval = 2
  ThrottleSize = 2
  DailyLimit = 2
  DayLength = 3
  Ttl = 2
  CacheSize = 1
  Horizon = 4
  MaxRestarts = 1


PROPERTY EveryoneAnswered
