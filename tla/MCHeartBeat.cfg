SPECIFICATION Spec
CONSTANTS
  Tasks = {t1, t2}
  Prompt = {t1}
  Interval = 1
  Timeout = 1
  Latency = 1
  Slack = 1
  Ids = {1, 2, 3, 4, 5}
  QueueSize = 2
  MaxOrders = 2
INVARIANTS
  TypeOK
  NoFalseAlarm
  DetectionBound
  ClosedForCause
  OneUnderWay
  AtMostOneLateBeat
  NoLockCycle
