SPECIFICATION FairSpec
CONSTANTS
  Tasks = {t1, t2, t3}
  Unstopped = {t3}
  Types = {y1}
  NoTask = NoTask
  QueueSize = 2
  MaxPublishes = 3
CHECK_DEADLOCK FALSE
INVARIANT
  TypeOK
PROPERTIES
  KeepsPromise
  PublishProgresses
  PublishReturns
