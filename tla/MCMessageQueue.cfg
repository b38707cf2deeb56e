SPECIFICATION FairSpec
CONSTANTS
  Producers = {p1, p2}
  Consumers = {c1}
  Pollers = {o1}
  Blocks = {b1, b2}
  Priorities = {1, 2}
  SequenceMod = 4
  MaxEnqueues = 3
  NoThread = NoThread
  NoBlock = NoBlock
  NullOpt = NullOpt
  Pending = Pending
CHECK_DEADLOCK FALSE
INVARIANTS
  TypeOK
  BlocksAccounted
  NoLostWakeup
PROPERTIES
  KeepsPromise
  EveryMessageTaken
  ShutdownReleases
