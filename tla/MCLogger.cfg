SPECIFICATION FairSpec
CONSTANTS
  Threads = {t1, t2}
  Sinks = {s1, s2, s3}
  SocketSinks = {s3}
  Levels = {3, 4}
  MaxEntries = 2
CHECK_DEADLOCK FALSE
INVARIANTS
  TypeOK
  InOrder
  Flushed
  NoLostWakeup
PROPERTIES
  EntriesWritten
  DestructorReturns
