SPECIFICATION Spec
CONSTANTS
  BlockCount = 3
  Threads = {t1, t2, t3}
  Null = Null
  Junk = Junk
  NoThread = NoThread
SYMMETRY Symmetry
INVARIANTS
  TypeOK
  FreeListIntegrity
PROPERTY
  KeepsPromise
