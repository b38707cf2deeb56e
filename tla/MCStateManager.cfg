SPECIFICATION Spec
CONSTANTS
  Tasks = {t1, t2}
  Manager = Manager
  Users = {u1, u2}
  Main = u1
  States = {"IDLE", "RUNNING"}
  MaxCalls = 3
  MaxMarks = 1
SYMMETRY Symmetry
CHECK_DEADLOCK FALSE
INVARIANTS
  TypeOK
  Agreement
  CleanDemandSound
