SPECIFICATION Spec
CONSTANTS
  Tasks = {t1, t2}
  Manager = Manager
  Users = {u1}
  Main = u1
  States = {"IDLE", "RUNNING"}
  MaxCalls = 3
  MaxMarks = 0
SYMMETRY Symmetry
CHECK_DEADLOCK FALSE
PROPERTY
  DemandTrueMeansTransitioned
