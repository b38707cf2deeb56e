SPECIFICATION FairSpec
CONSTANTS
  Tasks = {t1}
  Manager = Manager
  Users = {u1, u2}
  Main = u1
  States = {"RUNNING"}
  MaxCalls = 3
  MaxMarks = 1
CHECK_DEADLOCK FALSE
PROPERTY
  CallsReturn
