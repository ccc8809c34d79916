SPECIFICATION FairSpec
CONSTANTS
  Tasks = {t1, t2}
  Servers = {}
  Boot = t1
  Contexts = {c1, c2}
  Vals = {v1}
  None = None
  MayReset = TRUE
PROPERTIES EmulationResumes
CHECK_DEADLOCK FALSE
