SPECIFICATION FairSpec
CONSTANTS
  Tasks = {t1, t2}
  Servers = {}
  Boot = t1
  Contexts = {c1, c2}
  Vals = {v1, v2}
  None = None
  MayReset = FALSE
INVARIANTS OneRuns
PROPERTIES ImplementsCalls TrapsServed
