SPECIFICATION Spec
CONSTANTS
  Tasks = {t1, t2}
  Servers = {s1}
  Boot = t1
  Contexts = {c1, c2, c3}
  Vals = {v1}
  None = None
  MayReset = TRUE
SYMMETRY Symmetry
INVARIANTS TypeOK CallerIsRunning MaskRestored
CHECK_DEADLOCK FALSE
