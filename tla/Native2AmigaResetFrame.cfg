SPECIFICATION Spec
CONSTANTS
  Threads = {t1}
  Emu = emu
  Messages = {"Signal"}
  Length <- MCLength
  Size = 4
  Chunks = 2
  Ample = FALSE
  Recheck = FALSE
  MaxResets = 1
INVARIANTS Whole
CHECK_DEADLOCK FALSE
