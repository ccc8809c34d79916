SPECIFICATION FairSpec
CONSTANTS
  Threads = {t1, emu}
  Emu = emu
  Messages = {"Signal"}
  Length <- MCLength
  Size = 4
  Chunks = 2
  Ample = TRUE
  Recheck = TRUE
  MaxResets = 1
INVARIANTS TypeOK Framed NoLostInterrupt OneSender
PROPERTIES WritesSerialised  
CHECK_DEADLOCK FALSE
