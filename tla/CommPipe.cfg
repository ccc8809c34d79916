SPECIFICATION FairSpec
CONSTANTS
  Writers = {w1, w2}
  Words = {a, f}
  Flush = {f}
  Size = 4
  Chunks = 2
  Serialised = TRUE
INVARIANTS TypeOK NoOverrun NoUnderrun NoLostWakeup
PROPERTIES ImplementsFifo WriteReturns ReadReturns
