SPECIFICATION FairSpec
CONSTANTS
  Slots = 3
  Timers = {1}
  Ext = ext
  Blitter = blitter
  Other = {disk}
  Bits = {1, 2}
  MaxDelay = 2
  MaxCycle = 3
  MaxStep = 2
  MaxCalls = 2
  HandlerCalls = 0
  TimerCalls = 1
  MaxDepth = 6
  MaxRestarts = 3
  MayReset = FALSE
INVARIANTS NeverOverdue NothingMissed
PROPERTIES  InstructionsEnd AllRun
