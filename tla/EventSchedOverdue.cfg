SPECIFICATION Spec
CONSTANTS
  Slots = 3
  Timers = {}
  Ext = ext
  Blitter = blitter
  Other = {disk}
  Bits = {1, 2}
  MaxDelay = 3
  MaxCycle = 4
  MaxStep = 2
  MaxCalls = 2
  HandlerCalls = 1
  TimerCalls = 0
  MaxDepth = 6
  MaxRestarts = 3
  MayReset = FALSE
INVARIANTS NeverOverdue
