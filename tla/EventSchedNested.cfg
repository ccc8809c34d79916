SPECIFICATION Spec
CONSTANTS
  Slots = 3
  Timers = {}
  Ext = ext
  Blitter = blitter
  Other = {}
  Bits = {1}
  MaxDelay = 3
  MaxCycle = 4
  MaxStep = 2
  MaxCalls = 2
  HandlerCalls = 2
  TimerCalls = 0
  MaxDepth = 6
  MaxRestarts = 3
  MayReset = TRUE
INVARIANTS TypeOK
PROPERTIES AllServed 
