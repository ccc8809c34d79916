SPECIFICATION Spec
CONSTANTS
  NUnits = 2
  Packets = {"read", "write", "other"}
  UnitOf <- MCUnitOf
  Dummy = "dummy"
  Death = "death"
  MaxStarted = 20
  BackSize = 6
  MaxCmds <- MCMaxCmds
  MaxResets = 0
  SendResets = 0
INVARIANTS NoneForgotten
CHECK_DEADLOCK FALSE
