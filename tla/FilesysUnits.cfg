SPECIFICATION FairSpec
CONSTANTS
  NUnits = 2
  Packets = {"read", "write", "other"}
  UnitOf <- MCUnitOf
  Dummy = "dummy"
  Death = "death"
  MaxStarted = 2
  BackSize = 6
  MaxCmds <- MCMaxCmds
  MaxResets = 1
  SendResets = 0
INVARIANTS TypeOK OneDummy PipesNeverFull
PROPERTIES  Answered ResetEnds
