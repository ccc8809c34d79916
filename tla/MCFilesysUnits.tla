--------------------------- MODULE MCFilesysUnits ---------------------------
(* Small instances of FilesysUnits: all packets go to the last directory.  *)
EXTENDS FilesysUnits

MCUnitOf  == [p \in Packets |-> NUnits]
MCMaxCmds == [u \in Units |-> IF u = NUnits THEN 3 ELSE 0]
=============================================================================
