--------------------------- MODULE MCNative2Amiga ---------------------------
(* Small instances of Native2Amiga: how long the messages are.             *)
EXTENDS Native2Amiga

MCLength == [m \in Messages |-> IF m = "Signal" THEN 3 ELSE 2]
============================================================================
