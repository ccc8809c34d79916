---------------------------- MODULE MCEventSched ----------------------------
(* Small instances of EventSched.                                          *)
EXTENDS EventSched
=============================================================================
