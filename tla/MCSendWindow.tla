---------------------------- MODULE MCSendWindow ----------------------------
(* SendWindow for TLC: every constant gets its value from the .cfg file.   *)
EXTENDS SendWindow
=============================================================================
