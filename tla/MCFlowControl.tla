--------------------------- MODULE MCFlowControl ---------------------------
(* FlowControl for TLC: every constant gets its value from the .cfg file.  *)
EXTENDS FlowControl
=============================================================================
