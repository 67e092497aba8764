----------------------------- MODULE MCPollRead -----------------------------
(* PollRead for TLC: the bound gets its value from the .cfg file.          *)
EXTENDS PollRead
=============================================================================
