----------------------------- MODULE MCShutdown -----------------------------
\* Shutdown for TLC; the calls and the streams are model values.
EXTENDS Shutdown
=============================================================================
