---------------------------- MODULE MCSupervise -----------------------------
EXTENDS Supervise
=============================================================================
