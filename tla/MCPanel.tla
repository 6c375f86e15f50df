------------------------------- MODULE MCPanel -------------------------------
EXTENDS Panel

CONSTANTS launcher, script, none

\* Conversations are sequences of any length to the type invariant.
Conversations == Seq(Message)
=============================================================================
