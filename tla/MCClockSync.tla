---------------------------- MODULE MCClockSync -----------------------------
EXTENDS ClockSync
=============================================================================
