------------------------------ MODULE MCTimers ------------------------------
EXTENDS Timers, TLC

CONSTANTS t1, t2, t3
=============================================================================
