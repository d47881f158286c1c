---------------------------- MODULE MCWasiGCWorld ----------------------------
\* The constants of the run are model values; they are given in WasiGCWorld.cfg.
EXTENDS WasiGCWorld
=============================================================================
