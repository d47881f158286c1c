--------------------------- MODULE MCWasmGCWorld ---------------------------
EXTENDS WasmGCWorld, TLC

Symmetry == Permutations(Workers)
=============================================================================
