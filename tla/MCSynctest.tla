----------------------------- MODULE MCSynctest -----------------------------
EXTENDS Synctest, TLC

CONSTANTS g1, g2

\* The first goroutine does most; the outsider sends once.
SmallBudget == (g1 :> 3 @@ g2 :> 2 @@ Outsider :> 1)
=============================================================================
