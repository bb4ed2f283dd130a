------------------------- MODULE MCStockTaskWorker --------------------------
(* Instances of StockTaskWorker for TLC.                                   *)
EXTENDS StockTaskWorker, TLC
MCSymmetry == Permutations(Drainer) \cup Permutations(Order)
=============================================================================
