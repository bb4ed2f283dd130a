------------------------- MODULE MCCardSecretStock --------------------------
(* An instance of CardSecretStock for TLC: ids are 1..MCRows.              *)
EXTENDS CardSecretStockHistory, TLC
CONSTANT MCRows

MCSecretId == 1..MCRows
MCSymmetry == Permutations(Delivery) \cup Permutations(Order) \cup Permutations(Content)
=============================================================================
