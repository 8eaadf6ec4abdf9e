----------------------------- MODULE MCStockEtl -----------------------------
(* Runs of the job are alike; the symbols are not, the job goes by their   *)
(* order.                                                                  *)
EXTENDS StockEtl, TLC

Symmetry == Permutations(Runs)
=============================================================================
