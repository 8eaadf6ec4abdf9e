--------------------------- MODULE MCModelPublish ---------------------------
(***************************************************************************)
(* One file of provider data and two of the model, and symmetric runs.     *)
(***************************************************************************)
EXTENDS ModelPublish, TLC

MCSize == [k \in Kinds |-> IF k = "qdata" THEN 1 ELSE 2]

Symmetry == Permutations(Jobs)
=============================================================================
