--------------------------- MODULE MCCorrelation ---------------------------
(* Instances of Correlation for TLC. *)
EXTENDS Correlation, TLC

Interchangeable == Permutations(Asks)
=============================================================================
