------------------------------ MODULE MCMempool ------------------------------
(* Instances of the mempool for TLC.                                       *)
EXTENDS Mempool, TLC

Symmetry ==
  Permutations(Lcores) \cup Permutations(Others) \cup Permutations(Objects)
=============================================================================
