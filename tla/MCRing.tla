------------------------------- MODULE MCRing -------------------------------
(* Instances of the ring for TLC.                                          *)
EXTENDS RingImplementsFifo, TLC

AllMulti == [s \in Side |-> FALSE]
SingleProd == [s \in Side |-> s = "prod"]

(* Threads of a side and objects are interchangeable.                      *)
Symmetry ==
  Permutations(Producers) \cup Permutations(Consumers) \cup Permutations(Objs)
=============================================================================
