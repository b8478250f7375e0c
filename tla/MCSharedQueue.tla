--------------------------- MODULE MCSharedQueue ---------------------------
(* SharedQueue for TLC: the runs' configurations give the threads, the      *)
(* sizes and the modes; threads of one kind are interchangeable.            *)
EXTENDS SharedQueue, TLC

Symmetry ==
  Permutations(Producers) \cup Permutations(Consumers \ TimedConsumers)
=============================================================================
