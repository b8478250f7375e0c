--------------------------- MODULE MCOutputPort ----------------------------
(* OutputPort for TLC: the configurations give the threads, the links and   *)
(* the settings; threads of one kind are interchangeable, and so are links  *)
(* that all collide or do not collide at all.                               *)
EXTENDS OutputPort, TLC

Symmetry ==
  Permutations(Notifiers) \cup Permutations(Admins) \cup Permutations(Links)
=============================================================================
