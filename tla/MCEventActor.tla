--------------------------- MODULE MCEventActor ----------------------------
(* EventActor for TLC: the configurations give the senders, the sizes and   *)
(* the modes; senders are interchangeable, tasks are numbered.              *)
EXTENDS EventActor, TLC

Symmetry == Permutations(Senders)
=============================================================================
