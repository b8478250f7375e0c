------------------------------ MODULE MCScheme -------------------------------
(* Scheme for TLC: two actors, the second linked to the first and to        *)
(* itself, out to in; one scheme has both, the other the second only.       *)
EXTENDS Scheme

CONSTANTS a, b

Link(i, j) == <<<<i, "out">>, <<j, "in">>>>

MCLinks == {Link(b, a), Link(b, b)}

MCSchemes ==
  {[actors |-> {a, b}, links |-> {<<Link(b, a), TRUE>>, <<Link(b, b), FALSE>>}],
   [actors |-> {b}, links |-> {<<Link(b, b), FALSE>>}]}
=============================================================================
