----------------------------- MODULE MCDelivery -----------------------------
(* Delivery for TLC: two actors linked to each other, or one that is linked *)
(* to itself and to the other; everything asynchronous (Ring), everything   *)
(* synchronous, or the synchronous port a1 and the synchronous actor a2.      *)
EXTENDS Delivery

CONSTANTS a1, a2

Setup(l, p, r) == [links |-> l, syncPorts |-> p, syncActors |-> r]
Ring == {<<a1, a2>>, <<a2, a1>>}
Fork == {<<a1, a1>>, <<a1, a2>>}

MCSetups ==
  {Setup(Ring, {}, {}), Setup(Ring, {a1}, {a2}), Setup(Fork, {a1}, {a2}),
   Setup(Ring, {a1, a2}, {a1, a2}), Setup(Fork, {a1, a2}, {a1, a2})}
=============================================================================
