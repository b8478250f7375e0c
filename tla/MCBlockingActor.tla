-------------------------- MODULE MCBlockingActor --------------------------
(* BlockingActor for TLC: the configurations give the callers, the periods  *)
(* and the bound on calls.                                                  *)
EXTENDS BlockingActor

\* The name the loop's period goes by, and any other.
MCPropNames == {LoopName, "label"}
=============================================================================
