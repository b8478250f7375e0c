------------------------------ MODULE History ------------------------------
(* What an undo history promises: a list of the states that were saved and  *)
(* a position in it.  Going back and forth moves the position and nothing   *)
(* else; only saving a new state discards those that were undone, and only  *)
(* a limit discards old ones: from the old end, and as many as are too many *)
(* to go back to.                                                           *)
EXTENDS Integers, Sequences

CONSTANTS
  States,  \* what is saved
  Limits   \* numbers of states to keep

VARIABLES
  entries,  \* the states saved, the oldest first
  cursor,   \* the position of the last one done, 0 when there is none
  limit

vars == <<entries, cursor, limit>>

Init == entries = <<>> /\ cursor = 0 /\ limit \in Limits

\* The youngest n elements of a sequence.
Youngest(s, n) == IF Len(s) > n THEN SubSeq(s, Len(s) - n + 1, Len(s)) ELSE s

Record(state) ==
  /\ entries' = Youngest(Append(SubSeq(entries, 1, cursor), state), limit)
  /\ cursor' = Len(entries')
  /\ UNCHANGED limit

Move ==
  /\ cursor' \in 1..Len(entries)
  /\ UNCHANGED <<entries, limit>>

\* The number of entries up to the cursor that a limit does not allow.
Excess(size) == IF cursor > size THEN cursor - size ELSE 0

Forget(size) ==
  /\ limit' = size
  /\ entries' = SubSeq(entries, Excess(size) + 1, Len(entries))
  /\ cursor' = cursor - Excess(size)

Reset ==
  /\ entries' = <<>> /\ cursor' = 0
  /\ UNCHANGED limit

Next ==
  \/ \E state \in States : Record(state)
  \/ Move
  \/ \E size \in Limits : Forget(size)
  \/ Reset

Spec == Init /\ [][Next]_vars
=============================================================================
