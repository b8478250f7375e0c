-------------------------- MODULE SnapshotManager --------------------------
(* rf::SystemSnapshotManager (System/SystemSnapshotManager.cpp): undo and   *)
(* redo over snapshots of a system.  Every operation holds the manager's    *)
(* mutex from end to end, but the system is edited by others meanwhile:     *)
(* while SetMemento() restores it, and between two operations.              *)
(*                                                                          *)
(* A snapshot is the state of the system it was taken of.  CreateMemento()  *)
(* and SetMemento() are the system's; here the first returns the state and  *)
(* the second sets it, in a step of its own, or throws half way.            *)
EXTENDS Integers, SequencesExt

CONSTANTS
  Callers,     \* threads that call the manager
  Free,        \* no thread
  Schemes,     \* states of the system
  SameHash,    \* states whose snapshots have equal hashes
  Sizes,       \* the values of maxUndoSize
  Steps,       \* the numbers of steps Undo and Redo are called with
  WordSize,    \* the number of values of size_t
  UndoAtStart, \* whether Undo(steps) is called when nothing is saved
  RedoThrows   \* whether SetMemento() may throw in Redo()

ASSUME CallersAssumption == Free \notin Callers

ASSUME OptionsAssumption ==
  /\ SameHash \subseteq Schemes
  /\ Sizes \subseteq Nat /\ Steps \subseteq Nat
  /\ WordSize \in Nat /\ \A n \in Sizes \cup Steps : n + 1 < WordSize
  /\ UndoAtStart \in BOOLEAN /\ RedoThrows \in BOOLEAN

VARIABLES
  scheme,       \* the state of the system
  edited,       \* ghost: was it edited since it was last saved or restored
  undoDeque,    \* the snapshots, the last is the current state
  redoDeque,    \* the snapshots undone, the last was undone last
  maxUndoSize,
  mutex,        \* the thread inside SetMemento(), which holds the mutex
  call,         \* what that thread called
  undefined     \* a deque was asked for an element it has not

vars == <<scheme, edited, undoDeque, redoDeque, maxUndoSize, mutex, call, undefined>>

deques == <<undoDeque, redoDeque>>

Init ==
  /\ scheme \in Schemes
  /\ edited = TRUE
  /\ undoDeque = <<>> /\ redoDeque = <<>>
  /\ maxUndoSize \in Sizes
  /\ mutex = Free /\ call = "none"
  /\ undefined = FALSE

\* Somebody changes the system, a restoration in progress or not.
Edit ==
  /\ scheme' \in Schemes
  /\ edited' = TRUE
  /\ UNCHANGED <<deques, maxUndoSize, mutex, call, undefined>>
-----------------------------------------------------------------------------
(* Save, Clear and SetMaxUndoSize *)

\* States whose snapshots are taken for one.
Alike(s, t) == s = t \/ {s, t} \subseteq SameHash

IsSnapshotDifferent(snapshot) ==
  undoDeque # <<>> => ~Alike(snapshot, Last(undoDeque))

\* Mutant: one entry too many is kept.
TrimmedLate(deque, size) ==
  IF Len(deque) > size + 1 THEN SubSeq(deque, Len(deque) - size, Len(deque)) ELSE deque

\* Entries are popped at the front until there are size of them.
Trimmed(deque, size) ==
  IF Len(deque) > size THEN SubSeq(deque, Len(deque) - size + 1, Len(deque)) ELSE deque

\* Mutant: the redo history survives a new state.
SaveKeepsRedo ==
  /\ mutex = Free
  /\ IF IsSnapshotDifferent(scheme)
     THEN undoDeque' = Trimmed(Append(undoDeque, scheme), maxUndoSize)
     ELSE UNCHANGED undoDeque
  /\ edited' = FALSE
  /\ UNCHANGED <<scheme, redoDeque, maxUndoSize, mutex, call, undefined>>

Save ==
  /\ mutex = Free
  /\ IF IsSnapshotDifferent(scheme)
     THEN /\ undoDeque' = Trimmed(Append(undoDeque, scheme), maxUndoSize)
          /\ redoDeque' = <<>>
     ELSE UNCHANGED deques
  /\ edited' = FALSE
  /\ UNCHANGED <<scheme, maxUndoSize, mutex, call, undefined>>

Clear ==
  /\ mutex = Free
  /\ undoDeque' = <<>> /\ redoDeque' = <<>>
  /\ UNCHANGED <<scheme, edited, maxUndoSize, mutex, call, undefined>>

\* Mutant: the size is stored less one, and 0 wraps.
SetMaxUndoSizeLessOne(size) ==
  /\ mutex = Free
  /\ maxUndoSize' = (size - 1) % WordSize
  /\ undoDeque' = Trimmed(undoDeque, maxUndoSize')
  /\ UNCHANGED <<scheme, edited, redoDeque, mutex, call, undefined>>

SetMaxUndoSize(size) ==
  /\ mutex = Free
  /\ maxUndoSize' = size
  /\ undoDeque' = Trimmed(undoDeque, size)
  /\ UNCHANGED <<scheme, edited, redoDeque, mutex, call, undefined>>
-----------------------------------------------------------------------------
(* Undo and Redo *)

\* The mutex is taken and kept while the system is restored.
Restore(c, operation) ==
  /\ mutex = Free
  /\ mutex' = c /\ call' = operation
  /\ edited' = FALSE
  /\ UNCHANGED <<scheme, maxUndoSize>>

\* The last n snapshots done are moved to those undone.
MoveToRedo(n) ==
  /\ redoDeque' = redoDeque \o Reverse(SubSeq(undoDeque, Len(undoDeque) - n + 1, Len(undoDeque)))
  /\ undoDeque' = SubSeq(undoDeque, 1, Len(undoDeque) - n)

Undo(c) ==
  /\ Len(undoDeque) > 1
  /\ MoveToRedo(1)
  /\ Restore(c, "undo")
  /\ UNCHANGED undefined

\* min(steps, undoDeque.size() - 1), where size() is unsigned.
RealSteps(steps) ==
  LET available == (Len(undoDeque) - 1) % WordSize
  IN  IF steps < available THEN steps ELSE available

\* Undo(steps)
UndoSteps(c, steps) ==
  LET n == RealSteps(steps) IN
    /\ n > 0
    /\ undoDeque = <<>> => UndoAtStart
    /\ undefined' = (n > Len(undoDeque))
    /\ IF undefined' THEN UNCHANGED deques ELSE MoveToRedo(n)
    /\ Restore(c, "undo")

\* Redo(): the snapshot is pushed first and popped when it has been restored.
Redo(c) ==
  /\ redoDeque # <<>>
  /\ undoDeque' = Append(undoDeque, Last(redoDeque))
  /\ Restore(c, "redo")
  /\ UNCHANGED <<redoDeque, undefined>>

\* Redo(steps): all the snapshots are moved first.
RedoSteps(c, steps) ==
  LET n == IF steps < Len(redoDeque) THEN steps ELSE Len(redoDeque) IN
    /\ n > 0
    /\ undoDeque' = undoDeque \o Reverse(SubSeq(redoDeque, Len(redoDeque) - n + 1, Len(redoDeque)))
    /\ redoDeque' = SubSeq(redoDeque, 1, Len(redoDeque) - n)
    /\ Restore(c, "redoSteps")
    /\ UNCHANGED undefined

Release == mutex' = Free /\ call' = "none"

\* Mutant: the snapshot that was popped is restored.
RestoredPopped ==
  /\ mutex # Free
  /\ scheme' \in IF edited THEN Schemes
                 ELSE {IF call = "undo" THEN Last(redoDeque) ELSE Last(undoDeque)}
  /\ redoDeque' = IF call = "redo" THEN Front(redoDeque) ELSE redoDeque
  /\ Release
  /\ UNCHANGED <<edited, undoDeque, maxUndoSize, undefined>>

\* SetMemento() has returned: the system is in the state of the snapshot it was
\* given, or in any if it was edited in the meantime.
Restored ==
  /\ mutex # Free
  /\ scheme' \in IF edited THEN Schemes
                 ELSE {IF call = "redo" THEN Last(redoDeque) ELSE Last(undoDeque)}
  /\ redoDeque' = IF call = "redo" THEN Front(redoDeque) ELSE redoDeque
  /\ Release
  /\ UNCHANGED <<edited, undoDeque, maxUndoSize, undefined>>

\* SetMemento() has thrown, the system being half restored.
RestoreThrew ==
  /\ mutex # Free
  /\ call = "redo" => RedoThrows
  /\ scheme' \in Schemes
  /\ edited' = TRUE
  /\ Release
  /\ UNCHANGED <<deques, maxUndoSize, undefined>>
-----------------------------------------------------------------------------
\* Nothing is said of what happens after an undefined operation.
Next ==
  /\ ~undefined
  /\ \/ Edit
     \/ Save
     \/ Clear
     \/ \E size \in Sizes : SetMaxUndoSize(size)
     \/ \E c \in Callers : Undo(c) \/ Redo(c)
     \/ \E c \in Callers, steps \in Steps : UndoSteps(c, steps) \/ RedoSteps(c, steps)
     \/ Restored
     \/ RestoreThrew

Spec == Init /\ [][Next]_vars
-----------------------------------------------------------------------------
\* The values the variables range over.
TypeOK ==
  /\ scheme \in Schemes /\ edited \in BOOLEAN
  /\ undoDeque \in Seq(Schemes) /\ redoDeque \in Seq(Schemes)
  /\ maxUndoSize \in Sizes
  /\ mutex \in Callers \cup {Free}
  /\ call \in {"none", "undo", "redo", "redoSteps"}
  /\ undefined \in BOOLEAN

\* The last snapshot done is the state the system is in, or one of the same hash,
\* after any saves, restorations and limits, unless somebody edited the system
\* since.  (What was edited but not saved is not in the history, and Undo() loses
\* it: the manager does not see edits.)
LastIsCurrent ==
  mutex = Free /\ ~edited /\ undoDeque # <<>> => Alike(scheme, Last(undoDeque))

\* A caller that goes back and forth has at most as many snapshots as the
\* largest limit in use: undo and redo copy none, though Redo() does not trim
\* (RedoThrows = FALSE: the snapshot of a Redo() that throws is in both deques).
SnapshotsBounded ==
  mutex = Free =>
    \E size \in Sizes : Len(undoDeque) + Len(redoDeque) <= size

\* Undo(steps) moves no more snapshots than there are.
StepsLimited == ~undefined

\* The snapshots not undone and those undone are one history.  While Redo() is
\* at work the snapshot it redoes is in both deques.
Undone == IF call = "redo" THEN Front(redoDeque) ELSE redoDeque

Undoable == INSTANCE History WITH
  States <- Schemes,
  Limits <- Sizes,
  entries <- undoDeque \o Reverse(Undone),
  cursor <- Len(undoDeque),
  limit <- maxUndoSize

\* The two deques implement an undo history: no operation loses, repeats or
\* reorders snapshots, when the limit changes it is kept to, and so it is when a
\* restoration throws: in Undo(), Undo(steps) and Redo(steps), but not in Redo(),
\* which leaves the snapshot in both deques (RedoThrows = FALSE).
ImplementsHistory == Undoable!Spec
=============================================================================
