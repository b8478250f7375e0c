----------------------- MODULE SnapshotManagerProofs -----------------------
(* What SnapshotManager keeps for every set of callers, states and limits.  *)
EXTENDS SnapshotManager, SequenceTheorems, TLAPS

-----------------------------------------------------------------------------
(* The sequences the operations build *)

\* What is cut out of a sequence is a sequence of the same elements.
LEMMA CutFacts ==
  ASSUME NEW s \in Seq(Schemes), NEW m \in Int, NEW n \in Int,
         m >= 1, n <= Len(s)
  PROVE  /\ SubSeq(s, m, n) \in Seq(Schemes)
         /\ Len(SubSeq(s, m, n)) = IF m <= n THEN n - m + 1 ELSE 0
         /\ \A i \in 1..(n - m + 1) : SubSeq(s, m, n)[i] = s[m + i - 1]
BY SMT

\* Reversing a sequence gives one of the same elements and the same length.
LEMMA ReverseFacts ==
  ASSUME NEW s \in Seq(Schemes)
  PROVE  /\ Reverse(s) \in Seq(Schemes)
         /\ Len(Reverse(s)) = Len(s)
BY SMT DEF Reverse

\* Dropping the last element of a sequence that has one.
LEMMA FrontFacts ==
  ASSUME NEW s \in Seq(Schemes), s # <<>>
  PROVE  /\ Front(s) \in Seq(Schemes)
         /\ Len(Front(s)) = Len(s) - 1
         /\ Last(s) \in Schemes
         /\ Len(s) > 0
<1>1. Len(s) \in Nat /\ Len(s) > 0
  BY EmptySeq, SMT
<1>2. /\ SubSeq(s, 1, Len(s) - 1) \in Seq(Schemes)
      /\ Len(SubSeq(s, 1, Len(s) - 1)) = Len(s) - 1
  <2>1. Len(s) - 1 \in Int /\ Len(s) - 1 <= Len(s) /\ 1 \in Int /\ 1 >= 1
    BY <1>1, SMT
  <2>2. /\ SubSeq(s, 1, Len(s) - 1) \in Seq(Schemes)
        /\ Len(SubSeq(s, 1, Len(s) - 1)) =
             IF 1 <= Len(s) - 1 THEN Len(s) - 1 - 1 + 1 ELSE 0
    BY <2>1, CutFacts
  <2> DEFINE f == SubSeq(s, 1, Len(s) - 1)
             k == Len(s)
  <2>3. f \in Seq(Schemes) /\ Len(f) = IF 1 <= k - 1 THEN k - 1 - 1 + 1 ELSE 0
    BY <2>2
  <2>4. k \in Nat /\ k > 0
    BY <1>1
  <2> HIDE DEF f, k
  <2>5. Len(f) = k - 1
    BY <2>3, <2>4, SMT
  <2> QED BY <2>3, <2>5 DEF f, k
<1>3. s[Len(s)] \in Schemes
  BY <1>1, SMT
<1> QED BY <1>1, <1>2, <1>3, SMT DEF Front, Last

\* Appending an element makes it the last one.
LEMMA AppendFacts ==
  ASSUME NEW s \in Seq(Schemes), NEW e \in Schemes
  PROVE  /\ Append(s, e) \in Seq(Schemes)
         /\ Len(Append(s, e)) = Len(s) + 1
         /\ Append(s, e) # <<>>
         /\ Last(Append(s, e)) = e
BY SMT DEF Last

\* Trimming keeps at most so many elements, the last one among them.
LEMMA TrimmedFacts ==
  ASSUME NEW s \in Seq(Schemes), NEW size \in Nat
  PROVE  /\ Trimmed(s, size) \in Seq(Schemes)
         /\ Len(Trimmed(s, size)) <= size
         /\ Len(Trimmed(s, size)) <= Len(s)
         /\ Trimmed(s, size) # <<>> => s # <<>> /\ Last(Trimmed(s, size)) = Last(s)
<1>1. CASE Len(s) <= size
  BY <1>1, SMT DEF Trimmed
<1>2. CASE Len(s) > size
  <2>1. /\ Trimmed(s, size) = SubSeq(s, Len(s) - size + 1, Len(s))
        /\ Len(s) \in Nat
    BY <1>2, SMT DEF Trimmed
  <2>2. /\ Trimmed(s, size) \in Seq(Schemes)
        /\ Len(Trimmed(s, size)) = size
        /\ \A i \in 1..size : Trimmed(s, size)[i] = s[Len(s) - size + i]
    BY <1>2, <2>1, CutFacts, SMT
  <2>3. Trimmed(s, size) # <<>> => size > 0 /\ s # <<>>
    BY <1>2, <2>2, SMT
  <2> QED BY <1>2, <2>1, <2>2, <2>3, SMT DEF Last
<1> QED BY <1>1, <1>2, SMT

\* Moving the last n elements of one sequence to another, in reverse.
LEMMA MovedFacts ==
  ASSUME NEW s \in Seq(Schemes), NEW t \in Seq(Schemes),
         NEW n \in Nat, n <= Len(s)
  PROVE  LET rest  == SubSeq(s, 1, Len(s) - n)
             moved == t \o Reverse(SubSeq(s, Len(s) - n + 1, Len(s)))
         IN  /\ rest \in Seq(Schemes) /\ Len(rest) = Len(s) - n
             /\ moved \in Seq(Schemes) /\ Len(moved) = Len(t) + n
<1> DEFINE tail == SubSeq(s, Len(s) - n + 1, Len(s))
<1>1. Len(s) \in Nat
  BY SMT
<1>2. tail \in Seq(Schemes) /\ Len(tail) = n
  BY <1>1, CutFacts, SMT
<1>3. Reverse(tail) \in Seq(Schemes) /\ Len(Reverse(tail)) = n
  BY <1>2, ReverseFacts
<1>4. /\ SubSeq(s, 1, Len(s) - n) \in Seq(Schemes)
      /\ Len(SubSeq(s, 1, Len(s) - n)) = Len(s) - n
  BY <1>1, CutFacts, SMT
<1>5. /\ t \o Reverse(tail) \in Seq(Schemes)
      /\ Len(t \o Reverse(tail)) = Len(t) + n
  <2> DEFINE r == Reverse(tail)
  <2>1. r \in Seq(Schemes) /\ Len(r) = n
    BY <1>3
  <2> HIDE DEF r
  <2>2. t \o r \in Seq(Schemes) /\ Len(t \o r) = Len(t) + n
    BY <2>1, SMT
  <2> QED BY <2>2 DEF r
<1> QED BY <1>4, <1>5
-----------------------------------------------------------------------------
(* The type of the variables *)

\* While a system is being restored there is a snapshot to restore it to, and
\* Redo() still has the snapshot it is going to pop, a copy of the last one done.
Restoring ==
  /\ mutex # Free => undoDeque # <<>> \/ undefined
  /\ call = "redo" => redoDeque # <<>> /\ Last(redoDeque) = Last(undoDeque)
  /\ mutex = Free => call = "none" /\ ~undefined

LEMMA StepsFacts ==
  ASSUME TypeOK, NEW steps \in Steps
  PROVE  /\ RealSteps(steps) \in Nat
         /\ undoDeque # <<>> => RealSteps(steps) < Len(undoDeque)
<1>1. Len(undoDeque) \in Nat /\ steps \in Nat /\ WordSize \in Nat /\ WordSize > 1
  BY OptionsAssumption, SMT DEF TypeOK
<1>2. (Len(undoDeque) - 1) % WordSize \in 0..(WordSize - 1)
  BY <1>1, SMT
<1>3. Len(undoDeque) > 0 => (Len(undoDeque) - 1) % WordSize <= Len(undoDeque) - 1
  BY <1>1, SMT
<1>4. undoDeque # <<>> => Len(undoDeque) > 0
  BY SMT DEF TypeOK
<1> QED BY <1>1, <1>2, <1>3, <1>4, SMT DEF RealSteps

\* The type of the variables and what a restoration relies on go together: the
\* last snapshot is only a state of the system if there is one.
TypeInv == TypeOK /\ Restoring

LEMMA TypeStep == TypeInv /\ [Next]_vars => TypeInv'
<1> SUFFICES ASSUME TypeInv, [Next]_vars PROVE TypeInv'
  OBVIOUS
<1> USE DEF TypeInv
<1>t. /\ undoDeque \in Seq(Schemes) /\ redoDeque \in Seq(Schemes)
      /\ scheme \in Schemes /\ maxUndoSize \in Sizes /\ maxUndoSize \in Nat
      /\ Sizes \subseteq Nat
  BY OptionsAssumption DEF TypeOK
<1>1. CASE Edit
  BY <1>1 DEF Edit, TypeOK, Restoring, deques
<1>2. CASE Save
  <2>1. /\ Trimmed(Append(undoDeque, scheme), maxUndoSize) \in Seq(Schemes)
        /\ <<>> \in Seq(Schemes)
    BY <1>t, AppendFacts, TrimmedFacts, EmptySeq
  <2> QED BY <1>2, <1>t, <2>1, CallersAssumption DEF Save, TypeOK, Restoring, deques
<1>3. CASE Clear
  BY <1>3, EmptySeq, CallersAssumption DEF Clear, TypeOK, Restoring
<1>4. ASSUME NEW size \in Sizes, SetMaxUndoSize(size) PROVE TypeInv'
  <2>1. Trimmed(undoDeque, size) \in Seq(Schemes)
    BY <1>t, TrimmedFacts
  <2> QED BY <1>4, <1>t, <2>1 DEF SetMaxUndoSize, TypeOK, Restoring
<1>5. ASSUME NEW c \in Callers, Undo(c) PROVE TypeInv'
  <2>1. 1 \in Nat /\ Len(undoDeque) > 1
    BY <1>5 DEF Undo
  <2>2. /\ undoDeque' \in Seq(Schemes) /\ redoDeque' \in Seq(Schemes)
        /\ Len(undoDeque') = Len(undoDeque) - 1
    BY <1>5, <1>t, <2>1, MovedFacts DEF Undo, MoveToRedo
  <2>3. undoDeque' # <<>>
    BY <2>1, <2>2, EmptySeq, SMT
  <2> QED BY <1>5, <2>2, <2>3, CallersAssumption DEF Undo, Restore, TypeOK, Restoring
<1>6. ASSUME NEW c \in Callers, Redo(c) PROVE TypeInv'
  <2>1. /\ Append(undoDeque, Last(redoDeque)) \in Seq(Schemes)
        /\ Append(undoDeque, Last(redoDeque)) # <<>>
        /\ Last(Append(undoDeque, Last(redoDeque))) = Last(redoDeque)
    BY <1>6, <1>t, FrontFacts, AppendFacts DEF Redo
  <2> QED BY <1>6, <2>1, CallersAssumption DEF Redo, Restore, TypeOK, Restoring
<1>7. ASSUME NEW c \in Callers, NEW steps \in Steps, UndoSteps(c, steps)
      PROVE  TypeInv'
  <2> DEFINE n == RealSteps(steps)
  <2>1. n \in Nat /\ (undoDeque # <<>> => n < Len(undoDeque))
    BY StepsFacts
  <2>2. CASE n > Len(undoDeque)
    <3>1. undefined' = TRUE /\ UNCHANGED deques
      BY <1>7, <2>2 DEF UndoSteps
    <3> QED BY <1>7, <3>1, <1>t, CallersAssumption DEF UndoSteps, Restore, TypeOK, Restoring, deques
  <2>3. CASE ~(n > Len(undoDeque))
    <3>0. Len(undoDeque) \in Nat /\ n > 0
      BY <1>7, <1>t, SMT DEF UndoSteps
    <3>2. MoveToRedo(n) /\ undefined' = FALSE
      <4>1. /\ undefined' = (n > Len(undoDeque))
            /\ ~undefined' => MoveToRedo(n)
        BY <1>7 DEF UndoSteps
      <4>2. ~undefined'
        BY <4>1, <2>3
      <4>3. (n > Len(undoDeque)) \in BOOLEAN
        OBVIOUS
      <4> QED BY <4>1, <4>2, <4>3
    <3> HIDE DEF n
    <3>1. n <= Len(undoDeque) /\ n < Len(undoDeque)
      BY <2>1, <2>3, <3>0, EmptySeq, SMT
    <3>3. /\ undoDeque' \in Seq(Schemes) /\ redoDeque' \in Seq(Schemes)
          /\ Len(undoDeque') = Len(undoDeque) - n
      BY <1>t, <2>1, <3>1, <3>2, MovedFacts DEF MoveToRedo
    <3>4. undoDeque' # <<>>
      BY <2>1, <3>0, <3>1, <3>3, EmptySeq, SMT
    <3> QED BY <1>7, <3>2, <3>3, <3>4, CallersAssumption DEF UndoSteps, Restore, TypeOK, Restoring
  <2> QED BY <2>2, <2>3
<1>8. ASSUME NEW c \in Callers, NEW steps \in Steps, RedoSteps(c, steps)
      PROVE  TypeInv'
  <2> DEFINE n == IF steps < Len(redoDeque) THEN steps ELSE Len(redoDeque)
  <2>0. Len(redoDeque) \in Nat /\ Len(undoDeque) \in Nat /\ steps \in Nat
    BY <1>t, OptionsAssumption, SMT
  <2>1. n \in Nat /\ n <= Len(redoDeque) /\ n > 0
    BY <1>8, <2>0, SMT DEF RedoSteps
  <2>2. /\ undoDeque' =
              undoDeque \o Reverse(SubSeq(redoDeque, Len(redoDeque) - n + 1, Len(redoDeque)))
        /\ redoDeque' = SubSeq(redoDeque, 1, Len(redoDeque) - n)
    BY <1>8 DEF RedoSteps
  <2> HIDE DEF n
  <2>3. /\ undoDeque' \in Seq(Schemes) /\ redoDeque' \in Seq(Schemes)
        /\ Len(undoDeque') = Len(undoDeque) + n
    BY <1>t, <2>1, <2>2, MovedFacts
  <2>4. undoDeque' # <<>>
    BY <2>0, <2>1, <2>3, EmptySeq, SMT
  <2> QED BY <1>8, <2>3, <2>4, CallersAssumption DEF RedoSteps, Restore, TypeOK, Restoring
<1>9. CASE ~undefined /\ Restored
  <2>1. undoDeque # <<>>
    BY <1>9 DEF Restored, Restoring
  <2>2. Last(undoDeque) \in Schemes
    BY <1>t, <2>1, FrontFacts
  <2>3. call = "redo" => Front(redoDeque) \in Seq(Schemes)
    BY <1>t, FrontFacts DEF Restoring
  <2> QED BY <1>9, <1>t, <2>2, <2>3 DEF Restored, Release, TypeOK, Restoring
<1>10. CASE ~undefined /\ RestoreThrew
  BY <1>10 DEF RestoreThrew, Release, TypeOK, Restoring, deques
<1>11. CASE UNCHANGED vars
  BY <1>11 DEF vars, TypeOK, Restoring
<1> QED BY <1>1, <1>2, <1>3, <1>4, <1>5, <1>6, <1>7, <1>8, <1>9, <1>10, <1>11 DEF Next

LEMMA TypeStart == Init => TypeInv
BY EmptySeq DEF Init, TypeInv, TypeOK, Restoring

LEMMA TypeInvariant == Spec => []TypeInv
BY TypeStart, TypeStep, PTL DEF Spec

\* The two deques hold snapshots of states, whatever is called in whatever
\* order and wherever a restoration throws (SystemSnapshotManager.cpp:17-114).
THEOREM TypeCorrect == Spec => []TypeOK
BY TypeInvariant, PTL DEF TypeInv

\* Once something is saved Undo(steps) leaves a snapshot to restore: the
\* unsigned size() - 1 (l. 81) fails in an empty deque only.
THEOREM UndoLeavesOne ==
  ASSUME UndoAtStart = FALSE
  PROVE  Spec => []StepsLimited
<1>1. Init => StepsLimited
  BY DEF Init, StepsLimited
<1>2. TypeInv /\ StepsLimited /\ [Next]_vars => StepsLimited'
  <2> SUFFICES ASSUME TypeInv, ~undefined, [Next]_vars PROVE ~undefined'
    BY DEF StepsLimited
  <2>1. ASSUME NEW c \in Callers, NEW steps \in Steps, UndoSteps(c, steps)
        PROVE  ~undefined'
    <3>1. undoDeque # <<>> /\ undefined' = (RealSteps(steps) > Len(undoDeque))
      BY <2>1 DEF UndoSteps
    <3>2. RealSteps(steps) \in Nat /\ RealSteps(steps) < Len(undoDeque)
      BY <3>1, StepsFacts DEF TypeInv
    <3>3. Len(undoDeque) \in Nat
      BY SMT DEF TypeInv, TypeOK
    <3>4. ~(RealSteps(steps) > Len(undoDeque))
      BY <3>2, <3>3, SMT
    <3> QED BY <3>1, <3>4
  <2> QED BY <2>1 DEF Next, vars, Edit, Save, Clear, SetMaxUndoSize, Undo, Redo,
                      RedoSteps, Restored, RestoreThrew
<1> QED BY <1>1, <1>2, TypeInvariant, PTL DEF Spec
-----------------------------------------------------------------------------
(* How many snapshots are kept, and which one is current *)

\* Undo and redo only move snapshots, so the two deques together are as long as
\* some limit allowed; while Redo() is at work one snapshot is in both.
Bounded ==
  undefined \/ \E size \in Sizes : Len(undoDeque) + Len(Undone) <= size

Lengths ==
  /\ Len(undoDeque) \in Nat /\ Len(redoDeque) \in Nat /\ Len(Undone) \in Nat
  /\ Len(Undone) = IF call = "redo" THEN Len(redoDeque) - 1 ELSE Len(redoDeque)

LEMMA UndoneFacts == TypeInv => Lengths
<1> HAVE TypeInv
<1>1. undoDeque \in Seq(Schemes) /\ redoDeque \in Seq(Schemes)
  BY DEF TypeInv, TypeOK
<1>2. call = "redo" => redoDeque # <<>>
  BY DEF TypeInv, Restoring
<1>3. call = "redo" => Front(redoDeque) \in Seq(Schemes)
                       /\ Len(Front(redoDeque)) = Len(redoDeque) - 1
  BY <1>1, <1>2, FrontFacts
<1> QED BY <1>1, <1>3, SMT DEF Undone, Lengths

LEMMA UndoneFactsNext == TypeInv' => Lengths'
BY UndoneFacts, PTL

LEMMA BoundedStep ==
  RedoThrows = FALSE /\ TypeInv /\ Bounded /\ [Next]_vars => Bounded'
<1> SUFFICES ASSUME RedoThrows = FALSE, TypeInv, ~undefined, Bounded, [Next]_vars,
                    ~undefined'
             PROVE  \E size \in Sizes : Len(undoDeque') + Len(Undone') <= size
  <2>1. CASE undefined
    BY <2>1 DEF Bounded, Next, vars
  <2>2. CASE ~undefined
    BY <2>2 DEF Bounded
  <2> QED BY <2>1, <2>2
<1>i. TypeInv'
  BY TypeStep
<1>f. /\ Len(undoDeque) \in Nat /\ Len(redoDeque) \in Nat /\ Len(Undone) \in Nat
      /\ Len(Undone) = IF call = "redo" THEN Len(redoDeque) - 1 ELSE Len(redoDeque)
  BY UndoneFacts DEF Lengths
<1>g. /\ Len(undoDeque') \in Nat /\ Len(redoDeque') \in Nat /\ Len(Undone') \in Nat
      /\ Len(Undone') = IF call' = "redo" THEN Len(redoDeque') - 1 ELSE Len(redoDeque')
  BY <1>i, UndoneFactsNext DEF Lengths
<1>t. /\ undoDeque \in Seq(Schemes) /\ redoDeque \in Seq(Schemes)
      /\ scheme \in Schemes /\ maxUndoSize \in Sizes /\ Sizes \subseteq Nat
      /\ mutex = Free => call = "none"
  BY OptionsAssumption DEF TypeInv, TypeOK, Restoring
<1>b. PICK size \in Sizes : Len(undoDeque) + Len(Undone) <= size
  BY DEF Bounded
\* What is left is that the sum of the two lengths does not grow past a limit.
<1> SUFFICES \/ Len(undoDeque') + Len(Undone') <= Len(undoDeque) + Len(Undone)
             \/ Len(undoDeque') + Len(Undone') <= maxUndoSize
  BY <1>b, <1>f, <1>g, <1>t, SMT
<1>1. CASE Edit
  BY <1>1, <1>f, <1>g, SMT DEF Edit, deques
<1>2. CASE Save
  <2>1. CASE UNCHANGED deques
    BY <1>2, <2>1, <1>f, <1>g, SMT DEF Save, deques
  <2>2. CASE ~UNCHANGED deques
    <3>1. /\ undoDeque' = Trimmed(Append(undoDeque, scheme), maxUndoSize)
          /\ redoDeque' = <<>> /\ call' = "none"
      BY <1>2, <1>t, <2>2 DEF Save
    <3>2. Len(undoDeque') <= maxUndoSize
      BY <1>t, <3>1, AppendFacts, TrimmedFacts
    <3>3. Len(redoDeque') = 0
      BY <3>1, EmptySeq
    <3> QED BY <1>g, <1>t, <3>1, <3>2, <3>3, SMT
  <2> QED BY <2>1, <2>2
<1>3. CASE Clear
  <2>1. Len(undoDeque') = 0 /\ Len(redoDeque') = 0 /\ call' = call
    BY <1>3, EmptySeq DEF Clear
  <2>2. call = "none"
    BY <1>3, <1>t DEF Clear
  <2> QED BY <1>f, <1>g, <2>1, <2>2, SMT
<1>4. ASSUME NEW s \in Sizes, SetMaxUndoSize(s)
      PROVE  Len(undoDeque') + Len(Undone') <= Len(undoDeque) + Len(Undone)
  <2>1. Len(undoDeque') <= Len(undoDeque)
    BY <1>4, <1>t, TrimmedFacts DEF SetMaxUndoSize
  <2>2. redoDeque' = redoDeque /\ call' = call
    BY <1>4 DEF SetMaxUndoSize
  <2> QED BY <1>f, <1>g, <2>1, <2>2, SMT
<1>5. ASSUME NEW c \in Callers, Undo(c)
      PROVE  Len(undoDeque') + Len(Undone') <= Len(undoDeque) + Len(Undone)
  <2>1. 1 \in Nat /\ 1 <= Len(undoDeque)
    BY <1>5, <1>f, SMT DEF Undo
  <2>2. Len(undoDeque') = Len(undoDeque) - 1 /\ Len(redoDeque') = Len(redoDeque) + 1
    BY <1>5, <1>t, <2>1, MovedFacts DEF Undo, MoveToRedo
  <2>3. call' = "undo" /\ call = "none"
    BY <1>5, <1>t DEF Undo, Restore
  <2> QED BY <1>f, <1>g, <2>2, <2>3, SMT
<1>6. ASSUME NEW c \in Callers, Redo(c)
      PROVE  Len(undoDeque') + Len(Undone') <= Len(undoDeque) + Len(Undone)
  <2>1. Len(undoDeque') = Len(undoDeque) + 1 /\ redoDeque' = redoDeque
    BY <1>6, <1>t, FrontFacts, AppendFacts DEF Redo
  <2>2. call' = "redo" /\ call = "none"
    BY <1>6, <1>t DEF Redo, Restore
  <2> QED BY <1>f, <1>g, <2>1, <2>2, SMT
<1>7. ASSUME NEW c \in Callers, NEW steps \in Steps, UndoSteps(c, steps)
      PROVE  Len(undoDeque') + Len(Undone') <= Len(undoDeque) + Len(Undone)
  <2> DEFINE n == RealSteps(steps)
  <2>1. n \in Nat
    BY StepsFacts DEF TypeInv
  <2>2. ~(n > Len(undoDeque)) /\ MoveToRedo(n)
    BY <1>7 DEF UndoSteps
  <2>3. call' = "undo" /\ call = "none"
    BY <1>7, <1>t DEF UndoSteps, Restore
  <2> HIDE DEF n
  <2>4. n <= Len(undoDeque)
    BY <1>f, <2>1, <2>2, SMT
  <2>5. Len(undoDeque') = Len(undoDeque) - n /\ Len(redoDeque') = Len(redoDeque) + n
    BY <1>t, <2>1, <2>2, <2>4, MovedFacts DEF MoveToRedo
  <2> QED BY <1>f, <1>g, <2>1, <2>3, <2>5, SMT
<1>8. ASSUME NEW c \in Callers, NEW steps \in Steps, RedoSteps(c, steps)
      PROVE  Len(undoDeque') + Len(Undone') <= Len(undoDeque) + Len(Undone)
  <2> DEFINE n == IF steps < Len(redoDeque) THEN steps ELSE Len(redoDeque)
  <2>1. n \in Nat /\ n <= Len(redoDeque)
    BY <1>f, OptionsAssumption, SMT
  <2>2. /\ undoDeque' =
              undoDeque \o Reverse(SubSeq(redoDeque, Len(redoDeque) - n + 1, Len(redoDeque)))
        /\ redoDeque' = SubSeq(redoDeque, 1, Len(redoDeque) - n)
    BY <1>8 DEF RedoSteps
  <2> HIDE DEF n
  <2>3. Len(undoDeque') = Len(undoDeque) + n /\ Len(redoDeque') = Len(redoDeque) - n
    BY <1>t, <2>1, <2>2, MovedFacts
  <2>4. call' = "redoSteps" /\ call = "none"
    BY <1>8, <1>t DEF RedoSteps, Restore
  <2> QED BY <1>f, <1>g, <2>1, <2>3, <2>4, SMT
<1>9. CASE Restored
  <2>1. call = "redo" => Len(redoDeque') = Len(redoDeque) - 1
    <3>1. call = "redo" => redoDeque # <<>> /\ redoDeque' = Front(redoDeque)
      BY <1>9 DEF Restored, TypeInv, Restoring
    <3> QED BY <1>t, <3>1, FrontFacts
  <2>2. /\ call # "redo" => redoDeque' = redoDeque
        /\ undoDeque' = undoDeque /\ call' = "none"
    BY <1>9 DEF Restored, Release
  <2> QED BY <1>f, <1>g, <2>1, <2>2, SMT
<1>10. CASE RestoreThrew
  <2>1. call # "redo" /\ call' = "none"
    BY <1>10 DEF RestoreThrew, Release
  <2>2. undoDeque' = undoDeque /\ redoDeque' = redoDeque
    BY <1>10 DEF RestoreThrew, deques
  <2> QED BY <1>f, <1>g, <2>1, <2>2, SMT
<1>11. CASE UNCHANGED vars
  <2>1. undoDeque' = undoDeque /\ redoDeque' = redoDeque /\ call' = call
    BY <1>11 DEF vars
  <2> QED BY <1>f, <1>g, <2>1, SMT
<1> QED BY <1>1, <1>2, <1>3, <1>4, <1>5, <1>6, <1>7, <1>8, <1>9, <1>10, <1>11 DEF Next

\* The two deques never hold more snapshots than the largest limit, although
\* neither Redo() nor Redo(steps) trims (l. 55-70, 95-114); this needs that
\* SetMemento() does not throw in Redo(), which would repeat a snapshot.
THEOREM KeepsWithinLimit ==
  ASSUME RedoThrows = FALSE
  PROVE  Spec => []SnapshotsBounded
<1>1. Init => Bounded
  <2> SUFFICES ASSUME Init PROVE Bounded
    OBVIOUS
  <2>1. Len(undoDeque) = 0 /\ Len(Undone) = 0 /\ maxUndoSize \in Sizes
    BY EmptySeq DEF Init, Undone
  <2> QED BY <2>1, OptionsAssumption, SMT DEF Bounded
<1>2. TypeInv /\ Bounded /\ [Next]_vars => Bounded'
  BY BoundedStep
<1>3. TypeInv /\ Bounded => SnapshotsBounded
  BY DEF Bounded, SnapshotsBounded, Undone, TypeInv, Restoring
<1> QED BY <1>1, <1>2, <1>3, TypeInvariant, PTL DEF Spec

\* The last snapshot is the state the system is in, or one that Save takes for it
\* (equal hashes, l. 150-159), from the end of each operation to the next edit.
THEOREM CurrentIsLast == Spec => []LastIsCurrent
<1>1. Init => LastIsCurrent
  BY DEF Init, LastIsCurrent
<1>2. TypeInv /\ LastIsCurrent /\ [Next]_vars => LastIsCurrent'
  <2> SUFFICES ASSUME TypeInv, LastIsCurrent, [Next]_vars,
                      mutex' = Free, ~edited', undoDeque' # <<>>
               PROVE  Alike(scheme', Last(undoDeque'))
    BY DEF LastIsCurrent
  <2>t. /\ undoDeque \in Seq(Schemes) /\ scheme \in Schemes
        /\ maxUndoSize \in Nat /\ Sizes \subseteq Nat
    BY OptionsAssumption DEF TypeInv, TypeOK
  <2>1. CASE Save
    <3>1. CASE IsSnapshotDifferent(scheme)
      <4>1. /\ undoDeque' = Trimmed(Append(undoDeque, scheme), maxUndoSize)
            /\ scheme' = scheme
        BY <2>1, <3>1 DEF Save
      <4>2. /\ Append(undoDeque, scheme) \in Seq(Schemes)
            /\ Last(Append(undoDeque, scheme)) = scheme
        BY <2>t, AppendFacts
      <4> QED BY <2>t, <4>1, <4>2, TrimmedFacts DEF Alike
    <3>2. CASE ~IsSnapshotDifferent(scheme)
      <4>1. undoDeque' = undoDeque /\ scheme' = scheme
        BY <2>1, <3>2 DEF Save, deques
      <4>2. Alike(scheme, Last(undoDeque))
        BY <3>2 DEF IsSnapshotDifferent
      <4> QED BY <4>1, <4>2
    <3> QED BY <3>1, <3>2
  <2>2. ASSUME NEW size \in Sizes, SetMaxUndoSize(size)
        PROVE  Alike(scheme', Last(undoDeque'))
    <3>1. /\ undoDeque' = Trimmed(undoDeque, size) /\ scheme' = scheme
          /\ mutex = Free /\ ~edited
      BY <2>2 DEF SetMaxUndoSize
    <3>2. undoDeque # <<>> /\ Last(undoDeque') = Last(undoDeque)
      BY <2>t, <3>1, TrimmedFacts
    <3> QED BY <3>1, <3>2 DEF LastIsCurrent
  <2>3. CASE Restored
    BY <2>3 DEF Restored, TypeInv, Restoring, Alike
  <2>4. CASE UNCHANGED vars
    BY <2>4 DEF vars, LastIsCurrent
  <2> QED BY <2>1, <2>2, <2>3, <2>4, CallersAssumption
          DEF Next, Edit, Clear, Undo, Redo, UndoSteps, RedoSteps, Restore, RestoreThrew
<1> QED BY <1>1, <1>2, TypeInvariant, PTL DEF Spec
-----------------------------------------------------------------------------
(* The refinement of History *)

\* The history that two deques of snapshots stand for.
Joined(done, undone) == done \o Reverse(undone)

LEMMA JoinedFacts ==
  ASSUME NEW s \in Seq(Schemes), NEW t \in Seq(Schemes)
  PROVE  /\ Joined(s, t) \in Seq(Schemes)
         /\ Len(Joined(s, t)) = Len(s) + Len(t)
         /\ \A i \in 1..Len(s) : Joined(s, t)[i] = s[i]
         /\ \A i \in (Len(s) + 1)..(Len(s) + Len(t)) :
              Joined(s, t)[i] = t[Len(s) + Len(t) - i + 1]
<1> DEFINE r == Reverse(t)
<1>1. r \in Seq(Schemes) /\ Len(r) = Len(t)
  BY ReverseFacts
<1>2. Len(s) \in Nat /\ Len(t) \in Nat
  OBVIOUS
<1>3. \A i \in 1..Len(t) : r[i] = t[Len(t) - i + 1]
  BY <1>2, SMT DEF Reverse
<1> HIDE DEF r
<1>4. /\ s \o r \in Seq(Schemes) /\ Len(s \o r) = Len(s) + Len(r)
      /\ \A i \in 1..(Len(s) + Len(r)) :
           (s \o r)[i] = IF i <= Len(s) THEN s[i] ELSE r[i - Len(s)]
  BY <1>1, ConcatProperties
<1>5. Joined(s, t) = s \o r
  BY DEF Joined, r
<1>6. \A i \in 1..Len(s) : (s \o r)[i] = s[i]
  BY <1>1, <1>2, <1>4, SMT
<1>7. ASSUME NEW i \in (Len(s) + 1)..(Len(s) + Len(t))
      PROVE  (s \o r)[i] = t[Len(s) + Len(t) - i + 1]
  <2>1. i \in 1..(Len(s) + Len(r)) /\ ~(i <= Len(s)) /\ i - Len(s) \in 1..Len(t)
    BY <1>1, <1>2, SMT
  <2>2. (s \o r)[i] = r[i - Len(s)]
    BY <1>4, <2>1
  <2>3. r[i - Len(s)] = t[Len(t) - (i - Len(s)) + 1]
    BY <1>3, <2>1
  <2>4. Len(t) - (i - Len(s)) + 1 = Len(s) + Len(t) - i + 1
    BY <1>2, SMT
  <2> QED BY <2>2, <2>3, <2>4
<1> QED BY <1>1, <1>4, <1>5, <1>6, <1>7

\* The first n elements, and the last n of them put in reverse behind others.
LEMMA TurnedFacts ==
  ASSUME NEW s \in Seq(Schemes), NEW t \in Seq(Schemes),
         NEW n \in Nat, n <= Len(s)
  PROVE  LET rest  == SubSeq(s, 1, Len(s) - n)
             moved == t \o Reverse(SubSeq(s, Len(s) - n + 1, Len(s)))
         IN  /\ rest \in Seq(Schemes) /\ Len(rest) = Len(s) - n
             /\ \A i \in 1..(Len(s) - n) : rest[i] = s[i]
             /\ moved \in Seq(Schemes) /\ Len(moved) = Len(t) + n
             /\ \A i \in 1..Len(t) : moved[i] = t[i]
             /\ \A i \in (Len(t) + 1)..(Len(t) + n) :
                  moved[i] = s[Len(s) + Len(t) - i + 1]
<1> DEFINE rest == SubSeq(s, 1, Len(s) - n)
           tail == SubSeq(s, Len(s) - n + 1, Len(s))
           moved == t \o Reverse(tail)
<1>1. Len(s) \in Nat /\ Len(t) \in Nat
  OBVIOUS
<1>2. /\ tail \in Seq(Schemes) /\ Len(tail) = n
      /\ \A i \in 1..n : tail[i] = s[Len(s) - n + i]
  BY <1>1, CutFacts, SMT
<1>3. /\ rest \in Seq(Schemes) /\ Len(rest) = Len(s) - n
      /\ \A i \in 1..(Len(s) - n) : rest[i] = s[i]
  BY <1>1, CutFacts, SMT
<1> HIDE DEF rest, tail
<1>4. moved = Joined(t, tail)
  BY DEF Joined
<1> HIDE DEF moved
<1>5. /\ moved \in Seq(Schemes) /\ Len(moved) = Len(t) + n
      /\ \A i \in 1..Len(t) : moved[i] = t[i]
      /\ \A i \in (Len(t) + 1)..(Len(t) + n) : moved[i] = tail[Len(t) + n - i + 1]
  BY <1>2, <1>4, JoinedFacts
<1>6. ASSUME NEW i \in (Len(t) + 1)..(Len(t) + n)
      PROVE  moved[i] = s[Len(s) + Len(t) - i + 1]
  <2>1. /\ Len(t) + n - i + 1 \in 1..n
        /\ Len(s) - n + (Len(t) + n - i + 1) = Len(s) + Len(t) - i + 1
    BY <1>1, SMT
  <2>2. tail[Len(t) + n - i + 1] = s[Len(s) - n + (Len(t) + n - i + 1)]
    BY <1>2, <2>1
  <2> QED BY <1>5, <2>1, <2>2
<1> QED BY <1>3, <1>5, <1>6 DEF rest, moved, tail

\* Undo moves snapshots from one deque to the other and changes no history ...
LEMMA UndoneJoined ==
  ASSUME NEW s \in Seq(Schemes), NEW t \in Seq(Schemes),
         NEW n \in Nat, n <= Len(s)
  PROVE  Joined(SubSeq(s, 1, Len(s) - n),
                t \o Reverse(SubSeq(s, Len(s) - n + 1, Len(s)))) = Joined(s, t)
<1> DEFINE rest == SubSeq(s, 1, Len(s) - n)
           moved == t \o Reverse(SubSeq(s, Len(s) - n + 1, Len(s)))
<1>1. /\ rest \in Seq(Schemes) /\ Len(rest) = Len(s) - n
      /\ \A i \in 1..(Len(s) - n) : rest[i] = s[i]
      /\ moved \in Seq(Schemes) /\ Len(moved) = Len(t) + n
      /\ \A i \in 1..Len(t) : moved[i] = t[i]
      /\ \A i \in (Len(t) + 1)..(Len(t) + n) : moved[i] = s[Len(s) + Len(t) - i + 1]
  BY TurnedFacts
<1> HIDE DEF rest, moved
<1> DEFINE h == Joined(rest, moved)
           g == Joined(s, t)
<1>2. Len(s) \in Nat /\ Len(t) \in Nat
  OBVIOUS
<1>3. /\ g \in Seq(Schemes) /\ Len(g) = Len(s) + Len(t)
      /\ \A i \in 1..Len(s) : g[i] = s[i]
      /\ \A i \in (Len(s) + 1)..(Len(s) + Len(t)) : g[i] = t[Len(s) + Len(t) - i + 1]
  BY JoinedFacts
<1>4. /\ h \in Seq(Schemes) /\ Len(h) = Len(s) + Len(t)
      /\ \A i \in 1..(Len(s) - n) : h[i] = rest[i]
      /\ \A i \in (Len(s) - n + 1)..(Len(s) + Len(t)) :
           h[i] = moved[Len(s) + Len(t) - i + 1]
  <2>1. /\ h \in Seq(Schemes) /\ Len(h) = Len(rest) + Len(moved)
        /\ \A i \in 1..Len(rest) : h[i] = rest[i]
        /\ \A i \in (Len(rest) + 1)..(Len(rest) + Len(moved)) :
             h[i] = moved[Len(rest) + Len(moved) - i + 1]
    BY <1>1, JoinedFacts
  <2>2. Len(rest) + Len(moved) = Len(s) + Len(t)
    BY <1>1, <1>2, SMT
  <2> HIDE DEF h
  <2>3. ASSUME NEW i \in (Len(s) - n + 1)..(Len(s) + Len(t))
        PROVE  h[i] = moved[Len(s) + Len(t) - i + 1]
    <3>1. i \in (Len(rest) + 1)..(Len(rest) + Len(moved))
      BY <1>1, <2>2
    <3> QED BY <2>1, <2>2, <3>1
  <2>4. \A i \in 1..(Len(s) - n) : h[i] = rest[i]
    BY <1>1, <2>1
  <2> QED BY <2>1, <2>2, <2>3, <2>4
<1> HIDE DEF h, g
<1>5. ASSUME NEW i \in 1..(Len(s) + Len(t)) PROVE h[i] = g[i]
  <2>1. CASE i <= Len(s) - n
    <3>1. i \in 1..(Len(s) - n) /\ i \in 1..Len(s)
      BY <1>2, <2>1, SMT
    <3> QED BY <1>1, <1>3, <1>4, <3>1
  <2>2. CASE i > Len(s) - n /\ i <= Len(s)
    <3> DEFINE j == Len(s) + Len(t) - i + 1
    <3>1. /\ i \in (Len(s) - n + 1)..(Len(s) + Len(t)) /\ i \in 1..Len(s)
          /\ j \in (Len(t) + 1)..(Len(t) + n) /\ Len(s) + Len(t) - j + 1 = i
      BY <1>2, <2>2, SMT
    <3>2. h[i] = moved[j] /\ moved[j] = s[Len(s) + Len(t) - j + 1]
      BY <1>1, <1>4, <3>1
    <3> QED BY <1>3, <3>1, <3>2
  <2>3. CASE i > Len(s)
    <3> DEFINE j == Len(s) + Len(t) - i + 1
    <3>1. /\ i \in (Len(s) - n + 1)..(Len(s) + Len(t))
          /\ i \in (Len(s) + 1)..(Len(s) + Len(t)) /\ j \in 1..Len(t)
      BY <1>2, <2>3, SMT
    <3>2. h[i] = moved[j] /\ moved[j] = t[j] /\ g[i] = t[j]
      BY <1>1, <1>3, <1>4, <3>1
    <3> QED BY <3>2
  <2> QED BY <1>2, <2>1, <2>2, <2>3, SMT
<1>6. h = g
  <2>1. \A i \in 1..Len(h) : h[i] = g[i]
    BY <1>4, <1>5
  <2> QED BY <1>3, <1>4, <2>1, SeqEqual
<1> QED BY <1>6 DEF h, g, rest, moved

\* ... and Redo(steps) moves them back, ...
LEMMA RedoneJoined ==
  ASSUME NEW s \in Seq(Schemes), NEW t \in Seq(Schemes),
         NEW n \in Nat, n <= Len(t)
  PROVE  Joined(s \o Reverse(SubSeq(t, Len(t) - n + 1, Len(t))),
                SubSeq(t, 1, Len(t) - n)) = Joined(s, t)
<1> DEFINE rest == SubSeq(t, 1, Len(t) - n)
           moved == s \o Reverse(SubSeq(t, Len(t) - n + 1, Len(t)))
<1>1. /\ rest \in Seq(Schemes) /\ Len(rest) = Len(t) - n
      /\ \A i \in 1..(Len(t) - n) : rest[i] = t[i]
      /\ moved \in Seq(Schemes) /\ Len(moved) = Len(s) + n
      /\ \A i \in 1..Len(s) : moved[i] = s[i]
      /\ \A i \in (Len(s) + 1)..(Len(s) + n) : moved[i] = t[Len(t) + Len(s) - i + 1]
  BY TurnedFacts
<1> HIDE DEF rest, moved
<1> DEFINE h == Joined(moved, rest)
           g == Joined(s, t)
<1>2. Len(s) \in Nat /\ Len(t) \in Nat
  OBVIOUS
<1>3. /\ g \in Seq(Schemes) /\ Len(g) = Len(s) + Len(t)
      /\ \A i \in 1..Len(s) : g[i] = s[i]
      /\ \A i \in (Len(s) + 1)..(Len(s) + Len(t)) : g[i] = t[Len(s) + Len(t) - i + 1]
  BY JoinedFacts
<1>4. /\ h \in Seq(Schemes) /\ Len(h) = Len(s) + Len(t)
      /\ \A i \in 1..(Len(s) + n) : h[i] = moved[i]
      /\ \A i \in (Len(s) + n + 1)..(Len(s) + Len(t)) :
           h[i] = rest[Len(s) + Len(t) - i + 1]
  <2>1. /\ h \in Seq(Schemes) /\ Len(h) = Len(moved) + Len(rest)
        /\ \A i \in 1..Len(moved) : h[i] = moved[i]
        /\ \A i \in (Len(moved) + 1)..(Len(moved) + Len(rest)) :
             h[i] = rest[Len(moved) + Len(rest) - i + 1]
    BY <1>1, JoinedFacts
  <2>2. Len(moved) + Len(rest) = Len(s) + Len(t)
    BY <1>1, <1>2, SMT
  <2> HIDE DEF h
  <2>3. ASSUME NEW i \in (Len(s) + n + 1)..(Len(s) + Len(t))
        PROVE  h[i] = rest[Len(s) + Len(t) - i + 1]
    <3>1. i \in (Len(moved) + 1)..(Len(moved) + Len(rest))
      BY <1>1, <2>2
    <3> QED BY <2>1, <2>2, <3>1
  <2>4. \A i \in 1..(Len(s) + n) : h[i] = moved[i]
    BY <1>1, <2>1
  <2> QED BY <2>1, <2>2, <2>3, <2>4
<1> HIDE DEF h, g
<1>5. ASSUME NEW i \in 1..(Len(s) + Len(t)) PROVE h[i] = g[i]
  <2>1. CASE i <= Len(s)
    <3>1. i \in 1..(Len(s) + n) /\ i \in 1..Len(s)
      BY <1>2, <2>1, SMT
    <3> QED BY <1>1, <1>3, <1>4, <3>1
  <2>2. CASE i > Len(s) /\ i <= Len(s) + n
    <3>1. /\ i \in 1..(Len(s) + n) /\ i \in (Len(s) + 1)..(Len(s) + n)
          /\ i \in (Len(s) + 1)..(Len(s) + Len(t))
          /\ Len(t) + Len(s) - i + 1 = Len(s) + Len(t) - i + 1
      BY <1>2, <2>2, SMT
    <3> QED BY <1>1, <1>3, <1>4, <3>1
  <2>3. CASE i > Len(s) + n
    <3> DEFINE j == Len(s) + Len(t) - i + 1
    <3>1. /\ i \in (Len(s) + n + 1)..(Len(s) + Len(t))
          /\ i \in (Len(s) + 1)..(Len(s) + Len(t)) /\ j \in 1..(Len(t) - n)
      BY <1>2, <2>3, SMT
    <3>2. h[i] = rest[j] /\ rest[j] = t[j] /\ g[i] = t[j]
      BY <1>1, <1>3, <1>4, <3>1
    <3> QED BY <3>2
  <2> QED BY <1>2, <2>1, <2>2, <2>3, SMT
<1>6. h = g
  <2>1. \A i \in 1..Len(h) : h[i] = g[i]
    BY <1>4, <1>5
  <2> QED BY <1>3, <1>4, <2>1, SeqEqual
<1> QED BY <1>6 DEF h, g, rest, moved

\* ... Redo() one of them.
LEMMA RedoJoined ==
  ASSUME NEW s \in Seq(Schemes), NEW t \in Seq(Schemes), t # <<>>
  PROVE  Joined(Append(s, Last(t)), Front(t)) = Joined(s, t)
<1>1. Len(t) \in Nat /\ Len(t) >= 1
  BY EmptySeq, SMT
<1>2. Front(t) = SubSeq(t, 1, Len(t) - 1)
  BY DEF Front
<1> DEFINE tail == SubSeq(t, Len(t) - 1 + 1, Len(t))
<1>3. Append(s, Last(t)) = s \o Reverse(tail)
  <2>1. /\ tail \in Seq(Schemes) /\ Len(tail) = 1
        /\ tail[1] = t[Len(t)]
    BY <1>1, CutFacts, SMT
  <2> HIDE DEF tail
  <2>2. /\ Joined(s, tail) \in Seq(Schemes) /\ Len(Joined(s, tail)) = Len(s) + 1
        /\ \A i \in 1..Len(s) : Joined(s, tail)[i] = s[i]
        /\ Joined(s, tail)[Len(s) + 1] = t[Len(t)]
    <3>1. /\ Joined(s, tail) \in Seq(Schemes) /\ Len(Joined(s, tail)) = Len(s) + Len(tail)
          /\ \A i \in 1..Len(s) : Joined(s, tail)[i] = s[i]
          /\ \A i \in (Len(s) + 1)..(Len(s) + Len(tail)) :
               Joined(s, tail)[i] = tail[Len(s) + Len(tail) - i + 1]
      BY <2>1, JoinedFacts
    <3>2. /\ Len(s) + 1 \in (Len(s) + 1)..(Len(s) + Len(tail))
          /\ Len(s) + Len(tail) - (Len(s) + 1) + 1 = 1
      BY <2>1, SMT
    <3>3. Joined(s, tail)[Len(s) + 1] = tail[1]
      BY <3>1, <3>2
    <3> QED BY <2>1, <3>1, <3>3
  <2>3. /\ Append(s, Last(t)) \in Seq(Schemes) /\ Len(Append(s, Last(t))) = Len(s) + 1
        /\ \A i \in 1..Len(s) : Append(s, Last(t))[i] = s[i]
        /\ Append(s, Last(t))[Len(s) + 1] = t[Len(t)]
    BY <1>1, FrontFacts, SMT DEF Last
  <2>4. \A i \in 1..(Len(s) + 1) : Append(s, Last(t))[i] = Joined(s, tail)[i]
    BY <2>2, <2>3, SMT
  <2>5. Append(s, Last(t)) = Joined(s, tail)
    BY <2>2, <2>3, <2>4, SeqEqual
  <2> QED BY <2>5 DEF Joined
<1> QED BY <1>1, <1>2, <1>3, RedoneJoined

\* A trimmed deque is the history without its oldest entries.
LEMMA TrimmedJoined ==
  ASSUME NEW s \in Seq(Schemes), NEW t \in Seq(Schemes), NEW size \in Nat
  PROVE  LET n == Len(s) - Len(Trimmed(s, size))
         IN  /\ n \in 0..Len(s)
             /\ n = IF Len(s) > size THEN Len(s) - size ELSE 0
             /\ Joined(Trimmed(s, size), t) =
                  SubSeq(Joined(s, t), n + 1, Len(Joined(s, t)))
<1> DEFINE c == Trimmed(s, size)
           n == Len(s) - Len(c)
<1>1. /\ c \in Seq(Schemes) /\ n \in 0..Len(s) /\ Len(c) = Len(s) - n
      /\ n = IF Len(s) > size THEN Len(s) - size ELSE 0
      /\ \A i \in 1..Len(c) : c[i] = s[n + i]
  <2>0. Len(s) \in Nat
    OBVIOUS
  <2>1. CASE Len(s) <= size
    <3>1. c = s
      BY <2>0, <2>1, SMT DEF Trimmed
    <3> HIDE DEF c
    <3> QED BY <2>0, <2>1, <3>1, SMT
  <2>2. CASE Len(s) > size
    <3>1. c = SubSeq(s, Len(s) - size + 1, Len(s))
      BY <2>0, <2>2, SMT DEF Trimmed
    <3>2. /\ c \in Seq(Schemes) /\ Len(c) = size
          /\ \A i \in 1..size : c[i] = s[Len(s) - size + i]
      BY <2>0, <2>2, <3>1, CutFacts, SMT
    <3> HIDE DEF c
    <3> QED BY <2>0, <2>2, <3>2, SMT
  <2> QED BY <2>0, <2>1, <2>2, SMT
<1> HIDE DEF c
<1> DEFINE g == Joined(s, t)
           h == Joined(c, t)
           cut == SubSeq(g, n + 1, Len(g))
<1>2. Len(s) \in Nat /\ Len(t) \in Nat
  OBVIOUS
<1>3. /\ g \in Seq(Schemes) /\ Len(g) = Len(s) + Len(t)
      /\ \A i \in 1..Len(s) : g[i] = s[i]
      /\ \A i \in (Len(s) + 1)..(Len(s) + Len(t)) : g[i] = t[Len(s) + Len(t) - i + 1]
  BY JoinedFacts
<1>4. /\ h \in Seq(Schemes) /\ Len(h) = Len(c) + Len(t)
      /\ \A i \in 1..Len(c) : h[i] = c[i]
      /\ \A i \in (Len(c) + 1)..(Len(c) + Len(t)) : h[i] = t[Len(c) + Len(t) - i + 1]
  BY <1>1, JoinedFacts
<1> HIDE DEF g, h
<1>5. /\ cut \in Seq(Schemes) /\ Len(cut) = Len(c) + Len(t)
      /\ \A i \in 1..(Len(c) + Len(t)) : cut[i] = g[n + i]
  <2>1. n + 1 \in Int /\ Len(g) \in Int /\ n + 1 >= 1
    BY <1>1, <1>2, <1>3, SMT
  <2>2. /\ cut \in Seq(Schemes)
        /\ Len(cut) = IF n + 1 <= Len(g) THEN Len(g) - (n + 1) + 1 ELSE 0
        /\ \A i \in 1..(Len(g) - (n + 1) + 1) : cut[i] = g[n + 1 + i - 1]
    BY <1>3, <2>1, CutFacts
  <2>3. Len(g) - (n + 1) + 1 = Len(c) + Len(t) /\ (~(n + 1 <= Len(g)) => Len(c) + Len(t) = 0)
    BY <1>1, <1>2, <1>3, SMT
  <2> HIDE DEF cut
  <2>4. ASSUME NEW i \in 1..(Len(c) + Len(t)) PROVE cut[i] = g[n + i]
    <3>1. n + 1 + i - 1 = n + i
      BY <1>1, SMT
    <3> QED BY <2>2, <2>3, <3>1
  <2> QED BY <2>2, <2>3, <2>4
<1> HIDE DEF cut
<1>6. ASSUME NEW i \in 1..(Len(c) + Len(t)) PROVE h[i] = cut[i]
  <2>1. CASE i <= Len(c)
    <3>1. i \in 1..Len(c) /\ n + i \in 1..Len(s)
      BY <1>1, <1>2, <2>1, SMT
    <3> QED BY <1>1, <1>3, <1>4, <1>5, <3>1
  <2>2. CASE i > Len(c)
    <3>1. /\ i \in (Len(c) + 1)..(Len(c) + Len(t))
          /\ n + i \in (Len(s) + 1)..(Len(s) + Len(t))
          /\ Len(c) + Len(t) - i + 1 = Len(s) + Len(t) - (n + i) + 1
      BY <1>1, <1>2, <2>2, SMT
    <3>2. h[i] = t[Len(c) + Len(t) - i + 1] /\ cut[i] = g[n + i]
      BY <1>4, <1>5, <3>1
    <3>3. g[n + i] = t[Len(s) + Len(t) - (n + i) + 1]
      BY <1>3, <3>1
    <3> QED BY <3>1, <3>2, <3>3
  <2> QED BY <1>1, <1>2, <2>1, <2>2, SMT
<1>7. h = cut
  <2>1. \A i \in 1..Len(h) : h[i] = cut[i]
    BY <1>4, <1>6
  <2> QED BY <1>4, <1>5, <2>1, SeqEqual
<1> QED BY <1>1, <1>7 DEF h, g, cut, c

\* What the history shows of the manager, under the names History has for it.
Entries == Joined(undoDeque, Undone)

LEMMA HistoryFacts ==
  ASSUME TypeInv
  PROVE  /\ Undone \in Seq(Schemes)
         /\ Entries \in Seq(Schemes)
         /\ Len(Entries) = Len(undoDeque) + Len(Undone)
         /\ Len(undoDeque) \in Nat /\ Len(Undone) \in Nat
<1>1. undoDeque \in Seq(Schemes) /\ redoDeque \in Seq(Schemes)
  BY DEF TypeInv, TypeOK
<1>2. Undone \in Seq(Schemes)
  BY <1>1, FrontFacts DEF Undone, TypeInv, Restoring
<1>3. Len(undoDeque) \in Nat /\ Len(Undone) \in Nat
  BY <1>1, <1>2
<1>4. /\ Joined(undoDeque, Undone) \in Seq(Schemes)
      /\ Len(Joined(undoDeque, Undone)) = Len(undoDeque) + Len(Undone)
  BY <1>1, <1>2, JoinedFacts
<1> QED BY <1>2, <1>3, <1>4 DEF Entries

\* A step of the manager is a step of the history, or none that it sees.
LEMMA HistoryStep ==
  ASSUME UndoAtStart = FALSE, RedoThrows = FALSE, TypeInv, [Next]_vars
  PROVE  \/ \E state \in Schemes :
              /\ Entries' = Undoable!Youngest(
                   Append(SubSeq(Entries, 1, Len(undoDeque)), state), maxUndoSize)
              /\ Len(undoDeque)' = Len(Entries')
              /\ maxUndoSize' = maxUndoSize
         \/ /\ Len(undoDeque)' \in 1..Len(Entries)
            /\ Entries' = Entries /\ maxUndoSize' = maxUndoSize
         \/ \E size \in Sizes : LET n == Undoable!Excess(size) IN
              /\ maxUndoSize' = size
              /\ Entries' = SubSeq(Entries, n + 1, Len(Entries))
              /\ Len(undoDeque)' = Len(undoDeque) - n
         \/ /\ Entries' = <<>> /\ Len(undoDeque)' = 0 /\ maxUndoSize' = maxUndoSize
         \/ UNCHANGED <<Entries, Len(undoDeque), maxUndoSize>>
<1> DEFINE Goal ==
         \/ \E state \in Schemes :
              /\ Entries' = Undoable!Youngest(
                   Append(SubSeq(Entries, 1, Len(undoDeque)), state), maxUndoSize)
              /\ Len(undoDeque)' = Len(Entries')
              /\ maxUndoSize' = maxUndoSize
         \/ /\ Len(undoDeque)' \in 1..Len(Entries)
            /\ Entries' = Entries /\ maxUndoSize' = maxUndoSize
         \/ \E size \in Sizes : LET n == Undoable!Excess(size) IN
              /\ maxUndoSize' = size
              /\ Entries' = SubSeq(Entries, n + 1, Len(Entries))
              /\ Len(undoDeque)' = Len(undoDeque) - n
         \/ /\ Entries' = <<>> /\ Len(undoDeque)' = 0 /\ maxUndoSize' = maxUndoSize
         \/ UNCHANGED <<Entries, Len(undoDeque), maxUndoSize>>
<1> SUFFICES Goal
  OBVIOUS
<1>t. /\ undoDeque \in Seq(Schemes) /\ redoDeque \in Seq(Schemes)
      /\ Len(undoDeque) \in Nat /\ Len(redoDeque) \in Nat
      /\ scheme \in Schemes /\ maxUndoSize \in Sizes /\ maxUndoSize \in Nat
      /\ Sizes \subseteq Nat /\ Steps \subseteq Nat
  BY OptionsAssumption DEF TypeInv, TypeOK
<1>u. TypeInv'
  BY TypeStep
<1>f. mutex = Free => call = "none" /\ Undone = redoDeque
  BY DEF TypeInv, Restoring, Undone
<1>h. /\ Undone \in Seq(Schemes) /\ Entries \in Seq(Schemes)
      /\ Len(Entries) = Len(undoDeque) + Len(Undone) /\ Len(Undone) \in Nat
  BY HistoryFacts
<1>0. CASE UNCHANGED <<undoDeque, Undone, maxUndoSize>>
  BY <1>0 DEF Entries
<1>1. CASE Edit
  BY <1>0, <1>1 DEF Edit, deques, Undone
<1>2. CASE Save
  <2>1. CASE ~IsSnapshotDifferent(scheme)
    BY <1>0, <1>2, <2>1 DEF Save, deques, Undone
  <2>2. CASE IsSnapshotDifferent(scheme)
    <3>1. /\ undoDeque' = Trimmed(Append(undoDeque, scheme), maxUndoSize)
          /\ redoDeque' = <<>> /\ call' = call /\ call = "none" /\ maxUndoSize' = maxUndoSize
      BY <1>f, <1>2, <2>2 DEF Save
    <3>2. Entries' = undoDeque'
      <4>1. Undone' = <<>>
        BY <3>1 DEF Undone
      <4>2. undoDeque' \in Seq(Schemes)
        BY <1>u DEF TypeInv, TypeOK
      <4>3. Reverse(<<>>) = <<>>
        BY EmptySeq, ReverseFacts
      <4> QED BY <4>1, <4>2, <4>3, ConcatEmptySeq DEF Entries, Joined
    <3>3. SubSeq(Entries, 1, Len(undoDeque)) = undoDeque
      <4> DEFINE cut == SubSeq(Entries, 1, Len(undoDeque))
      <4>1. /\ cut \in Seq(Schemes) /\ Len(cut) = Len(undoDeque)
            /\ \A i \in 1..Len(undoDeque) : cut[i] = Entries[i]
        BY <1>t, <1>h, CutFacts, SMT
      <4>2. \A i \in 1..Len(undoDeque) : Entries[i] = undoDeque[i]
        BY <1>t, <1>h, JoinedFacts DEF Entries
      <4> HIDE DEF cut
      <4>3. \A i \in 1..Len(cut) : cut[i] = undoDeque[i]
        BY <4>1, <4>2
      <4>4. cut = undoDeque
        BY <1>t, <4>1, <4>3, SeqEqual
      <4> QED BY <4>4 DEF cut
    <3>4. Entries' = Undoable!Youngest(
            Append(SubSeq(Entries, 1, Len(undoDeque)), scheme), maxUndoSize)
      BY <3>1, <3>2, <3>3 DEF Undoable!Youngest, Trimmed
    <3>5. Len(undoDeque)' = Len(Entries')
      BY <3>2
    <3> QED BY <1>t, <3>1, <3>4, <3>5
  <2> QED BY <2>1, <2>2
<1>3. CASE Clear
  <2>1. /\ undoDeque' = <<>> /\ redoDeque' = <<>> /\ call' = "none"
        /\ maxUndoSize' = maxUndoSize
    BY <1>3, <1>f DEF Clear
  <2>2. Undone' = <<>>
    BY <2>1 DEF Undone
  <2>3. Entries' = <<>>
    <3>1. Reverse(<<>>) = <<>> /\ <<>> \in Seq(Schemes)
      BY EmptySeq, ReverseFacts
    <3> QED BY <2>1, <2>2, <3>1, ConcatEmptySeq DEF Entries, Joined
  <2> QED BY <2>1, <2>3, EmptySeq
<1>4. ASSUME NEW size \in Sizes, SetMaxUndoSize(size) PROVE Goal
  <2>1. /\ undoDeque' = Trimmed(undoDeque, size) /\ Undone' = Undone
        /\ maxUndoSize' = size
    BY <1>4 DEF SetMaxUndoSize, Undone
  <2> DEFINE n == Len(undoDeque) - Len(Trimmed(undoDeque, size))
  <2>2. /\ n \in 0..Len(undoDeque) /\ n = Undoable!Excess(size)
        /\ Joined(Trimmed(undoDeque, size), Undone) =
             SubSeq(Entries, n + 1, Len(Entries))
    BY <1>t, <1>h, TrimmedJoined DEF Entries, Undoable!Excess
  <2>3. Entries' = SubSeq(Entries, n + 1, Len(Entries))
    BY <2>1, <2>2 DEF Entries
  <2>4. Len(undoDeque)' = Len(undoDeque) - n
    <3>1. Len(Trimmed(undoDeque, size)) \in Nat
      BY <1>t, TrimmedFacts
    <3> QED BY <1>t, <2>1, <3>1
  <2> HIDE DEF n
  <2> QED BY <2>1, <2>2, <2>3, <2>4
<1>5. ASSUME NEW n \in Nat, n > 0, n < Len(undoDeque), mutex = Free, MoveToRedo(n),
             call' # "redo", maxUndoSize' = maxUndoSize
      PROVE  Goal
  <2>1. /\ undoDeque' = SubSeq(undoDeque, 1, Len(undoDeque) - n)
        /\ redoDeque' = redoDeque \o Reverse(SubSeq(undoDeque, Len(undoDeque) - n + 1, Len(undoDeque)))
        /\ n <= Len(undoDeque)
    BY <1>5, <1>t DEF MoveToRedo
  <2>2. Undone' = redoDeque' /\ Undone = redoDeque
    BY <1>5, <1>f DEF Undone
  <2>3. Joined(undoDeque', redoDeque') = Joined(undoDeque, redoDeque)
    BY <1>t, <1>5, <2>1, UndoneJoined
  <2>4. Entries' = Entries
    BY <2>2, <2>3 DEF Entries
  <2>5. Len(undoDeque') = Len(undoDeque) - n
    BY <1>t, <1>5, <2>1, TurnedFacts
  <2>6. Len(undoDeque') \in 1..Len(Entries)
    BY <1>t, <1>h, <1>5, <2>5, SMT
  <2> QED BY <1>5, <2>4, <2>6
<1>6. ASSUME NEW c \in Callers, Undo(c) PROVE Goal
  BY <1>5, <1>6 DEF Undo, Restore
<1>7. ASSUME NEW c \in Callers, NEW steps \in Steps, UndoSteps(c, steps) PROVE Goal
  <2> DEFINE n == RealSteps(steps)
  <2>1. undoDeque # <<>> /\ n > 0 /\ n \in Nat /\ n < Len(undoDeque)
    BY <1>7, StepsFacts DEF UndoSteps, TypeInv
  <2>2. ~undefined'
    <3>1. undefined' = (n > Len(undoDeque))
      BY <1>7 DEF UndoSteps
    <3>2. ~(n > Len(undoDeque))
      BY <1>t, <2>1
    <3> QED BY <3>1, <3>2
  <2>3. MoveToRedo(n)
    BY <1>7, <2>2 DEF UndoSteps
  <2> HIDE DEF n
  <2> QED BY <1>5, <1>7, <2>1, <2>3 DEF UndoSteps, Restore
<1>8. ASSUME NEW c \in Callers, Redo(c) PROVE Goal
  <2>1. /\ undoDeque' = Append(undoDeque, Last(redoDeque)) /\ redoDeque # <<>>
        /\ Undone' = Front(redoDeque) /\ Undone = redoDeque /\ maxUndoSize' = maxUndoSize
    BY <1>8, <1>f DEF Redo, Restore, Undone
  <2>2. Entries' = Entries
    BY <1>t, <2>1, RedoJoined DEF Entries
  <2>3. Len(undoDeque') = Len(undoDeque) + 1 /\ Len(redoDeque) > 0
    BY <1>t, <2>1, FrontFacts, AppendFacts
  <2>4. Len(undoDeque') \in 1..Len(Entries)
    BY <1>t, <1>h, <2>1, <2>3, SMT
  <2> QED BY <2>1, <2>2, <2>4
<1>9. ASSUME NEW c \in Callers, NEW steps \in Steps, RedoSteps(c, steps) PROVE Goal
  <2> DEFINE n == IF steps < Len(redoDeque) THEN steps ELSE Len(redoDeque)
  <2>1. n \in Nat /\ n <= Len(redoDeque) /\ n > 0
    BY <1>9, <1>t DEF RedoSteps
  <2>2. /\ undoDeque' =
              undoDeque \o Reverse(SubSeq(redoDeque, Len(redoDeque) - n + 1, Len(redoDeque)))
        /\ redoDeque' = SubSeq(redoDeque, 1, Len(redoDeque) - n)
        /\ Undone' = redoDeque' /\ Undone = redoDeque /\ maxUndoSize' = maxUndoSize
    BY <1>9, <1>f DEF RedoSteps, Restore, Undone
  <2> HIDE DEF n
  <2>3. Entries' = Entries
    BY <1>t, <2>1, <2>2, RedoneJoined DEF Entries
  <2>4. Len(undoDeque') = Len(undoDeque) + n
    BY <1>t, <2>1, <2>2, MovedFacts
  <2>5. Len(undoDeque') \in 1..Len(Entries)
    BY <1>t, <1>h, <2>1, <2>2, <2>4, SMT
  <2> QED BY <2>2, <2>3, <2>5
<1>10. CASE Restored
  BY <1>0, <1>10 DEF Restored, Release, Undone
<1>11. CASE RestoreThrew
  BY <1>0, <1>11 DEF RestoreThrew, Release, Undone, deques
<1>12. CASE UNCHANGED vars
  BY <1>0, <1>12 DEF vars, Undone
<1> QED BY <1>1, <1>2, <1>3, <1>4, <1>6, <1>7, <1>8, <1>9, <1>10, <1>11, <1>12 DEF Next

\* The two deques are one undo history, for every sequence of operations, of
\* edits beside them, of limits and of restorations that throw (but in Redo(),
\* l. 65, and for Undo(steps) of an empty history, l. 81).
THEOREM RefinesHistory ==
  ASSUME UndoAtStart = FALSE, RedoThrows = FALSE
  PROVE  Spec => ImplementsHistory
<1>1. Init => Undoable!Init
  <2> SUFFICES ASSUME Init PROVE Undoable!Init
    OBVIOUS
  <2>1. /\ undoDeque = <<>> /\ Undone = <<>> /\ maxUndoSize \in Sizes
    BY DEF Init, Undone
  <2>2. Reverse(<<>>) = <<>> /\ <<>> \in Seq(Schemes)
    BY EmptySeq, ReverseFacts
  <2> QED BY <2>1, <2>2, EmptySeq, ConcatEmptySeq DEF Undoable!Init
<1>2. TypeInv /\ [Next]_vars => [Undoable!Next]_Undoable!vars
  <2> SUFFICES ASSUME TypeInv, [Next]_vars PROVE [Undoable!Next]_Undoable!vars
    OBVIOUS
  <2>1. Entries = undoDeque \o Reverse(Undone)
    BY DEF Entries, Joined
  <2>2. Entries' = undoDeque' \o Reverse(Undone')
    BY DEF Entries, Joined
  <2> QED BY <2>1, <2>2, HistoryStep
          DEF Undoable!Next, Undoable!vars, Undoable!Record, Undoable!Move,
              Undoable!Forget, Undoable!Reset
<1> QED BY <1>1, <1>2, TypeInvariant, PTL DEF Spec, ImplementsHistory, Undoable!Spec
=============================================================================
