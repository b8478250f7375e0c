--------------------------- MODULE DeliveryProofs ---------------------------
(* What Delivery guarantees of an actor that is removed, for any network,   *)
(* any number of threads and any nesting of calls: who may still reach it,  *)
(* when nobody is in it once it is gone, and that calls and removal never   *)
(* all wait for each other.                                                 *)
EXTENDS Delivery, FiniteSetTheorems, SequenceTheorems, WellFoundedInduction, TLAPS

Targets(l, a) == {b \in Actors : <<a, b>> \in l}

\* Where the first call of a thread may be.
Bottoms(t) ==
  IF t \in Sources THEN {"sanitize", "lock", "loop"} ELSE {"delivery", "process"}

\* Call f may be made by the call below it.
Rests(l, below, f) ==
  \/ below.at = "delivery" /\ f.at \in {"receive", "input", "process"}
  \/ /\ below.at = "loop" /\ f.at \in {"receive", "input", "process"}
     /\ <<below.actor, f.actor>> \in l
  \/ /\ below.at = "process" /\ f.at \in {"sanitize", "lock", "loop", "ask"}
     /\ f.actor = below.actor

\* A stack of thread t in which every call was made by the one below it, over
\* the links l.
Fine(l, t, s) ==
  /\ s \in Seq(Frames)
  /\ \A i \in 1..Len(s) :
       /\ i = 1 => s[i].at \in Bottoms(t)
       /\ i > 1 => Rests(l, s[i - 1], s[i])
       /\ s[i].at = "loop" => s[i].todo \subseteq Targets(l, s[i].actor)

\* The call at the top goes on to another place of the same actor.
Swaps(l, s, f) ==
  /\ s # <<>> /\ f \in Frames /\ f.actor = Top(s).actor
  /\ \/ Top(s).at \in {"sanitize", "lock", "loop"} /\ f.at \in {"sanitize", "lock", "loop"}
     \/ Top(s).at \in {"receive", "input"} /\ f.at \in {"input", "process"}
  /\ f.at = "loop" => f.todo \subseteq Targets(l, f.actor)

\* The call at the top makes call f.
Makes(l, s, f) == s # <<>> /\ f \in Frames /\ Rests(l, Top(s), f) /\ f.at # "loop"
-----------------------------------------------------------------------------
(* Stacks *)

\* A prefix of a sequence.
LEMMA PrefixFacts ==
  ASSUME NEW S, NEW s \in Seq(S), NEW m \in 0..Len(s)
  PROVE  /\ SubSeq(s, 1, m) \in Seq(S) /\ Len(SubSeq(s, 1, m)) = m
         /\ \A i \in 1..m : SubSeq(s, 1, m)[i] = s[i]
<1>1. Len(s) \in Nat /\ m \in Nat /\ m \in Int /\ 1 \in Int
  BY LenProperties
<1>2. \A i \in 1..m : s[i] \in S
  BY <1>1, ElementOfSeq
<1>3. /\ SubSeq(s, 1, m) \in Seq(S)
      /\ Len(SubSeq(s, 1, m)) = IF 1 <= m THEN m - 1 + 1 ELSE 0
      /\ \A i \in 1..(m - 1 + 1) : SubSeq(s, 1, m)[i] = s[1 + i - 1]
  BY <1>1, <1>2, SubSeqProperties
<1>4. \A i \in 1..m : 1 + i - 1 = i /\ i \in 1..(m - 1 + 1)
  BY <1>1
<1>5. \A i \in 1..m : SubSeq(s, 1, m)[i] = s[i]
  BY <1>3, <1>4
<1>6. Len(SubSeq(s, 1, m)) = m
  BY <1>1, <1>3
<1> QED BY <1>3, <1>5, <1>6

\* A call that returns leaves a prefix of the stack.
LEMMA BelowIsPrefix ==
  ASSUME NEW s \in Seq(Frames)
  PROVE  \E m \in 0..Len(s) : Below(s) = SubSeq(s, 1, m)
<1>1. Len(s) \in Nat
  BY LenProperties
<1>2. SubSeq(s, 1, 0) = <<>>
  BY SubSeqEmpty
<1>3. CASE s = <<>>
  <2>1. Len(s) = 0
    BY <1>3, EmptySeq
  <2>2. Below(s) = SubSeq(s, 1, 0 - 1)
    BY <2>1 DEF Below
  <2>3. SubSeq(s, 1, 0 - 1) = <<>>
    BY SubSeqEmpty
  <2> QED BY <1>2, <2>1, <2>2, <2>3
<1>4. CASE s # <<>>
  <2>1. Len(s) \in Nat \ {0}
    BY <1>4, EmptySeq
  <2> QED BY <1>2, <2>1 DEF Below
<1> QED BY <1>3, <1>4

\* A call in a stack is in an actor.
LEMMA CallInActor ==
  ASSUME NEW s \in Seq(Frames), NEW i \in 1..Len(s)
  PROVE  s[i] \in Frames /\ s[i].actor \in Actors
<1>1. s[i] \in Frames
  BY ElementOfSeq
<1> QED BY <1>1 DEF Frames

LEMMA FineEmpty == ASSUME NEW l, NEW t PROVE Fine(l, t, <<>>)
<1>1. <<>> \in Seq(Frames) /\ Len(<<>>) = 0
  BY EmptySeq
<1> QED BY <1>1 DEF Fine

LEMMA FineKept ==
  ASSUME NEW l, NEW t, NEW s, Fine(l, t, s), NEW m \in 0..Len(s)
  PROVE  Fine(l, t, SubSeq(s, 1, m))
<1>1. s \in Seq(Frames) /\ Len(s) \in Nat
  BY LenProperties DEF Fine
<1>2. /\ SubSeq(s, 1, m) \in Seq(Frames) /\ Len(SubSeq(s, 1, m)) = m
      /\ \A i \in 1..m : SubSeq(s, 1, m)[i] = s[i]
  BY <1>1, PrefixFacts
<1>3. \A i \in 1..m : i \in 1..Len(s) /\ (i > 1 => i - 1 \in 1..m)
  BY <1>1
<1> QED BY <1>2, <1>3 DEF Fine

LEMMA FineBelow ==
  ASSUME NEW l, NEW t, NEW s, Fine(l, t, s) PROVE Fine(l, t, Below(s))
BY BelowIsPrefix, FineKept DEF Fine

LEMMA FineSwapped ==
  ASSUME NEW l, NEW t, NEW s, Fine(l, t, s), NEW f, Swaps(l, s, f)
  PROVE  /\ Fine(l, t, [s EXCEPT ![Len(s)] = f])
         /\ Len([s EXCEPT ![Len(s)] = f]) = Len(s)
         /\ Top([s EXCEPT ![Len(s)] = f]) = f
         /\ [s EXCEPT ![Len(s)] = f] # <<>>
<1>1. s \in Seq(Frames) /\ Len(s) \in Nat \ {0} /\ f \in Frames
  BY EmptySeq DEF Fine, Swaps
<1> DEFINE r == [s EXCEPT ![Len(s)] = f]
<1>2. /\ r \in Seq(Frames) /\ Len(r) = Len(s)
      /\ \A j \in 1..Len(s) : r[j] = IF j = Len(s) THEN f ELSE s[j]
  BY <1>1, ExceptSeq
<1> HIDE DEF r
<1>3. Top(s) = s[Len(s)] /\ Len(s) \in 1..Len(s)
  BY <1>1 DEF Top
<1>4. ASSUME NEW i \in 1..Len(s)
      PROVE  /\ i = 1 => r[i].at \in Bottoms(t)
             /\ i > 1 => Rests(l, r[i - 1], r[i])
             /\ r[i].at = "loop" => r[i].todo \subseteq Targets(l, r[i].actor)
  <2>1. CASE i # Len(s)
    <3>1. r[i] = s[i] /\ (i > 1 => i - 1 \in 1..Len(s) /\ r[i - 1] = s[i - 1])
      BY <1>1, <1>2, <2>1
    <3> QED BY <3>1 DEF Fine
  <2>2. CASE i = Len(s)
    <3>1. r[i] = f /\ (i > 1 => i - 1 \in 1..Len(s) /\ r[i - 1] = s[i - 1])
      BY <1>1, <1>2, <2>2
    <3>2. /\ i = 1 => Top(s).at \in Bottoms(t)
          /\ i > 1 => Rests(l, s[i - 1], Top(s))
      BY <1>3, <2>2 DEF Fine
    <3>3. i = 1 => f.at \in Bottoms(t)
      BY <3>2 DEF Swaps, Bottoms
    <3>4. i > 1 => Rests(l, s[i - 1], f)
      BY <3>2 DEF Swaps, Rests
    <3> QED BY <3>1, <3>3, <3>4 DEF Swaps
  <2> QED BY <2>1, <2>2
<1>5. Fine(l, t, r)
  BY <1>2, <1>4 DEF Fine
<1>6. r # <<>> /\ Top(r) = f
  BY <1>1, <1>2, <1>3, EmptySeq DEF Top
<1> QED BY <1>2, <1>5, <1>6 DEF r

LEMMA FineMade ==
  ASSUME NEW l, NEW t, NEW s, Fine(l, t, s), NEW f, Makes(l, s, f)
  PROVE  Fine(l, t, Append(s, f))
<1>1. s \in Seq(Frames) /\ Len(s) \in Nat \ {0} /\ f \in Frames
  BY EmptySeq DEF Fine, Makes
<1> DEFINE r == Append(s, f)
<1>2. /\ r \in Seq(Frames) /\ Len(r) = Len(s) + 1
      /\ \A i \in 1..Len(s) : r[i] = s[i]
      /\ r[Len(s) + 1] = f
  BY <1>1, AppendProperties
<1> HIDE DEF r
<1>3. ASSUME NEW i \in 1..(Len(s) + 1)
      PROVE  /\ i = 1 => r[i].at \in Bottoms(t)
             /\ i > 1 => Rests(l, r[i - 1], r[i])
             /\ r[i].at = "loop" => r[i].todo \subseteq Targets(l, r[i].actor)
  <2>1. CASE i \in 1..Len(s)
    <3>1. r[i] = s[i] /\ (i > 1 => i - 1 \in 1..Len(s) /\ r[i - 1] = s[i - 1])
      BY <1>1, <1>2, <2>1
    <3> QED BY <2>1, <3>1 DEF Fine
  <2>2. CASE i = Len(s) + 1
    <3>1. r[i] = f /\ i > 1 /\ r[i - 1] = Top(s)
      BY <1>1, <1>2, <2>2 DEF Top
    <3> QED BY <1>1, <2>2, <3>1 DEF Makes
  <2> QED BY <1>1, <2>1, <2>2
<1> QED BY <1>2, <1>3 DEF Fine, r

\* A thread that begins.
LEMMA FineStarted ==
  ASSUME NEW l, NEW t, NEW f \in Frames, f.at \in Bottoms(t), f.at # "loop"
  PROVE  Fine(l, t, <<f>>)
<1>1. <<f>> \in Seq(Frames) /\ Len(<<f>>) = 1 /\ <<f>>[1] = f
  OBVIOUS
<1> QED BY <1>1 DEF Fine
-----------------------------------------------------------------------------
(* Steps *)

StackInv ==
  /\ stack \in [Threads -> Seq(Frames)]
  /\ \A t \in Threads : Fine(links, t, stack[t])

SwappedTop(s, f) == [s EXCEPT ![Len(s)] = f]

\* A thread begins with a call, or with a task of a delivery and its call.
Starts(t, r) ==
  \E f \in Frames :
    /\ f.at \in Bottoms(t) /\ f.at # "loop"
    /\ t \in Sources => stage = "none" \/ f.actor # victim
    /\ \/ r = <<f>>
       \/ /\ f.at = "delivery"
          /\ \E g \in Frames : /\ Makes(links, <<f>>, g) /\ <<f.actor, g.actor>> \in links
                               /\ r = Append(<<f>>, g)

\* What a step does with the stack of thread t.
Moves(t, s, r) ==
  \/ r \in {s, <<>>, Below(s), Below(Below(s))}
  \/ \E f \in Frames :
       Swaps(links, s, f) /\
         \/ r = SwappedTop(s, f)
         \/ \E g \in Frames : Makes(links, SwappedTop(s, f), g) /\ r = Append(SwappedTop(s, f), g)
  \/ \E f \in Frames : Makes(links, s, f) /\ Top(s).at # "delivery" /\ r = Append(s, f)
  \/ s = <<>> /\ Starts(t, r)

LEMMA FineMoved ==
  ASSUME NEW t, NEW s, Fine(links, t, s), NEW r, Moves(t, s, r)
  PROVE  Fine(links, t, r)
<1>1. CASE r \in {s, <<>>, Below(s), Below(Below(s))}
  BY <1>1, FineEmpty, FineBelow
<1>2. ASSUME NEW f \in Frames, Swaps(links, s, f), r = SwappedTop(s, f)
      PROVE  Fine(links, t, r)
  BY <1>2, FineSwapped DEF SwappedTop
<1>3. ASSUME NEW f \in Frames, Swaps(links, s, f), NEW g \in Frames,
             Makes(links, SwappedTop(s, f), g), r = Append(SwappedTop(s, f), g)
      PROVE  Fine(links, t, r)
  <2>1. Fine(links, t, SwappedTop(s, f))
    BY <1>3, FineSwapped DEF SwappedTop
  <2> QED BY <1>3, <2>1, FineMade
<1>4. ASSUME NEW f \in Frames, Makes(links, s, f), Top(s).at # "delivery", r = Append(s, f)
      PROVE  Fine(links, t, r)
  BY <1>4, FineMade
<1>5. CASE Starts(t, r)
  <2>1. PICK f \in Frames :
          /\ f.at \in Bottoms(t) /\ f.at # "loop"
          /\ \/ r = <<f>>
             \/ \E g \in Frames : Makes(links, <<f>>, g) /\ r = Append(<<f>>, g)
    BY <1>5 DEF Starts
  <2>2. Fine(links, t, <<f>>)
    BY <2>1, FineStarted
  <2> QED BY <2>1, <2>2, FineMade
<1> QED BY <1>1, <1>2, <1>3, <1>4, <1>5 DEF Moves

\* The frames of the model, and what the top of a stack says of them.
LEMMA FrameFacts ==
  /\ \A at \in {"delivery", "sanitize", "lock", "loop", "receive", "input", "process", "ask"},
        a \in Actors, todo \in SUBSET Actors :
       /\ Call(at, a, todo) \in Frames /\ Call(at, a, todo).at = at
       /\ Call(at, a, todo).actor = a /\ Call(at, a, todo).todo = todo
  /\ \A s \in Seq(Frames) : s # <<>> => Top(s) \in Frames
<1>1. ASSUME NEW s \in Seq(Frames), s # <<>> PROVE Top(s) \in Frames
  <2>1. Len(s) \in 1..Len(s)
    BY <1>1, EmptySeq
  <2> QED BY <2>1, ElementOfSeq DEF Top
<1> QED BY <1>1 DEF Call, Frames

LEMMA ThreadFacts ==
  /\ Sources \subseteq Threads /\ Tasks \subseteq Threads /\ Sources \cap Tasks = {}
  /\ \A t \in Tasks : Bottoms(t) = {"delivery", "process"}
  /\ \A t \in Threads \ Sources : t \in Tasks
BY ThreadsAssumption DEF Threads, Bottoms

\* The steps of a thread in its own stack.
LEMMA ThreadMoves ==
  ASSUME StackInv, NEW t \in Threads,
         \/ Forward(t) \/ Ask(t) \/ Undefined(t) \/ Sanitize(t) \/ BeginLoop(t)
         \/ EndLoop(t) \/ Receive(t) \/ EnterProcess(t) \/ Return(t) \/ Throw(t) \/ Answer(t)
  PROVE  \E r : stack' = [stack EXCEPT ![t] = r] /\ Moves(t, stack[t], r)
<1> DEFINE s == stack[t]
           Done == \E r : stack' = [stack EXCEPT ![t] = r] /\ Moves(t, s, r)
<1>1. s \in Seq(Frames) /\ (s # <<>> => Top(s) \in Frames)
  BY FrameFacts DEF StackInv
<1>2. s # <<>> => Here(t) \in Actors /\ Here(t) = Top(s).actor
  BY <1>1 DEF Here, Frames
<1>3. ASSUME NEW f \in Frames, Makes(links, s, f), Top(s).at # "delivery",
             Stacked(t, Append(s, f))
      PROVE  Done
  BY <1>3 DEF Moves, Stacked
<1>4. ASSUME NEW f \in Frames, Swaps(links, s, f), Stacked(t, Replaced(t, f)) PROVE Done
  BY <1>4 DEF Moves, Stacked, Replaced, SwappedTop
<1>5. ASSUME NEW r \in {s, <<>>, Below(s), Below(Below(s))}, Stacked(t, r) PROVE Done
  BY <1>5 DEF Moves, Stacked
<1> HIDE DEF Done
<1> SUFFICES Done
  BY DEF Done
<1>6. CASE Forward(t) \/ Ask(t)
  <2>1. s # <<>> /\ Top(s).at = "process"
    BY <1>6 DEF Forward, Ask, At
  <2>2. PICK at \in {"sanitize", "ask"} : Stacked(t, Append(s, Call(at, Here(t), {})))
    BY <1>6 DEF Forward, Ask
  <2>3. /\ Call(at, Here(t), {}) \in Frames /\ Call(at, Here(t), {}).at = at
        /\ Call(at, Here(t), {}).actor = Here(t)
    BY <1>2, <2>1, FrameFacts
  <2>4. Makes(links, s, Call(at, Here(t), {}))
    BY <1>2, <2>1, <2>3 DEF Makes, Rests
  <2> QED BY <1>3, <2>1, <2>2, <2>3, <2>4 DEF Stacked
<1>7. CASE Sanitize(t)
  <2>1. s # <<>> /\ Top(s).at = "sanitize" /\ Stacked(t, Replaced(t, Call("lock", Here(t), {})))
    BY <1>7 DEF Sanitize, At
  <2>2. Swaps(links, s, Call("lock", Here(t), {}))
    BY <1>2, <2>1, FrameFacts DEF Swaps
  <2> QED BY <1>4, <2>1, <2>2 DEF Swaps, Stacked
<1>8. CASE BeginLoop(t)
  <2>1. /\ s # <<>> /\ Top(s).at = "lock"
        /\ Stacked(t, Replaced(t, Call("loop", Here(t), Receivers(Here(t)))))
    BY <1>8 DEF BeginLoop, At
  <2>2. Receivers(Here(t)) \in SUBSET Actors /\ Receivers(Here(t)) = Targets(links, Here(t))
    BY DEF Receivers, Targets
  <2>3. Swaps(links, s, Call("loop", Here(t), Receivers(Here(t))))
    BY <1>2, <2>1, <2>2, FrameFacts DEF Swaps
  <2> QED BY <1>4, <2>1, <2>3 DEF Swaps, Stacked
<1>9. CASE Receive(t)
  <2>1. /\ s # <<>> /\ Top(s).at = "receive"
        /\ \/ Stacked(t, Replaced(t, Call("input", Here(t), {})))
           \/ Stacked(t, Below(s))
    BY <1>9 DEF Receive, At
  <2>2. Swaps(links, s, Call("input", Here(t), {}))
    BY <1>2, <2>1, FrameFacts DEF Swaps
  <2> QED BY <1>4, <1>5, <2>1, <2>2 DEF Swaps, Stacked
<1>10. CASE EnterProcess(t)
  <2>1. s # <<>> /\ Top(s).at = "input" /\ Stacked(t, Replaced(t, Call("process", Here(t), {})))
    BY <1>10 DEF EnterProcess, At
  <2>2. Swaps(links, s, Call("process", Here(t), {}))
    BY <1>2, <2>1, FrameFacts DEF Swaps
  <2> QED BY <1>4, <2>1, <2>2 DEF Swaps, Stacked
<1>11. CASE EndLoop(t) \/ Return(t) \/ Throw(t) \/ Answer(t) \/ Undefined(t)
  <2>1. \E r \in {s, <<>>, Below(s), Below(Below(s))} : Stacked(t, r)
    BY <1>11 DEF EndLoop, Return, Throw, Answer, Undefined
  <2> QED BY <1>5, <2>1 DEF Stacked
<1> QED BY <1>6, <1>7, <1>8, <1>9, <1>10, <1>11

\* A stack that moved, and the others that did not.
LEMMA OneMoved ==
  ASSUME StackInv, NEW t \in Threads, NEW r, stack' = [stack EXCEPT ![t] = r],
         Moves(t, stack[t], r)
  PROVE  /\ stack' \in [Threads -> Seq(Frames)]
         /\ \A u \in Threads : Moves(u, stack[u], stack'[u])
<1>1. r \in Seq(Frames)
  BY FineMoved DEF StackInv, Fine
<1>2. stack' \in [Threads -> Seq(Frames)] /\ stack'[t] = r
  BY <1>1 DEF StackInv
<1>3. \A u \in Threads \ {t} : stack'[u] = stack[u]
  BY DEF StackInv
<1>4. \A u \in Threads \ {t} : Moves(u, stack[u], stack'[u])
  BY <1>3 DEF Moves
<1> QED BY <1>2, <1>4

\* A stack that moved, and that of a task that was started.
LEMMA TwoMoved ==
  ASSUME StackInv, NEW t \in Threads, NEW r, NEW k \in Tasks, NEW n, k # t,
         stack' = [stack EXCEPT ![t] = r, ![k] = n],
         Moves(t, stack[t], r), Moves(k, stack[k], n)
  PROVE  /\ stack' \in [Threads -> Seq(Frames)]
         /\ \A u \in Threads : Moves(u, stack[u], stack'[u])
<1>1. k \in Threads
  BY ThreadFacts
<1>2. r \in Seq(Frames) /\ n \in Seq(Frames)
  BY <1>1, FineMoved DEF StackInv, Fine
<1>3. stack' \in [Threads -> Seq(Frames)] /\ stack'[t] = r /\ stack'[k] = n
  BY <1>1, <1>2 DEF StackInv
<1>4. \A u \in Threads \ {t, k} : stack'[u] = stack[u]
  BY DEF StackInv
<1>5. \A u \in Threads \ {t, k} : Moves(u, stack[u], stack'[u])
  BY <1>4 DEF Moves
<1> QED BY <1>3, <1>5

\* Whatever step is taken, every stack moves in one of these ways.
LEMMA StacksMove ==
  ASSUME StackInv, Next
  PROVE  /\ stack' \in [Threads -> Seq(Frames)]
         /\ \A u \in Threads : Moves(u, stack[u], stack'[u])
<1> DEFINE Done == /\ stack' \in [Threads -> Seq(Frames)]
                   /\ \A u \in Threads : Moves(u, stack[u], stack'[u])
<1>1. ASSUME stack' = stack PROVE Done
  BY <1>1 DEF StackInv, Moves
<1>2. ASSUME NEW t \in Threads, NEW r, stack' = [stack EXCEPT ![t] = r],
             Moves(t, stack[t], r)
      PROVE  Done
  BY <1>2, OneMoved
<1>3. ASSUME NEW t \in Threads, NEW r, NEW k \in Tasks, NEW n, k # t,
             stack' = [stack EXCEPT ![t] = r, ![k] = n],
             Moves(t, stack[t], r), Moves(k, stack[k], n)
      PROVE  Done
  BY <1>3, TwoMoved
<1> HIDE DEF Done
<1>4. ASSUME NEW t \in Sources, NEW a \in Actors, Send(t, a) PROVE Done
  <2> DEFINE f == Call("sanitize", a, {})
  <2>1. f \in Frames /\ f.at = "sanitize" /\ f.actor = a
    BY FrameFacts
  <2>2. t \in Threads /\ stack[t] = <<>> /\ stack' = [stack EXCEPT ![t] = <<f>>]
    BY <1>4, ThreadFacts DEF Send, Stacked
  <2>3. f.at \in Bottoms(t) /\ (stage = "none" \/ f.actor # victim)
    BY <1>4, <2>1 DEF Send, Bottoms
  <2> HIDE DEF f
  <2>4. Starts(t, <<f>>)
    BY <2>1, <2>3 DEF Starts
  <2> QED BY <1>2, <2>2, <2>4 DEF Moves
<1>5. ASSUME NEW t \in Threads, Deliver(t) PROVE Done
  <2> DEFINE s == stack[t]
  <2>1. /\ s \in Seq(Frames) /\ s # <<>> /\ Top(s).at = "loop" /\ Top(s) \in Frames
        /\ Fine(links, t, s)
    BY <1>5, FrameFacts DEF Deliver, At, StackInv
  <2>2. PICK b \in Top(s).todo :
          LET rest == Replaced(t, Call("loop", Here(t), Top(s).todo \ {b}))
              call == Call("receive", b, {})
          IN \/ Stacked(t, Append(rest, call))
             \/ \E k \in Tasks :
                  /\ IsFree(k)
                  /\ stack' = [stack EXCEPT ![t] = rest,
                                            ![k] = <<Call("delivery", Here(t), {}), call>>]
    BY <1>5 DEF Deliver
  <2> DEFINE f == Call("loop", Here(t), Top(s).todo \ {b})
             g == Call("receive", b, {})
             d == Call("delivery", Here(t), {})
  <2>3. Here(t) \in Actors /\ Here(t) = Top(s).actor /\ Top(s).todo \in SUBSET Actors
    BY <2>1 DEF Here, Frames
  <2>4. Len(s) \in 1..Len(s)
    BY <2>1, EmptySeq
  <2>5. Top(s).todo \subseteq Targets(links, Here(t))
    BY <2>1, <2>3, <2>4 DEF Fine, Top
  <2>6. b \in Actors /\ <<Here(t), b>> \in links
    BY <2>5 DEF Targets
  <2>7. /\ f \in Frames /\ f.at = "loop" /\ f.actor = Here(t) /\ f.todo = Top(s).todo \ {b}
        /\ g \in Frames /\ g.at = "receive" /\ g.actor = b
        /\ d \in Frames /\ d.at = "delivery" /\ d.actor = Here(t)
    BY <2>3, <2>6, FrameFacts
  <2>8. \/ Stacked(t, Append(Replaced(t, f), g))
        \/ \E k \in Tasks : /\ IsFree(k)
                            /\ stack' = [stack EXCEPT ![t] = Replaced(t, f), ![k] = <<d, g>>]
    BY <2>2
  <2> HIDE DEF f, g, d
  <2>9. Swaps(links, s, f) /\ Replaced(t, f) = SwappedTop(s, f)
    BY <2>1, <2>3, <2>5, <2>7 DEF Swaps, Replaced, SwappedTop
  <2>10. SwappedTop(s, f) # <<>> /\ Top(SwappedTop(s, f)) = f
    BY <2>1, <2>9, FineSwapped DEF SwappedTop
  <2>11. CASE Stacked(t, Append(Replaced(t, f), g))
    <3>1. Makes(links, SwappedTop(s, f), g)
      BY <2>6, <2>7, <2>10 DEF Makes, Rests
    <3>2. Moves(t, s, Append(SwappedTop(s, f), g))
      BY <2>7, <2>9, <3>1 DEF Moves
    <3> QED BY <1>2, <2>9, <2>11, <3>2 DEF Stacked
  <2>12. ASSUME NEW k \in Tasks, IsFree(k),
                stack' = [stack EXCEPT ![t] = Replaced(t, f), ![k] = <<d, g>>]
         PROVE  Done
    <3>1. stack[k] = <<>> /\ k # t
      BY <2>1, <2>12 DEF IsFree
    <3>2. <<d>> # <<>> /\ Top(<<d>>) = d /\ <<d, g>> = Append(<<d>>, g)
      BY DEF Top
    <3>3. Makes(links, <<d>>, g)
      BY <2>7, <3>2 DEF Makes, Rests
    <3>4. d.at \in Bottoms(k) /\ d.at # "loop" /\ k \notin Sources
      BY <2>7, ThreadFacts
    <3>5. Starts(k, <<d, g>>)
      BY <2>6, <2>7, <3>2, <3>3, <3>4 DEF Starts
    <3>6. Moves(t, s, Replaced(t, f)) /\ Moves(k, stack[k], <<d, g>>)
      BY <2>7, <2>9, <3>1, <3>5 DEF Moves
    <3> QED BY <1>3, <2>12, <3>1, <3>6
  <2> QED BY <2>8, <2>11, <2>12
<1>6. ASSUME NEW t \in Threads, StartProcess(t) PROVE Done
  <2>1. PICK k \in Tasks :
          /\ IsFree(k)
          /\ stack' = [stack EXCEPT ![t] = Below(stack[t]), ![k] = <<Call("process", Here(t), {})>>]
    BY <1>6 DEF StartProcess
  <2>2. stack[t] # <<>> /\ Top(stack[t]) \in Frames
    BY <1>6, FrameFacts DEF StartProcess, At, StackInv
  <2>3. stack[k] = <<>> /\ k # t
    BY <2>1, <2>2 DEF IsFree
  <2> DEFINE f == Call("process", Here(t), {})
  <2>4. f \in Frames /\ f.at = "process"
    BY <2>2, FrameFacts DEF Here, Frames
  <2> HIDE DEF f
  <2>5. f.at \in Bottoms(k) /\ k \notin Sources
    BY <2>4, ThreadFacts
  <2>6. Starts(k, <<f>>)
    BY <2>4, <2>5 DEF Starts
  <2>7. Moves(t, stack[t], Below(stack[t])) /\ Moves(k, stack[k], <<f>>)
    BY <2>3, <2>6 DEF Moves
  <2>8. stack' = [stack EXCEPT ![t] = Below(stack[t]), ![k] = <<f>>]
    BY <2>1 DEF f
  <2> QED BY <1>3, <2>3, <2>7, <2>8
<1>7. ASSUME NEW t \in Threads, Continue(t) \/ Forward(t) \/ Ask(t) \/ Undefined(t)
      PROVE  Done
  <2>1. CASE Deliver(t) \/ StartProcess(t)
    BY <1>5, <1>6, <2>1
  <2>2. CASE ~(Deliver(t) \/ StartProcess(t))
    <3>1. \/ Forward(t) \/ Ask(t) \/ Undefined(t) \/ Sanitize(t) \/ BeginLoop(t)
          \/ EndLoop(t) \/ Receive(t) \/ EnterProcess(t) \/ Return(t) \/ Throw(t) \/ Answer(t)
      BY <1>7, <2>2 DEF Continue
    <3> QED BY <1>2, <3>1, ThreadMoves
  <2> QED BY <2>1, <2>2
<1>8. ASSUME Deactivate \/ Remove \/ Removal PROVE Done
  <2>1. stack' = stack
    BY <1>8 DEF Deactivate, Remove, Removal, DisconnectAll, Destroy, WaitForTasksLock, WaitForTasks,
         DestroyPorts
  <2> QED BY <1>1, <2>1
<1> QED BY <1>4, <1>7, <1>8 DEF Next, Done
-----------------------------------------------------------------------------
(* Links *)

\* A stack stays fine when links go that no loop in it is about.
LEMMA FineCut ==
  ASSUME NEW l, NEW m, NEW t, NEW s, Fine(l, t, s),
         \A i \in 1..Len(s) : s[i].at = "loop" =>
           \A b \in Actors : <<s[i].actor, b>> \in l => <<s[i].actor, b>> \in m
  PROVE  Fine(m, t, s)
<1>1. s \in Seq(Frames) /\ Len(s) \in Nat
  BY LenProperties DEF Fine
<1>2. ASSUME NEW i \in 1..Len(s)
      PROVE  /\ i > 1 => Rests(m, s[i - 1], s[i])
             /\ s[i].at = "loop" => s[i].todo \subseteq Targets(m, s[i].actor)
  <2>1. s[i] \in Frames /\ s[i].actor \in Actors
    BY <1>1, CallInActor
  <2>2. CASE i > 1
    <3>1. i - 1 \in 1..Len(s)
      BY <1>1, <2>2
    <3>2. Rests(l, s[i - 1], s[i])
      BY <2>2 DEF Fine
    <3>3. Rests(m, s[i - 1], s[i])
      BY <2>1, <3>1, <3>2 DEF Rests
    <3>4. s[i].at = "loop" => s[i].todo \subseteq Targets(m, s[i].actor)
      BY DEF Fine, Targets
    <3> QED BY <3>3, <3>4
  <2>3. CASE ~(i > 1)
    BY <2>3 DEF Fine, Targets
  <2> QED BY <2>2, <2>3
<1> QED BY <1>1, <1>2 DEF Fine

\* A thread in a loop of an actor is Inside it.
LEMMA LoopIsInside ==
  ASSUME StackInv, NEW t \in Threads, NEW i \in 1..Len(stack[t]),
         stack[t][i].at = "loop"
  PROVE  t \in InLoop(stack[t][i].actor) /\ t \in InNotify(stack[t][i].actor)
<1>1. i \in DOMAIN stack[t]
  BY LenProperties DEF StackInv
<1> QED BY <1>1 DEF InLoop, InNotify, Inside

\* Every call was made by the one below it over a link that is there: a loop
\* keeps its links, as DisconnectAll and CleanObservers wait for its end.
LEMMA StackStep == StackInv /\ [Next]_vars => StackInv'
<1> SUFFICES ASSUME StackInv, [Next]_vars PROVE StackInv'
  OBVIOUS
<1>1. CASE UNCHANGED vars
  BY <1>1 DEF vars, StackInv
<1>2. CASE Remove
  <2>1. stack' = stack /\ links' = {l \in links : l[1] # victim} /\ InLoop(victim) = {}
    BY <1>2 DEF Remove
  <2>2. ASSUME NEW t \in Threads PROVE Fine(links', t, stack[t])
    <3>1. ASSUME NEW i \in 1..Len(stack[t]), stack[t][i].at = "loop",
                 NEW b \in Actors, <<stack[t][i].actor, b>> \in links
          PROVE  <<stack[t][i].actor, b>> \in links'
      BY <2>1, <3>1, LoopIsInside
    <3> QED BY <3>1, FineCut DEF StackInv
  <2> QED BY <2>1, <2>2 DEF StackInv
<1>3. ASSUME NEW a \in Actors, DisconnectAll(a) PROVE StackInv'
  <2>1. stack' = stack /\ links' = links \ {<<a, victim>>} /\ InNotify(a) = {}
    BY <1>3 DEF DisconnectAll
  <2>2. ASSUME NEW t \in Threads PROVE Fine(links', t, stack[t])
    <3>1. ASSUME NEW i \in 1..Len(stack[t]), stack[t][i].at = "loop",
                 NEW b \in Actors, <<stack[t][i].actor, b>> \in links
          PROVE  <<stack[t][i].actor, b>> \in links'
      BY <2>1, <3>1, LoopIsInside
    <3> QED BY <3>1, FineCut DEF StackInv
  <2> QED BY <2>1, <2>2 DEF StackInv
<1>4. CASE Next /\ links' = links
  <2>1. stack' \in [Threads -> Seq(Frames)] /\ \A u \in Threads : Moves(u, stack[u], stack'[u])
    BY <1>4, StacksMove
  <2>2. \A u \in Threads : Fine(links, u, stack'[u])
    BY <2>1, FineMoved DEF StackInv
  <2> QED BY <1>4, <2>1, <2>2 DEF StackInv
<1>5. Next => Remove \/ (\E a \in Actors : DisconnectAll(a)) \/ links' = links
  BY DEF Next, Send, Continue, Forward, Ask, Undefined, Sanitize, BeginLoop, Deliver, EndLoop,
         Receive, StartProcess, EnterProcess, Return, Throw, Answer, Deactivate, Removal,
         Destroy, WaitForTasksLock, WaitForTasks, DestroyPorts
<1> QED BY <1>1, <1>2, <1>3, <1>4, <1>5

LEMMA StackInit == Init => StackInv
<1>1. <<>> \in Seq(Frames)
  BY EmptySeq
<1> QED BY <1>1, FineEmpty DEF Init, StackInv

Late == {"wait", "drain", "ports", "gone"}

\* The links of the removed actor are cut, its own at once and those that lead
\* to it one output port after the other.
CutInv ==
  /\ victim \in Actors /\ stage \in {"none", "cut"} \cup Late
  /\ stage # "none" => \A b \in Actors : <<victim, b>> \notin links
  /\ stage = "cut" => \A a \in Actors \ uncut : <<a, victim>> \notin links
  /\ stage \in Late => \A a \in Actors : <<a, victim>> \notin links

LEMMA CutStep == CutInv /\ [Next]_vars => CutInv'
<1> SUFFICES ASSUME CutInv, [Next]_vars PROVE CutInv'
  OBVIOUS
<1> USE DEF CutInv, Late, removal
<1>1. CASE Remove
  <2>1. \A b \in Actors : <<victim, b>> \notin links'
    BY <1>1 DEF Remove
  <2>2. \A a \in Actors \ uncut' : a = victim
    BY <1>1 DEF Remove
  <2> QED BY <1>1, <2>1, <2>2 DEF Remove
<1>2. ASSUME NEW a \in Actors, DisconnectAll(a) PROVE CutInv'
  <2>1. \A b \in Actors : <<b, victim>> \notin links => <<b, victim>> \notin links'
    BY <1>2 DEF DisconnectAll
  <2>2. <<a, victim>> \notin links' /\ links' \subseteq links
    BY <1>2 DEF DisconnectAll
  <2> QED BY <1>2, <2>1, <2>2 DEF DisconnectAll
<1>3. CASE Destroy
  BY <1>3 DEF Destroy
<1>4. CASE WaitForTasksLock \/ WaitForTasks \/ DestroyPorts
  BY <1>4 DEF WaitForTasksLock, WaitForTasks, DestroyPorts
<1>5. CASE UNCHANGED vars
  BY <1>5 DEF vars
<1>6. ASSUME NEW t \in Threads,
             Continue(t) \/ Forward(t) \/ Ask(t) \/ Undefined(t) \/ \E a \in Actors : Send(t, a)
      PROVE  CutInv'
  <2>1. UNCHANGED <<links, removal>>
    BY <1>6 DEF Send, Continue, Forward, Ask, Undefined, Sanitize, BeginLoop, Deliver, EndLoop,
         Receive, StartProcess, EnterProcess, Return, Throw, Answer
  <2> QED BY <2>1
<1>7. CASE Deactivate
  BY <1>7 DEF Deactivate
<1> QED BY <1>1, <1>2, <1>3, <1>4, <1>5, <1>6, <1>7, ThreadFacts DEF Next, Removal

LEMMA CutInit == Init => CutInv
BY DEF Init, CutInv, Late

\* Without a link to the actor, what receives in it is what a task had begun.
LEMMA ReachedByTasks ==
  ASSUME StackInv, CutInv, stage \in Late, NEW t \in Threads, NEW i \in 1..Len(stack[t]),
         stack[t][i].actor = victim, stack[t][i].at \in {"receive", "input"}
  PROVE  i = 2 /\ stack[t][1].at = "delivery"
<1> DEFINE s == stack[t]
<1>1. Fine(links, t, s) /\ s \in Seq(Frames) /\ Len(s) \in Nat
  BY LenProperties DEF StackInv
<1>2. i # 1
  BY <1>1 DEF Fine, Bottoms
<1>3. i > 1 /\ i - 1 \in 1..Len(s) /\ Rests(links, s[i - 1], s[i])
  BY <1>1, <1>2 DEF Fine
<1>4. s[i - 1].actor \in Actors
  BY <1>1, <1>3, CallInActor
<1>5. s[i - 1].at = "delivery"
  BY <1>3, <1>4 DEF Rests, CutInv
<1>6. i - 1 = 1
  <2> SUFFICES ASSUME i - 1 > 1 PROVE FALSE
    BY <1>3
  <2>1. Rests(links, s[(i - 1) - 1], s[i - 1])
    BY <1>1, <1>3 DEF Fine
  <2> QED BY <1>5, <2>1 DEF Rests
<1> QED BY <1>1, <1>5, <1>6

\* An actor that was removed is only reached by deliveries that a task had begun
\* before, whatever the network, the threads and the nesting of calls.
THEOREM RemovedIsUnlinked == Spec => []RemovedIsReachedLate
<1>1. StackInv /\ CutInv => RemovedIsReachedLate
  <2> SUFFICES ASSUME StackInv, CutInv, stage \in Late, NEW t \in Threads,
                      NEW i \in DOMAIN stack[t], stack[t][i].actor = victim,
                      stack[t][i].at \in {"receive", "input"}
               PROVE  i = 2 /\ stack[t][1].at = "delivery"
    BY DEF RemovedIsReachedLate, Late
  <2>1. i \in 1..Len(stack[t])
    BY LenProperties DEF StackInv
  <2> QED BY <2>1, ReachedByTasks
<1> QED BY <1>1, StackInit, StackStep, CutInit, CutStep, PTL DEF Spec
-----------------------------------------------------------------------------
(* Types *)

OtherTypes ==
  /\ links \subseteq Actors \X Actors
  /\ syncPorts \subseteq Actors /\ syncActors \subseteq Actors
  /\ active \subseteq Actors
  /\ lock \in [Actors -> Threads \cup {Owner, Free}]
  /\ victim \in Actors /\ inScheme \in BOOLEAN
  /\ stage \in {"none", "cut", "wait", "drain", "ports", "gone"}
  /\ uncut \subseteq Actors /\ late \in BOOLEAN /\ calls \in 0..MaxCalls

LEMMA TypeInit == Init => OtherTypes
<1> SUFFICES ASSUME Init PROVE OtherTypes
  OBVIOUS
<1>1. PICK s \in Setups : links = s.links /\ syncPorts = s.syncPorts /\ syncActors = s.syncActors
  BY DEF Init
<1>2. /\ s.links \subseteq Actors \X Actors /\ s.syncPorts \subseteq Actors
      /\ s.syncActors \subseteq Actors
  BY ActorsAssumption
<1>3. lock \in [Actors -> Threads \cup {Owner, Free}]
  BY DEF Init
<1>4. calls \in 0..MaxCalls
  BY ActorsAssumption DEF Init
<1> QED BY <1>1, <1>2, <1>3, <1>4 DEF Init, OtherTypes

LEMMA TypeStep == StackInv /\ OtherTypes /\ [Next]_vars => OtherTypes'
<1> SUFFICES ASSUME StackInv, OtherTypes, [Next]_vars PROVE OtherTypes'
  OBVIOUS
<1> USE ActorsAssumption DEF OtherTypes, modes, removal
<1>1. CASE Deactivate \/ Remove
  BY <1>1 DEF Deactivate, Remove
<1>2. ASSUME NEW a \in Actors, DisconnectAll(a) PROVE OtherTypes'
  BY <1>2 DEF DisconnectAll
<1>3. CASE Destroy
  BY <1>3 DEF Destroy
<1>4. CASE WaitForTasksLock \/ WaitForTasks \/ DestroyPorts
  BY <1>4 DEF WaitForTasksLock, WaitForTasks, DestroyPorts
<1>5. CASE UNCHANGED vars
  BY <1>5 DEF vars
<1>6. ASSUME NEW t \in Threads,
             \/ Sanitize(t) \/ BeginLoop(t) \/ Deliver(t) \/ EndLoop(t)
             \/ Receive(t) \/ StartProcess(t) \/ Answer(t) \/ Undefined(t)
      PROVE  OtherTypes'
  BY <1>6 DEF Sanitize, BeginLoop, Deliver, EndLoop, Receive, StartProcess, Answer, Undefined
<1>7. ASSUME NEW t \in Threads, Forward(t) \/ Ask(t) \/ \E a \in Actors : Send(t, a)
      PROVE  OtherTypes'
  <2>1. /\ calls < MaxCalls /\ calls' = calls + 1
        /\ UNCHANGED <<links, modes, active, lock, removal>>
    BY <1>7 DEF Forward, Ask, Send
  <2>2. calls' \in 0..MaxCalls
    BY <2>1
  <2> QED BY <2>1, <2>2
<1>8. ASSUME NEW t \in Threads, EnterProcess(t) \/ Return(t) \/ Throw(t) PROVE OtherTypes'
  <2>1. \/ lock' = [lock EXCEPT ![Here(t)] = t]
        \/ lock' = [lock EXCEPT ![Here(t)] = IF @ = t THEN Free ELSE @]
    BY <1>8 DEF EnterProcess, Return, Throw, Unlocked
  <2>2. lock' \in [Actors -> Threads \cup {Owner, Free}]
    <3>1. CASE lock' = [lock EXCEPT ![Here(t)] = t]
      BY <3>1
    <3>2. CASE lock' = [lock EXCEPT ![Here(t)] = IF @ = t THEN Free ELSE @]
      BY <3>2
    <3> QED BY <2>1, <3>1, <3>2
  <2>3. UNCHANGED <<links, modes, active, removal, calls>>
    BY <1>8 DEF EnterProcess, Return, Throw
  <2> QED BY <2>2, <2>3
<1> QED BY <1>1, <1>2, <1>3, <1>4, <1>5, <1>6, <1>7, <1>8, ThreadFacts
        DEF Next, Continue, Removal

\* Every state of the network is well typed.
THEOREM TypeCorrect == Spec => []TypeOK
<1>1. StackInv /\ OtherTypes => TypeOK
  BY DEF StackInv, OtherTypes, TypeOK
<1> QED BY <1>1, StackInit, StackStep, TypeInit, TypeStep, PTL DEF Spec
-----------------------------------------------------------------------------
(* An actor that is gone *)

\* The calls of a stack that are in the removed actor: in a thread that began as
\* one of its tasks, or the task of one of its port's deliveries.
Settled(s) ==
  \A i \in 1..Len(s) : s[i].actor = victim =>
    \/ s[1].at = "process" /\ s[1].actor = victim
    \/ i = 1 /\ s[1].at = "delivery"

LEMMA SettledEmpty == Settled(<<>>)
<1>1. Len(<<>>) = 0
  BY EmptySeq
<1> QED BY <1>1 DEF Settled

LEMMA SettledBelow ==
  ASSUME NEW s \in Seq(Frames), Settled(s) PROVE Settled(Below(s)) /\ Below(s) \in Seq(Frames)
<1>1. PICK m \in 0..Len(s) : Below(s) = SubSeq(s, 1, m)
  BY BelowIsPrefix
<1>2. /\ SubSeq(s, 1, m) \in Seq(Frames) /\ Len(SubSeq(s, 1, m)) = m
      /\ \A i \in 1..m : SubSeq(s, 1, m)[i] = s[i]
  BY <1>1, PrefixFacts
<1>3. Len(s) \in Nat
  BY LenProperties
<1>4. \A i \in 1..m : i \in 1..Len(s) /\ 1 \in 1..m
  BY <1>3
<1> QED BY <1>1, <1>2, <1>4 DEF Settled

LEMMA SettledSwapped ==
  ASSUME NEW t, NEW s, Fine(links, t, s), Settled(s), NEW f, Swaps(links, s, f)
  PROVE  Settled(SwappedTop(s, f))
<1>1. s \in Seq(Frames) /\ Len(s) \in Nat \ {0} /\ f \in Frames
  BY EmptySeq DEF Fine, Swaps
<1> DEFINE r == [s EXCEPT ![Len(s)] = f]
<1>2. /\ Len(r) = Len(s)
      /\ \A j \in 1..Len(s) : r[j] = IF j = Len(s) THEN f ELSE s[j]
  BY <1>1, ExceptSeq
<1> HIDE DEF r
<1>3. Top(s) = s[Len(s)] /\ Len(s) \in 1..Len(s) /\ 1 \in 1..Len(s)
  BY <1>1 DEF Top
<1>4. Top(s).at \notin {"process", "delivery"} /\ f.actor = Top(s).actor
  BY DEF Swaps
<1>5. ASSUME NEW i \in 1..Len(s), r[i].actor = victim
      PROVE  \/ r[1].at = "process" /\ r[1].actor = victim
             \/ i = 1 /\ r[1].at = "delivery"
  <2>1. s[i].actor = victim
    BY <1>2, <1>3, <1>4, <1>5
  <2>2. \/ s[1].at = "process" /\ s[1].actor = victim
        \/ i = 1 /\ s[1].at = "delivery"
    BY <2>1 DEF Settled
  <2>3. 1 # Len(s)
    BY <1>3, <1>4, <2>2
  <2> QED BY <1>2, <1>3, <2>2, <2>3
<1>6. Settled(r)
  BY <1>2, <1>5 DEF Settled
<1> QED BY <1>6 DEF r, SwappedTop

LEMMA SettledMade ==
  ASSUME NEW s \in Seq(Frames), s # <<>>, Settled(s), NEW f, Makes(links, s, f),
         \A a \in Actors : <<a, victim>> \notin links,
         f.actor = victim => Top(s).at # "delivery"
  PROVE  Settled(Append(s, f))
<1>1. Len(s) \in Nat \ {0} /\ f \in Frames
  BY EmptySeq DEF Makes
<1> DEFINE r == Append(s, f)
<1>2. /\ Len(r) = Len(s) + 1 /\ \A i \in 1..Len(s) : r[i] = s[i]
      /\ r[Len(s) + 1] = f
  BY <1>1, AppendProperties
<1> HIDE DEF r
<1>3. Top(s) = s[Len(s)] /\ Len(s) \in 1..Len(s) /\ 1 \in 1..Len(s)
  BY <1>1 DEF Top
<1>4. Top(s).actor \in Actors
  BY <1>3, CallInActor
<1>5. f.actor = victim => Top(s).at = "process" /\ Top(s).actor = victim
  BY <1>4 DEF Makes, Rests
<1>6. ASSUME NEW i \in 1..(Len(s) + 1), r[i].actor = victim
      PROVE  \/ r[1].at = "process" /\ r[1].actor = victim
             \/ i = 1 /\ r[1].at = "delivery"
  <2>1. CASE i \in 1..Len(s)
    BY <1>2, <1>3, <1>6, <2>1 DEF Settled
  <2>2. CASE i = Len(s) + 1
    <3>1. Top(s).at = "process" /\ Top(s).actor = victim
      BY <1>2, <1>5, <1>6, <2>2
    <3>2. s[1].at = "process" /\ s[1].actor = victim
      BY <1>3, <3>1 DEF Settled
    <3> QED BY <1>2, <1>3, <3>2
  <2> QED BY <1>1, <2>1, <2>2
<1> QED BY <1>2, <1>6 DEF Settled, r

\* No step brings a call into the removed actor from outside.
LEMMA SettledMoved ==
  ASSUME CutInv, stage \in Late, NEW t \in Threads, NEW s, Fine(links, t, s), Settled(s),
         NEW r, Moves(t, s, r)
  PROVE  Settled(r)
<1>1. s \in Seq(Frames) /\ \A a \in Actors : <<a, victim>> \notin links
  BY DEF Fine, CutInv
<1>2. CASE r \in {s, <<>>, Below(s), Below(Below(s))}
  BY <1>1, <1>2, SettledEmpty, SettledBelow
<1>3. ASSUME NEW f \in Frames, Swaps(links, s, f), r = SwappedTop(s, f)
      PROVE  Settled(r)
  BY <1>3, SettledSwapped
<1>4. ASSUME NEW f \in Frames, Swaps(links, s, f), NEW g \in Frames,
             Makes(links, SwappedTop(s, f), g), r = Append(SwappedTop(s, f), g)
      PROVE  Settled(r)
  <2>1. /\ Fine(links, t, SwappedTop(s, f)) /\ SwappedTop(s, f) # <<>>
        /\ Top(SwappedTop(s, f)) = f
    BY <1>4, FineSwapped DEF SwappedTop
  <2>2. SwappedTop(s, f) \in Seq(Frames) /\ f.at # "delivery"
    BY <1>4, <2>1 DEF Fine, Swaps
  <2> QED BY <1>1, <1>4, <2>1, <2>2, SettledSwapped, SettledMade
<1>5. ASSUME NEW f \in Frames, Makes(links, s, f), Top(s).at # "delivery", r = Append(s, f)
      PROVE  Settled(r)
  BY <1>1, <1>5, SettledMade DEF Makes
<1>6. CASE Starts(t, r)
  <2>1. PICK f \in Frames :
          /\ f.at \in Bottoms(t) /\ f.at # "loop"
          /\ t \in Sources => stage = "none" \/ f.actor # victim
          /\ \/ r = <<f>>
             \/ /\ f.at = "delivery"
                /\ \E g \in Frames : /\ Makes(links, <<f>>, g) /\ <<f.actor, g.actor>> \in links
                                     /\ r = Append(<<f>>, g)
    BY <1>6 DEF Starts
  <2>2. <<f>> \in Seq(Frames) /\ Len(<<f>>) = 1 /\ <<f>>[1] = f /\ <<f>> # <<>>
    OBVIOUS
  <2>3. Settled(<<f>>)
    BY <2>1, <2>2 DEF Settled, Bottoms, Late
  <2>4. \A g \in Frames : <<f.actor, g.actor>> \in links => g.actor # victim
    BY <1>1 DEF Frames
  <2> QED BY <1>1, <2>1, <2>2, <2>3, <2>4, SettledMade
<1> QED BY <1>2, <1>3, <1>4, <1>5, <1>6 DEF Moves

\* While an actor is destroyed that nobody else was in, the calls in it are its
\* own tasks'; when those and the deliveries are waited for, there is none.
QuietInv ==
  stage \in Late /\ ~late =>
    /\ \A t \in Threads : Settled(stack[t])
    /\ stage \in {"ports", "gone"} => Unfinished(victim, "process") = {}
    /\ stage = "gone" => Unfinished(victim, "delivery") = {}

\* A task that goes on is the task it was.
LEMMA BottomKept ==
  ASSUME NEW t \in Tasks, NEW s, s # <<>>, Fine(links, t, s), NEW r, Moves(t, s, r), r # <<>>
  PROVE  r[1] = s[1]
<1>1. s \in Seq(Frames) /\ Len(s) \in Nat \ {0} /\ 1 \in 1..Len(s)
  BY EmptySeq DEF Fine
<1>2. ASSUME NEW q \in Seq(Frames), Below(q) # <<>>
      PROVE  Below(q) \in Seq(Frames) /\ q # <<>> /\ Below(q)[1] = q[1]
  <2>1. PICK m \in 0..Len(q) : Below(q) = SubSeq(q, 1, m)
    BY BelowIsPrefix
  <2>2. /\ SubSeq(q, 1, m) \in Seq(Frames) /\ Len(SubSeq(q, 1, m)) = m
        /\ \A i \in 1..m : SubSeq(q, 1, m)[i] = q[i]
    BY <2>1, PrefixFacts
  <2>3. m # 0 /\ Len(q) \in Nat
    <3>1. SubSeq(q, 1, 0) = <<>>
      BY SubSeqEmpty
    <3> QED BY <1>2, <2>1, <3>1, LenProperties
  <2>4. 1 \in 1..m /\ Len(q) # 0
    BY <2>3
  <2> QED BY <2>1, <2>2, <2>4, EmptySeq
<1>3. CASE r \in {s, <<>>, Below(s), Below(Below(s))}
  <2>1. CASE r = Below(s)
    BY <1>1, <1>2, <2>1
  <2>2. CASE r = Below(Below(s))
    <3>1. Below(s) \in Seq(Frames)
      BY <1>1, BelowIsPrefix, PrefixFacts
    <3>2. Below(s) # <<>> /\ r[1] = Below(s)[1]
      BY <1>2, <2>2, <3>1
    <3> QED BY <1>1, <1>2, <3>2
  <2> QED BY <1>3, <2>1, <2>2
<1>4. ASSUME NEW f \in Frames, Swaps(links, s, f)
      PROVE  /\ SwappedTop(s, f)[1] = s[1]
             /\ SwappedTop(s, f) \in Seq(Frames) /\ Len(SwappedTop(s, f)) = Len(s)
  <2>1. s[1].at \in {"delivery", "process"}
    BY <1>1, ThreadFacts DEF Fine
  <2>2. Len(s) # 1
    BY <1>4, <2>1 DEF Swaps, Top
  <2>3. Len(s) \in 1..Len(s)
    BY <1>1
  <2> QED BY <1>1, <1>4, <2>2, <2>3, ExceptSeq DEF SwappedTop
<1>5. ASSUME NEW f \in Frames, Swaps(links, s, f),
             \/ r = SwappedTop(s, f)
             \/ \E g \in Frames : r = Append(SwappedTop(s, f), g)
      PROVE  r[1] = s[1]
  <2>1. /\ SwappedTop(s, f)[1] = s[1]
        /\ SwappedTop(s, f) \in Seq(Frames) /\ Len(SwappedTop(s, f)) = Len(s)
    BY <1>4, <1>5
  <2>2. \A g \in Frames : Append(SwappedTop(s, f), g)[1] = SwappedTop(s, f)[1]
    BY <1>1, <2>1, AppendProperties
  <2> QED BY <1>5, <2>1, <2>2
<1>6. ASSUME NEW f \in Frames, r = Append(s, f) PROVE r[1] = s[1]
  BY <1>1, <1>6, AppendProperties
<1> QED BY <1>3, <1>5, <1>6 DEF Moves

\* The steps that start a task.
LEMMA NewTask ==
  ASSUME StackInv, Next, NEW k \in Tasks, stack[k] = <<>>, stack'[k] # <<>>
  PROVE  \E t \in Threads :
           \/ At(t, "input") /\ stack'[k] = <<Call("process", Here(t), {})>>
           \/ At(t, "loop") /\ stack'[k][1] = Call("delivery", Here(t), {})
<1>0. k \in Threads /\ k \notin Sources /\ stack \in [Threads -> Seq(Frames)]
  BY ThreadFacts DEF StackInv
<1>1. ASSUME NEW t \in Threads, NEW r, stack' = [stack EXCEPT ![t] = r] PROVE t = k
  BY <1>0, <1>1
<1>2. ASSUME NEW t \in Sources, NEW a \in Actors, Send(t, a) PROVE FALSE
  BY <1>0, <1>1, <1>2, ThreadFacts DEF Send, Stacked
<1>3. ASSUME Deactivate \/ Remove \/ Removal PROVE FALSE
  BY <1>3 DEF Deactivate, Remove, Removal, DisconnectAll, Destroy, WaitForTasksLock, WaitForTasks,
         DestroyPorts
<1>4. ASSUME NEW t \in Threads, Continue(t) \/ Forward(t) \/ Ask(t) \/ Undefined(t)
      PROVE  stack[t] # <<>>
  BY <1>4 DEF Continue, Forward, Ask, Undefined, Sanitize, BeginLoop, Deliver, EndLoop,
         Receive, StartProcess, EnterProcess, Return, Throw, Answer, At
<1>5. ASSUME NEW t \in Threads, Continue(t) \/ Forward(t) \/ Ask(t) \/ Undefined(t)
      PROVE  \/ At(t, "input") /\ stack'[k] = <<Call("process", Here(t), {})>>
             \/ At(t, "loop") /\ stack'[k][1] = Call("delivery", Here(t), {})
  <2>0. t # k
    BY <1>4, <1>5
  <2>1. CASE StartProcess(t)
    <3>1. PICK j \in Tasks :
            stack' = [stack EXCEPT ![t] = Below(stack[t]), ![j] = <<Call("process", Here(t), {})>>]
      BY <2>1 DEF StartProcess
    <3>2. j = k
      BY <1>0, <2>0, <3>1
    <3> QED BY <1>0, <2>0, <2>1, <3>1, <3>2 DEF StartProcess
  <2>2. CASE Deliver(t)
    <3>1. \E b, x :
            \/ Stacked(t, Append(x, Call("receive", b, {})))
            \/ \E j \in Tasks :
                 stack' = [stack EXCEPT ![t] = x,
                                         ![j] = <<Call("delivery", Here(t), {}), Call("receive", b, {})>>]
      BY <2>2 DEF Deliver
    <3>2. PICK j \in Tasks : \E b, x :
                 stack' = [stack EXCEPT ![t] = x,
                                         ![j] = <<Call("delivery", Here(t), {}), Call("receive", b, {})>>]
      BY <1>1, <2>0, <3>1 DEF Stacked
    <3>3. j = k
      BY <1>0, <2>0, <3>2
    <3> QED BY <1>0, <2>0, <2>2, <3>2, <3>3 DEF Deliver
  <2>3. CASE ~(Deliver(t) \/ StartProcess(t))
    <3>1. \/ Forward(t) \/ Ask(t) \/ Undefined(t) \/ Sanitize(t) \/ BeginLoop(t)
          \/ EndLoop(t) \/ Receive(t) \/ EnterProcess(t) \/ Return(t) \/ Throw(t) \/ Answer(t)
      BY <1>5, <2>3 DEF Continue
    <3> QED BY <1>1, <2>0, <3>1, ThreadMoves
  <2> QED BY <2>1, <2>2, <2>3
<1> QED BY <1>2, <1>3, <1>5 DEF Next

\* A call in the removed actor that no task of its own was begun with: there is
\* none at a place from which a task is started.
LEMMA NoMoreTasks ==
  ASSUME StackInv, CutInv, QuietInv, stage \in Late, ~late, NEW t \in Threads,
         stack[t] # <<>>, Top(stack[t]).actor = victim
  PROVE  /\ Top(stack[t]).at # "input"
         /\ Top(stack[t]).at = "loop" => t \in Unfinished(victim, "process")
<1> DEFINE s == stack[t]
<1>1. /\ s \in Seq(Frames) /\ Fine(links, t, s) /\ Settled(s)
      /\ Len(s) \in 1..Len(s) /\ 1 \in 1..Len(s) /\ s[Len(s)] = Top(s)
  BY EmptySeq DEF StackInv, QuietInv, Top
<1>2. \/ s[1].at = "process" /\ s[1].actor = victim
      \/ Len(s) = 1 /\ s[1].at = "delivery"
  BY <1>1 DEF Settled
<1>3. Top(s).at # "input"
  <2> SUFFICES ASSUME Top(s).at = "input" PROVE FALSE
    OBVIOUS
  <2>1. Len(s) = 2 /\ s[1].at = "delivery"
    BY <1>1, ReachedByTasks
  <2> QED BY <1>2, <2>1
<1>4. ASSUME Top(s).at = "loop" PROVE t \in Unfinished(victim, "process")
  <2>1. s[1].at = "process" /\ s[1].actor = victim
    BY <1>1, <1>2, <1>4
  <2>2. t \notin Sources
    BY <1>1, <2>1 DEF Fine, Bottoms
  <2> QED BY <2>1, <2>2, ThreadFacts DEF Unfinished
<1> QED BY <1>3, <1>4

\* A task of the actor, or of a delivery of its, that is new or goes on.
LEMMA TasksStay ==
  ASSUME StackInv, CutInv, QuietInv, stage \in Late, ~late, Next, victim' = victim,
         Unfinished(victim, "process") = {}
  PROVE  /\ Unfinished(victim, "process")' = {}
         /\ Unfinished(victim, "delivery") = {} => Unfinished(victim, "delivery")' = {}
<1>1. ASSUME NEW kind \in {"process", "delivery"}, NEW k \in Unfinished(victim, kind)'
      PROVE  k \in Unfinished(victim, kind)
  <2>1. /\ k \in Tasks /\ k \in Threads
        /\ stack'[k] # <<>> /\ stack'[k][1].at = kind /\ stack'[k][1].actor = victim
    BY <1>1, ThreadFacts DEF Unfinished
  <2>2. CASE stack[k] # <<>>
    <3>1. Moves(k, stack[k], stack'[k]) /\ Fine(links, k, stack[k])
      BY <2>1, StacksMove DEF StackInv
    <3>2. stack'[k][1] = stack[k][1]
      BY <2>1, <2>2, <3>1, BottomKept
    <3> QED BY <2>1, <2>2, <3>2 DEF Unfinished
  <2>3. CASE stack[k] = <<>>
    <3>1. PICK t \in Threads :
            \/ At(t, "input") /\ stack'[k] = <<Call("process", Here(t), {})>>
            \/ At(t, "loop") /\ stack'[k][1] = Call("delivery", Here(t), {})
      BY <2>1, <2>3, NewTask
    <3>2. stack[t] # <<>> /\ Here(t) = Top(stack[t]).actor
      BY <3>1 DEF At, Here
    <3>3. Here(t) = victim
      BY <2>1, <3>1 DEF Call
    <3> QED BY <3>1, <3>2, <3>3, NoMoreTasks DEF At
  <2> QED BY <2>2, <2>3
<1> QED BY <1>1

\* Destruction begins with a quiet actor, if no delivery is in it.
LEMMA DestroyQuiet ==
  ASSUME StackInv, Destroy, ~late', NEW t \in Threads PROVE Settled(stack[t])
<1> DEFINE s == stack[t]
<1>1. /\ s \in Seq(Frames) /\ Fine(links, t, s) /\ Len(s) \in Nat
      /\ DOMAIN s = 1..Len(s)
  BY LenProperties DEF StackInv
<1>2. Inside(victim, {"receive", "input", "process", "ask"}) \subseteq Unfinished(victim, "process")
  BY DEF Destroy
<1>3. InNotify(victim) \cap Sources = {}
  BY DEF Destroy
<1>4. ASSUME NEW i \in 1..Len(s), s[i].actor = victim
      PROVE  \/ s[1].at = "process" /\ s[1].actor = victim
             \/ i = 1 /\ s[1].at = "delivery"
  <2>0. s[i].at \in {"delivery", "sanitize", "lock", "loop", "receive", "input", "process", "ask"}
    BY <1>1, CallInActor DEF Frames
  <2>1. CASE s[i].at \in {"receive", "input", "process", "ask"}
    BY <1>1, <1>2, <1>4, <2>1 DEF Inside, Unfinished
  <2>2. CASE s[i].at = "delivery"
    <3>1. i > 1 => Rests(links, s[i - 1], s[i])
      BY <1>1 DEF Fine
    <3>2. ~(i > 1)
      BY <2>2, <3>1 DEF Rests
    <3>3. i = 1
      BY <1>1, <3>2
    <3> QED BY <2>2, <3>3
  <2>3. CASE s[i].at \in {"sanitize", "lock", "loop"} /\ i = 1
    <3>1. t \in Sources
      BY <1>1, <2>3, ThreadFacts DEF Fine
    <3> QED BY <1>1, <1>3, <1>4, <2>3, <3>1 DEF InNotify, Inside
  <2>4. CASE s[i].at \in {"sanitize", "lock", "loop"} /\ i # 1
    <3>1. i - 1 \in 1..Len(s) /\ i > 1
      BY <1>1, <2>4
    <3>2. Rests(links, s[i - 1], s[i])
      BY <1>1, <3>1 DEF Fine
    <3>3. s[i - 1].at = "process" /\ s[i - 1].actor = victim
      BY <1>4, <2>4, <3>2 DEF Rests
    <3> QED BY <1>1, <1>2, <3>1, <3>3 DEF Inside, Unfinished
  <2> QED BY <2>0, <2>1, <2>2, <2>3, <2>4
<1> QED BY <1>4 DEF Settled

LEMMA QuietStep == StackInv /\ CutInv /\ QuietInv /\ [Next]_vars => QuietInv'
<1> SUFFICES ASSUME StackInv, CutInv, QuietInv, [Next]_vars PROVE QuietInv'
  OBVIOUS
<1>1. CASE Remove \/ (\E a \in Actors : DisconnectAll(a))
  BY <1>1 DEF Remove, DisconnectAll, QuietInv, Late
<1>2. CASE Destroy
  <2>1. stage' = "wait" /\ stack' = stack /\ victim' = victim
    BY <1>2 DEF Destroy
  <2>2. ASSUME ~late' PROVE \A t \in Threads : Settled(stack[t])
    BY <1>2, <2>2, DestroyQuiet
  <2> QED BY <2>1, <2>2 DEF QuietInv, Settled
<1>3. CASE WaitForTasksLock
  BY <1>3 DEF WaitForTasksLock, QuietInv, Late, Settled, Unfinished
<1>4. CASE WaitForTasks
  BY <1>4 DEF WaitForTasks, QuietInv, Late, Settled, Unfinished
<1>5. CASE DestroyPorts
  BY <1>5 DEF DestroyPorts, QuietInv, Late, Settled, Unfinished
<1>6. CASE UNCHANGED vars
  BY <1>6 DEF vars, removal, QuietInv, Settled, Unfinished
<1>7. ASSUME Next, UNCHANGED <<victim, stage, late>> PROVE QuietInv'
  <2>1. CASE ~(stage \in Late /\ ~late)
    BY <1>7, <2>1 DEF QuietInv
  <2>2. CASE stage \in Late /\ ~late
    <3>1. \A t \in Threads : Settled(stack'[t])
      BY <1>7, <2>2, StacksMove, SettledMoved DEF StackInv, QuietInv
    <3>2. (\A t \in Threads : Settled(stack[t]))'
      BY <1>7, <3>1 DEF Settled
    <3>3. stage \in {"ports", "gone"} => Unfinished(victim, "process")' = {}
      BY <1>7, <2>2, TasksStay DEF QuietInv
    <3>4. stage = "gone" => Unfinished(victim, "delivery")' = {}
      BY <1>7, <2>2, TasksStay DEF QuietInv
    <3> QED BY <1>7, <3>2, <3>3, <3>4 DEF QuietInv, Unfinished
  <2> QED BY <2>1, <2>2
<1>8. Next => \/ Remove \/ (\E a \in Actors : DisconnectAll(a)) \/ Destroy
              \/ WaitForTasksLock \/ WaitForTasks \/ DestroyPorts
              \/ UNCHANGED <<victim, stage, late>>
  BY DEF Next, Deactivate, Removal, removal, Send, Continue, Forward, Ask, Undefined, Sanitize,
         BeginLoop, Deliver, EndLoop, Receive, StartProcess, EnterProcess, Return, Throw, Answer
<1> QED BY <1>1, <1>2, <1>3, <1>4, <1>5, <1>6, <1>7, <1>8

\* Who is in an actor that is gone would be one of the tasks waited for.
LEMMA NobodyInside == StackInv /\ QuietInv => GoneIsQuiet
<1> SUFFICES ASSUME StackInv, QuietInv, stage = "gone", ~late, NEW t \in Threads,
                    NEW i \in DOMAIN stack[t], stack[t][i].actor = victim
             PROVE  FALSE
  BY DEF GoneIsQuiet
<1>1. i \in 1..Len(stack[t]) /\ Fine(links, t, stack[t]) /\ stack[t] # <<>>
  BY LenProperties, EmptySeq DEF StackInv
<1>2. /\ Settled(stack[t]) /\ Unfinished(victim, "process") = {}
      /\ Unfinished(victim, "delivery") = {}
  BY DEF QuietInv, Late
<1>3. 1 \in 1..Len(stack[t])
  BY <1>1, LenProperties DEF StackInv
<1>4. \/ stack[t][1].at = "process" /\ stack[t][1].actor = victim
      \/ stack[t][1].at = "delivery" /\ stack[t][1].actor = victim
  BY <1>1, <1>2 DEF Settled
<1>5. t \in Tasks
  BY <1>1, <1>3, <1>4, ThreadFacts DEF Fine, Bottoms
<1> QED BY <1>1, <1>2, <1>4, <1>5 DEF Unfinished

\* Nobody is in an actor that is gone, if no delivery was in it when its
\* destruction began: the tasks of its own and of its port are waited for, and
\* nothing starts another.
THEOREM GoneIsLeft == Spec => []GoneIsQuiet
<1>1. Init => QuietInv
  BY DEF Init, QuietInv, Late
<1> QED BY <1>1, NobodyInside, StackInit, StackStep, CutInit, CutStep, QuietStep, PTL DEF Spec
-----------------------------------------------------------------------------
(* Who waits for whom *)

\* A set of numbers has a least one.
LEMMA LeastNumber ==
  ASSUME NEW S \in SUBSET Nat, S # {}
  PROVE  \E m \in S : \A k \in S : m <= k
<1>1. \E m \in S : \A k \in S : ~ (<<k, m>> \in OpToRel(<, Nat))
  BY NatLessThanWellFounded, WFMin
<1>2. PICK m \in S : \A k \in S : ~ (<<k, m>> \in OpToRel(<, Nat))
  BY <1>1
<1>3. \A k \in S : k \in Nat /\ m \in Nat /\ ~(k < m)
  BY <1>2 DEF OpToRel
<1> QED BY <1>3

\* A loop with a call on it is of a synchronous port, a Process() on another call
\* is a synchronous actor's, and a task's delivery is not alone.
Nested(s) ==
  \A i \in 1..Len(s) :
    /\ i < Len(s) /\ s[i].at = "loop" => s[i].actor \in syncPorts
    /\ i > 1 /\ s[i].at = "process" => s[i].actor \in syncActors
    /\ Len(s) = 1 => s[i].at # "delivery"

\* A Process() called in this thread is under way in actor a.
Runs(s, a) == \E i \in 2..Len(s) : s[i].at = "process" /\ s[i].actor = a

LEMMA NestedEmpty == Nested(<<>>) /\ \A a : ~Runs(<<>>, a)
<1>1. Len(<<>>) = 0
  BY EmptySeq
<1> QED BY <1>1 DEF Nested, Runs

\* A prefix of a stack, one call shorter or empty.
LEMMA BelowFacts ==
  ASSUME NEW s \in Seq(Frames), s # <<>>
  PROVE  /\ Below(s) \in Seq(Frames)
         /\ Len(s) = 2 /\ s[1].at = "delivery" => Below(s) = <<>>
         /\ ~(Len(s) = 2 /\ s[1].at = "delivery") => Len(Below(s)) = Len(s) - 1
         /\ \A i \in 1..Len(Below(s)) : i \in 1..(Len(s) - 1) /\ Below(s)[i] = s[i]
<1>1. Len(s) \in Nat \ {0}
  BY EmptySeq
<1>2. CASE Len(s) = 2 /\ s[1].at = "delivery"
  <2>1. Below(s) = <<>>
    BY <1>2 DEF Below
  <2>2. <<>> \in Seq(Frames) /\ Len(<<>>) = 0
    BY EmptySeq
  <2> QED BY <1>2, <2>1, <2>2
<1>3. CASE ~(Len(s) = 2 /\ s[1].at = "delivery")
  <2>1. Below(s) = SubSeq(s, 1, Len(s) - 1) /\ Len(s) - 1 \in 0..Len(s)
    BY <1>1, <1>3 DEF Below
  <2> QED BY <1>3, <2>1, PrefixFacts
<1> QED BY <1>2, <1>3

LEMMA NestedBelow ==
  ASSUME NEW s \in Seq(Frames), Nested(s) PROVE Nested(Below(s))
<1>1. CASE s = <<>>
  <2>1. PICK m \in 0..Len(s) : Below(s) = SubSeq(s, 1, m)
    BY BelowIsPrefix
  <2>2. m = 0
    BY <1>1, EmptySeq
  <2>3. Below(s) = <<>>
    BY <2>1, <2>2, SubSeqEmpty
  <2> QED BY <2>3, NestedEmpty
<1>2. CASE s # <<>>
  <2>1. Len(s) \in Nat \ {0} /\ Len(Below(s)) \in Nat
    BY <1>2, EmptySeq, BelowFacts, LenProperties
  <2>2. CASE Len(s) = 2 /\ s[1].at = "delivery"
    BY <1>2, <2>2, BelowFacts, NestedEmpty
  <2>3. CASE ~(Len(s) = 2 /\ s[1].at = "delivery")
    <3>1. /\ Len(Below(s)) = Len(s) - 1
          /\ \A i \in 1..Len(Below(s)) : i \in 1..Len(s) /\ i < Len(s) /\ Below(s)[i] = s[i]
      BY <1>2, <2>1, <2>3, BelowFacts
    <3>2. ASSUME Len(Below(s)) = 1, NEW i \in 1..Len(Below(s))
          PROVE  Below(s)[i].at # "delivery"
      <4>1. Len(s) = 2
        <5> DEFINE n == Len(s)
        <5>1. n \in Nat /\ 1 = n - 1
          BY <2>1, <3>1, <3>2
        <5> HIDE DEF n
        <5>2. n = 2
          BY <5>1
        <5> QED BY <5>2 DEF n
      <4>2. i = 1
        BY <3>2
      <4> QED BY <2>3, <3>1, <4>1, <4>2
    <3> QED BY <2>1, <3>1, <3>2 DEF Nested
  <2> QED BY <2>2, <2>3
<1> QED BY <1>1, <1>2

LEMMA SwappedFacts ==
  ASSUME NEW s \in Seq(Frames), s # <<>>, NEW f \in Frames
  PROVE  /\ SwappedTop(s, f) \in Seq(Frames) /\ Len(SwappedTop(s, f)) = Len(s)
         /\ Len(s) \in Nat \ {0} /\ Top(s) = s[Len(s)]
         /\ \A i \in 1..Len(s) : SwappedTop(s, f)[i] = IF i = Len(s) THEN f ELSE s[i]
         /\ SwappedTop(s, f) # <<>> /\ Top(SwappedTop(s, f)) = f
<1>1. Len(s) \in Nat \ {0}
  BY EmptySeq
<1>2. /\ SwappedTop(s, f) \in Seq(Frames) /\ Len(SwappedTop(s, f)) = Len(s)
      /\ \A j \in 1..Len(s) : SwappedTop(s, f)[j] = IF j = Len(s) THEN f ELSE s[j]
  BY <1>1, ExceptSeq DEF SwappedTop
<1>3. SwappedTop(s, f) # <<>> /\ Top(SwappedTop(s, f)) = f
  BY <1>1, <1>2, EmptySeq DEF Top
<1> QED BY <1>1, <1>2, <1>3 DEF Top

LEMMA NestedSwapped ==
  ASSUME NEW s \in Seq(Frames), s # <<>>, Nested(s), NEW f \in Frames, f.at # "delivery",
         f.at = "process" => f.actor \in syncActors
  PROVE  Nested(SwappedTop(s, f))
<1> DEFINE r == SwappedTop(s, f)
<1>1. /\ Len(r) = Len(s) /\ Len(s) \in Nat \ {0}
      /\ \A i \in 1..Len(s) : r[i] = IF i = Len(s) THEN f ELSE s[i]
  BY SwappedFacts
<1> HIDE DEF r
<1>2. ASSUME NEW i \in 1..Len(r)
      PROVE  /\ i < Len(r) /\ r[i].at = "loop" => r[i].actor \in syncPorts
             /\ i > 1 /\ r[i].at = "process" => r[i].actor \in syncActors
             /\ Len(r) = 1 => r[i].at # "delivery"
  <2>1. CASE i = Len(s)
    BY <1>1, <2>1
  <2>2. CASE i # Len(s)
    BY <1>1, <2>2 DEF Nested
  <2> QED BY <2>1, <2>2
<1> QED BY <1>2 DEF Nested, r

LEMMA MadeFacts ==
  ASSUME NEW s \in Seq(Frames), NEW f \in Frames
  PROVE  /\ Append(s, f) \in Seq(Frames) /\ Len(Append(s, f)) = Len(s) + 1
         /\ Len(s) \in Nat /\ Append(s, f)[Len(s) + 1] = f
         /\ \A i \in 1..Len(s) : Append(s, f)[i] = s[i]
BY AppendProperties, LenProperties

LEMMA NestedMade ==
  ASSUME NEW s \in Seq(Frames), s # <<>>, Nested(s), NEW f \in Frames,
         Top(s).at = "loop" => Top(s).actor \in syncPorts, f.at # "process"
  PROVE  Nested(Append(s, f))
<1>1. Len(s) \in Nat \ {0} /\ Top(s) = s[Len(s)]
  BY EmptySeq DEF Top
<1> DEFINE r == Append(s, f)
<1>2. /\ Len(r) = Len(s) + 1 /\ r[Len(s) + 1] = f
      /\ \A i \in 1..Len(s) : r[i] = s[i]
  BY MadeFacts
<1> HIDE DEF r
<1>3. ASSUME NEW i \in 1..Len(r)
      PROVE  /\ i < Len(r) /\ r[i].at = "loop" => r[i].actor \in syncPorts
             /\ i > 1 /\ r[i].at = "process" => r[i].actor \in syncActors
             /\ Len(r) # 1
  <2>1. CASE i \in 1..Len(s)
    BY <1>1, <1>2, <2>1 DEF Nested
  <2>2. CASE i = Len(s) + 1
    BY <1>1, <1>2, <2>2
  <2> QED BY <1>1, <1>2, <2>1, <2>2
<1> QED BY <1>3 DEF Nested, r

LEMMA NestedStarted ==
  ASSUME NEW f \in Frames
  PROVE  /\ f.at # "delivery" => Nested(<<f>>)
         /\ \A g \in Frames : f.at = "delivery" /\ g.at = "receive" => Nested(<<f, g>>)
<1>1. Len(<<f>>) = 1 /\ <<f>>[1] = f
  OBVIOUS
<1>2. ASSUME NEW g \in Frames, g.at = "receive", f.at = "delivery" PROVE Nested(<<f, g>>)
  <2>1. Len(<<f, g>>) = 2 /\ <<f, g>>[1] = f /\ <<f, g>>[2] = g
    OBVIOUS
  <2>2. \A i \in 1..2 : i = 1 \/ i = 2
    OBVIOUS
  <2> QED BY <1>2, <2>1, <2>2 DEF Nested
<1> QED BY <1>1, <1>2 DEF Nested
\* What stays of the Process() calls of a thread when its stack changes.
LEMMA RunsKept ==
  ASSUME NEW l, NEW t, NEW s, Fine(l, t, s), s # <<>>, NEW a, Runs(s, a)
  PROVE  /\ \A f \in Frames : Runs(Append(s, f), a)
         /\ \A f \in Frames : Top(s).at # "process" => Runs(SwappedTop(s, f), a)
         /\ ~(Top(s).at = "process" /\ Top(s).actor = a) => Runs(Below(s), a)
<1>1. s \in Seq(Frames) /\ Len(s) \in Nat \ {0} /\ Top(s) = s[Len(s)]
  BY EmptySeq DEF Fine, Top
<1>2. PICK i \in 2..Len(s) : s[i].at = "process" /\ s[i].actor = a
  BY DEF Runs
<1>3. ASSUME NEW f \in Frames PROVE Runs(Append(s, f), a)
  <2>1. Len(Append(s, f)) = Len(s) + 1 /\ Append(s, f)[i] = s[i]
    BY <1>1, <1>2, MadeFacts
  <2>2. i \in 2..(Len(s) + 1)
    BY <1>1, <1>2
  <2> QED BY <1>2, <2>1, <2>2 DEF Runs
<1>4. ASSUME NEW f \in Frames, Top(s).at # "process" PROVE Runs(SwappedTop(s, f), a)
  <2>1. i # Len(s) /\ i \in 1..Len(s)
    BY <1>1, <1>2, <1>4
  <2>2. Len(SwappedTop(s, f)) = Len(s) /\ SwappedTop(s, f)[i] = s[i]
    BY <1>1, <2>1, SwappedFacts
  <2> QED BY <1>2, <2>2 DEF Runs
<1>5. ASSUME ~(Top(s).at = "process" /\ Top(s).actor = a) PROVE Runs(Below(s), a)
  <2>1. i # Len(s)
    BY <1>1, <1>2, <1>5
  <2>2. Len(s) # 2
    BY <1>1, <1>2, <2>1
  <2>3. i \in 1..(Len(s) - 1) /\ Len(Below(s)) = Len(s) - 1
    BY <1>1, <1>2, <2>1, <2>2, BelowFacts
  <2>4. i \in 2..Len(Below(s)) /\ i \in 1..Len(Below(s))
    BY <1>1, <1>2, <2>3
  <2>5. Below(s)[i] = s[i]
    BY <1>1, <2>4, BelowFacts
  <2> QED BY <1>2, <2>4, <2>5 DEF Runs
<1> QED BY <1>3, <1>4, <1>5

\* A Process() that throws takes the loop that called it along, and no other
\* Process().
LEMMA RunsThrown ==
  ASSUME NEW l, NEW t, NEW s, Fine(l, t, s), s # <<>>, Top(s).at = "process",
         NEW a, Runs(s, a), Top(s).actor # a
  PROVE  Runs(Below(Below(s)), a)
<1>1. s \in Seq(Frames) /\ Len(s) \in Nat \ {0} /\ Top(s) = s[Len(s)]
  BY EmptySeq DEF Fine, Top
<1> DEFINE b == Below(s)
<1>2. Runs(b, a) /\ Fine(l, t, b)
  BY RunsKept, FineBelow
<1>3. b # <<>>
  BY <1>2, NestedEmpty
<1>4. /\ Len(b) \in Nat \ {0} /\ Top(b) = b[Len(b)] /\ Len(b) = Len(s) - 1
      /\ Top(b) = s[Len(s) - 1]
  <2>1. Len(b) \in Nat \ {0} /\ Top(b) = b[Len(b)]
    BY <1>3, <1>1, BelowFacts, EmptySeq DEF Top
  <2>2. Len(b) = Len(s) - 1
    BY <1>1, <1>3, BelowFacts
  <2>3. Len(b) \in 1..Len(b)
    BY <2>1
  <2>4. b[Len(b)] = s[Len(b)]
    BY <1>1, <2>3, BelowFacts
  <2> QED BY <2>1, <2>2, <2>4
<1>5. Rests(l, s[Len(s) - 1], s[Len(s)])
  <2>1. Len(s) \in 1..Len(s) /\ Len(s) > 1
    BY <1>1, <1>4
  <2> QED BY <2>1 DEF Fine
<1>6. Top(b).at # "process"
  BY <1>1, <1>4, <1>5 DEF Rests
<1> QED BY <1>2, <1>3, <1>6, RunsKept

\* Every stack is nested.
NestInv == \A t \in Threads : Nested(stack[t])

\* One stack changes, and perhaps that of a task which begins.
LEMMA NestOne ==
  ASSUME StackInv, NestInv, UNCHANGED modes, NEW t \in Threads, NEW r, Nested(r),
         \/ stack' = [stack EXCEPT ![t] = r]
         \/ \E k \in Tasks : \E n : Nested(n) /\ stack' = [stack EXCEPT ![t] = r, ![k] = n]
  PROVE  NestInv'
<1>1. \A u \in Threads : Nested(stack'[u])
  BY ThreadFacts DEF StackInv, NestInv
<1>2. syncPorts' = syncPorts /\ syncActors' = syncActors
  BY DEF modes
<1> QED BY <1>1, <1>2 DEF NestInv, Nested

LEMMA NestStep == StackInv /\ NestInv /\ [Next]_vars => NestInv'
<1> SUFFICES ASSUME StackInv, NestInv, [Next]_vars PROVE NestInv'
  OBVIOUS
<1>0. /\ Sources \subseteq Threads /\ Tasks \subseteq Threads
      /\ \A t \in Threads : stack[t] \in Seq(Frames) /\ Nested(stack[t])
  BY ThreadFacts DEF StackInv, NestInv
<1>1. ASSUME UNCHANGED <<stack, modes>> PROVE NestInv'
  BY <1>1 DEF NestInv, Nested, modes
<1>2. ASSUME NEW t \in Sources, NEW a \in Actors, Send(t, a) PROVE NestInv'
  <2>1. /\ Call("sanitize", a, {}) \in Frames /\ Call("sanitize", a, {}).at = "sanitize"
    BY FrameFacts
  <2>2. Nested(<<Call("sanitize", a, {})>>)
    BY <2>1, NestedStarted
  <2> QED BY <1>0, <1>2, <2>2, NestOne DEF Send, Stacked
<1>3. ASSUME NEW t \in Threads, stack[t] # <<>>
      PROVE  /\ Here(t) \in Actors /\ Here(t) = Top(stack[t]).actor
             /\ \A at \in {"sanitize", "ask"} :
                  /\ Call(at, Here(t), {}) \in Frames /\ Call(at, Here(t), {}).at = at
             /\ \A at \in {"lock", "input", "process", "delivery"} :
                  /\ Call(at, Here(t), {}) \in Frames /\ Call(at, Here(t), {}).at = at
                  /\ Call(at, Here(t), {}).actor = Here(t)
             /\ \A todo \in SUBSET Actors :
                  /\ Call("loop", Here(t), todo) \in Frames
                  /\ Call("loop", Here(t), todo).at = "loop"
                  /\ Call("loop", Here(t), todo).actor = Here(t)
             /\ \A b \in Actors : Call("receive", b, {}) \in Frames
                                  /\ Call("receive", b, {}).at = "receive"
  <2>1. Top(stack[t]) \in Frames
    BY <1>0, <1>3, FrameFacts
  <2>2. Here(t) \in Actors /\ Here(t) = Top(stack[t]).actor
    BY <2>1 DEF Here, Frames
  <2> QED BY <2>2, FrameFacts
<1>4. ASSUME NEW t \in Threads, Forward(t) \/ Ask(t) PROVE NestInv'
  <2>1. stack[t] # <<>> /\ Top(stack[t]).at = "process"
    BY <1>4 DEF Forward, Ask, At
  <2>2. PICK at \in {"sanitize", "ask"} : Stacked(t, Append(stack[t], Call(at, Here(t), {})))
    BY <1>4 DEF Forward, Ask
  <2>3. Nested(Append(stack[t], Call(at, Here(t), {})))
    BY <1>0, <1>3, <2>1, NestedMade
  <2> QED BY <1>4, <2>2, <2>3, NestOne DEF Forward, Ask, Stacked
<1>5. ASSUME NEW t \in Threads, Sanitize(t) PROVE NestInv'
  <2>1. stack[t] # <<>> /\ Stacked(t, SwappedTop(stack[t], Call("lock", Here(t), {})))
    BY <1>5 DEF Sanitize, At, Replaced, SwappedTop
  <2>2. Nested(SwappedTop(stack[t], Call("lock", Here(t), {})))
    BY <1>0, <1>3, <2>1, NestedSwapped
  <2> QED BY <1>5, <2>1, <2>2, NestOne DEF Sanitize, Stacked
<1>6. ASSUME NEW t \in Threads, BeginLoop(t) PROVE NestInv'
  <2>1. /\ stack[t] # <<>> /\ Receivers(Here(t)) \in SUBSET Actors
        /\ Stacked(t, SwappedTop(stack[t], Call("loop", Here(t), Receivers(Here(t)))))
    BY <1>6 DEF BeginLoop, At, Replaced, SwappedTop, Receivers
  <2>2. Nested(SwappedTop(stack[t], Call("loop", Here(t), Receivers(Here(t)))))
    BY <1>0, <1>3, <2>1, NestedSwapped
  <2> QED BY <1>6, <2>1, <2>2, NestOne DEF BeginLoop, Stacked
<1>7. ASSUME NEW t \in Threads, Receive(t) PROVE NestInv'
  <2>1. /\ stack[t] # <<>>
        /\ \/ Stacked(t, SwappedTop(stack[t], Call("input", Here(t), {})))
           \/ Stacked(t, Below(stack[t]))
    BY <1>7 DEF Receive, At, Replaced, SwappedTop
  <2>2. Nested(SwappedTop(stack[t], Call("input", Here(t), {}))) /\ Nested(Below(stack[t]))
    BY <1>0, <1>3, <2>1, NestedSwapped, NestedBelow
  <2> QED BY <1>7, <2>1, <2>2, NestOne DEF Receive, Stacked
<1>8. ASSUME NEW t \in Threads, EnterProcess(t) PROVE NestInv'
  <2>1. /\ stack[t] # <<>> /\ Here(t) \in syncActors
        /\ Stacked(t, SwappedTop(stack[t], Call("process", Here(t), {})))
    BY <1>8 DEF EnterProcess, At, Replaced, SwappedTop
  <2>2. Nested(SwappedTop(stack[t], Call("process", Here(t), {})))
    BY <1>0, <1>3, <2>1, NestedSwapped
  <2> QED BY <1>8, <2>1, <2>2, NestOne DEF EnterProcess, Stacked
<1>9. ASSUME NEW t \in Threads, EndLoop(t) \/ Return(t) \/ Throw(t) \/ Answer(t) \/ Undefined(t)
      PROVE  NestInv'
  <2>1. \E r \in {<<>>, Below(stack[t]), Below(Below(stack[t]))} : Stacked(t, r)
    BY <1>9 DEF EndLoop, Return, Throw, Answer, Undefined
  <2>2. stack[t] # <<>>
    BY <1>9 DEF EndLoop, Return, Throw, Answer, Undefined, At
  <2>3. Below(stack[t]) \in Seq(Frames)
    BY <1>0, <2>2, BelowFacts
  <2>4. \A r \in {<<>>, Below(stack[t]), Below(Below(stack[t]))} : Nested(r)
    BY <1>0, <2>3, NestedBelow, NestedEmpty
  <2>5. UNCHANGED modes
    BY <1>9 DEF EndLoop, Return, Throw, Answer, Undefined
  <2> QED BY <2>1, <2>4, <2>5, NestOne DEF Stacked
<1>10. ASSUME NEW t \in Threads, Deliver(t) PROVE NestInv'
  <2> DEFINE s == stack[t]
  <2>1. s \in Seq(Frames) /\ s # <<>> /\ Nested(s) /\ Top(s) \in Frames /\ UNCHANGED modes
    BY <1>0, <1>10, FrameFacts DEF Deliver, At
  <2>2. Top(s).todo \in SUBSET Actors
    BY <2>1 DEF Frames
  <2>3. PICK b \in Top(s).todo :
          LET rest == SwappedTop(s, Call("loop", Here(t), Top(s).todo \ {b}))
              call == Call("receive", b, {})
          IN \/ Here(t) \in syncPorts /\ Stacked(t, Append(rest, call))
             \/ \E k \in Tasks :
                  stack' = [stack EXCEPT ![t] = rest, ![k] = <<Call("delivery", Here(t), {}), call>>]
    BY <1>10 DEF Deliver, Replaced, SwappedTop
  <2> DEFINE f == Call("loop", Here(t), Top(s).todo \ {b})
             g == Call("receive", b, {})
             d == Call("delivery", Here(t), {})
  <2>4. /\ f \in Frames /\ f.at = "loop" /\ f.actor = Here(t)
        /\ g \in Frames /\ g.at = "receive" /\ d \in Frames /\ d.at = "delivery"
    BY <1>3, <2>1, <2>2
  <2>5. \/ Here(t) \in syncPorts /\ Stacked(t, Append(SwappedTop(s, f), g))
        \/ \E k \in Tasks : stack' = [stack EXCEPT ![t] = SwappedTop(s, f), ![k] = <<d, g>>]
    BY <2>3
  <2> HIDE DEF f, g, d
  <2>6. /\ Nested(SwappedTop(s, f)) /\ Nested(<<d, g>>)
        /\ SwappedTop(s, f) \in Seq(Frames) /\ SwappedTop(s, f) # <<>>
        /\ Top(SwappedTop(s, f)) = f
    BY <2>1, <2>4, NestedSwapped, NestedStarted, SwappedFacts
  <2>7. Here(t) \in syncPorts => Nested(Append(SwappedTop(s, f), g))
    BY <2>4, <2>6, NestedMade
  <2> QED BY <2>1, <2>5, <2>6, <2>7, NestOne DEF Stacked
<1>11. ASSUME NEW t \in Threads, StartProcess(t) PROVE NestInv'
  <2>1. /\ stack[t] # <<>> /\ UNCHANGED modes
        /\ \E k \in Tasks :
             stack' = [stack EXCEPT ![t] = Below(stack[t]), ![k] = <<Call("process", Here(t), {})>>]
    BY <1>11 DEF StartProcess, At
  <2>2. Nested(Below(stack[t])) /\ Nested(<<Call("process", Here(t), {})>>)
    BY <1>0, <1>3, <2>1, NestedBelow, NestedStarted
  <2> QED BY <2>1, <2>2, NestOne
<1>12. Deactivate \/ Remove \/ Removal => UNCHANGED <<stack, modes>>
  BY DEF Deactivate, Remove, Removal, DisconnectAll, Destroy, WaitForTasksLock, WaitForTasks,
         DestroyPorts
<1>13. UNCHANGED vars => UNCHANGED <<stack, modes>>
  BY DEF vars
<1> QED BY <1>1, <1>2, <1>4, <1>5, <1>6, <1>7, <1>8, <1>9, <1>10, <1>11, <1>12, <1>13
        DEF Next, Continue

LEMMA NestInit == Init => NestInv
BY NestedEmpty DEF Init, NestInv
\* The holder of onInputTask is in the Process() it was taken for, or the
\* destructor has it; but for what a call in an actor that is gone leaves behind.
LockInv ==
  ~(stage = "gone" /\ late) =>
    \A a \in Actors :
      \/ lock[a] = Free
      \/ lock[a] = Owner /\ a = victim /\ stage = "drain"
      \/ lock[a] \in Threads /\ a \in syncActors /\ Runs(stack[lock[a]], a)

\* A step of thread t that takes and gives back no lock.
LEMMA LockSame ==
  ASSUME StackInv, LockInv, NEW t \in Threads, NEW r,
         stack' = [stack EXCEPT ![t] = r]
           \/ \E k \in Tasks : \E n : stack[k] = <<>> /\ stack' = [stack EXCEPT ![t] = r, ![k] = n],
         \A a \in Actors : lock[a] = t /\ Runs(stack[t], a) => Runs(r, a),
         UNCHANGED <<lock, modes, removal>>
  PROVE  LockInv'
<1> SUFFICES ASSUME ~(stage = "gone" /\ late), NEW a \in Actors, lock[a] \in Threads,
                    Runs(stack[lock[a]], a)
             PROVE  Runs(stack'[lock[a]], a)
  BY DEF LockInv, Runs, modes, removal
<1>1. stack[lock[a]] # <<>>
  BY NestedEmpty
<1>2. Tasks \subseteq Threads /\ stack \in [Threads -> Seq(Frames)]
  BY ThreadFacts DEF StackInv
<1>3. CASE lock[a] = t
  <2>1. stack'[t] = r
    BY <1>1, <1>2, <1>3
  <2> QED BY <1>3, <2>1
<1>4. CASE lock[a] # t
  <2>1. stack'[lock[a]] = stack[lock[a]]
    BY <1>1, <1>2, <1>4
  <2> QED BY <2>1
<1> QED BY <1>3, <1>4

\* A Process() returns or throws: its actor's lock is free, if it was held for it.
LEMMA LockGiven ==
  ASSUME StackInv, OtherTypes, LockInv, NEW t \in Threads, At(t, "process"),
         Return(t) \/ Throw(t)
  PROVE  LockInv'
<1> DEFINE s == stack[t]
<1>1. /\ s # <<>> /\ Fine(links, t, s) /\ Top(s).at = "process" /\ Here(t) = Top(s).actor
      /\ Top(s) \in Frames /\ s \in Seq(Frames) /\ lock \in [Actors -> Threads \cup {Owner, Free}]
  BY FrameFacts DEF At, Here, StackInv, OtherTypes
<1>2. Here(t) \in Actors
  BY <1>1 DEF Frames
<1>3. PICK r \in {Below(s), Below(Below(s))} : stack' = [stack EXCEPT ![t] = r]
  BY DEF Return, Throw, Stacked
<1>4. /\ \A a \in Actors : a # Here(t) => lock'[a] = lock[a]
      /\ lock[Here(t)] = t => lock'[Here(t)] = Free
      /\ lock[Here(t)] # t => lock'[Here(t)] = lock[Here(t)]
      /\ UNCHANGED <<modes, removal>>
  BY <1>1, <1>2 DEF Return, Throw, Unlocked
<1>5. stack'[t] = r /\ \A u \in Threads : u # t => stack'[u] = stack[u]
  BY <1>3 DEF StackInv
<1>6. \A a \in Actors : a # Here(t) /\ Runs(s, a) => Runs(r, a)
  BY <1>1, <1>3, RunsKept, RunsThrown
<1>7. ASSUME ~(stage = "gone" /\ late), NEW a \in Actors
      PROVE  \/ lock'[a] = Free
             \/ lock'[a] = Owner /\ a = victim /\ stage = "drain"
             \/ lock'[a] \in Threads /\ a \in syncActors /\ Runs(stack'[lock'[a]], a)
  <2>1. \/ lock[a] = Free
        \/ lock[a] = Owner /\ a = victim /\ stage = "drain"
        \/ lock[a] \in Threads /\ a \in syncActors /\ Runs(stack[lock[a]], a)
    BY <1>7 DEF LockInv
  <2>2. CASE lock'[a] = Free
    BY <2>2
  <2>3. CASE lock'[a] # Free
    <3>1. lock'[a] = lock[a] /\ (lock[a] = t => a # Here(t))
      BY <1>4, <2>3
    <3>2. lock[a] \in Threads /\ Runs(stack[lock[a]], a) => Runs(stack'[lock[a]], a)
      BY <1>5, <1>6, <3>1
    <3> QED BY <2>1, <3>1, <3>2
  <2> QED BY <2>2, <2>3
<1> QED BY <1>4, <1>7 DEF LockInv, Runs, modes, removal

\* A Process() is entered with the lock in hand.
LEMMA LockTaken ==
  ASSUME StackInv, OtherTypes, LockInv, NEW t \in Threads, EnterProcess(t)
  PROVE  LockInv'
<1> DEFINE s == stack[t]
           f == Call("process", Here(t), {})
<1>1. /\ s # <<>> /\ Fine(links, t, s) /\ Top(s).at = "input" /\ Here(t) = Top(s).actor
      /\ Top(s) \in Frames /\ s \in Seq(Frames) /\ lock \in [Actors -> Threads \cup {Owner, Free}]
  BY FrameFacts DEF EnterProcess, At, Here, StackInv, OtherTypes
<1>2. Here(t) \in Actors /\ Here(t) \in syncActors
  BY <1>1 DEF EnterProcess, Frames
<1>3. f \in Frames /\ f.at = "process" /\ f.actor = Here(t)
  BY <1>2, FrameFacts
<1>4. /\ stack' = [stack EXCEPT ![t] = SwappedTop(s, f)]
      /\ lock' = [lock EXCEPT ![Here(t)] = t] /\ UNCHANGED <<modes, removal>>
  BY DEF EnterProcess, Stacked, Replaced, SwappedTop
<1> HIDE DEF f
<1>5. /\ stack'[t] = SwappedTop(s, f)
      /\ \A u \in Threads : u # t => stack'[u] = stack[u]
      /\ lock'[Here(t)] = t /\ \A a \in Actors : a # Here(t) => lock'[a] = lock[a]
  BY <1>1, <1>2, <1>4 DEF StackInv
<1>6. Runs(SwappedTop(s, f), Here(t))
  <2>1. Len(s) \in Nat \ {0} /\ Top(s) = s[Len(s)]
    BY <1>1, <1>3, SwappedFacts
  <2>2. Len(s) # 1
    <3> SUFFICES ASSUME Len(s) = 1 PROVE FALSE
      OBVIOUS
    <3>1. 1 \in 1..Len(s) /\ s[1].at = "input"
      BY <1>1, <2>1
    <3> QED BY <1>1, <3>1 DEF Fine, Bottoms
  <2>3. Len(SwappedTop(s, f)) = Len(s) /\ SwappedTop(s, f)[Len(s)] = f /\ Len(s) \in 2..Len(s)
    <3>1. \A n \in Nat \ {0} : n # 1 => n \in 2..n /\ n \in 1..n
      OBVIOUS
    <3>2. Len(s) \in 2..Len(s) /\ Len(s) \in 1..Len(s)
      BY <2>1, <2>2, <3>1
    <3> QED BY <1>1, <1>3, <3>2, SwappedFacts
  <2> QED BY <1>3, <2>3 DEF Runs
<1>7. \A a \in Actors : Runs(s, a) => Runs(SwappedTop(s, f), a)
  BY <1>1, <1>3, RunsKept
<1>8. ASSUME ~(stage = "gone" /\ late), NEW a \in Actors
      PROVE  \/ lock'[a] = Free
             \/ lock'[a] = Owner /\ a = victim /\ stage = "drain"
             \/ lock'[a] \in Threads /\ a \in syncActors /\ Runs(stack'[lock'[a]], a)
  <2>1. \/ lock[a] = Free
        \/ lock[a] = Owner /\ a = victim /\ stage = "drain"
        \/ lock[a] \in Threads /\ a \in syncActors /\ Runs(stack[lock[a]], a)
    BY <1>8 DEF LockInv
  <2>2. CASE a = Here(t)
    BY <1>2, <1>5, <1>6, <2>2
  <2>3. CASE a # Here(t)
    <3>1. lock'[a] = lock[a]
      BY <1>5, <2>3
    <3>2. lock[a] \in Threads /\ Runs(stack[lock[a]], a) => Runs(stack'[lock[a]], a)
      BY <1>5, <1>7
    <3> QED BY <2>1, <3>1, <3>2
  <2> QED BY <2>2, <2>3
<1> QED BY <1>4, <1>8 DEF LockInv, Runs, modes, removal

\* Nothing is undefined while nobody is in an actor that is gone.
LEMMA NobodyUndefined ==
  ASSUME StackInv, QuietInv, NEW t \in Threads, Undefined(t) PROVE late
<1>1. stack[t] # <<>> /\ Top(stack[t]).actor = victim /\ stage = "gone"
  BY DEF Undefined, Here
<1>2. /\ Len(stack[t]) \in 1..Len(stack[t]) /\ DOMAIN stack[t] = 1..Len(stack[t])
      /\ Top(stack[t]) = stack[t][Len(stack[t])]
  BY <1>1, EmptySeq, LenProperties DEF StackInv, Top
<1> QED BY <1>1, <1>2, NobodyInside DEF GoneIsQuiet

LEMMA LockStep ==
  StackInv /\ OtherTypes /\ QuietInv /\ LockInv /\ [Next]_vars => LockInv'
<1> SUFFICES ASSUME StackInv, OtherTypes, QuietInv, LockInv, [Next]_vars PROVE LockInv'
  OBVIOUS
<1>0. /\ Sources \subseteq Threads
      /\ \A t \in Threads : stack[t] \in Seq(Frames) /\ Fine(links, t, stack[t])
  BY ThreadFacts DEF StackInv
<1>1. CASE UNCHANGED vars
  BY <1>1 DEF vars, LockInv, Runs, modes, removal
<1>2. ASSUME NEW t \in Sources, NEW a \in Actors, Send(t, a) PROVE LockInv'
  <2>1. /\ stack[t] = <<>> /\ \E r : stack' = [stack EXCEPT ![t] = r]
        /\ UNCHANGED <<lock, modes, removal>>
    BY <1>2 DEF Send, Stacked
  <2>2. PICK r : stack' = [stack EXCEPT ![t] = r]
    BY <2>1
  <2>3. t \in Threads /\ \A b \in Actors : ~Runs(stack[t], b)
    BY <1>0, <2>1, NestedEmpty
  <2> QED BY <2>1, <2>2, <2>3, LockSame
<1>3. ASSUME NEW t \in Threads, stack[t] # <<>>
      PROVE  /\ \A at \in {"sanitize", "ask", "lock", "input"} : Call(at, Here(t), {}) \in Frames
             /\ \A todo \in SUBSET Actors : Call("loop", Here(t), todo) \in Frames
             /\ \A b \in Actors : Call("receive", b, {}) \in Frames
  <2>1. Top(stack[t]) \in Frames
    BY <1>0, <1>3, FrameFacts
  <2>2. Here(t) \in Actors
    BY <2>1 DEF Here, Frames
  <2> QED BY <2>2, FrameFacts
<1>4. ASSUME NEW t \in Threads, NEW f \in Frames, stack[t] # <<>>, Stacked(t, Append(stack[t], f)),
             UNCHANGED <<lock, modes, removal>>
      PROVE  LockInv'
  <2>1. \A a \in Actors : Runs(stack[t], a) => Runs(Append(stack[t], f), a)
    BY <1>0, <1>4, RunsKept
  <2> QED BY <1>4, <2>1, LockSame DEF Stacked
<1>5. ASSUME NEW t \in Threads, NEW f \in Frames, stack[t] # <<>>, Top(stack[t]).at # "process",
             Stacked(t, SwappedTop(stack[t], f)), UNCHANGED <<lock, modes, removal>>
      PROVE  LockInv'
  <2>1. \A a \in Actors : Runs(stack[t], a) => Runs(SwappedTop(stack[t], f), a)
    BY <1>0, <1>5, RunsKept
  <2> QED BY <1>5, <2>1, LockSame DEF Stacked
<1>6. ASSUME NEW t \in Threads, stack[t] # <<>>, Top(stack[t]).at # "process",
             Stacked(t, Below(stack[t])), UNCHANGED <<lock, modes, removal>>
      PROVE  LockInv'
  <2>1. \A a \in Actors : Runs(stack[t], a) => Runs(Below(stack[t]), a)
    BY <1>0, <1>6, RunsKept
  <2> QED BY <1>6, <2>1, LockSame DEF Stacked
<1>7. ASSUME NEW t \in Threads, Forward(t) \/ Ask(t) PROVE LockInv'
  BY <1>3, <1>4, <1>7 DEF Forward, Ask, At
<1>8. ASSUME NEW t \in Threads, Sanitize(t) PROVE LockInv'
  BY <1>3, <1>5, <1>8 DEF Sanitize, At, Replaced, SwappedTop
<1>9. ASSUME NEW t \in Threads, BeginLoop(t) PROVE LockInv'
  <2>1. Receivers(Here(t)) \in SUBSET Actors
    BY DEF Receivers
  <2> QED BY <1>3, <1>5, <1>9, <2>1 DEF BeginLoop, At, Replaced, SwappedTop
<1>10. ASSUME NEW t \in Threads, Receive(t) PROVE LockInv'
  <2>1. /\ stack[t] # <<>> /\ Top(stack[t]).at # "process" /\ UNCHANGED <<lock, modes, removal>>
        /\ \/ Stacked(t, SwappedTop(stack[t], Call("input", Here(t), {})))
           \/ Stacked(t, Below(stack[t]))
    BY <1>10 DEF Receive, At, Replaced, SwappedTop
  <2>2. Call("input", Here(t), {}) \in Frames
    BY <1>3, <2>1
  <2> QED BY <1>5, <1>6, <2>1, <2>2
<1>11. ASSUME NEW t \in Threads, EndLoop(t) \/ Answer(t) PROVE LockInv'
  BY <1>6, <1>11 DEF EndLoop, Answer, At
<1>12. ASSUME NEW t \in Threads, Return(t) \/ Throw(t) \/ EnterProcess(t) PROVE LockInv'
  BY <1>12, LockGiven, LockTaken DEF Return, Throw
<1>13. ASSUME NEW t \in Threads, StartProcess(t) PROVE LockInv'
  <2>1. /\ stack[t] # <<>> /\ Top(stack[t]).at # "process" /\ UNCHANGED <<lock, modes, removal>>
        /\ \E k \in Tasks : \E n :
             stack[k] = <<>> /\ stack' = [stack EXCEPT ![t] = Below(stack[t]), ![k] = n]
    BY <1>13 DEF StartProcess, At, IsFree
  <2>2. \A a \in Actors : Runs(stack[t], a) => Runs(Below(stack[t]), a)
    BY <1>0, <2>1, RunsKept
  <2> QED BY <2>1, <2>2, LockSame
<1>14. ASSUME NEW t \in Threads, Deliver(t) PROVE LockInv'
  <2> DEFINE s == stack[t]
  <2>1. /\ s \in Seq(Frames) /\ s # <<>> /\ Fine(links, t, s) /\ Top(s) \in Frames
        /\ Top(s).at = "loop" /\ UNCHANGED <<lock, modes, removal>>
    BY <1>0, <1>14, FrameFacts DEF Deliver, At
  <2>2. Top(s).todo \in SUBSET Actors
    BY <2>1 DEF Frames
  <2>3. PICK b \in Top(s).todo :
          LET rest == SwappedTop(s, Call("loop", Here(t), Top(s).todo \ {b}))
              call == Call("receive", b, {})
          IN \/ Stacked(t, Append(rest, call))
             \/ \E k \in Tasks : \E n : stack[k] = <<>> /\ stack' = [stack EXCEPT ![t] = rest, ![k] = n]
    BY <1>14 DEF Deliver, Replaced, SwappedTop, IsFree
  <2> DEFINE f == Call("loop", Here(t), Top(s).todo \ {b})
             g == Call("receive", b, {})
  <2>4. f \in Frames /\ g \in Frames /\ f.at = "loop" /\ f.actor = Top(s).actor
        /\ f.todo = Top(s).todo \ {b}
    <3>1. Top(s).actor \in Actors /\ Here(t) = Top(s).actor
      BY <2>1 DEF Frames, Here
    <3> QED BY <2>2, <3>1, FrameFacts
  <2>5. \/ Stacked(t, Append(SwappedTop(s, f), g))
        \/ \E k \in Tasks : \E n : /\ stack[k] = <<>>
                               /\ stack' = [stack EXCEPT ![t] = SwappedTop(s, f), ![k] = n]
    BY <2>3
  <2> HIDE DEF f, g
  <2>6. Swaps(links, s, f)
    <3>1. Top(s).todo \subseteq Targets(links, Top(s).actor)
      <4>1. Len(s) \in 1..Len(s) /\ Top(s) = s[Len(s)]
        BY <2>1, EmptySeq DEF Top
      <4> QED BY <2>1, <4>1 DEF Fine
    <3> QED BY <2>1, <2>4, <3>1 DEF Swaps
  <2>7. Fine(links, t, SwappedTop(s, f)) /\ SwappedTop(s, f) # <<>>
    BY <2>1, <2>6, FineSwapped DEF SwappedTop
  <2>8. \A a \in Actors : Runs(s, a) => /\ Runs(SwappedTop(s, f), a)
                                        /\ Runs(Append(SwappedTop(s, f), g), a)
    BY <2>1, <2>4, <2>7, RunsKept
  <2> QED BY <2>1, <2>5, <2>8, LockSame DEF Stacked
<1>15. ASSUME NEW t \in Threads, Undefined(t) PROVE LockInv'
  BY <1>15, NobodyUndefined DEF Undefined, LockInv, removal
<1>16. ASSUME \/ Deactivate \/ Remove \/ (\E a \in Actors : DisconnectAll(a)) \/ Destroy
       PROVE  LockInv'
  <2>1. /\ stage \in {"none", "cut"} /\ stage' \in {"none", "cut", "wait"} /\ victim' = victim
        /\ UNCHANGED <<lock, stack, modes>>
    BY <1>16 DEF removal, Deactivate, Remove, DisconnectAll, Destroy
  <2> QED BY <2>1 DEF LockInv, Runs, modes
<1>17. CASE WaitForTasksLock
  BY <1>17 DEF WaitForTasksLock, LockInv, Runs, modes, OtherTypes
<1>18. CASE WaitForTasks
  BY <1>18 DEF WaitForTasks, LockInv, Runs, modes, OtherTypes
<1>19. CASE DestroyPorts
  BY <1>19 DEF DestroyPorts, LockInv, Runs, modes, OtherTypes
<1> QED BY <1>0, <1>1, <1>2, <1>7, <1>8, <1>9, <1>10, <1>11, <1>12, <1>13, <1>14, <1>15, <1>16,
           <1>17, <1>18, <1>19
        DEF Next, Continue, Removal

LEMMA LockInit == Init => LockInv
BY DEF Init, LockInv
\* A ranking of the actors in which every synchronous link leads on.
Leads(rank) ==
  /\ rank \in [Actors -> 1..Cardinality(Actors)]
  /\ \A l \in SyncLinks : rank[l[1]] < rank[l[2]]

WaitInv == StackInv /\ OtherTypes /\ CutInv /\ NestInv /\ LockInv

\* Call i of thread t is into an actor that is synchronous, if it can be from
\* another.
Entered(t, i) == stack[t][i].at \in {"receive", "input"} => stack[t][i].actor \in syncActors

\* A call and the one it was made by.
LEMMA StepUp ==
  ASSUME WaitInv, NEW rank, Leads(rank), NEW t \in Threads,
         NEW i \in 2..Len(stack[t]), stack[t][i - 1].at # "delivery", Entered(t, i)
  PROVE  /\ rank[stack[t][i - 1].actor] <= rank[stack[t][i].actor]
         /\ stack[t][i - 1].at = "loop" => rank[stack[t][i - 1].actor] < rank[stack[t][i].actor]
<1> DEFINE s == stack[t]
<1>1. /\ Fine(links, t, s) /\ Nested(s) /\ s \in Seq(Frames) /\ Len(s) \in Nat
  BY LenProperties DEF WaitInv, StackInv, NestInv
<1>2. i \in 1..Len(s) /\ i > 1 /\ i - 1 \in 1..Len(s) /\ i - 1 < Len(s)
  BY <1>1
<1>3. Rests(links, s[i - 1], s[i]) /\ s[i].actor \in Actors /\ s[i - 1].actor \in Actors
  BY <1>1, <1>2, CallInActor DEF Fine
<1>4. rank[s[i].actor] \in Nat /\ rank[s[i - 1].actor] \in Nat
  BY <1>3 DEF Leads
<1>5. CASE s[i - 1].at = "loop"
  <2>1. /\ s[i].at \in {"receive", "input", "process"}
        /\ <<s[i - 1].actor, s[i].actor>> \in links
    BY <1>3, <1>5 DEF Rests
  <2>2. s[i - 1].actor \in syncPorts
    BY <1>1, <1>2, <1>5 DEF Nested
  <2>3. s[i].actor \in syncActors
    BY <1>1, <1>2, <2>1 DEF Nested, Entered
  <2>4. <<s[i - 1].actor, s[i].actor>> \in SyncLinks
    BY <2>1, <2>2, <2>3 DEF SyncLinks
  <2>5. rank[s[i - 1].actor] < rank[s[i].actor]
    BY <2>4 DEF Leads
  <2> QED BY <1>4, <2>5
<1>6. CASE s[i - 1].at # "loop"
  <2>1. s[i].actor = s[i - 1].actor
    BY <1>3, <1>6 DEF Rests
  <2> QED BY <1>4, <1>6, <2>1
<1> QED BY <1>5, <1>6

\* Only the call at the top is one that makes no other.
LEMMA OnlyTop ==
  ASSUME StackInv, NEW t \in Threads, NEW i \in 1..Len(stack[t]),
         stack[t][i].at \notin {"delivery", "loop", "process"}
  PROVE  i = Len(stack[t])
<1> DEFINE s == stack[t]
<1>1. Fine(links, t, s) /\ Len(s) \in Nat
  BY LenProperties DEF StackInv
<1>2. ASSUME i # Len(s) PROVE FALSE
  <2>1. i + 1 \in 1..Len(s) /\ i + 1 > 1 /\ (i + 1) - 1 = i
    BY <1>1, <1>2
  <2>2. Rests(links, s[(i + 1) - 1], s[i + 1])
    BY <1>1, <2>1 DEF Fine
  <2>3. Rests(links, s[i], s[i + 1])
    BY <2>1, <2>2
  <2> QED BY <2>3 DEF Rests
<1> QED BY <1>2

\* Calls lead on in the ranking.
LEMMA ClimbUp ==
  ASSUME WaitInv, NEW rank, Leads(rank), NEW t \in Threads,
         NEW i \in 1..Len(stack[t]), NEW j \in i..Len(stack[t]),
         stack[t][i].at # "delivery", i < j => Entered(t, j)
  PROVE  rank[stack[t][i].actor] <= rank[stack[t][j].actor]
<1> DEFINE s == stack[t]
           low == {k \in i..j : ~(rank[s[i].actor] <= rank[s[k].actor])}
<1>1. /\ Fine(links, t, s) /\ s \in Seq(Frames) /\ Len(s) \in Nat /\ i \in Nat /\ j \in Nat
      /\ j \in i..j
  BY LenProperties DEF WaitInv, StackInv
<1>2. \A k \in i..j : k \in 1..Len(s) /\ s[k].actor \in Actors /\ rank[s[k].actor] \in Nat
  <2>1. \A k \in i..j : k \in 1..Len(s)
    BY <1>1
  <2> QED BY <1>1, <2>1, CallInActor DEF Leads
<1>3. ASSUME low # {} PROVE FALSE
  <2>1. low \in SUBSET Nat
    BY <1>1
  <2>2. PICK m \in low : \A k \in low : m <= k
    BY <1>3, <2>1, LeastNumber
  <2>3. m \in i..j /\ ~(rank[s[i].actor] <= rank[s[m].actor])
    BY <2>2
  <2>4. i \in i..j /\ rank[s[i].actor] \in Nat
    BY <1>1, <1>2
  <2>5. m # i
    BY <2>3, <2>4
  <2>6. m \in 2..Len(s) /\ m - 1 \in i..j /\ m - 1 \in Nat /\ m \in Nat /\ ~(m <= m - 1)
    BY <1>1, <2>3, <2>5
  <2>7. rank[s[i].actor] <= rank[s[m - 1].actor]
    BY <2>2, <2>6
  <2>8. s[m - 1].at # "delivery"
    <3>1. CASE m - 1 = i
      BY <3>1
    <3>2. CASE m - 1 # i
      <4>1. m - 1 \in 1..Len(s) /\ m - 1 > 1
        BY <1>1, <2>6, <3>2
      <4>2. Rests(links, s[(m - 1) - 1], s[m - 1])
        BY <1>1, <4>1 DEF Fine
      <4> QED BY <4>2 DEF Rests
    <3> QED BY <3>1, <3>2
  <2>9. Entered(t, m)
    <3>1. ASSUME s[m].at \in {"receive", "input"} PROVE m = j /\ i < j
      <4>1. m = Len(s)
        BY <1>2, <2>3, <3>1, OnlyTop DEF WaitInv
      <4> QED BY <1>1, <2>3, <2>5, <4>1
    <3> QED BY <3>1 DEF Entered
  <2>10. rank[s[m - 1].actor] <= rank[s[m].actor]
    BY <2>6, <2>8, <2>9, StepUp
  <2> QED BY <1>2, <2>3, <2>4, <2>6, <2>7, <2>10
<1>4. j \notin low
  BY <1>3
<1> QED BY <1>1, <1>4
\* A thread in a call that waits for a lock, and one that waits for the lock
\* which the destructor of the removed actor has.
Waits(t) ==
  /\ stack[t] # <<>>
  /\ \/ Top(stack[t]).at = "sanitize" /\ InLoop(Here(t)) # {}
     \/ Top(stack[t]).at = "input" /\ lock[Here(t)] # Free

WaitsForOwner(t) ==
  Waits(t) /\ Top(stack[t]).at = "input" /\ lock[Here(t)] = Owner

\* Threads that wait are ordered by the rank of the actor they are in, and inside
\* it those that have passed its lock come after.
Height(rank, t) ==
  2 * rank[Here(t)] + (IF Top(stack[t]).at = "sanitize" THEN 1 ELSE 0)

LEMMA HeightType ==
  ASSUME WaitInv, NEW rank, Leads(rank), NEW t \in Threads, Waits(t)
  PROVE  /\ rank[Here(t)] \in Nat /\ Here(t) \in Actors
         /\ Height(rank, t) \in 0..(2 * Cardinality(Actors) + 1)
<1>1. stack[t] \in Seq(Frames) /\ stack[t] # <<>>
  BY DEF WaitInv, StackInv, Waits
<1>2. Here(t) \in Actors
  BY <1>1, FrameFacts DEF Here, Frames
<1>3. Cardinality(Actors) \in Nat
  BY ActorsAssumption, FS_CardinalityType
<1>4. rank[Here(t)] \in 1..Cardinality(Actors)
  BY <1>2 DEF Leads
<1> QED BY <1>2, <1>3, <1>4 DEF Height

\* A task that waits for the destructor has begun with a delivery.
LEMMA OwnerWaitsForOthers ==
  ASSUME WaitInv, stage = "drain", NEW t \in Threads, Top(stack[t]).at = "input",
         Top(stack[t]).actor = victim, stack[t] # <<>>
  PROVE  Len(stack[t]) = 2 /\ stack[t][1].at = "delivery"
<1>1. Len(stack[t]) \in 1..Len(stack[t]) /\ Top(stack[t]) = stack[t][Len(stack[t])]
  BY EmptySeq DEF WaitInv, StackInv, Top
<1> QED BY <1>1, ReachedByTasks DEF WaitInv, Late

\* A waiting thread that has a call below is further on than that call, and waits
\* for another thread.
LEMMA AboveCall ==
  ASSUME WaitInv, ~(stage = "gone" /\ late), NEW rank, Leads(rank), NEW t \in Threads,
         Waits(t), NEW i \in 1..Len(stack[t]), stack[t][i].at \in {"loop", "process"}
  PROVE  /\ ~WaitsForOwner(t)
         /\ rank[stack[t][i].actor] \in Nat
         /\ rank[stack[t][i].actor] <= rank[Here(t)]
         /\ stack[t][i].at = "loop" \/ Top(stack[t]).at = "input" =>
              rank[stack[t][i].actor] < rank[Here(t)]
<1> DEFINE s == stack[t]
           n == Len(s)
<1>1. /\ Fine(links, t, s) /\ Nested(s) /\ s \in Seq(Frames) /\ n \in Nat /\ n # 0
      /\ Top(s) = s[n] /\ Here(t) = s[n].actor
      /\ lock \in [Actors -> Threads \cup {Owner, Free}]
  BY EmptySeq DEF WaitInv, StackInv, NestInv, OtherTypes, Waits, Top, Here
<1> HIDE DEF n
<1>2. s[n].at \in {"sanitize", "input"}
  BY <1>1 DEF Waits
<1>3. i \in 1..n /\ i # n
  BY <1>2 DEF n
<1>4. n \in 1..n /\ n - 1 \in 1..n /\ n \in 2..n /\ n - 1 \in i..n /\ n \in i..n /\ i < n /\ i \in 1..n
      /\ i \in Nat
  BY <1>1, <1>3
<1>5. /\ s[i].actor \in Actors /\ s[n].actor \in Actors /\ s[n - 1].actor \in Actors
      /\ rank[s[i].actor] \in Nat /\ rank[s[n].actor] \in Nat /\ rank[s[n - 1].actor] \in Nat
  <2>1. s[i].actor \in Actors /\ s[n].actor \in Actors /\ s[n - 1].actor \in Actors
    BY <1>1, <1>4, CallInActor DEF n
  <2> QED BY <2>1 DEF Leads
<1>6. ~WaitsForOwner(t)
  <2> SUFFICES ASSUME WaitsForOwner(t) PROVE FALSE
    OBVIOUS
  <2>1. Here(t) = victim /\ stage = "drain"
    <3>1. lock[Here(t)] = Owner /\ Owner # Free /\ Owner \notin Threads /\ Here(t) \in Actors
      BY <1>1, <1>5, ThreadsAssumption DEF WaitsForOwner
    <3> QED BY <3>1 DEF WaitInv, LockInv
  <2>2. n = 2 /\ s[1].at = "delivery"
    BY <1>1, <2>1, OwnerWaitsForOthers DEF WaitsForOwner, Waits, Here, n
  <2>3. i = 1
    BY <1>3, <2>2
  <2> QED BY <2>2, <2>3
<1>7. Entered(t, n)
  <2> SUFFICES ASSUME s[n].at \in {"receive", "input"} PROVE s[n].actor \in syncActors
    BY DEF Entered
  <2>1. lock[Here(t)] # Free /\ lock[Here(t)] # Owner /\ Here(t) \in Actors
    BY <1>1, <1>2, <1>5, <1>6 DEF Waits, WaitsForOwner
  <2> QED BY <1>1, <2>1 DEF WaitInv, LockInv
<1>8. rank[s[i].actor] <= rank[s[n].actor]
  BY <1>4, <1>7, ClimbUp DEF n
<1>9. ASSUME s[n].at = "input" PROVE rank[s[i].actor] < rank[s[n].actor]
  <2>1. Rests(links, s[n - 1], s[n])
    BY <1>1, <1>4 DEF Fine, n
  <2>2. s[n - 1].at \in {"delivery", "loop"}
    BY <1>9, <2>1 DEF Rests
  <2>3. s[n - 1].at = "loop"
    <3> SUFFICES ASSUME s[n - 1].at = "delivery" PROVE FALSE
      BY <2>2
    <3>1. CASE n - 1 = i
      BY <3>1
    <3>2. CASE n - 1 # i
      <4>1. n - 1 \in 1..n /\ n - 1 > 1
        BY <1>4, <3>2
      <4>2. Rests(links, s[(n - 1) - 1], s[n - 1])
        BY <1>1, <4>1 DEF Fine, n
      <4> QED BY <4>2 DEF Rests
    <3> QED BY <3>1, <3>2
  <2>4. rank[s[n - 1].actor] < rank[s[n].actor]
    BY <1>4, <1>7, <2>3, StepUp DEF n
  <2>5. Entered(t, n - 1)
    BY <2>3 DEF Entered
  <2>6. rank[s[i].actor] <= rank[s[n - 1].actor]
    BY <1>4, <2>5, ClimbUp DEF n
  <2> QED BY <1>5, <2>4, <2>6
<1>10. ASSUME s[i].at = "loop", s[n].at = "sanitize" PROVE rank[s[i].actor] < rank[s[n].actor]
  <2>1. i + 1 \in 1..n /\ i + 1 \in 2..n /\ (i + 1) - 1 = i /\ i + 1 > 1 /\ n \in (i + 1)..n
    BY <1>1, <1>3
  <2>2. Rests(links, s[(i + 1) - 1], s[i + 1])
    BY <1>1, <2>1 DEF Fine, n
  <2>3. s[i + 1].at \in {"receive", "input", "process"}
    BY <1>10, <2>1, <2>2 DEF Rests
  <2>4. i + 1 # n
    BY <1>10, <2>3
  <2>5. s[i + 1].at = "process"
    <3>1. s[i + 1].at \notin {"receive", "input"}
      BY <2>1, <2>4, OnlyTop DEF WaitInv, n
    <3> QED BY <2>3, <3>1
  <2>6. rank[s[i].actor] < rank[s[i + 1].actor]
    <3>1. Entered(t, i + 1)
      BY <2>5 DEF Entered
    <3>2. rank[s[(i + 1) - 1].actor] < rank[s[i + 1].actor]
      BY <1>10, <2>1, <3>1, StepUp DEF n
    <3> QED BY <2>1, <3>2
  <2>7. rank[s[i + 1].actor] <= rank[s[n].actor]
    BY <1>7, <2>1, <2>5, ClimbUp DEF n
  <2>8. rank[s[i + 1].actor] \in Nat
    <3>1. s[i + 1].actor \in Actors
      BY <1>1, <2>1, CallInActor DEF n
    <3> QED BY <3>1 DEF Leads
  <2> QED BY <1>5, <2>6, <2>7, <2>8
<1> QED BY <1>1, <1>2, <1>5, <1>6, <1>8, <1>9, <1>10

\* A thread that waits, but for the destructor, waits for one that is further on,
\* if that one waits too.
LEMMA WaitsForHigher ==
  ASSUME WaitInv, ~(stage = "gone" /\ late), NEW rank, Leads(rank),
         \A u \in Threads : stack[u] # <<>> => Waits(u),
         NEW t \in Threads, Waits(t), ~WaitsForOwner(t)
  PROVE  \E u \in Threads : Waits(u) /\ ~WaitsForOwner(u) /\ Height(rank, t) < Height(rank, u)
<1> DEFINE a == Here(t)
<1>1. /\ a \in Actors /\ rank[a] \in Nat
      /\ lock \in [Actors -> Threads \cup {Owner, Free}]
      /\ \A u \in Threads : stack[u] \in Seq(Frames)
  BY HeightType DEF WaitInv, OtherTypes, StackInv
<1>2. ASSUME NEW u \in Threads, NEW i \in 1..Len(stack[u]), stack[u][i].actor = a,
             stack[u][i].at \in {"loop", "process"},
             stack[u][i].at = "loop" \/ Top(stack[t]).at = "input"
      PROVE  Waits(u) /\ ~WaitsForOwner(u) /\ Height(rank, t) < Height(rank, u)
  <2>1. stack[u] # <<>>
    <3> SUFFICES ASSUME stack[u] = <<>> PROVE FALSE
      OBVIOUS
    <3>1. Len(stack[u]) = 0
      BY EmptySeq
    <3> QED BY <1>2, <3>1
  <2>2. Waits(u)
    BY <2>1
  <2>3. /\ ~WaitsForOwner(u) /\ rank[a] <= rank[Here(u)]
        /\ stack[u][i].at = "loop" \/ Top(stack[u]).at = "input" => rank[a] < rank[Here(u)]
    BY <1>2, <2>2, AboveCall
  <2>4. rank[Here(u)] \in Nat
    BY <2>2, HeightType
  <2>5. Top(stack[u]).at \in {"input", "sanitize"} /\ Top(stack[t]).at \in {"input", "sanitize"}
    BY <2>2 DEF Waits
  <2>6. Height(rank, t) < Height(rank, u)
    <3>1. CASE rank[a] < rank[Here(u)]
      BY <1>1, <2>4, <3>1 DEF Height
    <3>2. CASE ~(rank[a] < rank[Here(u)])
      <4>1. Top(stack[t]).at = "input" /\ Top(stack[u]).at = "sanitize"
        BY <1>2, <2>3, <2>5, <3>2
      <4> QED BY <1>1, <2>3, <2>4, <4>1 DEF Height
    <3> QED BY <3>1, <3>2
  <2> QED BY <2>2, <2>3, <2>6
<1>3. CASE Top(stack[t]).at = "sanitize"
  <2>1. PICK u \in Threads : \E i \in DOMAIN stack[u] : stack[u][i].actor = a /\ stack[u][i].at = "loop"
    BY <1>3 DEF Waits, InLoop, Inside
  <2>2. DOMAIN stack[u] = 1..Len(stack[u])
    BY <1>1, LenProperties
  <2> QED BY <1>2, <2>1, <2>2
<1>4. CASE Top(stack[t]).at = "input"
  <2>1. lock[a] # Free /\ lock[a] # Owner
    BY <1>4 DEF Waits, WaitsForOwner
  <2>2. lock[a] \in Threads /\ Runs(stack[lock[a]], a)
    BY <1>1, <2>1 DEF WaitInv, LockInv
  <2>3. PICK i \in 2..Len(stack[lock[a]]) :
          stack[lock[a]][i].at = "process" /\ stack[lock[a]][i].actor = a
    BY <2>2 DEF Runs
  <2>4. i \in 1..Len(stack[lock[a]])
    BY <1>1, <2>2, <2>3, LenProperties
  <2> QED BY <1>2, <1>4, <2>2, <2>3, <2>4
<1> QED BY <1>3, <1>4 DEF Waits

\* So nobody waits for another thread when everybody waits.
LEMMA NobodyWaits ==
  ASSUME WaitInv, ~(stage = "gone" /\ late), NEW rank, Leads(rank),
         \A u \in Threads : stack[u] # <<>> => Waits(u), NEW t \in Threads, Waits(t)
  PROVE  WaitsForOwner(t)
<1> SUFFICES ASSUME ~WaitsForOwner(t) PROVE FALSE
  OBVIOUS
<1> DEFINE top == 2 * Cardinality(Actors) + 1
           depths == {m \in Nat : \E u \in Threads : Waits(u) /\ ~WaitsForOwner(u)
                                    /\ m = top - Height(rank, u)}
<1>1. top \in Nat
  BY ActorsAssumption, FS_CardinalityType
<1>2. ASSUME NEW u \in Threads, Waits(u), ~WaitsForOwner(u)
      PROVE  top - Height(rank, u) \in depths /\ Height(rank, u) \in Nat
  <2>1. Height(rank, u) \in 0..top
    BY <1>2, HeightType
  <2>2. top - Height(rank, u) \in Nat /\ Height(rank, u) \in Nat
    BY <1>1, <2>1
  <2> QED BY <1>2, <2>2
<1>3. depths # {} /\ depths \in SUBSET Nat
  BY <1>2
<1> HIDE DEF depths, top
<1>4. PICK m \in depths : \A k \in depths : m <= k
  BY <1>3, LeastNumber
<1>5. PICK u \in Threads : Waits(u) /\ ~WaitsForOwner(u) /\ m = top - Height(rank, u)
  BY <1>4 DEF depths
<1>6. PICK w \in Threads : Waits(w) /\ ~WaitsForOwner(w) /\ Height(rank, u) < Height(rank, w)
  BY <1>5, WaitsForHigher
<1>7. top - Height(rank, w) \in depths /\ Height(rank, w) \in Nat /\ Height(rank, u) \in Nat
  BY <1>2, <1>5, <1>6
<1>8. m <= top - Height(rank, w)
  BY <1>4, <1>7
<1> QED BY <1>1, <1>5, <1>6, <1>7, <1>8
\* The destructor waits for nobody who waits for it, so the removal goes on when
\* no thread does.
LEMMA RemovalMoves ==
  ASSUME WaitInv, ~(stage = "gone" /\ late),
         \A t \in Threads : stack[t] # <<>> => WaitsForOwner(t),
         \/ stage \in {"cut", "wait", "drain", "ports"}
         \/ \E t \in Threads : stack[t] # <<>>
  PROVE  RemovalCanGoOn
<1>1. /\ lock \in [Actors -> Threads \cup {Owner, Free}] /\ victim \in Actors
      /\ uncut \subseteq Actors /\ Owner \notin Threads /\ Owner # Free
      /\ Tasks \subseteq Threads /\ Sources \subseteq Threads
  BY ThreadsAssumption DEF WaitInv, OtherTypes, Threads
<1>2. CASE \E t \in Threads : stack[t] # <<>>
  <2>1. PICK t \in Threads : stack[t] # <<>>
    BY <1>2
  <2>2. ASSUME NEW u \in Threads, stack[u] # <<>>
        PROVE  /\ stage = "drain" /\ Top(stack[u]).at = "input" /\ Top(stack[u]).actor = victim
    <3>1. WaitsForOwner(u) /\ stack[u] \in Seq(Frames)
      BY <2>2 DEF WaitInv, StackInv
    <3>2. Here(u) \in Actors /\ Here(u) = Top(stack[u]).actor
      BY <2>2, <3>1, FrameFacts DEF Here, Frames
    <3>3. lock[Here(u)] = Owner
      BY <3>1 DEF WaitsForOwner
    <3>4. Here(u) = victim /\ stage = "drain"
      BY <1>1, <3>2, <3>3 DEF WaitInv, LockInv
    <3> QED BY <3>1, <3>2, <3>4 DEF WaitsForOwner
  <2>3. \A k \in Tasks : stack[k] # <<>> => stack[k][1].at = "delivery"
    BY <1>1, <2>2, OwnerWaitsForOthers
  <2>4. Unfinished(victim, "process") = {}
    BY <2>3 DEF Unfinished
  <2> QED BY <2>1, <2>2, <2>4 DEF RemovalCanGoOn
<1>3. CASE ~\E t \in Threads : stack[t] # <<>>
  <2>1. \A a, p : Inside(a, p) = {}
    <3>1. Len(<<>>) = 0 /\ DOMAIN <<>> = {}
      BY EmptySeq
    <3> QED BY <1>3, <3>1 DEF Inside
  <2>2. \A a, kind : Unfinished(a, kind) = {}
    BY <1>1, <1>3 DEF Unfinished
  <2>3. stage = "wait" => lock[victim] = Free
    <3>1. \A a : lock[victim] \in Threads => ~Runs(stack[lock[victim]], a)
      BY <1>3, NestedEmpty
    <3> QED BY <1>1, <3>1 DEF WaitInv, LockInv
  <2> QED BY <1>3, <2>1, <2>2, <2>3 DEF RemovalCanGoOn, InNotify
<1> QED BY <1>2, <1>3

\* In a network of any size, with calls nested to any depth, threads and the
\* removal never all wait for each other, if the synchronous links have an order
\* and nobody asks the system while it destroys an actor.
THEOREM NoMutualWait == Spec => []SomebodyGoesOn
<1>1. StackInv /\ OtherTypes /\ CutInv /\ NestInv /\ LockInv => SomebodyGoesOn
  <2> SUFFICES ASSUME WaitInv, ~SyncCycle, ~AsksInRemoval, ~(stage = "gone" /\ late),
                      \A t \in Threads : ~CanGoOn(t),
                      \/ stage \in {"cut", "wait", "drain", "ports"}
                      \/ \E t \in Threads : stack[t] # <<>>
               PROVE  RemovalCanGoOn
    BY DEF SomebodyGoesOn, WaitInv
  <2>1. PICK rank : Leads(rank)
    BY DEF SyncCycle, Leads
  <2>2. ASSUME NEW t \in Threads, stack[t] # <<>> PROVE Waits(t)
    <3>1. ~(Top(stack[t]).at = "ask" /\ SchemeHeld)
      BY <2>2 DEF AsksInRemoval, At, SchemeHeld
    <3> QED BY <2>2, <3>1 DEF CanGoOn, Waits
  <2>3. \A t \in Threads : stack[t] # <<>> => WaitsForOwner(t)
    BY <2>1, <2>2, NobodyWaits
  <2> QED BY <2>3, RemovalMoves
<1>2. Init => QuietInv
  BY DEF Init, QuietInv, Late
<1> QED BY <1>1, <1>2, StackInit, StackStep, TypeInit, TypeStep, CutInit, CutStep, QuietStep,
           NestInit, NestStep, LockInit, LockStep, PTL DEF Spec
=============================================================================
