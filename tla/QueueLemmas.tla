---------------------------- MODULE QueueLemmas ----------------------------
(* Facts about the queues of futures as sequences: what they hold after a   *)
(* future was appended, and after those at the head were popped.            *)
EXTENDS Integers, Sequences, FiniteSets, FiniteSetTheorems, SequenceTheorems, TLAPS

Elements(q) == {q[i] : i \in DOMAIN q}
Suffix(q, n) == SubSeq(q, n + 1, Len(q))

\* The elements of a sequence after an element was appended.
LEMMA RangeOfAppend ==
  ASSUME NEW S, NEW q \in Seq(S), NEW x \in S
  PROVE  /\ Append(q, x) \in Seq(S) /\ Len(Append(q, x)) = Len(q) + 1
         /\ Elements(Append(q, x)) = Elements(q) \cup {x}
<1>1. /\ Append(q, x) \in Seq(S)
      /\ Len(Append(q, x)) = Len(q) + 1
      /\ \A i \in 1..Len(q) : Append(q, x)[i] = q[i]
      /\ Append(q, x)[Len(q) + 1] = x
  BY AppendProperties
<1>2. Len(q) \in Nat /\ DOMAIN q = 1..Len(q)
  BY LenProperties
<1>3. DOMAIN Append(q, x) = 1..(Len(q) + 1)
  BY <1>1, LenProperties
<1> QED BY <1>1, <1>2, <1>3 DEF Elements

\* The elements of a sequence are those dropped from its head and the rest.
LEMMA RangeOfSuffix ==
  ASSUME NEW S, NEW q \in Seq(S), NEW n \in 0..Len(q)
  PROVE  /\ Suffix(q, n) \in Seq(S) /\ Len(Suffix(q, n)) = Len(q) - n
         /\ Elements(q) = {q[i] : i \in 1..n} \cup Elements(Suffix(q, n))
<1>1. Len(q) \in Nat /\ DOMAIN q = 1..Len(q)
  BY LenProperties
<1>2. /\ SubSeq(q, n + 1, Len(q)) \in Seq(S)
      /\ Len(SubSeq(q, n + 1, Len(q))) = Len(q) - n
      /\ \A i \in 1..(Len(q) - n) : SubSeq(q, n + 1, Len(q))[i] = q[n + i]
  <2>1. n + 1 \in Int /\ Len(q) \in Int /\ n \in Nat /\ n <= Len(q)
    BY <1>1
  <2>2. \A i \in (n + 1)..Len(q) : q[i] \in S
    BY <1>1, <2>1, ElementOfSeq
  <2>3. /\ SubSeq(q, n + 1, Len(q)) \in Seq(S)
        /\ Len(SubSeq(q, n + 1, Len(q))) =
             IF n + 1 <= Len(q) THEN Len(q) - (n + 1) + 1 ELSE 0
        /\ \A i \in 1..(Len(q) - (n + 1) + 1) :
             SubSeq(q, n + 1, Len(q))[i] = q[n + 1 + i - 1]
    BY <2>1, <2>2, SubSeqProperties
  <2>4. Len(q) - (n + 1) + 1 = Len(q) - n
    BY <2>1
  <2>5. \A i \in 1..(Len(q) - n) : n + 1 + i - 1 = n + i
    BY <2>1
  <2>6. \A i \in 1..(Len(q) - n) : SubSeq(q, n + 1, Len(q))[i] = q[n + i]
    BY <2>3, <2>4, <2>5
  <2>7. Len(SubSeq(q, n + 1, Len(q))) = Len(q) - n
    BY <2>1, <2>3
  <2> QED BY <2>3, <2>6, <2>7
<1>3. DOMAIN SubSeq(q, n + 1, Len(q)) = 1..(Len(q) - n)
  BY <1>2, LenProperties
<1>4. ASSUME NEW x \in Elements(q)
      PROVE  x \in {q[i] : i \in 1..n} \cup Elements(Suffix(q, n))
  <2>1. PICK i \in 1..Len(q) : x = q[i]
    BY <1>1, <1>4 DEF Elements
  <2>2. CASE i <= n
    BY <1>1, <2>1, <2>2
  <2>3. CASE i > n
    <3>1. i - n \in 1..(Len(q) - n) /\ n + (i - n) = i
      BY <1>1, <2>3
    <3> QED BY <1>2, <1>3, <2>1, <3>1 DEF Elements, Suffix
  <2> QED BY <1>1, <2>2, <2>3
<1>5. ASSUME NEW x \in Elements(Suffix(q, n)) PROVE x \in Elements(q)
  <2>1. PICK i \in 1..(Len(q) - n) : x = q[n + i]
    BY <1>2, <1>3, <1>5 DEF Elements, Suffix
  <2>2. n + i \in DOMAIN q
    BY <1>1
  <2> QED BY <2>1, <2>2 DEF Elements
<1>6. {q[i] : i \in 1..n} \subseteq Elements(q)
  BY <1>1 DEF Elements
<1>7. Elements(q) = {q[i] : i \in 1..n} \cup Elements(Suffix(q, n))
  BY <1>4, <1>5, <1>6
<1>8. Suffix(q, n) \in Seq(S) /\ Len(Suffix(q, n)) = Len(q) - n
  BY <1>2 DEF Suffix
<1> QED BY <1>7, <1>8

\* A sequence has at most as many different elements as it is long.
LEMMA ElementsBounded ==
  ASSUME NEW S, NEW q \in Seq(S)
  PROVE  /\ IsFiniteSet(Elements(q)) /\ Cardinality(Elements(q)) \in Nat
         /\ Cardinality(Elements(q)) <= Len(q)
<1>1. Len(q) \in Nat /\ DOMAIN q = 1..Len(q) /\ q \in [1..Len(q) -> S]
  BY LenProperties
<1>2. q \in [1..Len(q) -> Elements(q)]
  BY <1>1 DEF Elements
<1>3. \A x \in Elements(q) : \E i \in 1..Len(q) : q[i] = x
  BY <1>1 DEF Elements
<1>4. q \in Surjection(1..Len(q), Elements(q))
  BY <1>2, <1>3 DEF Surjection
<1>5. IsFiniteSet(1..Len(q)) /\ Cardinality(1..Len(q)) = Len(q)
  BY <1>1, FS_Interval
<1> QED BY <1>4, <1>5, FS_Surjection, FS_CardinalityType
=============================================================================
