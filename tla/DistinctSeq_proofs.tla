------------------------- MODULE DistinctSeq_proofs -------------------------
(* Lemmas on queues without repetition, for the proofs on Ring and Stream. *)
EXTENDS DistinctSeq, FiniteSets, FiniteSetTheorems, SequenceTheorems, TLAPS

\* The empty queue.
LEMMA EmptyQueue == Distinct(<<>>) /\ \A x : ~InQueue(x, <<>>)
  BY DEF Distinct, InQueue

\* us_queue_get: the head leaves, everything else stays, in a queue that still
\* repeats nothing.
LEMMA TailOfDistinct ==
  ASSUME NEW S, NEW s \in Seq(S), s # <<>>, Distinct(s)
  PROVE  /\ Head(s) \in S /\ Tail(s) \in Seq(S)
         /\ Distinct(Tail(s))
         /\ InQueue(Head(s), s) /\ ~InQueue(Head(s), Tail(s))
         /\ \A x : InQueue(x, s) <=> x = Head(s) \/ InQueue(x, Tail(s))
<1>1. /\ Head(s) \in S /\ Tail(s) \in Seq(S)
      /\ Len(s) \in Nat \ {0} /\ Len(Tail(s)) = Len(s) - 1
      /\ \A i \in 1 .. Len(Tail(s)) : Tail(s)[i] = s[i + 1]
  BY HeadTailProperties, EmptySeq
<1>2. Head(s) = s[1]
  OBVIOUS
<1>3. \A i \in 1 .. Len(s) - 1 : i + 1 \in 1 .. Len(s) /\ i + 1 # 1
  BY <1>1
<1>4. Distinct(Tail(s))
  <2> SUFFICES ASSUME NEW i \in 1 .. Len(Tail(s)), NEW j \in 1 .. Len(Tail(s)),
                      Tail(s)[i] = Tail(s)[j]
               PROVE  i = j
    BY DEF Distinct
  <2>1. s[i + 1] = s[j + 1]
    BY <1>1
  <2>2. i + 1 = j + 1
    BY <2>1, <1>1, <1>3 DEF Distinct
  <2> QED
    BY <2>2
<1>5. InQueue(Head(s), s)
  BY <1>1, <1>2 DEF InQueue
<1>6. ~InQueue(Head(s), Tail(s))
  <2> SUFFICES ASSUME NEW i \in 1 .. Len(Tail(s)), Tail(s)[i] = Head(s) PROVE FALSE
    BY DEF InQueue
  <2>1. s[i + 1] = s[1] /\ i + 1 \in 1 .. Len(s) /\ 1 \in 1 .. Len(s) /\ i + 1 # 1
    BY <1>1, <1>2, <1>3
  <2> QED
    BY <2>1 DEF Distinct
<1>7. ASSUME NEW x PROVE InQueue(x, s) <=> x = Head(s) \/ InQueue(x, Tail(s))
  <2>1. ASSUME InQueue(x, s), x # Head(s) PROVE InQueue(x, Tail(s))
    <3>1. PICK i \in 1 .. Len(s) : s[i] = x
      BY <2>1 DEF InQueue
    <3>2. i - 1 \in 1 .. Len(Tail(s)) /\ (i - 1) + 1 = i
      BY <3>1, <2>1, <1>1, <1>2
    <3> QED
      BY <3>1, <3>2, <1>1 DEF InQueue
  <2>2. ASSUME InQueue(x, Tail(s)) PROVE InQueue(x, s)
    BY <2>2, <1>1, <1>3 DEF InQueue
  <2> QED
    BY <2>1, <2>2, <1>5
<1> QED
  BY <1>1, <1>4, <1>5, <1>6, <1>7

\* us_queue_put: a new element keeps the queue free of repetition.
LEMMA AppendToDistinct ==
  ASSUME NEW S, NEW s \in Seq(S), NEW e \in S
  PROVE  /\ Append(s, e) \in Seq(S) /\ Len(Append(s, e)) = Len(s) + 1
         /\ \A x : InQueue(x, Append(s, e)) <=> x = e \/ InQueue(x, s)
         /\ (Distinct(s) /\ ~InQueue(e, s)) => Distinct(Append(s, e))
<1>1. /\ Append(s, e) \in Seq(S) /\ Len(s) \in Nat
      /\ Len(Append(s, e)) = Len(s) + 1
      /\ \A i \in 1 .. Len(s) : Append(s, e)[i] = s[i]
      /\ Append(s, e)[Len(s) + 1] = e
  BY AppendProperties, LenProperties
<1>2. \A i \in 1 .. Len(s) + 1 : i \in 1 .. Len(s) \/ i = Len(s) + 1
  BY <1>1
<1>3. ASSUME NEW x PROVE InQueue(x, Append(s, e)) <=> x = e \/ InQueue(x, s)
  BY <1>1, <1>2 DEF InQueue
<1>4. ASSUME Distinct(s), ~InQueue(e, s) PROVE Distinct(Append(s, e))
  BY <1>1, <1>2, <1>4 DEF Distinct, InQueue
<1> QED
  BY <1>1, <1>3, <1>4

\* A queue without repetition is no longer than the set it draws from.
LEMMA LenOfDistinct ==
  ASSUME NEW S, IsFiniteSet(S), NEW s \in Seq(S), Distinct(s)
  PROVE  Len(s) \in Nat /\ Len(s) <= Cardinality(S)
<1>1. Len(s) \in Nat /\ s \in [1 .. Len(s) -> S]
  BY LenProperties
<1>2. s \in Injection(1 .. Len(s), S)
  BY <1>1 DEF Distinct, Injection, IsInjective
<1>3. Cardinality(1 .. Len(s)) = Len(s)
  BY <1>1, FS_Interval
<1> QED
  BY <1>1, <1>2, <1>3, FS_Injection

=============================================================================
