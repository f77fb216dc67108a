---------------------------- MODULE Ring_proofs ----------------------------
(***************************************************************************)
(* Proofs about module Ring: places are neither shared nor lost, the       *)
(* assertion on release holds, an item is stable while it is read, and the *)
(* ring implements a bounded FIFO, for any capacity and any number of      *)
(* producers and consumers.                                                *)
(***************************************************************************)
EXTENDS Ring, DistinctSeq_proofs

IInv == TypeOK /\ PlacesPartitioned /\ NeverAborts

\* The frames in the ring, oldest first: `fifo' of the refinement.
Contents == [k \in 1 .. Len(consumer) |-> items[consumer[k]]]

-----------------------------------------------------------------------------
\* A place that a thread holds fits in either queue.
LEMMA RoomFor ==
  ASSUME NEW s \in Seq(Indices), Distinct(s), NEW i \in Indices, ~InQueue(i, s)
  PROVE  /\ Len(s) < Capacity
         /\ PutPlace(s, i) = Append(s, i)
         /\ PutPlace(s, i) \in Seq(Indices) /\ Distinct(PutPlace(s, i))
         /\ \A j : InQueue(j, PutPlace(s, i)) <=> j = i \/ InQueue(j, s)
<1>1. /\ Append(s, i) \in Seq(Indices) /\ Distinct(Append(s, i))
      /\ Len(Append(s, i)) = Len(s) + 1
      /\ \A j : InQueue(j, Append(s, i)) <=> j = i \/ InQueue(j, s)
  BY AppendToDistinct
<1>2. IsFiniteSet(Indices) /\ Cardinality(Indices) = Capacity
  <2> Capacity \in Nat \ {0} /\ 0 \in Int /\ Capacity - 1 \in Int
    BY RingAssumption
  <2> QED
    BY FS_Interval DEF Indices
<1>3. Len(s) \in Nat /\ Len(s) + 1 <= Capacity
  BY <1>1, <1>2, LenOfDistinct
<1>4. Len(s) < Capacity
  BY <1>3, RingAssumption
<1>5. PutPlace(s, i) = Append(s, i)
  BY <1>4 DEF PutPlace
<1> QED
  BY <1>1, <1>4, <1>5

LEMMA InitIInv == Init => IInv /\ Fifo!Init
<1> SUFFICES ASSUME Init PROVE IInv /\ Fifo!Init
  OBVIOUS
<1> Capacity \in Nat \ {0}
  BY RingAssumption
<1>1. /\ producer = [i \in 1 .. Capacity |-> i - 1] /\ consumer = <<>>
      /\ producer \in Seq(Indices) /\ Len(producer) = Capacity
  BY DEF Init, Indices
<1>2. Distinct(producer)
  BY <1>1 DEF Distinct
<1>3. \A i \in Indices : InQueue(i, producer) /\ ~InQueue(i, consumer)
  <2> SUFFICES ASSUME NEW i \in Indices PROVE InQueue(i, producer)
    BY <1>1, EmptyQueue
  <2>1. i + 1 \in 1 .. Capacity /\ producer[i + 1] = i
    BY <1>1 DEF Indices
  <2> QED
    BY <1>1, <2>1 DEF InQueue
<1>4. PlacesPartitioned
  BY <1>1, <1>2, <1>3, EmptyQueue DEF PlacesPartitioned, Init
<1>5. TypeOK
  BY <1>1, EmptySeq DEF Init, TypeOK
<1>6. Contents = <<>>
  BY <1>1 DEF Contents
<1> QED
  BY <1>4, <1>5, <1>6 DEF IInv, Init, NeverAborts, Fifo!Init, Contents

-----------------------------------------------------------------------------
(* The steps.  Each also is a step of the FIFO, or leaves it alone. *)

LEMMA ProducerAcquireStep ==
  ASSUME IInv, NEW p \in Threads, ProducerAcquire(p)
  PROVE  IInv' /\ Contents' = Contents
<1> USE DEF IInv
<1> None \notin Indices
  BY RingAssumption DEF Indices
<1>1. /\ held[p] = None /\ producer # <<>>
      /\ held' = [held EXCEPT ![p] = Head(producer)] /\ producer' = Tail(producer)
      /\ UNCHANGED <<consumer, items, got, aborted>>
  BY DEF ProducerAcquire
<1>2. PICK i \in Indices : i = Head(producer)
  BY <1>1, TailOfDistinct DEF TypeOK, PlacesPartitioned
<1>3. /\ producer' \in Seq(Indices) /\ Distinct(producer')
      /\ InQueue(i, producer) /\ ~InQueue(i, producer')
      /\ \A j : InQueue(j, producer) <=> j = i \/ InQueue(j, producer')
  BY <1>1, <1>2, TailOfDistinct DEF TypeOK, PlacesPartitioned
<1>4. /\ held'[p] = i /\ \A t \in Threads \ {p} : held'[t] = held[t]
      /\ held' \in [Threads -> Indices \cup {None}]
  BY <1>1, <1>2 DEF TypeOK
<1>5. TypeOK'
  BY <1>1, <1>3, <1>4 DEF TypeOK
<1>6. PlacesPartitioned'
  <2>1. \A t \in Threads : held[t] # i
    BY <1>2, <1>3 DEF PlacesPartitioned
  <2>2. ASSUME NEW t \in Threads, held'[t] # None
        PROVE  /\ ~InQueue(held'[t], producer') /\ ~InQueue(held'[t], consumer')
               /\ \A u \in Threads : held'[u] = held'[t] => u = t
    BY <1>1, <1>2, <1>3, <1>4, <2>1, <2>2 DEF PlacesPartitioned
  <2>3. \A j \in Indices : \/ InQueue(j, producer') \/ InQueue(j, consumer')
                           \/ \E t \in Threads : held'[t] = j
    BY <1>1, <1>3, <1>4 DEF PlacesPartitioned
  <2>4. Distinct(consumer') /\ \A j \in Indices : ~(InQueue(j, producer') /\ InQueue(j, consumer'))
    BY <1>1, <1>3 DEF PlacesPartitioned
  <2> QED
    BY <1>3, <2>2, <2>3, <2>4 DEF PlacesPartitioned
<1> QED
  BY <1>1, <1>5, <1>6 DEF NeverAborts, Contents

LEMMA FillStep ==
  ASSUME IInv, NEW p \in Threads, NEW x \in Payloads, Fill(p, x)
  PROVE  IInv' /\ Contents' = Contents
<1> USE DEF IInv
<1>1. /\ held[p] # None /\ items' = [items EXCEPT ![held[p]] = x]
      /\ UNCHANGED <<producer, consumer, held, got, aborted>>
  BY DEF Fill
<1>2. TypeOK' /\ PlacesPartitioned'
  BY <1>1 DEF TypeOK, PlacesPartitioned
<1>3. \A k \in 1 .. Len(consumer) : items'[consumer[k]] = items[consumer[k]]
  <2>1. ~InQueue(held[p], consumer)
    BY <1>1 DEF PlacesPartitioned
  <2>2. \A k \in 1 .. Len(consumer) : consumer[k] \in Indices /\ consumer[k] # held[p]
    BY <2>1, ElementOfSeq DEF InQueue, TypeOK
  <2> QED
    BY <1>1, <2>2 DEF TypeOK
<1> QED
  BY <1>1, <1>2, <1>3 DEF NeverAborts, Contents

\* Giving a place back, by either side, keeps the places partitioned.
LEMMA ReleaseStep ==
  ASSUME IInv, NEW t \in Threads, held[t] # None, NEW i, i = held[t],
         held' = [held EXCEPT ![t] = None],
         \/ producer' = producer /\ consumer' = PutPlace(consumer, i)
         \/ consumer' = consumer /\ producer' = PutPlace(producer, i)
  PROVE  /\ i \in Indices /\ Len(producer) < Capacity /\ Len(consumer) < Capacity
         /\ producer' \in Seq(Indices) /\ consumer' \in Seq(Indices)
         /\ held' \in [Threads -> Indices \cup {None}]
         /\ PutPlace(consumer, i) = Append(consumer, i)
         /\ PlacesPartitioned'
<1> USE DEF IInv
<1> None \notin Indices
  BY RingAssumption DEF Indices
<1>1. i \in Indices /\ ~InQueue(i, producer) /\ ~InQueue(i, consumer)
      /\ \A u \in Threads \ {t} : held[u] # i
  BY DEF TypeOK, PlacesPartitioned
<1>2. /\ producer \in Seq(Indices) /\ consumer \in Seq(Indices)
      /\ Distinct(producer) /\ Distinct(consumer)
  BY DEF TypeOK, PlacesPartitioned
<1>3. /\ Len(producer) < Capacity /\ PutPlace(producer, i) \in Seq(Indices)
      /\ Distinct(PutPlace(producer, i))
      /\ \A j : InQueue(j, PutPlace(producer, i)) <=> j = i \/ InQueue(j, producer)
  BY <1>1, <1>2, RoomFor
<1>4. /\ Len(consumer) < Capacity /\ PutPlace(consumer, i) \in Seq(Indices)
      /\ Distinct(PutPlace(consumer, i)) /\ PutPlace(consumer, i) = Append(consumer, i)
      /\ \A j : InQueue(j, PutPlace(consumer, i)) <=> j = i \/ InQueue(j, consumer)
  BY <1>1, <1>2, RoomFor
<1>5. /\ held' \in [Threads -> Indices \cup {None}] /\ held'[t] = None
      /\ \A u \in Threads \ {t} : held'[u] = held[u]
  BY DEF TypeOK
<1>6. /\ producer' \in Seq(Indices) /\ consumer' \in Seq(Indices)
      /\ Distinct(producer') /\ Distinct(consumer')
      /\ \A j \in Indices : ~(InQueue(j, producer') /\ InQueue(j, consumer'))
      /\ \A j : InQueue(j, producer') \/ InQueue(j, consumer')
                  <=> j = i \/ InQueue(j, producer) \/ InQueue(j, consumer)
  <2>1. CASE producer' = producer /\ consumer' = PutPlace(consumer, i)
    BY <1>1, <1>2, <1>4, <2>1 DEF PlacesPartitioned
  <2>2. CASE consumer' = consumer /\ producer' = PutPlace(producer, i)
    BY <1>1, <1>2, <1>3, <2>2 DEF PlacesPartitioned
  <2> QED
    BY <2>1, <2>2
<1>7. ASSUME NEW v \in Threads, held'[v] # None
      PROVE  /\ ~InQueue(held'[v], producer') /\ ~InQueue(held'[v], consumer')
             /\ \A u \in Threads : held'[u] = held'[v] => u = v
  BY <1>1, <1>5, <1>6, <1>7 DEF PlacesPartitioned
<1>8. \A j \in Indices : \/ InQueue(j, producer') \/ InQueue(j, consumer')
                         \/ \E v \in Threads : held'[v] = j
  BY <1>5, <1>6 DEF PlacesPartitioned
<1>9. PlacesPartitioned'
  BY <1>6, <1>7, <1>8 DEF PlacesPartitioned
<1> QED
  BY <1>1, <1>3, <1>4, <1>5, <1>6, <1>9

LEMMA ProducerReleaseStep ==
  ASSUME IInv, NEW p \in Threads, ProducerRelease(p)
  PROVE  IInv' /\ \E e \in Payloads \cup {None} :
           Len(Contents) < Capacity /\ Contents' = Append(Contents, e) /\ got' = got
<1> USE DEF IInv
<1>1. PICK i \in Indices : i = held[p]
  BY DEF ProducerRelease, TypeOK
<1>2. /\ held[p] # None /\ held' = [held EXCEPT ![p] = None]
      /\ consumer' = PutPlace(consumer, i)
      /\ aborted' = (aborted \/ Len(consumer) >= Capacity)
      /\ UNCHANGED <<producer, items, got>>
  BY <1>1 DEF ProducerRelease
<1>3. /\ Len(consumer) < Capacity /\ consumer' \in Seq(Indices)
      /\ producer' \in Seq(Indices)
      /\ held' \in [Threads -> Indices \cup {None}]
      /\ consumer' = Append(consumer, i)
      /\ PlacesPartitioned'
  BY <1>1, <1>2, ReleaseStep
<1>4. TypeOK' /\ NeverAborts'
  <2>1. Len(consumer) \in Nat /\ Capacity \in Nat
    BY RingAssumption, LenProperties DEF TypeOK
  <2> QED
    BY <1>2, <1>3, <2>1 DEF TypeOK, NeverAborts
<1>5. /\ Contents \in Seq(Payloads \cup {None}) /\ Len(Contents) = Len(consumer)
  <2>1. Len(consumer) \in Nat /\ \A k \in 1 .. Len(consumer) : consumer[k] \in Indices
    BY LenProperties, ElementOfSeq DEF TypeOK
  <2>2. \A k \in 1 .. Len(consumer) : items[consumer[k]] \in Payloads \cup {None}
    BY <2>1 DEF TypeOK
  <2> QED
    BY <2>1, <2>2 DEF Contents
<1>6. Contents' = Append(Contents, items[i])
  <2>1. /\ Len(consumer') = Len(consumer) + 1 /\ Len(consumer) \in Nat
        /\ \A k \in 1 .. Len(consumer) : consumer'[k] = consumer[k]
        /\ consumer'[Len(consumer) + 1] = i
    BY <1>3, AppendProperties, LenProperties DEF TypeOK
  <2>2. items[i] \in Payloads \cup {None}
    BY DEF TypeOK
  <2>3. /\ Append(Contents, items[i]) \in Seq(Payloads \cup {None})
        /\ Len(Append(Contents, items[i])) = Len(consumer) + 1
        /\ \A k \in 1 .. Len(consumer) : Append(Contents, items[i])[k] = Contents[k]
        /\ Append(Contents, items[i])[Len(consumer) + 1] = items[i]
    BY <1>5, <2>2, AppendProperties
  <2>4. Contents' = [k \in 1 .. Len(consumer) + 1 |-> items[consumer'[k]]]
    BY <1>2, <2>1 DEF Contents
  <2>5. ASSUME NEW k \in 1 .. Len(consumer) + 1
        PROVE  items[consumer'[k]] = Append(Contents, items[i])[k]
               /\ items[consumer'[k]] \in Payloads \cup {None}
    <3>1. CASE k \in 1 .. Len(consumer)
      <4>1. Contents[k] = items[consumer[k]] /\ consumer[k] \in Indices
        BY <3>1, ElementOfSeq DEF Contents, TypeOK
      <4> QED
        BY <2>1, <2>3, <3>1, <4>1 DEF TypeOK
    <3>2. CASE k = Len(consumer) + 1
      BY <2>1, <2>2, <2>3, <3>2
    <3>3. k \in 1 .. Len(consumer) \/ k = Len(consumer) + 1
      BY <2>1
    <3> QED
      BY <3>1, <3>2, <3>3
  <2>6. Contents' \in Seq(Payloads \cup {None}) /\ Len(Contents') = Len(consumer) + 1
    BY <2>1, <2>4, <2>5
  <2>7. \A k \in 1 .. Len(consumer) + 1 : Contents'[k] = Append(Contents, items[i])[k]
    BY <2>4, <2>5
  <2> QED
    BY <2>3, <2>6, <2>7, SeqEqual
<1>7. items[i] \in Payloads \cup {None}
  BY DEF TypeOK
<1> QED
  BY <1>2, <1>3, <1>4, <1>5, <1>6, <1>7

LEMMA ConsumerReleaseStep ==
  ASSUME IInv, NEW c \in Threads, ConsumerRelease(c)
  PROVE  IInv' /\ Contents' = Contents
<1> USE DEF IInv
<1>1. PICK i \in Indices : i = held[c]
  BY DEF ConsumerRelease, TypeOK
<1>2. /\ held[c] # None /\ held' = [held EXCEPT ![c] = None]
      /\ producer' = PutPlace(producer, i)
      /\ aborted' = (aborted \/ Len(producer) >= Capacity)
      /\ UNCHANGED <<consumer, items, got>>
  BY <1>1 DEF ConsumerRelease
<1>3. /\ Len(producer) < Capacity /\ consumer' \in Seq(Indices)
      /\ producer' \in Seq(Indices)
      /\ held' \in [Threads -> Indices \cup {None}]
      /\ PlacesPartitioned'
  BY <1>1, <1>2, ReleaseStep
<1>4. Len(producer) \in Nat /\ Capacity \in Nat
  BY RingAssumption, LenProperties DEF TypeOK
<1> QED
  BY <1>2, <1>3, <1>4 DEF TypeOK, NeverAborts, Contents

LEMMA ConsumerAcquireStep ==
  ASSUME IInv, NEW c \in Threads, ConsumerAcquire(c)
  PROVE  /\ IInv'
         /\ Contents # <<>> /\ got' = Head(Contents) /\ Contents' = Tail(Contents)
<1> USE DEF IInv
<1> None \notin Indices
  BY RingAssumption DEF Indices
<1>1. /\ held[c] = None /\ consumer # <<>>
      /\ held' = [held EXCEPT ![c] = Head(consumer)] /\ consumer' = Tail(consumer)
      /\ got' = items[Head(consumer)]
      /\ UNCHANGED <<producer, items, aborted>>
  BY DEF ConsumerAcquire
<1>2. PICK i \in Indices : i = Head(consumer)
  BY <1>1, TailOfDistinct DEF TypeOK, PlacesPartitioned
<1>3. /\ consumer' \in Seq(Indices) /\ Distinct(consumer')
      /\ InQueue(i, consumer) /\ ~InQueue(i, consumer')
      /\ \A j : InQueue(j, consumer) <=> j = i \/ InQueue(j, consumer')
  BY <1>1, <1>2, TailOfDistinct DEF TypeOK, PlacesPartitioned
<1>4. /\ held'[c] = i /\ \A t \in Threads \ {c} : held'[t] = held[t]
      /\ held' \in [Threads -> Indices \cup {None}]
  BY <1>1, <1>2 DEF TypeOK
<1>5. TypeOK'
  BY <1>1, <1>2, <1>3, <1>4 DEF TypeOK
<1>6. PlacesPartitioned'
  <2>1. \A t \in Threads : held[t] # i
    BY <1>2, <1>3 DEF PlacesPartitioned
  <2>2. ASSUME NEW t \in Threads, held'[t] # None
        PROVE  /\ ~InQueue(held'[t], producer') /\ ~InQueue(held'[t], consumer')
               /\ \A u \in Threads : held'[u] = held'[t] => u = t
    BY <1>1, <1>2, <1>3, <1>4, <2>1, <2>2 DEF PlacesPartitioned
  <2>3. \A j \in Indices : \/ InQueue(j, producer') \/ InQueue(j, consumer')
                           \/ \E t \in Threads : held'[t] = j
    BY <1>1, <1>3, <1>4 DEF PlacesPartitioned
  <2>4. Distinct(producer') /\ \A j \in Indices : ~(InQueue(j, producer') /\ InQueue(j, consumer'))
    BY <1>1, <1>3 DEF PlacesPartitioned
  <2> QED
    BY <1>3, <2>2, <2>3, <2>4 DEF PlacesPartitioned
<1>7. /\ Len(consumer) \in Nat \ {0} /\ Len(consumer') = Len(consumer) - 1
      /\ \A k \in 1 .. Len(consumer) - 1 : consumer'[k] = consumer[k + 1]
      /\ consumer[1] = i
  BY <1>1, <1>2, EmptySeq, HeadTailProperties DEF TypeOK
<1>8. \A k \in 1 .. Len(consumer) : items[consumer[k]] \in Payloads \cup {None}
  <2> \A k \in 1 .. Len(consumer) : consumer[k] \in Indices
    BY ElementOfSeq DEF TypeOK
  <2> QED
    BY DEF TypeOK
<1>9. /\ Contents \in Seq(Payloads \cup {None}) /\ Len(Contents) = Len(consumer)
      /\ Contents # <<>> /\ Head(Contents) = items[i]
  BY <1>7, <1>8 DEF Contents
<1>10. Contents' = Tail(Contents)
  <2>1. \A k \in 1 .. Len(consumer) - 1 : k + 1 \in 1 .. Len(consumer)
    BY <1>7
  <2>2. Contents' = [k \in 1 .. Len(consumer) - 1 |-> items[consumer[k + 1]]]
    BY <1>1, <1>7 DEF Contents
  <2>3. Contents' \in Seq(Payloads \cup {None}) /\ Len(Contents') = Len(consumer) - 1
    BY <1>7, <1>8, <2>1, <2>2
  <2>4. /\ Tail(Contents) \in Seq(Payloads \cup {None})
        /\ Len(Tail(Contents)) = Len(consumer) - 1
        /\ \A k \in 1 .. Len(consumer) - 1 : Tail(Contents)[k] = Contents[k + 1]
    BY <1>9, HeadTailProperties
  <2>5. \A k \in 1 .. Len(consumer) - 1 : Contents'[k] = Tail(Contents)[k]
    <3>1. \A k \in 1 .. Len(consumer) : Contents[k] = items[consumer[k]]
      BY DEF Contents
    <3> QED
      BY <2>1, <2>2, <2>4, <3>1
  <2> QED
    BY <2>3, <2>4, <2>5, SeqEqual
<1> QED
  BY <1>1, <1>2, <1>5, <1>6, <1>9, <1>10 DEF NeverAborts

LEMMA Step ==
  ASSUME IInv, [Next]_vars
  PROVE  IInv' /\ [Fifo!Next]_<<Contents, got>>
<1>1. ASSUME NEW p \in Producers, ProducerAcquire(p)
      PROVE  IInv' /\ Contents' = Contents /\ got' = got
  BY <1>1, ProducerAcquireStep DEF ProducerAcquire, Threads
<1>2. ASSUME NEW p \in Producers, NEW x \in Payloads, Fill(p, x)
      PROVE  IInv' /\ Contents' = Contents /\ got' = got
  BY <1>2, FillStep DEF Fill, Threads
<1>3. ASSUME NEW p \in Producers, ProducerRelease(p)
      PROVE  IInv' /\ Fifo!Next
  <2>1. IInv' /\ \E e \in Payloads \cup {None} :
          Len(Contents) < Capacity /\ Contents' = Append(Contents, e) /\ got' = got
    BY <1>3, ProducerReleaseStep DEF Threads
  <2> QED
    BY <2>1 DEF Fifo!Next, Fifo!Put, Contents
<1>4. ASSUME NEW c \in Consumers, ConsumerAcquire(c)
      PROVE  IInv' /\ Fifo!Next
  <2>1. IInv' /\ Contents # <<>> /\ got' = Head(Contents) /\ Contents' = Tail(Contents)
    BY <1>4, ConsumerAcquireStep DEF Threads
  <2> QED
    BY <2>1 DEF Fifo!Next, Fifo!Get, Contents
<1>5. ASSUME NEW c \in Consumers, ConsumerRelease(c)
      PROVE  IInv' /\ Contents' = Contents /\ got' = got
  BY <1>5, ConsumerReleaseStep DEF ConsumerRelease, Threads
<1>6. CASE UNCHANGED vars
  BY <1>6 DEF vars, IInv, TypeOK, PlacesPartitioned, NeverAborts, Contents
<1> QED
  BY <1>1, <1>2, <1>3, <1>4, <1>5, <1>6 DEF Next

-----------------------------------------------------------------------------
\* IInv is an invariant of the ring.
THEOREM Invariance == Spec => []IInv
<1>1. Init => IInv
  BY InitIInv
<1>2. IInv /\ [Next]_vars => IInv'
  BY Step
<1> QED
  BY <1>1, <1>2, PTL DEF Spec

\* Type correctness.
THEOREM TypeCorrect == Spec => []TypeOK
  BY Invariance, PTL DEF IInv

\* No place is shared and none is lost, for any number of threads.
THEOREM NothingSharedOrLost == Spec => []PlacesPartitioned
  BY Invariance, PTL DEF IInv

\* The assertion of _release holds, for any number of threads.
THEOREM ReleaseNeverFails == Spec => []NeverAborts
  BY Invariance, PTL DEF IInv

\* Nobody writes to the item a consumer holds.
THEOREM ReadsAreStable == Spec => StableWhileRead
<1> DEFINE A == \A c \in Consumers : (held[c] # None /\ held'[c] = held[c])
                                        => items'[held[c]] = items[held[c]]
<1>1. ASSUME IInv, [Next]_vars PROVE [A]_vars
  <2> SUFFICES ASSUME Next, NEW c \in Consumers, held[c] # None
               PROVE  items'[held[c]] = items[held[c]]
    BY <1>1
  <2>1. ASSUME NEW p \in Producers, NEW x \in Payloads, Fill(p, x)
        PROVE  items'[held[c]] = items[held[c]]
    <3>1. held[p] # held[c] /\ held[c] \in Indices
      BY <1>1, <2>1, RingAssumption DEF IInv, PlacesPartitioned, Threads, TypeOK, Fill
    <3> QED
      BY <1>1, <2>1, <3>1 DEF Fill, IInv, TypeOK
  <2> QED
    BY <2>1 DEF Next, ProducerAcquire, ProducerRelease, ConsumerAcquire, ConsumerRelease
<1> QED
  BY <1>1, Invariance, PTL DEF Spec, StableWhileRead

\* The ring is a bounded FIFO of payloads.
THEOREM RingImplementsFifo == Spec => ImplementsFifo
<1>1. Init => Fifo!Init
  BY InitIInv
<1>2. IInv /\ [Next]_vars => [Fifo!Next]_Fifo!vars
  BY Step DEF Fifo!vars, Contents
<1> QED
  BY <1>1, <1>2, Invariance, PTL DEF Spec, ImplementsFifo, Fifo!Spec

=============================================================================
