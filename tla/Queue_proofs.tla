---------------------------- MODULE Queue_proofs ----------------------------
(***************************************************************************)
(* Proofs about module Queue: no wakeup is lost, and the circular array    *)
(* implements a bounded FIFO, for any number of threads and any capacity.  *)
(***************************************************************************)
EXTENDS Queue, Integers, SequenceTheorems, TLAPS

\* What is put is an element, and the head of the free slots is where the
\* elements end.
InEndsContents == in = (out + size) % Capacity
ArgsAreElements ==
  \A t \in Threads : pc[t] \in {"sleep_full", "woken_full"} => arg[t] \in Elements
StoredAreElements == \A i \in 1 .. size : items[(out + i - 1) % Capacity] \in Elements

IInv == /\ TypeOK /\ NoLostWakeup
        /\ InEndsContents /\ ArgsAreElements /\ StoredAreElements

-----------------------------------------------------------------------------
(* Arithmetic of the circular array *)

LEMMA ModSmall ==
  ASSUME NEW x \in 0 .. 2 * Capacity - 1
  PROVE  x % Capacity = IF x < Capacity THEN x ELSE x - Capacity
<1> Capacity \in Nat \ {0}
  BY QueueAssumption
<1>1. CASE x < Capacity
  <2> x \in 0 .. Capacity - 1
    BY <1>1
  <2> QED
    BY <1>1, SMT
<1>2. CASE ~(x < Capacity)
  <2> x \in Capacity .. 2 * Capacity - 1
    BY <1>2
  <2> QED
    BY <1>2, SMT
<1> QED
  BY <1>1, <1>2

\* The slot of the i-th element, counted from 1, when out is where it is.
Slot(o, i) == IF o + i - 1 < Capacity THEN o + i - 1 ELSE o + i - 1 - Capacity

LEMMA SlotOf ==
  ASSUME NEW o \in Slots, NEW i \in 1 .. Capacity
  PROVE  (o + i - 1) % Capacity = Slot(o, i) /\ Slot(o, i) \in Slots
<1> Capacity \in Nat \ {0} /\ o \in 0 .. Capacity - 1
  BY QueueAssumption DEF Slots
<1>1. o + i - 1 \in 0 .. 2 * Capacity - 1
  OBVIOUS
<1>2. (o + i - 1) % Capacity = Slot(o, i)
  BY <1>1, ModSmall DEF Slot
<1> QED
  BY <1>2 DEF Slot, Slots

\* Different positions have different slots.
LEMMA SlotsDiffer ==
  ASSUME NEW o \in Slots, NEW i \in 1 .. Capacity, NEW j \in 1 .. Capacity,
         Slot(o, i) = Slot(o, j)
  PROVE  i = j
  BY QueueAssumption DEF Slot, Slots

LEMMA NextSlot ==
  ASSUME NEW o \in Slots
  PROVE  /\ (o + 1) % Capacity \in Slots
         /\ \A i \in 1 .. Capacity - 1 : Slot((o + 1) % Capacity, i) = Slot(o, i + 1)
<1> Capacity \in Nat \ {0} /\ o \in 0 .. Capacity - 1
  BY QueueAssumption DEF Slots
<1>1. (o + 1) % Capacity = IF o + 1 < Capacity THEN o + 1 ELSE o + 1 - Capacity
  <2> o + 1 \in 0 .. 2 * Capacity - 1
    OBVIOUS
  <2> QED
    BY ModSmall
<1> QED
  BY <1>1 DEF Slot, Slots

\* What the invariant says of in and out, free of %.
LEMMA Positions ==
  ASSUME TypeOK, InEndsContents
  PROVE  /\ size < Capacity => in = Slot(out, size + 1)
         /\ size = Capacity => in = out
         /\ size > 0 => out = Slot(out, 1)
         /\ Contents = [i \in 1 .. size |-> items[Slot(out, i)]]
         /\ \A i \in 1 .. size : items[(out + i - 1) % Capacity] = items[Slot(out, i)]
<1> Capacity \in Nat \ {0} /\ out \in 0 .. Capacity - 1 /\ size \in 0 .. Capacity
      /\ out \in Slots
  BY QueueAssumption DEF TypeOK, Slots
<1>1. out + size \in 0 .. 2 * Capacity - 1
  OBVIOUS
<1>2. in = IF out + size < Capacity THEN out + size ELSE out + size - Capacity
  BY <1>1, ModSmall DEF InEndsContents
<1>3. \A i \in 1 .. size : (out + i - 1) % Capacity = Slot(out, i)
  BY SlotOf
<1>4. Contents = [i \in 1 .. size |-> items[Slot(out, i)]]
  BY <1>3 DEF Contents
<1>5. size < Capacity => in = Slot(out, size + 1)
  <2> out + (size + 1) - 1 = out + size
    OBVIOUS
  <2> QED
    BY <1>2 DEF Slot
<1>6. (size = Capacity => in = out) /\ out = Slot(out, 1)
  BY <1>2 DEF Slot
<1> QED
  BY <1>3, <1>4, <1>5, <1>6

-----------------------------------------------------------------------------
(* The two critical sections *)

LEMMA StoreContents ==
  ASSUME TypeOK, InEndsContents, StoredAreElements, size < Capacity,
         NEW t \in Threads, NEW e \in Elements, Store(t, e)
  PROVE  /\ items' \in [Slots -> Elements \cup {None}]
         /\ size' \in 0 .. Capacity /\ in' \in Slots
         /\ InEndsContents' /\ StoredAreElements'
         /\ Contents \in Seq(Elements) /\ Len(Contents) < Capacity
         /\ Contents' = Append(Contents, e)
<1> Capacity \in Nat \ {0} /\ out \in Slots /\ size \in 0 .. Capacity - 1 /\ in \in Slots
    /\ items \in [Slots -> Elements \cup {None}]
  BY QueueAssumption DEF TypeOK
<1>1. /\ items' = [items EXCEPT ![in] = e] /\ size' = size + 1 /\ out' = out
      /\ in' = (in + 1) % Capacity
  BY DEF Store
<1>2. in = Slot(out, size + 1) /\ in' \in Slots
  BY <1>1, Positions, NextSlot
<1>3. /\ \A i \in 1 .. size : Slot(out, i) \in Slots /\ Slot(out, i) # in
      /\ Slot(out, size + 1) \in Slots
  <2>1. \A i \in 1 .. size + 1 : Slot(out, i) \in Slots
    BY SlotOf
  <2>2. ASSUME NEW i \in 1 .. size, Slot(out, i) = Slot(out, size + 1) PROVE FALSE
    <3>1. i = size + 1
      BY <2>2, SlotsDiffer
    <3> QED
      BY <3>1
  <2> QED
    BY <1>2, <2>1, <2>2
<1>4. \A i \in 1 .. size : items'[Slot(out, i)] = items[Slot(out, i)]
  BY <1>1, <1>3
<1>5. items'[Slot(out, size + 1)] = e
  BY <1>1, <1>2, <1>3
<1>6. InEndsContents'
  <2>1. /\ out \in 0 .. Capacity - 1 /\ in \in 0 .. Capacity - 1
        /\ out + (size + 1) \in 0 .. 2 * Capacity - 1 /\ in + 1 \in 0 .. 2 * Capacity - 1
    BY DEF Slots
  <2>2. (in + 1) % Capacity = IF in + 1 < Capacity THEN in + 1 ELSE in + 1 - Capacity
    BY <2>1, ModSmall
  <2>3. (out + (size + 1)) % Capacity = IF out + (size + 1) < Capacity
          THEN out + (size + 1) ELSE out + (size + 1) - Capacity
    BY <2>1, ModSmall
  <2> QED
    BY <1>1, <1>2, <2>1, <2>2, <2>3 DEF InEndsContents, Slot
<1>7. \A i \in 1 .. size : items[Slot(out, i)] \in Elements
  BY Positions DEF StoredAreElements
<1>8. \A i \in 1 .. size + 1 : (out + i - 1) % Capacity = Slot(out, i)
  BY SlotOf
<1>9. StoredAreElements'
  BY <1>1, <1>4, <1>5, <1>7, <1>8 DEF StoredAreElements
<1>10. Contents = [i \in 1 .. size |-> items[Slot(out, i)]]
  BY Positions
<1>11. Contents' = [i \in 1 .. size + 1 |-> items'[Slot(out, i)]]
  BY <1>1, <1>8 DEF Contents
<1>12. Contents \in Seq(Elements) /\ Len(Contents) = size
  BY <1>7, <1>10
<1>13. Contents' = Append(Contents, e)
  <2>1. Contents' \in Seq(Elements) /\ Len(Contents') = size + 1
    BY <1>4, <1>5, <1>7, <1>11
  <2>2. /\ Append(Contents, e) \in Seq(Elements) /\ Len(Append(Contents, e)) = size + 1
        /\ \A i \in 1 .. size : Append(Contents, e)[i] = Contents[i]
        /\ Append(Contents, e)[size + 1] = e
    BY <1>12, AppendProperties
  <2>3. ASSUME NEW i \in 1 .. size + 1 PROVE Contents'[i] = Append(Contents, e)[i]
    <3>1. CASE i \in 1 .. size
      <4>1. Contents'[i] = items'[Slot(out, i)]
        BY <1>11
      <4>2. Contents[i] = items[Slot(out, i)]
        BY <1>10, <3>1
      <4>3. Append(Contents, e)[i] = Contents[i] /\ items'[Slot(out, i)] = items[Slot(out, i)]
        BY <1>4, <2>2, <3>1
      <4> QED
        BY <4>1, <4>2, <4>3
    <3>2. CASE i = size + 1
      <4>1. Contents'[i] = items'[Slot(out, i)]
        BY <1>11
      <4>2. items'[Slot(out, i)] = e /\ Append(Contents, e)[i] = e
        BY <1>5, <2>2, <3>2
      <4> QED
        BY <4>1, <4>2
    <3>3. i \in 1 .. size \/ i = size + 1
      OBVIOUS
    <3> QED
      BY <3>1, <3>2, <3>3
  <2> QED
    BY <2>1, <2>2, <2>3, SeqEqual
<1> QED
  BY <1>1, <1>2, <1>6, <1>9, <1>12, <1>13

LEMMA LoadContents ==
  ASSUME TypeOK, InEndsContents, StoredAreElements, size > 0,
         NEW t \in Threads, Load(t)
  PROVE  /\ size' \in 0 .. Capacity /\ out' \in Slots
         /\ InEndsContents' /\ StoredAreElements'
         /\ got' \in Elements
         /\ Contents # <<>>
         /\ got' = Head(Contents) /\ Contents' = Tail(Contents)
<1> Capacity \in Nat \ {0} /\ out \in Slots /\ size \in 1 .. Capacity /\ in \in Slots
  BY QueueAssumption DEF TypeOK
<1>1. /\ got' = items[out] /\ size' = size - 1 /\ items' = items /\ in' = in
      /\ out' = (out + 1) % Capacity
  BY DEF Load
<1>2. out' \in Slots /\ \A i \in 1 .. size - 1 : Slot(out', i) = Slot(out, i + 1)
  BY <1>1, NextSlot
<1>3. \A i \in 1 .. size - 1 : (out' + i - 1) % Capacity = Slot(out', i)
  BY <1>2, SlotOf
<1>4. \A i \in 1 .. size : items[Slot(out, i)] \in Elements
  BY Positions DEF StoredAreElements
<1>5. StoredAreElements'
  <2> \A i \in 1 .. size - 1 : i + 1 \in 1 .. size
    OBVIOUS
  <2> QED
    BY <1>1, <1>2, <1>3, <1>4 DEF StoredAreElements
<1>6. InEndsContents'
  <2>1. /\ out \in 0 .. Capacity - 1 /\ in \in 0 .. Capacity - 1
        /\ out + size \in 0 .. 2 * Capacity - 1 /\ out + 1 \in 0 .. 2 * Capacity - 1
    BY DEF Slots
  <2>2. out' = IF out + 1 < Capacity THEN out + 1 ELSE out + 1 - Capacity
    BY <1>1, <2>1, ModSmall
  <2>3. in = IF out + size < Capacity THEN out + size ELSE out + size - Capacity
    BY <2>1, ModSmall DEF InEndsContents
  <2> DEFINE x == out' + (size - 1)
  <2>4. x \in 0 .. 2 * Capacity - 1
    BY <2>1, <2>2
  <2> HIDE DEF x
  <2>5. x % Capacity = IF x < Capacity THEN x ELSE x - Capacity
    BY <2>4, ModSmall
  <2> QED
    BY <1>1, <2>1, <2>2, <2>3, <2>5 DEF InEndsContents, x
<1>7. Contents = [i \in 1 .. size |-> items[Slot(out, i)]] /\ out = Slot(out, 1)
  BY Positions
<1>8. Contents \in Seq(Elements) /\ Len(Contents) = size /\ Contents # <<>>
  BY <1>4, <1>7
<1>9. got' = Head(Contents) /\ got' \in Elements
  BY <1>1, <1>4, <1>7, <1>8
<1>10. Contents' = [i \in 1 .. size - 1 |-> items[Slot(out, i + 1)]]
  BY <1>1, <1>2, <1>3 DEF Contents
<1>11. Contents' = Tail(Contents)
  <2>1. /\ Tail(Contents) \in Seq(Elements) /\ Len(Tail(Contents)) = size - 1
        /\ \A i \in 1 .. size - 1 : Tail(Contents)[i] = Contents[i + 1]
    BY <1>8, HeadTailProperties
  <2>2. \A i \in 1 .. size - 1 : i + 1 \in 1 .. size
    OBVIOUS
  <2>3. Contents' \in Seq(Elements) /\ Len(Contents') = size - 1
    BY <1>4, <1>10, <2>2
  <2>4. \A i \in 1 .. size - 1 : Contents'[i] = Tail(Contents)[i]
    BY <1>7, <1>10, <2>1, <2>2
  <2> QED
    BY <2>1, <2>3, <2>4, SeqEqual
<1> QED
  BY <1>1, <1>2, <1>5, <1>6, <1>8, <1>9, <1>11

-----------------------------------------------------------------------------
(* The invariant *)

\* A step that leaves the array alone and makes no one miss a wakeup.
LEMMA PcStep ==
  ASSUME IInv, UNCHANGED <<items, size, in, out>>,
         pc' \in [Threads -> PCs], arg' \in [Threads -> Elements \cup {None}],
         got' \in Elements \cup {None},
         ArgsAreElements', NoLostWakeup'
  PROVE  IInv' /\ Contents' = Contents
<1>1. Contents' = Contents
  BY DEF Contents
<1>2. InEndsContents' /\ StoredAreElements' /\ TypeOK'
  BY DEF IInv, InEndsContents, StoredAreElements, TypeOK
<1> QED
  BY <1>1, <1>2 DEF IInv

LEMMA StoreStep ==
  ASSUME IInv, NEW t \in Threads, NEW e \in Elements, size < Capacity,
         pc[t] \in {"idle", "woken_full"}, Store(t, e)
  PROVE  IInv' /\ Contents' = Append(Contents, e) /\ Len(Contents) < Capacity
         /\ got' = got
<1> USE DEF IInv
<1>1. /\ items' \in [Slots -> Elements \cup {None}]
      /\ size' \in 0 .. Capacity /\ in' \in Slots
      /\ InEndsContents' /\ StoredAreElements'
      /\ Contents \in Seq(Elements) /\ Len(Contents) < Capacity
      /\ Contents' = Append(Contents, e)
  BY StoreContents
<1>2. /\ pc' = [pc EXCEPT ![t] = "bcast_empty"] /\ arg' = [arg EXCEPT ![t] = None]
      /\ size' = size + 1 /\ UNCHANGED <<out, got>>
  BY DEF Store, Go
<1>3. TypeOK'
  BY <1>1, <1>2 DEF TypeOK, PCs, Sleeping
<1>4. ArgsAreElements'
  BY <1>2 DEF ArgsAreElements, TypeOK
<1>5. NoLostWakeup'
  <2>1. pc'[t] = "bcast_empty" /\ \A u \in Threads \ {t} : pc'[u] = pc[u]
    BY <1>2 DEF TypeOK
  <2>2. ASSUME NEW u \in Threads, pc'[u] = "sleep_full"
        PROVE  \E v \in Threads : pc'[v] = "bcast_full"
    <3>1. PICK v \in Threads : pc[v] = "bcast_full"
      BY <2>1, <2>2 DEF NoLostWakeup
    <3> QED
      BY <2>1, <3>1
  <2> QED
    BY <2>1, <2>2 DEF NoLostWakeup
<1> QED
  BY <1>1, <1>2, <1>3, <1>4, <1>5

LEMMA LoadStep ==
  ASSUME IInv, NEW t \in Threads, size > 0, pc[t] \in {"idle", "woken_empty"}, Load(t)
  PROVE  IInv' /\ Contents # <<>> /\ got' = Head(Contents) /\ Contents' = Tail(Contents)
<1> USE DEF IInv
<1>1. /\ size' \in 0 .. Capacity /\ out' \in Slots
      /\ InEndsContents' /\ StoredAreElements'
      /\ got' \in Elements
      /\ Contents # <<>>
      /\ got' = Head(Contents) /\ Contents' = Tail(Contents)
  BY LoadContents
<1>2. /\ pc' = [pc EXCEPT ![t] = "bcast_full"]
      /\ size' = size - 1 /\ UNCHANGED <<items, in, arg>>
  BY DEF Load, Go
<1>3. TypeOK'
  BY <1>1, <1>2 DEF TypeOK, PCs, Sleeping
<1>4. ArgsAreElements'
  BY <1>2 DEF ArgsAreElements, TypeOK
<1>5. NoLostWakeup'
  <2>1. pc'[t] = "bcast_full" /\ \A u \in Threads \ {t} : pc'[u] = pc[u]
    BY <1>2 DEF TypeOK
  <2>2. ASSUME NEW u \in Threads, pc'[u] = "sleep_empty"
        PROVE  \E v \in Threads : pc'[v] = "bcast_empty"
    <3>1. PICK v \in Threads : pc[v] = "bcast_empty"
      BY <2>1, <2>2 DEF NoLostWakeup
    <3> QED
      BY <2>1, <3>1
  <2> QED
    BY <2>1, <2>2 DEF NoLostWakeup
<1> QED
  BY <1>1, <1>2, <1>3, <1>4, <1>5

\* Where a thread falls asleep the condition it waits for is false.
LEMMA SleepStep ==
  ASSUME IInv, NEW t \in Threads, UNCHANGED <<items, size, in, out, got>>,
         pc[t] \in {"idle", "woken_full", "woken_empty"},
         \/ size = Capacity /\ Go(t, "sleep_full") /\ arg'[t] \in Elements
         \/ size = 0 /\ Go(t, "sleep_empty") /\ arg' = arg,
         \E e \in Elements \cup {None} : arg' = [arg EXCEPT ![t] = e]
  PROVE  IInv' /\ Contents' = Contents
<1> USE DEF IInv
<1>1. /\ pc' \in [Threads -> PCs] /\ arg' \in [Threads -> Elements \cup {None}]
      /\ \A u \in Threads \ {t} : pc'[u] = pc[u] /\ arg'[u] = arg[u]
      /\ pc'[t] \in {"sleep_full", "sleep_empty"}
  BY DEF TypeOK, Go, PCs, Sleeping
<1>2. ArgsAreElements'
  BY <1>1 DEF ArgsAreElements, Go, TypeOK
<1>3. NoLostWakeup'
  <2>1. ASSUME size > 0, NEW u \in Threads, pc'[u] = "sleep_empty"
        PROVE  \E v \in Threads : pc'[v] = "bcast_empty"
    <3>1. PICK v \in Threads : pc[v] = "bcast_empty"
      BY <1>1, <2>1 DEF NoLostWakeup, Go, TypeOK
    <3> QED
      BY <1>1, <3>1
  <2>2. ASSUME size < Capacity, NEW u \in Threads, pc'[u] = "sleep_full"
        PROVE  \E v \in Threads : pc'[v] = "bcast_full"
    <3>1. PICK v \in Threads : pc[v] = "bcast_full"
      BY <1>1, <2>2 DEF NoLostWakeup, Go, TypeOK
    <3> QED
      BY <1>1, <3>1
  <2> QED
    BY <2>1, <2>2 DEF NoLostWakeup
<1> QED
  BY <1>1, <1>2, <1>3, PcStep DEF TypeOK

LEMMA TimedOutStep ==
  ASSUME IInv, NEW t \in Threads, TimedOut(t)
  PROVE  IInv' /\ Contents' = Contents
<1> USE DEF IInv
<1>1. /\ pc' = [pc EXCEPT ![t] = "idle"] /\ arg' = [arg EXCEPT ![t] = None]
      /\ pc[t] \in Sleeping /\ UNCHANGED <<items, size, in, out, got>>
  BY DEF TimedOut, Go
<1>2. /\ pc' \in [Threads -> PCs] /\ arg' \in [Threads -> Elements \cup {None}]
  BY <1>1 DEF TypeOK, PCs
<1>3. ArgsAreElements' /\ NoLostWakeup'
  BY <1>1 DEF ArgsAreElements, NoLostWakeup, TypeOK, Sleeping
<1> QED
  BY <1>1, <1>2, <1>3, PcStep DEF TypeOK

LEMMA BroadcastStep ==
  ASSUME IInv, NEW t \in Threads, Broadcast(t)
  PROVE  IInv' /\ Contents' = Contents
<1> USE DEF IInv
<1>1. UNCHANGED <<items, size, in, out, arg, got>>
  BY DEF Broadcast
<1>2. CASE /\ pc[t] = "bcast_empty"
           /\ pc' = [WakeAll("sleep_empty", "woken_empty") EXCEPT ![t] = "idle"]
  <2>1. /\ pc' \in [Threads -> PCs] /\ pc'[t] = "idle"
        /\ \A u \in Threads \ {t} :
             pc'[u] = IF pc[u] = "sleep_empty" THEN "woken_empty" ELSE pc[u]
    BY <1>2 DEF WakeAll, TypeOK, PCs
  <2>2. ArgsAreElements'
    BY <1>1, <2>1 DEF ArgsAreElements
  <2>3. NoLostWakeup'
    BY <1>1, <1>2, <2>1 DEF NoLostWakeup
  <2> QED
    BY <1>1, <2>1, <2>2, <2>3, PcStep DEF TypeOK
<1>3. CASE /\ pc[t] = "bcast_full"
           /\ pc' = [WakeAll("sleep_full", "woken_full") EXCEPT ![t] = "idle"]
  <2>1. /\ pc' \in [Threads -> PCs] /\ pc'[t] = "idle"
        /\ \A u \in Threads \ {t} :
             pc'[u] = IF pc[u] = "sleep_full" THEN "woken_full" ELSE pc[u]
    BY <1>3 DEF WakeAll, TypeOK, PCs
  <2>2. ArgsAreElements'
    BY <1>1, <2>1 DEF ArgsAreElements
  <2>3. NoLostWakeup'
    BY <1>1, <1>3, <2>1 DEF NoLostWakeup
  <2> QED
    BY <1>1, <2>1, <2>2, <2>3, PcStep DEF TypeOK
<1> QED
  BY <1>2, <1>3 DEF Broadcast

\* Every step keeps the invariant and is a step of the FIFO, or none.
LEMMA Step ==
  ASSUME IInv, [Next]_vars
  PROVE  IInv' /\ [Fifo!Next]_<<Contents, got>>
<1> USE DEF IInv
<1>1. ASSUME NEW t \in Threads, NEW e \in Elements, PutNow(t, e) \/ PutSleep(t, e)
      PROVE  IInv' /\ [Fifo!Next]_<<Contents, got>>
  <2>1. CASE PutNow(t, e)
    BY <2>1, StoreStep DEF PutNow, Fifo!Next, Fifo!Put
  <2>2. CASE PutSleep(t, e)
    <3>1. arg'[t] \in Elements /\ arg' = [arg EXCEPT ![t] = e]
      BY <2>2 DEF PutSleep, TypeOK
    <3> QED
      BY <2>2, <3>1, SleepStep DEF PutSleep
  <2> QED
    BY <1>1, <2>1, <2>2
<1>2. ASSUME NEW t \in Threads, PutWoken(t)
      PROVE  IInv' /\ [Fifo!Next]_<<Contents, got>>
  <2>1. pc[t] = "woken_full" /\ arg[t] \in Elements /\ arg = [arg EXCEPT ![t] = arg[t]]
    BY <1>2 DEF PutWoken, ArgsAreElements, TypeOK
  <2>2. CASE size < Capacity /\ Store(t, arg[t])
    BY <2>1, <2>2, StoreStep DEF Fifo!Next, Fifo!Put
  <2>3. CASE /\ size = Capacity /\ Go(t, "sleep_full")
             /\ UNCHANGED <<items, size, in, out, arg, got>>
    <3>1. arg'[t] \in Elements /\ arg' = [arg EXCEPT ![t] = arg[t]]
      BY <2>1, <2>3
    <3> QED
      BY <2>1, <2>3, <3>1, SleepStep
  <2> QED
    BY <1>2, <2>2, <2>3 DEF PutWoken
<1>3. ASSUME NEW t \in Threads, Get(t)
      PROVE  IInv' /\ [Fifo!Next]_<<Contents, got>>
  <2>1. CASE size > 0 /\ Load(t)
    BY <1>3, <2>1, LoadStep DEF Get, Fifo!Next, Fifo!Get
  <2>2. CASE /\ size = 0 /\ Go(t, "sleep_empty")
             /\ UNCHANGED <<items, size, in, out, arg, got>>
    <3>1. arg[t] \in Elements \cup {None} /\ arg' = [arg EXCEPT ![t] = arg[t]]
      BY <2>2 DEF TypeOK
    <3> QED
      BY <1>3, <2>2, <3>1, SleepStep DEF Get
  <2> QED
    BY <1>3, <2>1, <2>2 DEF Get
<1>4. ASSUME NEW t \in Threads, TimedOut(t) \/ Broadcast(t)
      PROVE  IInv' /\ [Fifo!Next]_<<Contents, got>>
  BY <1>4, TimedOutStep, BroadcastStep DEF TimedOut, Broadcast
<1>5. CASE UNCHANGED vars
  <2>1. UNCHANGED <<items, size, in, out, pc, arg, got>>
    BY <1>5 DEF vars
  <2> QED
    BY <2>1, PcStep DEF TypeOK, ArgsAreElements, NoLostWakeup
<1> QED
  BY <1>1, <1>2, <1>3, <1>4, <1>5 DEF Next

LEMMA InitIInv == Init => IInv /\ Fifo!Init
<1> SUFFICES ASSUME Init PROVE IInv /\ Fifo!Init
  OBVIOUS
<1> Capacity \in Nat \ {0}
  BY QueueAssumption
<1>1. TypeOK
  BY DEF Init, TypeOK, Slots, PCs
<1>2. 0 % Capacity = 0
  <2> 0 \in 0 .. 2 * Capacity - 1
    OBVIOUS
  <2> QED
    BY ModSmall
<1>3. InEndsContents
  BY <1>2 DEF Init, InEndsContents
<1>4. ArgsAreElements /\ NoLostWakeup /\ StoredAreElements
  BY DEF Init, ArgsAreElements, NoLostWakeup, StoredAreElements
<1>5. Contents = <<>>
  BY DEF Init, Contents
<1> QED
  BY <1>1, <1>3, <1>4, <1>5 DEF IInv, Fifo!Init, Init

-----------------------------------------------------------------------------
\* IInv is an invariant of the queue.
THEOREM Invariance == Spec => []IInv
<1>1. Init => IInv
  BY InitIInv
<1>2. IInv /\ [Next]_vars => IInv'
  BY Step
<1> QED
  BY <1>1, <1>2, PTL DEF Spec

\* size, in and out never leave their bounds.
THEOREM TypeCorrect == Spec => []TypeOK
  BY Invariance, PTL DEF IInv

\* Broadcasting after the unlock loses no wakeup, for any number of threads.
THEOREM WakeupsKept == Spec => []NoLostWakeup
  BY Invariance, PTL DEF IInv

\* The circular array is a bounded FIFO.
THEOREM QueueImplementsFifo == Spec => ImplementsFifo
<1>1. Init => Fifo!Init
  BY InitIInv
<1>2. IInv /\ [Next]_vars => [Fifo!Next]_<<Contents, got>>
  BY Step
<1> QED
  BY <1>1, <1>2, Invariance, PTL DEF Spec, ImplementsFifo, Fifo!Spec, Fifo!vars

=============================================================================
