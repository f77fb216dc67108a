------------------------------- MODULE Ring --------------------------------
(***************************************************************************)
(* libs/ring.c: a pool of `Capacity' reusable items passed from producer   *)
(* threads to consumer threads through two queues of indices:  `producer'   *)
(* holds the free ones, `consumer' the filled ones.  A thread fills or      *)
(* reads an item between its acquire and its release, with no lock held.    *)
(*                                                                         *)
(* The queues are those of module Queue, used through BoundedFifo.          *)
(***************************************************************************)
EXTENDS Naturals, Sequences, DistinctSeq

CONSTANTS Producers, Consumers, Capacity, Payloads, None

ASSUME RingAssumption ==
  /\ Capacity \in Nat \ {0}
  /\ None \notin Payloads
  /\ None \notin Nat
  /\ Producers \cap Consumers = {}

VARIABLES
  producer, consumer,  \* us_ring_s: the two queues of places
  items,               \* us_ring_s.items: what each item holds
  held,                \* the index each thread has acquired and not released
  got,                 \* the payload of the item acquired last by a consumer
  aborted              \* an assert() failed

vars == <<producer, consumer, items, held, got, aborted>>

Indices == 0 .. Capacity - 1
Threads == Producers \cup Consumers

TypeOK ==
  /\ producer \in Seq(Indices)
  /\ consumer \in Seq(Indices)
  /\ items \in [Indices -> Payloads \cup {None}]
  /\ held \in [Threads -> Indices \cup {None}]
  /\ got \in Payloads \cup {None}
  /\ aborted \in BOOLEAN

\* us_ring_init: every place is free, in order.
Init ==
  /\ producer = [i \in 1 .. Capacity |-> i - 1]
  /\ consumer = <<>>
  /\ items = [i \in Indices |-> None]
  /\ held = [t \in Threads |-> None]
  /\ got = None
  /\ aborted = FALSE

\* us_queue_put(queue, place, 0): a full queue takes nothing.
PutPlace(queue, place) ==
  IF Len(queue) < Capacity THEN Append(queue, place) ELSE queue

\* Mutant: the place stays in the queue while it is held.
ProducerPeek(p) ==
  /\ held[p] = None
  /\ producer # <<>>
  /\ held' = [held EXCEPT ![p] = Head(producer)]
  /\ UNCHANGED <<producer, consumer, items, got, aborted>>

\* _acquire on an empty queue returns -1 and changes nothing.
ProducerAcquire(p) ==
  /\ held[p] = None
  /\ producer # <<>>
  /\ held' = [held EXCEPT ![p] = Head(producer)]
  /\ producer' = Tail(producer)
  /\ UNCHANGED <<consumer, items, got, aborted>>

\* The producer's stores into the item it holds: any number of them, or none
\* (the sink thread of the Janus plugin releases an item it failed to fill).
Fill(p, payload) ==
  /\ held[p] # None
  /\ items' = [items EXCEPT ![held[p]] = payload]
  /\ UNCHANGED <<producer, consumer, held, got, aborted>>

\* _release: assert(!us_queue_put(queue, place, 0)).
ProducerRelease(p) ==
  /\ held[p] # None
  /\ consumer' = PutPlace(consumer, held[p])
  /\ aborted' = (aborted \/ Len(consumer) >= Capacity)
  /\ held' = [held EXCEPT ![p] = None]
  /\ UNCHANGED <<producer, items, got>>

\* Mutant: the newest item first.
ConsumerAcquireNewest(c) ==
  /\ held[c] = None
  /\ consumer # <<>>
  /\ held' = [held EXCEPT ![c] = consumer[Len(consumer)]]
  /\ consumer' = SubSeq(consumer, 1, Len(consumer) - 1)
  /\ got' = items[consumer[Len(consumer)]]
  /\ UNCHANGED <<producer, items, aborted>>

ConsumerAcquire(c) ==
  /\ held[c] = None
  /\ consumer # <<>>
  /\ held' = [held EXCEPT ![c] = Head(consumer)]
  /\ consumer' = Tail(consumer)
  /\ got' = items[Head(consumer)]
  /\ UNCHANGED <<producer, items, aborted>>

\* Mutant: an item may be released twice.
ConsumerReleaseAgain(c) ==
  /\ held[c] # None
  /\ producer' = PutPlace(producer, held[c])
  /\ aborted' = (aborted \/ Len(producer) >= Capacity)
  /\ UNCHANGED <<consumer, items, held, got>>

\* Mutant: the consumer forgets to give the item back.
ConsumerForgets(c) ==
  /\ held[c] # None
  /\ held' = [held EXCEPT ![c] = None]
  /\ UNCHANGED <<producer, consumer, items, got, aborted>>

ConsumerRelease(c) ==
  /\ held[c] # None
  /\ producer' = PutPlace(producer, held[c])
  /\ aborted' = (aborted \/ Len(producer) >= Capacity)
  /\ held' = [held EXCEPT ![c] = None]
  /\ UNCHANGED <<consumer, items, got>>

Next ==
  \/ \E p \in Producers : \/ ProducerAcquire(p)
                          \/ \E x \in Payloads : Fill(p, x)
                          \/ ProducerRelease(p)
  \/ \E c \in Consumers : ConsumerAcquire(c) \/ ConsumerRelease(c)

Spec == Init /\ [][Next]_vars

\* Threads that hold an item release it, a producer that spins on an empty
\* ring tries again, and the consumer polls: what the thread loops do.
Fairness ==
  /\ \A p \in Producers : WF_vars(ProducerAcquire(p)) /\ WF_vars(ProducerRelease(p))
  /\ \A c \in Consumers : WF_vars(ConsumerAcquire(c)) /\ WF_vars(ConsumerRelease(c))

FairSpec == Spec /\ Fairness

-----------------------------------------------------------------------------
\* No place is shared: the two queues repeat nothing and share nothing, and a
\* place that a thread holds is in no queue and held by no other thread, which
\* is what lets the items be filled and read unlocked.  And no place is lost:
\* each is in a queue or in the hands of a thread.
PlacesPartitioned ==
  /\ Distinct(producer) /\ Distinct(consumer)
  /\ \A i \in Indices : ~(InQueue(i, producer) /\ InQueue(i, consumer))
  /\ \A t \in Threads : held[t] # None =>
       /\ ~InQueue(held[t], producer) /\ ~InQueue(held[t], consumer)
       /\ \A u \in Threads : held[u] = held[t] => u = t
  /\ \A i \in Indices : \/ InQueue(i, producer) \/ InQueue(i, consumer)
                        \/ \E t \in Threads : held[t] = i

\* assert(!us_queue_put(...)) in _release never fails: the queue a place goes
\* back to always has room for it.
NeverAborts == ~aborted

\* The item a consumer reads does not change under it.
StableWhileRead ==
  [][\A c \in Consumers : (held[c] # None /\ held'[c] = held[c])
                             => items'[held[c]] = items[held[c]]]_vars

\* What consumers acquire is what producers released, once and in that order:
\* the ring of places and items is a bounded FIFO of payloads.
Fifo == INSTANCE BoundedFifo WITH
          fifo <- [k \in 1 .. Len(consumer) |-> items[consumer[k]]],
          Elements <- Payloads \cup {None}
ImplementsFifo == Fifo!Spec

\* A producer without an item (one that spins in _stream_expose_jpeg, too) gets
\* one as long as consumers run: the ring cannot run dry for good.
ProducerGetsItem == \A p \in Producers : held[p] = None ~> held[p] # None

=============================================================================
